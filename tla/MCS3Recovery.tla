---------------------------- MODULE MCS3Recovery ----------------------------
(***************************************************************************)
(* Small instances of the recovery for TLC: one item, two runs, a fold and *)
(* one loss of tables, with fsck under way beside two leases, and with     *)
(* three leases and no check.  The runs are interchangeable.               *)
(***************************************************************************)
EXTENDS S3Recovery, TLC

CONSTANTS a, r1, r2

RunSymmetry == Permutations(Runs)

Checked == [leases |-> 2, puts |-> 2, folds |-> 1, losses |-> 1, checks |-> TRUE]
Contended == [Checked EXCEPT !.leases = 3, !.checks = FALSE]

CheckedAndContended == {Checked, Contended}
=============================================================================
