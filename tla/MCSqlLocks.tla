----------------------------- MODULE MCSqlLocks -----------------------------
(***************************************************************************)
(* Small instances of the SQL lock table for TLC.  Runs are interchangeable *)
(* in the model, so their permutations are one state.                       *)
(***************************************************************************)
EXTENDS SqlLocks, TLC

CONSTANTS a, b, r1, r2, r3

OneScope == {{a}}
BothNodes == {{a, b}}
Symmetry == Permutations(Runs)
=============================================================================
