----------------------------- MODULE MCS3Locks -----------------------------
(***************************************************************************)
(* S3Locks for TLC: two runs over two nodes claimed as two chunks, with a  *)
(* clock that runs behind, an operator who breaks a hold and a crash.      *)
(***************************************************************************)
EXTENDS S3Locks, TLC

CONSTANTS r1, r2, n1, n2

TwoRuns == {r1, r2}
TwoNodes == {n1, n2}
BothNodes == {{n1, n2}}
ChunkPerNode == {{n1}, {n2}}
\* r1's clock runs one unit behind the other's and the store's.
Behind == [r \in Runs |-> IF r = r1 THEN -1 ELSE 0]

NodesAlike == Permutations(TwoNodes)
=============================================================================
