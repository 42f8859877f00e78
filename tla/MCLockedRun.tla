----------------------------- MODULE MCLockedRun -----------------------------
(***************************************************************************)
(* Small instances of LockedRun: two tasks of the three kinds, writing     *)
(* under one key or two, on one writer thread, two, or none.               *)
(***************************************************************************)
EXTENDS LockedRun

CONSTANTS a, b, k, l
MCNodes == {a, b}
MCKeys == {k, l}

Apart == [n \in MCNodes |-> IF n = a THEN k ELSE l]
Together == [n \in MCNodes |-> k]
With(kind) == [n \in MCNodes |-> IF n = a THEN "apply" ELSE kind]

\* A pool on a SQL server, the pool of one writer on S3, and an inline backend.
MCSetups ==
    {[offload |-> TRUE, workers |-> 2, reacquires |-> TRUE, kind |-> With("apply"), key |-> Together],
     [offload |-> TRUE, workers |-> 2, reacquires |-> TRUE, kind |-> With("forget"), key |-> Apart],
     [offload |-> TRUE, workers |-> 1, reacquires |-> FALSE, kind |-> With("forget"), key |-> Apart],
     [offload |-> FALSE, workers |-> 1, reacquires |-> TRUE, kind |-> With("cleanup"), key |-> Apart]}
=============================================================================
