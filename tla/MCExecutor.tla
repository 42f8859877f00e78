----------------------------- MODULE MCExecutor -----------------------------
(***************************************************************************)
(* Instances of the executor for TLC.                                      *)
(***************************************************************************)
EXTENDS Executor, TLC

CONSTANTS a, b, x, y

\* b refers to a, and everything the two may be declared as.
Chain(cbd, rollback) ==
    [deps |-> [n \in {a, b} |-> IF n = b THEN {a} ELSE {}], cbd |-> cbd, rollback |-> rollback,
     configs |-> {c \in [{a, b} -> Wanted] : c[b] # Undeclared => c[a] # Undeclared}]

\* Two nodes that know nothing of each other, each with its own kind of replace.
Apart ==
    [deps |-> [n \in {a, b} |-> {}], cbd |-> {b}, rollback |-> TRUE,
     configs |-> {c \in [{a, b} -> Wanted] : c[a] # Undeclared}]

Alone(cbd) ==
    [deps |-> [n \in {a} |-> {}], cbd |-> cbd, rollback |-> TRUE, configs |-> [{a} -> Wanted]]

\* With b declared, cbd = {b} makes a create-first as well.
TwoNodes == {Chain({}, TRUE), Chain({a}, TRUE), Chain({b}, TRUE), Chain({b}, FALSE), Apart}
DestroyFirstAlone == {Alone({})}
CreateFirstAlone == {Alone({a})}

NamesAlike == Permutations(Names)
=============================================================================
