---------------------------- MODULE MCStateAdmin ----------------------------
(***************************************************************************)
(* Two operators, two rows, three commands in all: the fewest that take a  *)
(* backup, write behind it, and restore it.                                 *)
(***************************************************************************)
EXTENDS StateAdmin, TLC

MCCommands ==
    {[kind |-> "apply", store |-> "remote", nodes |-> {"a", "b"}]}
    \cup {[kind |-> "import", store |-> s, nodes |-> {"b"}] : s \in {"local", "remote"}}
    \cup {[kind |-> "backup", store |-> "remote"]}
    \cup {[kind |-> "restore", store |-> "remote", force |-> f] : f \in BOOLEAN}
    \cup {[kind |-> "rm", store |-> "remote", nodes |-> {"a"}, backup |-> b] : b \in BOOLEAN}
    \cup {[kind |-> "migrate", store |-> "local", to |-> "remote", force |-> f] : f \in BOOLEAN}
    \cup {[kind |-> "unlock", store |-> "remote"]}
\* Back from the remote store, and the holds of a run that is gone.
MCCommandsBack ==
    {[kind |-> "migrate", store |-> "remote", to |-> "local", force |-> TRUE]}
    \cup {[kind |-> "import", store |-> "remote", nodes |-> {n}] : n \in {"a", "b"}}
    \cup {[kind |-> "unlock", store |-> "remote"]}
MCStored == {[local |-> {"a"}, remote |-> {}], [local |-> {}, remote |-> {"a", "b"}]}
Symmetry == Permutations(Operators)
=============================================================================
