----------------------------- MODULE StateStore -----------------------------
(***************************************************************************)
(* What a state backend promises whoever stores nodes in it                *)
(* (atlantide/state/backend.py, StateBackend.put, delete, put_many and     *)
(* replace_many): one value per item, and a value changes only when a      *)
(* write that is still being made lands.  A read, a compaction, a crash or *)
(* a refused write never changes one, and no write lands once its call has *)
(* returned.                                                               *)
(*                                                                         *)
(* A write lands at least once unless it fails: a call whose answer was    *)
(* lost is sent again.  A bulk write may lose some of its items to another *)
(* write that lands just before it; those keep the other write's value.    *)
(***************************************************************************)
CONSTANTS Items, Values, Initial

VARIABLES
    value,   \* what a consistent read of an item returns
    open     \* the writes being made

Write == [items: SUBSET Items, val: Values]

Init ==
    /\ value = [i \in Items |-> Initial]
    /\ open = {}

\* put, delete (absence is a value too), put_many or replace_many is called.
Begin(w) ==
    /\ open' = open \cup {w}
    /\ UNCHANGED value

\* The write lands; its call returns in the same step or is still waiting.
Land(w, S) ==
    /\ value' = [i \in Items |-> IF i \in S THEN w.val ELSE value[i]]
    /\ open' \in {open, open \ {w}}

\* The call returns, raises, or dies with its caller.
End(w) ==
    /\ open' = open \ {w}
    /\ UNCHANGED value

Next ==
    \/ \E w \in Write : Begin(w)
    \/ \E w \in open : \E S \in SUBSET w.items : Land(w, S)
    \/ \E w \in open : End(w)

Spec == Init /\ [][Next]_<<value, open>>
=============================================================================
