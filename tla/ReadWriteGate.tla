---------------------------- MODULE ReadWriteGate ----------------------------
(***************************************************************************)
(* ReadWriteGate of atlantide/reconcile/writer.py: a threading.Condition   *)
(* around three fields.  Many shared holders or one exclusive; a waiting   *)
(* exclusive caller keeps new shared callers out.                          *)
(*                                                                         *)
(* A caller is whoever a hold stands for: the write that is admitted, or   *)
(* the lock call.  Each step is one stretch under the Condition's lock;    *)
(* cond.wait() ends a stretch and parks the caller until it is notified.   *)
(***************************************************************************)
EXTENDS Integers, FiniteSets

CONSTANTS
    Writes,   \* the callers of the shared side
    Calls     \* the callers of the exclusive side

Callers == Writes \cup Calls

\* What the proofs ask of whoever uses the gate (a locked run meets it).
CallersAssumption == IsFiniteSet(Callers) /\ Writes \cap Calls = {}

VARIABLES
    shared,     \* _shared
    exclusive,  \* _exclusive
    waiting,    \* _exclusive_waiting
    place,      \* where each caller is
    parked      \* the callers inside cond.wait()

gate == <<shared, exclusive, waiting, place, parked>>

Places == {"out", "awaitShared", "shared", "awaitExclusive", "exclusive"}

\* The fields and the callers keep their types.
GateTypeOK ==
    /\ shared \in Nat /\ waiting \in Nat /\ exclusive \in BOOLEAN
    /\ place \in [Callers -> Places]
    /\ parked \subseteq Callers

GateInit ==
    /\ shared = 0 /\ waiting = 0 /\ exclusive = FALSE
    /\ place = [c \in Callers |-> "out"]
    /\ parked = {}

SharedBarred == exclusive \/ waiting > 0

ExclusiveBarred == exclusive \/ shared > 0

\* acquire_shared, from its start and after every wake-up.
AcquireShared(c) ==
    /\ place[c] \in {"out", "awaitShared"} /\ c \notin parked
    /\ IF SharedBarred
       THEN /\ place' = [place EXCEPT ![c] = "awaitShared"]
            /\ parked' = parked \cup {c}
            /\ UNCHANGED shared
       ELSE /\ place' = [place EXCEPT ![c] = "shared"]
            /\ shared' = shared + 1
            /\ UNCHANGED parked
    /\ UNCHANGED <<exclusive, waiting>>

ReleaseShared(c) ==
    /\ place[c] = "shared"
    /\ shared' = shared - 1
    /\ parked' = IF shared' = 0 THEN {} ELSE parked
    /\ place' = [place EXCEPT ![c] = "out"]
    /\ UNCHANGED <<exclusive, waiting>>

\* acquire_exclusive, from its start and after every wake-up.
AcquireExclusive(c) ==
    /\ place[c] \in {"out", "awaitExclusive"} /\ c \notin parked
    /\ LET mine == IF place[c] = "out" THEN 0 ELSE 1   \* counted in waiting already
       IN IF ExclusiveBarred
          THEN /\ place' = [place EXCEPT ![c] = "awaitExclusive"]
               /\ waiting' = waiting + 1 - mine
               /\ parked' = parked \cup {c}
               /\ UNCHANGED exclusive
          ELSE /\ place' = [place EXCEPT ![c] = "exclusive"]
               /\ waiting' = waiting - mine
               /\ parked' = {}
               /\ exclusive' = TRUE
    /\ UNCHANGED shared

\* An exception (KeyboardInterrupt) in the wait: the finally clause runs.
InterruptExclusive(c) ==
    /\ place[c] = "awaitExclusive"
    /\ place' = [place EXCEPT ![c] = "out"]
    /\ waiting' = waiting - 1
    /\ parked' = {}
    /\ UNCHANGED <<shared, exclusive>>

InterruptShared(c) ==
    /\ place[c] = "awaitShared"
    /\ place' = [place EXCEPT ![c] = "out"]
    /\ parked' = parked \ {c}
    /\ UNCHANGED <<shared, exclusive, waiting>>

ReleaseExclusive(c) ==
    /\ place[c] = "exclusive"
    /\ exclusive' = FALSE
    /\ parked' = {}
    /\ place' = [place EXCEPT ![c] = "out"]
    /\ UNCHANGED <<shared, waiting>>

GateNext ==
    \/ \E c \in Writes : AcquireShared(c) \/ ReleaseShared(c) \/ InterruptShared(c)
    \/ \E c \in Calls : AcquireExclusive(c) \/ InterruptExclusive(c) \/ ReleaseExclusive(c)

GateSafety == GateInit /\ [][GateNext]_gate

-----------------------------------------------------------------------------
\* "Many shared holders, or one exclusive, never both": while a lock call runs
\* no write holds the gate and no other lock call does, whatever was interrupted.
Exclusion ==
    \A c \in Calls : place[c] = "exclusive" =>
        \A d \in Callers \ {c} : place[d] \notin {"shared", "exclusive"}

\* No lost wake-up: a parked caller is barred by a holder or a waiter whose own
\* step will notify it, so no caller sleeps in front of an open gate.
NoLostWakeup ==
    \A c \in parked : IF c \in Writes THEN SharedBarred ELSE ExclusiveBarred
=============================================================================
