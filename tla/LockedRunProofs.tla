--------------------------- MODULE LockedRunProofs ---------------------------
(***************************************************************************)
(* The gate first, for any finite sets of callers: its counters count the  *)
(* callers they stand for, so that a barred caller is barred by somebody   *)
(* and an exclusive holder is alone.  Then the run: it uses its writer's   *)
(* gate only as ReadWriteGate allows, for any nodes, setups, policy and    *)
(* bounds, so while a lock call is at the store no state write is.  From   *)
(* that follows what the gate is there for: which fence a write carries,   *)
(* that none is under way when the lock is given up, and which can land    *)
(* after a renewal was refused.                                            *)
(***************************************************************************)
EXTENDS LockedRun, FiniteSetTheorems, TLAPS

\* The gate with W on its shared side and C on its exclusive one.
AnyGate(W, C) == INSTANCE ReadWriteGate WITH Writes <- W, Calls <- C

\* How many of the callers S a map of callers to places puts in p.
Count(S, f, p) == Cardinality({c \in S : f[c] = p})

\* The counters, and the side each caller is on.
Counted(W, C) ==
    /\ shared = Count(W \cup C, place, "shared")
    /\ waiting = Count(W \cup C, place, "awaitExclusive")
    /\ \A c \in W : place[c] \in {"out", "awaitShared", "shared"}
    /\ \A c \in C : place[c] \in {"out", "awaitExclusive", "exclusive"}

\* Whoever holds exclusively is recorded and alone.
Alone(W, C) ==
    /\ \A c \in W \cup C : place[c] = "exclusive" => exclusive /\ shared = 0
    /\ \A c, d \in W \cup C : place[c] = "exclusive" /\ place[d] = "exclusive" => c = d
    /\ exclusive => \E c \in W \cup C : place[c] = "exclusive"

GateInv(W, C) == AnyGate(W, C)!GateTypeOK /\ Counted(W, C) /\ Alone(W, C) /\ AnyGate(W, C)!NoLostWakeup

\* How many callers are in a place, when one of them moves there or leaves it.
LEMMA CountMoves ==
    ASSUME NEW S, IsFiniteSet(S), NEW P, NEW f \in [S -> P],
           NEW c \in S, NEW p \in P, NEW q \in P
    PROVE  /\ Count(S, f, p) \in Nat
           /\ f[c] = p /\ q # p =>
                Count(S, f, p) > 0 /\ Count(S, [f EXCEPT ![c] = q], p) = Count(S, f, p) - 1
           /\ f[c] # p /\ q = p => Count(S, [f EXCEPT ![c] = q], p) = Count(S, f, p) + 1
           /\ (f[c] = p <=> q = p) => Count(S, [f EXCEPT ![c] = q], p) = Count(S, f, p)
<1> DEFINE g == [f EXCEPT ![c] = q]
<1> DEFINE F == {d \in S : f[d] = p}
           H == {d \in S : g[d] = p}
<1>0. Count(S, f, p) = Cardinality(F) /\ Count(S, g, p) = Cardinality(H)
  BY DEF Count
<1>1. IsFiniteSet(F) /\ IsFiniteSet(H)
  BY FS_Subset
<1>2. Cardinality(F) \in Nat /\ Cardinality(H) \in Nat
  BY <1>1, FS_CardinalityType
<1>3. \A d \in S : g[d] = IF d = c THEN q ELSE f[d]
  OBVIOUS
<1>4. CASE f[c] = p /\ q # p
  <2>1. c \in F /\ H = F \ {c}
    BY <1>3, <1>4
  <2>2. Cardinality(H) = Cardinality(F) - 1
    BY <2>1, <1>1, FS_RemoveElement
  <2> QED
    BY <2>1, <2>2, <1>0, <1>1, <1>2, <1>4, FS_EmptySet
<1>5. CASE f[c] # p /\ q = p
  <2>1. c \notin F /\ H = F \cup {c}
    BY <1>3, <1>5
  <2>2. Cardinality(H) = Cardinality(F) + 1
    BY <2>1, <1>1, FS_AddElement
  <2> QED
    BY <2>2, <1>0, <1>2, <1>5
<1>6. CASE f[c] = p <=> q = p
  <2>1. F = H
    BY <1>3, <1>6
  <2> QED
    BY <2>1, <1>0, <1>2, <1>6
<1> QED
  BY <1>4, <1>5, <1>6

LEMMA CallersFinite ==
    ASSUME NEW W, NEW C, AnyGate(W, C)!CallersAssumption
    PROVE  IsFiniteSet(W \cup C) /\ W \cap C = {}
BY DEF AnyGate!CallersAssumption, AnyGate!Callers, AnyGate!IsFiniteSet, IsFiniteSet

LEMMA GateStarts ==
    ASSUME NEW W, NEW C, AnyGate(W, C)!GateInit
    PROVE  GateInv(W, C)
<1>1. \A p \in {"shared", "awaitExclusive"} : {c \in W \cup C : place[c] = p} = {}
  BY DEF AnyGate!GateInit, AnyGate!Callers
<1>2. Count(W \cup C, place, "shared") = 0 /\ Count(W \cup C, place, "awaitExclusive") = 0
  BY <1>1, FS_EmptySet DEF Count
<1> QED
  BY <1>1, <1>2
  DEF AnyGate!GateInit, GateInv, AnyGate!GateTypeOK, Counted, Alone, AnyGate!NoLostWakeup,
      AnyGate!Places, AnyGate!Callers

LEMMA GateSteps ==
    ASSUME NEW W, NEW C, AnyGate(W, C)!CallersAssumption, GateInv(W, C),
           [AnyGate(W, C)!GateNext]_(AnyGate(W, C)!gate)
    PROVE  GateInv(W, C)'
<1> DEFINE N(p) == Count(W \cup C, place, p)
<1> USE DEF AnyGate!Places, AnyGate!Callers, AnyGate!SharedBarred, AnyGate!ExclusiveBarred
<1>t. /\ AnyGate(W, C)!GateTypeOK /\ AnyGate(W, C)!NoLostWakeup
      /\ Counted(W, C) /\ Alone(W, C) /\ W \cap C = {}
  BY CallersFinite DEF GateInv
<1>p. place \in [W \cup C -> AnyGate(W, C)!Places]
  BY <1>t DEF AnyGate!GateTypeOK, AnyGate!Callers
<1>m. ASSUME NEW c \in (W \cup C), NEW q \in AnyGate(W, C)!Places, place' = [place EXCEPT ![c] = q]
      PROVE  \A p \in AnyGate(W, C)!Places :
               /\ N(p) \in Nat
               /\ place[c] = p /\ q # p =>
                    N(p) > 0 /\ N(p)' = N(p) - 1
               /\ place[c] # p /\ q = p => N(p)' = N(p) + 1
               /\ (place[c] = p <=> q = p) => N(p)' = N(p)
  <2> SUFFICES ASSUME NEW p \in AnyGate(W, C)!Places
               PROVE  /\ N(p) \in Nat
                      /\ place[c] = p /\ q # p =>
                           N(p) > 0 /\ N(p)' = N(p) - 1
                      /\ place[c] # p /\ q = p => N(p)' = N(p) + 1
                      /\ (place[c] = p <=> q = p) => N(p)' = N(p)
    OBVIOUS
  <2> DEFINE P == AnyGate(W, C)!Places
  <2>1. N(p)' = Count(W \cup C, [place EXCEPT ![c] = q], p)
    BY <1>m
  <2>2. IsFiniteSet(W \cup C) /\ place \in [W \cup C -> P] /\ p \in P /\ q \in P
    BY <1>p, <1>m, CallersFinite
  <2> DEFINE g == [place EXCEPT ![c] = q]
  <2>3. /\ Count(W \cup C, place, p) \in Nat
        /\ place[c] = p /\ q # p => Count(W \cup C, place, p) > 0
        /\ place[c] = p /\ q # p => Count(W \cup C, g, p) = Count(W \cup C, place, p) - 1
        /\ place[c] # p /\ q = p => Count(W \cup C, g, p) = Count(W \cup C, place, p) + 1
        /\ (place[c] = p <=> q = p) => Count(W \cup C, g, p) = Count(W \cup C, place, p)
    <3> DEFINE S == W \cup C
    <3>1. c \in S /\ IsFiniteSet(S) /\ place \in [S -> P] /\ p \in P /\ q \in P
      BY <2>2
    <3> HIDE DEF P, S
    <3>2. /\ Count(S, place, p) \in Nat
          /\ place[c] = p /\ q # p =>
               Count(S, place, p) > 0 /\ Count(S, g, p) = Count(S, place, p) - 1
          /\ place[c] # p /\ q = p => Count(S, g, p) = Count(S, place, p) + 1
          /\ (place[c] = p <=> q = p) => Count(S, g, p) = Count(S, place, p)
      BY <3>1, CountMoves
    <3> QED
      BY <3>2 DEF S
  <2> QED
    BY <2>1, <2>3
<1>1. ASSUME NEW c \in W, AnyGate(W, C)!AcquireShared(c) PROVE GateInv(W, C)'
  <2>1. CASE AnyGate(W, C)!SharedBarred
    <3>1. place' = [place EXCEPT ![c] = "awaitShared"]
      BY <1>1, <2>1 DEF AnyGate!AcquireShared
    <3>2. /\ N("shared")' = N("shared")
          /\ N("awaitExclusive")' = N("awaitExclusive")
      BY <1>t, <1>1, <3>1, <1>m DEF AnyGate!AcquireShared
    <3> QED
      BY <1>t, <1>1, <2>1, <3>1, <3>2
      DEF AnyGate!AcquireShared, GateInv, AnyGate!GateTypeOK, Counted, Alone, AnyGate!NoLostWakeup
  <2>2. CASE ~AnyGate(W, C)!SharedBarred
    <3>1. place' = [place EXCEPT ![c] = "shared"]
      BY <1>1, <2>2 DEF AnyGate!AcquireShared
    <3>2. /\ N("shared")' = N("shared") + 1
          /\ N("awaitExclusive")' = N("awaitExclusive")
      BY <1>t, <1>1, <3>1, <1>m DEF AnyGate!AcquireShared
    <3>3. AnyGate(W, C)!GateTypeOK'
      BY <1>t, <1>1, <2>2, <3>1, <3>2
      DEF AnyGate!AcquireShared, AnyGate!GateTypeOK, Counted, Alone
    <3>4. Counted(W, C)'
      BY <1>t, <1>1, <2>2, <3>1, <3>2
      DEF AnyGate!AcquireShared, AnyGate!GateTypeOK, Counted, Alone
    <3>5. Alone(W, C)'
      BY <1>t, <1>1, <2>2, <3>1, <3>2
      DEF AnyGate!AcquireShared, AnyGate!GateTypeOK, Alone
    <3>6. AnyGate(W, C)!NoLostWakeup'
      BY <1>t, <1>1, <2>2, <3>1, <3>2
      DEF AnyGate!AcquireShared, AnyGate!GateTypeOK, AnyGate!NoLostWakeup, Alone
    <3> QED
      BY <3>3, <3>4, <3>5, <3>6 DEF GateInv
  <2> QED
    BY <2>1, <2>2
<1>2. ASSUME NEW c \in W, AnyGate(W, C)!ReleaseShared(c) PROVE GateInv(W, C)'
  <2>1. /\ N("shared") \in Nat /\ N("shared") > 0
        /\ N("shared")' = N("shared") - 1
        /\ N("awaitExclusive")' = N("awaitExclusive")
    BY <1>t, <1>2, <1>m DEF AnyGate!ReleaseShared
  <2>2. place' = [place EXCEPT ![c] = "out"] /\ shared' = shared - 1 /\ shared = N("shared")
    BY <1>t, <1>2 DEF AnyGate!ReleaseShared, Counted
  <2>3. AnyGate(W, C)!GateTypeOK'
    BY <1>t, <1>2, <2>1, <2>2
    DEF AnyGate!ReleaseShared, AnyGate!GateTypeOK, Counted, Alone
  <2>4. Counted(W, C)'
    BY <1>t, <1>2, <2>1, <2>2
    DEF AnyGate!ReleaseShared, AnyGate!GateTypeOK, Counted, Alone
  <2>5. Alone(W, C)'
    <3>1. ~exclusive /\ \A d \in W \cup C : place[d] # "exclusive"
      BY <1>t, <2>1, <2>2 DEF Alone
    <3>2. exclusive' = exclusive /\ \A d \in W \cup C : place'[d] # "exclusive"
      BY <1>p, <1>2, <2>2, <3>1 DEF AnyGate!ReleaseShared
    <3> QED
      BY <3>1, <3>2 DEF Alone
  <2>6. AnyGate(W, C)!NoLostWakeup'
    BY <1>t, <1>2, <2>1, <2>2
    DEF AnyGate!ReleaseShared, AnyGate!GateTypeOK, AnyGate!NoLostWakeup, Alone
  <2> QED
    BY <2>3, <2>4, <2>5, <2>6 DEF GateInv
<1>3. ASSUME NEW c \in W, AnyGate(W, C)!InterruptShared(c) PROVE GateInv(W, C)'
  <2>1. /\ N("shared")' = N("shared")
        /\ N("awaitExclusive")' = N("awaitExclusive")
    BY <1>t, <1>3, <1>m DEF AnyGate!InterruptShared
  <2> QED
    BY <1>t, <1>3, <2>1
    DEF AnyGate!InterruptShared, GateInv, AnyGate!GateTypeOK, Counted, Alone, AnyGate!NoLostWakeup
<1>4. ASSUME NEW c \in C, AnyGate(W, C)!AcquireExclusive(c) PROVE GateInv(W, C)'
  <2>1. CASE AnyGate(W, C)!ExclusiveBarred
    <3>1. place' = [place EXCEPT ![c] = "awaitExclusive"]
      BY <1>4, <2>1 DEF AnyGate!AcquireExclusive
    <3>2. /\ N("shared")' = N("shared")
          /\ N("awaitExclusive") \in Nat
          /\ place[c] = "out" =>
               N("awaitExclusive")' = N("awaitExclusive") + 1
          /\ place[c] # "out" => N("awaitExclusive")' = N("awaitExclusive")
      BY <1>t, <1>4, <3>1, <1>m DEF AnyGate!AcquireExclusive
    <3>3. /\ place[c] = "out" => waiting' = waiting + 1
          /\ place[c] # "out" => waiting' = waiting
      BY <1>t, <1>4, <2>1 DEF AnyGate!AcquireExclusive, AnyGate!GateTypeOK
    <3>4. AnyGate(W, C)!GateTypeOK'
      BY <1>t, <1>4, <2>1, <3>1, <3>2, <3>3
      DEF AnyGate!AcquireExclusive, AnyGate!GateTypeOK, Counted, Alone
    <3>5. Counted(W, C)'
      BY <1>t, <1>4, <2>1, <3>1, <3>2, <3>3
      DEF AnyGate!AcquireExclusive, AnyGate!GateTypeOK, Counted, Alone
    <3>6. Alone(W, C)'
      BY <1>t, <1>4, <2>1, <3>1, <3>2, <3>3
      DEF AnyGate!AcquireExclusive, AnyGate!GateTypeOK, Alone
    <3>7. AnyGate(W, C)!NoLostWakeup'
      BY <1>t, <1>4, <2>1, <3>1, <3>2, <3>3
      DEF AnyGate!AcquireExclusive, AnyGate!GateTypeOK, AnyGate!NoLostWakeup, Alone
    <3> QED
      BY <3>4, <3>5, <3>6, <3>7 DEF GateInv
  <2>2. CASE ~AnyGate(W, C)!ExclusiveBarred
    <3>1. place' = [place EXCEPT ![c] = "exclusive"]
      BY <1>4, <2>2 DEF AnyGate!AcquireExclusive
    <3>2. /\ N("shared")' = N("shared")
          /\ N("awaitExclusive") \in Nat
          /\ place[c] = "out" => N("awaitExclusive")' = N("awaitExclusive")
          /\ place[c] # "out" =>
               /\ N("awaitExclusive") > 0
               /\ N("awaitExclusive")' = N("awaitExclusive") - 1
      BY <1>t, <1>4, <3>1, <1>m DEF AnyGate!AcquireExclusive
    <3>3. /\ place[c] = "out" => waiting' = waiting
          /\ place[c] # "out" => waiting' = waiting - 1
      BY <1>t, <1>4, <2>2 DEF AnyGate!AcquireExclusive, AnyGate!GateTypeOK
    <3>4. waiting' \in Nat /\ shared = 0 /\ shared' = 0 /\ exclusive' = TRUE /\ parked' = {}
      BY <1>t, <1>4, <2>2, <3>2, <3>3 DEF AnyGate!AcquireExclusive, AnyGate!GateTypeOK, Counted
    <3>5. \A d \in W \cup C : place[d] # "exclusive"
      BY <1>t, <2>2 DEF Alone
    <3>6. Alone(W, C)' /\ AnyGate(W, C)!NoLostWakeup'
      BY <1>t, <3>1, <3>4, <3>5, <1>4 DEF Alone, AnyGate!NoLostWakeup, AnyGate!GateTypeOK
    <3> QED
      BY <1>t, <1>4, <2>2, <3>1, <3>2, <3>3, <3>4, <3>6
      DEF AnyGate!AcquireExclusive, GateInv, AnyGate!GateTypeOK, Counted
  <2> QED
    BY <2>1, <2>2
<1>5. ASSUME NEW c \in C, AnyGate(W, C)!InterruptExclusive(c) PROVE GateInv(W, C)'
  <2>1. /\ N("shared")' = N("shared")
        /\ N("awaitExclusive") \in Nat
        /\ N("awaitExclusive") > 0
        /\ N("awaitExclusive")' = N("awaitExclusive") - 1
    BY <1>t, <1>5, <1>m DEF AnyGate!InterruptExclusive
  <2> QED
    BY <1>t, <1>5, <2>1
    DEF AnyGate!InterruptExclusive, GateInv, AnyGate!GateTypeOK, Counted, Alone, AnyGate!NoLostWakeup
<1>6. ASSUME NEW c \in C, AnyGate(W, C)!ReleaseExclusive(c) PROVE GateInv(W, C)'
  <2>1. /\ N("shared")' = N("shared")
        /\ N("awaitExclusive")' = N("awaitExclusive")
    BY <1>t, <1>6, <1>m DEF AnyGate!ReleaseExclusive
  <2> QED
    BY <1>t, <1>6, <2>1
    DEF AnyGate!ReleaseExclusive, GateInv, AnyGate!GateTypeOK, Counted, Alone, AnyGate!NoLostWakeup
<1>7. CASE UNCHANGED AnyGate(W, C)!gate
  BY <1>t, <1>7 DEF AnyGate!gate, GateInv, AnyGate!GateTypeOK, Counted, Alone, AnyGate!NoLostWakeup
<1> QED
  BY <1>1, <1>2, <1>3, <1>4, <1>5, <1>6, <1>7 DEF AnyGate!GateNext

LEMMA GateInvariant ==
    ASSUME NEW CONSTANT W, NEW CONSTANT C, AnyGate(W, C)!CallersAssumption
    PROVE  AnyGate(W, C)!GateSafety => []GateInv(W, C)
<1>1. GateInv(W, C) /\ [AnyGate(W, C)!GateNext]_(AnyGate(W, C)!gate) => GateInv(W, C)'
  BY GateSteps
<1> QED
  BY <1>1, GateStarts, PTL DEF AnyGate!GateSafety

\* Who holds exclusively holds alone, whoever the callers are.
LEMMA HoldsAlone ==
    ASSUME NEW W, NEW C, AnyGate(W, C)!CallersAssumption, GateInv(W, C)
    PROVE  AnyGate(W, C)!Exclusion
<1> SUFFICES ASSUME NEW c \in C, place[c] = "exclusive", NEW d \in (W \cup C) \ {c}
             PROVE  place[d] \notin {"shared", "exclusive"}
  BY DEF AnyGate!Exclusion, AnyGate!Callers
<1>1. shared = 0 /\ c \in W \cup C
  BY DEF GateInv, Alone
<1>2. LET H == {e \in W \cup C : place[e] = "shared"} IN IsFiniteSet(H) /\ Cardinality(H) = 0
  BY <1>1, CallersFinite, FS_Subset DEF GateInv, Counted, Count
<1>3. {e \in W \cup C : place[e] = "shared"} = {}
  BY <1>2, FS_EmptySet
<1> QED
  BY <1>1, <1>3 DEF GateInv, Alone

\* Never a write and a lock call together, nor two lock calls, for any callers:
\* release_shared and release_exclusive account for every way a hold can end.
THEOREM GateExcludes ==
    ASSUME NEW CONSTANT W, NEW CONSTANT C, AnyGate(W, C)!CallersAssumption
    PROVE  AnyGate(W, C)!GateSafety => []AnyGate(W, C)!Exclusion
<1>1. GateInv(W, C) => AnyGate(W, C)!Exclusion
  BY HoldsAlone
<1> QED
  BY <1>1, GateInvariant, PTL

\* No caller sleeps in front of an open gate, for any callers, also when a waiting
\* lock call is interrupted.
THEOREM GateWakes ==
    ASSUME NEW CONSTANT W, NEW CONSTANT C, AnyGate(W, C)!CallersAssumption
    PROVE  AnyGate(W, C)!GateSafety => []AnyGate(W, C)!NoLostWakeup
<1>1. GateInv(W, C) => AnyGate(W, C)!NoLostWakeup
  BY DEF GateInv
<1> QED
  BY <1>1, GateInvariant, PTL

\* The gate's counters never go negative and every caller is in one place.
THEOREM GateTypeCorrect ==
    ASSUME NEW CONSTANT W, NEW CONSTANT C, AnyGate(W, C)!CallersAssumption
    PROVE  AnyGate(W, C)!GateSafety => []AnyGate(W, C)!GateTypeOK
<1>1. GateInv(W, C) => AnyGate(W, C)!GateTypeOK
  BY DEF GateInv
<1> QED
  BY <1>1, GateInvariant, PTL

-----------------------------------------------------------------------------
(* The run's use of it.                                                    *)

LEMMA CallersOfRun == IsFiniteSet(Jobs \cup {Loop}) /\ Jobs \cap {Loop} = {}
<1>1. IsFiniteSet(Jobs)
  BY NamesAssumption, FS_AddElement DEF Jobs
<1>2. IsFiniteSet(Jobs \cup {Loop})
  BY <1>1, FS_AddElement
<1> QED
  BY <1>2, NamesAssumption DEF Jobs, Checkpoint, Loop

\* A stretch of the loop thread, a pool thread's step and a lock call each take
\* one step of the gate or none.
LEMMA StepsOfGate == [Next]_vars => [Gate!GateNext]_(Gate!gate)
<1> SUFFICES ASSUME [Next]_vars PROVE [Gate!GateNext]_(Gate!gate)
  OBVIOUS
<1> USE DEF gate, Gate!gate
<1>w. \A j \in Jobs : Gate!AcquireShared(j) \/ Gate!ReleaseShared(j) => Gate!GateNext
  BY DEF Gate!GateNext
<1>c. Gate!AcquireExclusive(Loop) \/ Gate!ReleaseExclusive(Loop) => Gate!GateNext
  BY DEF Gate!GateNext
<1>n. Nodes \subseteq Jobs /\ Checkpoint \in Jobs
  BY DEF Jobs
<1>1. CASE LockCall
  <2>1. CASE RequestCall
    BY <2>1, <1>c DEF RequestCall
  <2>2. ASSUME NEW name, CallRuns(name) PROVE [Gate!GateNext]_(Gate!gate)
    BY <2>2, <1>c DEF CallRuns
  <2> QED
    BY <1>1, <2>1, <2>2 DEF LockCall, Acquire, AcquireRefused, AcquireRaises, Bind, SinkRaises,
       Renew, Rebind, RenewRaises, RenewRefused, Unbind, Release, ReleaseRaises
<1>2. CASE Turn
  <2>1. CASE Beat
    BY <2>1 DEF Beat
  <2>2. CASE Abort
    BY <2>2 DEF Abort, quiet
  <2>3. CASE TasksOver
    BY <2>3, <1>w, <1>n DEF TasksOver, Submit
  <2>4. CASE CheckpointOver
    BY <2>4 DEF CheckpointOver
  <2>5. CASE EndRun
    BY <2>5 DEF EndRun, quiet
  <2> QED
    BY <1>2, <2>1, <2>2, <2>3, <2>4, <2>5 DEF Turn
<1>3. ASSUME NEW n \in Nodes, Task(n) \/ NodeTimeout(n) PROVE [Gate!GateNext]_(Gate!gate)
  <2>1. CASE Ask(n)
    BY <2>1, <1>w, <1>n DEF Ask, Submit
  <2>2. CASE NextInLine(n)
    BY <2>2, <1>w, <1>n DEF NextInLine, Submit
  <2>3. CASE Back(n)
    BY <2>3 DEF Back
  <2>4. CASE RunInline(n)
    BY <2>4 DEF RunInline
  <2>5. CASE Provider(n)
    BY <2>5 DEF Provider, quiet
  <2>6. CASE Cancelled(n)
    BY <2>6 DEF Cancelled
  <2>7. CASE NodeTimeout(n)
    BY <2>7 DEF NodeTimeout, quiet
  <2> QED
    BY <1>3, <2>1, <2>2, <2>3, <2>4, <2>5, <2>6, <2>7 DEF Task
<1>4. ASSUME NEW j \in Jobs, Pool(j) \/ PutRaises(j) PROVE [Gate!GateNext]_(Gate!gate)
  BY <1>4, <1>w DEF Pool, Start, Put, PutRaises, Settle
<1>5. CASE Interrupt \/ Take \/ TheyRelease \/ Tick \/ Over \/ UNCHANGED vars
  BY <1>5 DEF Interrupt, Take, TheyRelease, Tick, Over, vars, quiet
<1> QED
  BY <1>1, <1>2, <1>3, <1>4, <1>5 DEF Next

\* While a lock call (acquire, renew, bind_lease, release) is at the store no state
\* write is admitted: a write never falls between a renewal and its rebinding.
THEOREM RunExcludes == Safety => []Gate!Exclusion
<1>1. AnyGate(Jobs, {Loop})!CallersAssumption
  BY CallersOfRun
  DEF AnyGate!CallersAssumption, AnyGate!Callers, AnyGate!IsFiniteSet, IsFiniteSet
<1>2. AnyGate(Jobs, {Loop})!GateInit => GateInv(Jobs, {Loop})
  BY GateStarts
<1>3. Gate!GateInit => AnyGate(Jobs, {Loop})!GateInit
  BY DEF Gate!GateInit, AnyGate!GateInit, Gate!Callers, AnyGate!Callers
<1>4. [Gate!GateNext]_(Gate!gate) => [AnyGate(Jobs, {Loop})!GateNext]_(AnyGate(Jobs, {Loop})!gate)
  BY DEF Gate!GateNext, AnyGate!GateNext, Gate!gate, AnyGate!gate,
         Gate!AcquireShared, AnyGate!AcquireShared, Gate!ReleaseShared, AnyGate!ReleaseShared,
         Gate!InterruptShared, AnyGate!InterruptShared,
         Gate!AcquireExclusive, AnyGate!AcquireExclusive,
         Gate!InterruptExclusive, AnyGate!InterruptExclusive,
         Gate!ReleaseExclusive, AnyGate!ReleaseExclusive,
         Gate!SharedBarred, AnyGate!SharedBarred, Gate!ExclusiveBarred, AnyGate!ExclusiveBarred
<1>5. GateInv(Jobs, {Loop}) /\ [AnyGate(Jobs, {Loop})!GateNext]_(AnyGate(Jobs, {Loop})!gate)
         => GateInv(Jobs, {Loop})'
  BY <1>1, GateSteps
<1>6. GateInv(Jobs, {Loop}) => AnyGate(Jobs, {Loop})!Exclusion
  BY <1>1, HoldsAlone
<1>7. AnyGate(Jobs, {Loop})!Exclusion => Gate!Exclusion
  BY DEF Gate!Exclusion, AnyGate!Exclusion, Gate!Callers, AnyGate!Callers
<1>8. Init => Gate!GateInit
  BY DEF Init
<1> QED
  BY <1>2, <1>3, <1>4, <1>5, <1>6, <1>7, <1>8, StepsOfGate, PTL DEF Safety

(***************************************************************************)
(* What the gate, the queue and the order of the lock calls together make  *)
(* of the fences.                                                          *)
(***************************************************************************)
CallSeqs == {<<>>, <<"acquire">>, <<"bind">>, <<"renew">>, <<"rebind">>, <<"unbind", "release">>,
             <<"release">>}
Committing == {"commit", "commitFailed", "commitStopped"}
Settled == {"ok", "failed", "stopped"}
Bodies == {"none", "run", "fail", "cancel"} \cup Committing \cup Settled

Types ==
    /\ setup \in Setups
    /\ place \in [Jobs \cup {Loop} -> Gate!Places]
    /\ exclusive \in BOOLEAN /\ waiting \in Nat
    /\ job \in [Jobs -> {"idle", "line", "ok", "error"} \cup Writing]
    /\ stage \in [Nodes -> {"provider"} \cup Storing \cup Ended]
    /\ calls \in CallSeqs
    /\ phase \in {"start", "run", "release", "end", "leaked"}
    /\ body \in Bodies
    /\ fences \in Nat /\ hold.fence \in Nat
    /\ lost \in Lost

\* The loop is alone on the gate's exclusive side, and off it whenever a task runs.
LoopGate ==
    /\ place[Loop] \in {"out", "awaitExclusive", "exclusive"}
    /\ exclusive <=> place[Loop] = "exclusive"
    /\ waiting = IF place[Loop] = "awaitExclusive" THEN 1 ELSE 0
    /\ LoopFree \/ ~setup.offload => place[Loop] = "out"

\* The pool's queue has each job that waits there, once.
Queued ==
    /\ poolQueue \in Seq(Jobs)
    /\ \A k \in 1..Len(poolQueue) : job[poolQueue[k]] = "queued"
    /\ \A k, l \in 1..Len(poolQueue) : poolQueue[k] = poolQueue[l] => k = l

\* A write on its way holds the gate, so none is while a rebinding is due.
Underway ==
    /\ \A j \in Jobs : job[j] \in Writing => place[j] = "shared"
    /\ ~setup.offload => \A j \in Jobs : job[j] = "idle"
    /\ calls = <<"rebind">> => \A j \in Jobs : job[j] \notin Writing

\* The order of the lock calls, and of the body they surround.
Order ==
    /\ phase = "start" <=> calls = <<"acquire">>
    /\ phase = "release" <=> calls \in {<<"unbind", "release">>, <<"release">>}
    /\ phase \in {"end", "leaked"} => calls = <<>>
    /\ phase = "start" => body = "none"
    /\ phase = "run" => (body = "none" <=> calls = <<"bind">>)
    /\ phase # "run" => body \in {"none"} \cup Settled
    /\ body \in Committing \cup Settled => Unended = {}
    /\ \A n \in Nodes : job[n] # "idle" => stage[n] \in Storing /\ body # "none"
    /\ job[Checkpoint] # "idle" => body \in Committing

\* Which fences there are: what the store has granted the run, the run has heard of or
\* lost the answer for; and what it has heard of is bound, but before it is rebound.
Fences ==
    /\ hold.owner = Us => /\ hold.fence # 0
                          /\ phase # "start"
                          /\ hold.fence = lease.fence \/ hold.fence = unheard \/ phase = "leaked"
    /\ phase = "run" => lease.fence # 0
    /\ phase = "run" /\ calls \notin {<<"bind">>, <<"rebind">>} => bound = lease.fence

RunInv == Types /\ LoopGate /\ Queued /\ Underway /\ Order /\ Fences

LEMMA InitRun == Init => RunInv
<1> SUFFICES ASSUME Init PROVE RunInv
  OBVIOUS
<1>n. Loop \notin Jobs /\ Checkpoint \in Jobs /\ Nodes \subseteq Jobs
  BY NamesAssumption DEF Jobs, Checkpoint, Loop
<1>1. Types
  <2>1. hold.fence \in Nat
    BY DEF Init, NoHold
  <2>2. place \in [Jobs \cup {Loop} -> Gate!Places] /\ exclusive \in BOOLEAN /\ waiting \in Nat
    BY DEF Init, Gate!GateInit, Gate!Callers, Gate!Places
  <2> QED
    BY <2>1, <2>2 DEF Init, Types, CallSeqs, Bodies, Lost, Storing
<1>2. LoopGate
  BY DEF Init, Gate!GateInit, Gate!Callers, LoopGate
<1>3. Queued
  BY DEF Init, Queued
<1>4. Underway /\ Order /\ Fences
  BY <1>n DEF Init, Underway, Order, Fences, Writing, Committing, Settled, NoHold, Us, Them
<1> QED
  BY <1>1, <1>2, <1>3, <1>4 DEF RunInv

LEMMA Names == Loop \notin Jobs /\ Checkpoint \in Jobs /\ Nodes \subseteq Jobs /\ Checkpoint \notin Nodes
  BY NamesAssumption DEF Jobs, Checkpoint, Loop

\* While a lock call is at the store no write is on its way.
LEMMA NoneUnderway ==
  ASSUME Underway, Gate!Exclusion, place[Loop] = "exclusive"
  PROVE  \A j \in Jobs : job[j] \notin Writing
  BY Names DEF Underway, Gate!Exclusion, Gate!Callers

LEMMA QueuedKept ==
  ASSUME Queued, poolQueue' = poolQueue, \A j \in Jobs : job[j] = "queued" => job'[j] = "queued"
  PROVE  Queued'
  BY DEF Queued

LEMMA QueuedSubmit ==
  ASSUME Queued, job \in [Jobs -> {"idle", "line", "ok", "error"} \cup Writing], NEW j \in Jobs,
         job[j] # "queued", job' = [job EXCEPT ![j] = "queued"], poolQueue' = Append(poolQueue, j)
  PROVE  Queued'
<1>1. \A k \in 1..Len(poolQueue) : poolQueue[k] \in Jobs /\ poolQueue[k] # j
  BY DEF Queued
<1>2. poolQueue' \in Seq(Jobs) /\ Len(poolQueue') = Len(poolQueue) + 1
  BY DEF Queued
<1>3. \A k \in 1..Len(poolQueue') :
        poolQueue'[k] = IF k = Len(poolQueue) + 1 THEN j ELSE poolQueue[k]
  BY <1>2 DEF Queued
<1>4. \A k \in 1..Len(poolQueue') : k = Len(poolQueue) + 1 \/ k \in 1..Len(poolQueue)
  BY <1>2 DEF Queued
<1> QED
  BY <1>1, <1>2, <1>3, <1>4 DEF Queued

LEMMA QueuedTaken ==
  ASSUME Queued, poolQueue # <<>>, poolQueue' = Tail(poolQueue),
         \A i \in Jobs \ {Head(poolQueue)} : job'[i] = job[i]
  PROVE  Queued' /\ Head(poolQueue) \in Jobs /\ job[Head(poolQueue)] = "queued"
<1>0. Len(poolQueue) \in Nat /\ Len(poolQueue) >= 1 /\ Head(poolQueue) = poolQueue[1]
  BY DEF Queued
<1>1. poolQueue' \in Seq(Jobs) /\ Len(poolQueue') = Len(poolQueue) - 1
  BY DEF Queued
<1>2. \A k \in 1..Len(poolQueue') : poolQueue'[k] = poolQueue[k + 1] /\ k + 1 \in 2..Len(poolQueue)
  BY <1>0, <1>1 DEF Queued
<1>3. \A k \in 2..Len(poolQueue) : poolQueue[k] # poolQueue[1] /\ poolQueue[k] \in Jobs
  BY <1>0 DEF Queued
<1>4. Queued'
  <2>1. \A k \in 1..Len(poolQueue') : job'[poolQueue'[k]] = "queued"
    BY <1>0, <1>2, <1>3 DEF Queued
  <2>2. \A k, l \in 1..Len(poolQueue') : poolQueue'[k] = poolQueue'[l] => k = l
    <3> SUFFICES ASSUME NEW k \in 1..Len(poolQueue'), NEW l \in 1..Len(poolQueue'),
                        poolQueue'[k] = poolQueue'[l]
                 PROVE  k = l
      OBVIOUS
    <3>1. k + 1 \in 1..Len(poolQueue) /\ l + 1 \in 1..Len(poolQueue)
      BY <1>0, <1>1
    <3>2. poolQueue[k + 1] = poolQueue[l + 1]
      BY <1>2
    <3>3. k + 1 = l + 1
      BY <3>1, <3>2 DEF Queued
    <3> QED
      BY <3>3
  <2> QED
    BY <1>1, <2>1, <2>2 DEF Queued
<1> QED
  BY <1>0, <1>4 DEF Queued

\* A lock call leaves the gate to the tasks and the writes as they are.
LEMMA CallFrame ==
  ASSUME RunInv, NEW name, CallRuns(name)
  PROVE  /\ LoopGate' /\ Queued' /\ UNCHANGED <<setup, job, stage>>
         /\ place' \in [Jobs \cup {Loop} -> Gate!Places] /\ exclusive' \in BOOLEAN /\ waiting' \in Nat
         /\ \A j \in Jobs : place'[j] = place[j]
         /\ calls # <<>> /\ name = Head(calls)
         /\ setup.offload => place[Loop] = "exclusive"
<1>1. UNCHANGED <<setup, job, stage, poolQueue>> /\ calls # <<>> /\ name = Head(calls)
  BY DEF CallRuns, LoopFree, writes
<1>2. CASE setup.offload
  <2>1. place[Loop] = "exclusive" /\ place' = [place EXCEPT ![Loop] = "out"] /\ exclusive' = FALSE
        /\ waiting' = waiting
    BY <1>2 DEF CallRuns, Gate!ReleaseExclusive
  <2>2. place'[Loop] = "out" /\ waiting' = 0
    BY <2>1 DEF RunInv, Types, LoopGate
  <2>3. \A j \in Jobs : place'[j] = place[j]
    BY <2>1, Names DEF RunInv, Types
  <2> QED
    BY <1>1, <2>1, <2>2, <2>3, QueuedKept DEF RunInv, Types, LoopGate, Gate!Places
<1>3. CASE ~setup.offload
  <2>1. UNCHANGED gate
    BY <1>3 DEF CallRuns
  <2> QED
    BY <1>1, <1>3, <2>1, QueuedKept DEF gate, RunInv, Types, LoopGate
<1> QED
  BY <1>2, <1>3

LEMMA CallNames ==
  ASSUME calls \in CallSeqs, calls # <<>>
  PROVE  /\ Head(calls) = "acquire" => calls = <<"acquire">>
         /\ Head(calls) = "bind" => calls = <<"bind">>
         /\ Head(calls) = "renew" => calls = <<"renew">>
         /\ Head(calls) = "rebind" => calls = <<"rebind">>
         /\ Head(calls) = "unbind" => calls = <<"unbind", "release">> /\ Tail(calls) = <<"release">>
         /\ Head(calls) = "release" => calls = <<"release">>
<1>1. CASE calls = <<"unbind", "release">>
  <2>1. Head(calls) = "unbind" /\ Tail(calls) = <<"release">>
    BY <1>1
  <2> QED
    BY <1>1, <2>1
<1>2. CASE \E name \in {"acquire", "bind", "renew", "rebind", "release"} : calls = <<name>>
  <2>1. PICK name \in {"acquire", "bind", "renew", "rebind", "release"} : calls = <<name>>
    BY <1>2
  <2>2. Head(calls) = name
    BY <2>1
  <2> QED
    BY <2>1, <2>2
<1> QED
  BY <1>1, <1>2 DEF CallSeqs

\* Which part of the run a lock call belongs to.
LEMMA CallsDiffer ==
    /\ <<"bind">> \notin {<<>>, <<"acquire">>, <<"unbind", "release">>, <<"release">>}
    /\ <<"renew">> \notin {<<>>, <<"acquire">>, <<"bind">>, <<"rebind">>, <<"unbind", "release">>, <<"release">>}
    /\ <<"rebind">> \notin {<<>>, <<"acquire">>, <<"bind">>, <<"unbind", "release">>, <<"release">>}
    /\ <<"acquire">> \notin {<<>>, <<"bind">>, <<"unbind", "release">>, <<"release">>}
    /\ <<>> \notin {<<"unbind", "release">>, <<"release">>}
  OBVIOUS

\* A renewal that has taken place grants the fence it says.
LEMMA RenewedFence ==
  ASSUME RunInv, phase = "run", RenewalGranted, hold' = Renewed,
         fences' = IF setup.reacquires THEN fences + 1 ELSE fences
  PROVE  hold'.owner = Us /\ hold'.fence \in Nat \ {0} /\ fences' \in Nat
<1>1. fences \in Nat /\ hold.fence \in Nat
  BY DEF RunInv, Types
<1>2. CASE setup.reacquires
  <2>1. hold' = [owner |-> Us, fence |-> fences + 1, expires |-> now + TTL]
    BY <1>2 DEF Renewed, Granted
  <2> QED
    BY <1>1, <1>2, <2>1
<1>3. CASE ~setup.reacquires
  <2>1. hold' = [owner |-> Us, fence |-> hold.fence, expires |-> now + TTL] /\ hold.owner = Us
    BY <1>3 DEF Renewed, Granted, RenewalGranted
  <2> QED
    BY <1>1, <1>3, <2>1 DEF RunInv, Fences
<1> QED
  BY <1>2, <1>3

LEMMA LockCallRun == ASSUME RunInv, Gate!Exclusion, LockCall PROVE RunInv'
<1> USE DEF store, instance
<1>s. Types /\ LoopGate /\ Queued /\ Underway /\ Order /\ Fences
  BY DEF RunInv
<1>g. CASE RequestCall
  <2>1. /\ UNCHANGED <<setup, store, instance, control, stage, writes, calls>>
        /\ setup.offload /\ calls # <<>> /\ Gate!AcquireExclusive(Loop)
        /\ place[Loop] \in {"out", "awaitExclusive"}
    BY <1>g DEF RequestCall, LoopFree, control, Gate!AcquireExclusive
  <2>2. place' = [place EXCEPT ![Loop] = "exclusive"] \/ place' = [place EXCEPT ![Loop] = "awaitExclusive"]
    BY <2>1 DEF Gate!AcquireExclusive
  <2>3. LoopGate' /\ waiting' \in Nat /\ exclusive' \in BOOLEAN
    <3>1. CASE Gate!ExclusiveBarred
      <4>1. /\ place' = [place EXCEPT ![Loop] = "awaitExclusive"] /\ UNCHANGED <<setup, calls, exclusive>>
            /\ waiting' = waiting + 1 - (IF place[Loop] = "out" THEN 0 ELSE 1)
        BY <2>1, <3>1 DEF Gate!AcquireExclusive
      <4>2. place'[Loop] = "awaitExclusive" /\ waiting' = 1 /\ exclusive' = exclusive
        BY <1>s, <2>1, <4>1 DEF Types, LoopGate
      <4> QED
        BY <1>s, <2>1, <4>1, <4>2 DEF Types, LoopGate, LoopFree
    <3>2. CASE ~Gate!ExclusiveBarred
      <4>1. /\ place' = [place EXCEPT ![Loop] = "exclusive"] /\ exclusive' /\ UNCHANGED <<setup, calls>>
            /\ waiting' = waiting - (IF place[Loop] = "out" THEN 0 ELSE 1) /\ exclusive' \in BOOLEAN
        BY <2>1, <3>2 DEF Gate!AcquireExclusive
      <4>2. place'[Loop] = "exclusive" /\ waiting' = 0
        BY <1>s, <2>1, <4>1 DEF Types, LoopGate
      <4> QED
        BY <1>s, <2>1, <4>1, <4>2 DEF Types, LoopGate, LoopFree
    <3> QED
      BY <3>1, <3>2
  <2>4. place' \in [Jobs \cup {Loop} -> Gate!Places] /\ \A j \in Jobs : place'[j] = place[j]
    BY <1>s, <2>2, Names DEF Types, Gate!Places
  <2>5. UNCHANGED <<setup, hold, fences, lost, bound, lease, unheard, phase, body, calls, stage, job, poolQueue>>
    BY <2>1 DEF control, writes
  <2>6. Types' /\ Queued' /\ Order' /\ Fences'
    BY <1>s, <2>3, <2>4, <2>5 DEF Types, Queued, Order, Fences, Unended
  <2>7. Underway'
    BY <1>s, <2>4, <2>5 DEF Underway
  <2> QED
    BY <2>3, <2>6, <2>7 DEF RunInv
<1>c. ASSUME NEW name, CallRuns(name), calls' \in CallSeqs, calls' # <<"rebind">>,
             phase' \in {"start", "run", "release", "end", "leaked"}, body' \in Bodies, fences' \in Nat,
             hold'.fence \in Nat, lost' \in Lost,
             Order', Fences'
      PROVE  RunInv'
  <2>1. /\ LoopGate' /\ Queued' /\ UNCHANGED <<setup, job, stage>>
        /\ place' \in [Jobs \cup {Loop} -> Gate!Places] /\ exclusive' \in BOOLEAN /\ waiting' \in Nat
        /\ \A j \in Jobs : place'[j] = place[j]
    BY <1>c, CallFrame
  <2>2. Types'
    BY <1>s, <1>c, <2>1 DEF Types
  <2>3. Underway'
    BY <1>s, <1>c, <2>1 DEF Underway
  <2> QED
    BY <1>c, <2>1, <2>2, <2>3 DEF RunInv
\* Where no task has started, no write has.
<1>i. body = "none" => \A j \in Jobs : job[j] = "idle"
  BY <1>s DEF Order, Jobs, Committing
<1>1. CASE Acquire
  <2>1. calls = <<"acquire">> /\ CallRuns("acquire") /\ UNCHANGED <<job, stage>>
    BY <1>1, <1>s, CallFrame, CallNames DEF Acquire, Types
  <2>2. hold' = Granted /\ fences' = fences + 1 /\ lease'.fence = hold'.fence /\ calls' = <<"bind">>
        /\ phase' = "run" /\ UNCHANGED <<lost, body>>
    BY <1>1 DEF Acquire
  <2>3. hold'.owner = Us /\ hold'.fence = fences + 1 /\ fences \in Nat /\ body = "none" /\ phase = "start"
    BY <1>s, <2>1, <2>2 DEF Granted, Types, Order
  <2>4. Order'
    BY <1>s, <1>i, <2>1, <2>2, <2>3, Names DEF Order, Unended, Committing, Settled
  <2>5. Fences'
    BY <2>2, <2>3 DEF Fences
  <2> QED
    BY <1>c, <1>s, <2>1, <2>2, <2>3, <2>4, <2>5 DEF CallSeqs, Types
<1>2. CASE AcquireRefused
  <2>1. calls = <<"acquire">> /\ CallRuns("acquire") /\ UNCHANGED <<job, stage>>
    BY <1>2, <1>s, CallFrame, CallNames DEF AcquireRefused, Types
  <2>2. calls' = <<>> /\ phase' = "end" /\ UNCHANGED <<hold, fences, lost, body, lease, unheard, bound>>
    BY <1>2 DEF AcquireRefused
  <2>3. Order' /\ Fences'
    BY <1>s, <2>1, <2>2 DEF Order, Fences, Unended, Committing, Settled
  <2> QED
    BY <1>c, <1>s, <2>1, <2>2, <2>3 DEF CallSeqs, Types
<1>3. CASE AcquireRaises
  <2>1. calls = <<"acquire">> /\ CallRuns("acquire") /\ UNCHANGED <<job, stage>>
    BY <1>3, <1>s, CallFrame, CallNames DEF AcquireRaises, Types
  <2>2. calls' = <<>> /\ phase' = "leaked" /\ UNCHANGED <<lost, body, lease, unheard, bound>>
    BY <1>3 DEF AcquireRaises
  <2>3. CASE UNCHANGED <<hold, fences>>
    <3>1. Order' /\ Fences'
      BY <1>s, <2>1, <2>2, <2>3 DEF Order, Fences, Unended, Committing, Settled
    <3> QED
      BY <1>c, <1>s, <2>1, <2>2, <2>3, <3>1 DEF CallSeqs, Types
  <2>4. CASE hold' = Granted /\ fences' = fences + 1
    <3>1. hold'.fence = fences + 1 /\ fences \in Nat
      BY <1>s, <2>4 DEF Granted, Types
    <3>2. Order' /\ Fences'
      BY <1>s, <2>1, <2>2, <3>1 DEF Order, Fences, Unended, Committing, Settled
    <3> QED
      BY <1>c, <1>s, <2>1, <2>2, <2>4, <3>1, <3>2 DEF CallSeqs, Types
  <2> QED
    BY <1>3, <2>3, <2>4 DEF AcquireRaises
<1>4. CASE Bind
  <2>1. calls = <<"bind">> /\ CallRuns("bind") /\ UNCHANGED <<job, stage>>
    BY <1>4, <1>s, CallFrame, CallNames DEF Bind, Types
  <2>2. bound' = lease.fence /\ calls' = <<>> /\ body' = "run"
        /\ UNCHANGED <<hold, fences, lease, lost, unheard, phase>>
    BY <1>4 DEF Bind
  <2>3. phase = "run" /\ body = "none"
    BY <1>s, <2>1, CallsDiffer DEF Order, Types
  <2>4. Order' /\ Fences'
    BY <1>s, <1>i, <2>1, <2>2, <2>3, Names DEF Order, Fences, Unended, Committing, Settled
  <2> QED
    BY <1>c, <1>s, <2>1, <2>2, <2>3, <2>4 DEF CallSeqs, Types, Bodies
<1>5. CASE SinkRaises
  <2>1. calls = <<"bind">> /\ CallRuns("bind") /\ UNCHANGED <<job, stage>>
    BY <1>5, <1>s, CallFrame, CallNames DEF SinkRaises, Types
  <2>2. bound' = lease.fence /\ calls' = <<"unbind", "release">> /\ phase' = "release"
        /\ UNCHANGED <<hold, fences, lease, lost, unheard, body>>
    BY <1>5 DEF SinkRaises
  <2>3. phase = "run" /\ body = "none"
    BY <1>s, <2>1, CallsDiffer DEF Order, Types
  <2>4. Order' /\ Fences'
    BY <1>s, <1>i, <2>1, <2>2, <2>3, Names DEF Order, Fences, Unended, Committing, Settled
  <2> QED
    BY <1>c, <1>s, <2>1, <2>2, <2>3, <2>4 DEF CallSeqs, Types
<1>r. CallRuns("renew") => /\ calls = <<"renew">> /\ phase = "run" /\ body # "none"
                           /\ bound = lease.fence /\ UNCHANGED <<setup, job, stage>>
  <2> SUFFICES ASSUME CallRuns("renew")
               PROVE  /\ calls = <<"renew">> /\ phase = "run" /\ body # "none"
                      /\ bound = lease.fence /\ UNCHANGED <<setup, job, stage>>
    OBVIOUS
  <2>1. calls = <<"renew">> /\ UNCHANGED <<setup, job, stage>>
    BY <1>s, CallFrame, CallNames DEF Types
  <2> QED
    BY <1>s, <2>1, CallsDiffer DEF Order, Fences, Types
<1>6. CASE Renew
  <2>1. /\ hold' = Renewed /\ RenewalGranted /\ calls' = <<"rebind">> /\ lease'.fence = hold'.fence
        /\ fences' = IF setup.reacquires THEN fences + 1 ELSE fences
        /\ UNCHANGED <<bound, lost, unheard, phase, body>> /\ CallRuns("renew")
    BY <1>6 DEF Renew
  <2>2. hold'.owner = Us /\ hold'.fence \in Nat \ {0} /\ fences' \in Nat
    BY <1>r, <2>1, RenewedFence
  <2>3. Order' /\ Fences'
    BY <1>s, <1>r, <2>1, <2>2 DEF Order, Fences, Unended
  <2>4. /\ LoopGate' /\ Queued' /\ UNCHANGED <<setup, job, stage>>
        /\ place' \in [Jobs \cup {Loop} -> Gate!Places] /\ exclusive' \in BOOLEAN /\ waiting' \in Nat
        /\ \A j \in Jobs : place'[j] = place[j]
        /\ setup.offload => place[Loop] = "exclusive"
    BY <2>1, CallFrame
  <2>5. Types'
    BY <1>s, <2>1, <2>2, <2>4 DEF Types, CallSeqs
  <2>6. \A j \in Jobs : job[j] \notin Writing
    <3>1. CASE setup.offload
      BY <1>s, <2>4, <3>1, NoneUnderway
    <3>2. CASE ~setup.offload
      BY <1>s, <3>2 DEF Underway, Writing
    <3> QED
      BY <3>1, <3>2
  <2>7. Underway'
    BY <1>s, <2>1, <2>4, <2>6 DEF Underway
  <2> QED
    BY <2>3, <2>4, <2>5, <2>7 DEF RunInv
<1>7. CASE Rebind
  <2>1. calls = <<"rebind">> /\ CallRuns("rebind") /\ UNCHANGED <<job, stage>>
    BY <1>7, <1>s, CallFrame, CallNames DEF Rebind, Types
  <2>2. bound' = lease.fence /\ calls' = <<>> /\ UNCHANGED <<hold, fences, lease, lost, unheard, phase, body>>
    BY <1>7 DEF Rebind
  <2>3. Order' /\ Fences'
    BY <1>s, <2>1, <2>2 DEF Order, Fences, Unended
  <2> QED
    BY <1>c, <1>s, <2>1, <2>2, <2>3 DEF CallSeqs, Types
<1>8. CASE RenewRaises
  <2>1. calls' = <<>> /\ UNCHANGED <<bound, lease, lost, phase, body>> /\ CallRuns("renew")
    BY <1>8 DEF RenewRaises
  <2>2. CASE UNCHANGED <<hold, fences, unheard>>
    <3>1. Order' /\ Fences'
      BY <1>s, <1>r, <2>1, <2>2 DEF Order, Fences, Unended
    <3> QED
      BY <1>c, <1>s, <2>1, <2>2, <3>1 DEF CallSeqs, Types
  <2>3. CASE /\ RenewalGranted /\ hold' = Renewed
             /\ fences' = IF setup.reacquires THEN fences + 1 ELSE fences
             /\ unheard' = hold'.fence
    <3>1. hold'.owner = Us /\ hold'.fence \in Nat \ {0} /\ fences' \in Nat
      BY <1>r, <2>1, <2>3, RenewedFence
    <3>2. Order' /\ Fences'
      BY <1>s, <1>r, <2>1, <2>3, <3>1 DEF Order, Fences, Unended
    <3> QED
      BY <1>c, <1>s, <2>1, <3>1, <3>2 DEF CallSeqs, Types
  <2> QED
    BY <1>8, <2>2, <2>3 DEF RenewRaises
<1>9. CASE RenewRefused
  <2>1. /\ lost' = "refused" /\ body' = Stopped(body) /\ calls' = <<>> /\ CallRuns("renew")
        /\ UNCHANGED <<hold, fences, bound, lease, unheard, phase>>
    BY <1>9 DEF RenewRefused
  <2>2. /\ body' \in Bodies \ {"none"} /\ (body' \in Committing \cup Settled <=> body \in Committing \cup Settled)
        /\ (body' \in Committing <=> body \in Committing)
    <3>1. body \in Bodies \ {"none"}
      BY <1>s, <1>r, <2>1 DEF Types
    <3> QED
      BY <2>1, <3>1 DEF Stopped, Bodies, Committing, Settled
  <2>3. Order' /\ Fences'
    BY <1>s, <1>r, <2>1, <2>2 DEF Order, Fences, Unended
  <2>4. /\ LoopGate' /\ Queued' /\ UNCHANGED <<setup, job, stage>>
        /\ place' \in [Jobs \cup {Loop} -> Gate!Places] /\ exclusive' \in BOOLEAN /\ waiting' \in Nat
        /\ \A j \in Jobs : place'[j] = place[j]
        /\ setup.offload => place[Loop] = "exclusive"
    BY <2>1, CallFrame
  <2>5. Types'
    BY <1>s, <2>1, <2>2, <2>4 DEF Types, CallSeqs, Lost
  <2>6. \A j \in Jobs : job[j] \notin Writing
    <3>1. CASE setup.offload
      BY <1>s, <2>4, <3>1, NoneUnderway
    <3>2. CASE ~setup.offload
      BY <1>s, <3>2 DEF Underway, Writing
    <3> QED
      BY <3>1, <3>2
  <2>7. Underway'
    BY <1>s, <2>1, <2>4, <2>6, Names DEF Underway, Writing
  <2> QED
    BY <2>3, <2>4, <2>5, <2>7 DEF RunInv
<1>10. CASE Unbind
  <2>1. calls = <<"unbind", "release">> /\ calls' = <<"release">> /\ CallRuns("unbind")
        /\ UNCHANGED <<job, stage>>
    BY <1>10, <1>s, CallFrame, CallNames DEF Unbind, Types
  <2>2. UNCHANGED <<hold, fences, lease, lost, unheard, phase, body>>
    BY <1>10 DEF Unbind
  <2>3. Order' /\ Fences'
    BY <1>s, <2>1, <2>2 DEF Order, Fences, Unended
  <2> QED
    BY <1>c, <1>s, <2>1, <2>2, <2>3 DEF CallSeqs, Types
<1>11. CASE Release
  <2>1. calls = <<"release">> /\ CallRuns("release") /\ UNCHANGED <<job, stage>>
    BY <1>11, <1>s, CallFrame, CallNames DEF Release, Types
  <2>2. /\ hold' = IF hold.owner = Us THEN NoHold ELSE hold
        /\ calls' = <<>> /\ phase' = "end" /\ UNCHANGED <<fences, lease, lost, unheard, bound, body>>
    BY <1>11 DEF Release
  <2>3. hold'.owner # Us /\ hold'.fence \in Nat
    BY <1>s, <2>2 DEF NoHold, Us, Types
  <2>4. Order' /\ Fences'
    BY <1>s, <2>1, <2>2, <2>3 DEF Order, Fences, Unended
  <2> QED
    BY <1>c, <1>s, <2>1, <2>2, <2>3, <2>4 DEF CallSeqs, Types
<1>12. CASE ReleaseRaises
  <2>1. calls = <<"release">> /\ CallRuns("release") /\ UNCHANGED <<job, stage>>
    BY <1>12, <1>s, CallFrame, CallNames DEF ReleaseRaises, Types
  <2>2. calls' = <<>> /\ phase' = "leaked" /\ UNCHANGED <<hold, fences, lease, lost, unheard, bound, body>>
    BY <1>12 DEF ReleaseRaises
  <2>3. Order' /\ Fences'
    BY <1>s, <2>1, <2>2 DEF Order, Fences, Unended
  <2> QED
    BY <1>c, <1>s, <2>1, <2>2, <2>3 DEF CallSeqs, Types
<1> QED
  BY <1>g, <1>1, <1>2, <1>3, <1>4, <1>5, <1>6, <1>7, <1>8, <1>9, <1>10, <1>11, <1>12 DEF LockCall


\* Between two lock calls the gate is open: a write is admitted at once.
LEMMA OpenGate ==
  ASSUME RunInv, LoopFree
  PROVE  ~Gate!SharedBarred /\ place[Loop] = "out"
  BY DEF RunInv, Types, LoopGate, Gate!SharedBarred

LEMMA SubmitRun ==
  ASSUME RunInv, LoopFree, setup.offload, NEW j \in Jobs, Submit(j), job[j] # "queued",
         UNCHANGED <<setup, calls, lost>>
  PROVE  /\ LoopGate' /\ Queued' /\ Underway' /\ job' = [job EXCEPT ![j] = "queued"]
         /\ place' \in [Jobs \cup {Loop} -> Gate!Places] /\ UNCHANGED <<exclusive, waiting>>
<1>s. Types /\ LoopGate /\ Queued /\ Underway
  BY DEF RunInv
<1>1. ~Gate!SharedBarred /\ place[Loop] = "out"
  BY OpenGate
<1>2. place' = [place EXCEPT ![j] = "shared"] /\ UNCHANGED <<exclusive, waiting>>
  BY <1>1 DEF Submit, Gate!AcquireShared
<1>3. job' = [job EXCEPT ![j] = "queued"] /\ poolQueue' = Append(poolQueue, j)
  BY DEF Submit
<1>4. place' \in [Jobs \cup {Loop} -> Gate!Places] /\ place'[Loop] = "out"
  BY <1>s, <1>1, <1>2, Names DEF Types, Gate!Places
<1>5. LoopGate'
  BY <1>s, <1>1, <1>2, <1>4 DEF LoopGate, LoopFree
<1>6. Queued'
  BY <1>s, <1>3, QueuedSubmit DEF Types
<1>7. Underway'
  <2>1. calls' # <<"rebind">> /\ setup'.offload
    BY DEF LoopFree
  <2>2. \A i \in Jobs : job'[i] \in Writing => place'[i] = "shared"
    BY <1>s, <1>2, <1>3 DEF Types, Underway
  <2> QED
    BY <2>1, <2>2 DEF Underway
<1> QED
  BY <1>2, <1>3, <1>4, <1>5, <1>6, <1>7

LEMMA SettleRun ==
  ASSUME RunInv, NEW j \in Jobs, NEW result \in {"ok", "error"}, job[j] \in Writing,
         Settle(j, result), UNCHANGED <<setup, calls>>
  PROVE  /\ LoopGate' /\ Underway' /\ job' = [job EXCEPT ![j] = result]
         /\ place' \in [Jobs \cup {Loop} -> Gate!Places] /\ UNCHANGED <<exclusive, waiting>>
<1>s. Types /\ LoopGate /\ Underway
  BY DEF RunInv
<1>1. /\ place' = [place EXCEPT ![j] = "out"] /\ UNCHANGED <<exclusive, waiting>>
      /\ job' = [job EXCEPT ![j] = result]
  BY DEF Settle, Gate!ReleaseShared
<1>2. place' \in [Jobs \cup {Loop} -> Gate!Places] /\ place'[Loop] = place[Loop]
  BY <1>s, <1>1, Names DEF Types, Gate!Places
<1>3. LoopGate'
  BY <1>s, <1>1, <1>2 DEF LoopGate, LoopFree
<1>4. Underway'
  <2>1. \A i \in Jobs : job'[i] \in Writing => i # j /\ job'[i] = job[i] /\ place'[i] = place[i]
    BY <1>s, <1>1 DEF Types, Writing
  <2>2. setup'.offload
    BY <1>s DEF Underway, Writing
  <2> QED
    BY <1>s, <2>1, <2>2 DEF Underway
<1> QED
  BY <1>1, <1>2, <1>3, <1>4

\* A step that leaves the gate, the writes and the store alone.
LEMMA QuietRun ==
  ASSUME RunInv, UNCHANGED <<setup, gate, fences, lost, job, poolQueue>>, hold'.fence \in Nat,
         stage' \in [Nodes -> {"provider"} \cup Storing \cup Ended],
         calls' \in CallSeqs, calls' # <<"rebind">> \/ calls' = calls, LoopFree => place[Loop] = "out",
         LoopFree' => LoopFree,
         phase' \in {"start", "run", "release", "end", "leaked"}, body' \in Bodies, Order', Fences'
  PROVE  RunInv'
<1>s. Types /\ LoopGate /\ Queued /\ Underway
  BY DEF RunInv
<1>1. UNCHANGED <<exclusive, waiting, place>>
  BY DEF gate
<1>2. Types' /\ LoopGate'
  BY <1>s, <1>1 DEF Types, LoopGate
<1>3. Queued' /\ Underway'
  BY <1>s, <1>1 DEF Queued, Underway
<1> QED
  BY <1>2, <1>3 DEF RunInv

LEMMA TurnRun == ASSUME RunInv, Turn PROVE RunInv'
<1> USE DEF store, instance, writes
<1>s. Types /\ LoopGate /\ Queued /\ Underway /\ Order /\ Fences
  BY DEF RunInv
<1>f. LoopFree /\ calls = <<>> /\ place[Loop] = "out"
  BY OpenGate DEF Turn, Beat, Abort, TasksOver, CheckpointOver, EndRun, LoopFree
<1>1. CASE Beat
  <2>1. /\ phase = "run" /\ calls' = <<"renew">>
        /\ UNCHANGED <<setup, gate, hold, fences, bound, lease, lost, unheard, phase, body, stage, job, poolQueue>>
    BY <1>1 DEF Beat
  <2>2. Order'
    BY <1>s, <1>f, <2>1, CallsDiffer DEF Order, Unended
  <2>3. Fences'
    BY <1>s, <1>f, <2>1, CallsDiffer DEF Fences
  <2> QED
    BY <1>s, <1>f, <2>1, <2>2, <2>3, CallsDiffer, QuietRun DEF Types, CallSeqs, LoopFree
<1>2. CASE Abort
  <2>1. /\ (body = "run" /\ body' = "fail") \/ (body = "cancel" /\ body' = body)
        /\ UNCHANGED <<setup, gate, hold, fences, bound, lease, lost, unheard, phase, calls, stage, job, poolQueue>>
    <3>1. UNCHANGED quiet /\ UNCHANGED <<phase, calls, stage>>
      BY <1>2 DEF Abort
    <3>2. (body = "run" /\ body' = "fail") \/ (body = "cancel" /\ body' = body)
      BY <1>2 DEF Abort
    <3> QED
      BY <3>1, <3>2 DEF quiet
  <2>2. Order'
    BY <1>s, <1>f, <2>1 DEF Order, Unended, Committing, Settled
  <2>3. Fences'
    BY <1>s, <1>f, <2>1 DEF Fences
  <2> QED
    BY <1>s, <1>f, <2>1, <2>2, <2>3, QuietRun DEF Types, Bodies, LoopFree
<1>5. CASE EndRun
  <2>1. /\ body \in Settled /\ phase = "run" /\ phase' = "release" /\ calls' = <<"unbind", "release">>
        /\ UNCHANGED <<setup, gate, hold, fences, bound, lease, lost, unheard, body, stage, job, poolQueue>>
    BY <1>5 DEF EndRun, quiet, Settled
  <2>2. Order'
    BY <1>s, <1>f, <2>1, CallsDiffer DEF Order, Unended
  <2>3. Fences'
    BY <1>s, <1>f, <2>1 DEF Fences
  <2> QED
    BY <1>s, <1>f, <2>1, <2>2, <2>3, CallsDiffer, QuietRun DEF Types, CallSeqs, LoopFree
<1>3. CASE TasksOver
  <2>1. /\ body \in {"run", "fail", "cancel"} /\ Unended = {}
        /\ UNCHANGED <<setup, hold, fences, bound, lease, lost, unheard, phase, calls, stage>>
    BY <1>3 DEF TasksOver
  <2>2. phase = "run"
    BY <1>s, <2>1 DEF Order, Settled
  <2>3. \A j \in Jobs : job[j] = "idle"
    <3>1. \A n \in Nodes : stage[n] \in Ended
      BY <2>1 DEF Unended
    <3>2. \A n \in Nodes : job[n] = "idle"
      BY <1>s, <3>1 DEF Order, Ended, Storing
    <3>3. job[Checkpoint] = "idle"
      BY <1>s, <2>1 DEF Order, Committing
    <3> QED
      BY <3>2, <3>3 DEF Jobs
  <2>4. Fences'
    BY <1>s, <2>1 DEF Fences
  <2>5. Unended' = {}
    BY <2>1 DEF Unended
  <2>6. CASE Checkpoints
    <3>1. setup.offload /\ body' \in {"commit", "commitFailed"} /\ Submit(Checkpoint)
      BY <1>3, <2>6 DEF TasksOver, Checkpoints
    <3>2. /\ LoopGate' /\ Queued' /\ Underway' /\ job' = [job EXCEPT ![Checkpoint] = "queued"]
          /\ place' \in [Jobs \cup {Loop} -> Gate!Places] /\ UNCHANGED <<exclusive, waiting>>
      BY <1>f, <2>1, <2>3, <3>1, Names, SubmitRun
    <3>3. \A n \in Nodes : job'[n] = "idle"
      BY <2>3, <3>2, Names
    <3>4. Order'
      BY <1>s, <1>f, <2>1, <2>2, <2>5, <3>1, <3>3, CallsDiffer DEF Order, Committing, Settled
    <3>5. Types'
      BY <1>s, <2>1, <3>1, <3>2, Names DEF Types, Bodies, Committing, Writing
    <3> QED
      BY <2>4, <3>2, <3>4, <3>5 DEF RunInv
  <2>7. CASE ~Checkpoints
    <3>1. body' \in Settled /\ UNCHANGED <<gate, job, poolQueue>>
      BY <1>3, <2>7 DEF TasksOver, BodyEnd, Settled
    <3>2. Order'
      BY <1>s, <1>f, <2>1, <2>2, <2>3, <2>5, <3>1, Names, CallsDiffer DEF Order, Committing, Settled
    <3> QED
      BY <1>s, <1>f, <2>1, <2>4, <3>1, <3>2, QuietRun DEF Types, Bodies, LoopFree
  <2> QED
    BY <2>6, <2>7
<1>4. CASE CheckpointOver
  <2>1. /\ job[Checkpoint] \in {"ok", "error"} /\ job' = [job EXCEPT ![Checkpoint] = "idle"]
        /\ UNCHANGED <<setup, gate, hold, fences, bound, lease, lost, unheard, phase, calls, stage, poolQueue>>
        /\ body' \in Settled
    BY <1>4 DEF CheckpointOver, Settled
  <2>2. body \in Committing /\ phase = "run" /\ Unended = {}
    BY <1>s, <2>1 DEF Order, Committing, Settled
  <2>3. Fences'
    BY <1>s, <2>1 DEF Fences
  <2>4. \A n \in Nodes : job'[n] = job[n] /\ stage[n] \in Ended
    BY <2>1, <2>2, Names DEF Unended
  <2>5. Order'
    <3>1. Unended' = {} /\ job'[Checkpoint] = "idle"
      BY <1>s, <2>1, <2>2, Names DEF Unended, Types
    <3>2. \A n \in Nodes : job'[n] = "idle"
      BY <1>s, <2>4 DEF Order, Ended, Storing
    <3> QED
      BY <1>s, <1>f, <2>1, <2>2, <3>1, <3>2, CallsDiffer DEF Order, Settled, Committing
  <2>6. Types'
    BY <1>s, <2>1, Names DEF Types, gate, Bodies
  <2>7. LoopGate'
    BY <1>s, <2>1 DEF LoopGate, gate, LoopFree
  <2>8. Queued'
    BY <1>s, <2>1, QueuedKept DEF Types
  <2>9. Underway'
    <3>1. \A j \in Jobs : job'[j] # "idle" => job'[j] = job[j]
      BY <1>s, <2>1 DEF Types
    <3>2. \A j \in Jobs : job'[j] \in Writing => job[j] \in Writing
      BY <3>1 DEF Writing
    <3> QED
      BY <1>s, <2>1, <2>4, <3>1, <3>2 DEF Underway, gate
  <2> QED
    BY <2>3, <2>5, <2>6, <2>7, <2>8, <2>9 DEF RunInv
<1> QED
  BY <1>1, <1>2, <1>3, <1>4, <1>5 DEF Turn


\* A task that is not over keeps the order, whatever becomes of it.
LEMMA TaskOrder ==
  ASSUME Types, Order, NEW n \in Nodes, stage[n] \notin Ended, NEW s,
         stage' = [stage EXCEPT ![n] = s], UNCHANGED <<phase, calls, body>>,
         \A j \in Jobs \ {n} : job'[j] = job[j],
         job'[n] # "idle" => s \in Storing /\ body # "none"
  PROVE  Order'
<1>1. n \in Unended /\ body \notin Committing \cup Settled
  BY DEF Order, Unended
<1>2. \A m \in Nodes : job'[m] # "idle" => stage'[m] \in Storing /\ body # "none"
  BY Names DEF Order, Types
<1>3. job'[Checkpoint] = job[Checkpoint]
  BY Names
<1> QED
  BY <1>1, <1>2, <1>3 DEF Order

LEMMA AfterTypes ==
  ASSUME NEW n, NEW result
  PROVE  After(n, result) \in {"provider"} \cup Storing \cup Ended
  BY DEF After, Ended, Storing

LEMMA TaskRun ==
  ASSUME RunInv, NEW n \in Nodes, Task(n) \/ NodeTimeout(n)
  PROVE  RunInv'
<1> USE DEF store, instance, control
<1>s. Types /\ LoopGate /\ Queued /\ Underway /\ Order /\ Fences
  BY DEF RunInv
<1>n. n \in Jobs /\ n # Checkpoint
  BY Names
<1>f. LoopFree /\ calls = <<>> /\ place[Loop] = "out"
  BY OpenGate
  DEF Task, Ask, NextInLine, Back, RunInline, Provider, Cancelled, NodeTimeout, LoopFree
\* A write is admitted.
<1>a. ASSUME setup.offload, Submit(n), job[n] # "queued", body # "none",
             stage[n] \in Storing,
             UNCHANGED <<setup, hold, fences, bound, lease, lost, unheard, phase, body, calls, stage>>
      PROVE  RunInv'
  <2>1. /\ LoopGate' /\ Queued' /\ Underway' /\ job' = [job EXCEPT ![n] = "queued"]
        /\ place' \in [Jobs \cup {Loop} -> Gate!Places] /\ UNCHANGED <<exclusive, waiting>>
    BY <1>a, <1>f, <1>n, SubmitRun
  <2>2. Types'
    BY <1>s, <1>a, <1>n, <2>1 DEF Types, Writing
  <2>3. stage[n] \notin Ended /\ stage' = [stage EXCEPT ![n] = stage[n]]
    BY <1>s, <1>a DEF Types, Ended, Storing
  <2>4. \A j \in Jobs \ {n} : job'[j] = job[j]
    BY <1>s, <2>1 DEF Types
  <2>5. Order'
    BY <1>s, <1>a, <2>3, <2>4, TaskOrder
  <2>6. Fences'
    BY <1>s, <1>a DEF Fences
  <2> QED
    BY <2>1, <2>2, <2>5, <2>6 DEF RunInv
\* A step that admits none.
<1>b. ASSUME NEW s, s \in {"provider"} \cup Storing \cup Ended, stage[n] \notin Ended,
             stage' = [stage EXCEPT ![n] = s],
             UNCHANGED <<setup, gate, hold, fences, bound, lease, unheard, phase, body, calls, poolQueue>>,
             lost' \in Lost,
             NEW i \in {"idle", "line"}, job' = [job EXCEPT ![n] = i] \/ (i = "idle" /\ job' = job /\ job[n] = i),
             i = "line" => setup.offload /\ body # "none" /\ s \in Storing,
             job[n] # "queued"
      PROVE  RunInv'
  <2>1. job' = [job EXCEPT ![n] = i]
    BY <1>s, <1>b, <1>n DEF Types
  <2>2. job'[n] = i /\ \A j \in Jobs \ {n} : job'[j] = job[j]
    BY <1>s, <1>n, <2>1 DEF Types
  <2>3. Order'
    BY <1>s, <1>b, <2>2, TaskOrder
  <2>4. Fences'
    BY <1>s, <1>b DEF Fences
  <2>5. Types'
    BY <1>s, <1>b, <1>n, <2>1 DEF Types, gate
  <2>6. LoopGate'
    BY <1>s, <1>b DEF LoopGate, gate, LoopFree
  <2>7. Queued'
    BY <1>s, <1>b, <2>2, QueuedKept
  <2>8. Underway'
    <3>1. \A j \in Jobs : job'[j] \in Writing => job[j] \in Writing /\ job[j] = job'[j]
      BY <2>2 DEF Writing
    <3>2. UNCHANGED <<place, setup, calls>>
      BY <1>b DEF gate
    <3>3. ~setup'.offload => \A j \in Jobs : job'[j] = "idle"
      BY <1>s, <1>b, <2>2, <3>2 DEF Underway
    <3> QED
      BY <1>s, <3>1, <3>2, <3>3 DEF Underway
  <2> QED
    BY <2>3, <2>4, <2>5, <2>6, <2>7, <2>8 DEF RunInv
<1>1. CASE Ask(n)
  <2>1. /\ setup.offload /\ body # "none" /\ stage[n] \in Storing /\ job[n] = "idle"
        /\ UNCHANGED <<setup, hold, fences, bound, lease, lost, unheard, phase, body, calls, stage>>
        /\ Submit(n) \/ (job' = [job EXCEPT ![n] = "line"] /\ UNCHANGED <<gate, poolQueue>>)
    BY <1>1 DEF Ask
  <2>2. stage[n] \notin Ended /\ stage' = [stage EXCEPT ![n] = stage[n]]
    BY <1>s, <2>1 DEF Types, Ended, Storing
  <2> QED
    BY <1>s, <1>a, <1>b, <2>1, <2>2 DEF Types
<1>2. CASE NextInLine(n)
  <2>1. /\ job[n] = "line" /\ Submit(n)
        /\ UNCHANGED <<setup, hold, fences, bound, lease, lost, unheard, phase, body, calls, stage>>
    BY <1>2 DEF NextInLine
  <2>2. setup.offload /\ body # "none" /\ stage[n] \in Storing
    BY <1>s, <1>n, <2>1 DEF Underway, Order
  <2> QED
    BY <1>a, <2>1, <2>2
<1>3. CASE Back(n)
  <2>1. /\ job[n] \in {"ok", "error"} /\ job' = [job EXCEPT ![n] = "idle"]
        /\ stage' = [stage EXCEPT ![n] = After(n, job[n])]
        /\ UNCHANGED <<setup, gate, hold, fences, bound, lease, lost, unheard, phase, body, calls, poolQueue>>
    BY <1>3 DEF Back
  <2>2. stage[n] \notin Ended
    BY <1>s, <2>1 DEF Order, Ended, Storing
  <2> QED
    BY <1>s, <1>b, <2>1, <2>2, AfterTypes DEF Types
<1>4. CASE RunInline(n)
  <2>1. /\ ~setup.offload /\ stage[n] \in Storing /\ lost' \in {GuardLost, lost}
        /\ \/ stage' = [stage EXCEPT ![n] = After(n, "error")]
           \/ stage' = [stage EXCEPT ![n] = After(n, "ok")]
        /\ UNCHANGED <<setup, gate, hold, fences, bound, lease, unheard, phase, body, calls, job, poolQueue>>
    BY <1>4 DEF RunInline
  <2>2. stage[n] \notin Ended /\ job[n] = "idle"
    BY <1>s, <1>n, <2>1 DEF Ended, Storing, Underway
  <2>3. lost' \in Lost
    BY <1>s, <2>1 DEF GuardLost, Lost, Types
  <2> QED
    BY <1>b, <2>1, <2>2, <2>3, AfterTypes
<1>5. CASE Provider(n)
  <2>1. /\ stage[n] = "provider"
        /\ \E t \in {"persist", "drop", "failed"} : stage' = [stage EXCEPT ![n] = t]
        /\ UNCHANGED <<setup, gate, hold, fences, bound, lease, lost, unheard, phase, body, calls, job, poolQueue>>
    BY <1>5 DEF Provider, quiet, writes, Storing
  <2>2. stage[n] \notin Ended /\ job[n] = "idle"
    BY <1>s, <2>1 DEF Ended, Order, Storing
  <2> QED
    BY <1>s, <1>b, <2>1, <2>2 DEF Types, Ended, Storing
<1>6. CASE Cancelled(n)
  <2>1. /\ stage[n] \notin Ended /\ job[n] \in {"idle", "line"} /\ job' = [job EXCEPT ![n] = "idle"]
        /\ stage' = [stage EXCEPT ![n] = After(n, "error")]
        /\ UNCHANGED <<setup, gate, hold, fences, bound, lease, lost, unheard, phase, body, calls, poolQueue>>
    BY <1>6 DEF Cancelled
  <2> QED
    BY <1>s, <1>b, <2>1, AfterTypes DEF Types
<1>7. CASE NodeTimeout(n)
  <2>1. /\ UNCHANGED <<setup, gate, hold, fences, bound, lease, lost, unheard, phase, body, calls>>
        /\ UNCHANGED <<stage, job, poolQueue>>
    BY <1>7 DEF NodeTimeout, quiet, writes
  <2>2. Order' /\ Fences'
    BY <1>s, <2>1 DEF Order, Fences, Unended
  <2> QED
    BY <1>s, <1>f, <2>1, <2>2, QuietRun DEF Types, LoopFree
<1> QED
  BY <1>1, <1>2, <1>3, <1>4, <1>5, <1>6, <1>7 DEF Task


LEMMA JobsOrder ==
  ASSUME Order, UNCHANGED <<phase, calls, body, stage>>,
         \A j \in Jobs : job'[j] # "idle" => job[j] # "idle"
  PROVE  Order'
  BY Names DEF Order, Unended

LEMMA PoolRun ==
  ASSUME RunInv, NEW j \in Jobs, Pool(j) \/ PutRaises(j)
  PROVE  RunInv'
<1> USE DEF store, instance, control
<1>s. Types /\ LoopGate /\ Queued /\ Underway /\ Order /\ Fences
  BY DEF RunInv
\* A write that settles.
<1>a. ASSUME NEW result \in {"ok", "error"}, job[j] \in Writing, Settle(j, result), Queued',
             UNCHANGED <<setup, hold, fences, bound, lease, unheard, phase, body, calls, stage>>,
             lost' \in Lost
      PROVE  RunInv'
  <2>1. /\ LoopGate' /\ Underway' /\ job' = [job EXCEPT ![j] = result]
        /\ place' \in [Jobs \cup {Loop} -> Gate!Places] /\ UNCHANGED <<exclusive, waiting>>
    BY <1>a, SettleRun
  <2>2. Types'
    BY <1>s, <1>a, <2>1 DEF Types
  <2>3. Order'
    <3>1. \A i \in Jobs : job'[i] # "idle" => job[i] # "idle"
      BY <1>s, <1>a, <2>1 DEF Types, Writing
    <3> QED
      BY <1>s, <1>a, <3>1, JobsOrder
  <2>4. Fences'
    BY <1>s, <1>a DEF Fences
  <2> QED
    BY <1>a, <2>1, <2>2, <2>3, <2>4 DEF RunInv
<1>1. CASE Start(j)
  <2>1. /\ poolQueue # <<>> /\ Head(poolQueue) = j /\ poolQueue' = Tail(poolQueue)
        /\ UNCHANGED <<setup, hold, fences, bound, lease, unheard, phase, body, calls, stage>>
    BY <1>1 DEF Start
  <2>2. \A i \in Jobs \ {Head(poolQueue)} : job'[i] = job[i]
    BY <1>s, <1>1, <2>1 DEF Start, Settle, Types
  <2>3. Queued' /\ job[j] = "queued"
    BY <1>s, <2>1, <2>2, QueuedTaken
  <2>4. CASE Checked(j) /\ GuardRefuses
    <3>1. Settle(j, "error") /\ lost' = GuardLost
      BY <1>1, <2>4 DEF Start
    <3>2. lost' \in Lost
      BY <1>s, <3>1 DEF GuardLost, Lost, Types
    <3> QED
      BY <1>a, <2>1, <2>3, <3>1, <3>2 DEF Writing
  <2>5. CASE ~(Checked(j) /\ GuardRefuses)
    <3>1. job' = [job EXCEPT ![j] = "put"] /\ UNCHANGED <<shared, exclusive, waiting, place, parked, lost>>
      BY <1>1, <2>5 DEF Start, gate
    <3>2. Types' /\ LoopGate' /\ Fences'
      BY <1>s, <2>1, <3>1 DEF Types, LoopGate, Fences, LoopFree, Writing
    <3>3. Order'
      <4>1. \A i \in Jobs : job'[i] # "idle" => job[i] # "idle"
        BY <1>s, <2>3, <3>1 DEF Types
      <4> QED
        BY <1>s, <2>1, <4>1, JobsOrder
    <3>4. Underway'
      <4>1. \A i \in Jobs : job'[i] \in Writing => job[i] \in Writing
        BY <1>s, <2>3, <3>1 DEF Types, Writing
      <4>2. setup.offload
        BY <1>s, <2>3 DEF Underway
      <4> QED
        BY <1>s, <2>1, <3>1, <4>1, <4>2 DEF Underway
    <3> QED
      BY <2>3, <3>2, <3>3, <3>4 DEF RunInv
  <2> QED
    BY <2>4, <2>5
<1>2. ASSUME NEW result \in {"ok", "error"}, job[j] = "put", Settle(j, result),
             UNCHANGED <<setup, store, instance, control, stage, poolQueue>>
      PROVE  RunInv'
  <2>1. Queued'
    BY <1>s, <1>2, QueuedKept DEF Settle, Types
  <2> QED
    BY <1>s, <1>a, <1>2, <2>1 DEF Writing, Types
<1>3. CASE Put(j)
  BY <1>2, <1>3 DEF Put
<1>4. CASE PutRaises(j)
  BY <1>2, <1>4 DEF PutRaises
<1> QED
  BY <1>1, <1>3, <1>4 DEF Pool

LEMMA OutsideRun ==
  ASSUME RunInv, Interrupt \/ Take \/ TheyRelease \/ Tick \/ UNCHANGED vars
  PROVE  RunInv'
<1> USE DEF store, instance, control, writes
<1>s. Types /\ LoopGate /\ Queued /\ Underway /\ Order /\ Fences
  BY DEF RunInv
<1>f. LoopFree => place[Loop] = "out"
  BY OpenGate
<1>1. CASE Interrupt
  <2>1. /\ phase = "run" /\ calls = <<>> /\ body # "none" /\ body' = Stopped(body)
        /\ UNCHANGED <<setup, gate, hold, fences, bound, lease, lost, unheard, phase, calls, stage, job, poolQueue>>
    BY <1>1 DEF Interrupt, quiet, LoopFree
  <2>2. /\ body' \in Bodies \ {"none"} /\ (body' \in Committing \cup Settled <=> body \in Committing \cup Settled)
        /\ (body' \in Committing <=> body \in Committing)
    <3>1. body \in Bodies \ {"none"}
      BY <1>s, <2>1 DEF Types
    <3> QED
      BY <2>1, <3>1 DEF Stopped, Bodies, Committing, Settled
  <2>3. Order' /\ Fences'
    BY <1>s, <2>1, <2>2 DEF Order, Fences, Unended
  <2> QED
    BY <1>s, <1>f, <2>1, <2>2, <2>3, QuietRun DEF Types, LoopFree
<1>2. ASSUME hold'.owner # Us, hold'.fence \in Nat, fences' \in Nat,
             UNCHANGED <<setup, gate, instance, control, stage, writes>>
      PROVE  RunInv'
  <2>1. Order' /\ Fences'
    BY <1>s, <1>2 DEF Order, Fences, Unended
  <2>2. Types' /\ LoopGate' /\ Queued' /\ Underway'
    BY <1>s, <1>2 DEF Types, LoopGate, Queued, Underway, gate, LoopFree
  <2> QED
    BY <2>1, <2>2 DEF RunInv
<1>3. CASE Take
  <2>1. hold' = [owner |-> Them, fence |-> fences + 1, expires |-> now + TTL] /\ fences' = fences + 1
        /\ UNCHANGED <<setup, gate, instance, control, stage, writes>>
    BY <1>3 DEF Take
  <2> QED
    BY <1>s, <1>2, <2>1 DEF Types, Us, Them
<1>4. CASE TheyRelease
  <2>1. hold' = NoHold /\ fences' = fences /\ UNCHANGED <<setup, gate, instance, control, stage, writes>>
    BY <1>4 DEF TheyRelease
  <2> QED
    BY <1>s, <1>2, <2>1 DEF Types, Us, NoHold
<1>5. CASE Tick \/ UNCHANGED vars
  <2>1. UNCHANGED <<setup, gate, store, instance, control, stage, writes>>
    BY <1>5 DEF Tick, vars
  <2>2. Types' /\ LoopGate' /\ Queued' /\ Underway' /\ Order' /\ Fences'
    BY <1>s, <2>1 DEF Types, LoopGate, Queued, Underway, Order, Fences, Unended, gate, LoopFree
  <2> QED
    BY <2>2 DEF RunInv
<1> QED
  BY <1>1, <1>3, <1>4, <1>5

LEMMA RunInvariance == Safety => []RunInv
<1>1. RunInv /\ Gate!Exclusion /\ [Next]_vars => RunInv'
  <2> SUFFICES ASSUME RunInv, Gate!Exclusion, [Next]_vars PROVE RunInv'
    OBVIOUS
  <2>1. CASE UNCHANGED vars
    BY <2>1, OutsideRun
  <2>2. CASE Next
    BY <2>2, LockCallRun, TurnRun, TaskRun, PoolRun, OutsideRun DEF Next, Over
  <2> QED
    BY <2>1, <2>2
<1> QED
  BY <1>1, InitRun, RunExcludes, PTL DEF Safety


\* A write on its way belongs to a run that has its lease bound.
LEMMA WriteInRun ==
  ASSUME RunInv, NEW j \in Jobs, job[j] # "idle"
  PROVE  /\ phase = "run" /\ lease.fence # 0
         /\ job[j] \in Writing => bound = lease.fence
<1>s. Underway /\ Order /\ Fences
  BY DEF RunInv
<1>1. body # "none" /\ body \notin Settled
  <2>1. CASE j = Checkpoint
    BY <1>s, <2>1 DEF Order, Committing, Settled
  <2>2. CASE j \in Nodes
    <3>1. j \in Unended /\ body # "none"
      BY <1>s, <2>2 DEF Order, Unended, Ended, Storing
    <3> QED
      BY <1>s, <3>1 DEF Order
  <2> QED
    BY <2>1, <2>2 DEF Jobs
<1>2. phase = "run" /\ calls # <<"bind">>
  BY <1>s, <1>1 DEF Order
<1> QED
  BY <1>s, <1>2 DEF Underway, Fences

\* LeaseSession.renewed rebinds under the renewal's own exclusive hold of the gate: for
\* any tasks, policy and number of threads, a write at the store carries the fence of its
\* own run's hold, but for a renewal whose answer was lost.
THEOREM FenceIsCurrent == Safety => []NoSupersededWrite
<1>1. RunInv => NoSupersededWrite
  <2> SUFFICES ASSUME RunInv, NEW j \in Jobs, job[j] = "put", hold.owner = Us
               PROVE  bound = hold.fence \/ hold.fence = unheard
    BY DEF NoSupersededWrite
  <2>1. phase = "run" /\ bound = lease.fence
    BY WriteInRun DEF Writing
  <2> QED
    BY <2>1 DEF RunInv, Fences
<1> QED
  BY <1>1, RunInvariance, PTL

\* hold() unbinds only once the body is over, and the body is over only once its writes
\* are: a write StateWriter has admitted is fenced until it has settled.
THEOREM WritesAreFenced == Safety => []AlwaysFenced
<1>1. RunInv => AlwaysFenced
  <2> SUFFICES ASSUME RunInv, NEW j \in Jobs, job[j] \in Writing PROVE bound # 0
    BY DEF AlwaysFenced
  <2>1. job[j] # "idle"
    BY DEF Writing
  <2> QED
    BY <2>1, WriteInRun
<1> QED
  BY <1>1, RunInvariance, PTL

\* _run_renewed's finally comes after the TaskGroup and the checkpoint: when the lock is
\* being given up, or has been, no write is in flight and no task can submit one.
THEOREM ReleaseIsQuiet == Safety => []ReleasedQuiet
<1>1. RunInv => ReleasedQuiet
  <2> SUFFICES ASSUME RunInv, phase \in {"release", "end"}, body # "none"
               PROVE  (\A j \in Jobs : job[j] = "idle") /\ Unended = {}
    BY DEF ReleasedQuiet
  <2>1. \A j \in Jobs : job[j] = "idle"
    BY WriteInRun
  <2>2. body \in Settled
    BY DEF RunInv, Order
  <2> QED
    BY <2>1, <2>2 DEF RunInv, Order
<1> QED
  BY <1>1, RunInvariance, PTL

\* The exclusive side is only ever taken by a lock call, which blocks the loop thread
\* until it is back: no task finds the gate closed, so StateWriter.run never blocks it.
THEOREM GateOpenToTasks == Safety => []AdmissionOpen
<1>1. RunInv => AdmissionOpen
  BY OpenGate DEF AdmissionOpen
<1> QED
  BY <1>1, RunInvariance, PTL

(***************************************************************************)
(* After a refused renewal.  The hold is another run's or nobody's, and    *)
(* stays so: the heartbeat has ended, and only a checked write could have  *)
(* come by the guard.                                                      *)
(***************************************************************************)
Refused ==
    /\ taken /\ hold.owner # Us
    /\ wake = 0 /\ phase # "start" /\ calls \notin {<<"bind">>, <<"renew">>, <<"rebind">>}
    /\ \A n \in Nodes : job[n] = "put" => ~Checked(n)

Takeover ==
    /\ hold.owner \in {Us, Them, "nobody"}
    /\ taken => phase # "start"
    /\ phase = "run" /\ hold.owner # Us => taken
    /\ ~setup.reacquires /\ taken => hold.owner # Us
    /\ lost = "refused" => Refused

LEMMA InitTakeover == Init => Takeover
<1> SUFFICES ASSUME Init PROVE Takeover
  OBVIOUS
<1>1. hold.owner \in {Us, Them, "nobody"} /\ ~taken /\ phase = "start" /\ lost = "no"
  BY DEF Init, NoHold
<1> QED
  BY <1>1 DEF Takeover

\* No lock call but a refused renewal finds the lease refused, and that one found the
\* gate empty of writes.
LEMMA LockCallTakeover ==
  ASSUME RunInv, Gate!Exclusion, Takeover, LockCall
  PROVE  Takeover'
<1> USE DEF store, instance, control, writes
<1>s. Types /\ Underway /\ Order /\ Fences
  BY DEF RunInv
<1>o. Us # Them /\ Us # "nobody" /\ Granted.owner = Us /\ NoHold.owner = "nobody"
  BY DEF Us, Them, Granted, NoHold
<1>w. Renewed.owner = Us
  <2>1. Renewed = [owner |-> Us, fence |-> Renewed.fence, expires |-> now + TTL]
    BY DEF Renewed, Granted
  <2> QED
    BY <2>1
<1>1. CASE RequestCall
  <2>1. UNCHANGED <<setup, hold, taken, lost, phase, wake, calls, job, stage>>
    BY <1>1 DEF RequestCall
  <2> QED
    BY <2>1 DEF Takeover, Refused, Checked
<1>2. CASE Acquire \/ AcquireRefused \/ AcquireRaises
  <2>1. calls = <<"acquire">> /\ phase = "start" /\ UNCHANGED <<setup, lost, taken>>
    BY <1>2, <1>s, CallFrame, CallNames DEF Acquire, AcquireRefused, AcquireRaises, Types, Order
  <2>2. ~taken /\ lost # "refused"
    BY <2>1 DEF Takeover, Refused
  <2>3. CASE Acquire
    <3>1. hold' = Granted /\ phase' = "run"
      BY <2>3 DEF Acquire
    <3> QED
      BY <1>o, <2>1, <2>2, <3>1 DEF Takeover
  <2>4. CASE AcquireRefused
    <3>1. hold' = hold /\ phase' = "end"
      BY <2>4 DEF AcquireRefused
    <3> QED
      BY <2>1, <2>2, <3>1 DEF Takeover
  <2>5. CASE AcquireRaises
    <3>1. hold' \in {hold, Granted} /\ phase' = "leaked"
      BY <2>5 DEF AcquireRaises
    <3> QED
      BY <1>o, <2>1, <2>2, <3>1 DEF Takeover
  <2> QED
    BY <1>2, <2>3, <2>4, <2>5
<1>3. CASE Bind \/ SinkRaises
  <2>1. calls = <<"bind">> /\ UNCHANGED <<setup, hold, taken, lost>>
    BY <1>3, <1>s, CallFrame, CallNames DEF Bind, SinkRaises, Types
  <2>2. phase = "run" /\ phase' \in {"run", "release"}
    BY <1>3, <1>s, <2>1, CallsDiffer DEF Bind, SinkRaises, Order, Types
  <2> QED
    BY <2>1, <2>2 DEF Takeover, Refused
<1>4. CASE Renew \/ RenewRaises
  <2>1. calls = <<"renew">> /\ UNCHANGED <<setup, taken, lost, phase>>
    BY <1>4, <1>s, CallFrame, CallNames DEF Renew, RenewRaises, Types
  <2>2. lost # "refused" /\ phase = "run"
    BY <1>s, <2>1, CallsDiffer DEF Takeover, Refused, Order, Types
  <2>3. hold' = hold \/ (RenewalGranted /\ hold' = Renewed)
    BY <1>4 DEF Renew, RenewRaises
  <2>4. hold' = Renewed /\ RenewalGranted /\ ~setup.reacquires => ~taken
    BY DEF RenewalGranted
  <2>5. hold'.owner \in {Us, Them, "nobody"}
    BY <1>w, <2>3 DEF Takeover
  <2>6. phase' = "run" /\ hold'.owner # Us => taken'
    BY <1>w, <2>1, <2>2, <2>3 DEF Takeover
  <2>7. ~setup'.reacquires /\ taken' => hold'.owner # Us
    BY <1>w, <2>1, <2>3, <2>4 DEF Takeover
  <2> QED
    BY <2>1, <2>2, <2>5, <2>6, <2>7 DEF Takeover
<1>5. CASE Rebind
  <2>1. calls = <<"rebind">> /\ UNCHANGED <<setup, hold, taken, lost, phase>>
    BY <1>5, <1>s, CallFrame, CallNames DEF Rebind, Types
  <2> QED
    BY <2>1 DEF Takeover, Refused
<1>6. CASE RenewRefused
  <2>1. /\ calls = <<"renew">> /\ ~RenewalGranted /\ calls' = <<>> /\ wake' = 0
        /\ UNCHANGED <<setup, hold, taken, phase, job, stage>>
    BY <1>6, <1>s, CallFrame, CallNames DEF RenewRefused, Types
  <2>2. phase = "run"
    BY <1>s, <2>1, CallsDiffer DEF Order, Types
  <2>3. hold.owner # Us /\ taken
    BY <2>1, <2>2 DEF RenewalGranted, Takeover
  <2>4. \A j \in Jobs : job[j] \notin Writing
    <3>1. CASE setup.offload
      <4>1. place[Loop] = "exclusive"
        BY <1>6, <3>1 DEF RenewRefused, CallRuns
      <4> QED
        BY <1>s, <4>1, NoneUnderway
    <3>2. CASE ~setup.offload
      BY <1>s, <3>2 DEF Underway, Writing
    <3> QED
      BY <3>1, <3>2
  <2>5. Refused'
    BY <2>1, <2>2, <2>3, <2>4, Names, CallsDiffer DEF Refused, Writing
  <2> QED
    BY <2>1, <2>2, <2>3, <2>5 DEF Takeover
<1>7. CASE Unbind \/ Release \/ ReleaseRaises
  <2>1. /\ hold' \in {hold, NoHold} /\ UNCHANGED <<setup, taken, lost, job, stage, wake>>
        /\ calls' \in {<<"release">>, <<>>} /\ phase' \in {"release", "end", "leaked"}
    <3>1. CASE Unbind
      <4>1. calls = <<"unbind", "release">> /\ calls' = <<"release">> /\ phase' = phase
        BY <3>1, <1>s, CallFrame, CallNames DEF Unbind, Types
      <4> QED
        BY <3>1, <1>s, <4>1 DEF Unbind, CallRuns, Order
    <3>2. CASE Release
      BY <3>2 DEF Release, CallRuns
    <3>3. CASE ReleaseRaises
      BY <3>3 DEF ReleaseRaises, CallRuns
    <3> QED
      BY <1>7, <3>1, <3>2, <3>3
  <2>2. calls' \notin {<<"bind">>, <<"renew">>, <<"rebind">>}
    BY <2>1, CallsDiffer
  <2>3. hold' = hold \/ hold'.owner = "nobody"
    BY <1>o, <2>1
  <2>4. lost = "refused" => Refused'
    BY <1>o, <2>1, <2>2, <2>3 DEF Takeover, Refused, Checked
  <2> QED
    BY <1>o, <2>1, <2>3, <2>4 DEF Takeover
<1> QED
  BY <1>1, <1>2, <1>3, <1>4, <1>5, <1>6, <1>7 DEF LockCall

\* The other steps leave the hold to the other run, and put no checked write at the
\* store.
LEMMA OtherTakeover ==
  ASSUME RunInv, Takeover,
         Turn \/ (\E n \in Nodes : Task(n) \/ NodeTimeout(n))
           \/ (\E j \in Jobs : Pool(j) \/ PutRaises(j))
           \/ Interrupt \/ Take \/ TheyRelease \/ Tick \/ Over \/ UNCHANGED vars
  PROVE  Takeover'
<1> USE DEF store, instance, control, writes
<1>s. Types /\ Order
  BY DEF RunInv
<1>o. Us # Them /\ Us # "nobody" /\ NoHold.owner = "nobody"
  BY DEF Us, Them, NoHold
\* A step of the run: what it may not do once it has been refused.
<1>a. ASSUME UNCHANGED <<setup, hold, taken>>, lost' = "refused" => lost = "refused",
             phase' = phase \/ (phase = "run" /\ phase' = "release"),
             lost = "refused" =>
                /\ wake' = 0 /\ calls' \notin {<<"bind">>, <<"renew">>, <<"rebind">>}
                /\ \A n \in Nodes : job'[n] = "put" => ~Checked(n)'
      PROVE  Takeover'
  BY <1>a DEF Takeover, Refused
<1>1. CASE Turn
  <2>1. ASSUME NEW n \in Nodes, job'[n] = "put" PROVE job[n] = "put" /\ (Checked(n)' <=> Checked(n))
    <3>1. stage' = stage
      BY <1>1 DEF Turn, Beat, Abort, TasksOver, CheckpointOver, EndRun
    <3>2. job' = job \/ (\E r \in {"idle", "queued"} : job' = [job EXCEPT ![Checkpoint] = r])
      BY <1>1 DEF Turn, Beat, Abort, TasksOver, CheckpointOver, EndRun, quiet, Submit
    <3> QED
      BY <1>s, <2>1, <3>1, <3>2, Names DEF Checked, Types
  <2>2. lost = "refused" => ~Beat
    BY DEF Beat, Takeover, Refused
  <2>3. UNCHANGED <<setup, hold, taken, lost>>
    BY <1>1 DEF Turn, Beat, Abort, TasksOver, CheckpointOver, EndRun, quiet
  <2>4. phase' = phase \/ (phase = "run" /\ phase' = "release")
    BY <1>1 DEF Turn, Beat, Abort, TasksOver, CheckpointOver, EndRun
  <2>5. lost = "refused" => wake' = 0 /\ calls' \in {calls, <<"unbind", "release">>}
    BY <1>1, <2>2 DEF Turn, Abort, TasksOver, CheckpointOver, EndRun, Takeover, Refused
  <2>6. lost = "refused" => calls' \notin {<<"bind">>, <<"renew">>, <<"rebind">>}
    BY <2>5, CallsDiffer DEF Takeover, Refused
  <2> QED
    BY <1>a, <2>1, <2>3, <2>4, <2>5, <2>6 DEF Takeover, Refused
<1>2. ASSUME NEW n \in Nodes, Task(n) \/ NodeTimeout(n) PROVE Takeover'
  <2>1. UNCHANGED <<setup, hold, taken, phase, wake, calls>>
    BY <1>2 DEF Task, Ask, NextInLine, Back, RunInline, Provider, Cancelled, NodeTimeout, quiet
  <2>2. lost' = "refused" => lost = "refused"
    BY <1>2 DEF Task, Ask, NextInLine, Back, RunInline, Provider, Cancelled, NodeTimeout, quiet,
       GuardLost
  <2>3. ASSUME NEW m \in Nodes, job'[m] = "put" PROVE job[m] = "put" /\ stage'[m] = stage[m]
    <3>1. CASE job' = job /\ stage' = stage
      BY <2>3, <3>1
    <3>2. CASE \E r \in {"idle", "line", "queued"} : job' = [job EXCEPT ![n] = r]
      <4>1. m # n /\ job[m] = "put"
        BY <1>s, <2>3, <3>2, Names DEF Types
      <4>2. stage' = stage \/ \E t : stage' = [stage EXCEPT ![n] = t]
        BY <1>2 DEF Task, Ask, NextInLine, Back, RunInline, Provider, Cancelled, NodeTimeout, quiet
      <4> QED
        BY <1>s, <4>1, <4>2 DEF Types
    <3>3. CASE job' = job /\ job[n] # "put" /\ \E t : stage' = [stage EXCEPT ![n] = t]
      BY <1>s, <2>3, <3>3 DEF Types
    <3>4. RunInline(n) => job' = job /\ job[n] # "put" /\ \E t : stage' = [stage EXCEPT ![n] = t]
      BY Names DEF RunInline, RunInv, Underway
    <3>5. Provider(n) => job' = job /\ job[n] # "put" /\ \E t : stage' = [stage EXCEPT ![n] = t]
      BY <1>s DEF Provider, quiet, Order, Storing
    <3>6. Ask(n) \/ NextInLine(n) \/ Back(n) \/ Cancelled(n) =>
            \E r \in {"idle", "line", "queued"} : job' = [job EXCEPT ![n] = r]
      BY DEF Ask, NextInLine, Back, Cancelled, Submit
    <3>7. NodeTimeout(n) => job' = job /\ stage' = stage
      BY DEF NodeTimeout, quiet
    <3> QED
      BY <1>2, <3>1, <3>2, <3>3, <3>4, <3>5, <3>6, <3>7 DEF Task
  <2>4. \A m \in Nodes : lost = "refused" /\ job'[m] = "put" => ~Checked(m)'
    BY <2>3 DEF Takeover, Refused, Checked
  <2> QED
    BY <1>a, <2>1, <2>2, <2>4 DEF Takeover, Refused
<1>3. ASSUME NEW j \in Jobs, Pool(j) \/ PutRaises(j) PROVE Takeover'
  <2>1. UNCHANGED <<setup, hold, taken, phase, wake, calls, stage>>
    BY <1>3 DEF Pool, Start, Put, PutRaises
  <2>2. lost' = "refused" => lost = "refused"
    BY <1>3 DEF Pool, Start, Put, PutRaises, GuardLost
  <2>3. CASE \E r \in {"ok", "error"} : job' = [job EXCEPT ![j] = r]
    <3>1. \A n \in Nodes : job'[n] = "put" => job[n] = "put"
      BY <1>s, <2>3, Names DEF Types
    <3>2. \A n \in Nodes : lost = "refused" /\ job'[n] = "put" => ~Checked(n)'
      BY <2>1, <3>1 DEF Takeover, Refused, Checked
    <3> QED
      BY <1>a, <2>1, <2>2, <3>2 DEF Takeover, Refused
  <2>4. CASE ~(Checked(j) /\ GuardRefuses) /\ job' = [job EXCEPT ![j] = "put"]
    <3>1. lost = "refused" => ~Checked(j)
      BY <2>4 DEF GuardRefuses
    <3>2. \A n \in Nodes : lost = "refused" /\ job'[n] = "put" => ~Checked(n)'
      <4> SUFFICES ASSUME NEW n \in Nodes, lost = "refused", job'[n] = "put" PROVE ~Checked(n)'
        OBVIOUS
      <4>1. n = j \/ job[n] = "put"
        BY <1>s, <2>4, Names DEF Types
      <4> QED
        BY <2>1, <3>1, <4>1 DEF Takeover, Refused, Checked
    <3> QED
      BY <1>a, <2>1, <2>2, <3>2 DEF Takeover, Refused
  <2>5. Put(j) \/ PutRaises(j) => \E r \in {"ok", "error"} : job' = [job EXCEPT ![j] = r]
    BY DEF Put, PutRaises, Settle
  <2> QED
    BY <1>3, <2>3, <2>4, <2>5 DEF Pool, Start, Settle
<1>4. CASE Interrupt \/ Tick \/ Over \/ UNCHANGED vars
  <2>1. UNCHANGED <<setup, hold, taken, lost, phase, wake, calls, job, stage>>
    BY <1>4 DEF Interrupt, Tick, Over, vars, quiet
  <2> QED
    BY <2>1 DEF Takeover, Refused, Checked
<1>5. CASE Take
  <2>1. /\ phase = "run" /\ hold.owner = Us /\ hold'.owner = Them /\ taken'
        /\ UNCHANGED <<setup, lost, phase>>
    BY <1>5 DEF Take
  <2>2. lost # "refused"
    BY <2>1 DEF Takeover, Refused
  <2> QED
    BY <1>o, <2>1, <2>2 DEF Takeover
<1>6. CASE TheyRelease
  <2>1. /\ phase = "run" /\ hold.owner = Them /\ hold'.owner = "nobody"
        /\ UNCHANGED <<setup, taken, lost, phase, wake, calls, job, stage>>
    BY <1>o, <1>6 DEF TheyRelease
  <2>2. taken
    BY <1>o, <2>1 DEF Takeover
  <2>3. lost = "refused" => Refused'
    BY <1>o, <2>1, <2>2 DEF Takeover, Refused, Checked
  <2> QED
    BY <1>o, <2>1, <2>2, <2>3 DEF Takeover
<1> QED
  BY <1>1, <1>2, <1>3, <1>4, <1>5, <1>6

LEMMA TakeoverInvariance == Safety => []Takeover
<1>1. RunInv /\ Gate!Exclusion /\ Takeover /\ [Next]_vars => Takeover'
  <2> SUFFICES ASSUME RunInv, Gate!Exclusion, Takeover, [Next]_vars PROVE Takeover'
    OBVIOUS
  <2> QED
    BY LockCallTakeover, OtherTakeover DEF Next
<1> QED
  BY <1>1, InitTakeover, RunInvariance, RunExcludes, PTL DEF Safety

\* A write of a node at the store finds the store of a run that has lost its lease to
\* another refuse it: everywhere while that run holds, and for good where the take-over
\* revoked the lease.
LEMMA LateWriteRefused ==
  ASSUME Takeover, lost = "refused", bound # 0, ~(setup.reacquires /\ hold.owner = "nobody")
  PROVE  StoreRefuses
<1>1. taken /\ hold.owner \in {Them, "nobody"}
  BY DEF Takeover, Refused
<1> QED
  BY <1>1 DEF StoreRefuses

\* LeaseGuard.check runs on the thread that writes, and a refused renewal has the gate to
\* itself: after it no checked write lands, neither a queued one nor one a task still asks
\* for.  The drops of forget and cbd_cleanup land only where a write is fenced by hold
\* rows and the run that took over has released its own.
THEOREM RefusalIsFinal == Safety => NothingAfterRefusal
<1> DEFINE Late(n) == lost = "refused" /\ row'[n] # row[n]
           Excused(n) == ~Checked(n) /\ setup.reacquires /\ hold.owner = "nobody"
<1>1. RunInv /\ Takeover /\ [Next]_vars => [\A n \in Nodes : Late(n) => Excused(n)]_vars
  <2> SUFFICES ASSUME RunInv, Takeover, Next, NEW n \in Nodes, Late(n) PROVE Excused(n)
    BY DEF vars, writes
  <2>u. row' # row
    OBVIOUS
  <2>r. lost = "refused" /\ Refused
    BY DEF Takeover
  <2>1. ~LockCall
    BY <2>u DEF LockCall, RequestCall, CallRuns, Acquire, AcquireRefused, AcquireRaises, Bind,
       SinkRaises, Renew, Rebind, RenewRaises, RenewRefused, Unbind, Release, ReleaseRaises, writes
  <2>2. ~Turn
    BY <2>u DEF Turn, Beat, Abort, TasksOver, CheckpointOver, EndRun, quiet, writes
  <2>3. ~(Interrupt \/ Take \/ TheyRelease \/ Tick \/ Over)
    BY <2>u DEF Interrupt, Take, TheyRelease, Tick, Over, vars, quiet, writes
  <2>4. ASSUME NEW m \in Nodes, Task(m) \/ NodeTimeout(m) PROVE Excused(n)
    <3>1. RunInline(m)
      BY <2>u, <2>4 DEF Task, Ask, NextInLine, Back, Provider, Cancelled, NodeTimeout, quiet, writes
    <3>2. ~(Checked(m) /\ GuardRefuses) /\ ~StoreRefuses /\ row' = Stored(m)
      BY <2>u, <3>1 DEF RunInline
    <3>3. ~Checked(m)
      BY <2>r, <3>2 DEF GuardRefuses
    <3>4. m = n
      BY <2>u, <3>2 DEF Stored
    <3>5. bound # 0
      <4>1. stage[m] \notin Ended /\ body # "none" /\ calls = <<>>
        BY <3>1 DEF RunInline, Storing, Ended, LoopFree
      <4>2. phase = "run"
        BY <4>1 DEF RunInv, Order, Unended
      <4> QED
        BY <4>1, <4>2, CallsDiffer DEF RunInv, Fences, Types
    <3> QED
      BY <2>r, <3>2, <3>3, <3>4, <3>5, LateWriteRefused
  <2>5. ASSUME NEW j \in Jobs, Pool(j) \/ PutRaises(j) PROVE Excused(n)
    <3>1. Put(j) \/ PutRaises(j)
      BY <2>u, <2>5 DEF Pool, Start
    <3>2. job[j] = "put" /\ row' = Stored(j)
      BY <2>u, <3>1 DEF Put, PutRaises
    <3>3. j = n /\ j # Checkpoint /\ ~StoreRefuses
      BY <2>u, <3>2, Names DEF Stored
    <3>4. ~Checked(n)
      BY <2>r, <3>2, <3>3 DEF Refused
    <3>5. bound # 0
      BY <3>2, WriteInRun DEF Writing
    <3> QED
      BY <2>r, <3>3, <3>4, <3>5, LateWriteRefused
  <2> QED
    BY <2>1, <2>2, <2>3, <2>4, <2>5 DEF Next
<1> QED
  BY <1>1, RunInvariance, TakeoverInvariance, PTL DEF Safety, NothingAfterRefusal
=============================================================================
