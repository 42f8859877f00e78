--------------------------- MODULE SqlLocksProofs ---------------------------
(***************************************************************************)
(* Theorems about SqlLocks, for every set of runs, nodes and scopes, every *)
(* TTL, grace and margin, every wait for a row, and every bound.           *)
(***************************************************************************)
EXTENDS SqlLocks, TLAPS

(***************************************************************************)
(* Type correctness.                                                       *)
(***************************************************************************)
LEMMA NoTxType == NoTx \in TxType /\ NoTx.kind = "none" /\ NoTx.id = 0 /\ NoTx.locked = {}
  BY ScopesAssumption, NumbersAssumption DEF NoTx, TxType

\* What a run asked for is a scope of its own, and was asked for before now.
AskInv ==
    asking.run # Nobody =>
        /\ RowLocks /\ asking.since <= now
        /\ tx[asking.run] = NoTx
        /\ phase[asking.run] = "idle"
           \/ (phase[asking.run] = "held" /\ asking.scope = scope[asking.run])

\* The fence minted is one like any other, and the wait a length of time.
LEMMA TakeScopeType ==
  ASSUME TypeOK, NEW r \in Runs, NEW S \in SUBSET Nodes, NEW at \in 0..now, TakeScope(r, S, at)
  PROVE  /\ counter' \in 0..MaxFence
         /\ hold' \in [Nodes -> [owner: Runs \cup {Nobody}, expires: Nat, fence: 0..MaxFence]]
         /\ lease' \in [Runs -> [expires: Nat, fence: 0..MaxFence]]
         /\ waited' \in [Runs -> 0..MaxTime]
         /\ taken' \in [Nodes -> 0..MaxFence]
         /\ phase' \in [Runs -> {"idle", "held", "lost", "done"}]
         /\ scope' \in [Runs -> SUBSET Nodes]
<1>1. counter + 1 \in 0..MaxFence /\ now + TTL \in Nat /\ at + TTL \in Nat
      /\ now - at \in 0..MaxTime
  BY NumbersAssumption DEF TakeScope, TypeOK
<1>2. /\ counter' = counter + 1
      /\ hold' = [n \in Nodes |-> IF n \in S
                    THEN [owner |-> r, expires |-> at + TTL, fence |-> counter + 1]
                    ELSE hold[n]]
      /\ lease' = [lease EXCEPT ![r] = [expires |-> now + TTL, fence |-> counter + 1]]
      /\ waited' = [waited EXCEPT ![r] = now - at]
      /\ taken' = [n \in Nodes |-> IF n \in S THEN counter + 1 ELSE taken[n]]
      /\ phase' = [phase EXCEPT ![r] = "held"]
      /\ scope' = [scope EXCEPT ![r] = S]
  BY DEF TakeScope
<1> QED
  BY <1>1, <1>2 DEF TypeOK

\* A write in `base' replaced by this one.
LEMMA MergeType ==
  ASSUME TypeOK, NEW r \in Runs, NEW base \in [Nodes -> 0..MaxWrites]
  PROVE  Merge(base, r) \in [Nodes -> 0..MaxWrites]
  BY DEF Merge, TypeOK, TxType

LEMMA StoreType ==
  ASSUME TypeOK, NEW r \in Runs, NEW isOutputs \in BOOLEAN,
         NEW base \in [Nodes -> 0..MaxWrites], Store(r, isOutputs, base)
  PROVE  /\ stored' \in [Nodes -> 0..MaxWrites]
         /\ outputs' \in [Nodes -> 0..MaxWrites]
         /\ merged' \in [Nodes -> 0..MaxWrites]
<1>1. /\ Merge(base, r) \in [Nodes -> 0..MaxWrites]
      /\ Merge(stored, r) \in [Nodes -> 0..MaxWrites]
      /\ Merge(merged, r) \in [Nodes -> 0..MaxWrites]
  BY MergeType DEF TypeOK
<1> QED
  BY <1>1 DEF Store, TypeOK

LEMMA LandType ==
  ASSUME TypeOK, NEW r \in Runs, NEW isOutputs \in BOOLEAN,
         NEW base \in [Nodes -> 0..MaxWrites], Land(r, isOutputs, base)
  PROVE  /\ stored' \in [Nodes -> 0..MaxWrites]
         /\ outputs' \in [Nodes -> 0..MaxWrites]
         /\ merged' \in [Nodes -> 0..MaxWrites]
         /\ tx' \in [Runs -> TxType]
  BY StoreType, NoTxType DEF Land, TypeOK

\* The second attempt is the same call, with nothing locked and nothing read yet.
LEMMA ReplayedType ==
  ASSUME TypeOK, NEW r \in Runs
  PROVE  /\ Replayed(r) \in TxType
         /\ Replayed(r).kind \in {"put", "outputs"}
         /\ Replayed(r).id = tx[r].id
         /\ Replayed(r).locked = {}
<1>1. tx[r].node \in Nodes /\ tx[r].id \in 0..MaxWrites
  BY DEF TypeOK, TxType
<1> QED
  BY <1>1, NoTxType DEF Replayed, TxType

\* What a broken connection leaves of the call: nothing, or its second attempt.
LEMMA DisconnectTx ==
  ASSUME TypeOK, NEW r \in Runs, NEW landed \in BOOLEAN, Disconnect(r, landed)
  PROVE  /\ tx'[r] = NoTx \/ tx'[r] = Replayed(r)
         /\ tx'[r].locked = {} /\ tx'[r].kind \in {"none", "put", "outputs"}
         /\ \A q \in Runs \ {r} : tx'[q] = tx[q]
  BY NoTxType, ReplayedType DEF Disconnect, TypeOK

LEMMA TypeInit == Init => TypeOK
  BY NumbersAssumption, NoTxType DEF Init, TypeOK, Free, NotAsking

LEMMA AskInit == Init => AskInv
  BY DEF Init, AskInv, NotAsking

\* A scope a run may ask for is one of nodes.
LEMMA MayAskScope ==
  ASSUME TypeOK, NEW r \in Runs, NEW S, MayAsk(r, S) PROVE S \in SUBSET Nodes
  BY ScopesAssumption DEF MayAsk, TypeOK

LEMMA ToldType ==
  ASSUME TypeOK, NEW r \in Runs, Told(r)
  PROVE  /\ phase' \in [Runs -> {"idle", "held", "lost", "done"}]
         /\ phase'[r] = IF phase[r] = "held" THEN "lost" ELSE phase[r]
         /\ \A q \in Runs \ {r} : phase'[q] = phase[q]
  BY DEF Told, TypeOK

LEMMA GrantedScope ==
  ASSUME TypeOK, AskInv, NEW r \in Runs, Granted(r)
  PROVE  /\ asking.scope \in SUBSET Nodes /\ asking.since \in 0..now /\ RowLocks
         /\ TakeScope(r, asking.scope, asking.since) /\ tx[r] = NoTx
         /\ phase[r] = "idle" \/ (phase[r] = "held" /\ asking.scope = scope[r])
<1>1. asking.run = r /\ r # Nobody
  BY OwnersAssumption DEF Granted
<1>2. asking.since \in Nat /\ now \in Nat /\ asking.since <= now
  BY <1>1, NumbersAssumption DEF AskInv, TypeOK
<1> QED
  BY <1>1, <1>2 DEF Granted, AskInv, TypeOK

LEMMA TypeStep == TypeOK /\ AskInv /\ [Next]_vars => TypeOK'
<1> SUFFICES ASSUME TypeOK, AskInv, [Next]_vars PROVE TypeOK'
  OBVIOUS
<1> USE DEF TypeOK, rows, data, leases
<1>0. backend' = backend
  BY DEF Next, vars
<1> USE <1>0
<1>00. NotAsking \in [run: Runs \cup {Nobody}, scope: SUBSET Nodes, since: 0..MaxTime]
  BY NumbersAssumption DEF NotAsking
<1>1. ASSUME NEW r \in Runs, NEW S \in SUBSET Nodes, Take(r, S) PROVE TypeOK'
  <2>1. now \in 0..now
    BY NumbersAssumption
  <2> QED
    BY <1>1, <2>1, TakeScopeType DEF Take
<1>2. ASSUME NEW r \in Runs, Granted(r) PROVE TypeOK'
  <2>1. /\ counter' \in 0..MaxFence
        /\ hold' \in [Nodes -> [owner: Runs \cup {Nobody}, expires: Nat, fence: 0..MaxFence]]
        /\ lease' \in [Runs -> [expires: Nat, fence: 0..MaxFence]]
        /\ waited' \in [Runs -> 0..MaxTime]
        /\ taken' \in [Nodes -> 0..MaxFence]
        /\ phase' \in [Runs -> {"idle", "held", "lost", "done"}]
        /\ scope' \in [Runs -> SUBSET Nodes]
    BY <1>2, GrantedScope, TakeScopeType
  <2> QED
    BY <1>2, <1>00, <2>1 DEF Granted
<1>3. ASSUME NEW r \in Runs, RenewRefused(r) PROVE TypeOK'
  BY <1>3, ToldType DEF RenewRefused
<1>15. ASSUME NEW r \in Runs, NEW S \in SUBSET Nodes, Ask(r, S) PROVE TypeOK'
  BY <1>15 DEF Ask
<1>16. ASSUME NEW r \in Runs, Contended(r) PROVE TypeOK'
  BY <1>16, <1>00, ToldType DEF Contended
<1>4. ASSUME NEW r \in Runs, ReleaseLock(r) PROVE TypeOK'
  <2>1. Free \in [owner: Runs \cup {Nobody}, expires: Nat, fence: 0..MaxFence]
    BY NumbersAssumption DEF Free
  <2> QED
    BY <1>4, <2>1 DEF ReleaseLock
<1>5. ASSUME NEW n \in Nodes, ForceUnlock(n) PROVE TypeOK'
  <2>1. Free \in [owner: Runs \cup {Nobody}, expires: Nat, fence: 0..MaxFence]
    BY NumbersAssumption DEF Free
  <2> QED
    BY <1>5, <2>1, NumbersAssumption DEF ForceUnlock
<1>6. ASSUME NEW r \in Runs, NEW n \in Nodes, NEW kind \in {"put", "outputs"},
             StartWrite(r, n, kind)
      PROVE  (phase' = phase => TypeOK')
  <2>1. writes + 1 \in 0..MaxWrites
    BY <1>6, NumbersAssumption DEF StartWrite
  <2>2. [NoTx EXCEPT !.kind = kind, !.node = n, !.id = writes + 1] \in TxType
    BY <2>1, NoTxType DEF TxType
  <2> QED
    BY <1>6, <2>1, <2>2 DEF StartWrite
<1>7. ASSUME NEW r \in Runs, GuardRefuses(r) PROVE TypeOK'
  BY <1>7 DEF GuardRefuses
<1>8. ASSUME NEW r \in Runs, WriteAtomically(r) PROVE TypeOK'
  <2>1. Land(r, tx[r].kind = "outputs", outputs)
    BY <1>8 DEF WriteAtomically
  <2> QED
    BY <1>8, <2>1, LandType DEF WriteAtomically
<1>9. ASSUME NEW r \in Runs, Judge(r) PROVE TypeOK'
  <2>1. tx[r] \in TxType /\ tx[r].node \in Nodes
    BY DEF TxType
  <2> DEFINE isOutputs == tx[r].kind = "outputs"
             judged == [tx[r] EXCEPT !.kind = IF isOutputs THEN "judgedOutputs" ELSE "judgedPut",
                          !.locked = IF hold[tx[r].node] = Free THEN {} ELSE {tx[r].node},
                          !.base = IF isOutputs THEN outputs ELSE @]
  <2>2. judged \in TxType
    BY <2>1 DEF TxType
  <2>3. tx' = [tx EXCEPT ![r] = judged]
    BY <1>9 DEF Judge
  <2> QED
    BY <1>9, <2>2, <2>3 DEF Judge
<1>10. ASSUME NEW r \in Runs, Commit(r) PROVE TypeOK'
  <2>1. tx[r].base \in [Nodes -> 0..MaxWrites]
    BY DEF TxType
  <2> QED
    BY <1>10, <2>1, LandType DEF Commit
<1>11. ASSUME NEW r \in Runs, WriteRefused(r) PROVE TypeOK'
  BY <1>11, NoTxType DEF WriteRefused
<1>12. CASE Tick
  BY <1>12, NumbersAssumption DEF Tick
<1>13. CASE UNCHANGED vars
  BY <1>13 DEF vars
<1>14. ASSUME NEW r \in Runs, NEW landed \in BOOLEAN, Disconnect(r, landed) PROVE TypeOK'
  <2>1. tx[r].base \in [Nodes -> 0..MaxWrites]
    BY DEF TxType
  <2>2. /\ stored' \in [Nodes -> 0..MaxWrites]
        /\ outputs' \in [Nodes -> 0..MaxWrites]
        /\ merged' \in [Nodes -> 0..MaxWrites]
    BY <1>14, <2>1, StoreType DEF Disconnect
  <2>3. tx' \in [Runs -> TxType]
    BY <1>14, NoTxType, ReplayedType DEF Disconnect
  <2> QED
    BY <1>14, <2>2, <2>3 DEF Disconnect
<1>17. ASSUME NEW r \in Runs, NEW n \in Nodes, CheckedWrite(r, n) PROVE TypeOK'
  BY <1>17, <1>6 DEF CheckedWrite, StartWrite
<1>18. ASSUME NEW r \in Runs, NEW n \in Nodes, NEW kind \in {"put", "outputs"},
              UncheckedWrite(r, n, kind)
       PROVE  TypeOK'
  BY <1>18, <1>6 DEF UncheckedWrite, StartWrite
<1> QED
  BY <1>1, <1>2, <1>3, <1>4, <1>5, <1>7, <1>8, <1>9, <1>10, <1>11, <1>12, <1>13, <1>14,
     <1>15, <1>16, <1>17, <1>18
  DEF Next, Step

LEMMA AskStep == TypeOK /\ AskInv /\ [Next]_vars => AskInv'
<1> SUFFICES ASSUME TypeOK, AskInv, [Next]_vars PROVE AskInv'
  OBVIOUS
<1> USE DEF rows, data, leases
<1>1. backend' = backend /\ RowLocks' = RowLocks /\ now \in Nat
  BY NumbersAssumption DEF Next, vars, RowLocks, TypeOK
<1>2. CASE asking' = NotAsking
  BY <1>2 DEF AskInv, NotAsking
<1>3. ASSUME NEW q \in Runs, asking' = asking, now' \in Nat, now' >= now,
             phase'[asking.run] = phase[asking.run] \/ asking.run = q,
             scope'[asking.run] = scope[asking.run] \/ asking.run = q,
             tx'[asking.run] = tx[asking.run] \/ asking.run = q,
             asking.run # q
      PROVE  AskInv'
  <2> SUFFICES ASSUME asking.run # Nobody PROVE AskInv'
    BY <1>3 DEF AskInv
  <2>1. asking.since \in Nat
    BY NumbersAssumption DEF TypeOK
  <2> QED
    BY <1>1, <1>3, <2>1 DEF AskInv
<1>4. ASSUME UNCHANGED <<asking, phase, scope, tx>>, now' \in Nat, now' >= now PROVE AskInv'
  <2>1. asking.since \in Nat
    BY NumbersAssumption DEF TypeOK
  <2> QED
    BY <1>1, <1>4, <2>1 DEF AskInv
<1>5. ASSUME NEW r \in Runs, tx[r] # NoTx PROVE asking.run # r
  BY <1>5, OwnersAssumption DEF AskInv
<1>6. ASSUME NEW r \in Runs, NEW S \in SUBSET Nodes, Take(r, S) PROVE AskInv'
  <2>1. asking.run = Nobody /\ asking' = asking
    BY <1>6 DEF Take, AskInv
  <2> QED
    BY <2>1 DEF AskInv
<1>7. ASSUME NEW r \in Runs, NEW S \in SUBSET Nodes, Ask(r, S) PROVE AskInv'
  <2>1. asking'.run = r /\ asking'.scope = S /\ asking'.since = now
    BY <1>7 DEF Ask
  <2>2. RowLocks /\ tx[r] = NoTx /\ (phase[r] = "idle" \/ (phase[r] = "held" /\ S = scope[r]))
    BY <1>7 DEF Ask, MayAsk
  <2>3. UNCHANGED <<now, phase, scope, tx>>
    BY <1>7 DEF Ask
  <2> QED
    BY <1>1, <2>1, <2>2, <2>3 DEF AskInv
<1>8. ASSUME NEW r \in Runs, RenewRefused(r) PROVE AskInv'
  <2>1. asking.run = Nobody /\ asking' = asking
    BY <1>8 DEF RenewRefused, AskInv
  <2> QED
    BY <2>1 DEF AskInv
<1>9. ASSUME NEW r \in Runs, ReleaseLock(r) \/ GuardRefuses(r) PROVE AskInv'
  <2>1. asking.run # r /\ UNCHANGED <<now, asking, scope, tx>>
        /\ \A q \in Runs \ {r} : phase'[q] = phase[q]
    BY <1>9 DEF ReleaseLock, GuardRefuses, TypeOK
  <2> QED
    BY <1>1, <2>1 DEF AskInv, TypeOK
<1>10. ASSUME NEW r \in Runs, NEW n \in Nodes, NEW kind \in {"put", "outputs"},
              CheckedWrite(r, n) \/ UncheckedWrite(r, n, kind)
       PROVE  AskInv'
  <2>1. asking.run # r /\ UNCHANGED <<now, asking, phase, scope>>
        /\ \A q \in Runs \ {r} : tx'[q] = tx[q]
    BY <1>10 DEF CheckedWrite, UncheckedWrite, StartWrite, TypeOK
  <2> QED
    BY <1>1, <2>1 DEF AskInv, TypeOK
<1>11. ASSUME NEW r \in Runs, tx[r] # NoTx, UNCHANGED <<now, asking, phase, scope>>,
              \A q \in Runs \ {r} : tx'[q] = tx[q]
       PROVE  AskInv'
  BY <1>1, <1>5, <1>11 DEF AskInv, TypeOK
<1>12. ASSUME NEW r \in Runs,
              \/ WriteAtomically(r) \/ Judge(r) \/ Commit(r) \/ WriteRefused(r)
              \/ \E landed \in BOOLEAN : Disconnect(r, landed)
       PROVE  AskInv'
  <2>1. tx[r] # NoTx /\ UNCHANGED <<now, asking, phase, scope>>
    BY <1>12, NoTxType DEF WriteAtomically, Judge, Commit, WriteRefused, Disconnect
  <2>2. \A q \in Runs \ {r} : tx'[q] = tx[q]
    BY <1>12 DEF WriteAtomically, Judge, Commit, WriteRefused, Disconnect, Land, TypeOK
  <2> QED
    BY <1>11, <2>1, <2>2
<1>13. ASSUME NEW n \in Nodes, ForceUnlock(n) PROVE AskInv'
  BY <1>1, <1>4, <1>13 DEF ForceUnlock
<1>14. CASE Tick
  BY <1>1, <1>4, <1>14 DEF Tick
<1>15. CASE UNCHANGED vars
  BY <1>1, <1>4, <1>15 DEF vars
<1>16. ASSUME NEW r \in Runs, Granted(r) \/ Contended(r) PROVE AskInv'
  BY <1>2, <1>16 DEF Granted, Contended
<1> QED
  BY <1>6, <1>7, <1>8, <1>9, <1>10, <1>12, <1>13, <1>14, <1>15, <1>16 DEF Next, Step

LEMMA Typed == Spec => [](TypeOK /\ AskInv)
<1>1. TypeOK /\ AskInv /\ [Next]_vars => (TypeOK /\ AskInv)'
  BY TypeStep, AskStep
<1> QED
  BY <1>1, TypeInit, AskInit, PTL DEF Spec

\* Rows, leases and transactions keep their types under every call of the backends.
THEOREM TypeCorrect == Spec => []TypeOK
  BY Typed, PTL

(***************************************************************************)
(* The rows and their owners.  A row with an owner is the owner's bound    *)
(* lease, dated by how long that waited; one without is blank; only a run  *)
(* with a lease has a write in flight, on a node of its scope, and the     *)
(* rows that write has locked are its run's; the nodes of a run that has   *)
(* not released are its own, or its rows had lapsed.                       *)
(***************************************************************************)
OwnedIsLeased ==
    \A n \in Nodes, r \in Runs : hold[n].owner = r =>
        /\ phase[r] \in {"held", "lost"} /\ n \in scope[r]
        /\ hold[n].fence = lease[r].fence
        /\ hold[n].expires + waited[r] = lease[r].expires
FreeIsBlank == \A n \in Nodes : hold[n].owner = Nobody => hold[n] = Free
TxOfHolder == \A r \in Runs : tx[r] # NoTx =>
                 phase[r] \in {"held", "lost"} /\ tx[r].node \in scope[r]
LockedHeld == \A r \in Runs : \A n \in tx[r].locked : hold[n].owner = r
KeptUntilLapse ==
    \A r \in Runs : phase[r] \in {"held", "lost"} /\ unlocks = 0 =>
        \A n \in scope[r] :
            (hold[n].owner = r /\ taken[n] = lease[r].fence) \/ RowsLapsed(r)
OnTheSpot == ~RowLocks => \A r \in Runs : waited[r] = 0
HoldInv == OwnedIsLeased /\ FreeIsBlank /\ TxOfHolder /\ LockedHeld /\ KeptUntilLapse /\ OnTheSpot

LEMMA HoldInit == Init => HoldInv
  BY NoTxType, OwnersAssumption
  DEF Init, HoldInv, OwnedIsLeased, FreeIsBlank, TxOfHolder, LockedHeld, KeptUntilLapse, Free,
      OnTheSpot

\* What has lapsed stays lapsed while its lease stands.
LEMMA LapsedStays ==
  ASSUME TypeOK, NEW r \in Runs, RowsLapsed(r), now' \in Nat, now' >= now,
         lease'[r] = lease[r], waited'[r] = waited[r], RowLocks' = RowLocks
  PROVE  RowsLapsed(r)'
<1>1. lease[r].expires \in Nat /\ waited[r] \in Nat /\ now \in Nat /\ Margin \in Nat
  BY NumbersAssumption DEF TypeOK
<1> QED
  BY <1>1 DEF RowsLapsed

\* Taking a scope, with no write of the run in flight: rows change hands only when they
\* have lapsed and no transaction has them locked.
LEMMA TakeScopeHolds ==
  ASSUME TypeOK, HoldInv, NEW r \in Runs, NEW S \in SUBSET Nodes, NEW at \in 0..now,
         TakeScope(r, S, at), tx[r] = NoTx, tx' = tx, now' = now, unlocks' = unlocks,
         backend' = backend, TypeOK', ~RowLocks => at = now,
         \A n \in Nodes : hold[n].owner = r => n \in S
  PROVE  HoldInv'
<1> USE DEF HoldInv, TypeOK
<1>0. now \in Nat /\ at \in Nat /\ RowLocks' = RowLocks /\ TTL \in Nat /\ Margin \in Nat
      /\ counter + 1 \in Nat
  BY NumbersAssumption DEF RowLocks
<1>1. \A n \in Nodes : /\ n \in S => /\ hold'[n].owner = r
                                      /\ hold'[n].fence = counter + 1
                                      /\ hold'[n].expires = at + TTL
                                      /\ taken'[n] = counter + 1
                       /\ n \notin S => hold'[n] = hold[n] /\ taken'[n] = taken[n]
  BY DEF TakeScope
<1>2. \A q \in Runs \ {r} : /\ lease'[q] = lease[q] /\ scope'[q] = scope[q]
                            /\ phase'[q] = phase[q] /\ waited'[q] = waited[q]
  BY DEF TakeScope
<1>3. /\ phase'[r] = "held" /\ scope'[r] = S /\ waited'[r] = now - at
      /\ lease'[r].expires = now + TTL /\ lease'[r].fence = counter + 1
  BY DEF TakeScope
<1>31. (at + TTL) + (now - at) = now + TTL
  BY <1>0
<1>4. OwnedIsLeased'
  <2> SUFFICES ASSUME NEW n \in Nodes, NEW q \in Runs, hold'[n].owner = q
               PROVE  /\ phase'[q] \in {"held", "lost"} /\ n \in scope'[q]
                      /\ hold'[n].fence = lease'[q].fence
                      /\ hold'[n].expires + waited'[q] = lease'[q].expires
    BY DEF OwnedIsLeased
  <2>1. CASE n \in S
    <3>1. /\ q = r /\ hold'[n].fence = counter + 1 /\ hold'[n].expires = at + TTL
      BY <1>1, <2>1
    <3>2. hold'[n].expires + waited'[q] = lease'[q].expires
      BY <1>3, <1>31, <3>1
    <3> QED
      BY <1>3, <2>1, <3>1, <3>2
  <2>2. CASE n \notin S
    <3>1. hold[n].owner = q /\ q # r
      BY <1>1, <2>2
    <3>2. /\ phase[q] \in {"held", "lost"} /\ n \in scope[q]
          /\ hold[n].fence = lease[q].fence
          /\ hold[n].expires + waited[q] = lease[q].expires
      BY <3>1 DEF OwnedIsLeased
    <3>3. hold'[n] = hold[n]
      BY <1>1, <2>2
    <3>4. /\ lease'[q] = lease[q] /\ scope'[q] = scope[q] /\ phase'[q] = phase[q]
          /\ waited'[q] = waited[q]
      BY <1>2, <3>1
    <3> QED
      BY <3>2, <3>3, <3>4
  <2> QED
    BY <2>1, <2>2
<1>5. FreeIsBlank'
  BY <1>1, OwnersAssumption DEF FreeIsBlank
<1>6. TxOfHolder'
  BY <1>2, <1>3 DEF TxOfHolder
<1>7. LockedHeld'
  <2> SUFFICES ASSUME NEW q \in Runs, NEW n \in tx[q].locked PROVE hold'[n].owner = q
    BY DEF LockedHeld
  <2>1. q # r
    BY NoTxType
  <2>2. n \in Nodes
    BY DEF TxType
  <2>3. n \notin S
    BY <2>1 DEF TakeScope, RowsFree
  <2> QED
    BY <1>1, <2>2, <2>3 DEF LockedHeld
<1>8. KeptUntilLapse'
  <2> SUFFICES ASSUME NEW q \in Runs, phase'[q] \in {"held", "lost"}, unlocks = 0,
                      NEW n \in scope'[q]
               PROVE  (hold'[n].owner = q /\ taken'[n] = lease'[q].fence) \/ RowsLapsed(q)'
    BY DEF KeptUntilLapse
  <2>1. CASE q = r
    BY <1>1, <1>3, <2>1
  <2>2. CASE q # r
    <3>1. (hold[n].owner = q /\ taken[n] = lease[q].fence) \/ RowsLapsed(q)
      BY <1>2, <2>2 DEF KeptUntilLapse
    <3>2. n \in Nodes
      OBVIOUS
    <3>3. CASE RowsLapsed(q)
      BY <1>0, <1>2, <2>2, <3>3, LapsedStays
    <3>4. CASE hold[n].owner = q /\ n \in S
      <4>1. /\ hold[n].expires + waited[q] = lease[q].expires
            /\ hold[n].expires \in Nat /\ waited[q] \in Nat /\ lease[q].expires \in Nat
        <5>1. hold[n].expires + waited[q] = lease[q].expires
          BY <3>2, <3>4 DEF OwnedIsLeased
        <5>2. waited[q] \in 0..MaxTime /\ hold[n].expires \in Nat /\ lease[q].expires \in Nat
          BY <3>2
        <5> QED
          BY <5>1, <5>2, NumbersAssumption
      <4>2. hold[n].expires = lease[q].expires - waited[q]
        BY <4>1
      <4>3. ~Blocks(n, r, at)
        BY <3>4 DEF TakeScope
      <4>4. IF RowLocks THEN ~(hold[n].expires >= at - Margin) ELSE ~(hold[n].expires > at)
        BY <2>2, <3>4, <4>3, OwnersAssumption DEF Blocks
      <4>5. RowsLapsed(q)
        BY <1>0, <4>1, <4>2, <4>4 DEF RowsLapsed
      <4> QED
        BY <1>0, <1>2, <2>2, <4>5, LapsedStays
    <3>5. CASE hold[n].owner = q /\ taken[n] = lease[q].fence /\ n \notin S
      BY <1>1, <1>2, <2>2, <3>2, <3>5
    <3> QED
      BY <3>1, <3>3, <3>4, <3>5
  <2> QED
    BY <2>1, <2>2
<1>9. OnTheSpot'
  BY <1>0, <1>2, <1>3 DEF OnTheSpot
<1> QED
  BY <1>4, <1>5, <1>6, <1>7, <1>8, <1>9

\* A step that only changes transactions, data and time: rows, leases and scopes stay,
\* no run without a lease begins a write, and a new row lock is on the run's own row.
LEMMA HoldKept ==
  ASSUME TypeOK, HoldInv, UNCHANGED <<hold, taken, lease, waited, scope, backend>>,
         now' \in Nat, now' >= now, unlocks' = unlocks,
         \A r \in Runs : phase'[r] = phase[r] \/ (phase[r] = "held" /\ phase'[r] = "lost"),
         \A r \in Runs : tx'[r] # tx[r] =>
            \/ tx'[r] = NoTx
            \/ phase'[r] \in {"held", "lost"} /\ tx'[r].node \in scope[r],
         \A r \in Runs : \A n \in tx'[r].locked : hold[n].owner = r
  PROVE  HoldInv'
<1> USE DEF HoldInv
<1>0. RowLocks' = RowLocks
  BY DEF RowLocks
<1>1. OwnedIsLeased'
  BY DEF OwnedIsLeased
<1>2. FreeIsBlank'
  BY DEF FreeIsBlank
<1>3. TxOfHolder'
  BY DEF TxOfHolder
<1>4. LockedHeld'
  BY DEF LockedHeld
<1>5. KeptUntilLapse'
  <2> SUFFICES ASSUME NEW r \in Runs, phase'[r] \in {"held", "lost"}, unlocks = 0,
                      NEW n \in scope[r]
               PROVE  (hold[n].owner = r /\ taken[n] = lease[r].fence) \/ RowsLapsed(r)'
    BY DEF KeptUntilLapse
  <2>1. (hold[n].owner = r /\ taken[n] = lease[r].fence) \/ RowsLapsed(r)
    BY DEF KeptUntilLapse
  <2> QED
    BY <1>0, <2>1, LapsedStays
<1>6. OnTheSpot'
  BY <1>0 DEF OnTheSpot
<1> QED
  BY <1>1, <1>2, <1>3, <1>4, <1>5, <1>6

\* What lands frees the run's locks and changes no other run's transaction.
LEMMA LandTx ==
  ASSUME TypeOK, NEW r \in Runs, tx' = [tx EXCEPT ![r] = NoTx]
  PROVE  tx'[r] = NoTx /\ tx'[r].locked = {} /\ \A q \in Runs \ {r} : tx'[q] = tx[q]
  BY NoTxType DEF TypeOK

LEMMA HoldStep == TypeOK /\ TypeOK' /\ AskInv /\ HoldInv /\ [Next]_vars => HoldInv'
<1> SUFFICES ASSUME TypeOK, TypeOK', AskInv, HoldInv, [Next]_vars PROVE HoldInv'
  OBVIOUS
<1> USE DEF rows, data, leases
<1>0. now \in Nat /\ backend' = backend
  BY NumbersAssumption DEF TypeOK, Next, vars
<1>00. RowLocks' = RowLocks
  BY <1>0 DEF RowLocks
<1>1. ASSUME NEW r \in Runs, NEW S \in SUBSET Nodes, Take(r, S) PROVE HoldInv'
  <2>1. tx[r] = NoTx /\ TakeScope(r, S, now) /\ now \in 0..now /\ now' = now /\ tx' = tx
        /\ unlocks' = unlocks
    BY <1>0, <1>1 DEF Take, MayAsk
  <2>2. \A n \in Nodes : hold[n].owner = r => n \in S
    BY <1>1 DEF Take, MayAsk, HoldInv, OwnedIsLeased
  <2> QED
    BY <1>0, <2>1, <2>2, TakeScopeHolds
<1>2. ASSUME NEW r \in Runs, Granted(r) PROVE HoldInv'
  <2>1. /\ asking.scope \in SUBSET Nodes /\ asking.since \in 0..now /\ RowLocks
        /\ TakeScope(r, asking.scope, asking.since) /\ tx[r] = NoTx
        /\ phase[r] = "idle" \/ (phase[r] = "held" /\ asking.scope = scope[r])
    BY <1>2, GrantedScope
  <2>2. \A n \in Nodes : hold[n].owner = r => n \in asking.scope
    BY <2>1 DEF HoldInv, OwnedIsLeased
  <2>3. now' = now /\ tx' = tx /\ unlocks' = unlocks
    BY <1>2 DEF Granted
  <2> QED
    BY <1>0, <2>1, <2>2, <2>3, TakeScopeHolds
<1>3. ASSUME NEW r \in Runs, RenewRefused(r) \/ Contended(r) PROVE HoldInv'
  <2>1. \A q \in Runs : phase'[q] = phase[q] \/ (phase[q] = "held" /\ phase'[q] = "lost")
    BY <1>3, ToldType DEF RenewRefused, Contended
  <2> QED
    BY <1>0, <1>3, <2>1, HoldKept DEF RenewRefused, Contended, HoldInv, LockedHeld
<1>15. ASSUME NEW r \in Runs, NEW S \in SUBSET Nodes, Ask(r, S) PROVE HoldInv'
  BY <1>0, <1>15, HoldKept DEF Ask, HoldInv, LockedHeld
<1>4. ASSUME NEW r \in Runs, ReleaseLock(r) PROVE HoldInv'
  <2> USE DEF HoldInv
  <2>1. \A n \in Nodes : hold'[n] = IF hold[n].owner = r THEN Free ELSE hold[n]
    BY <1>4 DEF ReleaseLock
  <2>2. /\ phase[r] \in {"held", "lost"} /\ phase'[r] = "done"
        /\ \A q \in Runs \ {r} : phase'[q] = phase[q]
    BY <1>4 DEF ReleaseLock, TypeOK
  <2>3. UNCHANGED <<now, taken, scope, lease, waited, tx, unlocks>> /\ tx[r] = NoTx
    BY <1>4 DEF ReleaseLock
  <2>4. OwnedIsLeased'
    BY <2>1, <2>2, <2>3, OwnersAssumption DEF OwnedIsLeased, Free
  <2>5. FreeIsBlank'
    BY <2>1 DEF FreeIsBlank
  <2>6. TxOfHolder'
    BY <2>2, <2>3 DEF TxOfHolder
  <2>7. LockedHeld'
    <3> SUFFICES ASSUME NEW q \in Runs, NEW n \in tx[q].locked PROVE hold'[n].owner = q
      BY <2>3 DEF LockedHeld
    <3>1. q # r /\ n \in Nodes
      BY <2>3, NoTxType DEF TypeOK, TxType
    <3> QED
      BY <2>1, <3>1 DEF LockedHeld
  <2>8. KeptUntilLapse'
    <3> SUFFICES ASSUME NEW q \in Runs, phase'[q] \in {"held", "lost"}, unlocks = 0,
                        NEW n \in scope[q]
                 PROVE  (hold'[n].owner = q /\ taken[n] = lease[q].fence) \/ RowsLapsed(q)'
      BY <2>3 DEF KeptUntilLapse
    <3>1. q # r /\ phase[q] \in {"held", "lost"} /\ n \in Nodes
      BY <2>2 DEF TypeOK
    <3>2. RowsLapsed(q) => RowsLapsed(q)'
      BY <1>0, <1>00, <2>3, LapsedStays
    <3> QED
      BY <2>1, <3>1, <3>2 DEF KeptUntilLapse
  <2>9. OnTheSpot'
    BY <1>00, <2>3 DEF OnTheSpot
  <2> QED
    BY <2>4, <2>5, <2>6, <2>7, <2>8, <2>9
<1>5. ASSUME NEW n \in Nodes, ForceUnlock(n) PROVE HoldInv'
  <2> USE DEF HoldInv
  <2>1. hold'[n] = Free /\ \A m \in Nodes \ {n} : hold'[m] = hold[m]
    BY <1>5 DEF ForceUnlock, TypeOK
  <2>2. UNCHANGED <<now, phase, scope, lease, waited, tx>>
    BY <1>5 DEF ForceUnlock
  <2>3. OwnedIsLeased'
    BY <2>1, <2>2, OwnersAssumption DEF OwnedIsLeased, Free
  <2>4. FreeIsBlank'
    BY <2>1 DEF FreeIsBlank
  <2>5. TxOfHolder'
    BY <2>2 DEF TxOfHolder
  <2>6. LockedHeld'
    <3> SUFFICES ASSUME NEW q \in Runs, NEW m \in tx[q].locked PROVE hold'[m].owner = q
      BY <2>2 DEF LockedHeld
    <3>1. m \in Nodes
      BY DEF TypeOK, TxType
    <3>2. m # n
      BY <1>5, OwnersAssumption DEF ForceUnlock, RowsFree
    <3> QED
      BY <2>1, <3>1, <3>2 DEF LockedHeld
  <2>7. KeptUntilLapse'
    <3>1. unlocks' # 0
      BY <1>5, NumbersAssumption DEF ForceUnlock, TypeOK
    <3> QED
      BY <3>1 DEF KeptUntilLapse
  <2>8. OnTheSpot'
    BY <1>00, <2>2 DEF OnTheSpot
  <2> QED
    BY <2>3, <2>4, <2>5, <2>6, <2>7, <2>8
<1>6. ASSUME NEW r \in Runs, NEW n \in Nodes, NEW kind \in {"put", "outputs"},
             CheckedWrite(r, n) \/ UncheckedWrite(r, n, kind)
      PROVE  HoldInv'
  <2>0. /\ phase[r] \in {"held", "lost"} /\ n \in scope[r]
        /\ UNCHANGED <<now, hold, taken, lease, waited, scope, phase, unlocks>>
        /\ \E k \in {"put", "outputs"} :
              tx' = [tx EXCEPT ![r] = [NoTx EXCEPT !.kind = k, !.node = n, !.id = writes + 1]]
    BY <1>6 DEF CheckedWrite, UncheckedWrite, StartWrite
  <2>1. tx'[r].locked = {} /\ tx'[r].node = n /\ \A q \in Runs \ {r} : tx'[q] = tx[q]
    BY <2>0, NoTxType DEF TypeOK, TxType
  <2>2. \A q \in Runs : \A m \in tx'[q].locked : hold[m].owner = q
    BY <2>1 DEF HoldInv, LockedHeld
  <2>3. \A q \in Runs : tx'[q] # tx[q] => phase'[q] \in {"held", "lost"}
                                        /\ tx'[q].node \in scope[q]
    BY <2>0, <2>1
  <2>4. \A q \in Runs : phase'[q] = phase[q]
    BY <2>0
  <2> QED
    BY <1>0, <2>0, <2>2, <2>3, <2>4, HoldKept
<1>7. ASSUME NEW r \in Runs, GuardRefuses(r) PROVE HoldInv'
  <2>1. \A q \in Runs : phase'[q] = phase[q] \/ (phase[q] = "held" /\ phase'[q] = "lost")
    BY <1>7 DEF GuardRefuses, TypeOK
  <2> QED
    BY <1>0, <1>7, <2>1, HoldKept DEF GuardRefuses, HoldInv, LockedHeld
<1>8. ASSUME NEW r \in Runs, WriteAtomically(r) PROVE HoldInv'
  <2>1. tx'[r] = NoTx /\ tx'[r].locked = {} /\ \A q \in Runs \ {r} : tx'[q] = tx[q]
    BY <1>8, LandTx DEF WriteAtomically, Land
  <2>2. \A q \in Runs : \A m \in tx'[q].locked : hold[m].owner = q
    BY <2>1 DEF HoldInv, LockedHeld
  <2>3. UNCHANGED <<now, hold, taken, phase, scope, lease, waited, unlocks>>
    BY <1>8 DEF WriteAtomically
  <2> QED
    BY <1>0, <2>1, <2>2, <2>3, HoldKept
<1>9. ASSUME NEW r \in Runs, Judge(r) PROVE HoldInv'
  <2> DEFINE n == tx[r].node
  <2>1. n \in Nodes /\ tx[r].kind # "none"
    BY <1>9 DEF Judge, TypeOK, TxType
  <2>2. /\ tx'[r].locked = IF hold[n] = Free THEN {} ELSE {n}
        /\ tx'[r].node = n
        /\ \A q \in Runs \ {r} : tx'[q] = tx[q]
    BY <1>9 DEF Judge, TypeOK, TxType
  <2>3. hold[n] # Free => hold[n].owner = r
    BY <1>9, <2>1 DEF Judge, FenceViolation, HoldInv, FreeIsBlank
  <2>4. \A q \in Runs : \A m \in tx'[q].locked : hold[m].owner = q
    BY <2>2, <2>3 DEF HoldInv, LockedHeld
  <2>5. phase[r] \in {"held", "lost"} /\ n \in scope[r]
    BY <2>1, NoTxType DEF HoldInv, TxOfHolder
  <2>6. UNCHANGED <<now, hold, taken, phase, scope, lease, waited, unlocks>>
    BY <1>9 DEF Judge
  <2>7. \A q \in Runs : tx'[q] # tx[q] => phase'[q] \in {"held", "lost"}
                                        /\ tx'[q].node \in scope[q]
    BY <2>2, <2>5, <2>6
  <2> QED
    BY <1>0, <2>4, <2>6, <2>7, HoldKept
<1>10. ASSUME NEW r \in Runs, Commit(r) PROVE HoldInv'
  <2>1. tx'[r] = NoTx /\ tx'[r].locked = {} /\ \A q \in Runs \ {r} : tx'[q] = tx[q]
    BY <1>10, LandTx DEF Commit, Land
  <2>2. \A q \in Runs : \A m \in tx'[q].locked : hold[m].owner = q
    BY <2>1 DEF HoldInv, LockedHeld
  <2>3. UNCHANGED <<now, hold, taken, phase, scope, lease, waited, unlocks>>
    BY <1>10 DEF Commit
  <2> QED
    BY <1>0, <2>1, <2>2, <2>3, HoldKept
<1>11. ASSUME NEW r \in Runs, WriteRefused(r) PROVE HoldInv'
  <2>1. tx'[r] = NoTx /\ tx'[r].locked = {} /\ \A q \in Runs \ {r} : tx'[q] = tx[q]
    BY <1>11, LandTx DEF WriteRefused
  <2>2. \A q \in Runs : \A m \in tx'[q].locked : hold[m].owner = q
    BY <2>1 DEF HoldInv, LockedHeld
  <2>3. UNCHANGED <<now, hold, taken, phase, scope, lease, waited, unlocks>>
    BY <1>11 DEF WriteRefused
  <2> QED
    BY <1>0, <2>1, <2>2, <2>3, HoldKept
<1>12. CASE Tick
  BY <1>0, <1>12, HoldKept DEF Tick, HoldInv, LockedHeld
<1>13. CASE UNCHANGED vars
  BY <1>0, <1>13, HoldKept DEF vars, HoldInv, LockedHeld
<1>14. ASSUME NEW r \in Runs, NEW landed \in BOOLEAN, Disconnect(r, landed) PROVE HoldInv'
  <2>1. tx'[r].locked = {} /\ \A q \in Runs \ {r} : tx'[q] = tx[q]
    BY <1>14, DisconnectTx
  <2>2. \A q \in Runs : \A m \in tx'[q].locked : hold[m].owner = q
    BY <2>1 DEF HoldInv, LockedHeld
  <2>3. UNCHANGED <<now, hold, taken, phase, scope, lease, waited, unlocks>>
    BY <1>14 DEF Disconnect
  <2>4. phase[r] \in {"held", "lost"} /\ tx[r].node \in scope[r]
    BY <1>14, NoTxType DEF Disconnect, HoldInv, TxOfHolder
  <2>6. tx'[r] = NoTx \/ tx'[r].node = tx[r].node
    <3>1. tx'[r] = NoTx \/ tx'[r] = Replayed(r)
      BY <1>14, DisconnectTx
    <3>2. Replayed(r).node = tx[r].node
      BY NoTxType DEF Replayed, TxType
    <3> QED
      BY <3>1, <3>2
  <2>5. \A q \in Runs : tx'[q] # tx[q] =>
            \/ tx'[q] = NoTx
            \/ phase'[q] \in {"held", "lost"} /\ tx'[q].node \in scope[q]
    BY <2>1, <2>3, <2>4, <2>6
  <2> QED
    BY <1>0, <2>2, <2>3, <2>5, HoldKept
<1> QED
  BY <1>1, <1>2, <1>3, <1>4, <1>5, <1>6, <1>7, <1>8, <1>9, <1>10, <1>11, <1>12, <1>13, <1>14,
     <1>15
  DEF Next, Step

LEMMA Holds == Spec => [](TypeOK /\ HoldInv)
<1>1. TypeOK /\ AskInv /\ HoldInv /\ [Next]_vars => (TypeOK /\ AskInv /\ HoldInv)'
  BY TypeStep, AskStep, HoldStep
<1> QED
  BY <1>1, TypeInit, AskInit, HoldInit, PTL DEF Spec

\* A run whose guard would let it write has every row of its scope at its own fence,
\* whatever the TTL, the grace and the margin, if it waited for its rows no longer than
\* the grace and the margin together and no operator broke a hold: the instant at which
\* a taker may take its rows then comes after the last one the guard accepts.
THEOREM GuardSound == Spec => []GuardMeansHeld
<1>1. TypeOK /\ HoldInv => GuardMeansHeld
  <2> SUFFICES ASSUME TypeOK, HoldInv, NEW r \in Runs, phase[r] = "held", GuardPasses(r),
                      unlocks = 0, waited[r] <= Grace + Margin, NEW n \in scope[r]
               PROVE  hold[n].owner = r /\ hold[n].fence = lease[r].fence
    BY DEF GuardMeansHeld
  <2>1. n \in Nodes
    BY DEF TypeOK
  <2>2. /\ lease[r].expires \in Nat /\ waited[r] \in Nat /\ now \in Nat
        /\ Grace \in Nat /\ Margin \in Nat
    BY NumbersAssumption DEF TypeOK
  <2>3. ~RowLocks => waited[r] = 0
    BY DEF HoldInv, OnTheSpot
  <2>4. ~RowsLapsed(r)
    BY <2>2, <2>3 DEF RowsLapsed, GuardPasses
  <2> QED
    BY <2>1, <2>4 DEF HoldInv, KeptUntilLapse, OwnedIsLeased
<1> QED
  BY <1>1, Holds, PTL

\* A write judged under a hold row still has that row, at the fence it was judged by,
\* until it lands.
THEOREM JudgementStands == Spec => []JudgedStaysHeld
<1>1. TypeOK /\ HoldInv => JudgedStaysHeld
  <2> SUFFICES ASSUME TypeOK, HoldInv, NEW r \in Runs, NEW n \in tx[r].locked
               PROVE  hold[n].owner = r /\ hold[n].fence = lease[r].fence
    BY DEF JudgedStaysHeld
  <2>1. n \in Nodes
    BY DEF TypeOK, TxType
  <2> QED
    BY <2>1 DEF HoldInv, LockedHeld, OwnedIsLeased
<1> QED
  BY <1>1, Holds, PTL

(***************************************************************************)
(* The outputs row.  A postgres transaction that has read it to merge into *)
(* it is the only one, and what it read is still there when it lands.      *)
(***************************************************************************)
MergeInv ==
    /\ outputs = merged
    /\ \A r \in Runs : tx[r].kind = "judgedOutputs" =>
          /\ RowLocks
          /\ tx[r].base = outputs
          /\ \A q \in Runs : tx[q].kind = "judgedOutputs" => q = r

LEMMA MergeStep == TypeOK /\ MergeInv /\ [Next]_vars => MergeInv'
<1> SUFFICES ASSUME TypeOK, MergeInv, [Next]_vars PROVE MergeInv'
  OBVIOUS
<1> USE DEF rows, data, MergeInv
<1>00. RowLocks' = RowLocks
  BY DEF Next, vars, RowLocks
<1> USE <1>00
<1>0. ASSUME UNCHANGED <<outputs, merged>>,
             \A r \in Runs : tx'[r].kind = "judgedOutputs" => tx'[r] = tx[r]
      PROVE  MergeInv'
  BY <1>0
<1>1. ASSUME NEW r \in Runs, NEW S \in SUBSET Nodes, Take(r, S) \/ Ask(r, S) PROVE MergeInv'
  BY <1>1 DEF Take, Ask
<1>2. ASSUME NEW r \in Runs, Granted(r) \/ Contended(r) PROVE MergeInv'
  BY <1>2 DEF Granted, Contended
<1>3. ASSUME NEW r \in Runs, RenewRefused(r) PROVE MergeInv'
  BY <1>3 DEF RenewRefused
<1>4. ASSUME NEW r \in Runs, ReleaseLock(r) PROVE MergeInv'
  BY <1>4 DEF ReleaseLock
<1>5. ASSUME NEW n \in Nodes, ForceUnlock(n) PROVE MergeInv'
  BY <1>5 DEF ForceUnlock
<1>6. ASSUME NEW r \in Runs, NEW n \in Nodes, NEW kind \in {"put", "outputs"},
             CheckedWrite(r, n) \/ UncheckedWrite(r, n, kind)
      PROVE  MergeInv'
  <2>0. \E k \in {"put", "outputs"} :
           tx' = [tx EXCEPT ![r] = [NoTx EXCEPT !.kind = k, !.node = n, !.id = writes + 1]]
    BY <1>6 DEF CheckedWrite, UncheckedWrite, StartWrite
  <2>1. tx'[r].kind \in {"put", "outputs"} /\ \A q \in Runs \ {r} : tx'[q] = tx[q]
    BY <2>0, NoTxType DEF TypeOK, TxType
  <2>2. UNCHANGED <<outputs, merged>>
    BY <1>6 DEF CheckedWrite, UncheckedWrite, StartWrite
  <2> QED
    BY <1>0, <2>1, <2>2
<1>7. ASSUME NEW r \in Runs, GuardRefuses(r) PROVE MergeInv'
  BY <1>7 DEF GuardRefuses
<1>8. ASSUME NEW r \in Runs, WriteAtomically(r) PROVE MergeInv'
  <2>1. ~RowLocks /\ Land(r, tx[r].kind = "outputs", outputs)
    BY <1>8 DEF WriteAtomically
  <2>2. outputs' = merged'
    BY <2>1 DEF Land, Store, Merge
  <2>3. \A q \in Runs : tx'[q].kind # "judgedOutputs"
    BY <2>1, NoTxType DEF Land, TypeOK
  <2> QED
    BY <2>2, <2>3
<1>9. ASSUME NEW r \in Runs, Judge(r) PROVE MergeInv'
  <2>1. UNCHANGED <<outputs, merged>> /\ RowLocks
    BY <1>9 DEF Judge
  <2>2. \A q \in Runs \ {r} : tx'[q] = tx[q]
    BY <1>9 DEF Judge, TypeOK
  <2>3. CASE tx[r].kind = "outputs"
    <3>1. tx'[r].base = outputs
      BY <1>9, <2>3 DEF Judge, TypeOK, TxType
    <3>2. \A q \in Runs \ {r} : tx'[q].kind # "judgedOutputs"
      BY <1>9, <2>2, <2>3 DEF Judge
    <3> QED
      BY <2>1, <3>1, <3>2
  <2>4. CASE tx[r].kind # "outputs"
    <3>1. tx'[r].kind = "judgedPut"
      BY <1>9, <2>4 DEF Judge, TypeOK, TxType
    <3> QED
      BY <1>0, <2>1, <2>2, <3>1
  <2> QED
    BY <2>3, <2>4
<1>10. ASSUME NEW r \in Runs, Commit(r) PROVE MergeInv'
  <2>1. Land(r, tx[r].kind = "judgedOutputs", tx[r].base)
    BY <1>10 DEF Commit
  <2>2. tx'[r] = NoTx /\ \A q \in Runs \ {r} : tx'[q] = tx[q]
    BY <2>1, LandTx DEF Land
  <2>3. CASE tx[r].kind = "judgedOutputs"
    <3>1. outputs' = merged'
      BY <2>1, <2>3 DEF Land, Store, Merge
    <3>2. \A q \in Runs : tx'[q].kind # "judgedOutputs"
      BY <2>2, <2>3, NoTxType
    <3> QED
      BY <3>1, <3>2
  <2>4. CASE tx[r].kind # "judgedOutputs"
    <3>1. UNCHANGED <<outputs, merged>>
      BY <2>1, <2>4 DEF Land, Store
    <3> QED
      BY <1>0, <2>2, <3>1, NoTxType
  <2> QED
    BY <2>3, <2>4
<1>11. ASSUME NEW r \in Runs, WriteRefused(r) PROVE MergeInv'
  <2>1. UNCHANGED <<outputs, merged>> /\ tx' = [tx EXCEPT ![r] = NoTx]
    BY <1>11 DEF WriteRefused
  <2> QED
    BY <1>0, <2>1, LandTx, NoTxType
<1>12. CASE Tick
  BY <1>12 DEF Tick
<1>13. CASE UNCHANGED vars
  BY <1>13 DEF vars
<1>14. ASSUME NEW r \in Runs, NEW landed \in BOOLEAN, Disconnect(r, landed) PROVE MergeInv'
  <2>1. tx'[r].kind # "judgedOutputs" /\ \A q \in Runs \ {r} : tx'[q] = tx[q]
    BY <1>14, DisconnectTx
  <2>2. CASE landed /\ tx[r].kind = "judgedOutputs"
    <3>1. outputs' = merged'
      BY <1>14, <2>2 DEF Disconnect, Store, Merge
    <3>2. \A q \in Runs : tx'[q].kind # "judgedOutputs"
      BY <2>1, <2>2
    <3> QED
      BY <3>1, <3>2
  <2>3. CASE ~(landed /\ tx[r].kind = "judgedOutputs")
    <3>1. UNCHANGED <<outputs, merged>>
      BY <1>14, <2>3 DEF Disconnect, Store
    <3> QED
      BY <1>0, <2>1, <3>1
  <2> QED
    BY <2>2, <2>3
<1> QED
  BY <1>1, <1>2, <1>3, <1>4, <1>5, <1>6, <1>7, <1>8, <1>9, <1>10, <1>11, <1>12, <1>13, <1>14
  DEF Next, Step

\* No merge of stack outputs is lost to a concurrent one, on any of the backends.
THEOREM NoMergeLost == Spec => []MergesKept
<1>1. Init => MergeInv
  BY NoTxType DEF Init, MergeInv
<1>2. MergeInv => MergesKept
  BY DEF MergeInv, MergesKept
<1> QED
  BY <1>1, <1>2, MergeStep, TypeCorrect, PTL DEF Spec

(***************************************************************************)
(* The writes.  Every write call in flight has a number of its own.        *)
(***************************************************************************)
IdInv ==
    \A r \in Runs :
        /\ tx[r].kind # "none" => tx[r].id > 0
        /\ tx[r].id <= writes
        /\ \A q \in Runs : tx[q].id = tx[r].id /\ tx[r].id > 0 => q = r

LEMMA IdStep == TypeOK /\ IdInv /\ [Next]_vars => IdInv'
<1> SUFFICES ASSUME TypeOK, IdInv, [Next]_vars PROVE IdInv'
  OBVIOUS
<1> USE DEF rows, data, IdInv
<1>0. ASSUME writes' = writes,
             \A r \in Runs : \/ tx'[r] = NoTx
                             \/ tx'[r].id = tx[r].id /\ tx[r].kind # "none"
                             \/ tx'[r] = tx[r]
      PROVE  IdInv'
  <2>1. writes \in Nat
    BY NumbersAssumption DEF TypeOK
  <2>2. \A r \in Runs : tx'[r] = NoTx \/ tx'[r].id = tx[r].id
    BY <1>0
  <2>3. \A r \in Runs : tx'[r].kind # "none" => tx'[r].id > 0 /\ tx'[r].id = tx[r].id
    BY <1>0, NoTxType
  <2> QED
    BY <1>0, <2>1, <2>2, <2>3, NoTxType
<1>1. ASSUME NEW r \in Runs, NEW S \in SUBSET Nodes, Take(r, S) \/ Ask(r, S) PROVE IdInv'
  BY <1>1 DEF Take, Ask
<1>2. ASSUME NEW r \in Runs, Granted(r) \/ Contended(r) PROVE IdInv'
  BY <1>2 DEF Granted, Contended
<1>3. ASSUME NEW r \in Runs, RenewRefused(r) PROVE IdInv'
  BY <1>3 DEF RenewRefused
<1>4. ASSUME NEW r \in Runs, ReleaseLock(r) PROVE IdInv'
  BY <1>4 DEF ReleaseLock
<1>5. ASSUME NEW n \in Nodes, ForceUnlock(n) PROVE IdInv'
  BY <1>5 DEF ForceUnlock
<1>6. ASSUME NEW r \in Runs, NEW n \in Nodes, NEW kind \in {"put", "outputs"},
             CheckedWrite(r, n) \/ UncheckedWrite(r, n, kind)
      PROVE  IdInv'
  <2>0. \E k \in {"put", "outputs"} :
           tx' = [tx EXCEPT ![r] = [NoTx EXCEPT !.kind = k, !.node = n, !.id = writes + 1]]
    BY <1>6 DEF CheckedWrite, UncheckedWrite, StartWrite
  <2>1. tx'[r].id = writes + 1 /\ \A q \in Runs \ {r} : tx'[q] = tx[q]
    BY <2>0, NoTxType DEF TypeOK, TxType
  <2>2. writes \in Nat /\ writes' = writes + 1
    BY <1>6, NumbersAssumption DEF CheckedWrite, UncheckedWrite, StartWrite, TypeOK
  <2>3. \A q \in Runs : tx[q].id \in Nat
    BY NumbersAssumption DEF TypeOK, TxType
  <2> QED
    BY <2>1, <2>2, <2>3
<1>7. ASSUME NEW r \in Runs, GuardRefuses(r) PROVE IdInv'
  BY <1>7 DEF GuardRefuses
<1>8. ASSUME NEW r \in Runs, WriteAtomically(r) PROVE IdInv'
  <2>1. writes' = writes /\ tx' = [tx EXCEPT ![r] = NoTx]
    BY <1>8 DEF WriteAtomically, Land
  <2> QED
    BY <1>0, <2>1, LandTx
<1>9. ASSUME NEW r \in Runs, Judge(r) PROVE IdInv'
  <2>1. writes' = writes /\ tx[r].kind # "none"
    BY <1>9 DEF Judge
  <2>2. tx'[r].id = tx[r].id /\ \A q \in Runs \ {r} : tx'[q] = tx[q]
    BY <1>9 DEF Judge, TypeOK, TxType
  <2> QED
    BY <1>0, <2>1, <2>2
<1>10. ASSUME NEW r \in Runs, Commit(r) PROVE IdInv'
  <2>1. writes' = writes /\ tx' = [tx EXCEPT ![r] = NoTx]
    BY <1>10 DEF Commit, Land
  <2> QED
    BY <1>0, <2>1, LandTx
<1>11. ASSUME NEW r \in Runs, WriteRefused(r) PROVE IdInv'
  <2>1. writes' = writes /\ tx' = [tx EXCEPT ![r] = NoTx]
    BY <1>11 DEF WriteRefused
  <2> QED
    BY <1>0, <2>1, LandTx
<1>12. CASE Tick
  BY <1>12 DEF Tick
<1>13. CASE UNCHANGED vars
  BY <1>13 DEF vars
<1>14. ASSUME NEW r \in Runs, NEW landed \in BOOLEAN, Disconnect(r, landed) PROVE IdInv'
  <2>1. writes' = writes /\ tx[r].kind # "none"
    BY <1>14 DEF Disconnect
  <2>2. /\ tx'[r] = NoTx \/ tx'[r].id = tx[r].id
        /\ \A q \in Runs \ {r} : tx'[q] = tx[q]
    BY <1>14, DisconnectTx, ReplayedType
  <2> QED
    BY <1>0, <2>1, <2>2
<1> QED
  BY <1>1, <1>2, <1>3, <1>4, <1>5, <1>6, <1>7, <1>8, <1>9, <1>10, <1>11, <1>12, <1>13, <1>14
  DEF Next, Step

\* A write that lands before the rows of its run have lapsed lands on a node nobody has
\* taken since: on every backend, however long it was under way, replayed after a lost
\* answer or not, guarded or not.
THEOREM TimelyPutsOwn == Spec => TimelyPutsAreOwn
<1> DEFINE Own == \A r \in Runs, n \in Nodes :
                      PutLands(r, n) /\ ~RowsLapsed(r) /\ unlocks = 0 => taken[n] = lease[r].fence
<1>1. Init => IdInv
  BY NoTxType DEF Init, IdInv
<1>2. Spec => []IdInv
  BY <1>1, IdStep, TypeCorrect, PTL DEF Spec
<1>3. ASSUME TypeOK, HoldInv, IdInv, [Next]_vars PROVE Own
  <2> USE <1>3 DEF rows, data
  <2>1. ASSUME stored' = stored PROVE Own
    BY <2>1 DEF PutLands
  <2>2. ASSUME NEW q \in Runs, tx[q] # NoTx, tx[q].kind # "none",
               stored' = [stored EXCEPT ![tx[q].node] = tx[q].id]
        PROVE  Own
    <3> SUFFICES ASSUME NEW r \in Runs, NEW n \in Nodes, PutLands(r, n), ~RowsLapsed(r),
                        unlocks = 0
                 PROVE  taken[n] = lease[r].fence
      OBVIOUS
    <3>1. n = tx[q].node /\ stored'[n] = tx[q].id
      BY <2>2 DEF PutLands, TypeOK
    <3>2. r = q
      BY <2>2, <3>1 DEF IdInv, PutLands
    <3>3. phase[r] \in {"held", "lost"} /\ n \in scope[r]
      BY <2>2, <3>1, <3>2 DEF HoldInv, TxOfHolder
    <3> QED
      BY <3>3 DEF HoldInv, KeptUntilLapse
  <2>3. ASSUME NEW q \in Runs, NEW base, NEW isOutputs \in BOOLEAN,
               Store(q, isOutputs, base), tx[q] # NoTx, tx[q].kind # "none"
        PROVE  Own
    <3>1. CASE isOutputs
      BY <2>1, <2>3, <3>1 DEF Store
    <3>2. CASE ~isOutputs
      <4>1. stored' = [stored EXCEPT ![tx[q].node] = tx[q].id]
        BY <2>3, <3>2 DEF Store, Merge
      <4> QED
        BY <2>2, <2>3, <4>1
    <3> QED
      BY <3>1, <3>2
  <2>4. ASSUME NEW q \in Runs, WriteAtomically(q) PROVE Own
    BY <2>3, <2>4, NoTxType DEF WriteAtomically, Land
  <2>5. ASSUME NEW q \in Runs, Commit(q) PROVE Own
    BY <2>3, <2>5, NoTxType DEF Commit, Land
  <2>6. ASSUME NEW q \in Runs, NEW landed \in BOOLEAN, Disconnect(q, landed) PROVE Own
    <3>1. CASE landed
      BY <2>3, <2>6, <3>1, NoTxType DEF Disconnect
    <3>2. CASE ~landed
      BY <2>1, <2>6, <3>2 DEF Disconnect
    <3> QED
      BY <3>1, <3>2
  <2> HIDE DEF Own
  <2> QED
    BY <2>1, <2>4, <2>5, <2>6 DEF Next, Step, Take, Ask, Granted, Contended, RenewRefused,
       ReleaseLock, ForceUnlock, CheckedWrite, UncheckedWrite, StartWrite, GuardRefuses, Judge,
       WriteRefused, Tick, vars
<1>4. TypeOK /\ HoldInv /\ IdInv /\ [Next]_vars => [Own]_vars
  BY <1>3
<1> HIDE DEF Own
<1>5. Spec => [][Own]_vars
  BY <1>2, <1>4, Holds, PTL DEF Spec
<1> QED
  BY <1>5 DEF TimelyPutsAreOwn, Own
=============================================================================
