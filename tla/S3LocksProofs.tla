--------------------------- MODULE S3LocksProofs ---------------------------
(* Theorems about S3Locks, for every set of runs, nodes and chunks, every    *)
(* clock skew within the margin and every bound.                             *)
EXTENDS S3Locks, TLAPS

(***************************************************************************)
(* Type correctness: every variable of the lock table and of the runs      *)
(* keeps the type it is declared with, whatever the code's actions do.     *)
(***************************************************************************)

LEMMA FreshChunkType == FreshChunk \in ChunkType
  BY TimeAssumption DEF FreshChunk, ChunkType, ChunkStates

\* Recording a chunk's new state keeps the record a chunk.
LEMMA SettleType ==
  ASSUME chunk \in [Runs -> [Chunks -> ChunkType]],
         NEW r \in Runs, NEW c \in Chunks, NEW st \in ChunkStates, Settle(r, c, st)
  PROVE  chunk' \in [Runs -> [Chunks -> ChunkType]]
<1>0. chunk[r][c] \in ChunkType
  OBVIOUS
<1>1. [chunk[r][c] EXCEPT !.st = st] \in ChunkType
  BY <1>0 DEF ChunkType
<1>2. [chunk[r] EXCEPT ![c] = [chunk[r][c] EXCEPT !.st = st]] \in [Chunks -> ChunkType]
  BY <1>1
<1> QED
  BY <1>2 DEF Settle

LEMMA DropTakingType ==
  ASSUME TypeOK, NEW r \in Runs, DropTaking(r)
  PROVE  /\ began' \in [Runs -> Int]
         /\ chunk' \in [Runs -> [Chunks -> ChunkType]]
         /\ seen' \in [Runs -> [Nodes -> Runs \cup {Nobody}]]
         /\ pointed' \in [Runs -> [Nodes -> Runs \cup {Nobody}]]
         /\ dead' \in [Runs -> SUBSET Runs]
  BY FreshChunkType DEF TypeOK, DropTaking

LEMMA TypeInit == Init => TypeOK
  BY TimeAssumption, FreshChunkType DEF Init, TypeOK, Phases

LEMMA TypeStep == TypeOK /\ [Next]_vars => TypeOK'
<1> SUFFICES ASSUME TypeOK, [Next]_vars PROVE TypeOK'
  OBVIOUS
<1> USE TimeAssumption DEF TypeOK, table, taking, history
<1>1. ASSUME NEW r \in Runs, NEW s \in Scopes, TakeScope(r, s) PROVE TypeOK'
  BY <1>1, ChunksAssumption DEF TakeScope, Clock, Phases
<1>2. ASSUME NEW r \in Runs, NextFence(r) PROVE TypeOK'
  BY <1>2 DEF NextFence, Phases
<1>3. ASSUME NEW r \in Runs, PutLease(r) PROVE TypeOK'
  BY <1>3 DEF PutLease, Phases
<1>4. ASSUME NEW r \in Runs, NEW c \in Chunks, TakeChunk(r, c) PROVE TypeOK'
  <2>1. PICK st \in {"done", "error"} : Settle(r, c, st)
    BY <1>4 DEF TakeChunk
  <2>2. chunk' \in [Runs -> [Chunks -> ChunkType]]
    BY <2>1, SettleType DEF ChunkStates
  <2>3. /\ row' \in [Nodes -> Runs \cup {Nobody}]
        /\ headFence' \in [Nodes -> Nat]
        /\ granted' \in [Nodes -> Nat]
    BY <1>4 DEF TakeChunk, ClaimItems
  <2> QED
    BY <1>4, <2>2, <2>3 DEF TakeChunk
<1>5. ASSUME NEW r \in Runs, NEW c \in Chunks, RefuseChunk(r, c) PROVE TypeOK'
  <2>1. chunk' \in [Runs -> [Chunks -> ChunkType]]
    BY <1>5, SettleType DEF RefuseChunk, ChunkStates
  <2> QED
    BY <1>5, <2>1 DEF RefuseChunk
<1>6. ASSUME NEW r \in Runs, NEW c \in Chunks, RowsRefused(r, c) PROVE TypeOK'
  <2> DEFINE rows == {n \in Batch(r, c) : RowRefused(r, n)}
  <2>1. [st |-> "read", left |-> chunk[r][c].left - 1, rows |-> rows, live |-> {}] \in ChunkType
    BY <1>6 DEF RowsRefused, Batch, ChunkType, ChunkStates
  <2> QED
    BY <1>6, <2>1 DEF RowsRefused
<1>7. ASSUME NEW r \in Runs, NEW c \in Chunks, ReadRows(r, c) PROVE TypeOK'
  <2>1. chunk' \in [Runs -> [Chunks -> ChunkType]]
    BY <1>7, SettleType DEF ReadRows, ChunkStates
  <2>2. seen' \in [Runs -> [Nodes -> Runs \cup {Nobody}]]
    BY <1>7 DEF ReadRows
  <2> QED
    BY <1>7, <2>1, <2>2 DEF ReadRows
<1>8. ASSUME NEW r \in Runs, NEW c \in Chunks, NEW l \in Runs, JudgeLease(r, c, l) PROVE TypeOK'
  <2> DEFINE judged == [chunk[r][c] EXCEPT !.live = @ \cup {l}]
  <2>1. chunk[r][c] \in ChunkType
    OBVIOUS
  <2>2. judged \in ChunkType
    BY <2>1 DEF ChunkType
  <2>3. [chunk[r] EXCEPT ![c] = judged] \in [Chunks -> ChunkType]
    BY <2>2
  <2>4. chunk' = chunk \/ chunk' = [chunk EXCEPT ![r] = [chunk[r] EXCEPT ![c] = judged]]
    BY <1>8 DEF JudgeLease
  <2>5. chunk' \in [Runs -> [Chunks -> ChunkType]]
    BY <2>3, <2>4
  <2>6. item' = item \/ item' = [item EXCEPT ![l] = "revoked"]
    BY <1>8 DEF JudgeLease
  <2>7. dead' = dead \/ dead' = [dead EXCEPT ![r] = @ \cup {l}]
    BY <1>8 DEF JudgeLease
  <2>8. item' \in [Runs -> {"absent", "live", "revoked"}]
    BY <2>6
  <2>9. dead' \in [Runs -> SUBSET Runs]
    <3>1. dead[r] \cup {l} \in SUBSET Runs
      OBVIOUS
    <3> QED
      BY <2>7, <3>1
  <2> QED
    BY <1>8, <2>5, <2>8, <2>9 DEF JudgeLease
<1>9. ASSUME NEW r \in Runs, NEW c \in Chunks, JudgeHolders(r, c) PROVE TypeOK'
  <2>1. chunk' \in [Runs -> [Chunks -> ChunkType]]
    <3>1. CASE chunk[r][c].live = {}
      BY <1>9, <3>1, SettleType DEF JudgeHolders, ChunkStates
    <3>2. CASE chunk[r][c].live # {}
      BY <1>9, <3>2, SettleType DEF JudgeHolders, ChunkStates
    <3> QED
      BY <3>1, <3>2
  <2>2. pointed' \in [Runs -> [Nodes -> Runs \cup {Nobody}]]
    BY <1>9 DEF JudgeHolders
  <2> QED
    BY <1>9, <2>1, <2>2 DEF JudgeHolders
<1>10. ASSUME NEW r \in Runs, NEW c \in Chunks, SkipChunk(r, c) PROVE TypeOK'
  <2>1. chunk' \in [Runs -> [Chunks -> ChunkType]]
    BY <1>10, SettleType DEF SkipChunk, ChunkStates
  <2> QED
    BY <1>10, <2>1 DEF SkipChunk
<1>11. ASSUME NEW r \in Runs, TakeChunks(r) PROVE TypeOK'
  <2>1. DropTaking(r)
    BY <1>11 DEF TakeChunks
  <2>2. MaybeWritten(r) \in SUBSET Nodes
    BY DEF MaybeWritten, Batch
  <2>3. \/ phase' = [phase EXCEPT ![r] = "held"] /\ todo' = todo
        \/ phase' = [phase EXCEPT ![r] = "undo"] /\ todo' = [todo EXCEPT ![r] = MaybeWritten(r)]
    BY <1>11 DEF TakeChunks
  <2>4. phase' \in [Runs -> Phases]
    BY <2>3 DEF Phases
  <2>5. todo' \in [Runs -> SUBSET Nodes]
    BY <2>2, <2>3
  <2> QED
    BY <1>11, <2>1, <2>4, <2>5, DropTakingType DEF TakeChunks
<1>12. ASSUME NEW r \in Runs, DropGrant(r) PROVE TypeOK'
  <2>1. CASE DeleteItem(r) /\ phase' = [phase EXCEPT ![r] = "undoRows"]
                           /\ UNCHANGED <<todo, scope, expires>>
    BY <1>12, <2>1 DEF DropGrant, DeleteItem, Phases
  <2>2. CASE /\ phase' = [phase EXCEPT ![r] = "done"]
             /\ todo' = [todo EXCEPT ![r] = {}]
             /\ DropLease(r)
             /\ UNCHANGED <<item, expiry>>
    BY <1>12, <2>2 DEF DropGrant, DropLease, Phases
  <2> QED
    BY <1>12, <2>1, <2>2 DEF DropGrant
<1>13. ASSUME NEW r \in Runs, ReleaseLease(r) PROVE TypeOK'
  <2>1. /\ item' \in [Runs -> {"absent", "live", "revoked"}]
        /\ expiry' \in [Runs -> Int]
    <3>1. CASE DeleteItem(r)
      BY <3>1 DEF DeleteItem
    <3>2. CASE UNCHANGED <<item, expiry>>
      BY <3>2
    <3> QED
      BY <1>13, <3>1, <3>2 DEF ReleaseLease
  <2> QED
    BY <1>13, <2>1 DEF ReleaseLease, Phases
<1>14. ASSUME NEW r \in Runs, NEW n \in Nodes, ReleaseRow(r, n) PROVE TypeOK'
  BY <1>14 DEF ReleaseRow
<1>15. ASSUME NEW r \in Runs, RowsReleased(r) PROVE TypeOK'
  BY <1>15 DEF RowsReleased, DropLease, Phases
<1>16. ASSUME NEW r \in Runs, Crash(r) PROVE TypeOK'
  <2>1. DropTaking(r)
    BY <1>16 DEF Crash
  <2> QED
    BY <1>16, <2>1, DropTakingType DEF Crash, DropLease, Phases
<1>17. ASSUME NEW r \in Runs, Renew(r) PROVE TypeOK'
  <2>1. expires' \in [Runs -> Int] /\ expiry' \in [Runs -> Int]
    BY <1>17 DEF Renew, Clock
  <2> QED
    BY <1>17, <2>1 DEF Renew
<1>18. ASSUME NEW r \in Runs, RenewRefused(r) PROVE TypeOK'
  BY <1>18 DEF RenewRefused, Phases
<1>19. ASSUME NEW r \in Runs, NEW n \in Nodes, StartWrite(r, n) PROVE TypeOK'
  BY <1>19 DEF StartWrite
<1>20. ASSUME NEW r \in Runs, NEW n \in Nodes, Commit(r, n) PROVE TypeOK'
  BY <1>20 DEF Commit
<1>21. ASSUME NEW n \in Nodes, ForceUnlock(n) PROVE TypeOK'
  BY <1>21 DEF ForceUnlock
<1>22. ASSUME NEW r \in Runs, Reap(r) PROVE TypeOK'
  BY <1>22 DEF Reap, DeleteItem
<1>23. CASE Tick
  BY <1>23 DEF Tick
<1>24. CASE UNCHANGED vars
  BY <1>24 DEF vars
<1> QED
  BY <1>1, <1>2, <1>3, <1>4, <1>5, <1>6, <1>7, <1>8, <1>9, <1>10, <1>11, <1>12, <1>13, <1>14,
     <1>15, <1>16, <1>17, <1>18, <1>19, <1>20, <1>21, <1>22, <1>23, <1>24
  DEF Next, Acquire, GiveBack, Hold

\* Every reachable state of the lock table and its runs has the declared types.
THEOREM TypeCorrect == Spec => []TypeOK
  BY TypeInit, TypeStep, PTL DEF Spec

\* Only a claim moves a head's fence, and it moves the newest grant with it.
LEMMA GrantedStep == TypeOK /\ GrantedIsHead /\ [Next]_vars => GrantedIsHead'
<1> SUFFICES ASSUME TypeOK, GrantedIsHead, [Next]_vars PROVE GrantedIsHead'
  OBVIOUS
<1> USE DEF TypeOK, GrantedIsHead, table, taking, history, HeadRefused
<1>1. ASSUME NEW r \in Runs, NEW s \in Scopes, TakeScope(r, s) PROVE GrantedIsHead'
  BY <1>1 DEF TakeScope
<1>2. ASSUME NEW r \in Runs, NextFence(r) PROVE GrantedIsHead'
  BY <1>2 DEF NextFence
<1>3. ASSUME NEW r \in Runs, PutLease(r) PROVE GrantedIsHead'
  BY <1>3 DEF PutLease
<1>4. ASSUME NEW r \in Runs, NEW c \in Chunks, TakeChunk(r, c) PROVE GrantedIsHead'
  <2> SUFFICES ASSUME NEW n \in Nodes PROVE granted'[n] = headFence'[n]
    OBVIOUS
  <2>1. CASE n \in Batch(r, c)
    <3>1. ~(headFence[n] > fence[r])
      BY <1>4, <2>1 DEF TakeChunk
    <3>2. /\ headFence'[n] = fence[r]
          /\ granted'[n] = IF granted[n] < fence[r] THEN fence[r] ELSE granted[n]
      BY <1>4, <2>1 DEF TakeChunk, ClaimItems
    <3>3. granted[n] = headFence[n] /\ granted[n] \in Nat /\ fence[r] \in Nat
      OBVIOUS
    <3> HIDE DEF TypeOK, GrantedIsHead
    <3> QED
      BY <3>1, <3>2, <3>3
  <2>2. CASE n \notin Batch(r, c)
    BY <1>4, <2>2 DEF TakeChunk, ClaimItems
  <2> QED
    BY <2>1, <2>2
<1>5. ASSUME NEW r \in Runs, NEW c \in Chunks, RefuseChunk(r, c) PROVE GrantedIsHead'
  BY <1>5 DEF RefuseChunk, Settle
<1>6. ASSUME NEW r \in Runs, NEW c \in Chunks, RowsRefused(r, c) PROVE GrantedIsHead'
  BY <1>6 DEF RowsRefused
<1>7. ASSUME NEW r \in Runs, NEW c \in Chunks, ReadRows(r, c) PROVE GrantedIsHead'
  BY <1>7 DEF ReadRows, Settle
<1>8. ASSUME NEW r \in Runs, NEW c \in Chunks, NEW l \in Runs, JudgeLease(r, c, l) PROVE GrantedIsHead'
  BY <1>8 DEF JudgeLease, Unknown
<1>9. ASSUME NEW r \in Runs, NEW c \in Chunks, JudgeHolders(r, c) PROVE GrantedIsHead'
  BY <1>9 DEF JudgeHolders, Settle, Unknown
<1>10. ASSUME NEW r \in Runs, NEW c \in Chunks, SkipChunk(r, c) PROVE GrantedIsHead'
  BY <1>10 DEF SkipChunk, Settle
<1>11. ASSUME NEW r \in Runs, TakeChunks(r) PROVE GrantedIsHead'
  BY <1>11 DEF TakeChunks, DropTaking, Batches, FreshChunk
<1>12. ASSUME NEW r \in Runs, DropGrant(r) PROVE GrantedIsHead'
  BY <1>12 DEF DropGrant, DropLease, DeleteItem
<1>13. ASSUME NEW r \in Runs, ReleaseLease(r) PROVE GrantedIsHead'
  BY <1>13 DEF ReleaseLease, DeleteItem
<1>14. ASSUME NEW r \in Runs, NEW n \in Nodes, ReleaseRow(r, n) PROVE GrantedIsHead'
  BY <1>14 DEF ReleaseRow
<1>15. ASSUME NEW r \in Runs, RowsReleased(r) PROVE GrantedIsHead'
  BY <1>15 DEF RowsReleased, DropLease
<1>16. ASSUME NEW r \in Runs, Crash(r) PROVE GrantedIsHead'
  BY <1>16 DEF Crash, DropTaking, DropLease, FreshChunk
<1>17. ASSUME NEW r \in Runs, Renew(r) PROVE GrantedIsHead'
  BY <1>17 DEF Renew
<1>18. ASSUME NEW r \in Runs, RenewRefused(r) PROVE GrantedIsHead'
  BY <1>18 DEF RenewRefused
<1>19. ASSUME NEW r \in Runs, NEW n \in Nodes, StartWrite(r, n) PROVE GrantedIsHead'
  BY <1>19 DEF StartWrite
<1>20. ASSUME NEW r \in Runs, NEW n \in Nodes, Commit(r, n) PROVE GrantedIsHead'
  BY <1>20 DEF Commit
<1>21. ASSUME NEW n \in Nodes, ForceUnlock(n) PROVE GrantedIsHead'
  BY <1>21 DEF ForceUnlock
<1>22. ASSUME NEW r \in Runs, Reap(r) PROVE GrantedIsHead'
  BY <1>22 DEF Reap, DeleteItem
<1>23. CASE Tick
  BY <1>23 DEF Tick
<1>24. CASE UNCHANGED vars
  BY <1>24 DEF vars
<1> QED
  BY <1>1, <1>2, <1>3, <1>4, <1>5, <1>6, <1>7, <1>8, <1>9, <1>10, <1>11, <1>12, <1>13, <1>14, <1>15, <1>16, <1>17, <1>18, <1>19, <1>20, <1>21, <1>22, <1>23, <1>24
  DEF Next, Acquire, GiveBack, Hold

\* No step takes a row, or a head, from a live lease.
LEMMA HoldStep == TypeOK /\ HoldInv /\ [Next]_vars => HoldInv'
<1> SUFFICES ASSUME TypeOK, HoldInv, [Next]_vars PROVE HoldInv'
  OBVIOUS
<1> USE RunsAssumption DEF TypeOK, HoldInv, table, taking, history
<1>1. ASSUME NEW r \in Runs, NEW s \in Scopes, TakeScope(r, s) PROVE HoldInv'
  <2>1. RowsPast'
    BY <1>1 DEF TakeScope, RowsPast, Past
  <2>2. DeadAreGone'
    BY <1>1 DEF TakeScope, DeadAreGone, Past
  <2>3. OwnsRows'
    BY <1>1 DEF TakeScope, OwnsRows, Taken
  <2>4. ChunksIdle'
    BY <1>1 DEF TakeScope, ChunksIdle
  <2> QED
    BY <2>1, <2>2, <2>3, <2>4 DEF HoldInv
<1>2. ASSUME NEW r \in Runs, NextFence(r) PROVE HoldInv'
  <2>1. RowsPast'
    BY <1>2 DEF NextFence, RowsPast, Past
  <2>2. DeadAreGone'
    BY <1>2 DEF NextFence, DeadAreGone, Past
  <2>3. OwnsRows'
    BY <1>2 DEF NextFence, OwnsRows, Taken
  <2>4. ChunksIdle'
    BY <1>2 DEF NextFence, ChunksIdle
  <2> QED
    BY <2>1, <2>2, <2>3, <2>4 DEF HoldInv
<1>3. ASSUME NEW r \in Runs, PutLease(r) PROVE HoldInv'
  <2>1. RowsPast'
    BY <1>3 DEF PutLease, RowsPast, Past
  <2>2. DeadAreGone'
    BY <1>3 DEF PutLease, DeadAreGone, Past
  <2>3. OwnsRows'
    BY <1>3 DEF PutLease, OwnsRows, Taken, ChunksIdle
  <2>4. ChunksIdle'
    BY <1>3 DEF PutLease, ChunksIdle
  <2> QED
    BY <2>1, <2>2, <2>3, <2>4 DEF HoldInv
<1>4. ASSUME NEW r \in Runs, NEW c \in Chunks, TakeChunk(r, c) PROVE HoldInv'
  <2>1. RowsPast'
    BY <1>4 DEF TakeChunk, ClaimItems, Settle, Trying, RowRefused, AllowedFor, Batch, RowsPast, Past
  <2>2. DeadAreGone'
    BY <1>4 DEF TakeChunk, ClaimItems, Settle, Trying, RowRefused, AllowedFor, Batch, DeadAreGone, Past
  <2>3. OwnsRows'
    <3> SUFFICES ASSUME NEW q \in Runs, item'[q] = "live", NEW n \in Taken(q)' \ broken'
                 PROVE  row'[n] = q /\ headFence'[n] = fence'[q]
      BY DEF OwnsRows
    <3>0. n \in Nodes /\ item[q] = "live" /\ n \notin broken /\ fence' = fence
      BY <1>4 DEF TakeChunk, Taken
    <3>1. CASE n \in Batch(r, c)
      <4>1. row'[n] = r /\ headFence'[n] = fence[r]
        BY <1>4, <3>0, <3>1 DEF TakeChunk, ClaimItems
      <4>2. CASE q = r
        BY <4>1, <4>2, <3>0
      <4>3. CASE q # r
        <5>1. n \in Taken(q)
          BY <1>4, <4>3 DEF TakeChunk, Settle, Taken
        <5>2. row[n] = q
          BY <5>1, <3>0 DEF OwnsRows
        <5>3. q \in dead[r]
          <6>1. q \in AllowedFor(r, n)
            BY <1>4, <3>1, <5>2 DEF TakeChunk, RowRefused
          <6>2. pointed[r][n] # Nobody => pointed[r][n] \in dead[r] \cup {r}
            BY <3>0 DEF DeadAreGone
          <6> QED
            BY <6>1, <6>2, <4>3 DEF AllowedFor
        <5> QED
          BY <5>3, <3>0 DEF DeadAreGone
      <4> QED
        BY <4>2, <4>3
    <3>2. CASE n \notin Batch(r, c)
      <4>1. row'[n] = row[n] /\ headFence'[n] = headFence[n]
        BY <1>4, <3>0, <3>2 DEF TakeChunk, ClaimItems
      <4>2. n \in Taken(q)
        <5>1. \A d \in Chunks : d # c => chunk'[q][d] = chunk[q][d]
          BY <1>4 DEF TakeChunk, Settle
        <5>2. n \notin c \/ n \notin scope[r]
          BY <3>2 DEF Batch
        <5>3. q # r => chunk'[q] = chunk[q]
          BY <1>4 DEF TakeChunk, Settle
        <5> QED
          BY <1>4, <5>1, <5>2, <5>3 DEF TakeChunk, Taken
      <4> QED
        BY <4>1, <4>2, <3>0 DEF OwnsRows
    <3> QED
      BY <3>1, <3>2
  <2>4. ChunksIdle'
    BY <1>4 DEF TakeChunk, ClaimItems, Settle, Trying, RowRefused, AllowedFor, Batch, ChunksIdle
  <2> QED
    BY <2>1, <2>2, <2>3, <2>4 DEF HoldInv
<1>5. ASSUME NEW r \in Runs, NEW c \in Chunks, RefuseChunk(r, c) PROVE HoldInv'
  <2>1. RowsPast'
    BY <1>5 DEF RefuseChunk, Settle, RowsPast, Past
  <2>2. DeadAreGone'
    BY <1>5 DEF RefuseChunk, Settle, DeadAreGone, Past
  <2>3. OwnsRows'
    BY <1>5 DEF RefuseChunk, Settle, OwnsRows, Taken
  <2>4. ChunksIdle'
    BY <1>5 DEF RefuseChunk, Settle, Trying, ChunksIdle
  <2> QED
    BY <2>1, <2>2, <2>3, <2>4 DEF HoldInv
<1>6. ASSUME NEW r \in Runs, NEW c \in Chunks, RowsRefused(r, c) PROVE HoldInv'
  <2>1. RowsPast'
    BY <1>6 DEF RowsRefused, RowsPast, Past
  <2>2. DeadAreGone'
    BY <1>6 DEF RowsRefused, DeadAreGone, Past
  <2>3. OwnsRows'
    BY <1>6 DEF RowsRefused, OwnsRows, Taken
  <2>4. ChunksIdle'
    BY <1>6 DEF RowsRefused, Trying, ChunksIdle
  <2> QED
    BY <2>1, <2>2, <2>3, <2>4 DEF HoldInv
<1>7. ASSUME NEW r \in Runs, NEW c \in Chunks, ReadRows(r, c) PROVE HoldInv'
  <2>1. RowsPast'
    BY <1>7 DEF ReadRows, Settle, RowsPast, Past
  <2>2. DeadAreGone'
    BY <1>7 DEF ReadRows, Settle, DeadAreGone, Past
  <2>3. OwnsRows'
    BY <1>7 DEF ReadRows, Settle, OwnsRows, Taken
  <2>4. ChunksIdle'
    BY <1>7 DEF ReadRows, Settle, ChunksIdle
  <2> QED
    BY <2>1, <2>2, <2>3, <2>4 DEF HoldInv
<1>8. ASSUME NEW r \in Runs, NEW c \in Chunks, NEW l \in Runs, JudgeLease(r, c, l) PROVE HoldInv'
  <2>1. RowsPast'
    BY <1>8 DEF JudgeLease, Unknown, RowsPast, Past
  <2>2. DeadAreGone'
    <3>1. seen[r][CHOOSE n \in Nodes : seen[r][n] = l] = l /\ Past(l)
      BY <1>8 DEF JudgeLease, Unknown, RowsPast, ChunkType
    <3>2. phase' = phase /\ pointed' = pointed
      BY <1>8 DEF JudgeLease
    <3>3. \A q \in Runs : item'[q] = "live" => item[q] = "live"
      BY <1>8 DEF JudgeLease
    <3>4. dead' = dead \/ (dead' = [dead EXCEPT ![r] = @ \cup {l}] /\ item'[l] # "live")
      BY <1>8 DEF JudgeLease
    <3>a. dead \in [Runs -> SUBSET Runs]
      OBVIOUS
    <3>b. ASSUME NEW q \in Runs
          PROVE  dead'[q] = dead[q] \/ (dead'[q] = dead[q] \cup {l} /\ item'[l] # "live")
      <4> HIDE DEF TypeOK, HoldInv
      <4> QED
        BY <3>4, <3>a
    <3>5. \A q \in Runs, k \in Runs : k \in dead'[q] => k \in dead[q] \/ (k = l /\ item'[l] # "live")
      BY <3>b
    <3>6. \A q \in Runs : dead[q] \subseteq dead'[q] /\ dead'[q] \subseteq Runs
      <4> SUFFICES ASSUME NEW q \in Runs
                   PROVE  dead[q] \subseteq dead'[q] /\ dead'[q] \subseteq Runs
        OBVIOUS
      <4>1. dead[q] \subseteq Runs
        BY <3>a
      <4> HIDE DEF TypeOK, HoldInv
      <4> QED
        BY <3>b, <4>1
    <3>7. \A q \in Runs : \A k \in dead'[q] : Past(k)' /\ item'[k] # "live"
      BY <3>1, <3>2, <3>3, <3>5, <3>6 DEF DeadAreGone, Past
    <3>8. \A q \in Runs, n \in Nodes :
             pointed'[q][n] # Nobody => pointed'[q][n] \in dead'[q] \cup {q}
      BY <3>2, <3>6 DEF DeadAreGone
    <3> QED
      BY <3>7, <3>8 DEF DeadAreGone
  <2>3. OwnsRows'
    <3>1. \A q \in Runs : item'[q] = "live" => item[q] = "live"
      BY <1>8 DEF JudgeLease
    <3>2. ASSUME NEW q \in Runs, NEW d \in Chunks PROVE chunk'[q][d].st = chunk[q][d].st
      <4>1. chunk[r][c] \in ChunkType
        OBVIOUS
      <4>2. [chunk[r][c] EXCEPT !.live = @ \cup {l}].st = chunk[r][c].st
        BY <4>1 DEF ChunkType
      <4>3. \/ chunk' = chunk
            \/ chunk' = [chunk EXCEPT ![r] = [chunk[r] EXCEPT
                            ![c] = [chunk[r][c] EXCEPT !.live = @ \cup {l}]]]
        BY <1>8 DEF JudgeLease
      <4>4. chunk \in [Runs -> [Chunks -> ChunkType]]
        OBVIOUS
      <4> DEFINE judged == [chunk[r][c] EXCEPT !.live = @ \cup {l}]
      <4> HIDE DEF TypeOK, HoldInv, judged
      <4>5. \/ chunk' = chunk
            \/ chunk' = [chunk EXCEPT ![r] = [chunk[r] EXCEPT ![c] = judged]]
        BY <4>3 DEF judged
      <4>6. chunk'[q][d] = chunk[q][d] \/ (q = r /\ d = c /\ chunk'[q][d] = judged)
        BY <4>4, <4>5
      <4> QED
        BY <4>2, <4>6 DEF judged
    <3>3. UNCHANGED <<row, headFence, fence, scope, phase, broken>>
      BY <1>8 DEF JudgeLease, history
    <3>4. \A q \in Runs : \A n \in Taken(q)' : n \in Taken(q)
      <4> SUFFICES ASSUME NEW q \in Runs, NEW n \in Taken(q)' PROVE n \in Taken(q)
        OBVIOUS
      <4> QED
        BY <3>2, <3>3 DEF Taken
    <3> QED
      BY <3>1, <3>3, <3>4 DEF OwnsRows
  <2>4. ChunksIdle'
    BY <1>8 DEF JudgeLease, Unknown, ChunksIdle
  <2> QED
    BY <2>1, <2>2, <2>3, <2>4 DEF HoldInv
<1>9. ASSUME NEW r \in Runs, NEW c \in Chunks, JudgeHolders(r, c) PROVE HoldInv'
  <2>1. RowsPast'
    BY <1>9 DEF JudgeHolders, Settle, Unknown, RowsPast, Past
  <2>2. DeadAreGone'
    BY <1>9 DEF JudgeHolders, Settle, Unknown, DeadAreGone, Past
  <2>3. OwnsRows'
    BY <1>9 DEF JudgeHolders, Settle, Unknown, OwnsRows, Taken
  <2>4. ChunksIdle'
    BY <1>9 DEF JudgeHolders, Settle, Unknown, ChunksIdle
  <2> QED
    BY <2>1, <2>2, <2>3, <2>4 DEF HoldInv
<1>10. ASSUME NEW r \in Runs, NEW c \in Chunks, SkipChunk(r, c) PROVE HoldInv'
  <2>1. RowsPast'
    BY <1>10 DEF SkipChunk, Settle, RowsPast, Past
  <2>2. DeadAreGone'
    BY <1>10 DEF SkipChunk, Settle, DeadAreGone, Past
  <2>3. OwnsRows'
    BY <1>10 DEF SkipChunk, Settle, OwnsRows, Taken
  <2>4. ChunksIdle'
    BY <1>10 DEF SkipChunk, Settle, ChunksIdle
  <2> QED
    BY <2>1, <2>2, <2>3, <2>4 DEF HoldInv
<1>11. ASSUME NEW r \in Runs, TakeChunks(r) PROVE HoldInv'
  <2>1. RowsPast'
    BY <1>11 DEF TakeChunks, DropTaking, Batches, FreshChunk, RowsPast, Past
  <2>2. DeadAreGone'
    BY <1>11 DEF TakeChunks, DropTaking, Batches, FreshChunk, DeadAreGone, Past
  <2>3. OwnsRows'
    <3> SUFFICES ASSUME NEW q \in Runs, item'[q] = "live", NEW n \in Taken(q)' \ broken'
                 PROVE  row'[n] = q /\ headFence'[n] = fence'[q]
      BY DEF OwnsRows
    <3>1. UNCHANGED <<item, row, headFence, fence, scope, broken>>
      BY <1>11 DEF TakeChunks
    <3>2. n \in Taken(q)
      <4>1. CASE q = r
        <5>1. phase'[q] # "claim" /\ n \in scope[q] /\ phase'[q] = "held"
          BY <1>11, <4>1, <3>1 DEF TakeChunks, Taken
        <5>2. PICK c \in Chunks : n \in c
          BY <5>1, ChunksAssumption
        <5>3. c \in Batches(r)
          BY <5>1, <5>2, <4>1 DEF Batches
        <5>4. chunk[r][c].st = "done"
          BY <1>11, <5>1, <5>3, <4>1 DEF TakeChunks
        <5> QED
          BY <1>11, <5>1, <5>2, <5>4, <4>1 DEF TakeChunks, Taken
      <4>2. CASE q # r
        BY <1>11, <4>2 DEF TakeChunks, DropTaking, Taken
      <4> QED
        BY <4>1, <4>2
    <3> QED
      BY <3>1, <3>2 DEF OwnsRows
  <2>4. ChunksIdle'
    BY <1>11 DEF TakeChunks, DropTaking, Batches, FreshChunk, ChunksIdle
  <2> QED
    BY <2>1, <2>2, <2>3, <2>4 DEF HoldInv
<1>12. ASSUME NEW r \in Runs, DropGrant(r) PROVE HoldInv'
  <2>1. RowsPast'
    BY <1>12 DEF DropGrant, DropLease, DeleteItem, RowsPast, Past
  <2>2. DeadAreGone'
    BY <1>12 DEF DropGrant, DropLease, DeleteItem, DeadAreGone, Past
  <2>3. OwnsRows'
    <3>1. \A q \in Runs : item'[q] = "live" => item[q] = "live"
      BY <1>12 DEF DropGrant, DeleteItem
    <3>2. UNCHANGED <<row, headFence, fence, broken, chunk>>
      BY <1>12 DEF DropGrant
    <3>3. \A q \in Runs : q # r => scope'[q] = scope[q] /\ phase'[q] = phase[q]
      BY <1>12 DEF DropGrant, DropLease
    <3>4. phase'[r] \notin {"claim", "held"}
      BY <1>12 DEF DropGrant
    <3>5. \A q \in Runs : \A n \in Taken(q)' : n \in Taken(q)
      <4> SUFFICES ASSUME NEW q \in Runs, NEW n \in Taken(q)' PROVE n \in Taken(q)
        OBVIOUS
      <4> QED
        BY <3>2, <3>3, <3>4 DEF Taken
    <3> QED
      BY <3>1, <3>2, <3>5 DEF OwnsRows
  <2>4. ChunksIdle'
    BY <1>12 DEF DropGrant, DropLease, DeleteItem, ChunksIdle
  <2> QED
    BY <2>1, <2>2, <2>3, <2>4 DEF HoldInv
<1>13. ASSUME NEW r \in Runs, ReleaseLease(r) PROVE HoldInv'
  <2>1. RowsPast'
    BY <1>13 DEF ReleaseLease, DeleteItem, RowsPast, Past
  <2>2. DeadAreGone'
    BY <1>13 DEF ReleaseLease, DeleteItem, DeadAreGone, Past
  <2>3. OwnsRows'
    BY <1>13 DEF ReleaseLease, DeleteItem, OwnsRows, Taken
  <2>4. ChunksIdle'
    BY <1>13 DEF ReleaseLease, DeleteItem, ChunksIdle
  <2> QED
    BY <2>1, <2>2, <2>3, <2>4 DEF HoldInv
<1>14. ASSUME NEW r \in Runs, NEW n \in Nodes, ReleaseRow(r, n) PROVE HoldInv'
  <2>1. RowsPast'
    BY <1>14 DEF ReleaseRow, RowsPast, Past
  <2>2. DeadAreGone'
    BY <1>14 DEF ReleaseRow, DeadAreGone, Past
  <2>3. OwnsRows'
    BY <1>14 DEF ReleaseRow, OwnsRows, Taken
  <2>4. ChunksIdle'
    BY <1>14 DEF ReleaseRow, ChunksIdle
  <2> QED
    BY <2>1, <2>2, <2>3, <2>4 DEF HoldInv
<1>15. ASSUME NEW r \in Runs, RowsReleased(r) PROVE HoldInv'
  <2>1. RowsPast'
    BY <1>15 DEF RowsReleased, DropLease, RowsPast, Past
  <2>2. DeadAreGone'
    BY <1>15 DEF RowsReleased, DropLease, DeadAreGone, Past
  <2>3. OwnsRows'
    BY <1>15 DEF RowsReleased, DropLease, OwnsRows, Taken
  <2>4. ChunksIdle'
    BY <1>15 DEF RowsReleased, DropLease, ChunksIdle
  <2> QED
    BY <2>1, <2>2, <2>3, <2>4 DEF HoldInv
<1>16. ASSUME NEW r \in Runs, Crash(r) PROVE HoldInv'
  <2>1. RowsPast'
    BY <1>16 DEF Crash, DropTaking, DropLease, FreshChunk, RowsPast, Past
  <2>2. DeadAreGone'
    BY <1>16 DEF Crash, DropTaking, DropLease, FreshChunk, DeadAreGone, Past
  <2>3. OwnsRows'
    BY <1>16 DEF Crash, DropTaking, DropLease, FreshChunk, OwnsRows, Taken
  <2>4. ChunksIdle'
    BY <1>16 DEF Crash, DropTaking, DropLease, FreshChunk, ChunksIdle
  <2> QED
    BY <2>1, <2>2, <2>3, <2>4 DEF HoldInv
<1>17. ASSUME NEW r \in Runs, Renew(r) PROVE HoldInv'
  <2>1. RowsPast'
    BY <1>17 DEF Renew, RowsPast, Past
  <2>2. DeadAreGone'
    BY <1>17 DEF Renew, DeadAreGone, Past
  <2>3. OwnsRows'
    BY <1>17 DEF Renew, OwnsRows, Taken
  <2>4. ChunksIdle'
    BY <1>17 DEF Renew, ChunksIdle
  <2> QED
    BY <2>1, <2>2, <2>3, <2>4 DEF HoldInv
<1>18. ASSUME NEW r \in Runs, RenewRefused(r) PROVE HoldInv'
  <2>1. RowsPast'
    BY <1>18 DEF RenewRefused, RowsPast, Past
  <2>2. DeadAreGone'
    BY <1>18 DEF RenewRefused, DeadAreGone, Past
  <2>3. OwnsRows'
    BY <1>18 DEF RenewRefused, OwnsRows, Taken
  <2>4. ChunksIdle'
    BY <1>18 DEF RenewRefused, ChunksIdle
  <2> QED
    BY <2>1, <2>2, <2>3, <2>4 DEF HoldInv
<1>19. ASSUME NEW r \in Runs, NEW n \in Nodes, StartWrite(r, n) PROVE HoldInv'
  <2>1. RowsPast'
    BY <1>19 DEF StartWrite, RowsPast, Past
  <2>2. DeadAreGone'
    BY <1>19 DEF StartWrite, DeadAreGone, Past
  <2>3. OwnsRows'
    BY <1>19 DEF StartWrite, OwnsRows, Taken
  <2>4. ChunksIdle'
    BY <1>19 DEF StartWrite, ChunksIdle
  <2> QED
    BY <2>1, <2>2, <2>3, <2>4 DEF HoldInv
<1>20. ASSUME NEW r \in Runs, NEW n \in Nodes, Commit(r, n) PROVE HoldInv'
  <2>1. RowsPast'
    BY <1>20 DEF Commit, RowsPast, Past
  <2>2. DeadAreGone'
    BY <1>20 DEF Commit, DeadAreGone, Past
  <2>3. OwnsRows'
    BY <1>20 DEF Commit, OwnsRows, Taken
  <2>4. ChunksIdle'
    BY <1>20 DEF Commit, ChunksIdle
  <2> QED
    BY <2>1, <2>2, <2>3, <2>4 DEF HoldInv
<1>21. ASSUME NEW n \in Nodes, ForceUnlock(n) PROVE HoldInv'
  <2>1. RowsPast'
    BY <1>21 DEF ForceUnlock, RowsPast, Past
  <2>2. DeadAreGone'
    BY <1>21 DEF ForceUnlock, DeadAreGone, Past
  <2>3. OwnsRows'
    BY <1>21 DEF ForceUnlock, OwnsRows, Taken
  <2>4. ChunksIdle'
    BY <1>21 DEF ForceUnlock, ChunksIdle
  <2> QED
    BY <2>1, <2>2, <2>3, <2>4 DEF HoldInv
<1>22. ASSUME NEW r \in Runs, Reap(r) PROVE HoldInv'
  <2>1. RowsPast'
    BY <1>22 DEF Reap, DeleteItem, RowsPast, Past
  <2>2. DeadAreGone'
    BY <1>22 DEF Reap, DeleteItem, DeadAreGone, Past
  <2>3. OwnsRows'
    BY <1>22 DEF Reap, DeleteItem, OwnsRows, Taken
  <2>4. ChunksIdle'
    BY <1>22 DEF Reap, DeleteItem, ChunksIdle
  <2> QED
    BY <2>1, <2>2, <2>3, <2>4 DEF HoldInv
<1>23. CASE Tick
  BY <1>23 DEF Tick, ChunksIdle, DeadAreGone, OwnsRows, Past, RowsPast, Taken
<1>24. CASE UNCHANGED vars
  BY <1>24 DEF vars, ChunksIdle, DeadAreGone, OwnsRows, Past, RowsPast, Taken
<1> QED
  BY <1>1, <1>2, <1>3, <1>4, <1>5, <1>6, <1>7, <1>8, <1>9, <1>10, <1>11, <1>12, <1>13, <1>14, <1>15, <1>16, <1>17, <1>18, <1>19, <1>20, <1>21, <1>22, <1>23, <1>24
  DEF Next, Acquire, GiveBack, Hold

LEMMA HoldInit == Init => GrantedIsHead /\ HoldInv
  BY DEF Init, GrantedIsHead, HoldInv, RowsPast, DeadAreGone, OwnsRows, ChunksIdle, Taken, Past,
         FreshChunk

\* The two invariants hold in every reachable state.
LEMMA Holds == Spec => [](TypeOK /\ GrantedIsHead /\ HoldInv)
  BY TypeInit, TypeStep, HoldInit, GrantedStep, HoldStep, PTL DEF Spec

\* Mutual exclusion of the S3 lock table, for any number of runs, nodes and
\* chunks: two granted, unrevoked leases share only nodes an operator broke.
THEOREM MutualExclusion == Spec => []Exclusive
<1>1. TypeOK /\ HoldInv => Exclusive
  <2> SUFFICES ASSUME TypeOK, HoldInv,
                      NEW r \in Runs, NEW s \in Runs, r # s, Live(r), Live(s),
                      NEW n \in scope[r] \cap scope[s]
               PROVE  n \in broken
    BY DEF Exclusive
  <2>1. n \in Taken(r) /\ n \in Taken(s)
    BY DEF Live, Taken
  <2>2. n \notin broken => row[n] = r /\ row[n] = s
    BY <2>1 DEF HoldInv, OwnsRows, Live
  <2> QED
    BY <2>2
<1> QED
  BY <1>1, Holds, PTL

\* A renewal that the lock table accepts proves the lease was never taken from.
THEOREM RenewalSound == Spec => RenewalMeansUntouched
<1>1. TypeOK /\ HoldInv =>
        [\A r \in Runs : Renew(r) =>
            \A n \in scope[r] \ broken : headFence[n] = fence[r]]_vars
  BY DEF HoldInv, OwnsRows, Taken, Renew
<1> QED
  BY <1>1, Holds, PTL DEF RenewalMeansUntouched

\* A delayed commit never lands over a newer grant of its node.
THEOREM StaleCommitRefused == Spec => NewestHolderWrites
<1>1. TypeOK /\ GrantedIsHead /\ [Next]_vars =>
        [\A n \in Nodes : written'[n] # written[n] => written'[n] >= granted[n]]_vars
  <2> SUFFICES ASSUME TypeOK, GrantedIsHead, Next, NEW n \in Nodes, written'[n] # written[n]
               PROVE  written'[n] >= granted[n]
    BY DEF vars, table
  <2>1. PICK r \in Runs, m \in Nodes : Commit(r, m)
    <3>1. ASSUME NEW r \in Runs, Acquire(r) PROVE written' = written
      BY <3>1 DEF Acquire, TakeScope, NextFence, PutLease, TakeChunk, RefuseChunk, RowsRefused,
                  ReadRows, JudgeLease, JudgeHolders, SkipChunk, TakeChunks, table
    <3>2. ASSUME NEW r \in Runs, GiveBack(r) PROVE written' = written
      BY <3>2 DEF GiveBack, DropGrant, ReleaseLease, ReleaseRow, RowsReleased, Crash, table
    <3>3. ASSUME NEW r \in Runs, Renew(r) \/ RenewRefused(r) \/ Reap(r) PROVE written' = written
      BY <3>3 DEF Renew, RenewRefused, Reap, table
    <3>4. ASSUME NEW r \in Runs, NEW m \in Nodes, StartWrite(r, m) PROVE written' = written
      BY <3>4 DEF StartWrite, table
    <3>5. ASSUME NEW m \in Nodes, ForceUnlock(m) \/ Tick PROVE written' = written
      BY <3>5 DEF ForceUnlock, Tick, table
    <3> QED
      BY <3>1, <3>2, <3>3, <3>4, <3>5 DEF Next, Hold
  <2>2. m = n /\ written'[n] = fence[r] /\ headFence[n] = fence[r]
    BY <2>1 DEF Commit, HeadAccepts, TypeOK
  <2>3. granted[n] = headFence[n] /\ granted[n] \in Nat
    BY DEF GrantedIsHead, TypeOK
  <2> QED
    BY <2>2, <2>3
<1> QED
  BY <1>1, Holds, PTL DEF NewestHolderWrites, Spec

\* A lease is only lost after it lapsed on its holder's own clock.
LEMMA TimeStep == TypeOK /\ TimeInv /\ [Next]_vars => TimeInv'
<1> SUFFICES ASSUME TypeOK, TimeInv, [Next]_vars PROVE TimeInv'
  OBVIOUS
<1> USE TimeAssumption, SkewAssumption DEF TypeOK, TimeInv, Clock, table, taking, history
<1>1. ASSUME NEW r \in Runs, NEW s \in Scopes, TakeScope(r, s) PROVE TimeInv'
  BY <1>1 DEF TakeScope
<1>2. ASSUME NEW r \in Runs, NextFence(r) PROVE TimeInv'
  BY <1>2 DEF NextFence
<1>3. ASSUME NEW r \in Runs, PutLease(r) PROVE TimeInv'
  BY <1>3 DEF PutLease
<1>4. ASSUME NEW r \in Runs, NEW c \in Chunks, TakeChunk(r, c) PROVE TimeInv'
  BY <1>4 DEF TakeChunk, ClaimItems, Settle, Trying, RowRefused, AllowedFor, Batch
<1>5. ASSUME NEW r \in Runs, NEW c \in Chunks, RefuseChunk(r, c) PROVE TimeInv'
  BY <1>5 DEF RefuseChunk, Settle
<1>6. ASSUME NEW r \in Runs, NEW c \in Chunks, RowsRefused(r, c) PROVE TimeInv'
  BY <1>6 DEF RowsRefused
<1>7. ASSUME NEW r \in Runs, NEW c \in Chunks, ReadRows(r, c) PROVE TimeInv'
  BY <1>7 DEF ReadRows, Settle
<1>8. ASSUME NEW r \in Runs, NEW c \in Chunks, NEW l \in Runs, JudgeLease(r, c, l) PROVE TimeInv'
  <2> SUFFICES ASSUME NEW q \in Runs
               PROVE  phase[q] \in {"claim", "held"} =>
                         IF item'[q] = "live" THEN expires[q] <= expiry[q]
                                              ELSE expires[q] < Clock(q)
    BY <1>8 DEF JudgeLease
  <2>1. item' = item \/ (item' = [item EXCEPT ![l] = "revoked"] /\ item[l] = "live" /\ Lapsed(l, began[r]))
    BY <1>8 DEF JudgeLease
  <2>2. phase[r] = "claim"
    BY <1>8 DEF JudgeLease
  <2>3. CASE item' # item /\ q = l
    <3>1. began[r] <= now + Skew[r] /\ Skew[r] - Skew[l] <= SkewMargin
      BY <2>2
    <3>2. expiry[l] < began[r] - SkewMargin
      BY <2>1, <2>3 DEF Lapsed
    <3>3. phase[l] \in {"claim", "held"} => expires[l] <= expiry[l]
      BY <2>1, <2>3
    <3>4. /\ now \in Int /\ Skew[r] \in Int /\ Skew[l] \in Int /\ expiry[l] \in Int
          /\ expires[l] \in Int /\ began[r] \in Int /\ SkewMargin \in Int
      OBVIOUS
    <3>5. expiry[l] < now + Skew[l]
      <4> HIDE DEF TypeOK, TimeInv
      <4> QED
        BY <3>1, <3>2, <3>4
    <3>6. phase[q] \in {"claim", "held"} => expires[q] < Clock(q)
      <4> HIDE DEF TypeOK, TimeInv
      <4> QED
        BY <3>3, <3>4, <3>5, <2>3 DEF Clock
    <3>7. item'[q] # "live"
      BY <2>1, <2>3
    <3> QED
      BY <3>6, <3>7
  <2>4. CASE ~(item' # item /\ q = l)
    <3>1. item'[q] = item[q]
      BY <2>1, <2>4
    <3> QED
      BY <3>1
  <2> QED
    BY <2>3, <2>4
<1>9. ASSUME NEW r \in Runs, NEW c \in Chunks, JudgeHolders(r, c) PROVE TimeInv'
  BY <1>9 DEF JudgeHolders, Settle, Unknown
<1>10. ASSUME NEW r \in Runs, NEW c \in Chunks, SkipChunk(r, c) PROVE TimeInv'
  BY <1>10 DEF SkipChunk, Settle
<1>11. ASSUME NEW r \in Runs, TakeChunks(r) PROVE TimeInv'
  BY <1>11 DEF TakeChunks, DropTaking, Batches, FreshChunk
<1>12. ASSUME NEW r \in Runs, DropGrant(r) PROVE TimeInv'
  BY <1>12 DEF DropGrant, DropLease, DeleteItem
<1>13. ASSUME NEW r \in Runs, ReleaseLease(r) PROVE TimeInv'
  BY <1>13 DEF ReleaseLease, DeleteItem
<1>14. ASSUME NEW r \in Runs, NEW n \in Nodes, ReleaseRow(r, n) PROVE TimeInv'
  BY <1>14 DEF ReleaseRow
<1>15. ASSUME NEW r \in Runs, RowsReleased(r) PROVE TimeInv'
  BY <1>15 DEF RowsReleased, DropLease
<1>16. ASSUME NEW r \in Runs, Crash(r) PROVE TimeInv'
  BY <1>16 DEF Crash, DropTaking, DropLease, FreshChunk
<1>17. ASSUME NEW r \in Runs, Renew(r) PROVE TimeInv'
  BY <1>17 DEF Renew
<1>18. ASSUME NEW r \in Runs, RenewRefused(r) PROVE TimeInv'
  BY <1>18 DEF RenewRefused
<1>19. ASSUME NEW r \in Runs, NEW n \in Nodes, StartWrite(r, n) PROVE TimeInv'
  BY <1>19 DEF StartWrite
<1>20. ASSUME NEW r \in Runs, NEW n \in Nodes, Commit(r, n) PROVE TimeInv'
  BY <1>20 DEF Commit
<1>21. ASSUME NEW n \in Nodes, ForceUnlock(n) PROVE TimeInv'
  BY <1>21 DEF ForceUnlock
<1>22. ASSUME NEW r \in Runs, Reap(r) PROVE TimeInv'
  BY <1>22 DEF Reap, DeleteItem
<1>23. CASE Tick
  BY <1>23 DEF Tick
<1>24. CASE UNCHANGED vars
  BY <1>24 DEF vars
<1> QED
  BY <1>1, <1>2, <1>3, <1>4, <1>5, <1>6, <1>7, <1>8, <1>9, <1>10, <1>11, <1>12, <1>13, <1>14, <1>15, <1>16, <1>17, <1>18, <1>19, <1>20, <1>21, <1>22, <1>23, <1>24
  DEF Next, Acquire, GiveBack, Hold

\* Within the lease it was told of, by its own clock and whatever the skew
\* inside the margin, a run still holds its lease item and every head is at
\* its fence: none of its commits is refused.
THEOREM LeaseIsGood == Spec => []WithinLeaseCanWrite
<1>1. Init => TimeInv
  BY TimeAssumption DEF Init, TimeInv
<1>2. Spec => []TimeInv
  BY <1>1, TimeStep, Holds, PTL DEF Spec
<1>3. TypeOK /\ HoldInv /\ TimeInv => WithinLeaseCanWrite
  <2> SUFFICES ASSUME TypeOK, HoldInv, TimeInv, NEW r \in Runs,
                      phase[r] = "held", Clock(r) <= expires[r]
               PROVE  /\ item[r] = "live"
                      /\ \A n \in scope[r] \ broken : headFence[n] = fence[r]
    BY DEF WithinLeaseCanWrite
  <2>1. item[r] = "live"
    BY TimeAssumption DEF TimeInv, TypeOK, Clock
  <2> QED
    BY <2>1 DEF HoldInv, OwnsRows, Taken
<1> QED
  BY <1>2, <1>3, Holds, PTL
=============================================================================
