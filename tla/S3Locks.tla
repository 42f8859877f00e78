------------------------------ MODULE S3Locks ------------------------------
(***************************************************************************)
(* The lock table of the S3/DynamoDB state backend: how a run takes,       *)
(* renews, loses and releases a lease over a set of node ids, and how the  *)
(* fence on a node's journal head decides which run's write lands.         *)
(*                                                                         *)
(* Sources: atlantide/state/s3/{lock_table,acquire,lease_items,fences}.py, *)
(* the fenced commit of writes.py, and the LeaseGuard of state/leases.py.  *)
(*                                                                         *)
(* Every acquisition makes a fresh owner token (engine/locking.py,         *)
(* lock_owner) and a fresh lease id, and a run acquires once, so a run,    *)
(* its owner and its lease id are one identifier here: a member of Runs.   *)
(* A DynamoDB call is one atomic step; everything between two calls may    *)
(* interleave with any step of another run, and with a run's own other     *)
(* chunks, which the code claims from a thread pool.                       *)
(***************************************************************************)
EXTENDS Integers, FiniteSets

CONSTANTS
    Runs,          \* lease acquisitions, one owner token each
    Nodes,         \* node ids that can be locked
    Scopes,        \* the sets of node ids a run may ask for
    Chunks,        \* how a sorted scope is batched into transactions: a partition of Nodes
    Nobody,        \* "no lease": a free row
    Skew,          \* a run's clock minus DynamoDB's, per run
    TTL,           \* LockPolicy.ttl
    SkewMargin,    \* lock_skew_margin
    Grace,         \* LockPolicy.renew_grace
    DDBAttempts,   \* limits.DDB_ATTEMPTS: tries of one chunk's transaction
    MaxCrashes,    \* bound: how many runs die
    MaxTime,       \* bound: the last instant of the clock
    MaxUnlocks     \* bound: how many rows an operator breaks

ASSUME RunsAssumption == Nobody \notin Runs
ASSUME ChunksAssumption ==
    /\ Scopes \subseteq (SUBSET Nodes) \ {{}}
    /\ Chunks \subseteq SUBSET Nodes
    /\ UNION Chunks = Nodes
    /\ \A c, d \in Chunks : c # d => c \cap d = {}
ASSUME TimeAssumption ==
    /\ {TTL, SkewMargin, Grace, DDBAttempts, MaxCrashes, MaxTime, MaxUnlocks} \subseteq Nat
    /\ Skew \in [Runs -> Int]
\* The margin is configured to cover the clocks' disagreement, pairwise and
\* with the store's reaper.
ASSUME SkewAssumption ==
    \A r, s \in Runs : Skew[r] - Skew[s] <= SkewMargin /\ -Skew[r] <= SkewMargin

VARIABLES
    now,        \* DynamoDB's clock
    counter,    \* the fence counter item
    item,       \* a run's lease item: "absent", "live" or "revoked"
    expiry,     \* the item's lease_expires_at
    row,        \* a node's lock row: the lease it points at, or Nobody
    headFence,  \* the fence on a node's journal head; 0 before any claim
    written,    \* the fence stamped on a node's last committed entry
    phase,      \* where a run is
    scope,      \* the node ids a run locks
    fence,      \* a run's minted fence; 0 before
    began,      \* Takeover.now: the run's clock when its acquire started
    expires,    \* Lease.expires_at as the run last heard it
    chunk,      \* per chunk of a run: progress of its claim
    seen,       \* a refused row as judge_holders read it
    pointed,    \* Takeover.pointed
    dead,       \* Takeover.dead
    todo,       \* rows a run has still to delete (undo, release)
    inflight,   \* commits sent and not yet applied or refused
    granted,    \* history: the newest lease that ever took a node, by its fence
    broken,     \* history: nodes whose hold an operator broke
    unlocks     \* rows broken so far

table == <<counter, item, expiry, row, headFence, written>>
taking == <<chunk, seen, pointed, dead>>
history == <<granted, broken, unlocks>>
vars == <<now, table, phase, scope, fence, began, expires, taking, todo,
          inflight, history>>

Phases == {"idle", "mint", "put", "claim", "undo", "undoRows", "held", "lost",
           "releaseRows", "done", "crashed"}
ChunkStates == {"todo", "try", "read", "judge", "done", "refused", "error", "skipped"}
ChunkType == [st: ChunkStates, left: 0..DDBAttempts, rows: SUBSET Nodes, live: SUBSET Runs]
FreshChunk == [st |-> "todo", left |-> DDBAttempts, rows |-> {}, live |-> {}]

\* The lock table, the leases and every chunk's progress keep their types.
TypeOK ==
    /\ now \in 0..MaxTime
    /\ counter \in Nat
    /\ item \in [Runs -> {"absent", "live", "revoked"}]
    /\ expiry \in [Runs -> Int]
    /\ row \in [Nodes -> Runs \cup {Nobody}]
    /\ headFence \in [Nodes -> Nat]
    /\ written \in [Nodes -> Nat]
    /\ phase \in [Runs -> Phases]
    /\ scope \in [Runs -> SUBSET Nodes]
    /\ fence \in [Runs -> Nat]
    /\ began \in [Runs -> Int]
    /\ expires \in [Runs -> Int]
    /\ chunk \in [Runs -> [Chunks -> ChunkType]]
    /\ seen \in [Runs -> [Nodes -> Runs \cup {Nobody}]]
    /\ pointed \in [Runs -> [Nodes -> Runs \cup {Nobody}]]
    /\ dead \in [Runs -> SUBSET Runs]
    /\ todo \in [Runs -> SUBSET Nodes]
    /\ inflight \in [Runs -> SUBSET Nodes]
    /\ granted \in [Nodes -> Nat]
    /\ broken \in SUBSET Nodes
    /\ unlocks \in 0..MaxUnlocks

Init ==
    /\ now = 0
    /\ counter = 0
    /\ item = [r \in Runs |-> "absent"]
    /\ expiry = [r \in Runs |-> 0]
    /\ row = [n \in Nodes |-> Nobody]
    /\ headFence = [n \in Nodes |-> 0]
    /\ written = [n \in Nodes |-> 0]
    /\ phase = [r \in Runs |-> "idle"]
    /\ scope = [r \in Runs |-> {}]
    /\ fence = [r \in Runs |-> 0]
    /\ began = [r \in Runs |-> 0]
    /\ expires = [r \in Runs |-> 0]
    /\ chunk = [r \in Runs |-> [c \in Chunks |-> FreshChunk]]
    /\ seen = [r \in Runs |-> [n \in Nodes |-> Nobody]]
    /\ pointed = [r \in Runs |-> [n \in Nodes |-> Nobody]]
    /\ dead = [r \in Runs |-> {}]
    /\ todo = [r \in Runs |-> {}]
    /\ inflight = [r \in Runs |-> {}]
    /\ granted = [n \in Nodes |-> 0]
    /\ broken = {}
    /\ unlocks = 0

\* A run's own wall clock.
Clock(r) == now + Skew[r]

----------------------------------------------------------------------------
(* Acquire: mint a fence, write the lease item, claim the rows.            *)

\* take_scope reads the clock once; judging leases later uses this reading.
TakeScope(r, s) ==
    /\ phase[r] = "idle"
    /\ phase' = [phase EXCEPT ![r] = "mint"]
    /\ scope' = [scope EXCEPT ![r] = s]
    /\ began' = [began EXCEPT ![r] = Clock(r)]
    /\ expires' = [expires EXCEPT ![r] = Clock(r) + TTL]
    /\ UNCHANGED <<now, table, fence, taking, todo, inflight, history>>

\* One atomic counter update.
NextFence(r) ==
    /\ phase[r] = "mint"
    /\ counter' = counter + 1
    /\ fence' = [fence EXCEPT ![r] = counter + 1]
    /\ phase' = [phase EXCEPT ![r] = "put"]
    /\ UNCHANGED <<now, item, expiry, row, headFence, written, scope, began,
                   expires, taking, todo, inflight, history>>

PutLease(r) ==
    /\ phase[r] = "put"
    /\ item' = [item EXCEPT ![r] = "live"]
    /\ expiry' = [expiry EXCEPT ![r] = expires[r]]
    /\ phase' = [phase EXCEPT ![r] = "claim"]
    /\ UNCHANGED <<now, counter, row, headFence, written, scope, fence, began,
                   expires, taking, todo, inflight, history>>

\* The chunks of a run's scope, and the nodes one of them claims.
Batches(r) == {c \in Chunks : c \cap scope[r] # {}}
Batch(r, c) == c \cap scope[r]

\* The leases n's row may point at for r to take it. The code keeps the last
\* SHARED_ALLOWED of dead; a shorter list costs another attempt, nothing else.
AllowedFor(r, n) ==
    {r} \cup (IF pointed[r][n] # Nobody THEN {pointed[r][n]} ELSE dead[r])

\* The conditions of claim_items on one node's row and head.
RowIgnored(r, n) == FALSE
RowRefused(r, n) == row[n] # Nobody /\ row[n] \notin AllowedFor(r, n)
HeadRefused(r, n) == headFence[n] > fence[r]

Settle(r, c, st) == chunk' = [chunk EXCEPT ![r][c].st = st]

\* The transaction applies to every row and head of the batch.
ClaimItems(r, b) ==
    /\ row' = [n \in Nodes |-> IF n \in b THEN r ELSE row[n]]
    /\ headFence' = [n \in Nodes |-> IF n \in b THEN fence[r] ELSE headFence[n]]
    /\ granted' = [n \in Nodes |-> IF n \in b /\ granted[n] < fence[r]
                                  THEN fence[r] ELSE granted[n]]

Trying(r, c) ==
    /\ phase[r] = "claim"
    /\ c \in Batches(r)
    /\ chunk[r][c].st \in {"todo", "try"}

\* One transaction of take_chunk, every condition met. A transport error after
\* it applied ("error") reports failure although the rows were taken.
TakeChunk(r, c) ==
    /\ Trying(r, c)
    /\ chunk[r][c].left > 0
    /\ \A n \in Batch(r, c) : ~RowRefused(r, n) /\ ~HeadRefused(r, n)
    /\ ClaimItems(r, Batch(r, c))
    /\ \E st \in {"done", "error"} : Settle(r, c, st)
    /\ UNCHANGED <<now, counter, item, expiry, written, phase, scope, fence,
                   began, expires, seen, pointed, dead, todo, inflight, broken, unlocks>>

\* take_chunk gives up without writing: a head at a newer fence, or its budget
\* of attempts gone (or spent on transient cancellations).
RefuseChunk(r, c) ==
    /\ Trying(r, c)
    /\ \/ \E n \in Batch(r, c) : HeadRefused(r, n)
       \/ chunk[r][c].left = 0
       \/ chunk[r][c].st = "todo"
    /\ Settle(r, c, "refused")
    /\ UNCHANGED <<now, table, phase, scope, fence, began, expires, seen,
                   pointed, dead, todo, inflight, history>>

\* The transaction fails on rows alone: they are to be read and judged.
RowsRefused(r, c) ==
    LET rows == {n \in Batch(r, c) : RowRefused(r, n)}
    IN /\ Trying(r, c)
       /\ chunk[r][c].left > 0
       /\ rows # {}
       /\ \A n \in Batch(r, c) : ~HeadRefused(r, n)
       /\ chunk' = [chunk EXCEPT ![r][c] = [st |-> "read", left |-> @.left - 1,
                                            rows |-> rows, live |-> {}]]
       /\ UNCHANGED <<now, table, phase, scope, fence, began, expires, seen,
                      pointed, dead, todo, inflight, history>>

\* judge_holders reads the refused rows.
ReadRows(r, c) ==
    /\ phase[r] = "claim"
    /\ chunk[r][c].st = "read"
    /\ seen' = [seen EXCEPT ![r] = [n \in Nodes |->
                    IF n \in chunk[r][c].rows THEN row[n] ELSE @[n]]]
    /\ Settle(r, c, "judge")
    /\ UNCHANGED <<now, table, phase, scope, fence, began, expires, pointed,
                   dead, todo, inflight, history>>

\* The leases the read rows point at that this acquire has not yet judged.
Unknown(r, c) ==
    {seen[r][n] : n \in chunk[r][c].rows} \ ({Nobody, r} \cup dead[r] \cup chunk[r][c].live)

\* A lease a taker may revoke: lapsed for longer than the margin.
LapsedNoMargin(l, at) == expiry[l] < at
Lapsed(l, at) == expiry[l] < at - SkewMargin

\* Mutant: a lapsed lease is taken from without being revoked.
JudgeLeaseUnrevoked(r, c, l) ==
    /\ phase[r] = "claim"
    /\ chunk[r][c].st = "judge"
    /\ l \in Unknown(r, c)
    /\ \/ /\ item[l] \in {"absent", "revoked"}
          /\ dead' = [dead EXCEPT ![r] = @ \cup {l}]
          /\ UNCHANGED <<item, chunk>>
       \/ /\ item[l] = "live"
          /\ ~Lapsed(l, began[r])
          /\ chunk' = [chunk EXCEPT ![r][c].live = @ \cup {l}]
          /\ UNCHANGED <<item, dead>>
       \/ /\ item[l] = "live"
          /\ Lapsed(l, began[r])
          /\ dead' = [dead EXCEPT ![r] = @ \cup {l}]
          /\ UNCHANGED <<item, chunk>>
    /\ UNCHANGED <<now, counter, expiry, row, headFence, written, phase, scope,
                   fence, began, expires, seen, pointed, todo, inflight, history>>

\* judge_lease and revoke. Reading the item and revoking it are two calls, but
\* the revoke repeats every test except the permanent ones (gone, revoked), so
\* deciding at the revoke's instant gives each outcome the two calls can.
JudgeLease(r, c, l) ==
    /\ phase[r] = "claim"
    /\ chunk[r][c].st = "judge"
    /\ l \in Unknown(r, c)
    /\ \/ /\ item[l] \in {"absent", "revoked"}
          /\ dead' = [dead EXCEPT ![r] = @ \cup {l}]
          /\ UNCHANGED <<item, chunk>>
       \/ /\ item[l] = "live"
          /\ ~Lapsed(l, began[r])
          /\ chunk' = [chunk EXCEPT ![r][c].live = @ \cup {l}]
          /\ UNCHANGED <<item, dead>>
       \/ /\ item[l] = "live"
          /\ Lapsed(l, began[r])
          /\ item' = [item EXCEPT ![l] = "revoked"]
          /\ dead' = [dead EXCEPT ![r] = @ \cup {l}]
          /\ UNCHANGED chunk
    /\ UNCHANGED <<now, counter, expiry, row, headFence, written, phase, scope,
                   fence, began, expires, seen, pointed, todo, inflight, history>>

\* Every lease judged: a live one refuses the chunk, otherwise try again with
\* each row's lease allowed.
JudgeHolders(r, c) ==
    /\ phase[r] = "claim"
    /\ chunk[r][c].st = "judge"
    /\ Unknown(r, c) = {}
    /\ pointed' = [pointed EXCEPT ![r] = [n \in Nodes |->
                      IF /\ n \in chunk[r][c].rows
                         /\ seen[r][n] \notin chunk[r][c].live \cup {Nobody}
                      THEN seen[r][n] ELSE @[n]]]
    /\ Settle(r, c, IF chunk[r][c].live = {} THEN "try" ELSE "refused")
    /\ UNCHANGED <<now, table, phase, scope, fence, began, expires, seen, dead,
                   todo, inflight, history>>

\* run_chunks: a failed chunk makes those not started skip.
SkipChunk(r, c) ==
    /\ phase[r] = "claim"
    /\ c \in Batches(r)
    /\ chunk[r][c].st = "todo"
    /\ \E d \in Batches(r) : chunk[r][d].st \in {"refused", "error"}
    /\ Settle(r, c, "skipped")
    /\ UNCHANGED <<now, table, phase, scope, fence, began, expires, seen,
                   pointed, dead, todo, inflight, history>>

\* The acquire's locals are dropped when it returns.
DropTaking(r) ==
    /\ began' = [began EXCEPT ![r] = 0]
    /\ chunk' = [chunk EXCEPT ![r] = [c \in Chunks |-> FreshChunk]]
    /\ seen' = [seen EXCEPT ![r] = [n \in Nodes |-> Nobody]]
    /\ pointed' = [pointed EXCEPT ![r] = [n \in Nodes |-> Nobody]]
    /\ dead' = [dead EXCEPT ![r] = {}]

\* The nodes of the chunks that wrote, or may have written, their rows.
MaybeWritten(r) ==
    UNION {Batch(r, c) : c \in {d \in Batches(r) : chunk[r][d].st \in {"done", "error"}}}

\* take_chunks: all taken is the lease; anything else undoes the acquire.
TakeChunks(r) ==
    /\ phase[r] = "claim"
    /\ \A c \in Batches(r) : chunk[r][c].st \in {"done", "refused", "error", "skipped"}
    /\ IF \A c \in Batches(r) : chunk[r][c].st = "done"
       THEN /\ phase' = [phase EXCEPT ![r] = "held"]
            /\ todo' = todo
       ELSE /\ phase' = [phase EXCEPT ![r] = "undo"]
            /\ todo' = [todo EXCEPT ![r] = MaybeWritten(r)]
    /\ DropTaking(r)
    /\ UNCHANGED <<now, table, scope, fence, expires, inflight, history>>

----------------------------------------------------------------------------
(* Give back: a failed acquire, and a release.                             *)

\* The run is over: it holds no lease object any more.
DropLease(r) ==
    /\ scope' = [scope EXCEPT ![r] = {}]
    /\ expires' = [expires EXCEPT ![r] = 0]

\* A deleted lease item has no expiry.
DeleteItem(r) ==
    /\ item' = [item EXCEPT ![r] = "absent"]
    /\ expiry' = [expiry EXCEPT ![r] = 0]

\* drop_grant deletes the lease item first. When that call fails the rows are
\* left alone: they point at an item that will lapse.
DropGrant(r) ==
    /\ phase[r] = "undo"
    /\ \/ /\ DeleteItem(r)
          /\ phase' = [phase EXCEPT ![r] = "undoRows"]
          /\ UNCHANGED <<todo, scope, expires>>
       \/ /\ phase' = [phase EXCEPT ![r] = "done"]
          /\ todo' = [todo EXCEPT ![r] = {}]
          /\ DropLease(r)
          /\ UNCHANGED <<item, expiry>>
    /\ UNCHANGED <<now, counter, row, headFence, written, fence, began,
                   taking, inflight, history>>

\* LockTable.release after _unbind_and_release; its writes have settled. The
\* rows are deleted even when deleting the lease item fails.
ReleaseLease(r) ==
    /\ phase[r] \in {"held", "lost"}
    /\ inflight[r] = {}
    /\ DeleteItem(r) \/ UNCHANGED <<item, expiry>>
    /\ phase' = [phase EXCEPT ![r] = "releaseRows"]
    /\ todo' = [todo EXCEPT ![r] = scope[r]]
    /\ UNCHANGED <<now, counter, row, headFence, written, scope, fence,
                   began, expires, taking, inflight, history>>

\* A row is deleted only while it is still this owner's; a delete can fail.
ReleaseRow(r, n) ==
    /\ phase[r] \in {"undoRows", "releaseRows"}
    /\ n \in todo[r]
    /\ todo' = [todo EXCEPT ![r] = @ \ {n}]
    /\ \/ row' = row
       \/ /\ row[n] = r
          /\ row' = [row EXCEPT ![n] = Nobody]
    /\ UNCHANGED <<now, counter, item, expiry, headFence, written, phase, scope,
                   fence, began, expires, taking, inflight, history>>

RowsReleased(r) ==
    /\ phase[r] \in {"undoRows", "releaseRows"}
    /\ todo[r] = {}
    /\ phase' = [phase EXCEPT ![r] = "done"]
    /\ DropLease(r)
    /\ UNCHANGED <<now, table, fence, began, taking, todo, inflight, history>>

\* The process dies, leaving what it wrote; calls already sent may still land.
Crash(r) ==
    /\ phase[r] \notin {"idle", "done", "crashed"}
    /\ Cardinality({s \in Runs : phase[s] = "crashed"}) < MaxCrashes
    /\ phase' = [phase EXCEPT ![r] = "crashed"]
    /\ todo' = [todo EXCEPT ![r] = {}]
    /\ DropTaking(r)
    /\ DropLease(r)
    /\ UNCHANGED <<now, table, fence, inflight, history>>

----------------------------------------------------------------------------
(* Hold: renew, write.                                                     *)

\* extend: one conditional update that checks the owner, the fence and the
\* revoked mark, not the expiry. The response may be lost, and then the run
\* keeps the expiry it knew.
Renew(r) ==
    /\ phase[r] = "held"
    /\ item[r] = "live"
    /\ expiry' = [expiry EXCEPT ![r] = Clock(r) + TTL]
    /\ expires' \in {expires, [expires EXCEPT ![r] = Clock(r) + TTL]}
    /\ UNCHANGED <<now, counter, item, row, headFence, written, phase, scope,
                   fence, began, taking, todo, inflight, history>>

\* A refused renewal fails the guard and cancels the run.
RenewRefused(r) ==
    /\ phase[r] = "held"
    /\ item[r] # "live"
    /\ phase' = [phase EXCEPT ![r] = "lost"]
    /\ UNCHANGED <<now, table, scope, fence, began, expires, taking, todo,
                   inflight, history>>

\* LeaseGuard.check passes and the commit of one node write is sent.
StartWrite(r, n) ==
    /\ phase[r] = "held"
    /\ n \in scope[r] \ inflight[r]
    /\ expires[r] - Clock(r) > Grace
    /\ inflight' = [inflight EXCEPT ![r] = @ \cup {n}]
    /\ UNCHANGED <<now, table, phase, scope, fence, began, expires, taking,
                   todo, history>>

\* The head update's condition. Mutant: trust the lock row, as a backend
\* without fences would.
RowAccepts(r, n) == row[n] \in {r, Nobody}
HeadAccepts(r, n) == headFence[n] = fence[r]

\* The store applies the commit, however late, only at the lease's own fence.
Commit(r, n) ==
    /\ n \in inflight[r]
    /\ inflight' = [inflight EXCEPT ![r] = @ \ {n}]
    /\ written' = [written EXCEPT ![n] =
                       IF HeadAccepts(r, n) THEN fence[r] ELSE @]
    /\ UNCHANGED <<now, counter, item, expiry, row, headFence, phase, scope,
                   fence, began, expires, taking, todo, history>>

----------------------------------------------------------------------------
(* The operator, the reaper and time.                                      *)

\* force_unlock deletes rows; lease items and heads stay.
ForceUnlock(n) ==
    /\ unlocks < MaxUnlocks
    /\ row[n] # Nobody
    /\ unlocks' = unlocks + 1
    /\ broken' = broken \cup {n}
    /\ row' = [row EXCEPT ![n] = Nobody]
    /\ UNCHANGED <<now, counter, item, expiry, headFence, written, phase, scope,
                   fence, began, expires, taking, todo, inflight, granted>>

\* DynamoDB's TTL deletes a lease item once reap_at has passed.
Reap(r) ==
    /\ item[r] # "absent"
    /\ expiry[r] + SkewMargin < now
    /\ DeleteItem(r)
    /\ UNCHANGED <<now, counter, row, headFence, written, phase, scope,
                   fence, began, expires, taking, todo, inflight, history>>

Tick ==
    /\ now < MaxTime
    /\ now' = now + 1
    /\ UNCHANGED <<table, phase, scope, fence, began, expires, taking, todo,
                   inflight, history>>

Acquire(r) ==
    \/ \E s \in Scopes : TakeScope(r, s)
    \/ NextFence(r)
    \/ PutLease(r)
    \/ \E c \in Chunks : \/ TakeChunk(r, c)
                         \/ RefuseChunk(r, c)
                         \/ RowsRefused(r, c)
                         \/ ReadRows(r, c)
                         \/ \E l \in Runs : JudgeLease(r, c, l)
                         \/ JudgeHolders(r, c)
                         \/ SkipChunk(r, c)
    \/ TakeChunks(r)

GiveBack(r) ==
    \/ DropGrant(r)
    \/ ReleaseLease(r)
    \/ \E n \in Nodes : ReleaseRow(r, n)
    \/ RowsReleased(r)
    \/ Crash(r)

Hold(r) ==
    \/ Renew(r)
    \/ RenewRefused(r)
    \/ \E n \in Nodes : StartWrite(r, n) \/ Commit(r, n)

Next ==
    \/ \E r \in Runs : Acquire(r) \/ GiveBack(r) \/ Hold(r) \/ Reap(r)
    \/ \E n \in Nodes : ForceUnlock(n)
    \/ Tick

Spec == Init /\ [][Next]_vars

----------------------------------------------------------------------------
(* Properties.                                                             *)

\* A run's lease item is in the lock table and nobody revoked it.
Live(r) == phase[r] = "held" /\ item[r] = "live"

\* Two runs whose leases are both granted and unrevoked never share a node,
\* unless an operator broke one of the holds (acquire.py: a lapsed lease is
\* revoked before its rows are taken).
Exclusive ==
    \A r, s \in Runs : r # s /\ Live(r) /\ Live(s) =>
        scope[r] \cap scope[s] \subseteq broken

\* While a run's own clock is inside the lease it was told of, nobody has taken
\* it over: its item is live and its commits are accepted on every node that
\* was not broken by hand, whatever the clocks' skew within the margin.
WithinLeaseCanWrite ==
    \A r \in Runs : phase[r] = "held" /\ Clock(r) <= expires[r] =>
        /\ item[r] = "live"
        /\ \A n \in scope[r] \ broken : headFence[n] = fence[r]

\* A renewal that succeeds proves that no other run was granted one of the
\* lease's nodes since it was taken (lock_table.py renew: "a hold that lapsed,
\* was taken and was released again between two heartbeats still fails here").
RenewalMeansUntouched ==
    [][\A r \in Runs : Renew(r) =>
          \A n \in scope[r] \ broken : headFence[n] = fence[r]]_vars

\* A commit never lands after a newer lease was granted the node, however long
\* it was delayed and whatever happened to both leases since (writes.py commit).
NewestHolderWrites ==
    [][\A n \in Nodes : written'[n] # written[n] =>
          written'[n] >= granted[n]]_vars

----------------------------------------------------------------------------
(* The inductive invariants the proofs rest on (S3LocksProofs).             *)

\* The run has written its lease item (it may since be gone).
Past(l) == phase[l] \notin {"idle", "mint", "put"}

\* A head's fence is the newest lease ever granted the node.
GrantedIsHead == \A n \in Nodes : granted[n] = headFence[n]

\* Rows, and rows a taker read, only point at leases that were written.
RowsPast ==
    /\ \A n \in Nodes : row[n] # Nobody => Past(row[n])
    /\ \A r \in Runs, n \in Nodes : seen[r][n] # Nobody => Past(seen[r][n])

\* What a taker judged takeable stays so: gone and revoked are permanent.
DeadAreGone ==
    \A r \in Runs :
        /\ \A l \in dead[r] : Past(l) /\ item[l] # "live"
        /\ \A n \in Nodes : pointed[r][n] # Nobody => pointed[r][n] \in dead[r] \cup {r}

\* The nodes a run's acquire has taken and not started to give back.
Taken(r) ==
    {n \in scope[r] : \/ phase[r] = "held"
                      \/ /\ phase[r] = "claim"
                         /\ \E c \in Chunks : n \in c /\ chunk[r][c].st = "done"}

\* A live lease's rows and head fences are its own.
OwnsRows ==
    \A r \in Runs : item[r] = "live" =>
        \A n \in Taken(r) \ broken : row[n] = r /\ headFence[n] = fence[r]

\* Only an acquire in progress has chunks started.
ChunksIdle ==
    \A r \in Runs : phase[r] # "claim" => \A c \in Chunks : chunk[r][c].st = "todo"

HoldInv == RowsPast /\ DeadAreGone /\ OwnsRows /\ ChunksIdle

\* The clock readings a run holds are old, never ahead; the store's expiry is
\* never before the one the holder knows; a lease is only ever lost after it
\* lapsed on its holder's own clock.
TimeInv ==
    \A r \in Runs :
        /\ phase[r] \in {"mint", "put", "claim"} => began[r] <= Clock(r)
        /\ phase[r] \in {"mint", "put", "claim", "held"} => expires[r] <= Clock(r) + TTL
        /\ phase[r] \in {"claim", "held"} =>
              IF item[r] = "live" THEN expires[r] <= expiry[r] ELSE expires[r] < Clock(r)
=============================================================================
