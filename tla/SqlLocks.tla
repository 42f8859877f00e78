------------------------------ MODULE SqlLocks ------------------------------
(***************************************************************************)
(* The lock table of the backends that keep their holds next to the state: *)
(* memory, sqlite and postgres.  A run takes a row per node, renews, loses *)
(* or releases them; a write is judged against the rows inside its own     *)
(* transaction.                                                            *)
(*                                                                         *)
(* Sources: atlantide/state/{memory,fencing,leases}.py and                 *)
(* atlantide/state/sql/{sqlite,postgres}.py.                               *)
(*                                                                         *)
(* A run acquires once, under an owner token of its own, so a run and its  *)
(* owner are one identifier.  Sqlite's and the memory backend's calls are  *)
(* single steps (BEGIN IMMEDIATE, one machine, one clock).  On postgres    *)
(* (RowLocks) a call is two.  A write reads the rows it depends on FOR     *)
(* UPDATE and judges them, and later lands and commits.  An acquisition    *)
(* bumps the fence row, which keeps every other one out until it ends, and *)
(* reads the server's clock; later, when the writers that had its rows     *)
(* locked are through, it takes them, dated by the clock it read, and      *)
(* hands the run a lease dated by the clock it has by then.  The server's  *)
(* clock and the run's agree: what differs is when they are read.          *)
(***************************************************************************)
EXTENDS Integers, FiniteSets

CONSTANTS
    Runs,           \* owners
    Nodes,          \* node ids; each node is a stack of its own for its outputs
    Scopes,         \* the sets of nodes a run may lock
    Nobody,         \* no owner
    TTL,            \* LockPolicy.ttl
    Grace,          \* LockPolicy.renew_grace
    Margin,         \* lock_skew_margin (0: sqlite and memory have none)
    Backends,       \* which backends: "atomic" (memory, sqlite), "locking" (postgres)
    MaxTime,        \* bound: the last instant
    MaxFence,       \* bound: acquisitions and renewals
    MaxUnlocks,     \* bound: rows an operator breaks
    MaxWrites       \* bound: write calls

ASSUME OwnersAssumption == Nobody \notin Runs
ASSUME ScopesAssumption == Nodes # {} /\ Scopes \subseteq (SUBSET Nodes) \ {{}}
ASSUME NumbersAssumption ==
    /\ {TTL, Grace, Margin, MaxTime, MaxFence, MaxUnlocks, MaxWrites} \subseteq Nat
ASSUME BackendsAssumption == Backends \subseteq {"atomic", "locking"}

VARIABLES
    backend,   \* which backend the runs share
    now,       \* the clock leases are judged by
    counter,   \* meta's fence row
    hold,      \* locks: per node the row's owner, expires_at and fence
    phase,     \* per run: "idle", "held", "lost" (LeaseGuard.lost) or "done"
    scope,     \* Lease.scope
    asking,    \* the acquisition that has the fence row: its run, scope and clock reading
    lease,     \* the bound lease's expires_at and fence
    tx,        \* per run: the write call it is making, and whether it is the second attempt
    stored,    \* nodes: per node, the write its row holds
    outputs,   \* meta's outputs row: per stack, the write whose outputs it holds
    writes,    \* how many write calls were made
    unlocks,   \* how many rows were broken
    merged,    \* history: per stack, the outputs write that landed last
    waited,    \* history: per run, from its lease's clock reading to its rows
    taken      \* history: per node, the fence it was last taken at

rows == <<counter, hold, taken>>
data == <<stored, outputs>>
leases == <<scope, lease, waited, asking>>
vars == <<backend, now, rows, phase, leases, tx, data, writes, unlocks, merged>>

\* Whether a write is a transaction under row locks; and whether set_outputs is judged
\* as a put is.  Both are postgres's alone.
RowLocks == backend = "locking"
FencedOutputs == backend = "locking"

Free == [owner |-> Nobody, expires |-> 0, fence |-> 0]
NotAsking == [run |-> Nobody, scope |-> {}, since |-> 0]
NoTx == [kind |-> "none", node |-> CHOOSE n \in Nodes : TRUE, id |-> 0, locked |-> {},
         base |-> [n \in Nodes |-> 0], again |-> FALSE]
TxType == [kind: {"none", "put", "outputs", "judgedPut", "judgedOutputs"}, node: Nodes,
           id: 0..MaxWrites, locked: SUBSET Nodes, base: [Nodes -> 0..MaxWrites],
           again: BOOLEAN]

\* Rows, leases and transactions keep their types.
TypeOK ==
    /\ backend \in Backends
    /\ now \in 0..MaxTime
    /\ counter \in 0..MaxFence
    /\ hold \in [Nodes -> [owner: Runs \cup {Nobody}, expires: Nat, fence: 0..MaxFence]]
    /\ phase \in [Runs -> {"idle", "held", "lost", "done"}]
    /\ scope \in [Runs -> SUBSET Nodes]
    /\ asking \in [run: Runs \cup {Nobody}, scope: SUBSET Nodes, since: 0..MaxTime]
    /\ lease \in [Runs -> [expires: Nat, fence: 0..MaxFence]]
    /\ tx \in [Runs -> TxType]
    /\ stored \in [Nodes -> 0..MaxWrites]
    /\ outputs \in [Nodes -> 0..MaxWrites]
    /\ writes \in 0..MaxWrites
    /\ unlocks \in 0..MaxUnlocks
    /\ merged \in [Nodes -> 0..MaxWrites]
    /\ waited \in [Runs -> 0..MaxTime]
    /\ taken \in [Nodes -> 0..MaxFence]

Init ==
    /\ backend \in Backends
    /\ now = 0
    /\ counter = 0
    /\ hold = [n \in Nodes |-> Free]
    /\ phase = [r \in Runs |-> "idle"]
    /\ scope = [r \in Runs |-> {}]
    /\ asking = NotAsking
    /\ lease = [r \in Runs |-> [expires |-> 0, fence |-> 0]]
    /\ tx = [r \in Runs |-> NoTx]
    /\ stored = [n \in Nodes |-> 0]
    /\ outputs = [n \in Nodes |-> 0]
    /\ writes = 0
    /\ unlocks = 0
    /\ merged = [n \in Nodes |-> 0]
    /\ waited = [r \in Runs |-> 0]
    /\ taken = [n \in Nodes |-> 0]

-----------------------------------------------------------------------------
(***************************************************************************)
(* Locking.                                                                *)
(***************************************************************************)
BlocksEarly(n, r, at) ==
    /\ hold[n].owner \notin {r, Nobody}
    /\ hold[n].expires > at + 1

BlocksAhead(n, r, at) ==
    /\ hold[n].owner \notin {r, Nobody}
    /\ IF RowLocks THEN hold[n].expires >= at + Margin ELSE hold[n].expires > at

\* Lease.blocks and scope_conflict, at the clock reading `at'; on postgres the
\* condition of LOCK, judged late by the margin.
Blocks(n, r, at) ==
    /\ hold[n].owner \notin {r, Nobody}
    /\ IF RowLocks THEN hold[n].expires >= at - Margin ELSE hold[n].expires > at

\* Rows another transaction has locked FOR UPDATE: touching them waits for it.
RowsFree(S, r) == \A q \in Runs \ {r} : tx[q].locked \cap S = {}

\* _take_scope, take_every_node, MemoryStateBackend.acquire_lock: every row of the
\* scope in one transaction, under a fresh fence.  The rows and the judgement go by
\* the clock reading `at', the lease by the clock now (_local).
TakeScope(r, S, at) ==
    /\ counter < MaxFence
    /\ RowsFree(S, r)
    /\ \A n \in S : ~Blocks(n, r, at)
    /\ counter' = counter + 1
    /\ hold' = [n \in Nodes |-> IF n \in S
                  THEN [owner |-> r, expires |-> at + TTL, fence |-> counter + 1]
                  ELSE hold[n]]
    /\ lease' = [lease EXCEPT ![r] = [expires |-> now + TTL, fence |-> counter + 1]]
    /\ waited' = [waited EXCEPT ![r] = now - at]
    /\ taken' = [n \in Nodes |-> IF n \in S THEN counter + 1 ELSE taken[n]]
    /\ phase' = [phase EXCEPT ![r] = "held"]
    /\ scope' = [scope EXCEPT ![r] = S]

\* What a run may ask for: once, a scope; then, to renew, the same again (renew_lock).
\* Lock calls are made with no write of the run in flight (StateWriter.call).
MayAsk(r, S) ==
    /\ tx[r] = NoTx
    /\ \/ phase[r] = "idle" /\ S \in Scopes
       \/ phase[r] = "held" /\ S = scope[r]

\* Sqlite and memory.
Take(r, S) ==
    /\ ~RowLocks
    /\ MayAsk(r, S)
    /\ TakeScope(r, S, now)
    /\ UNCHANGED <<now, asking, tx, data, writes, unlocks, merged>>

\* Postgres: BUMP_FENCE, then SERVER_NOW.
Ask(r, S) ==
    /\ RowLocks
    /\ asking = NotAsking
    /\ MayAsk(r, S)
    /\ asking' = [run |-> r, scope |-> S, since |-> now]
    /\ UNCHANGED <<now, rows, phase, scope, lease, waited, tx, data, writes, unlocks, merged>>

\* LOCK has taken the last row of the scope.
Granted(r) ==
    /\ asking.run = r
    /\ TakeScope(r, asking.scope, asking.since)
    /\ asking' = NotAsking
    /\ UNCHANGED <<now, tx, data, writes, unlocks, merged>>

\* Another, unexpired owner has a row: nothing is taken, and a run that was renewing
\* is told its lease is lost.
Told(r) == phase' = [phase EXCEPT ![r] = IF @ = "held" THEN "lost" ELSE @]

RenewRefused(r) ==
    /\ ~RowLocks
    /\ phase[r] = "held" /\ tx[r] = NoTx
    /\ \E n \in scope[r] : Blocks(n, r, now)
    /\ Told(r)
    /\ UNCHANGED <<now, rows, leases, tx, data, writes, unlocks, merged>>

Contended(r) ==
    /\ asking.run = r
    /\ \E n \in asking.scope : RowsFree({n}, r) /\ Blocks(n, r, asking.since)
    /\ Told(r)
    /\ asking' = NotAsking
    /\ UNCHANGED <<now, rows, scope, lease, waited, tx, data, writes, unlocks, merged>>

\* DELETE FROM locks WHERE owner; after the run, or after it lost its lease.
ReleaseLock(r) ==
    LET mine == {n \in Nodes : hold[n].owner = r}
    IN /\ phase[r] \in {"held", "lost"} /\ tx[r] = NoTx
       /\ asking.run # r
       /\ RowsFree(mine, r)
       /\ hold' = [n \in Nodes |-> IF n \in mine THEN Free ELSE hold[n]]
       /\ phase' = [phase EXCEPT ![r] = "done"]
       /\ UNCHANGED <<now, counter, taken, leases, tx, data, writes, unlocks, merged>>

\* An operator breaks a hold (`state unlock`).
ForceUnlock(n) ==
    /\ unlocks < MaxUnlocks
    /\ hold[n] # Free
    /\ RowsFree({n}, Nobody)
    /\ hold' = [hold EXCEPT ![n] = Free]
    /\ unlocks' = unlocks + 1
    /\ UNCHANGED <<now, counter, taken, phase, leases, tx, data, writes, merged>>

-----------------------------------------------------------------------------
(***************************************************************************)
(* Writes: put or delete of a node, and set_outputs of its stack.          *)
(***************************************************************************)
StartWrite(r, n, kind) ==
    /\ tx[r] = NoTx
    /\ asking.run # r
    /\ n \in scope[r]
    /\ writes < MaxWrites
    /\ writes' = writes + 1
    /\ tx' = [tx EXCEPT ![r] = [NoTx EXCEPT !.kind = kind, !.node = n, !.id = writes + 1]]
    /\ UNCHANGED <<now, rows, phase, leases, data, unlocks, merged>>

\* LeaseGuard.check.
GuardPasses(r) == lease[r].expires - now > Grace

\* NodeRecords.checked_put and checked_delete.
CheckedWrite(r, n) ==
    /\ phase[r] = "held" /\ GuardPasses(r)
    /\ StartWrite(r, n, "put")

\* NodeRecords.forget, the cleanup's drop of a replaced row, set_outputs: no guard is
\* asked, and a run that was told of its loss may still be on its way to them.
UncheckedWrite(r, n, kind) ==
    /\ phase[r] \in {"held", "lost"}
    /\ StartWrite(r, n, kind)

GuardRefuses(r) ==
    /\ phase[r] = "held" /\ asking.run # r
    /\ ~GuardPasses(r)
    /\ phase' = [phase EXCEPT ![r] = "lost"]
    /\ UNCHANGED <<now, rows, leases, tx, data, writes, unlocks, merged>>

\* fence_violation: another owner, a newer fence, an expired hold.  An unheld node
\* of the scope is allowed.
FenceViolation(r, n) ==
    /\ hold[n].owner # Nobody
    /\ \/ hold[n].owner # r
       \/ hold[n].fence > lease[r].fence
       \/ hold[n].expires <= now

\* `base` with this write's node or stack replaced.
Merge(base, r) == [base EXCEPT ![tx[r].node] = tx[r].id]

Store(r, isOutputs, base) ==
    /\ stored' = IF isOutputs THEN stored ELSE Merge(stored, r)
    /\ outputs' = IF isOutputs THEN Merge(base, r) ELSE outputs
    /\ merged' = IF isOutputs THEN Merge(merged, r) ELSE merged

Land(r, isOutputs, base) ==
    /\ Store(r, isOutputs, base)
    /\ tx' = [tx EXCEPT ![r] = NoTx]

\* Sqlite and memory: judged and written in one transaction.
WriteAtomically(r) ==
    LET n == tx[r].node
    IN /\ ~RowLocks
       /\ tx[r].kind \in {"put", "outputs"}
       /\ tx[r].kind = "put" \/ FencedOutputs => ~FenceViolation(r, n)
       /\ Land(r, tx[r].kind = "outputs", outputs)
       /\ UNCHANGED <<now, rows, phase, leases, writes, unlocks>>

JudgeUnlockedRead(r) ==
    LET n == tx[r].node
        isOutputs == tx[r].kind = "outputs"
    IN /\ RowLocks
       /\ tx[r].kind \in {"put", "outputs"}
       /\ RowsFree({n}, r)
       /\ ~FenceViolation(r, n)
       /\ tx' = [tx EXCEPT ![r].kind = IF isOutputs THEN "judgedOutputs" ELSE "judgedPut",
                           ![r].locked = IF hold[n] = Free THEN {} ELSE {n},
                           ![r].base = IF isOutputs THEN outputs ELSE @]
       /\ UNCHANGED <<now, rows, phase, leases, data, writes, unlocks, merged>>

\* Postgres: the hold rows are locked FOR UPDATE and judged on the server's clock;
\* set_outputs also locks and reads the outputs row.
Judge(r) ==
    LET n == tx[r].node
        isOutputs == tx[r].kind = "outputs"
    IN /\ RowLocks
       /\ tx[r].kind \in {"put", "outputs"}
       /\ RowsFree({n}, r)
       /\ ~FenceViolation(r, n)
       /\ isOutputs => \A q \in Runs : tx[q].kind # "judgedOutputs"
       /\ tx' = [tx EXCEPT ![r].kind = IF isOutputs THEN "judgedOutputs" ELSE "judgedPut",
                           ![r].locked = IF hold[n] = Free THEN {} ELSE {n},
                           ![r].base = IF isOutputs THEN outputs ELSE @]
       /\ UNCHANGED <<now, rows, phase, leases, data, writes, unlocks, merged>>

Commit(r) ==
    /\ tx[r].kind \in {"judgedPut", "judgedOutputs"}
    /\ Land(r, tx[r].kind = "judgedOutputs", tx[r].base)
    /\ UNCHANGED <<now, rows, phase, leases, writes, unlocks>>

\* _run's second attempt: the work of the call, begun anew.
Replayed(r) ==
    [NoTx EXCEPT !.kind = IF tx[r].kind = "judgedOutputs" THEN "outputs" ELSE "put",
                 !.node = tx[r].node, !.id = tx[r].id, !.again = TRUE]

\* The connection breaks before the commit or, the answer lost, after it.  The call is
\* made again on a new connection, once; broken again, it is reported as failed.
Disconnect(r, landed) ==
    /\ tx[r].kind \in {"judgedPut", "judgedOutputs"}
    /\ IF landed THEN Store(r, tx[r].kind = "judgedOutputs", tx[r].base)
                 ELSE UNCHANGED <<data, merged>>
    /\ tx' = [tx EXCEPT ![r] = IF tx[r].again THEN NoTx ELSE Replayed(r)]
    /\ UNCHANGED <<now, rows, phase, leases, writes, unlocks>>

\* FencedWriteError: nothing of the write lands.
WriteRefused(r) ==
    /\ tx[r].kind \in {"put", "outputs"}
    /\ RowsFree({tx[r].node}, r)
    /\ tx[r].kind = "put" \/ FencedOutputs
    /\ FenceViolation(r, tx[r].node)
    /\ tx' = [tx EXCEPT ![r] = NoTx]
    /\ UNCHANGED <<now, rows, phase, leases, data, writes, unlocks, merged>>

Tick ==
    /\ now < MaxTime
    /\ now' = now + 1
    /\ UNCHANGED <<rows, phase, leases, tx, data, writes, unlocks, merged>>

Step ==
    \/ \E r \in Runs, S \in SUBSET Nodes : Take(r, S)
    \/ \E r \in Runs, S \in SUBSET Nodes : Ask(r, S)
    \/ \E r \in Runs : Granted(r)
    \/ \E r \in Runs : Contended(r)
    \/ \E r \in Runs : RenewRefused(r)
    \/ \E r \in Runs : ReleaseLock(r)
    \/ \E n \in Nodes : ForceUnlock(n)
    \/ \E r \in Runs, n \in Nodes : CheckedWrite(r, n)
    \/ \E r \in Runs, n \in Nodes, kind \in {"put", "outputs"} : UncheckedWrite(r, n, kind)
    \/ \E r \in Runs : GuardRefuses(r)
    \/ \E r \in Runs : WriteAtomically(r)
    \/ \E r \in Runs : Judge(r)
    \/ \E r \in Runs : Commit(r)
    \/ \E r \in Runs, landed \in BOOLEAN : Disconnect(r, landed)
    \/ \E r \in Runs : WriteRefused(r)
    \/ Tick

Next == Step /\ UNCHANGED backend

Spec == Init /\ [][Next]_vars

-----------------------------------------------------------------------------
(***************************************************************************)
(* Properties.                                                             *)
(***************************************************************************)
\* A run whose guard would let it write still has every row of its scope, at its own
\* fence (LeaseGuard.check, Lease.blocks, LOCK's margin): provided no operator broke a
\* hold, and its acquisition waited for its rows no longer than the grace and the
\* margin together make up for.  The lease it was handed is dated that much later
\* than its rows.
GuardMeansHeld ==
    \A r \in Runs :
        phase[r] = "held" /\ GuardPasses(r) /\ unlocks = 0 /\ waited[r] <= Grace + Margin =>
            \A n \in scope[r] : hold[n].owner = r /\ hold[n].fence = lease[r].fence

\* A run's rows, as it dated them, are open to a taker.
RowsLapsed(r) ==
    IF RowLocks THEN lease[r].expires - waited[r] + Margin < now
                ELSE lease[r].expires - waited[r] <= now

PutLands(r, n) == stored'[n] # stored[n] /\ stored'[n] = tx[r].id

\* A write that lands before the rows its run took have lapsed lands on a node nobody
\* has taken since, however long it was under way, replayed or not and whether or not a
\* guard was asked (Blocks, RowsFree, release after the last write), unless an operator
\* broke a hold.
TimelyPutsAreOwn ==
    [][\A r \in Runs, n \in Nodes :
           PutLands(r, n) /\ ~RowsLapsed(r) /\ unlocks = 0 => taken[n] = lease[r].fence]_vars

\* No merge of stack outputs is lost to a concurrent one: the outputs row holds, for
\* every stack, the last write that landed on it (set_outputs's row lock, and
\* sqlite's merge base read inside the write transaction).
MergesKept == outputs = merged

\* A write judged under a hold row still has it when it lands: neither a takeover nor
\* a release nor an operator gets between (HELD_FOR_UPDATE).
JudgedStaysHeld ==
    \A r \in Runs : tx[r].kind \in {"judgedPut", "judgedOutputs"} =>
        \A n \in tx[r].locked : hold[n].owner = r /\ hold[n].fence = lease[r].fence

\* What the documentation says of postgres and the code does not keep.  The lease a run
\* is handed has as much left as its rows have (_local, "sees exactly as much left as
\* the server does").
LocalAsServer ==
    \A r \in Runs, n \in Nodes : hold[n].owner = r => lease[r].expires = hold[n].expires

\* No put or delete lands on a node while another run holds it (postgres.py,
\* _in_transaction: "no other run can take the lease between the check and the
\* write").
PutsUnderHold ==
    [][\A r \in Runs, n \in Nodes : PutLands(r, n) => hold[n].owner \in {r, Nobody}]_vars

\* Nothing is written to a node by a lease another has superseded on it ("the store
\* refuses a write from a lease that is no longer the holder").
SupersededRefused ==
    [][\A r \in Runs, n \in Nodes : PutLands(r, n) => taken[n] <= lease[r].fence]_vars
=============================================================================
