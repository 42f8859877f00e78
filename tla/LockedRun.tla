------------------------------ MODULE LockedRun ------------------------------
(***************************************************************************)
(* One locked run: LockedRuns.run_locked, with_lock and its heartbeat, and *)
(* the StateWriter that takes the executor's state writes off the event    *)
(* loop (atlantide/engine/runs.py and locking.py, atlantide/reconcile/     *)
(* writer.py, LeaseGuard in atlantide/state/leases.py).                    *)
(*                                                                         *)
(* Actors: the event-loop thread (the run's coroutine, a task per node,    *)
(* the renewal task), which takes one stretch between two awaits at a time *)
(* and blocks in a lock call; the writer's pool threads; the clock; and    *)
(* another run that takes the hold once it has lapsed.  A task is of one   *)
(* of three kinds: an applied node writes its row ahead, calls its         *)
(* provider and writes its row again, each time after LeaseGuard.check; a  *)
(* destroyed node (forget) and the old half of a create-before-destroy     *)
(* replace (cbd_cleanup) call their provider and drop their row, which     *)
(* nothing checks.                                                         *)
(***************************************************************************)
EXTENDS Integers, Sequences, FiniteSets

CONSTANTS
    Nodes,      \* the node tasks
    Keys,       \* what their writes are keyed by: node ids
    Setups,     \* the backends and tasks to consider, each as Setup describes it
    TTL, Interval, Grace,   \* LockPolicy
    Margin,     \* lock_skew_margin
    MaxNow,     \* bound: the clock
    MaxFaults   \* bound: store errors, interrupts, time-outs and forced unlocks

Kinds == {"apply", "forget", "cleanup"}

\* What one history has: whether calls are offloaded and to how many threads,
\* whether a renewal re-acquires (a new fence: the backends that fence by hold
\* rows) or extends the lease (the same one: S3), what each task does, and the
\* key of its writes.
Setup ==
    [offload: BOOLEAN, workers: Nat \ {0}, reacquires: BOOLEAN, kind: [Nodes -> Kinds],
     key: [Nodes -> Keys]]

\* LockPolicy.validate.
ASSUME PolicyAssumption ==
    /\ {TTL, Interval} \subseteq Nat \ {0} /\ {Grace, Margin} \subseteq Nat
    /\ Interval < TTL /\ Grace < TTL
ASSUME SetupsAssumption == Setups \subseteq Setup
ASSUME BoundsAssumption == {MaxNow, MaxFaults} \subseteq Nat

Checkpoint == "checkpoint"
Loop == "loop"
Jobs == Nodes \cup {Checkpoint}
ASSUME NamesAssumption == IsFiniteSet(Nodes) /\ {Checkpoint, Loop} \cap Nodes = {}

VARIABLES
    setup,      \* the setup, the same all along
    shared, exclusive, waiting, place, parked,   \* the gate
    now,        \* the clock
    hold,       \* the store: who holds the scope, at which fence, until when
    fences,     \* the store: the last fence minted
    taken,      \* the store: the run's lease was taken over (and revoked)
    bound,      \* backend._lease: the fence writes carry, 0 for none
    lease,      \* LeaseGuard.lease: its fence (0: none) and expiry
    lost,       \* LeaseGuard.lost
    calls,      \* the lock calls the loop thread is in, the first one running
    unheard,    \* the fence of a renewal whose answer was lost
    phase,      \* with_lock's coroutine
    body,       \* _run_then_checkpoint's coroutine
    wake,       \* when the renewal task's sleep ends; 0 when there is no task
    stage,      \* per task, what it is doing
    job,        \* per write, how far writer.run is
    line,       \* per key, _ordered: the tasks at its asyncio.Lock, the holder first
    poolQueue,  \* the pool's work queue
    cancelled,  \* the tasks a cancellation was delivered to
    row,        \* the store: what is durable of each task's row
    faults

gate == <<shared, exclusive, waiting, place, parked>>
store == <<hold, fences, taken>>
instance == <<bound, lease, lost, unheard>>
writes == <<job, line, poolQueue, row>>
control == <<phase, body, wake, calls>>
vars == <<setup, gate, now, store, instance, control, stage, writes, cancelled, faults>>

Gate == INSTANCE ReadWriteGate WITH Writes <- Jobs, Calls <- {Loop}

Us == "us"
Them == "them"
NoHold == [owner |-> "nobody", fence |-> 0, expires |-> 0]
Ended == {"done", "failed", "cancelled"}
Storing == {"ahead", "persist", "drop", "mark"}   \* the stages that write the row
Writing == {"queued", "put"}
Lost == {"no", "lapsed", "refused"}

\* The run's state keeps its types.
TypeOK ==
    /\ setup \in Setups
    /\ Gate!GateTypeOK
    /\ now \in 0..MaxNow
    /\ hold \in [owner: {Us, Them, "nobody"}, fence: Nat, expires: Nat]
    /\ fences \in Nat /\ taken \in BOOLEAN
    /\ bound \in Nat /\ lease \in [fence: Nat, expires: Nat] /\ lost \in Lost
    /\ unheard \in Nat
    /\ calls \in Seq({"acquire", "bind", "renew", "rebind", "unbind", "release"})
    /\ phase \in {"start", "run", "release", "end", "leaked"}
    /\ body \in {"none", "run", "fail", "cancel", "commit", "commitFailed", "commitStopped",
                 "ok", "failed", "stopped"}
    /\ wake \in Nat
    /\ stage \in [Nodes -> {"provider"} \cup Storing \cup Ended]
    /\ job \in [Jobs -> {"idle", "line", "ok", "error"} \cup Writing]
    /\ line \in [Keys -> Seq(Nodes)]
    /\ poolQueue \in Seq(Jobs)
    /\ cancelled \subseteq Nodes
    /\ row \in [Nodes -> {"none", "ahead", "persist", "stale"}]
    /\ faults \in 0..MaxFaults

Init ==
    /\ setup \in Setups
    /\ Gate!GateInit
    /\ now = 0
    /\ hold \in {NoHold, [owner |-> Them, fence |-> 1, expires |-> TTL]}
    /\ fences = hold.fence /\ taken = FALSE
    /\ bound = 0 /\ lease = [fence |-> 0, expires |-> 0] /\ lost = "no" /\ unheard = 0
    /\ calls = <<"acquire">>
    /\ phase = "start" /\ body = "none" /\ wake = 0
    /\ stage = [n \in Nodes |-> IF setup.kind[n] = "apply" THEN "ahead" ELSE "provider"]
    /\ job = [j \in Jobs |-> "idle"]
    /\ line = [k \in Keys |-> <<>>] /\ poolQueue = <<>>
    /\ cancelled = {}
    /\ row = [n \in Nodes |-> IF setup.kind[n] = "apply" THEN "none" ELSE "persist"]
    /\ faults = 0

LoopFree == calls = <<>>
Fault == faults < MaxFaults /\ faults' = faults + 1

-----------------------------------------------------------------------------
(***************************************************************************)
(* The store, as the lock calls and the writes see it.                     *)
(***************************************************************************)
\* Another run may take the scope: it is free, or its hold lapsed by the margin.
Free == hold.owner = "nobody" \/ hold.expires + Margin <= now

Granted == [owner |-> Us, fence |-> fences + 1, expires |-> now + TTL]

\* fence_violation (and, for a lease that is extended, its revocation).
StoreRefuses ==
    /\ bound # 0
    /\ \/ hold.owner = Them
       \/ hold.owner = Us /\ (hold.fence > bound \/ hold.expires <= now)
       \/ ~setup.reacquires /\ taken

\* Another run takes the hold: it lapsed, or an operator's force_unlock broke it
\* (on the backends whose renewal then finds the other run's row).
Take ==
    /\ phase = "run" /\ hold.owner = Us
    /\ (Free /\ UNCHANGED faults) \/ (setup.reacquires /\ Fault)
    /\ hold' = [owner |-> Them, fence |-> fences + 1, expires |-> now + TTL]
    /\ fences' = fences + 1 /\ taken' = TRUE
    /\ UNCHANGED <<setup, gate, now, instance, control, stage, writes, cancelled>>

TheyRelease ==
    /\ phase = "run" /\ hold.owner = Them
    /\ hold' = NoHold
    /\ UNCHANGED <<setup, gate, now, fences, taken, instance, control, stage, writes, cancelled,
                   faults>>

Tick ==
    /\ phase = "run" /\ now < MaxNow
    /\ now' = now + 1
    /\ UNCHANGED <<setup, gate, store, instance, control, stage, writes, cancelled, faults>>

-----------------------------------------------------------------------------
(***************************************************************************)
(* Lock calls: SerializedBackend through StateWriter.call, on the loop.    *)
(***************************************************************************)
\* call: wait for the gate on the loop thread.
RequestCall ==
    /\ ~LoopFree /\ setup.offload
    /\ place[Loop] # "exclusive"
    /\ Gate!AcquireExclusive(Loop)
    /\ UNCHANGED <<setup, now, store, instance, control, stage, writes, cancelled, faults>>

\* call: the callable runs on a pool thread; the gate is released whatever it raises.
CallRuns(name) ==
    /\ ~LoopFree /\ Head(calls) = name
    /\ IF setup.offload
       THEN place[Loop] = "exclusive" /\ Gate!ReleaseExclusive(Loop)
       ELSE UNCHANGED gate
    /\ UNCHANGED <<setup, now, stage, writes, cancelled>>

\* with_lock: acquire_lock succeeds; hold() then binds.
Acquire ==
    /\ CallRuns("acquire") /\ Free
    /\ hold' = Granted /\ fences' = fences + 1
    /\ lease' = [fence |-> hold'.fence, expires |-> hold'.expires]
    /\ calls' = <<"bind">>
    /\ phase' = "run"
    /\ UNCHANGED <<taken, bound, lost, unheard, body, wake, faults>>

\* A conflict is returned as it is.
AcquireRefused ==
    /\ CallRuns("acquire") /\ ~Free
    /\ calls' = <<>> /\ phase' = "end"
    /\ UNCHANGED <<store, instance, body, wake, faults>>

\* acquire_lock raises: the rows may be taken, and nothing releases them.
AcquireRaises ==
    /\ CallRuns("acquire") /\ Free /\ Fault
    /\ \/ UNCHANGED <<hold, fences>>
       \/ hold' = Granted /\ fences' = fences + 1
    /\ calls' = <<>> /\ phase' = "leaked"
    /\ UNCHANGED <<taken, instance, body, wake>>

\* session.hold: bind_lease; then _run_renewed starts the body and the heartbeat.
Bind ==
    /\ CallRuns("bind")
    /\ bound' = lease.fence
    /\ calls' = <<>>
    /\ body' = "run" /\ wake' = now + Interval
    /\ UNCHANGED <<store, lease, lost, unheard, phase, faults>>

SinkRaisesUncovered ==
    /\ CallRuns("bind") /\ Fault
    /\ bound' = lease.fence
    /\ calls' = <<>> /\ phase' = "end"
    /\ UNCHANGED <<store, lease, lost, unheard, body, wake>>

\* An event sink raises on LEASE_ACQUIRE: the lock is released before anything ran.
SinkRaises ==
    /\ CallRuns("bind") /\ Fault
    /\ bound' = lease.fence
    /\ calls' = <<"unbind", "release">> /\ phase' = "release"
    /\ UNCHANGED <<store, lease, lost, unheard, body, wake>>

\* _renew_until_cancelled: the sleep is over and the loop is free.
Beat ==
    /\ LoopFree /\ phase = "run" /\ wake # 0 /\ now >= wake
    /\ calls' = <<"renew">>
    /\ UNCHANGED <<setup, gate, now, store, instance, phase, body, wake, stage, writes, cancelled,
                   faults>>

RenewalGranted ==
    IF setup.reacquires THEN hold.owner = Us \/ Free ELSE hold.owner = Us /\ ~taken
Renewed == [Granted EXCEPT !.fence = IF setup.reacquires THEN fences + 1 ELSE hold.fence]

RenewUnbound ==
    /\ CallRuns("renew") /\ RenewalGranted
    /\ hold' = Renewed
    /\ fences' = IF setup.reacquires THEN fences + 1 ELSE fences
    /\ lease' = [fence |-> hold'.fence, expires |-> hold'.expires]
    /\ calls' = <<>> /\ wake' = now + Interval
    /\ UNCHANGED <<taken, bound, lost, unheard, phase, body, faults>>

Renew ==
    /\ CallRuns("renew") /\ RenewalGranted
    /\ hold' = Renewed
    /\ fences' = IF setup.reacquires THEN fences + 1 ELSE fences
    /\ lease' = [fence |-> hold'.fence, expires |-> hold'.expires]
    /\ calls' = <<"rebind">>
    /\ UNCHANGED <<taken, bound, lost, unheard, phase, body, wake, faults>>

Rebind ==
    /\ CallRuns("rebind")
    /\ bound' = lease.fence
    /\ calls' = <<>>
    /\ wake' = now + Interval
    /\ UNCHANGED <<store, lease, lost, unheard, phase, body, faults>>

\* The renewal raises: the store may have renewed all the same.
RenewRaises ==
    /\ CallRuns("renew") /\ Fault
    /\ \/ UNCHANGED <<hold, fences, unheard>>
       \/ /\ RenewalGranted /\ hold' = Renewed
          /\ fences' = IF setup.reacquires THEN fences + 1 ELSE fences
          /\ unheard' = hold'.fence
    /\ calls' = <<>>
    /\ wake' = now + Interval
    /\ UNCHANGED <<taken, bound, lease, lost, phase, body>>

\* running.cancel(): what is over stays over, a checkpoint settles first, and a
\* failed body's checkpoint suppresses the cancellation.
Stopped(b) ==
    CASE b \in {"run", "fail"} -> "cancel"
      [] b = "commit" -> "commitStopped"
      [] OTHER -> b

\* A renewal Failure: another owner took the hold.  The run is cancelled.
RenewRefused ==
    /\ CallRuns("renew") /\ ~RenewalGranted
    /\ lost' = "refused"
    /\ body' = Stopped(body)
    /\ calls' = <<>> /\ wake' = 0
    /\ UNCHANGED <<store, bound, lease, unheard, phase, faults>>

Unbind ==
    /\ CallRuns("unbind")
    /\ bound' = 0
    /\ calls' = Tail(calls)
    /\ UNCHANGED <<store, lease, lost, unheard, phase, body, wake, faults>>

\* release_lock drops the rows the owner still has.  state_writer's close follows.
Release ==
    /\ CallRuns("release")
    /\ hold' = IF hold.owner = Us THEN NoHold ELSE hold
    /\ calls' = <<>> /\ phase' = "end"
    /\ UNCHANGED <<fences, taken, instance, body, wake, faults>>

\* release_lock raises: the lock stays held until its TTL.
ReleaseRaises ==
    /\ CallRuns("release") /\ Fault
    /\ calls' = <<>> /\ phase' = "leaked"
    /\ UNCHANGED <<store, instance, body, wake>>

-----------------------------------------------------------------------------
(***************************************************************************)
(* StateWriter.run: the state writes.                                      *)
(***************************************************************************)
KeyOf(n) == setup.key[n]

\* _submit: the shared hold is taken here, on the loop thread.
Submit(j) ==
    /\ Gate!AcquireShared(j)
    /\ job' = [job EXCEPT ![j] = "queued"]
    /\ poolQueue' = Append(poolQueue, j)

\* run with a key: behind the key's earlier writes, or at once.
Ask(n) ==
    /\ LoopFree /\ setup.offload /\ body # "none" /\ n \notin cancelled
    /\ stage[n] \in Storing /\ job[n] = "idle"
    /\ line' = [line EXCEPT ![KeyOf(n)] = Append(@, n)]
    /\ IF line[KeyOf(n)] = <<>>
       THEN Submit(n)
       ELSE job' = [job EXCEPT ![n] = "line"] /\ UNCHANGED <<gate, poolQueue>>
    /\ UNCHANGED <<setup, now, store, instance, control, stage, row, cancelled, faults>>

\* The key's lock is passed on.
NextInLine(n) ==
    /\ LoopFree /\ job[n] = "line" /\ n \notin cancelled
    /\ Head(line[KeyOf(n)]) = n
    /\ Submit(n)
    /\ UNCHANGED <<setup, now, store, instance, control, stage, line, row, cancelled, faults>>

GuardIgnoresLoss == lease.expires - now <= Grace

\* LeaseGuard.check, on the thread that writes.
GuardRefuses == lost # "no" \/ lease.expires - now <= Grace
GuardLost == IF lost = "no" /\ GuardRefuses THEN "lapsed" ELSE lost

\* _shared_call's finally: the hold is given back on the pool thread.
Settle(j, result) == job' = [job EXCEPT ![j] = result] /\ Gate!ReleaseShared(j)

\* Writes behind LeaseGuard.check: checked_put's, also a stale mark's, but neither the
\* backend.delete of a dropped row nor a checkpoint.
Checked(j) == j # Checkpoint /\ stage[j] # "drop"

\* A pool thread takes the next job and makes its check.
Start(j) ==
    /\ poolQueue # <<>> /\ Head(poolQueue) = j
    /\ Cardinality({i \in Jobs : job[i] = "put"}) < setup.workers
    /\ poolQueue' = Tail(poolQueue)
    /\ IF Checked(j) /\ GuardRefuses
       THEN Settle(j, "error") /\ lost' = GuardLost
       ELSE job' = [job EXCEPT ![j] = "put"] /\ UNCHANGED <<gate, lost>>
    /\ UNCHANGED <<setup, now, store, bound, lease, unheard, control, stage, line, row, cancelled,
                   faults>>

\* What a write makes of the row; a mark leaves a row that is gone alone.
Image(n) ==
    CASE stage[n] = "drop" -> "none"
      [] stage[n] = "mark" -> IF row[n] = "none" THEN "none" ELSE "stale"
      [] OTHER -> stage[n]
Stored(j) == IF j = Checkpoint \/ StoreRefuses THEN row ELSE [row EXCEPT ![j] = Image(j)]

\* backend.put and backend.delete: refused by the store, or durable.
Put(j) ==
    /\ job[j] = "put"
    /\ Settle(j, IF StoreRefuses THEN "error" ELSE "ok")
    /\ row' = Stored(j)
    /\ UNCHANGED <<setup, now, store, instance, control, stage, line, poolQueue, cancelled, faults>>

\* The store raises, before or after the write became durable.
PutRaises(j) ==
    /\ job[j] = "put" /\ Fault
    /\ Settle(j, "error")
    /\ row' \in {row, Stored(j)}
    /\ UNCHANGED <<setup, now, store, instance, control, stage, line, poolQueue, cancelled>>

\* What becomes of a task whose write is over; a time-out is an error of the node.  A
\* forget whose drop failed marks the row stale, and fails whatever comes of that.
After(n, result) ==
    IF n \in cancelled THEN (IF body = "run" THEN "failed" ELSE "cancelled")
    ELSE IF stage[n] = "drop" /\ result = "error" /\ setup.kind[n] = "forget" THEN "mark"
    ELSE IF stage[n] = "mark" \/ result = "error" THEN "failed"
    ELSE IF stage[n] = "ahead" THEN "provider" ELSE "done"

\* The loop resumes the task that awaited the write (a cancelled one has settled).
Back(n) ==
    /\ LoopFree /\ job[n] \in {"ok", "error"}
    /\ job' = [job EXCEPT ![n] = "idle"]
    /\ line' = [line EXCEPT ![KeyOf(n)] = Tail(@)]
    /\ stage' = [stage EXCEPT ![n] = After(n, job[n])]
    /\ UNCHANGED <<setup, gate, now, store, instance, control, poolQueue, row, cancelled, faults>>

\* run without a pool: the whole call on the loop thread.
RunInline(n) ==
    /\ LoopFree /\ ~setup.offload /\ body # "none" /\ n \notin cancelled
    /\ stage[n] \in Storing
    /\ lost' = IF Checked(n) THEN GuardLost ELSE lost
    /\ IF (Checked(n) /\ GuardRefuses) \/ StoreRefuses
       THEN stage' = [stage EXCEPT ![n] = After(n, "error")] /\ UNCHANGED row
       ELSE stage' = [stage EXCEPT ![n] = After(n, "ok")] /\ row' = Stored(n)
    /\ UNCHANGED <<setup, gate, now, store, bound, lease, unheard, control, job, line, poolQueue,
                   cancelled, faults>>

-----------------------------------------------------------------------------
(***************************************************************************)
(* The run's body: run_graph's tasks, the checkpoint, and how they end.    *)
(***************************************************************************)
quiet == <<setup, gate, now, store, instance, writes>>

Provider(n) ==
    /\ LoopFree /\ body # "none" /\ stage[n] = "provider" /\ n \notin cancelled
    /\ \/ /\ stage' = [stage EXCEPT ![n] = IF setup.kind[n] = "apply" THEN "persist" ELSE "drop"]
          /\ UNCHANGED faults
       \/ stage' = [stage EXCEPT ![n] = "failed"] /\ Fault
    /\ UNCHANGED <<quiet, control, cancelled>>

\* asyncio.timeout(node_timeout) around the node; around the provider call alone where
\* a node is destroyed, and around nothing in a cleanup.
NodeTimeout(n) ==
    /\ LoopFree /\ body = "run" /\ Fault
    /\ stage[n] \notin Ended /\ n \notin cancelled
    /\ CASE setup.kind[n] = "apply" -> TRUE
         [] setup.kind[n] = "forget" -> stage[n] = "provider"
         [] OTHER -> FALSE
    /\ cancelled' = cancelled \cup {n}
    /\ UNCHANGED <<quiet, control, stage>>

CancelledAbandons(n) ==
    /\ LoopFree /\ n \in cancelled /\ stage[n] \notin Ended
    /\ job[n] # "line"
    /\ stage' = [stage EXCEPT ![n] = After(n, "error")]
    /\ UNCHANGED <<setup, gate, now, store, instance, control, job, line, poolQueue, row, cancelled,
                   faults>>

\* A cancelled task ends, unless a write of its own is still on a pool thread.
Cancelled(n) ==
    /\ LoopFree /\ n \in cancelled /\ stage[n] \notin Ended
    /\ job[n] \in {"idle", "line"}
    /\ stage' = [stage EXCEPT ![n] = After(n, "error")]
    /\ line' = [line EXCEPT ![KeyOf(n)] = SelectSeq(@, LAMBDA m : m # n)]
    /\ job' = [job EXCEPT ![n] = "idle"]
    /\ UNCHANGED <<setup, gate, now, store, instance, control, poolQueue, row, cancelled, faults>>

Unended == {n \in Nodes : stage[n] \notin Ended}

\* The TaskGroup cancels its tasks: one failed, or it was cancelled itself.
Abort ==
    /\ LoopFree /\ Unended \ cancelled # {}
    /\ \/ body = "run" /\ (\E n \in Nodes : stage[n] = "failed") /\ body' = "fail"
       \/ body = "cancel" /\ UNCHANGED body
    /\ cancelled' = cancelled \cup Unended
    /\ UNCHANGED <<quiet, phase, wake, calls, stage, faults>>

\* Every task is over: LockedRuns.checkpoint, unless the run was cancelled or
\* the lease is lost.
BodyEnd ==
    IF body = "cancel" THEN "stopped"
    ELSE IF \E n \in Nodes : stage[n] = "failed" THEN "failed" ELSE "ok"
Checkpoints == BodyEnd # "stopped" /\ lost = "no" /\ setup.offload

TasksOver ==
    /\ LoopFree /\ body \in {"run", "fail", "cancel"} /\ Unended = {}
    /\ IF Checkpoints
       THEN /\ body' = IF BodyEnd = "ok" THEN "commit" ELSE "commitFailed"
            /\ Submit(Checkpoint)
       ELSE /\ body' = BodyEnd
            /\ UNCHANGED <<gate, job, poolQueue>>
    /\ UNCHANGED <<setup, now, store, instance, phase, wake, calls, stage, line, row, cancelled,
                   faults>>

CheckpointOver ==
    /\ LoopFree /\ job[Checkpoint] \in {"ok", "error"}
    /\ job' = [job EXCEPT ![Checkpoint] = "idle"]
    /\ body' = CASE body = "commit" -> "ok" [] body = "commitFailed" -> "failed"
                 [] OTHER -> "stopped"
    /\ UNCHANGED <<setup, gate, now, store, instance, phase, wake, calls, stage, line, poolQueue,
                   row, cancelled, faults>>

\* An interrupt cancels with_lock, and through it the body.
Interrupt ==
    /\ LoopFree /\ phase = "run" /\ body # "none" /\ Fault
    /\ body' = Stopped(body)
    /\ UNCHANGED <<quiet, phase, wake, calls, stage, cancelled>>

\* _run_renewed's finally: the renewal task is cancelled; then session.release.
EndRun ==
    /\ LoopFree /\ phase = "run" /\ body \in {"ok", "failed", "stopped"}
    /\ wake' = 0
    /\ calls' = <<"unbind", "release">> /\ phase' = "release"
    /\ UNCHANGED <<quiet, body, stage, cancelled, faults>>

Over == phase \in {"end", "leaked"} /\ UNCHANGED vars

LockCall ==
    \/ RequestCall \/ Acquire \/ AcquireRefused \/ AcquireRaises \/ Bind \/ SinkRaises
    \/ Renew \/ Rebind \/ RenewRaises \/ RenewRefused \/ Unbind \/ Release \/ ReleaseRaises
Task(n) ==
    \/ Ask(n) \/ NextInLine(n) \/ Back(n) \/ RunInline(n) \/ Provider(n) \/ Cancelled(n)
Pool(j) == Start(j) \/ Put(j)
Turn == Beat \/ Abort \/ TasksOver \/ CheckpointOver \/ EndRun

Next ==
    \/ LockCall
    \/ Turn
    \/ \E n \in Nodes : Task(n) \/ NodeTimeout(n)
    \/ \E j \in Jobs : Pool(j) \/ PutRaises(j)
    \/ Interrupt \/ Take \/ TheyRelease \/ Tick \/ Over

Safety == Init /\ [][Next]_vars

\* The loop and the pool threads go on; the clock, the other run, interrupts and
\* time-outs owe nothing.  A provider call returns or the node times out.
Fairness ==
    /\ WF_vars(LockCall) /\ WF_vars(Turn)
    /\ \A n \in Nodes : WF_vars(Task(n))
    /\ \A j \in Jobs : WF_vars(Pool(j))

Spec == Safety /\ Fairness

-----------------------------------------------------------------------------
\* "A write between a renewal and the following lease rebind would carry the
\* superseded fence": no write about to reach the store carries an older fence
\* than its own run's hold, unless that renewal's answer never came.
NoSupersededWrite ==
    \A j \in Jobs : job[j] = "put" /\ hold.owner = Us =>
        bound = hold.fence \/ hold.fence = unheard

\* No write runs unfenced: from its admission until it has landed or was refused
\* a lease is bound, although unbinding happens while tasks are being cancelled.
AlwaysFenced == \A j \in Jobs : job[j] \in Writing => bound # 0

\* "A submitted write is never abandoned": when the lock is given up no write is
\* in flight and no task is left that could submit one.
ReleasedQuiet ==
    phase \in {"release", "end"} /\ body # "none" =>
        /\ \A j \in Jobs : job[j] = "idle"
        /\ Unended = {}

\* Admission never blocks the event loop: whenever a task runs, the gate is open
\* to a write.
AdmissionOpen == LoopFree => ~Gate!SharedBarred

\* Writes of one key reach the store one at a time, in the order they were asked
\* for, also when a task between them is cancelled.
KeyOrder ==
    \A n \in Nodes : job[n] \in Writing => Head(line[KeyOf(n)]) = n

\* After a refused renewal no checked write lands, not even one submitted before the
\* cancellation came; the drop of a row, which nothing checks, lands only on a backend
\* that fences by hold rows, and only once the other run has given its hold up.
NothingAfterRefusal ==
    [][\A n \in Nodes : lost = "refused" /\ row'[n] # row[n] =>
          ~Checked(n) /\ setup.reacquires /\ hold.owner = "nobody"]_vars

\* "The run is stopped before it writes anything else" (locking.py:271), for the run
\* whose renewal was refused.  Violated: a drop lands.
StoppedFirst == [][row' # row => lost # "refused"]_vars

\* Heartbeat, writes and cancellation never wait for one another for good: the
\* run ends, and unless a lock call raised, the lock is not left behind.
Finishes == <>[](phase = "leaked" \/ (phase = "end" /\ hold.owner # Us))
=============================================================================
