------------------------------ MODULE Executor ------------------------------
(***************************************************************************)
(* The reconcile executor: runs one after another plan a ChangeSet from    *)
(* the config and the stored rows, and execute it node by node; nodes      *)
(* fail, are cancelled by a failing sibling, an interrupt or a lost lease, *)
(* the process dies, and a failed forward pass is rolled back by a saga.   *)
(*                                                                         *)
(* Sources: atlantide/reconcile/executor/*.py, atlantide/reconcile/diff.py *)
(* and classify.py, atlantide/graph/{schedule,cbd}.py.                     *)
(*                                                                         *)
(* A config gives each declared node a physical name, its one immutable    *)
(* property; a node's refs to what it depends on are mutable fields, so no *)
(* REPLACE is conditional.  A resource is its name and the id its provider *)
(* gave it.  Every await (a state write, a provider call) is one step.  A  *)
(* node's steps come in the order the code awaits them; steps of           *)
(* different nodes interleave as run_graph allows.  Every run holds the    *)
(* lease of the whole state, so no two runs overlap.                       *)
(***************************************************************************)
EXTENDS Integers, Sequences, FiniteSets

CONSTANTS
    Nodes,        \* declared node ids
    Names,        \* physical names
    Undeclared,   \* no name: the config has no such node
    Projects,     \* the projects to consider, each as Project describes it
    MaxRuns,      \* bound: runs
    MaxFaults     \* bound: failures, interrupts, lost leases and crashes

Wanted == Names \cup {Undeclared}
ASSUME NamesAssumption == Undeclared \notin Names
\* What the runs of one history share: the nodes each node refers to, the nodes
\* declared create_before_destroy, on_failure = "rollback", and the configs applied.
Project == [deps: [Nodes -> SUBSET Nodes], cbd: SUBSET Nodes, rollback: BOOLEAN,
            configs: SUBSET [Nodes -> Wanted]]
ASSUME ProjectsAssumption ==
    /\ Projects \subseteq Project
    /\ \A p \in Projects : \A c \in p.configs, n \in Nodes :
          c[n] # Undeclared => \A d \in p.deps[n] : c[d] # Undeclared
ASSUME BoundsAssumption == {MaxRuns, MaxFaults} \subseteq Nat

VARIABLES
    project,    \* the project, the same all along
    row,        \* the state: per id, its StateNode
    live,       \* the provider: per node, the resources that exist
    minted,     \* the provider: the last id given to a resource
    phase,      \* what the run is doing
    config,     \* the run's config
    prior,      \* prior_state: the rows the run started from
    outs,       \* live_outputs: per node, the id its refs resolve to
    predeleted, \* RunContext.predeleted
    deleteIds,  \* RunContext.delete_ids
    deferred,   \* RunContext.cbd_deferred
    todo,       \* per id, the awaits its task has left in this phase
    inflight,   \* the tasks cancelled inside an await
    saga,       \* Saga.compensations
    at,         \* rollback: the compensation being run
    undo,       \* rollback: the awaits it has left
    seen,       \* rollback: the rows read once for mark_stale
    recreated,  \* rollback: the id of the resource it re-created
    undone,     \* rollback: whether every compensation so far completed
    lost,       \* LeaseGuard.lost
    runs, faults,
    unmarked,   \* report.poison_failed: the nodes a stale mark failed for, of all runs
    aimed,      \* history: the configs applied since the last run that completed
    there       \* history: the nodes whose prior row described a resource that existed

plan == <<config, prior, predeleted, there>>
work == <<outs, deleteIds, deferred, saga>>
run == <<phase, plan, work, todo, inflight, lost>>
rolling == <<at, undo, seen, recreated, undone>>
count == <<project, runs, faults, unmarked, aimed>>
vars == <<row, live, minted, run, rolling, count>>

Deps == project.deps
CBDNodes == project.cbd

\* A node's own id, and its cbd_companion_id.
P(n) == <<n, "primary">>
C(n) == <<n, "replaced">>
Ids == {P(n) : n \in Nodes} \cup {C(n) : n \in Nodes}

Hash == [Nodes -> Wanted]
NoHash == [n \in Nodes |-> Undeclared]
NoIds == [n \in Nodes |-> 0]
Row == [status: {"none", "creating", "created"}, hash: Hash, name: Wanted, phys: Nat,
        saw: [Nodes -> Nat]]
NoRow == [status |-> "none", hash |-> NoHash, name |-> Undeclared, phys |-> 0, saw |-> NoIds]
Resource == [name: Names, phys: Nat]
Undo == [node: Nodes, kind: {"create", "update", "replace", "delete", "cbd"}, phys: Nat,
         saw: [Nodes -> Nat]]

Phases == {"idle", "start", "predelete", "forward", "destroy", "unwind", "stop", "rollback"}
ProviderSteps == {"create", "update", "delete", "deleteLeft"}
CheckedWrites == {"ahead", "companion", "persist"}
StateWrites == CheckedWrites \cup {"forget", "forgetLeft", "dropCompanion"}
UndoAwaits == {"stale", "deleteNew", "updateOld", "recreate", "restore", "restoreNew", "drop",
               "dropCompanion"}

\* Rows, resources and a run's state keep their types.
TypeOK ==
    /\ project \in Projects
    /\ row \in [Ids -> Row]
    /\ live \in [Nodes -> SUBSET Resource]
    /\ minted \in Nat
    /\ phase \in Phases
    /\ config \in [Nodes -> Wanted]
    /\ prior \in [Ids -> Row]
    /\ outs \in [Nodes -> Nat]
    /\ predeleted \subseteq Ids /\ deleteIds \subseteq Ids /\ deferred \subseteq Nodes
    /\ todo \in [Ids -> Seq(ProviderSteps \cup StateWrites)]
    /\ inflight \subseteq Ids
    /\ saga \in Seq(Undo)
    /\ at \in 0..Len(saga)
    /\ undo \in Seq(UndoAwaits)
    /\ seen \in [Ids -> Row]
    /\ recreated \in Nat
    /\ undone \in BOOLEAN /\ lost \in BOOLEAN
    /\ runs \in 0..MaxRuns /\ faults \in 0..MaxFaults
    /\ unmarked \subseteq Nodes /\ aimed \subseteq project.configs /\ there \subseteq Nodes

NothingToDo == [i \in Ids |-> <<>>]

Init ==
    /\ project \in Projects
    /\ row = [i \in Ids |-> NoRow]
    /\ live = [n \in Nodes |-> {}]
    /\ minted = 0
    /\ phase = "idle"
    /\ config = NoHash
    /\ prior = [i \in Ids |-> NoRow]
    /\ outs = NoIds
    /\ predeleted = {} /\ deleteIds = {} /\ deferred = {}
    /\ todo = NothingToDo /\ inflight = {}
    /\ saga = <<>> /\ at = 0 /\ undo = <<>>
    /\ seen = [i \in Ids |-> NoRow]
    /\ recreated = 0 /\ undone = TRUE /\ lost = FALSE
    /\ runs = 0 /\ faults = 0 /\ unmarked = {} /\ aimed = {} /\ there = {}

-----------------------------------------------------------------------------
(***************************************************************************)
(* The plan: what the diff makes of each id.                               *)
(***************************************************************************)
\* Everything a node depends on.
Upstream(n) == {m \in Nodes : \A S \in SUBSET Nodes :
                   Deps[n] \subseteq S /\ (\A k \in S : Deps[k] \subseteq S) => m \in S}

\* The Merkle hash: the node's own inputs and those of everything it depends on.
HashOf(c, n) == [m \in Nodes |-> IF m \in Upstream(n) \cup {n} THEN c[m] ELSE Undeclared]

\* Consumed.MOVED: a value the row recorded is not what its upstream's row holds.
Moved(rows, n) == \E d \in Deps[n] : /\ rows[P(d)].phys # 0
                                     /\ rows[P(n)].saw[d] # rows[P(d)].phys

\* change_for and classify_node.
Classify(rows, c, n) ==
    LET have == rows[P(n)]
    IN IF c[n] = Undeclared THEN (IF have.status = "none" THEN "none" ELSE "delete")
       ELSE IF have.status # "created" THEN "create"
       ELSE IF have.name # c[n] THEN "replace"
       ELSE IF have.hash = HashOf(c, n) /\ ~Moved(rows, n) THEN "noop" ELSE "update"

\* diff: a NOOP below an upstream that is recreated is pulled back in.
PlanOf(rows, c, n) ==
    IF /\ Classify(rows, c, n) = "noop"
       /\ \E u \in Upstream(n) : Classify(rows, c, u) \in {"create", "replace"}
    THEN "update" ELSE Classify(rows, c, n)

Change(n) == PlanOf(prior, config, n)

\* effective_cbd: the declared ones and what they depend on.
CreateFirst(n) ==
    \E m \in CBDNodes : config[m] # Undeclared /\ (n = m \/ n \in Upstream(m))
DestroyFirst(n) == Change(n) = "replace" /\ ~CreateFirst(n)

\* The DELETEs: dropped nodes, and companions left by an earlier replace.
Dropped == {P(n) : n \in {m \in Nodes : Change(m) = "delete"}}
             \cup {C(n) : n \in {m \in Nodes : prior[C(m)].status # "none"}}
DestroyedHere == Dropped \cup {P(n) : n \in {m \in Nodes : DestroyFirst(m)}}

\* Deletes.predeletes: the least set holding every id destroyed this run that
\* depended on a destroy-first node or on a member.
Predeletes ==
    {i \in DestroyedHere : \A S \in SUBSET DestroyedHere :
        (\A j \in DestroyedHere :
            (\E d \in Deps[j[1]] : DestroyFirst(d) \/ P(d) \in S) => j \in S) => i \in S}

-----------------------------------------------------------------------------
(***************************************************************************)
(* The run's phases, and the awaits of each id's task in them.             *)
(***************************************************************************)
\* predelete_node: delete_node or _predestroy.
PredeleteSteps(i, first) ==
    IF i \notin first THEN <<>>
    ELSE IF i \in Dropped THEN <<"delete", "forget">>
    ELSE <<"ahead", "delete">>

\* Replacements._replace_cbd and _replace_dbc.
ReplaceSteps(n) ==
    CASE CreateFirst(n) /\ C(n) \in deleteIds ->
             <<"deleteLeft", "forgetLeft", "companion", "ahead", "create", "persist">>
      [] CreateFirst(n) /\ C(n) \notin deleteIds -> <<"companion", "ahead", "create", "persist">>
      [] ~CreateFirst(n) /\ P(n) \in predeleted -> <<"create", "persist">>
      [] OTHER -> <<"ahead", "delete", "create", "persist">>

\* _apply_one: _create, _update, replace; then persist.
ApplySteps(n) ==
    CASE Change(n) = "create" -> <<"ahead", "create", "persist">>
      [] Change(n) = "update" -> <<"update", "persist">>
      [] Change(n) = "replace" -> ReplaceSteps(n)
      [] OTHER -> <<>>

DestroyUncleaned(i) == IF i \in deleteIds THEN <<"delete", "forget">> ELSE <<>>

\* _destroy_node: cbd_cleanup or delete_node.
DestroySteps(i) ==
    IF i[2] = "primary" /\ i[1] \in deferred THEN <<"delete", "dropCompanion">>
    ELSE IF i \in deleteIds THEN <<"delete", "forget">> ELSE <<>>

\* A run re-diffs under its lease (wire).
StartRun(c) ==
    /\ phase = "idle" /\ runs < MaxRuns
    /\ phase' = "start"
    /\ config' = c
    /\ prior' = row
    /\ outs' = [n \in Nodes |-> row[P(n)].phys]
    /\ runs' = runs + 1
    /\ aimed' = aimed \cup {c}
    /\ there' = {n \in Nodes : \E r \in live[n] : r.phys = row[P(n)].phys}
    /\ UNCHANGED <<row, live, minted, predeleted, deleteIds, deferred, saga, todo, inflight, lost,
                   rolling, project, faults, unmarked>>

\* Phase 0.
Predelete ==
    LET first == Predeletes
    IN /\ phase = "start"
       /\ phase' = "predelete"
       /\ predeleted' = first
       /\ deleteIds' = Dropped \ first
       /\ todo' = [i \in Ids |-> PredeleteSteps(i, first)]
       /\ UNCHANGED <<row, live, minted, config, prior, there, outs, deferred, saga, inflight, lost,
                      rolling, count>>

\* Phase 1.  A create-first replace brings the DELETE of its old companion forward.
Forward ==
    /\ phase = "predelete" /\ todo = NothingToDo
    /\ phase' = "forward"
    /\ todo' = [i \in Ids |-> IF i[2] = "primary" THEN ApplySteps(i[1]) ELSE <<>>]
    /\ deleteIds' = deleteIds \ {C(n) : n \in {m \in Nodes : Change(m) = "replace" /\ CreateFirst(m)}}
    /\ UNCHANGED <<row, live, minted, plan, outs, deferred, saga, inflight, lost, rolling, count>>

\* Phase 2.
Destroy ==
    /\ phase = "forward" /\ todo = NothingToDo
    /\ phase' = "destroy"
    /\ todo' = [i \in Ids |-> DestroySteps(i)]
    /\ UNCHANGED <<row, live, minted, plan, work, inflight, lost, rolling, count>>

\* The run is over, and its RunContext with it.
Ended ==
    /\ phase' = "idle"
    /\ prior' = [i \in Ids |-> NoRow] /\ seen' = [i \in Ids |-> NoRow]
    /\ outs' = NoIds
    /\ predeleted' = {} /\ deleteIds' = {} /\ deferred' = {}
    /\ todo' = NothingToDo /\ inflight' = {}
    /\ saga' = <<>> /\ at' = 0 /\ undo' = <<>>
    /\ recreated' = 0 /\ undone' = TRUE /\ lost' = FALSE /\ there' = {}
    /\ UNCHANGED config

\* The run completes.
Complete ==
    /\ phase = "destroy" /\ todo = NothingToDo
    /\ Ended
    /\ aimed' = IF aimed = {config} /\ unmarked = {} THEN {} ELSE aimed
    /\ UNCHANGED <<row, live, minted, project, runs, faults, unmarked>>

\* run_graph: forward a node waits for what it depends on, in reverse for its
\* dependents.
Ready(i) ==
    /\ todo[i] # <<>>
    /\ IF phase = "forward" THEN \A d \in Deps[i[1]] : todo[P(d)] = <<>>
       ELSE i[2] = "primary" =>
                \A m \in Nodes : i[1] \in Deps[m] => todo[P(m)] = <<>> /\ todo[C(m)] = <<>>
Working == {"predelete", "forward", "destroy"}

\* The next await of i's task is `step`.
Awaits(i, step) == phase \in Working /\ Ready(i) /\ Head(todo[i]) = step
Advance(i) == todo' = [todo EXCEPT ![i] = Tail(@)] /\ UNCHANGED <<phase, inflight, lost>>

-----------------------------------------------------------------------------
(***************************************************************************)
(* Provider calls.  A create of a name that exists adopts it               *)
(* (create_or_adopt), a delete of what is gone succeeds (ignore_missing),  *)
(* an update of what is gone fails.                                        *)
(***************************************************************************)
Named(n, name) == {r \in live[n] : r.name = name}
Exists(n, phys) == \E r \in live[n] : r.phys = phys

\* The id a create of `name` answers, and what it makes.
CreatedId(n, name) == IF Named(n, name) = {} THEN minted + 1
                      ELSE (CHOOSE r \in Named(n, name) : TRUE).phys
MakeLive(n, name) ==
    IF Named(n, name) = {}
    THEN /\ live' = [live EXCEPT ![n] = @ \cup {[name |-> name, phys |-> minted + 1]}]
         /\ minted' = minted + 1
    ELSE UNCHANGED <<live, minted>>

\* The resource a row describes is deleted: found by its id, or without one by name.
Remove(n, r) ==
    /\ live' = [live EXCEPT ![n] = {x \in @ : IF r.phys # 0 THEN x.phys # r.phys
                                                           ELSE x.name # r.name}]
    /\ UNCHANGED minted

\* What the node's refs resolve to now (ref_digests).
Saw(n) == [m \in Nodes |-> IF m \in Deps[n] THEN outs[m] ELSE 0]

Recorded(n, kind, phys) ==
    saga' = IF project.rollback THEN Append(saga, [node |-> n, kind |-> kind, phys |-> phys, saw |-> Saw(n)])
            ELSE saga

\* provider.create, then live_outputs and the undo.
Create(n) ==
    LET id == CreatedId(n, config[n])
        kind == IF Change(n) = "create" \/ P(n) \in predeleted THEN "create"
                ELSE IF CreateFirst(n) THEN "cbd" ELSE "replace"
    IN /\ Awaits(P(n), "create")
       /\ MakeLive(n, config[n])
       /\ outs' = [outs EXCEPT ![n] = id]
       /\ deferred' = IF kind = "cbd" THEN deferred \cup {n} ELSE deferred
       /\ Recorded(n, kind, id)
       /\ Advance(P(n))
       /\ UNCHANGED <<row, plan, deleteIds, rolling, count>>

\* provider.update, then its undo.
Update(n) ==
    /\ Awaits(P(n), "update")
    /\ Exists(n, prior[P(n)].phys)
    /\ Recorded(n, "update", prior[P(n)].phys)
    /\ Advance(P(n))
    /\ UNCHANGED <<row, live, minted, plan, outs, deleteIds, deferred, rolling, count>>

\* provider.delete of what the prior row describes; _predestroy records its undo.
Delete(i) ==
    /\ Awaits(i, "delete")
    /\ Remove(i[1], prior[i])
    /\ IF phase = "predelete" /\ i \notin Dropped THEN Recorded(i[1], "delete", 0)
       ELSE UNCHANGED saga
    /\ Advance(i)
    /\ UNCHANGED <<row, plan, outs, deleteIds, deferred, rolling, count>>

\* The DELETE of an old companion, brought forward.
DeleteLeft(n) ==
    /\ Awaits(P(n), "deleteLeft")
    /\ Remove(n, prior[C(n)])
    /\ Advance(P(n))
    /\ UNCHANGED <<row, plan, work, rolling, count>>

-----------------------------------------------------------------------------
(***************************************************************************)
(* State writes (records.py).                                              *)
(***************************************************************************)
\* The rows once the write `step` of i's task has landed.
Written(i, step) ==
    LET n == i[1]
        new(status, phys) == [status |-> status, hash |-> HashOf(config, n), name |-> config[n],
                              phys |-> phys, saw |-> Saw(n)]
    IN CASE step = "ahead" -> [row EXCEPT ![P(n)] = new("creating", 0)]
         [] step = "persist" -> [row EXCEPT ![P(n)] = new("created", outs[n])]
         [] step = "companion" -> [row EXCEPT ![C(n)] = prior[P(n)]]
         [] step = "forget" -> [row EXCEPT ![i] = NoRow]
         [] step \in {"forgetLeft", "dropCompanion"} -> [row EXCEPT ![C(n)] = NoRow]

Write(i, step) ==
    /\ Awaits(i, step)
    /\ row' = Written(i, step)
    /\ Advance(i)
    /\ UNCHANGED <<live, minted, plan, work, rolling, count>>

-----------------------------------------------------------------------------
(***************************************************************************)
(* Failures.  The first one cancels every other task (TaskGroup): each     *)
(* stops at the await it is in, whose effect may have happened or not.  A  *)
(* forward failure then rolls back; one in phase 2 does not.               *)
(***************************************************************************)
Halt(stopped) ==
    /\ phase' = IF phase = "destroy" THEN "stop" ELSE "unwind"
    /\ inflight' = {j \in Ids : Ready(j)} \ stopped

\* What the provider may have done of a call that did not return.
MaybeCalled(i) ==
    LET step == Head(todo[i])
    IN \/ UNCHANGED <<live, minted>>
       \/ step = "create" /\ MakeLive(i[1], config[i[1]])
       \/ step = "delete" /\ Remove(i[1], prior[i])
       \/ step = "deleteLeft" /\ Remove(i[1], prior[C(i[1])])

\* A provider call fails, or runs into node_timeout.
ProviderFails(i) ==
    /\ phase \in Working /\ Ready(i) /\ Head(todo[i]) \in ProviderSteps
    /\ faults < MaxFaults
    /\ faults' = faults + 1
    /\ MaybeCalled(i)
    /\ Halt({i})
    /\ UNCHANGED <<row, plan, work, todo, lost, rolling, project, runs, unmarked, aimed>>

UpdateGone(n) ==
    /\ Awaits(P(n), "update")
    /\ ~Exists(n, prior[P(n)].phys)
    /\ Halt({P(n)})
    /\ UNCHANGED <<row, live, minted, plan, work, todo, lost, rolling, count>>

\* forget: a row that could not be dropped is marked stale instead.
MarkForgotten(i) ==
    LET id == IF Head(todo[i]) = "forgetLeft" THEN C(i[1]) ELSE i
    IN IF Head(todo[i]) \in {"forget", "forgetLeft"}
       THEN row' = [row EXCEPT ![id].hash = NoHash] ELSE UNCHANGED row

WriteFails(i) ==
    /\ phase \in Working /\ Ready(i) /\ Head(todo[i]) \in StateWrites
    /\ faults < MaxFaults
    /\ faults' = faults + 1
    /\ MarkForgotten(i)
    /\ Halt({i})
    /\ UNCHANGED <<live, minted, plan, work, todo, lost, rolling, project, runs, unmarked, aimed>>

\* Ctrl-C, or the heartbeat finds the lease lost: the run is cancelled.
Interrupt(leaseLost) ==
    /\ phase \in Working
    /\ faults < MaxFaults
    /\ faults' = faults + 1
    /\ lost' = leaseLost
    /\ Halt({})
    /\ UNCHANGED <<row, live, minted, plan, work, todo, rolling, project, runs, unmarked, aimed>>

\* A cancelled task's provider call had an effect, or its write still lands.
LateEffect(i) ==
    LET step == Head(todo[i])
    IN /\ phase \in {"unwind", "stop"}
       /\ i \in inflight
       /\ \/ step \in ProviderSteps /\ MaybeCalled(i) /\ UNCHANGED row
          \/ /\ step \in StateWrites
             /\ lost => step \notin CheckedWrites
             /\ row' = Written(i, step)
             /\ UNCHANGED <<live, minted>>
       /\ inflight' = inflight \ {i}
       /\ UNCHANGED <<phase, plan, work, todo, lost, rolling, count>>

\* The process dies.
Crash ==
    /\ phase # "idle"
    /\ faults < MaxFaults
    /\ faults' = faults + 1
    /\ Ended
    /\ UNCHANGED <<row, live, minted, project, runs, unmarked, aimed>>

-----------------------------------------------------------------------------
(***************************************************************************)
(* The saga (saga.py): the undos in reverse completion order.              *)
(***************************************************************************)
\* Compensator.undo_*; each is preceded by mark_stale.
UndoSteps(kind) ==
    CASE kind = "create" -> <<"stale", "deleteNew", "drop">>
      [] kind = "update" -> <<"stale", "updateOld", "restore">>
      [] kind = "replace" -> <<"stale", "deleteNew", "recreate", "restoreNew">>
      [] kind = "delete" -> <<"stale", "recreate", "restoreNew">>
      [] kind = "cbd" -> <<"stale", "deleteNew", "restore", "dropCompanion">>

\* The failed pass is unwound: the saga runs unless it is empty or the lease is lost.
Unwound ==
    /\ phase \in {"unwind", "stop"}
    /\ IF phase = "unwind" /\ saga # <<>> /\ ~lost
       THEN /\ phase' = "rollback"
            /\ at' = Len(saga)
            /\ undo' = UndoSteps(saga[Len(saga)].kind)
            /\ seen' = row
            /\ todo' = NothingToDo /\ inflight' = {}
            /\ UNCHANGED <<plan, work, lost, recreated, undone>>
       ELSE Ended
    /\ UNCHANGED <<row, live, minted, count>>

Undoing(step) == phase = "rollback" /\ undo # <<>> /\ Head(undo) = step
UndoDone == undo' = Tail(undo) /\ UNCHANGED <<run, at, seen, undone, count>>
Undone == saga[at]

UndoUnmarked ==
    /\ Undoing("stale")
    /\ UndoDone
    /\ UNCHANGED <<row, live, minted, recreated>>

\* mark_stale, from the rows read when the rollback began.
MarkStale ==
    LET i == P(Undone.node)
    IN /\ Undoing("stale")
       /\ ~lost
       /\ row' = IF seen[i].status = "none" THEN row
                 ELSE [row EXCEPT ![i] = [seen[i] EXCEPT !.hash = NoHash]]
       /\ UndoDone
       /\ UNCHANGED <<live, minted, recreated>>

\* provider.delete of what the run created.
UndoDelete ==
    /\ Undoing("deleteNew")
    /\ Remove(Undone.node, [phys |-> Undone.phys, name |-> Undeclared])
    /\ UndoDone
    /\ UNCHANGED <<row, recreated>>

\* provider.update back to the prior inputs.
UndoUpdate ==
    /\ Undoing("updateOld")
    /\ Exists(Undone.node, prior[P(Undone.node)].phys)
    /\ UndoDone
    /\ UNCHANGED <<row, live, minted, recreated>>

\* provider.create of the original.
UndoRecreate ==
    LET n == Undone.node
    IN /\ Undoing("recreate")
       /\ MakeLive(n, prior[P(n)].name)
       /\ recreated' = CreatedId(n, prior[P(n)].name)
       /\ UndoDone
       /\ UNCHANGED row

UndoVerbatim(step) ==
    LET n == Undone.node
    IN CASE step = "drop" -> [row EXCEPT ![P(n)] = NoRow]
         [] step \in {"restore", "restoreNew"} -> [row EXCEPT ![P(n)] = prior[P(n)]]
         [] step = "dropCompanion" -> [row EXCEPT ![C(n)] = NoRow]

\* The rows once an undo's write has landed.
UndoWritten(step) ==
    LET n == Undone.node
        was == prior[P(n)]
    IN CASE step = "drop" -> [row EXCEPT ![P(n)] = NoRow]
         [] step = "restore" -> [row EXCEPT ![P(n)] = was]
         [] step = "dropCompanion" -> [row EXCEPT ![C(n)] = NoRow]
         [] step = "restoreNew" ->
              [row EXCEPT ![P(n)] = [was EXCEPT !.phys = recreated,
                  !.saw = IF Undone.kind = "replace" THEN Undone.saw ELSE was.saw]]

UndoWrite(step) ==
    /\ Undoing(step)
    /\ ~lost
    /\ row' = UndoWritten(step)
    /\ UndoDone
    /\ UNCHANGED <<live, minted, recreated>>

\* What the provider may have done of an undo's call that failed.
MaybeUndone ==
    LET n == Undone.node
    IN \/ UNCHANGED <<live, minted>>
       \/ Head(undo) = "deleteNew" /\ Remove(n, [phys |-> Undone.phys, name |-> Undeclared])
       \/ Head(undo) = "recreate" /\ MakeLive(n, prior[P(n)].name)

\* A call or a write of the undo fails; a failed mark only goes without.
UndoFails ==
    /\ phase = "rollback" /\ undo # <<>>
    /\ \/ /\ faults < MaxFaults
          /\ faults' = faults + 1
       \/ /\ Head(undo) = "updateOld"
          /\ ~Exists(Undone.node, prior[P(Undone.node)].phys)
          /\ UNCHANGED faults
       \/ /\ lost /\ Head(undo) \notin {"deleteNew", "updateOld", "recreate"}
          /\ UNCHANGED faults
    /\ MaybeUndone
    /\ undo' = IF Head(undo) = "stale" THEN Tail(undo) ELSE <<>>
    /\ undone' = (undone /\ Head(undo) = "stale")
    /\ unmarked' = IF Head(undo) = "stale" THEN unmarked \cup {Undone.node} ELSE unmarked
    /\ UNCHANGED <<row, run, at, seen, recreated, project, runs, aimed>>

\* The heartbeat finds the lease lost during the rollback, which is shielded from
\* the cancellation; the undos not begun are not attempted.
RollbackLosesLease ==
    /\ phase = "rollback" /\ ~lost
    /\ faults < MaxFaults
    /\ faults' = faults + 1
    /\ lost' = TRUE
    /\ undone' = FALSE
    /\ UNCHANGED <<row, live, minted, phase, plan, work, todo, inflight, at, undo, seen, recreated,
                   project, runs, unmarked, aimed>>

\* On to the undo recorded before this one.
NextUndo ==
    /\ phase = "rollback" /\ undo = <<>> /\ at > 0
    /\ at' = at - 1
    /\ undo' = IF at = 1 \/ lost THEN <<>> ELSE UndoSteps(saga[at - 1].kind)
    /\ UNCHANGED <<row, live, minted, run, seen, recreated, undone, count>>

RollbackDone ==
    /\ phase = "rollback" /\ at = 0
    /\ Ended
    /\ UNCHANGED <<row, live, minted, count>>

Running ==
    \/ \E c \in project.configs : StartRun(c)
    \/ Predelete
    \/ Forward
    \/ Destroy
    \/ Complete
    \/ \E n \in Nodes : Create(n)
    \/ \E n \in Nodes : Update(n)
    \/ \E i \in Ids : Delete(i)
    \/ \E n \in Nodes : DeleteLeft(n)
    \/ \E i \in Ids, step \in StateWrites : Write(i, step)

Failing ==
    \/ \E i \in Ids : ProviderFails(i)
    \/ \E n \in Nodes : UpdateGone(n)
    \/ \E i \in Ids : WriteFails(i)
    \/ \E leaseLost \in BOOLEAN : Interrupt(leaseLost)
    \/ \E i \in Ids : LateEffect(i)
    \/ Crash
    \/ Unwound

RollingBack ==
    \/ MarkStale
    \/ UndoDelete
    \/ UndoUpdate
    \/ UndoRecreate
    \/ \E step \in {"drop", "restore", "restoreNew", "dropCompanion"} : UndoWrite(step)
    \/ UndoFails
    \/ RollbackLosesLease
    \/ NextUndo
    \/ RollbackDone

Next == Running \/ Failing \/ RollingBack

Spec == Init /\ [][Next]_vars

-----------------------------------------------------------------------------
(***************************************************************************)
(* Properties.  `Resumed` restricts some of them to the use the code is    *)
(* made for: a run that failed is followed by another of the same config   *)
(* until one completes, and no report said that a stale mark failed.       *)
(***************************************************************************)
Resumed == aimed \subseteq {config} /\ unmarked = {}

\* However a run ended, applying its config again never skips as NOOP a node whose
\* resource is gone: the write-ahead row, the stale marks and the undos' own writes
\* leave no window in which a `created` row with a matching hash describes a deleted
\* resource (replace.py:88-91, records.py:166-176).
ResumeSafe ==
    phase = "idle" /\ Resumed =>
        \A n \in Nodes : PlanOf(row, config, n) = "noop" => Exists(n, row[P(n)].phys)

\* A run that completes leaves the state the config asks for, whatever failed before
\* it: one confirmed row per declared node, describing the resource that exists and the
\* upstream ids that exist, no other row, and nothing to do for the next plan.
Converged ==
    phase = "idle" /\ aimed = {} =>
        /\ \A n \in Nodes : row[C(n)] = NoRow
        /\ \A n \in Nodes : config[n] = Undeclared => row[P(n)] = NoRow
        /\ \A n \in Nodes : config[n] # Undeclared =>
              /\ PlanOf(row, config, n) = "noop"
              /\ [name |-> config[n], phys |-> row[P(n)].phys] \in live[n]
              /\ \A d \in Deps[n] : row[P(n)].saw[d] = row[P(d)].phys

\* Every resource of the nodes in S that exists is named by one of the node's rows.
NamedByRow(S) ==
    \A n \in S : \A r \in live[n] :
        \E i \in {P(n), C(n)} : row[i].status # "none" /\ row[i].name = r.name

\* However a run ended, nothing is left behind that destroy could not reclaim: every
\* resource of a create_before_destroy node that exists is named by a row (write_ahead
\* before every create, and the companion row, replace.py:48-50).
CreateFirstTracked == phase = "idle" /\ Resumed => NamedByRow(CBDNodes)

\* The same of every node: "a crash mid-apply leaves a consistent state that a re-run
\* resumes from" (state/README.md:27-29).
Tracked == phase = "idle" /\ Resumed => NamedByRow(Nodes)

\* A companion and its node's own confirmed row describe the same resource.
Twins(rows, n) ==
    /\ rows[C(n)].status = "created" /\ rows[P(n)].status = "created"
    /\ rows[C(n)].phys = rows[P(n)].phys

\* A rollback that completes puts back what the run had changed: for every node it had
\* applied, the prior row (under the id of the resource that exists now), or none if
\* there was no confirmed one (saga.py, Compensator).  A create-first replace leaves the
\* old resource alone, so its row is true if it was when the run began; but for a companion
\* of the same resource, which CompanionIsOld is about.
RollbackRestores ==
    phase = "rollback" /\ at = 0 /\ undone =>
        \A k \in DOMAIN saga :
            LET n == saga[k].node
                was == prior[P(n)]
                now == row[P(n)]
            IN /\ was.status = "created" =>
                    /\ now = [was EXCEPT !.phys = now.phys, !.saw = now.saw]
                    /\ Exists(n, was.phys) => now.phys = was.phys
                    /\ saga[k].kind # "cbd" \/ (n \in there /\ ~Twins(prior, n)) =>
                           [name |-> was.name, phys |-> now.phys] \in live[n]
               /\ was.status # "created" => now = NoRow

\* A resource is deleted only once nothing of its old dependents is in the way: one
\* this run destroys is gone, one it keeps has been moved off the deleted resource
\* (phase 0, run_graph's reverse order, cbd_cleanup after the forward pass).
DependentsFirst ==
    [][\A n \in Nodes : Delete(P(n)) =>
          \A m \in {k \in Nodes : n \in Deps[k]} :
              /\ \A i \in {P(m), C(m)} \cap (DestroyedHere \cup {P(k) : k \in deferred}) :
                     prior[i].phys # 0 => ~Exists(m, prior[i].phys)
              /\ phase = "destroy" /\ config[m] # Undeclared => row[P(m)].saw[n] # prior[P(n)].phys]_vars

\* A companion never tracks the resource its node's own confirmed row tracks: the next
\* plan would delete that live resource (saga.py:116-118).
CompanionIsOld == phase = "idle" => \A n \in Nodes : ~Twins(row, n)
=============================================================================
