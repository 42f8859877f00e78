----------------------------- MODULE StackRuns -----------------------------
(***************************************************************************)
(* Commands of several operators over one store that holds the stacks of   *)
(* one config: apply (all environments, some of them, some targets),       *)
(* deploy of an artifact, destroy, refresh --write --prune and import.  A  *)
(* command plans without a lock, waits for its operator, sizes the lock    *)
(* from what it read, and acts on what it reads again under the lease; a   *)
(* run that completes publishes the outputs of its stacks.                 *)
(*                                                                         *)
(* A stack holds one resource, or none (Bare: a stack that only exports).  *)
(* The lock is a hold per node with a fence, as S3Locks and SqlLocks build *)
(* it; what happens between a provider call and the row write after it is  *)
(* Executor's, and one step here.                                          *)
(***************************************************************************)
EXTENDS Naturals, Sequences, FiniteSets, SequencesExt

CONSTANTS
    Runs,             \* command lines, each run once
    StackOrder,       \* every stack, in the order of their names
    Bare,             \* the stacks without a resource
    Environments,     \* the stacks the config's Config declares: envs_declared
    Want,             \* Want[v][n]: the input version v gives node n, or Absent
    Exports,          \* Exports[v][s]: the names stack s exports under version v
    Reads,            \* Reads[n]: the node whose output n takes, or Nobody
    Forbidden,        \* <<node, action>> pairs a mandatory policy denies
    Commands,         \* the commands a run may be given
    Stores,           \* the stores the runs may find: [rows, outs, live]
    Backends,         \* among "journal" (S3), "postgres" and "sqlite" (any file or memory store)
    TransactMax,      \* items of one DynamoDB transaction
    CasAttempts,      \* attempts of set_outputs
    MaxLapses,        \* leases that run out
    MaxLost,          \* resources that vanish out of band
    Absent, Nobody

Stacks == ToSet(StackOrder)
Nodes == Stacks \ Bare

Applies == {"apply", "applyAnyway", "deploy"}
Kinds == Applies \cup {"destroy", "refresh", "import"}
ASSUME CommandsAssumption == \A c \in Commands : c.kind \in Kinds

\* A stack with a resource exports one output of it, named x, or none.
ASSUME ExportsAssumption ==
    \A c \in Commands : \A n \in Nodes : Exports[c.version][n] \subseteq {"x"}

\* The stores the runs find were published by the runs before them.
ASSUME StoresAssumption ==
    \A s \in Stores :
        /\ DOMAIN s.rows = Nodes
        /\ \A n \in Nodes : /\ DOMAIN s.outs[n] \subseteq {"x"}
                            /\ "x" \in DOMAIN s.outs[n] =>
                                   s.rows[n] # Absent /\ s.outs[n]["x"] = s.rows[n].spec

VARIABLES
    backend,  \* the journal caches what it reads and keeps outputs by CAS; SQL does neither
    rows,     \* rows[n]: [spec, via, got], or Absent
    live,     \* the nodes whose resource exists
    outs,     \* outs[s]: [seq, map], the committed outputs of a stack
    holder,   \* holder[n]: the run whose unexpired hold covers n, or Nobody
    fence,    \* fence[n]: the fence of the last hold on n; on SQL of its hold row, 0 without one
    epoch,    \* fences handed out
    run,      \* run[r]: where the command of r stands
    lapses, lost,
    stale,    \* the nodes whose outputs lag their row: a run wrote the row and did not publish
    overtaken, \* the nodes whose outputs a run committed that no longer held them
    ledger    \* ledger[s]: what the runs that committed outputs meant s to hold

store == <<rows, live, outs>>
locks == <<holder, fence, epoch>>
ghosts == <<stale, overtaken, ledger>>
vars == <<backend, store, locks, run, lapses, lost, ghosts>>

-----------------------------------------------------------------------------
(***************************************************************************)
(* A config, evaluated for the environments a command selects.              *)
(***************************************************************************)
Specs == UNION {{Want[v][n] : n \in Nodes} : v \in DOMAIN Want}

\* Compiled.envs_excluded.  An artifact of an older build recorded no environments.
Excluded(c) == IF c.seal = "old" THEN {} ELSE Environments \ c.envs

Evaluated(c) == {n \in Nodes : Want[c.version][n] # Absent /\ n \notin Environments \ c.envs}
Declares(c, s) ==
    IF s \in Environments \ c.envs \/ (s \in Nodes /\ Want[c.version][s] = Absent)
    THEN {} ELSE Exports[c.version][s]

\* inline_stack_outputs: a reference to an output this evaluation declares becomes a
\* reference to the resource behind it, and an edge; any other waits for the committed one.
Via(c, n) == CASE Reads[n] = Nobody -> "literal"
               [] Reads[n] # Nobody /\ Declares(c, Reads[n]) # {} -> "ref"
               [] OTHER -> "output"

\* closure over edges: what S depends on, and what depends on S.
Closure(S, Edge(_, _)) ==
    LET reach[k \in 0..Cardinality(Nodes)] ==
            IF k = 0 THEN S
            ELSE reach[k - 1] \cup {m \in Nodes : \E n \in reach[k - 1] : Edge(n, m)}
    IN reach[Cardinality(Nodes)]
Tracked(rs) == {n \in Nodes : rs[n] # Absent}
ReadsRow(rs, n, m) == rs[n] # Absent /\ rs[n].via = "ref" /\ Reads[n] = m

-----------------------------------------------------------------------------
(***************************************************************************)
(* Plans: the changes of a command over the rows rs, as [n |-> [act, fields]]. *)
(***************************************************************************)
\* match_targets: a pattern that names nothing is an error.
KnownTargets(c, rs) == c.targets \subseteq Evaluated(c) \cup Tracked(rs)

\* target_selection
Targeted(c) ==
    c.targets \cup
    Closure(c.targets \cap Evaluated(c), LAMBDA n, m : Via(c, n) = "ref" /\ Reads[n] = m)

\* within_envs
Selected(c) == (IF c.targets = {} THEN Nodes ELSE Targeted(c)) \ Excluded(c)

\* diff: the fields in which node n's row is not what the config asks for.  A reference
\* moved when its source will hold another value than the row was written with.
Moved(c, rs, n) ==
    {f \in {"spec", "read"} :
        IF f = "spec" THEN rs[n].spec # Want[c.version][n]
        ELSE \/ rs[n].via # Via(c, n)
             \/ Via(c, n) = "ref" /\ rs[n].got # Want[c.version][Reads[n]]}

Changes(c, rs) ==
    LET change(n) ==
            IF n \notin Evaluated(c) THEN [act |-> "delete", fields |-> {}]
            ELSE IF rs[n] = Absent THEN [act |-> "create", fields |-> {}]
            ELSE [act |-> "update", fields |-> Moved(c, rs, n)]
    IN [n \in {m \in Selected(c) \cap (Evaluated(c) \cup Tracked(rs)) :
                  change(m).act = "update" => change(m).fields # {}} |-> change(n)]

\* _require_stack_outputs: every changed node that takes a committed output finds it.
OutputsKnown(c, rs, os) ==
    \A n \in DOMAIN Changes(c, rs) :
        (IF n \in Evaluated(c) THEN Via(c, n) ELSE rs[n].via) = "output"
            => DOMAIN os[Reads[n]] # {}

\* Planner.build, and match_targets and within_envs before it: whether there is a plan.
PlanStands(c, rs, os) ==
    /\ KnownTargets(c, rs)
    /\ c.targets # {} => Selected(c) # {}
    /\ OutputsKnown(c, rs, os)

\* Plan.blocked: evaluate_policies over the actionable changes.
Blocked(plan) == \E n \in DOMAIN plan : <<n, plan[n].act>> \in Forbidden

\* destroy_selection, destroy_changeset: the targets and what the rows say depends on them.
Doomed(c, rs) ==
    IF c.targets = {} THEN Tracked(rs)
    ELSE Closure(c.targets, LAMBDA n, m : ReadsRow(rs, m, n)) \cap Tracked(rs)
DestroyPlan(c, rs) == [n \in Doomed(c, rs) |-> [act |-> "delete", fields |-> {}]]

\* artifact.loads, verify_hash: an artifact that does not hash to its anchor is refused.
Intact(c) == c.seal # "altered"

\* verify_artifact and compiled_from_artifact: the hash, and the environments an artifact
\* records.
Accepted(c) == /\ Intact(c)
               /\ c.seal = "old" => c.envs = {}

-----------------------------------------------------------------------------
(***************************************************************************)
(* State.                                                                   *)
(***************************************************************************)
Fresh == <<>>       \* no view: the next read goes to the store
Idle == [at |-> "idle", cmd |-> Nobody, shown |-> <<>>, view |-> Fresh, scope |-> {},
         lease |-> 0, todo |-> <<>>, had |-> {}, known |-> <<>>, env |-> <<>>,
         pub |-> <<>>, drop |-> {}, rest |-> {}, moved |-> {}, tries |-> 0]

Init ==
    /\ backend \in Backends
    /\ \E s \in Stores :
          /\ rows = s.rows
          /\ live = s.live
          /\ outs = [t \in Stacks |-> [seq |-> 0, map |-> s.outs[t]]]
          /\ ledger = s.outs
    /\ holder = [n \in Nodes |-> Nobody]
    /\ fence = [n \in Nodes |-> 0]
    /\ epoch = 0
    /\ run = [r \in Runs |-> Idle]
    /\ lapses = 0 /\ lost = 0
    /\ stale = {} /\ overtaken = {}


Maps == [s \in Stacks |-> outs[s].map]
Cut == [rows |-> rows, seqs |-> [s \in Stacks |-> outs[s].seq], outs |-> Maps]

\* ViewCache.ensure: the journal keeps one view, the SQL stores read each time.
View(r) == IF run[r].view = Fresh THEN Cut ELSE run[r].view

Ended(place) == [Idle EXCEPT !.at = place]
At(r, place) == run[r].at = place

-----------------------------------------------------------------------------
(***************************************************************************)
(* Before the lock.                                                         *)
(***************************************************************************)
\* runner_for_plan: a plan a mandatory policy denies is not run.
RunnerForPlan(plan) == ~Blocked(plan)

\* What each command line does before it goes to the engine, over the state it reads.  An
\* apply ends when there is no plan, nothing pending or a policy denies it; a destroy when
\* there is nothing to destroy; a refresh when there are no rows.
ApplyGoes(c) == LET plan == Changes(c, rows)
                IN PlanStands(c, rows, Maps) /\ plan # <<>> /\ RunnerForPlan(plan)
DestroyGoes(c) == c.targets \subseteq Tracked(rows) /\ DestroyPlan(c, rows) # <<>>
RefreshGoes(c) == Tracked(rows) # {}
ImportGoes(c) == c.targets \subseteq Evaluated(c)
DeployGoes(c) == Accepted(c)

\* Apply and destroy show their operator what they will do, and wait; the others ask
\* nothing of a plan.
Shown(c) == CASE c.kind \in {"apply", "applyAnyway"} -> Changes(c, rows)
              [] c.kind = "destroy" -> DestroyPlan(c, rows)
              [] OTHER -> <<>>
Show(r) ==
    /\ At(r, "idle")
    /\ \E c \in Commands :
          LET goes == CASE c.kind \in {"apply", "applyAnyway"} -> ApplyGoes(c)
                        [] c.kind = "destroy" -> DestroyGoes(c)
                        [] c.kind = "refresh" -> RefreshGoes(c)
                        [] c.kind = "import" -> ImportGoes(c)
                        [] c.kind = "deploy" -> DeployGoes(c)
          IN run' = [run EXCEPT ![r] =
                IF ~goes THEN Ended("failed")
                ELSE [Idle EXCEPT !.at = "shown", !.cmd = c, !.shown = Shown(c),
                                  !.view = IF backend = "journal" /\ c.kind \notin {"deploy", "import"}
                                           THEN Cut ELSE Fresh]]
    /\ UNCHANGED <<backend, store, locks, lapses, lost, ghosts>>

\* apply_scope: the whole desired graph and every row.
ApplyScope(c, rs) == Evaluated(c) \cup Tracked(rs)

\* apply_compiled, Engine.destroy, Engine.refresh, import_nodes: the gating plan over the
\* state read now, and the scope of the lock.
Gate(r) ==
    /\ At(r, "shown")
    /\ LET c == run[r].cmd
           rs == View(r).rows
           plan == Changes(c, rs)
           stands == CASE c.kind \in Applies -> PlanStands(c, rs, View(r).outs) /\ RunnerForPlan(plan)
                       [] c.kind = "destroy" -> c.targets \subseteq Tracked(rs)
                       [] OTHER -> TRUE
           scope == CASE c.kind \in Applies -> ApplyScope(c, rs)
                      [] c.kind = "import" -> c.targets
                      [] OTHER -> Tracked(rs)
       IN run' = [run EXCEPT ![r] =
             IF ~stands THEN Ended("failed")
             ELSE [@ EXCEPT !.at = "waits", !.scope = scope, !.view = Fresh]]
    /\ UNCHANGED <<backend, store, locks, lapses, lost, ghosts>>

\* with_lock: every node of the scope or none, under a fresh fence; an acquire drops the
\* view.  A scope another run holds refuses the command.
Acquire(r) ==
    /\ At(r, "waits")
    /\ IF \E n \in run[r].scope : holder[n] # Nobody
       THEN /\ run' = [run EXCEPT ![r] = Ended("failed")]
            /\ UNCHANGED locks
       ELSE /\ epoch' = epoch + 1
            /\ holder' = [n \in Nodes |-> IF n \in run[r].scope THEN r ELSE holder[n]]
            /\ fence' = [n \in Nodes |-> IF n \in run[r].scope THEN epoch + 1 ELSE fence[n]]
            /\ run' = [run EXCEPT ![r] = [@ EXCEPT !.at = "locked", !.lease = epoch + 1,
                                                   !.view = Fresh]]
    /\ UNCHANGED <<backend, store, lapses, lost, ghosts>>

-----------------------------------------------------------------------------
(***************************************************************************)
(* Under the lease.                                                         *)
(***************************************************************************)
\* _unbind_and_release: the holds the run still has.  SQL deletes their rows.
Released(r) == [n \in Nodes |-> IF holder[n] = r THEN Nobody ELSE holder[n]]
Dropped(r) == [n \in Nodes |-> IF fence[n] = run[r].lease THEN 0 ELSE fence[n]]
Stop(r, place) ==
    /\ run' = [run EXCEPT ![r] = Ended(place)]
    /\ holder' = Released(r)
    /\ fence' = IF backend = "journal" THEN fence ELSE Dropped(r)

\* The fences every write is judged by.  The journal keeps a node's last fence.  SQL has
\* the hold rows there are: none of a node lets a run in whose scope it is, so that a
\* write sent before a takeover lands after the taker's release.
Held(r, n) == fence[n] = run[r].lease
StillHolds(r, S) ==
    \A n \in S : \/ Held(r, n) /\ (backend # "journal" => holder[n] = r)
                 \/ backend # "journal" /\ fence[n] = 0

\* Mutant: rows that appeared meanwhile are not looked at.
NewNodesOverlooked(scope, rs) == TRUE

\* require_no_new_nodes: no row appeared outside the scope.
RequireNoNewNodes(scope, rs) == Tracked(rs) \subseteq scope

\* Engine.refresh hands refresh the rows its lease covers; the others get all of them.
Covered(c, scope, rs) ==
    IF c.kind = "refresh" THEN [n \in Nodes |-> IF n \in scope THEN rs[n] ELSE Absent] ELSE rs

\* Mutant: the apply runs what it finds under the lease.
DriftAllowed(c, shown, plan) == FALSE

\* raise_drift: an apply runs the changes it showed, or none.
RaiseDrift(c, shown, plan) == c.kind = "apply" /\ plan # shown

\* What run_locked's body makes of the state it read: the work, or a refusal.
Work(c, rs) ==
    CASE c.kind \in Applies -> Changes(c, rs)
      [] c.kind = "destroy" -> DestroyPlan(c, rs)
      [] c.kind = "refresh" -> [n \in Tracked(rs) |-> [act |-> "check", fields |-> {}]]
      [] c.kind = "import" -> [n \in c.targets |-> [act |-> "adopt", fields |-> {}]]

Refuses(r, rs) ==
    LET c == run[r].cmd IN
    CASE c.kind \in Applies ->
            \/ ~RequireNoNewNodes(run[r].scope, rs)
            \/ ~PlanStands(c, rs, View(r).outs)
            \/ RaiseDrift(c, run[r].shown, Changes(c, rs))
            \/ ~RunnerForPlan(Changes(c, rs))
      [] c.kind = "destroy" ->
            ~RequireNoNewNodes(run[r].scope, rs) \/ ~(c.targets \subseteq Tracked(rs))
      [] OTHER -> FALSE

\* _run_then_checkpoint: load, and the re-planned run over it; env() snapshots the outputs
\* and live_outputs the values of every row.
Load(r) ==
    /\ At(r, "locked")
    /\ LET c == run[r].cmd
           rs == Covered(c, run[r].scope, View(r).rows)
       IN IF Refuses(r, rs) THEN Stop(r, "failed")
          ELSE /\ run' = [run EXCEPT ![r] =
                     [@ EXCEPT !.at = "works",
                               !.todo = Work(c, rs), !.had = Tracked(View(r).rows),
                               !.known = [n \in Tracked(rs) |-> rs[n].spec],
                               !.env = View(r).outs,
                               !.view = IF backend = "journal" THEN [View(r) EXCEPT !.rows = <<>>]
                                        ELSE Fresh]]
               /\ UNCHANGED <<holder, fence>>
    /\ UNCHANGED <<backend, store, epoch, lapses, lost, ghosts>>

\* run_graph: dependencies first, then the deletes, dependents first; an import in
\* dependency order.
Ready(r, n) ==
    LET todo == run[r].todo
        forward(m) == m \in DOMAIN todo /\ todo[m].act # "delete"
        c == run[r].cmd
    IN IF forward(n)
       THEN todo[n].act # "check" /\ Via(c, n) = "ref" => ~forward(Reads[n])
       ELSE \A m \in DOMAIN todo : ~forward(m) /\ ~ReadsRow(rows, m, n)

\* resolve_refs, resolve_stack_refs: the value a node takes from elsewhere.
Resolves(r, n) ==
    CASE Via(run[r].cmd, n) = "ref" -> Reads[n] \in DOMAIN run[r].known
      [] Via(run[r].cmd, n) = "output" -> DOMAIN run[r].env[Reads[n]] # {}
      [] OTHER -> TRUE
Resolved(r, n) ==
    CASE Via(run[r].cmd, n) = "ref" -> run[r].known[Reads[n]]
      [] Via(run[r].cmd, n) = "output" -> run[r].env[Reads[n]]["x"]
      [] OTHER -> Absent
Row(r, n) == [spec |-> Want[run[r].cmd.version][n], via |-> Via(run[r].cmd, n),
              got |-> Resolved(r, n)]

\* One node of a run: what it does to the row and to the resource.
Done(r, n, row, alive) ==
    /\ rows' = [rows EXCEPT ![n] = row]
    /\ live' = IF alive THEN live \cup {n} ELSE live \ {n}
    /\ stale' = IF row = rows[n] THEN stale ELSE stale \cup {n}
    /\ run' = [run EXCEPT ![r] =
          [@ EXCEPT !.todo = [m \in DOMAIN run[r].todo \ {n} |-> run[r].todo[m]],
                    !.known = [m \in (DOMAIN run[r].known \ {n})
                                        \cup (IF row = Absent THEN {} ELSE {n})
                                 |-> IF m = n THEN row.spec ELSE run[r].known[m]]]]
    /\ UNCHANGED <<backend, outs, locks, lapses, lost, overtaken, ledger>>

Write(r, n) == /\ At(r, "works") /\ n \in DOMAIN run[r].todo /\ Ready(r, n)
               /\ StillHolds(r, {n})

Put(r, n) == /\ Write(r, n) /\ run[r].todo[n].act \in {"create", "update"}
             /\ Resolves(r, n)
             /\ Done(r, n, Row(r, n), TRUE)

Delete(r, n) == /\ Write(r, n) /\ run[r].todo[n].act = "delete"
                /\ Done(r, n, Absent, FALSE)

\* refresh --write --prune: a row whose resource the provider does not find is dropped.
Check(r, n) == /\ Write(r, n) /\ run[r].todo[n].act = "check"
               /\ Done(r, n, IF n \in live THEN rows[n] ELSE Absent, n \in live)

\* adopt: a declared, untracked node whose upstream is tracked and whose resource exists.
Adopt(r, n) ==
    /\ Write(r, n) /\ run[r].todo[n].act = "adopt"
    /\ LET adopts == n \in Evaluated(run[r].cmd) /\ n \notin run[r].had /\ n \in live
                     /\ Resolves(r, n)
       IN Done(r, n, IF adopts THEN Row(r, n) ELSE rows[n], n \in live)

\* A provider error, an unresolved output, a refused write or a lost lease ends the run;
\* what it did stays (on_failure halt).
Fail(r) ==
    /\ run[r].at \in {"works", "publishes", "chunks"}
    /\ Stop(r, "failed")
    /\ UNCHANGED <<backend, store, epoch, lapses, lost, ghosts>>

-----------------------------------------------------------------------------
(***************************************************************************)
(* Outputs.                                                                 *)
(***************************************************************************)
\* commit_outputs: the exports that resolve; one over a row that does not exist is skipped.
Published(r) ==
    LET c == run[r].cmd
        resolves(s) == s \in Bare \/ s \in DOMAIN run[r].known
    IN [s \in {t \in Stacks : Declares(c, t) # {} /\ resolves(t)} |->
           [k \in Declares(c, s) |-> IF s \in Bare THEN c.version ELSE run[r].known[s]]]

DeclaredBy(r, s) == IF run[r].cmd.kind = "destroy" THEN {} ELSE Declares(run[r].cmd, s)

\* retired_outputs: the committed names of this run's stacks that it no longer declares.
Mine(r) == run[r].had \cup (IF run[r].cmd.kind = "destroy" THEN {} ELSE Evaluated(run[r].cmd))
RetiredOutputs(r) ==
    {p \in Mine(r) \X {"x", "y"} : p[2] \in DOMAIN View(r).outs[p[1]] \ DeclaredBy(r, p[1])}

Publish(r) ==
    /\ At(r, "works") /\ run[r].todo = <<>>
    /\ IF run[r].cmd.kind \in {"refresh", "import"} THEN Stop(r, "over")
       ELSE /\ run' = [run EXCEPT ![r] =
                  [@ EXCEPT !.at = "publishes", !.env = <<>>,
                            !.pub = IF run[r].cmd.kind = "destroy" THEN <<>> ELSE Published(r),
                            !.drop = RetiredOutputs(r)]]
            /\ UNCHANGED <<holder, fence>>
    /\ UNCHANGED <<backend, store, epoch, lapses, lost, ghosts>>

\* merge_outputs over what a stack holds.
Merged(r, s, map) ==
    LET said == IF s \in DOMAIN run[r].pub THEN run[r].pub[s] ELSE <<>>
        left == {k \in DOMAIN map : <<s, k>> \notin run[r].drop}
    IN [k \in DOMAIN said \cup left |-> IF k \in DOMAIN said THEN said[k] ELSE map[k]]
Touched(r) == DOMAIN run[r].pub \cup {p[1] : p \in run[r].drop}

\* _stack_changes
StackChanges(r) == {s \in Touched(r) : Merged(r, s, View(r).outs[s]) # View(r).outs[s]}
\* Mutant: outputs are committed without a look at the fences.
FencedNowhere(r, S) == {}
FencedNodes(r, S) == run[r].scope \cap S
HeadMoved(r, S) == {s \in S : outs[s].seq # View(r).seqs[s]}

Commit(r, S) ==
    LET base(s) == IF backend = "journal" THEN View(r).outs[s] ELSE outs[s].map
    IN /\ outs' = [s \in Stacks |-> IF s \in S
                      THEN [seq |-> outs[s].seq + 1, map |-> Merged(r, s, base(s))] ELSE outs[s]]
       /\ ledger' = [s \in Stacks |-> IF s \in S THEN Merged(r, s, ledger[s]) ELSE ledger[s]]

\* The nodes whose outputs now follow their rows: still held, and nothing that committed
\* late went unseen.
Unseen(r, n) == IF backend = "journal" THEN outs[n].seq # View(r).seqs[n]
                ELSE n \in overtaken \ Touched(r)
Settled(r) == {n \in Mine(r) : /\ Held(r, n) /\ ~Unseen(r, n)
                               /\ n \in DOMAIN run[r].pub \/ DeclaredBy(r, n) = {}}
Torn(r, S) == {n \in Nodes \cap S : ~Held(r, n)}
Complete(r, torn) ==
    /\ stale' = stale \ Settled(r)
    /\ overtaken' = (overtaken \ Settled(r)) \cup torn
    /\ Stop(r, "over")

\* set_outputs of the journal, one attempt within one transaction: every head at the seq
\* of the view, every fenced node at the fence of the lease.
Rebased(r, S) ==
    [View(r) EXCEPT !.seqs = [s \in Stacks |-> IF s \in S THEN outs'[s].seq ELSE @[s]],
                    !.outs = [s \in Stacks |-> IF s \in S THEN outs'[s].map ELSE @[s]]]
Rebase(r, S) ==
    /\ run[r].tries + 1 < CasAttempts
    /\ run' = [run EXCEPT ![r] = [@ EXCEPT !.at = "publishes", !.tries = run[r].tries + 1,
                                           !.moved = {}, !.rest = {}, !.view = Rebased(r, S)]]
OneTransaction(r) ==
    LET S == StackChanges(r)
        moved == HeadMoved(r, S)
    IN /\ At(r, "publishes") /\ backend = "journal"
       /\ Cardinality(S) + Cardinality(FencedNodes(r, S)) <= TransactMax
       /\ S # {} => StillHolds(r, FencedNodes(r, S))
       /\ IF moved = {} THEN Commit(r, S) /\ Complete(r, {})
          ELSE UNCHANGED <<outs, holder, fence, ghosts>> /\ Rebase(r, moved)
       /\ UNCHANGED <<backend, rows, live, epoch, lapses, lost>>

\* Beyond a transaction's size: _precheck_fences, then the stacks in chunks by name.
Precheck(r) ==
    LET S == StackChanges(r) IN
    /\ At(r, "publishes") /\ backend = "journal"
    /\ Cardinality(S) + Cardinality(FencedNodes(r, S)) > TransactMax
    /\ StillHolds(r, FencedNodes(r, S))
    /\ run' = [run EXCEPT ![r] = [@ EXCEPT !.at = "chunks", !.rest = S, !.moved = {}]]
    /\ UNCHANGED <<backend, store, locks, lapses, lost, ghosts>>

Position(s) == CHOOSE i \in DOMAIN StackOrder : StackOrder[i] = s
Batch(S) == {s \in S : Cardinality({t \in S : Position(t) < Position(s)}) < TransactMax}

\* A chunk is atomic and not fenced: one that lands after a takeover leaves the stack's
\* outputs behind its row.  The view records what commits, so that a rebase for another
\* chunk does not commit it again.
Chunk(r) ==
    LET S == Batch(run[r].rest)
        moved == HeadMoved(r, S)
        rest == run[r].rest \ S
        torn == IF moved = {} THEN Torn(r, S) ELSE {}
        behind == run[r].moved \cup moved
    IN /\ At(r, "chunks")
       /\ IF moved = {} THEN Commit(r, S) ELSE UNCHANGED <<outs, ledger>>
       /\ IF rest = {} /\ behind = {} THEN Complete(r, torn)
          ELSE /\ overtaken' = overtaken \cup torn
               /\ UNCHANGED <<holder, fence, stale>>
       /\ rest # {} =>
             run' = [run EXCEPT ![r] =
                 [@ EXCEPT !.rest = rest, !.moved = behind,
                           !.view = IF moved = {} THEN Rebased(r, S) ELSE run[r].view]]
       /\ rest = {} /\ behind # {} => Rebase(r, behind \cup (IF moved = {} THEN S ELSE {}))
       /\ UNCHANGED <<backend, rows, live, epoch, lapses, lost>>

\* The SQL stores merge over what they hold now, in one transaction.  Postgres looks at
\* the hold rows of the scope's nodes first, sqlite at none, and neither at the lease.
SqlSetOutputs(r) ==
    /\ At(r, "publishes") /\ backend # "journal"
    /\ backend = "postgres" => StillHolds(r, FencedNodes(r, Touched(r)))
    /\ Commit(r, Touched(r)) /\ Complete(r, Torn(r, Touched(r)))
    /\ UNCHANGED <<backend, rows, live, epoch, lapses, lost>>

-----------------------------------------------------------------------------
(***************************************************************************)
(* Around the runs.                                                         *)
(***************************************************************************)
\* A process dies; its hold stays until it runs out.
Crash(r) ==
    /\ run[r].at \in {"locked", "works", "publishes", "chunks"}
    /\ run' = [run EXCEPT ![r] = Ended("failed")]
    /\ UNCHANGED <<backend, store, locks, lapses, lost, ghosts>>

\* The hold of a run that could not renew it runs out.
Lapse(r) ==
    /\ \E n \in Nodes : holder[n] = r
    /\ lapses < MaxLapses
    /\ lapses' = lapses + 1
    /\ holder' = Released(r)
    /\ UNCHANGED <<backend, store, fence, epoch, run, lost, ghosts>>

\* Somebody deletes a resource behind the store's back.
Vanish(n) ==
    /\ n \in live /\ lost < MaxLost
    /\ lost' = lost + 1
    /\ live' = live \ {n}
    /\ UNCHANGED <<backend, rows, outs, locks, run, lapses, ghosts>>

Next ==
    \/ \E r \in Runs :
          \/ Show(r) \/ Gate(r) \/ Acquire(r) \/ Load(r)
          \/ \E n \in Nodes : Put(r, n) \/ Delete(r, n) \/ Check(r, n) \/ Adopt(r, n)
          \/ Fail(r) \/ Publish(r) \/ OneTransaction(r) \/ Precheck(r) \/ Chunk(r)
          \/ SqlSetOutputs(r) \/ Crash(r) \/ Lapse(r)
    \/ \E n \in Nodes : Vanish(n)

Spec == Init /\ [][Next]_vars

-----------------------------------------------------------------------------
(***************************************************************************)
(* Properties.                                                              *)
(***************************************************************************)
\* Rows, outputs, holds and commands keep their types.
TypeOK ==
    /\ rows \in [Nodes -> [spec: Specs, via: {"literal", "ref", "output"},
                           got: Specs \cup {Absent}] \cup {Absent}]
    /\ live \subseteq Nodes /\ stale \cup overtaken \subseteq Nodes
    /\ \A s \in Stacks : outs[s].seq \in Nat
    /\ holder \in [Nodes -> Runs \cup {Nobody}]
    /\ fence \in [Nodes -> 0..epoch]
    /\ \A r \in Runs : run[r].scope \subseteq Nodes /\ DOMAIN run[r].todo \subseteq Nodes

\* Run r has just done node n, and to what end.
Did(r, n) == /\ n \in DOMAIN run[r].todo /\ n \notin DOMAIN run'[r].todo
             /\ run'[r].at = "works" /\ rows'[n] # rows[n]
Effect(n) == CASE rows[n] = Absent -> "create" [] rows'[n] = Absent -> "delete" [] OTHER -> "update"

\* cli/commands/run.py, apply: what an apply does to a node it still holds is what it showed
\* its operator and had confirmed, however long the prompt stood and whatever landed before
\* the lease (raise_drift); and no apply or deploy does what a mandatory policy denies.  A
\* write of a node it no longer holds, which SQL may let in, is not spoken of.
Sanctioned ==
    [][\A r \in Runs : \A n \in Nodes : Did(r, n) /\ (backend = "journal" \/ Held(r, n)) =>
          /\ run[r].cmd.kind = "apply" =>
                n \in DOMAIN run[r].shown /\ run[r].shown[n].act = Effect(n)
          /\ run[r].cmd.kind \in Applies => <<n, Effect(n)>> \notin Forbidden]_vars

\* engine/locking.py, apply_scope: the scope sized before the lock covers every row the
\* changes recomputed under it touch, so no run is refused for work it was never given.
ScopeCovers ==
    \A r \in Runs : At(r, "works") => DOMAIN run[r].todo \subseteq run[r].scope

\* README, environments: an environment a run did not select keeps its rows.
UnselectedStand ==
    [][\A r \in Runs : \A n \in Nodes :
          Did(r, n) /\ run[r].cmd.kind \in Applies =>
              n \notin Environments \/ n \in run[r].cmd.envs]_vars

\* engine.py, _destroy_runner: a destroy that ends well leaves none of the rows it found
\* under the lease, or those of its targets, unless another run took them over since.
DestroyMeansGone ==
    [][\A r \in Runs :
          At(r, "works") /\ run'[r].at = "publishes" /\ run[r].cmd.kind = "destroy" =>
              \A n \in IF run[r].cmd.targets = {} THEN run[r].had ELSE run[r].cmd.targets :
                  rows[n] = Absent \/ fence[n] > run[r].lease]_vars

\* set_outputs: of two runs that publish names of one stack neither loses the other's.
MergesKept == \A s \in Stacks : outs[s].map = ledger[s]

\* reconcile/executor/outputs.py: a committed output is that of a row that stands, unless a
\* run wrote the row and has not published since, or what was committed last was
\* committed late: by a chunk, or on SQL, of a run that no longer held the node.
PublishedIsLive ==
    \A n \in Nodes \ (stale \cup overtaken) : "x" \in DOMAIN outs[n].map =>
        rows[n] # Absent /\ outs[n].map["x"] = rows[n].spec

\* README.md:200-201: the store refuses a write (stack outputs included) from a lease that
\* is no longer the holder.
LatePublishRefused ==
    [][\A r \in Runs : \A n \in Nodes :
          /\ run[r].at = "publishes" /\ run'[r].at = "over" /\ outs'[n] # outs[n]
          => Held(r, n)]_vars

\* README.md:237: an environment out of scope is not undeclared: its outputs stay.
UnselectedOutputsStand ==
    [][\A r \in Runs : \A s \in Environments :
          /\ run[r].at \in {"publishes", "chunks"} /\ run'[r].at = "over"
          /\ run[r].cmd.kind \in Applies /\ s \notin run[r].cmd.envs
          => outs'[s] = outs[s]]_vars
=============================================================================
