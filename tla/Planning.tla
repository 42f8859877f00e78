------------------------------ MODULE Planning ------------------------------
(***************************************************************************)
(* Edit, plan, apply, again and again: the plans of PlanRules, run by a    *)
(* ChangeSetRun (reconcile/executor/run.py, deletes.py, replace.py,        *)
(* confirm.py, records.py) against the rows and the cloud, over runs that  *)
(* are targeted, forced, cut short by a crash at any of their writes and   *)
(* calls, or stopped by a refusal.                                         *)
(*                                                                         *)
(* A node's handler is one action: the effects it has one after another    *)
(* are a sequence, and the process may die after any of them.  The         *)
(* interleaving of handlers in flight, failures and the saga are           *)
(* Executor's; a run here stops where it fails (on_failure "halt").        *)
(***************************************************************************)
EXTENDS PlanRules, Sequences

CONSTANTS
    Configs,    \* the configs the user edits between
    First,      \* those the user may start with
    Option,     \* what a run can be asked: [destroy, targets, forced]
    MaxRuns,    \* bound: applies, destroys and refreshes started
    MaxEdits,   \* bound: edits, secret rotations, changes out of band
    MaxCrashes  \* bound: runs cut short

ASSUME FirstAssumption == First \subseteq Configs
ASSUME BoundsAssumption == {MaxRuns, MaxEdits, MaxCrashes} \subseteq Nat

VARIABLES
    cfg,        \* the config
    secret,     \* the secret's value
    rows,       \* the state backend's rows
    cloud,      \* physical id -> the input values the resource holds
    minted,     \* physical ids handed out
    unsaved,    \* history: physical ids whose last create, change or delete no row
                \* records -> the config that was for, or Unasked
    adopted,    \* history: the physical ids import took -> what it took them in
                \* spite of: a value that is not the config's, "drifted", one that
                \* no update moves, "fixed", or an upstream whose pending change
                \* the row's hash already counts in, "ahead"
    phase,      \* "edited", "running" or "settled": a run finished since the last edit
    run,        \* the run's RunContext
    runs, edits, crashes

vars == <<cfg, secret, rows, cloud, minted, unsaved, adopted, phase, run, runs, edits, crashes>>

NoProps == [f \in {} |-> Secret]
\* No config: the change came from outside, or a row vouches for what was not
\* looked at.
Unasked == NoProps
NoRun == [want |-> NoProps, plan |-> NoProps, prior |-> NoProps, live |-> NoProps,
          whole |-> FALSE, deletes |-> {}, early |-> {}, deferred |-> {}, gone |-> {}, applied |-> {}]

----------------------------------------------------------------------------
(* Values and rows.                                                        *)

Id(p) == <<"id", p>>

\* What a provider returns for the resource p that holds these values.
Outputs(p, given) ==
    [id |-> Id(p), ver |-> IF "size" \in DOMAIN given THEN given["size"] ELSE Lit(0)]
NoOutputs == NoProps

\* resolve_refs and resolve_secret_refs.
Given(props, live) ==
    [f \in DOMAIN props |-> IF props[f] = Secret THEN Lit(secret) ELSE Resolve(props[f], live)]
\* update() cannot move an immutable value the resource already has.
UpdatedTo(n, old, given) ==
    [f \in DOMAIN given |-> IF f \in Immutable[n] \cap DOMAIN old THEN old[f] ELSE given[f]]

\* The physical resources a row's outputs name.
PhysicalOf(row) == IF "id" \in DOMAIN row.out THEN {row.out["id"][2]} ELSE {}

RefDigests(props, live) ==
    [f \in {g \in RefFields(props) : Resolvable(props[g], live)} |-> Resolve(props[f], live)]

\* NodeRecords.state_node.
RowOf(c, n, status, outputs, live) ==
    LET node == c[n]
    IN  [status |-> status, hash |-> Hashes(c)[n], props |-> node.props, out |-> outputs,
         refs |-> RefDigests(node.props, live),
         sec |-> [f \in {g \in DOMAIN node.props : node.props[g] = Secret} |-> secret],
         deps |-> Deps(c, n), after |-> node.after, prot |-> node.prot]

\* NodeRecords.collapsed_row.
CollapsedRow(n) ==
    LET fresh == RowOf(run.want, n, "created", NoOutputs, run.live)
    IN  [fresh EXCEPT !.out = run.prior[n].out, !.sec = run.prior[n].sec]

----------------------------------------------------------------------------
(* Effects: each takes the rows, the cloud, the ids minted and the live    *)
(* outputs to what one write or call makes of them.                        *)

Now == [rows |-> rows, cloud |-> cloud, minted |-> minted, unsaved |-> unsaved, live |-> run.live]

With(f, i, v) == [j \in DOMAIN f \cup {i} |-> IF j = i THEN v ELSE f[j]]
Without(f, ids) == [j \in DOMAIN f \ ids |-> f[j]]
Owing(f, ids, c) == [p \in DOMAIN f \cup ids |-> IF p \in ids THEN c ELSE f[p]]

WriteAhead(s, n) == [s EXCEPT !.rows = With(@, n, RowOf(run.want, n, "creating", NoOutputs, s.live))]
Persist(s, n) ==
    [s EXCEPT !.rows = With(@, n, RowOf(run.want, n, "created", s.live[n], s.live)),
              !.unsaved = Without(@, {s.live[n]["id"][2]})]
Forget(s, i) ==
    [s EXCEPT !.rows = Without(@, {i}), !.unsaved = Without(@, PhysicalOf(run.prior[i]))]
Track(s, n) == [s EXCEPT !.rows = With(@, Companion(n), run.prior[n])]
Remove(s, row) == [s EXCEPT !.cloud = Without(@, PhysicalOf(row))]
Untold(s, row) == [s EXCEPT !.unsaved = Owing(@, PhysicalOf(row), run.want)]

Build(s, n) ==
    LET p == s.minted + 1
        given == Given(run.want[n].props, s.live)
    IN  [s EXCEPT !.minted = p, !.cloud = With(@, p, given), !.unsaved = Owing(@, {p}, run.want),
                  !.live = With(@, n, Outputs(p, given))]
Modify(s, n) ==
    LET p == s.live[n]["id"][2]
        given == UpdatedTo(n, s.cloud[p], Given(run.want[n].props, s.live))
    IN  [s EXCEPT !.cloud[p] = given, !.unsaved = Owing(@, {p}, run.want), !.live[n] = Outputs(p, given)]

\* The states a handler goes through, after each of its effects.
Creates(s, n) == <<WriteAhead(s, n), Build(WriteAhead(s, n), n),
                   Persist(Build(WriteAhead(s, n), n), n)>>
\* Mutated: the row is written before the call.
UpdatesRowFirst(n) == <<Persist(Now, n), Modify(Persist(Now, n), n)>>
Updates(n) == <<Modify(Now, n), Persist(Modify(Now, n), n)>>
Deletes(i) == <<Untold(Remove(Now, run.prior[i]), run.prior[i]),
                Forget(Remove(Now, run.prior[i]), i)>>

\* _replace_dbc, and its two halves when phase 0 ran the first (_predestroy).
DeleteHalf(n) == <<Untold(WriteAhead(Now, n), run.prior[n]),
                   Remove(WriteAhead(Now, n), run.prior[n])>>
CreateHalf(s, n) == <<Build(s, n), Persist(Build(s, n), n)>>
ReplaceDestroyFirst(n) ==
    IF n \in run.early THEN CreateHalf(Now, n)
    ELSE DeleteHalf(n) \o CreateHalf(DeleteHalf(n)[2], n)

\* _replace_cbd: a companion an earlier run left goes first; the old row is
\* copied to the companion id and the write-ahead follows (the crash between
\* the two is Executor's).
ReplaceCreateFirst(n) ==
    IF Companion(n) \in run.deletes \ run.gone
    THEN Deletes(Companion(n)) \o Creates(Track(Deletes(Companion(n))[2], n), n)
    ELSE Creates(Track(Now, n), n)

CleansUp(n) == <<Remove(Now, run.prior[n]),
                 [Remove(Now, run.prior[n]) EXCEPT !.rows = Without(@, {Companion(n)})]>>

----------------------------------------------------------------------------
(* The user.                                                               *)

Init ==
    /\ cfg \in First /\ secret = 0
    /\ rows = NoProps /\ cloud = NoProps /\ minted = 0 /\ unsaved = NoProps /\ adopted = NoProps
    /\ phase = "edited" /\ run = NoRun
    /\ runs = 0 /\ edits = 0 /\ crashes = 0

Edit ==
    /\ phase # "running" /\ edits < MaxEdits
    /\ \E c \in Configs \ {cfg} : cfg' = c
    /\ edits' = edits + 1 /\ phase' = "edited"
    /\ UNCHANGED <<secret, rows, cloud, minted, unsaved, adopted, run, runs, crashes>>

\* The secret's provider serves a new value.
Rotate ==
    /\ phase # "running" /\ edits < MaxEdits
    /\ secret' = secret + 1
    /\ edits' = edits + 1 /\ phase' = "edited"
    /\ UNCHANGED <<cfg, rows, cloud, minted, unsaved, adopted, run, runs, crashes>>

\* Someone changes a resource, or deletes it, behind the program's back.
Drift ==
    /\ phase # "running" /\ edits < MaxEdits
    /\ \E p \in DOMAIN cloud :
          /\ \/ "size" \in DOMAIN cloud[p] /\ cloud' = [cloud EXCEPT ![p]["size"] = Lit(9)]
             \/ cloud' = Without(cloud, {p})
          /\ unsaved' = Owing(unsaved, {p}, Unasked)
    /\ edits' = edits + 1 /\ phase' = "edited"
    /\ UNCHANGED <<cfg, secret, rows, minted, adopted, run, runs, crashes>>

\* The inputs a provider's read reports: all but the secrets.
ReadFields(props, p) == {f \in DOMAIN props \cap DOMAIN cloud[p] : props[f] # Secret}
\* The secrets it does not report are those the row has digests of.
Vouched(row, p) == \A f \in DOMAIN row.sec \cap DOMAIN cloud[p] : cloud[p][f] = Lit(row.sec[f])

\* _synced_missing, for a row that is kept, and _folded: a literal takes the
\* value read, a marker stays, and the hash of a row whose inputs drifted goes.
Marked(row) == IF row.status = "created" THEN [row EXCEPT !.hash = NoHash] ELSE row
Folded(row, p) ==
    LET given == Given(row.props, [i \in DOMAIN rows |-> rows[i].out])
        drifted == {f \in ReadFields(row.props, p) : cloud[p][f] # given[f]}
    IN  [row EXCEPT
           !.props = [f \in DOMAIN @ |-> IF f \in drifted /\ @[f] = given[f] THEN cloud[p][f] ELSE @[f]],
           !.out = Outputs(p, cloud[p]),
           !.hash = IF drifted = {} THEN @ ELSE NoHash]

\* refresh --write, with --prune or not, reaching the rows of done.
Refresh ==
    /\ phase # "running" /\ runs < MaxRuns /\ runs' = runs + 1
    /\ \E done \in SUBSET DOMAIN rows : \E prune \in BOOLEAN :
          LET found == {i \in done : PhysicalOf(rows[i]) \cap DOMAIN cloud # {}}
              pruned == IF prune THEN {i \in done \ found : Confirmed(rows, i)} ELSE {}
          IN  /\ done # {}
              /\ rows' = [i \in DOMAIN rows \ pruned |->
                    CASE i \in found -> Folded(rows[i], rows[i].out["id"][2])
                      [] i \in done \ found -> Marked(rows[i])
                      [] OTHER -> rows[i]]
              /\ unsaved' = Without(unsaved,
                    UNION {{p \in PhysicalOf(rows[i]) : p \in DOMAIN cloud => Vouched(rows[i], p)} : i \in done})
    /\ phase' = "edited"
    /\ UNCHANGED <<cfg, secret, cloud, minted, adopted, run, edits, crashes>>

\* import, with --force and --allow-drift or not: node n's row, whose upstreams
\* all have rows, names the resource p.  One that differs from the config in
\* what its provider reads is taken with its hash cleared.  The user asks for a
\* resource no other row names, and under --force not while the row names
\* another that is there.
Adopt(n, p) ==
    LET outputs == [i \in DOMAIN rows |-> rows[i].out]
        given == Given(cfg[n].props, outputs)
        drifted == \E f \in ReadFields(cfg[n].props, p) : given[f] # cloud[p][f]
        row == [RowOf(cfg, n, "created", Outputs(p, cloud[p]), outputs)
                   EXCEPT !.hash = IF drifted THEN NoHash ELSE @]
        inSpite == {w \in {"drifted", "fixed", "ahead"} :
                      \/ w = "drifted" /\ drifted
                      \/ w = "fixed" /\ \E f \in Immutable[n] : ~Same(cloud[p], given, f)
                      \/ w = "ahead" /\ \E d \in Deps(cfg, n) : rows[d].hash # Hashes(cfg)[d]}
    IN  /\ phase # "running" /\ runs < MaxRuns /\ runs' = runs + 1
        /\ n \in DOMAIN cfg /\ DOMAIN cloud[p] = DOMAIN cfg[n].props
        /\ Deps(cfg, n) \subseteq DOMAIN rows
        /\ \A i \in DOMAIN rows \ {n} : p \notin PhysicalOf(rows[i])
        /\ Confirmed(rows, n) => PhysicalOf(rows[n]) \cap DOMAIN cloud \subseteq {p}
        /\ rows' = With(rows, n, row)
        /\ unsaved' = IF Vouched(row, p) THEN Without(unsaved, {p}) ELSE Owing(unsaved, {p}, Unasked)
        /\ adopted' = With(adopted, p, inSpite)
        /\ phase' = "edited"
        /\ UNCHANGED <<cfg, secret, cloud, minted, run, edits, crashes>>

----------------------------------------------------------------------------
(* One run.                                                                *)

\* What a run is of: the config, or nothing for a destroy; and its narrowing.
Wanted(o) == IF o.destroy THEN NoProps ELSE cfg
Narrowed(prior, o) ==
    [forced |-> o.forced,
     selected |-> IF o.targets = {} THEN Ids
                  ELSE IF o.destroy THEN DestroySelection(prior, o.targets)
                  ELSE TargetSelection(cfg, o.targets)]


\* Deletes.predeletes: what a destroy-first REPLACE must wait for, over the prior graph.
Predeleted(plan, prior) ==
    LET destroyed == Acting(plan, {"DELETE"})
                         \cup {n \in DestroyedFirst(plan) : ~plan[n].cond}
        next == [i \in DOMAIN prior |-> RowDependents(prior)[i] \cap destroyed]
    IN  Closure(UNION {next[n] : n \in DestroyedFirst(plan)}, next)

\* The rename is written (persist_migration), the plan holds, and wire builds the RunContext.
Start(o) ==
    LET want == Wanted(o)
        prior == Migrated(want, rows)
        narrowed == Narrowed(prior, o)
        plan == Plan(want, prior, secret, narrowed)
    IN  /\ phase # "running" /\ runs < MaxRuns
        /\ o.targets \cup o.forced \subseteq DOMAIN want \cup DOMAIN prior
        /\ ~PlanFails(want, prior, secret, narrowed)
        /\ Pending(plan) # {} /\ Acyclic(rows) /\ Acyclic(prior)
        /\ rows' = prior
        /\ run' = [want |-> want, plan |-> plan, prior |-> prior,
                   live |-> [i \in DOMAIN prior |-> prior[i].out],
                   whole |-> o.targets = {},
                   deletes |-> Acting(plan, {"DELETE"}),
                   early |-> Predeleted(plan, prior),
                   deferred |-> {}, gone |-> {}, applied |-> {}]
        /\ phase' = "running" /\ runs' = runs + 1
        /\ UNCHANGED <<cfg, secret, cloud, minted, unsaved, adopted, edits, crashes>>

Takes(s) ==
    /\ rows' = s.rows /\ cloud' = s.cloud /\ minted' = s.minted /\ unsaved' = s.unsaved
    /\ UNCHANGED <<cfg, secret, adopted, runs, edits>>

Stops == phase' = "edited" /\ run' = NoRun

\* The handler runs to its end, or the process dies after one of its effects.
Performs(steps, after) ==
    \/ /\ Takes(steps[Len(steps)])
       /\ run' = [after EXCEPT !.live = steps[Len(steps)].live]
       /\ UNCHANGED <<phase, crashes>>
    \/ \E k \in 1..(Len(steps) - 1) :
          /\ crashes < MaxCrashes /\ crashes' = crashes + 1
          /\ Takes(steps[k])
          /\ Stops

Gone(i) == [run EXCEPT !.gone = @ \cup {i}]
Applied(n) == [run EXCEPT !.applied = @ \cup {n}]

\* A node waits for the dependents the prior graph gives it, done or nothing to do.
Waits(i, busy) ==
    LET behind == Closure(RowDependents(run.prior)[i], RowDependents(run.prior))
    IN  behind \cap (busy \ run.gone) # {}

\* Phase 0.
Predelete(i) ==
    /\ phase = "running" /\ i \in run.early \ run.gone
    /\ ~Waits(i, run.early)
    /\ IF i \in run.deletes THEN Performs(Deletes(i), Gone(i))
       ELSE Performs(DeleteHalf(i), Gone(i))

Forward(n) ==
    /\ phase = "running" /\ run.early \subseteq run.gone
    /\ n \in DOMAIN run.want \ run.applied
    /\ Edges(run.want, n) \subseteq run.applied

\* reclassify, over the values resolved now: a field the row's record covers is
\* compared with the record, any other with the row as of the run's start.
StartOutputs == [i \in DOMAIN run.prior |-> run.prior[i].out]
Reclassified(n) ==
    LET node == run.want[n].props
        row == run.prior[n]
        desired == [f \in DOMAIN node |-> Resolve(node[f], run.live)]
        before(f) == IF f \in DOMAIN row.refs THEN row.refs[f]
                     ELSE Resolve(row.props[f], StartOutputs)
        moved == {f \in DOMAIN node \cup DOMAIN row.props :
                     \/ f \notin DOMAIN node \cap (DOMAIN row.props \cup DOMAIN row.refs)
                     \/ desired[f] # before(f)} \ run.want[n].ignore
    IN  IF moved \cap Immutable[n] # {} THEN run.plan[n]
        ELSE [Change(IF moved = {} THEN "NOOP" ELSE "UPDATE") EXCEPT !.fields = moved]

Effective(n) ==
    IF run.plan[n].cond /\ n \notin run.early THEN Reclassified(n) ELSE run.plan[n]

\* resolve_refs is strict: an upstream that has no output fails the node.
Unresolved(n) == \E f \in DOMAIN run.want[n].props : ~Resolvable(run.want[n].props[f], run.live)


\* The confirmed replace of a protected node; the create-first replace that
\* would overwrite a companion this run does not destroy; the update of a
\* resource that is not there.
Refused(n) ==
    LET change == Effective(n)
    IN  \/ change.act = "REPLACE" /\ run.plan[n].cond /\ n \notin run.early /\ run.want[n].prot
        \/ /\ change.act = "REPLACE" /\ change.cbd
           /\ Companion(n) \in DOMAIN run.prior \ (run.deletes \cup run.early)
        \/ change.act = "UPDATE" /\ ~(PhysicalOf(run.prior[n]) \subseteq DOMAIN cloud)

Refuse(n) ==
    /\ Forward(n) /\ run.plan[n].act # "NOOP"
    /\ Unresolved(n) \/ Refused(n)
    /\ Stops
    /\ UNCHANGED <<cfg, secret, rows, cloud, minted, unsaved, adopted, runs, edits, crashes>>

Skip(n) ==
    /\ Forward(n) /\ run.plan[n].act = "NOOP" /\ ~run.plan[n].sonly
    /\ run' = Applied(n)
    /\ UNCHANGED <<cfg, secret, rows, cloud, minted, unsaved, adopted, phase, runs, edits, crashes>>

\* record_state_only and record_collapsed.
Rewrite(n) ==
    /\ Forward(n) /\ Effective(n).act = "NOOP"
    /\ run.plan[n].sonly \/ (run.plan[n].act # "NOOP" /\ ~Unresolved(n))
    /\ LET row == IF run.plan[n].sonly
                  THEN [run.prior[n] EXCEPT !.prot = run.want[n].prot]
                  ELSE CollapsedRow(n)
           unsure == IF run.prior[n].hash = NoHash THEN PhysicalOf(row) ELSE {}
       IN  Performs(<<[Now EXCEPT !.rows[n] = row, !.unsaved = Owing(@, unsure, Unasked)]>>, Applied(n))

Applies(n, act) ==
    Forward(n) /\ run.plan[n].act # "NOOP" /\ ~Unresolved(n) /\ ~Refused(n) /\ Effective(n).act = act

Create(n) == Applies(n, "CREATE") /\ Performs(Creates(Now, n), Applied(n))
Update(n) == Applies(n, "UPDATE") /\ Performs(Updates(n), Applied(n))
Replace(n) ==
    /\ Applies(n, "REPLACE")
    /\ IF Effective(n).cbd
       THEN Performs(ReplaceCreateFirst(n),
                [Applied(n) EXCEPT !.gone = @ \cup {Companion(n)}, !.deferred = @ \cup {n}])
       ELSE Performs(ReplaceDestroyFirst(n), Applied(n))

\* Phase 2: planned deletes and what create-first replaces left, dependents first.
Leaving == run.deferred \cup run.deletes
Destroy(i) ==
    /\ phase = "running" /\ run.early \subseteq run.gone
    /\ DOMAIN run.want \subseteq run.applied
    /\ i \in Leaving \ run.gone
    /\ ~Waits(i, Leaving)
    /\ Performs(IF i \in run.deferred THEN CleansUp(i) ELSE Deletes(i), Gone(i))

Finish ==
    /\ phase = "running" /\ run.early \subseteq run.gone
    /\ DOMAIN run.want \subseteq run.applied
    /\ Leaving \subseteq run.gone
    /\ phase' = IF run.whole /\ run.want = cfg THEN "settled" ELSE "edited"
    /\ run' = NoRun
    /\ UNCHANGED <<cfg, secret, rows, cloud, minted, unsaved, adopted, runs, edits, crashes>>

\* The process dies, or is interrupted, between two handlers.
Crash ==
    /\ phase = "running" /\ crashes < MaxCrashes
    /\ crashes' = crashes + 1
    /\ Stops
    /\ UNCHANGED <<cfg, secret, rows, cloud, minted, unsaved, adopted, runs, edits>>

Step(i) ==
    \/ Predelete(i) \/ Destroy(i)
    \/ i \in Nodes /\ (Refuse(i) \/ Skip(i) \/ Rewrite(i) \/ Create(i) \/ Update(i) \/ Replace(i))

Next ==
    \/ Edit \/ Rotate \/ Drift \/ Refresh \/ Finish \/ Crash
    \/ \E o \in Option : Start(o)
    \/ \E n \in Nodes : \E p \in DOMAIN cloud : Adopt(n, p)
    \/ \E i \in Ids : Step(i)

Spec == Init /\ [][Next]_vars

----------------------------------------------------------------------------
(* Properties.                                                             *)

RowFields == {"status", "hash", "props", "out", "refs", "sec", "deps", "after", "prot"}

\* Every row belongs to a node or to its companion, a confirmed row names one
\* resource and no two rows of nodes name the same one.
TypeOK ==
    /\ cfg \in Configs /\ secret \in 0..MaxEdits /\ phase \in {"edited", "running", "settled"}
    /\ DOMAIN rows \subseteq Ids /\ DOMAIN cloud \cup DOMAIN unsaved \cup DOMAIN adopted \subseteq 1..minted
    /\ \A i \in DOMAIN rows : DOMAIN rows[i] = RowFields
    /\ \A i \in DOMAIN rows : Confirmed(rows, i) <=> PhysicalOf(rows[i]) # {}
    /\ runs \in 0..MaxRuns /\ edits \in 0..MaxEdits /\ crashes \in 0..MaxCrashes

\* What the config would be planned to do to these rows now.
Everything == [forced |-> {}, selected |-> Ids]
Fails(prior) == PlanFails(cfg, prior, secret, Everything)
Todo(prior) == Pending(Plan(cfg, prior, secret, Everything))

\* Node n's resource is there and holds what the config says now.
Holds(n, prior) ==
    \E p \in PhysicalOf(prior[n]) \cap DOMAIN cloud :
        LET given == Given(cfg[n].props, StoredOutputs(prior))
        IN  \A f \in (DOMAIN cloud[p] \cup DOMAIN given) \ cfg[n].ignore : Same(cloud[p], given, f)

\* Resource p is beyond what the rows can tell config c: its last change was
\* somebody else's, or that of a run cut short over another config (records.py
\* writes after the call), or was never looked at (a collapsed row whose hash
\* was cleared, a secret an import could not read).
Astray(p, c) == p \in DOMAIN unsaved /\ unsaved[p] # c
Despite(p, ways) == p \in DOMAIN adopted /\ adopted[p] \cap ways # {}

\* A plan with nothing to do is true: every declared resource exists and holds
\* what the config resolves to now, and nothing undeclared is left.  Excepted
\* are the resources astray, those import took though they did not fit, and what
\* a cut create left, which the providers' handlers adopt (the Merkle skip, the
\* consumed verdicts, the secret audit, refresh's and import's rows, the order of
\* call and row).
CleanPlanIsTrue ==
    phase # "running" =>
        LET prior == Migrated(cfg, rows)
            declared == UNION {PhysicalOf(prior[n]) : n \in DOMAIN cfg \cap DOMAIN prior}
        IN  (Todo(prior) = {} /\ ~Fails(prior)) =>
                /\ \A n \in DOMAIN cfg :
                      (\A p \in PhysicalOf(prior[n]) : ~Astray(p, cfg) /\ ~Despite(p, {"fixed", "ahead"})) => Holds(n, prior)
                /\ DOMAIN cloud \subseteq DOMAIN unsaved \cup declared

\* One whole run that reaches its end leaves only the declared nodes' rows, and
\* nothing to do but for the secrets that rotated under a row the run
\* collapsed, whose digests stay, and the nodes import took though they did not
\* fit with what depends on them (the Merkle hash each row records, collapsed
\* rows, the create-first cleanup).
StaleSecrets == {n \in DOMAIN rows : \E f \in DOMAIN rows[n].sec : rows[n].sec[f] # secret}
Misfits == {n \in DOMAIN rows : \E p \in PhysicalOf(rows[n]) : Despite(p, {"drifted", "fixed", "ahead"})}

\* The rows a run started from that name the resource p.
OwnersOf(p) == {i \in DOMAIN run.prior : p \in PhysicalOf(run.prior[i])}
Destroyed == DOMAIN cloud \ DOMAIN cloud'
ProtectedNow(i) ==
    IF i \in DOMAIN run.want THEN run.want[i].prot ELSE run.prior[i].prot

\* A value node i was made with and cannot change is a secret that has rotated.
Reissued(i) ==
    \E f \in Immutable[i] \cap DOMAIN run.want[i].props :
        run.want[i].props[f] = Secret /\ (f \in DOMAIN run.prior[i].sec => run.prior[i].sec[f] # secret)


\* The same with no exception (guards.py: "Any DELETE or REPLACE of a protected
\* resource fails the whole plan before any mutation").
ProtectedAlways ==
    [][\A p \in Destroyed : \A i \in OwnersOf(p) \cap Nodes : ~ProtectedNow(i)]_vars

\* Node n cannot keep the resource p: a value it was made with is no longer the
\* config's, or an upstream it was made with goes first.
Outgrown(n, p) ==
    \E f \in Immutable[n] \ run.want[n].ignore :
        \/ ~Same(cloud[p], Given(run.want[n].props, run.live), f)
        \/ f \in DOMAIN run.want[n].props /\ Targets(run.want[n].props[f]) \cap DestroyedFirst(run.plan) # {}

\* A run destroys a resource only for a cause: nothing declares it, by its id or
\* by an alias, --replace named it, or it cannot be kept (the alias rekey and
\* rehash, the stale dependents, the reclassification).
DestroyedForCause ==
    [][\A p \in {q \in Destroyed : ~Astray(q, run.want) /\ ~Despite(q, {"fixed"})} : \A i \in OwnersOf(p) \cap Nodes :
          IF i \in DOMAIN run.want THEN Forced \in run.plan[i].fields \/ Outgrown(i, p)
          ELSE \A n \in DOMAIN run.want : i \notin run.want[n].was]_vars

\* q, which row m names, was made with p's id and cannot let go of it.
Uses(q, m, p) ==
    \E f \in Immutable[m] \cap DOMAIN cloud'[q] : cloud'[q][f] = Id(p)

StandsOn(p, m) ==
    \E q \in PhysicalOf(run.prior[m]) \cap DOMAIN cloud' : Uses(q, m, p) /\ ~Despite(q, {"fixed"})


\* A row refresh marked because its resource is missing is not confirmed again
\* while the resource is (refresh.py: "its hash is cleared so the next plan
\* re-checks the node").
MarkStands ==
    [][\A n \in Nodes \cap DOMAIN rows \cap DOMAIN rows' :
          (rows[n].hash = NoHash /\ PhysicalOf(rows[n]) \cap DOMAIN cloud = {}
              /\ rows'[n].status = "created" /\ rows'[n].hash # NoHash) =>
          PhysicalOf(rows'[n]) \cap DOMAIN cloud' # {}]_vars

\* The update that follows an import with drift gives the resource what the
\* config says (test_import_e2e.py: "the follow-up is an UPDATE that brings the
\* resource up to what config says").
ImportCorrects ==
    [][\A n \in Nodes \cap DOMAIN rows \cap DOMAIN rows' :
          (/\ phase = "running" /\ rows[n].hash = NoHash /\ rows'[n].hash # NoHash
           /\ PhysicalOf(rows'[n]) = PhysicalOf(rows[n])) =>
          \A p \in PhysicalOf(rows[n]) \cap DOMAIN cloud' :
              \A f \in DOMAIN cloud'[p] \ run.want[n].ignore :
                  Same(cloud'[p], Given(run.want[n].props, run'.live), f)]_vars

\* A row's digests are of the secrets its resource holds (secret_audit.py: "a
\* rotated immutable() field cannot be pushed through update(), so it is a
\* REPLACE, not an UPDATE").
RotationReaches ==
    phase # "running" =>
        \A n \in DOMAIN rows \cap Nodes :
            \A p \in (PhysicalOf(rows[n]) \cap DOMAIN cloud) \ DOMAIN unsaved : Vouched(rows[n], p)

\* The recorded dependencies of the rows make no cycle (state_ir.py: "State is
\* written only by acyclic applies, so its graph cannot contain a cycle").
RowsAcyclic == Acyclic(rows)
=============================================================================
