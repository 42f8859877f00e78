--------------------------- MODULE StackRunsProofs ---------------------------
(***************************************************************************)
(* For any stacks, configs, commands, runs and stores, journal or SQL: the *)
(* scope of a lock covers the work found under it, a run does to a node    *)
(* what was shown and allowed, and committed outputs are those of rows     *)
(* that stand.                                                             *)
(***************************************************************************)
EXTENDS StackRuns, TLAPS

RunFields == {"at", "cmd", "shown", "view", "scope", "lease", "todo", "had", "known", "env",
              "pub", "drop", "rest", "moved", "tries"}

Working(r) == run[r].at \in {"works", "publishes", "chunks"}
Publishing(r) == run[r].at \in {"publishes", "chunks"}
Leased(r) == At(r, "locked") \/ Working(r)

Shape ==
    /\ DOMAIN rows = Nodes /\ DOMAIN fence = Nodes /\ DOMAIN outs = Stacks
    /\ \A s \in Stacks : outs[s].seq \in Nat
    /\ \A n \in Nodes : DOMAIN outs[n].map \subseteq {"x"}
    /\ epoch \in Nat
    /\ DOMAIN run = Runs /\ \A r \in Runs : DOMAIN run[r] = RunFields

\* No two leases have the same fence.
Leases ==
    /\ \A r \in Runs : Leased(r) => run[r].lease \in Nat \ {0} /\ run[r].lease <= epoch
    /\ \A r, q \in Runs : Leased(r) /\ Leased(q) /\ r # q => run[r].lease # run[q].lease

\* The scope covers what the command asks for and, under the lease, what it found.
Scoped(r) ==
    /\ run[r].at \in {"shown", "waits"} \/ Leased(r) => run[r].cmd \in Commands
    /\ At(r, "waits") \/ Leased(r) =>
          /\ run[r].cmd.kind \in Applies => Evaluated(run[r].cmd) \subseteq run[r].scope
          /\ run[r].cmd.kind = "import" => run[r].cmd.targets \subseteq run[r].scope
    /\ At(r, "locked") => run[r].view = Fresh
    /\ At(r, "works") => DOMAIN run[r].todo \subseteq run[r].scope
    /\ Working(r) => /\ run[r].had \subseteq Nodes
                     /\ run[r].cmd.kind \in Applies \cup {"destroy"} => run[r].had \subseteq run[r].scope
    /\ Publishing(r) => run[r].cmd.kind \in Applies \cup {"destroy"}
    /\ At(r, "chunks") => backend = "journal"

\* What an apply is still to do was shown, is allowed, and says of a row the run still
\* holds whether it is there.
Ordered(r) ==
    At(r, "works") /\ run[r].cmd.kind \in Applies => \A n \in DOMAIN run[r].todo :
        /\ <<n, run[r].todo[n].act>> \notin Forbidden
        /\ run[r].cmd.kind = "apply" =>
              n \in DOMAIN run[r].shown /\ run[r].shown[n].act = run[r].todo[n].act
        /\ run[r].todo[n].act \in {"create", "update", "delete"}
        /\ n \in Nodes /\ fence[n] = run[r].lease =>
              (run[r].todo[n].act = "create" <=> rows[n] = Absent)

\* The values a run knows are those of the rows it still holds.
Known(r) ==
    Working(r) => \A n \in Nodes \cap DOMAIN run[r].known : fence[n] = run[r].lease =>
        rows[n] # Absent /\ run[r].known[n] = rows[n].spec

\* What is published of a node is the value known of it, under the name x.
Pub(r) ==
    Publishing(r) =>
        /\ DOMAIN run[r].pub \subseteq Stacks
        /\ \A n \in Nodes \cap DOMAIN run[r].pub :
              /\ run[r].cmd.kind \in Applies /\ DeclaredBy(r, n) # {}
              /\ n \in DOMAIN run[r].known
              /\ DOMAIN run[r].pub[n] = {"x"} /\ run[r].pub[n]["x"] = run[r].known[n]

\* A view of the journal is an earlier state of the outputs, and their state now where no
\* head has moved.
Viewed(r) ==
    Working(r) =>
        IF backend = "journal"
        THEN /\ DOMAIN run[r].view = {"rows", "seqs", "outs"}
             /\ DOMAIN run[r].view.seqs = Stacks /\ DOMAIN run[r].view.outs = Stacks
             /\ \A n \in Nodes : DOMAIN run[r].view.outs[n] \subseteq {"x"}
             /\ \A s \in Stacks :
                   /\ run[r].view.seqs[s] \in Nat /\ run[r].view.seqs[s] <= outs[s].seq
                   /\ run[r].view.seqs[s] = outs[s].seq => run[r].view.outs[s] = outs[s].map
        ELSE run[r].view = Fresh

\* The outputs of the run's nodes that it declares none of are dropped, all it knows of: on
\* SQL those of the nodes it holds, but for what was committed late since.
Drops(r) ==
    Publishing(r) =>
        /\ run[r].drop \subseteq Mine(r) \X {"x"}
        /\ \A n \in Mine(r) :
              /\ DeclaredBy(r, n) = {}
              /\ backend = "journal" \/ (fence[n] = run[r].lease /\ n \notin overtaken)
              /\ "x" \in DOMAIN View(r).outs[n]
              => <<n, "x">> \in run[r].drop

\* Chunks still to commit are of stacks the run changes; the others say what it means.
Chunked(r) ==
    At(r, "chunks") =>
        /\ run[r].rest \subseteq Touched(r) /\ run[r].moved \subseteq Touched(r)
        /\ run[r].moved = {} => \A s \in Touched(r) \ run[r].rest :
              Merged(r, s, View(r).outs[s]) = View(r).outs[s]

RunOk(r) == /\ Scoped(r) /\ Ordered(r) /\ Known(r) /\ Pub(r) /\ Viewed(r) /\ Drops(r)
            /\ Chunked(r)

StackInv == Shape /\ Leases /\ (\A r \in Runs : RunOk(r)) /\ PublishedIsLive /\ MergesKept


-----------------------------------------------------------------------------
(***************************************************************************)
(* merge_outputs.                                                           *)
(***************************************************************************)
LEMMA MergedSays ==
  ASSUME NEW r, NEW s \in DOMAIN run[r].pub, NEW k \in DOMAIN run[r].pub[s], NEW map
  PROVE  k \in DOMAIN Merged(r, s, map) /\ Merged(r, s, map)[k] = run[r].pub[s][k]
  BY DEF Merged

LEMMA MergedDrops ==
  ASSUME NEW r, NEW s, s \notin DOMAIN run[r].pub, NEW k, <<s, k>> \in run[r].drop, NEW map
  PROVE  k \notin DOMAIN Merged(r, s, map)
  BY DEF Merged

LEMMA MergedWithin ==
  ASSUME NEW r, NEW s, NEW K, s \in DOMAIN run[r].pub => DOMAIN run[r].pub[s] \subseteq K,
         NEW map, DOMAIN map \subseteq K
  PROVE  DOMAIN Merged(r, s, map) \subseteq K
  BY DEF Merged

LEMMA MergedTwice ==
  ASSUME NEW r, NEW s, NEW map
  PROVE  Merged(r, s, Merged(r, s, map)) = Merged(r, s, map)
<1> DEFINE said == IF s \in DOMAIN run[r].pub THEN run[r].pub[s] ELSE <<>>
           left(m) == {k \in DOMAIN m : <<s, k>> \notin run[r].drop}
           merged(m) == [k \in DOMAIN said \cup left(m) |-> IF k \in DOMAIN said THEN said[k] ELSE m[k]]
<1>1. \A m : Merged(r, s, m) = merged(m)
  BY DEF Merged
<1>2. DOMAIN said \cup left(merged(map)) = DOMAIN said \cup left(map)
  OBVIOUS
<1>3. \A k \in DOMAIN said \cup left(map) : merged(map)[k] = IF k \in DOMAIN said THEN said[k] ELSE map[k]
  OBVIOUS
<1> HIDE DEF said, left
<1>4. merged(merged(map)) = merged(map)
  BY <1>2, <1>3
<1> QED
  BY <1>1, <1>4

-----------------------------------------------------------------------------
(***************************************************************************)
(* The states the runs start in, and what leaves a run's facts standing.    *)
(***************************************************************************)
LEMMA StackInit == Init => StackInv
<1> SUFFICES ASSUME Init PROVE StackInv
  OBVIOUS
<1>1. PICK s \in Stores : /\ rows = s.rows /\ ledger = s.outs
                          /\ outs = [t \in Stacks |-> [seq |-> 0, map |-> s.outs[t]]]
  BY DEF Init
<1>2. Nodes \subseteq Stacks
  BY DEF Nodes
<1>3. Shape
  BY <1>1, <1>2, StoresAssumption DEF Init, Shape, Idle, RunFields
<1>4. \A r \in Runs : run[r].at = "idle"
  BY DEF Init, Idle
<1>5. Leases
  BY <1>4 DEF Leases, Leased, Working, At
<1>6. \A r \in Runs : RunOk(r)
  BY <1>4 DEF RunOk, Scoped, Ordered, Known, Pub, Viewed, Drops, Chunked, Leased, Working,
     Publishing, At
<1>7. PublishedIsLive
  BY <1>1, <1>2, StoresAssumption DEF PublishedIsLive
<1>8. MergesKept
  BY <1>1 DEF MergesKept
<1> QED
  BY <1>3, <1>5, <1>6, <1>7, <1>8 DEF StackInv

\* A run that has ended, or not begun, claims nothing.
LEMMA EndedOk ==
  ASSUME NEW r \in Runs, run'[r].at \notin {"shown", "waits", "locked", "works", "publishes", "chunks"}
  PROVE  RunOk(r)' /\ ~Leased(r)'
  BY DEF RunOk, Scoped, Ordered, Known, Pub, Viewed, Drops, Chunked, Leased, Working,
     Publishing, At

\* What the others may do to the store under a run: they write no row it holds, and every
\* commit of outputs moves the head on; on SQL they may commit the outputs of a node it
\* holds, which is then overtaken.
Kept(q) ==
    /\ run'[q] = run[q] /\ backend' = backend
    /\ Leased(q) =>
          /\ \A n \in Nodes : /\ fence'[n] = run[q].lease => fence[n] = run[q].lease
                              /\ fence[n] = run[q].lease =>
                                    /\ rows'[n] = rows[n]
                                    /\ n \in overtaken => n \in overtaken'
                                    /\ \/ backend = "journal" \/ outs'[n] = outs[n]
                                       \/ n \in overtaken'
          /\ \A s \in Stacks : outs'[s] = outs[s] \/ outs'[s].seq > outs[s].seq

LEMMA KeptOk ==
  ASSUME NEW q \in Runs, Shape, Shape', RunOk(q), Kept(q)
  PROVE  RunOk(q)'
<1>1. Scoped(q)'
  BY DEF RunOk, Kept, Scoped, Leased, Working, Publishing, At
<1>2. Ordered(q)'
  BY DEF RunOk, Kept, Ordered, Leased, Working, At
<1>3. Known(q)'
  BY DEF RunOk, Kept, Known, Leased, Working, At
<1>4. Pub(q)'
  BY DEF RunOk, Kept, Pub, Publishing, At, DeclaredBy
<1>5. Viewed(q)'
  <2> SUFFICES ASSUME Working(q), backend = "journal" PROVE Viewed(q)'
    BY DEF RunOk, Kept, Viewed, Working
  <2>1. \A s \in Stacks : /\ run[q].view.seqs[s] \in Nat /\ run[q].view.seqs[s] <= outs[s].seq
                          /\ run[q].view.seqs[s] = outs[s].seq => run[q].view.outs[s] = outs[s].map
                          /\ outs'[s] = outs[s] \/ outs'[s].seq > outs[s].seq
                          /\ outs[s].seq \in Nat /\ outs'[s].seq \in Nat
    BY DEF RunOk, Viewed, Kept, Leased, Shape
  <2>2. \A s \in Stacks : /\ run[q].view.seqs[s] <= outs'[s].seq
                          /\ run[q].view.seqs[s] = outs'[s].seq => run[q].view.outs[s] = outs'[s].map
    BY <2>1
  <2> QED
    BY <2>1, <2>2 DEF RunOk, Kept, Viewed, Working
<1>6. Drops(q)'
  <2> SUFFICES ASSUME Publishing(q) PROVE Drops(q)'
    BY DEF Kept, Drops, Publishing
  <2>1. Working(q) /\ Mine(q)' = Mine(q) /\ \A n : DeclaredBy(q, n)' = DeclaredBy(q, n)
    BY DEF Publishing, Working, Kept, Mine, DeclaredBy
  <2>2. Mine(q) \subseteq Nodes /\ Nodes \subseteq Stacks
    BY <2>1 DEF RunOk, Scoped, Mine, Evaluated, Nodes
  <2>3. CASE backend = "journal"
    <3>1. View(q)' = View(q)
      BY <2>1, <2>3 DEF RunOk, Viewed, View, Kept, Fresh
    <3> QED
      BY <2>1, <2>3, <3>1 DEF RunOk, Drops, Kept, Publishing
  <2>4. CASE backend # "journal"
    <3>1. \A n \in Stacks : View(q).outs[n] = outs[n].map /\ View(q)'.outs[n] = outs'[n].map
      BY <2>1, <2>4 DEF RunOk, Viewed, View, Kept, Cut, Maps
    <3>2. \A n \in Mine(q) : fence'[n] = run[q].lease /\ n \notin overtaken' =>
              /\ fence[n] = run[q].lease /\ n \notin overtaken
              /\ View(q)'.outs[n] = View(q).outs[n]
      BY <2>1, <2>2, <2>4, <3>1 DEF Kept, Leased
    <3> QED
      BY <2>1, <2>4, <3>2 DEF RunOk, Drops, Kept, Publishing
  <2> QED
    BY <2>3, <2>4
<1>7. Chunked(q)'
  <2> SUFFICES ASSUME At(q, "chunks") PROVE Chunked(q)'
    BY DEF Kept, Chunked, At
  <2>1. View(q)' = View(q)
    BY DEF RunOk, Viewed, View, Kept, Fresh, Scoped, Working, At
  <2>2. Touched(q)' = Touched(q) /\ \A s, m : Merged(q, s, m)' = Merged(q, s, m)
    BY DEF Kept, Touched, Merged
  <2> QED
    BY <2>1, <2>2 DEF RunOk, Chunked, Kept, At
<1> QED
  BY <1>1, <1>2, <1>3, <1>4, <1>5, <1>6, <1>7 DEF RunOk


\* What a step of run r has to show.
LEMMA StepOf ==
  ASSUME StackInv, NEW r \in Runs, Shape', RunOk(r)', \A q \in Runs \ {r} : Kept(q),
         epoch' >= epoch,
         Leased(r)' => \/ Leased(r) /\ run'[r].lease = run[r].lease
                       \/ run'[r].lease = epoch + 1 /\ epoch' = epoch + 1,
         PublishedIsLive', MergesKept'
  PROVE  StackInv'
<1>1. \A q \in Runs : RunOk(q)'
  BY KeptOk DEF StackInv
<1>2. Leases'
  <2>1. epoch \in Nat /\ epoch' \in Nat
    BY DEF StackInv, Shape
  <2>2. \A q \in Runs \ {r} : Leased(q)' => Leased(q) /\ run'[q].lease = run[q].lease
    BY DEF Kept, Leased, Working, At
  <2>3. \A q \in Runs : Leased(q) => run[q].lease \in Nat \ {0} /\ run[q].lease <= epoch
    BY DEF StackInv, Leases
  <2>4. \A p, q \in Runs : Leased(p) /\ Leased(q) /\ p # q => run[p].lease # run[q].lease
    BY DEF StackInv, Leases
  <2>5. \A q \in Runs : Leased(q)' => run'[q].lease \in Nat \ {0} /\ run'[q].lease <= epoch'
    BY <2>1, <2>2, <2>3
  <2>6. \A p, q \in Runs : Leased(p)' /\ Leased(q)' /\ p # q => run'[p].lease # run'[q].lease
    BY <2>1, <2>2, <2>3, <2>4
  <2> QED
    BY <2>5, <2>6 DEF Leases
<1> QED
  BY <1>1, <1>2 DEF StackInv

\* A step that leaves the store, the fences and the outputs alone.
LEMMA QuietStep ==
  ASSUME StackInv, NEW r \in Runs, NEW v, run' = [run EXCEPT ![r] = v], DOMAIN v = RunFields,
         RunOk(r)', Leased(r)' => Leased(r) /\ v.lease = run[r].lease,
         UNCHANGED <<backend, rows, outs, fence, epoch, stale, overtaken, ledger>>
  PROVE  StackInv'
<1>1. run'[r] = v /\ DOMAIN run' = Runs /\ \A q \in Runs \ {r} : run'[q] = run[q]
  BY DEF StackInv, Shape
<1>2. Shape'
  BY <1>1 DEF StackInv, Shape
<1>3. \A q \in Runs \ {r} : Kept(q)
  BY <1>1 DEF Kept
<1>4. PublishedIsLive' /\ MergesKept'
  BY DEF StackInv, PublishedIsLive, MergesKept
<1>5. epoch' >= epoch
  BY DEF StackInv, Shape
<1> QED
  BY <1>1, <1>2, <1>3, <1>4, <1>5, StepOf

LEMMA EndedShape ==
  ASSUME NEW place
  PROVE  Ended(place).at = place /\ DOMAIN Ended(place) = RunFields
  BY DEF Ended, Idle, RunFields

\* A release takes fences away and gives none.
Freed == /\ DOMAIN fence' = Nodes
         /\ \A n \in Nodes : fence'[n] = fence[n] \/ fence'[n] = 0

LEMMA StopFrees ==
  ASSUME Shape, NEW r, NEW place, Stop(r, place)
  PROVE  Freed
  BY DEF Shape, Stop, Dropped, Freed

LEMMA UnchangedFrees ==
  ASSUME Shape, fence' = fence
  PROVE  Freed
  BY DEF Shape, Freed

LEMMA FreedKeeps ==
  ASSUME StackInv, Freed, NEW q \in Runs, Leased(q), NEW n \in Nodes, fence'[n] = run[q].lease
  PROVE  fence[n] = run[q].lease
<1>1. run[q].lease # 0
  BY DEF StackInv, Leases
<1> QED
  BY <1>1 DEF Freed

\* A run that stops.
LEMMA StopStep ==
  ASSUME StackInv, NEW r \in Runs, NEW place \in {"failed", "over"},
         run' = [run EXCEPT ![r] = Ended(place)], Freed,
         UNCHANGED <<backend, rows, outs, epoch, stale, overtaken, ledger>>
  PROVE  StackInv'
<1>1. run'[r].at = place /\ run'[r] = Ended(place) /\ DOMAIN run' = Runs
      /\ \A q \in Runs \ {r} : run'[q] = run[q]
  BY EndedShape DEF StackInv, Shape
<1>2. RunOk(r)' /\ ~Leased(r)'
  BY <1>1, EndedOk
<1>3. Shape'
  BY <1>1, EndedShape DEF StackInv, Shape, Freed
<1>4. ASSUME NEW q \in Runs \ {r} PROVE Kept(q)
  BY <1>1, FreedKeeps DEF Kept
<1>5. PublishedIsLive' /\ MergesKept'
  BY DEF StackInv, PublishedIsLive, MergesKept
<1>6. epoch' >= epoch
  BY DEF StackInv, Shape
<1> QED
  BY <1>2, <1>3, <1>4, <1>5, <1>6, StepOf

-----------------------------------------------------------------------------
(***************************************************************************)
(* The steps.                                                               *)
(***************************************************************************)
LEMMA ShowStep ==
  ASSUME StackInv, NEW r \in Runs, Show(r)
  PROVE  StackInv'
<1>1. PICK c \in Commands : \/ run' = [run EXCEPT ![r] = Ended("failed")]
                            \/ run' = [run EXCEPT ![r] =
                                 [Idle EXCEPT !.at = "shown", !.cmd = c, !.shown = Shown(c),
                                              !.view = IF backend = "journal" /\ c.kind \notin {"deploy", "import"}
                                                       THEN Cut ELSE Fresh]]
  BY DEF Show
<1>u. UNCHANGED <<backend, rows, outs, fence, epoch, stale, overtaken, ledger>>
  BY DEF Show, store, locks, ghosts
<1>2. CASE run' = [run EXCEPT ![r] = Ended("failed")]
  BY <1>2, <1>u, UnchangedFrees, StopStep DEF StackInv
<1>3. CASE run' = [run EXCEPT ![r] =
             [Idle EXCEPT !.at = "shown", !.cmd = c, !.shown = Shown(c),
                          !.view = IF backend = "journal" /\ c.kind \notin {"deploy", "import"} THEN Cut ELSE Fresh]]
  <2> DEFINE v == [Idle EXCEPT !.at = "shown", !.cmd = c, !.shown = Shown(c),
                       !.view = IF backend = "journal" /\ c.kind \notin {"deploy", "import"} THEN Cut ELSE Fresh]
  <2>1. DOMAIN v = RunFields /\ v.at = "shown" /\ v.cmd = c
    BY DEF Idle, RunFields
  <2> HIDE DEF v
  <2>2. run'[r] = v
    BY <1>3 DEF v, StackInv, Shape
  <2>3. RunOk(r)' /\ ~Leased(r)'
    BY <2>1, <2>2 DEF RunOk, Scoped, Ordered, Known, Pub, Viewed, Drops, Chunked, Leased, Working,
       Publishing, At
  <2> QED
    BY <1>3, <1>u, <2>1, <2>3, QuietStep DEF v
<1> QED
  BY <1>1, <1>2, <1>3

LEMMA GateStep ==
  ASSUME StackInv, NEW r \in Runs, Gate(r)
  PROVE  StackInv'
<1> DEFINE c == run[r].cmd
           sc == CASE c.kind \in Applies -> ApplyScope(c, View(r).rows)
                   [] c.kind = "import" -> c.targets
                   [] OTHER -> Tracked(View(r).rows)
           v == [run[r] EXCEPT !.at = "waits", !.scope = sc, !.view = Fresh]
<1>1. \/ run' = [run EXCEPT ![r] = Ended("failed")]
      \/ run' = [run EXCEPT ![r] = v]
  BY DEF Gate
<1>u. UNCHANGED <<backend, rows, outs, fence, epoch, stale, overtaken, ledger>>
  BY DEF Gate, store, locks, ghosts
<1>2. CASE run' = [run EXCEPT ![r] = Ended("failed")]
  BY <1>2, <1>u, UnchangedFrees, StopStep DEF StackInv
<1>3. CASE run' = [run EXCEPT ![r] = v]
  <2>1. /\ DOMAIN v = RunFields /\ v.at = "waits" /\ v.cmd = c /\ v.scope = sc
    BY DEF StackInv, Shape, RunFields
  <2>2. c \in Commands
    BY DEF Gate, At, StackInv, RunOk, Scoped
  <2>3. /\ c.kind \in Applies => Evaluated(c) \subseteq sc
        /\ c.kind = "import" => c.targets \subseteq sc
    BY DEF ApplyScope, Applies
  <2> HIDE DEF v, sc
  <2>4. run'[r] = v
    BY <1>3 DEF StackInv, Shape
  <2>5. RunOk(r)' /\ ~Leased(r)'
    BY <2>1, <2>2, <2>3, <2>4 DEF RunOk, Scoped, Ordered, Known, Pub, Viewed, Drops, Chunked,
       Leased, Working, Publishing, At
  <2> QED
    BY <1>3, <1>u, <2>1, <2>5, QuietStep
<1> QED
  BY <1>1, <1>2, <1>3

LEMMA AcquireStep ==
  ASSUME StackInv, NEW r \in Runs, Acquire(r)
  PROVE  StackInv'
<1> DEFINE v == [run[r] EXCEPT !.at = "locked", !.lease = epoch + 1, !.view = Fresh]
<1>1. CASE run' = [run EXCEPT ![r] = Ended("failed")] /\ UNCHANGED locks
  <2>1. UNCHANGED <<backend, rows, outs, fence, epoch, stale, overtaken, ledger>>
    BY <1>1 DEF Acquire, store, locks, ghosts
  <2> QED
    BY <1>1, <2>1, UnchangedFrees, StopStep DEF StackInv
<1>2. CASE /\ epoch' = epoch + 1 /\ run' = [run EXCEPT ![r] = v]
           /\ fence' = [n \in Nodes |-> IF n \in run[r].scope THEN epoch + 1 ELSE fence[n]]
  <2>u. backend' = backend /\ rows' = rows /\ outs' = outs /\ stale' = stale /\ overtaken' = overtaken /\ ledger' = ledger
    BY DEF Acquire, store, ghosts
  <2>1. /\ DOMAIN v = RunFields /\ v.at = "locked" /\ v.cmd = run[r].cmd /\ v.scope = run[r].scope
        /\ v.view = Fresh /\ v.lease = epoch + 1
    BY DEF StackInv, Shape, RunFields
  <2> HIDE DEF v
  <2>2. run'[r] = v /\ DOMAIN run' = Runs /\ \A q \in Runs \ {r} : run'[q] = run[q]
    BY <1>2 DEF StackInv, Shape
  <2>3. RunOk(r)'
    BY <2>1, <2>2 DEF Acquire, StackInv, RunOk, Scoped, Ordered, Known, Pub, Viewed, Drops,
       Chunked, Leased, Working, Publishing, At
  <2>4. epoch \in Nat /\ epoch' >= epoch
    BY <1>2 DEF StackInv, Shape
  <2>5. Shape'
    BY <1>2, <2>u, <2>1, <2>2, <2>4 DEF StackInv, Shape
  <2>6. ASSUME NEW q \in Runs \ {r} PROVE Kept(q)
    <3>1. Leased(q) => run[q].lease # epoch + 1
      BY <2>4 DEF StackInv, Leases
    <3> QED
      BY <1>2, <2>u, <2>2, <3>1 DEF Kept
  <2>7. PublishedIsLive' /\ MergesKept'
    BY <2>u DEF StackInv, PublishedIsLive, MergesKept
  <2> QED
    BY <1>2, <2>1, <2>2, <2>3, <2>4, <2>5, <2>6, <2>7, StepOf
<1> QED
  BY <1>1, <1>2 DEF Acquire


LEMMA ChangesActs ==
  ASSUME NEW c, NEW rs, NEW n \in DOMAIN Changes(c, rs)
  PROVE  /\ n \in Evaluated(c) \cup Tracked(rs)
         /\ Changes(c, rs)[n].act \in {"create", "update", "delete"}
         /\ Changes(c, rs)[n].act = "create" <=> rs[n] = Absent
  BY DEF Changes, Tracked

\* The rows a run works on are rows of the store.
LEMMA CoveredRows ==
  ASSUME NEW c, NEW sc, NEW n \in Tracked(Covered(c, sc, rows))
  PROVE  /\ n \in Tracked(rows) /\ Covered(c, sc, rows)[n] = rows[n]
         /\ c.kind = "refresh" => n \in sc
  BY DEF Covered, Tracked

LEMMA LoadStep ==
  ASSUME StackInv, NEW r \in Runs, Load(r)
  PROVE  StackInv'
<1> DEFINE c == run[r].cmd
           sc == run[r].scope
           rs == Covered(c, sc, rows)
           todo == Work(c, rs)
           known == [n \in Tracked(rs) |-> rs[n].spec]
           view == IF backend = "journal" THEN [Cut EXCEPT !.rows = <<>>] ELSE Fresh
           v == [run[r] EXCEPT !.at = "works", !.todo = todo, !.had = Tracked(rows),
                               !.known = known, !.env = Cut.outs, !.view = view]
<1>1. At(r, "locked") /\ Leased(r) /\ View(r) = Cut /\ Cut.rows = rows
  BY DEF Load, At, Leased, StackInv, RunOk, Scoped, View, Cut
<1>2. \/ Stop(r, "failed")
      \/ ~Refuses(r, rs) /\ run' = [run EXCEPT ![r] = v] /\ fence' = fence
  BY <1>1 DEF Load
<1>u. UNCHANGED <<backend, rows, outs, epoch, stale, overtaken, ledger>>
  BY DEF Load, store, ghosts
<1>3. CASE Stop(r, "failed")
  <2>1. run' = [run EXCEPT ![r] = Ended("failed")] /\ Freed
    BY <1>3, StopFrees DEF StackInv, Stop
  <2> QED
    BY <1>u, <2>1, StopStep
<1>4. CASE ~Refuses(r, rs) /\ run' = [run EXCEPT ![r] = v] /\ fence' = fence
  <2>1. c \in Commands /\ c.kind \in Kinds
    BY <1>1, CommandsAssumption DEF StackInv, RunOk, Scoped
  <2>2. /\ c.kind \in Applies => Evaluated(c) \subseteq sc
        /\ c.kind = "import" => c.targets \subseteq sc
    BY <1>1 DEF StackInv, RunOk, Scoped
  <2>3. c.kind # "refresh" => rs = rows
    BY DEF Covered
  <2>4. /\ c.kind \in Applies \cup {"destroy"} => Tracked(rows) \subseteq sc
        /\ c.kind \in Applies => ~RaiseDrift(c, run[r].shown, Changes(c, rows))
                                 /\ RunnerForPlan(Changes(c, rows))
    BY <1>4, <2>3 DEF Refuses, RequireNoNewNodes, Applies
  <2>5. c.kind \in Applies => todo = Changes(c, rows)
    BY <2>3 DEF Work, Applies
  <2>6. DOMAIN todo \subseteq sc
    <3>1. CASE c.kind \in Applies
      BY <2>2, <2>4, <2>5, <3>1, ChangesActs
    <3>2. CASE c.kind = "destroy"
      <4>1. todo = DestroyPlan(c, rows)
        BY <2>3, <3>2 DEF Work, Applies
      <4>2. Doomed(c, rows) \subseteq Tracked(rows)
        BY DEF Doomed
      <4> QED
        BY <2>4, <3>2, <4>1, <4>2 DEF DestroyPlan
    <3>3. CASE c.kind = "refresh"
      <4>1. DOMAIN todo = Tracked(rs)
        BY <3>3 DEF Work, Applies
      <4> QED
        BY <3>3, <4>1, CoveredRows
    <3>4. CASE c.kind = "import"
      <4>1. DOMAIN todo = c.targets
        BY <3>4 DEF Work, Applies
      <4> QED
        BY <2>2, <3>4, <4>1
    <3> QED
      BY <2>1, <3>1, <3>2, <3>3, <3>4 DEF Kinds
  <2>7. ASSUME c.kind \in Applies, NEW n \in DOMAIN todo
        PROVE  /\ <<n, todo[n].act>> \notin Forbidden
               /\ c.kind = "apply" => n \in DOMAIN run[r].shown /\ run[r].shown[n].act = todo[n].act
               /\ todo[n].act \in {"create", "update", "delete"}
               /\ todo[n].act = "create" <=> rows[n] = Absent
    BY <2>4, <2>5, <2>7, ChangesActs DEF RaiseDrift, RunnerForPlan, Blocked
  <2>8. \A n \in DOMAIN known : rows[n] # Absent /\ known[n] = rows[n].spec
    BY CoveredRows DEF Tracked
  <2>9. Tracked(rows) \subseteq Nodes
    BY DEF Tracked
  <2>10. IF backend = "journal"
         THEN /\ DOMAIN view = {"rows", "seqs", "outs"}
              /\ view.seqs = [s \in Stacks |-> outs[s].seq]
              /\ view.outs = [s \in Stacks |-> outs[s].map]
         ELSE view = Fresh
    BY DEF Cut, Maps
  <2>11. /\ DOMAIN v = RunFields /\ v.at = "works" /\ v.cmd = c /\ v.scope = sc /\ v.todo = todo
         /\ v.had = Tracked(rows) /\ v.known = known /\ v.view = view /\ v.shown = run[r].shown
         /\ v.lease = run[r].lease
    BY DEF StackInv, Shape, RunFields
  <2> HIDE DEF v, todo, known, view, c, sc, rs
  <2>12. run'[r] = v
    BY <1>4 DEF StackInv, Shape
  <2>13. Scoped(r)'
    BY <2>1, <2>2, <2>4, <2>6, <2>9, <2>11, <2>12 DEF Scoped, Leased, Working, Publishing, At
  <2>14. Ordered(r)'
    BY <1>4, <1>u, <2>7, <2>11, <2>12 DEF Ordered, At
  <2>15. Known(r)'
    BY <1>4, <1>u, <2>8, <2>11, <2>12 DEF Known, Working
  <2>16. Viewed(r)'
    <3>1. Nodes \subseteq Stacks
      BY DEF Nodes
    <3>2. \A s \in Stacks : outs[s].seq \in Nat
      BY DEF StackInv, Shape
    <3>3. \A n \in Nodes : DOMAIN outs[n].map \subseteq {"x"}
      BY DEF StackInv, Shape
    <3> QED
      BY <1>u, <2>10, <2>11, <2>12, <3>1, <3>2, <3>3 DEF Viewed, Working
  <2>17. RunOk(r)' /\ Leased(r)'
    BY <2>11, <2>12, <2>13, <2>14, <2>15, <2>16 DEF RunOk, Pub, Drops, Chunked, Leased,
       Working, Publishing, At
  <2> QED
    BY <1>1, <1>4, <1>u, <2>11, <2>17, QuietStep
<1> QED
  BY <1>2, <1>3, <1>4

\* A run's write of a row nobody else holds.
LEMMA DoneStep ==
  ASSUME StackInv, NEW r \in Runs, NEW n \in Nodes, Write(r, n), NEW row, NEW alive,
         Done(r, n, row, alive)
  PROVE  StackInv'
<1> DEFINE todo == [m \in DOMAIN run[r].todo \ {n} |-> run[r].todo[m]]
           known == [m \in (DOMAIN run[r].known \ {n}) \cup (IF row = Absent THEN {} ELSE {n})
                        |-> IF m = n THEN row.spec ELSE run[r].known[m]]
           v == [run[r] EXCEPT !.todo = todo, !.known = known]
<1>1. run' = [run EXCEPT ![r] = v] /\ rows' = [rows EXCEPT ![n] = row]
  BY DEF Done
<1>u. backend' = backend /\ outs' = outs /\ fence' = fence /\ epoch' = epoch /\ ledger' = ledger
      /\ overtaken' = overtaken
  BY DEF Done, locks
<1>2. At(r, "works") /\ Working(r) /\ Leased(r) /\ (fence[n] = run[r].lease \/ fence[n] = 0)
  BY DEF Write, StillHolds, Held, At, Working, Leased
<1>3. /\ DOMAIN v = RunFields /\ v.todo = todo /\ v.known = known
      /\ \A f \in RunFields \ {"todo", "known"} : v[f] = run[r][f]
  BY DEF StackInv, Shape, RunFields
<1>4. /\ v.at = "works" /\ v.cmd = run[r].cmd /\ v.scope = run[r].scope /\ v.shown = run[r].shown
      /\ v.lease = run[r].lease /\ v.had = run[r].had /\ v.view = run[r].view
  BY <1>2, <1>3 DEF RunFields, At
<1>5. /\ \A m \in DOMAIN todo : m \in DOMAIN run[r].todo /\ m # n /\ todo[m] = run[r].todo[m]
      /\ \A m \in DOMAIN known : \/ m = n /\ row # Absent /\ known[m] = row.spec
                                 \/ m # n /\ m \in DOMAIN run[r].known /\ known[m] = run[r].known[m]
  OBVIOUS
<1>6. rows'[n] = row /\ DOMAIN rows' = Nodes /\ \A m \in Nodes \ {n} : rows'[m] = rows[m]
  BY <1>1 DEF StackInv, Shape
<1> HIDE DEF v, todo, known
<1>7. run'[r] = v /\ DOMAIN run' = Runs /\ \A q \in Runs \ {r} : run'[q] = run[q]
  BY <1>1 DEF StackInv, Shape
<1>8. Shape'
  BY <1>u, <1>3, <1>6, <1>7 DEF StackInv, Shape
<1>9. Scoped(r)'
  BY <1>u, <1>2, <1>4, <1>5, <1>3, <1>7 DEF StackInv, RunOk, Scoped, Leased, Working, Publishing, At
<1>10. Ordered(r)'
  BY <1>u, <1>2, <1>3, <1>4, <1>5, <1>6, <1>7 DEF StackInv, RunOk, Ordered, At
<1>11. Known(r)'
  BY <1>u, <1>2, <1>3, <1>4, <1>5, <1>6, <1>7 DEF StackInv, RunOk, Known, Working
<1>12. Viewed(r)'
  BY <1>u, <1>2, <1>4, <1>7 DEF StackInv, RunOk, Viewed, Working
<1>13. RunOk(r)' /\ Leased(r)'
  BY <1>4, <1>7, <1>9, <1>10, <1>11, <1>12 DEF RunOk, Pub, Drops, Chunked, Leased, Working,
     Publishing, At
<1>14. ASSUME NEW q \in Runs \ {r} PROVE Kept(q)
  <2>1. Leased(q) => fence[n] # run[q].lease
    BY <1>2 DEF StackInv, Leases
  <2> QED
    BY <1>u, <1>6, <1>7, <2>1 DEF Kept
<1>15. PublishedIsLive'
  <2>1. stale \subseteq stale' /\ (row # rows[n] => n \in stale')
    BY DEF Done
  <2> QED
    BY <1>u, <1>6, <2>1 DEF StackInv, PublishedIsLive
<1>16. MergesKept'
  BY <1>u DEF StackInv, MergesKept
<1>17. epoch' >= epoch
  BY <1>u DEF StackInv, Shape
<1> QED
  BY <1>2, <1>4, <1>7, <1>8, <1>13, <1>14, <1>15, <1>16, <1>17, StepOf


-----------------------------------------------------------------------------
(***************************************************************************)
(* Outputs.                                                                 *)
(***************************************************************************)
\* What a run may rely on of the view it commits over.
LEMMA ViewFacts ==
  ASSUME StackInv, NEW r \in Runs, Working(r)
  PROVE  /\ \A n \in Nodes : DOMAIN View(r).outs[n] \subseteq {"x"}
         /\ \A s \in Stacks : (backend = "journal" => View(r).seqs[s] = outs[s].seq)
                                  => View(r).outs[s] = outs[s].map
         /\ backend = "journal" => View(r) = run[r].view
<1>1. CASE backend = "journal"
  <2>1. View(r) = run[r].view
    BY <1>1 DEF StackInv, RunOk, Viewed, View, Fresh
  <2> QED
    BY <1>1, <2>1 DEF StackInv, RunOk, Viewed
<1>2. CASE backend # "journal"
  <2>1. View(r).outs = [s \in Stacks |-> outs[s].map]
    BY <1>2 DEF StackInv, RunOk, Viewed, View, Cut, Maps
  <2> QED
    BY <1>2, <2>1 DEF StackInv, Shape, Nodes
<1> QED
  BY <1>1, <1>2

LEMMA MineFacts ==
  ASSUME StackInv, NEW r \in Runs, Working(r)
  PROVE  /\ Mine(r) \subseteq Nodes /\ Nodes \subseteq Stacks
         /\ Publishing(r) => Mine(r) \subseteq run[r].scope
<1>1. run[r].had \subseteq Nodes /\ Evaluated(run[r].cmd) \subseteq Nodes
  BY DEF StackInv, RunOk, Scoped, Evaluated
<1>2. Publishing(r) => run[r].had \subseteq run[r].scope
  BY DEF StackInv, RunOk, Scoped
<1>3. Publishing(r) /\ run[r].cmd.kind # "destroy" => Evaluated(run[r].cmd) \subseteq run[r].scope
  BY DEF StackInv, RunOk, Scoped, Leased, Working, Publishing
<1> QED
  BY <1>1, <1>2, <1>3 DEF Mine, Nodes

\* The stacks a run changes are stacks, and the nodes among them are in its lock's scope.
LEMMA TouchedFacts ==
  ASSUME StackInv, NEW r \in Runs, Publishing(r)
  PROVE  /\ Touched(r) \subseteq Stacks
         /\ Touched(r) \cap Nodes \subseteq run[r].scope
         /\ \A n \in Touched(r) : n \in DOMAIN run[r].pub \/ <<n, "x">> \in run[r].drop
<1>1. Working(r)
  BY DEF Publishing, Working
<1>2. DOMAIN run[r].pub \subseteq Stacks /\ run[r].drop \subseteq Mine(r) \X {"x"}
  BY DEF StackInv, RunOk, Pub, Drops
<1>3. \A p \in run[r].drop : p[1] \in Mine(r) /\ p = <<p[1], "x">>
  BY <1>2
<1>4. ASSUME NEW n \in Nodes \cap DOMAIN run[r].pub PROVE n \in run[r].scope
  <2>1. run[r].cmd.kind \in Applies /\ Declares(run[r].cmd, n) # {}
    BY DEF StackInv, RunOk, Pub, DeclaredBy, Applies
  <2>2. n \in Evaluated(run[r].cmd)
    BY <2>1 DEF Declares, Evaluated
  <2> QED
    BY <1>1, <2>1, <2>2 DEF StackInv, RunOk, Scoped, Leased
<1> QED
  BY <1>1, <1>2, <1>3, <1>4, MineFacts DEF Touched

\* What a run says of a node it still holds is so: a name it publishes has the row's value,
\* a name it drops is gone.
LEMMA MergedIsLive ==
  ASSUME StackInv, NEW r \in Runs, Publishing(r), NEW n \in Nodes \cap Touched(r),
         fence[n] = run[r].lease, NEW map, "x" \in DOMAIN Merged(r, n, map)
  PROVE  rows[n] # Absent /\ Merged(r, n, map)["x"] = rows[n].spec
<1>1. CASE n \in DOMAIN run[r].pub
  <2>1. /\ n \in DOMAIN run[r].known /\ "x" \in DOMAIN run[r].pub[n]
        /\ run[r].pub[n]["x"] = run[r].known[n]
    BY <1>1 DEF StackInv, RunOk, Pub
  <2>2. rows[n] # Absent /\ run[r].known[n] = rows[n].spec
    BY <2>1 DEF StackInv, RunOk, Known, Working, Publishing
  <2> QED
    BY <1>1, <2>1, <2>2, MergedSays
<1>2. CASE n \notin DOMAIN run[r].pub
  <2>1. <<n, "x">> \in run[r].drop
    BY <1>2, TouchedFacts
  <2> QED
    BY <1>2, <2>1, MergedDrops
<1> QED
  BY <1>1, <1>2

\* Of a node a run settles it says something, unless there is nothing to say.
LEMMA SettledIsTouched ==
  ASSUME StackInv, NEW r \in Runs, Publishing(r), NEW n \in Settled(r), "x" \in DOMAIN outs[n].map
  PROVE  n \in Nodes \cap Touched(r) /\ fence[n] = run[r].lease
<1>1. Working(r)
  BY DEF Publishing, Working
<1>2. n \in Mine(r) /\ n \in Nodes /\ n \in Stacks /\ fence[n] = run[r].lease
  BY <1>1, MineFacts DEF Settled, Held
<1>3. View(r).outs[n] = outs[n].map
  BY <1>1, <1>2, ViewFacts DEF Settled, Unseen
<1>4. n \in DOMAIN run[r].pub \/ <<n, "x">> \in run[r].drop \/ n \in Touched(r)
  BY <1>2, <1>3 DEF Settled, Unseen, StackInv, RunOk, Drops
<1>5. <<n, "x">>[1] = n
  OBVIOUS
<1> QED
  BY <1>2, <1>4, <1>5 DEF Touched

LEMMA PublishStep ==
  ASSUME StackInv, NEW r \in Runs, Publish(r)
  PROVE  StackInv'
<1> DEFINE c == run[r].cmd
           pub == IF c.kind = "destroy" THEN <<>> ELSE Published(r)
           drop == RetiredOutputs(r)
           v == [run[r] EXCEPT !.at = "publishes", !.env = <<>>, !.pub = pub, !.drop = drop]
<1>u. UNCHANGED <<backend, rows, outs, epoch, stale, overtaken, ledger>>
  BY DEF Publish, store, ghosts
<1>1. At(r, "works") /\ Working(r) /\ Leased(r)
  BY DEF Publish, At, Working, Leased
<1>2. \/ Stop(r, "over")
      \/ c.kind \notin {"refresh", "import"} /\ run' = [run EXCEPT ![r] = v] /\ fence' = fence
  BY DEF Publish
<1>3. CASE Stop(r, "over")
  <2>1. run' = [run EXCEPT ![r] = Ended("over")] /\ Freed
    BY <1>3, StopFrees DEF StackInv, Stop
  <2> QED
    BY <1>u, <2>1, StopStep
<1>4. CASE c.kind \notin {"refresh", "import"} /\ run' = [run EXCEPT ![r] = v] /\ fence' = fence
  <2>1. c \in Commands /\ c.kind \in Applies \cup {"destroy"}
    BY <1>1, <1>4, CommandsAssumption DEF StackInv, RunOk, Scoped, Kinds
  <2>2. DOMAIN pub \subseteq Stacks
    BY DEF Published
  <2>3. ASSUME NEW n \in Nodes \cap DOMAIN pub
        PROVE  /\ c.kind \in Applies /\ Declares(c, n) # {} /\ n \in DOMAIN run[r].known
               /\ DOMAIN pub[n] = {"x"} /\ pub[n]["x"] = run[r].known[n]
    <3>1. c.kind \in Applies /\ pub = Published(r)
      BY <2>1, <2>3
    <3>2. Declares(c, n) # {} /\ n \notin Bare /\ n \in DOMAIN run[r].known
      BY <2>3, <3>1 DEF Published, Nodes
    <3>3. Declares(c, n) = {"x"}
      BY <2>1, <3>2, ExportsAssumption DEF Declares
    <3>4. pub[n] = [k \in {"x"} |-> run[r].known[n]]
      BY <2>3, <3>1, <3>2, <3>3 DEF Published, Nodes
    <3> QED
      BY <3>1, <3>2, <3>4
  <2>4. drop \subseteq Mine(r) \X {"x"}
    <3> SUFFICES ASSUME NEW p \in drop PROVE p \in Mine(r) \X {"x"}
      OBVIOUS
    <3>1. p \in Mine(r) \X {"x", "y"} /\ p[2] \in DOMAIN View(r).outs[p[1]]
      BY DEF RetiredOutputs
    <3>2. p[2] = "x"
      BY <1>1, <3>1, MineFacts, ViewFacts
    <3> QED
      BY <3>1, <3>2
  <2>5. ASSUME NEW n \in Mine(r), DeclaredBy(r, n) = {}, "x" \in DOMAIN View(r).outs[n]
        PROVE  <<n, "x">> \in drop
    BY <2>5 DEF RetiredOutputs
  <2>6. /\ DOMAIN v = RunFields /\ v.at = "publishes" /\ v.pub = pub /\ v.drop = drop
        /\ \A f \in RunFields \ {"at", "env", "pub", "drop"} : v[f] = run[r][f]
    BY DEF StackInv, Shape, RunFields
  <2>7. /\ v.cmd = c /\ v.scope = run[r].scope /\ v.lease = run[r].lease /\ v.had = run[r].had
        /\ v.known = run[r].known /\ v.view = run[r].view
    BY <2>6 DEF RunFields
  <2> HIDE DEF v, pub, drop
  <2>8. run'[r] = v
    BY <1>4 DEF StackInv, Shape
  <2>9. Scoped(r)'
    BY <1>1, <2>1, <2>6, <2>7, <2>8 DEF StackInv, RunOk, Scoped, Leased, Working, Publishing, At
  <2>10. Known(r)' /\ Viewed(r)'
    BY <1>1, <1>4, <1>u, <2>6, <2>7, <2>8 DEF StackInv, RunOk, Known, Viewed, Working
  <2>11. \A n : DeclaredBy(r, n)' = DeclaredBy(r, n)
    BY <2>7, <2>8 DEF DeclaredBy
  <2>12. Pub(r)'
    <3>1. \A n \in Nodes \cap DOMAIN pub : DeclaredBy(r, n) # {}
      BY <2>3 DEF DeclaredBy, Applies
    <3> QED
      BY <2>2, <2>3, <2>6, <2>7, <2>8, <2>11, <3>1 DEF Pub
  <2>13. Drops(r)'
    <3>1. View(r)' = View(r) /\ Mine(r)' = Mine(r)
      BY <1>u, <2>7, <2>8 DEF View, Cut, Maps, Mine
    <3> QED
      BY <2>4, <2>5, <2>6, <2>8, <2>11, <3>1 DEF Drops
  <2>14. RunOk(r)' /\ Leased(r)'
    BY <2>6, <2>8, <2>9, <2>10, <2>12, <2>13 DEF RunOk, Ordered, Chunked, Leased, Working, At
  <2> QED
    BY <1>1, <1>4, <1>u, <2>6, <2>7, <2>14, QuietStep
<1> QED
  BY <1>2, <1>3, <1>4


LEMMA CommitFacts ==
  ASSUME StackInv, NEW r \in Runs, Publishing(r), NEW S, S \subseteq Touched(r), Commit(r, S),
         backend = "journal" => \A s \in S : outs[s].seq = View(r).seqs[s]
  PROVE  /\ DOMAIN outs' = Stacks
         /\ \A s \in Stacks : outs'[s].seq \in Nat
         /\ \A n \in Nodes : DOMAIN outs'[n].map \subseteq {"x"}
         /\ \A s \in Stacks \ S : outs'[s] = outs[s]
         /\ \A s \in S : outs'[s].seq > outs[s].seq /\ outs'[s].map = Merged(r, s, outs[s].map)
         /\ MergesKept'
<1>1. Working(r) /\ S \subseteq Stacks /\ Nodes \subseteq Stacks
  BY TouchedFacts DEF Publishing, Working, Nodes
<1>2. \A s \in S : (IF backend = "journal" THEN View(r).outs[s] ELSE outs[s].map) = outs[s].map
  BY <1>1, ViewFacts
<1>3. outs' = [s \in Stacks |-> IF s \in S
                  THEN [seq |-> outs[s].seq + 1, map |-> Merged(r, s, outs[s].map)] ELSE outs[s]]
  BY <1>1, <1>2 DEF Commit
<1>4. \A s \in Stacks : outs[s].seq \in Nat
  BY DEF StackInv, Shape
<1>5. ASSUME NEW n \in Nodes PROVE DOMAIN outs'[n].map \subseteq {"x"}
  <2>1. DOMAIN outs[n].map \subseteq {"x"}
    BY DEF StackInv, Shape
  <2>2. n \in DOMAIN run[r].pub => DOMAIN run[r].pub[n] \subseteq {"x"}
    BY DEF StackInv, RunOk, Pub
  <2>3. DOMAIN Merged(r, n, outs[n].map) \subseteq {"x"}
    BY <2>1, <2>2, MergedWithin
  <2> QED
    BY <1>1, <1>3, <2>1, <2>3
<1>6. MergesKept'
  <2>1. \A s \in Stacks : outs[s].map = ledger[s]
    BY DEF StackInv, MergesKept
  <2>2. ledger' = [s \in Stacks |-> IF s \in S THEN Merged(r, s, ledger[s]) ELSE ledger[s]]
    BY DEF Commit
  <2> QED
    BY <1>3, <2>1, <2>2 DEF MergesKept
<1>7. \A s \in Stacks \ S : outs'[s] = outs[s]
  BY <1>3
<1>8. \A s \in S : outs'[s].seq = outs[s].seq + 1 /\ outs'[s].map = Merged(r, s, outs[s].map)
  BY <1>1, <1>3
<1>9. \A s \in Stacks : outs'[s].seq \in Nat /\ (s \in S => outs'[s].seq > outs[s].seq)
  BY <1>4, <1>7, <1>8
<1> QED
  BY <1>1, <1>3, <1>5, <1>6, <1>7, <1>8, <1>9

\* A commit leaves the outputs those of the rows: the run holds the nodes it commits, and
\* the nodes it settles besides are as it means them.
LEMMA CommitIsLive ==
  ASSUME StackInv, NEW r \in Runs, Publishing(r), NEW S, S \subseteq Touched(r), Commit(r, S),
         backend = "journal" => \A s \in S : outs[s].seq = View(r).seqs[s],
         rows' = rows,
         \A n \in Nodes \ (stale' \cup overtaken') :
            /\ n \in S => fence[n] = run[r].lease
            /\ n \notin S => \/ n \notin stale \cup overtaken
                             \/ /\ n \in Settled(r)
                                /\ n \in Touched(r) => Merged(r, n, outs[n].map) = outs[n].map
  PROVE  PublishedIsLive'
<1> SUFFICES ASSUME NEW n \in Nodes, n \notin stale' \cup overtaken', "x" \in DOMAIN outs'[n].map
             PROVE  rows[n] # Absent /\ outs'[n].map["x"] = rows[n].spec
  BY DEF PublishedIsLive
<1>1. CASE n \in S
  <2>1. outs'[n].map = Merged(r, n, outs[n].map) /\ fence[n] = run[r].lease
    BY <1>1, CommitFacts
  <2> QED
    BY <1>1, <2>1, MergedIsLive
<1>2. CASE n \notin S
  <2>1. outs'[n] = outs[n]
    BY <1>2, CommitFacts DEF Nodes
  <2>2. CASE n \notin stale \cup overtaken
    BY <2>1, <2>2 DEF StackInv, PublishedIsLive
  <2>3. CASE n \in Settled(r) /\ (n \in Touched(r) => Merged(r, n, outs[n].map) = outs[n].map)
    <3>1. n \in Touched(r) /\ fence[n] = run[r].lease
      BY <2>1, <2>3, SettledIsTouched
    <3> QED
      BY <2>1, <2>3, <3>1, MergedIsLive
  <2> QED
    BY <1>2, <2>2, <2>3
<1> QED
  BY <1>1, <1>2

\* What a step of run r that commits has to show.
LEMMA CommitStep ==
  ASSUME StackInv, NEW r \in Runs, Publishing(r), NEW S, S \subseteq Touched(r), Commit(r, S),
         backend = "journal" => \A s \in S : outs[s].seq = View(r).seqs[s],
         backend = "journal" \/ \A n \in S \cap Nodes : fence[n] # run[r].lease => n \in overtaken',
         \A n \in overtaken : n \in overtaken' \/ fence[n] = run[r].lease,
         Freed, UNCHANGED <<backend, rows, epoch>>,
         NEW v, run' = [run EXCEPT ![r] = v], DOMAIN v = RunFields,
         Shape' => RunOk(r)', Leased(r)' => v.lease = run[r].lease,
         PublishedIsLive'
  PROVE  StackInv'
<1>1. run'[r] = v /\ DOMAIN run' = Runs /\ \A q \in Runs \ {r} : run'[q] = run[q]
  BY DEF StackInv, Shape
<1>2. backend' = backend /\ rows' = rows /\ epoch' = epoch
  OBVIOUS
<1>3. Shape'
  BY <1>1, <1>2, CommitFacts DEF StackInv, Shape, Freed
<1>4. Leased(r)
  BY DEF Publishing, Leased, Working
<1>5. ASSUME NEW q \in Runs \ {r} PROVE Kept(q)
  <2>1. \A s \in Stacks : outs'[s] = outs[s] \/ outs'[s].seq > outs[s].seq
    BY CommitFacts
  <2>2. Leased(q) => run[q].lease # run[r].lease
    BY <1>4 DEF StackInv, Leases
  <2>3. \A n \in Nodes : Leased(q) /\ fence[n] = run[q].lease =>
              /\ n \in overtaken => n \in overtaken'
              /\ backend = "journal" \/ outs'[n] = outs[n] \/ n \in overtaken'
    BY <2>2, CommitFacts DEF Nodes
  <2>4. \A n \in Nodes : Leased(q) /\ fence'[n] = run[q].lease => fence[n] = run[q].lease
    BY FreedKeeps
  <2> QED
    BY <1>1, <1>2, <2>1, <2>3, <2>4 DEF Kept
<1>6. MergesKept' /\ epoch' >= epoch
  BY <1>2, CommitFacts DEF StackInv, Shape
<1> QED
  BY <1>1, <1>3, <1>4, <1>5, <1>6, StepOf


LEMMA EndedCommit ==
  ASSUME StackInv, NEW r \in Runs, run' = [run EXCEPT ![r] = Ended("over")]
  PROVE  RunOk(r)' /\ ~Leased(r)' /\ DOMAIN Ended("over") = RunFields
<1>1. run'[r].at = "over"
  BY EndedShape DEF StackInv, Shape
<1> QED
  BY <1>1, EndedOk, EndedShape

\* A view in which the stacks of S are read again, or are as this run leaves them.
LEMMA RebasedFacts ==
  ASSUME StackInv, Shape', NEW r \in Runs, Publishing(r), backend = "journal", NEW S, S \subseteq Touched(r),
         \A s \in Stacks \ S : outs'[s] = outs[s]
  PROVE  /\ DOMAIN Rebased(r, S) = {"rows", "seqs", "outs"}
         /\ DOMAIN Rebased(r, S).seqs = Stacks /\ DOMAIN Rebased(r, S).outs = Stacks
         /\ \A n \in Nodes : DOMAIN Rebased(r, S).outs[n] \subseteq {"x"}
         /\ \A s \in Stacks :
               /\ Rebased(r, S).seqs[s] \in Nat /\ Rebased(r, S).seqs[s] <= outs'[s].seq
               /\ Rebased(r, S).seqs[s] = outs'[s].seq => Rebased(r, S).outs[s] = outs'[s].map
         /\ \A s \in S : Rebased(r, S).outs[s] = outs'[s].map
         /\ \A s \in Stacks \ S : Rebased(r, S).outs[s] = View(r).outs[s]
<1>1. Working(r) /\ S \subseteq Stacks /\ Nodes \subseteq Stacks
  BY TouchedFacts DEF Publishing, Working, Nodes
<1>2. View(r) = run[r].view
  BY <1>1, ViewFacts
<1>3. /\ DOMAIN View(r) = {"rows", "seqs", "outs"}
      /\ DOMAIN View(r).seqs = Stacks /\ DOMAIN View(r).outs = Stacks
      /\ \A n \in Nodes : DOMAIN View(r).outs[n] \subseteq {"x"}
      /\ \A s \in Stacks : /\ View(r).seqs[s] \in Nat /\ View(r).seqs[s] <= outs[s].seq
                           /\ View(r).seqs[s] = outs[s].seq => View(r).outs[s] = outs[s].map
  BY <1>1, <1>2 DEF StackInv, RunOk, Viewed
<1>4. /\ DOMAIN Rebased(r, S) = {"rows", "seqs", "outs"}
      /\ Rebased(r, S).seqs = [s \in Stacks |-> IF s \in S THEN outs'[s].seq ELSE View(r).seqs[s]]
      /\ Rebased(r, S).outs = [s \in Stacks |-> IF s \in S THEN outs'[s].map ELSE View(r).outs[s]]
  BY <1>3 DEF Rebased
<1>5. /\ \A s \in Stacks : outs'[s].seq \in Nat
      /\ \A n \in Nodes : DOMAIN outs'[n].map \subseteq {"x"}
  BY DEF Shape
<1>6. ASSUME NEW s \in Stacks
      PROVE  /\ Rebased(r, S).seqs[s] \in Nat /\ Rebased(r, S).seqs[s] <= outs'[s].seq
             /\ Rebased(r, S).seqs[s] = outs'[s].seq => Rebased(r, S).outs[s] = outs'[s].map
  <2>1. CASE s \in S
    BY <1>4, <1>5, <2>1
  <2>2. CASE s \notin S
    BY <1>3, <1>4, <2>2
  <2> QED
    BY <2>1, <2>2
<1> QED
  BY <1>1, <1>3, <1>4, <1>5, <1>6

\* A run that goes on publishing, with the view it had or a rebased one.
LEMMA GoesOn ==
  ASSUME StackInv, Shape', NEW r \in Runs, Publishing(r), backend = "journal",
         UNCHANGED <<backend, rows, fence>>,
         NEW S, S \subseteq Touched(r), \A s \in Stacks \ S : outs'[s] = outs[s],
         NEW v, run' = [run EXCEPT ![r] = v], v.at \in {"publishes", "chunks"},
         v.cmd = run[r].cmd, v.scope = run[r].scope, v.lease = run[r].lease, v.had = run[r].had,
         v.known = run[r].known, v.pub = run[r].pub, v.drop = run[r].drop,
         v.view = Rebased(r, S) \/ (v.view = run[r].view /\ S = {}),
         v.at = "chunks" =>
            /\ v.rest \subseteq Touched(r) /\ v.moved \subseteq Touched(r)
            /\ v.moved = {} => \A s \in Touched(r) \ v.rest :
                                  Merged(r, s, v.view.outs[s]) = v.view.outs[s]
  PROVE  RunOk(r)'
<1>1. run'[r] = v /\ Working(r) /\ backend' = backend /\ rows' = rows /\ fence' = fence
  BY DEF StackInv, Shape, Publishing, Working
<1>2. View(r) = run[r].view
  BY <1>1, ViewFacts
<1>3. /\ DOMAIN v.view = {"rows", "seqs", "outs"}
      /\ DOMAIN v.view.seqs = Stacks /\ DOMAIN v.view.outs = Stacks
      /\ \A n \in Nodes : DOMAIN v.view.outs[n] \subseteq {"x"}
      /\ \A s \in Stacks : /\ v.view.seqs[s] \in Nat /\ v.view.seqs[s] <= outs'[s].seq
                           /\ v.view.seqs[s] = outs'[s].seq => v.view.outs[s] = outs'[s].map
      /\ \A s \in Stacks \ S : v.view.outs[s] = View(r).outs[s]
  <2>1. CASE v.view = Rebased(r, S)
    BY <2>1, RebasedFacts
  <2>2. CASE v.view = run[r].view /\ S = {}
    BY <1>1, <1>2, <2>2 DEF StackInv, RunOk, Viewed
  <2> QED
    BY <2>1, <2>2
<1>4. View(r)' = v.view
  BY <1>1, <1>3 DEF View, Fresh
<1>5. Scoped(r)'
  BY <1>1 DEF StackInv, RunOk, Scoped, Leased, Working, Publishing, At
<1>6. Known(r)'
  BY <1>1 DEF StackInv, RunOk, Known, Working
<1>7. Pub(r)'
  BY <1>1 DEF StackInv, RunOk, Pub, Publishing, DeclaredBy
<1>8. Viewed(r)'
  BY <1>1, <1>3 DEF Viewed
<1>9. Drops(r)'
  <2>1. Mine(r)' = Mine(r) /\ \A n : DeclaredBy(r, n)' = DeclaredBy(r, n)
    BY <1>1 DEF Mine, DeclaredBy
  <2>2. Mine(r) \subseteq Nodes /\ Nodes \subseteq Stacks
    BY <1>1, MineFacts
  <2>3. ASSUME NEW n \in Mine(r), DeclaredBy(r, n) = {}, "x" \in DOMAIN v.view.outs[n]
        PROVE  <<n, "x">> \in run[r].drop
    <3>1. CASE n \in S
      <4>1. n \notin DOMAIN run[r].pub
        BY <2>2, <2>3 DEF StackInv, RunOk, Pub
      <4> QED
        BY <3>1, <4>1, TouchedFacts
    <3>2. CASE n \notin S
      <4>1. "x" \in DOMAIN View(r).outs[n]
        BY <1>3, <2>2, <2>3, <3>2
      <4> QED
        BY <2>3, <4>1 DEF StackInv, RunOk, Drops
    <3> QED
      BY <3>1, <3>2
  <2>4. run[r].drop \subseteq Mine(r) \X {"x"}
    BY DEF StackInv, RunOk, Drops
  <2> QED
    BY <1>1, <1>4, <2>1, <2>3, <2>4 DEF Drops
<1>10. Chunked(r)'
  <2>1. Touched(r)' = Touched(r) /\ \A s, m : Merged(r, s, m)' = Merged(r, s, m)
    BY <1>1 DEF Touched, Merged
  <2> QED
    BY <1>1, <1>4, <2>1 DEF Chunked, At
<1>11. Ordered(r)'
  BY <1>1 DEF Ordered, At
<1> QED
  BY <1>5, <1>6, <1>7, <1>8, <1>9, <1>10, <1>11 DEF RunOk

\* Attempts that commit nothing.
LEMMA RebaseStep ==
  ASSUME StackInv, NEW r \in Runs, Publishing(r), backend = "journal", NEW S, S \subseteq Touched(r), Rebase(r, S),
         UNCHANGED <<backend, rows, outs, fence, epoch, stale, overtaken, ledger>>
  PROVE  StackInv'
<1> DEFINE v == [run[r] EXCEPT !.at = "publishes", !.tries = run[r].tries + 1,
                               !.moved = {}, !.rest = {}, !.view = Rebased(r, S)]
<1>1. run' = [run EXCEPT ![r] = v]
  BY DEF Rebase
<1>2. /\ DOMAIN v = RunFields /\ v.at = "publishes" /\ v.view = Rebased(r, S)
      /\ \A f \in RunFields \ {"at", "tries", "moved", "rest", "view"} : v[f] = run[r][f]
  BY DEF StackInv, Shape, RunFields
<1>3. /\ v.cmd = run[r].cmd /\ v.scope = run[r].scope /\ v.lease = run[r].lease
      /\ v.had = run[r].had /\ v.known = run[r].known /\ v.pub = run[r].pub /\ v.drop = run[r].drop
  BY <1>2 DEF RunFields
<1> HIDE DEF v
<1>4. Shape'
  BY <1>1, <1>2 DEF StackInv, Shape
<1>5. RunOk(r)'
  BY <1>1, <1>2, <1>3, <1>4, GoesOn
<1>6. Leased(r)
  BY DEF Publishing, Leased, Working
<1> QED
  BY <1>1, <1>2, <1>3, <1>5, <1>6, QuietStep


LEMMA OneTransactionStep ==
  ASSUME StackInv, NEW r \in Runs, OneTransaction(r)
  PROVE  StackInv'
<1> DEFINE S == StackChanges(r)
           moved == HeadMoved(r, S)
<1>1. /\ Publishing(r) /\ Working(r) /\ backend = "journal" /\ S \subseteq Touched(r)
      /\ S # {} => StillHolds(r, FencedNodes(r, S))
  BY DEF OneTransaction, Publishing, Working, At, StackChanges
<1>2. moved \subseteq S
  BY DEF HeadMoved
<1>3. CASE moved = {} /\ Commit(r, S) /\ Complete(r, {})
  <2>1. backend' = backend /\ rows' = rows /\ epoch' = epoch
    BY DEF OneTransaction
  <2>2. /\ run' = [run EXCEPT ![r] = Ended("over")] /\ Freed
        /\ stale' = stale \ Settled(r) /\ overtaken' = overtaken \ Settled(r)
        /\ \A n \in Settled(r) : fence[n] = run[r].lease
    BY <1>3, StopFrees DEF Complete, Stop, StackInv, Settled, Held
  <2>3. \A s \in S : outs[s].seq = View(r).seqs[s]
    BY <1>3 DEF HeadMoved
  <2>4. \A n \in S \cap Nodes : fence[n] = run[r].lease
    BY <1>1, TouchedFacts DEF StillHolds, Held, FencedNodes
  <2>5. ASSUME NEW n \in Nodes, n \notin S, n \in Settled(r), n \in Touched(r)
        PROVE  Merged(r, n, outs[n].map) = outs[n].map
    <3>1. View(r).outs[n] = outs[n].map
      BY <1>1, <2>5, ViewFacts DEF Settled, Unseen, Nodes
    <3> QED
      BY <2>5, <3>1 DEF StackChanges
  <2> HIDE DEF S, moved
  <2>6. PublishedIsLive'
    BY <1>1, <1>3, <2>1, <2>2, <2>3, <2>4, <2>5, CommitIsLive
  <2> QED
    BY <1>1, <1>3, <2>1, <2>2, <2>3, <2>4, <2>6, CommitStep, EndedCommit
<1>4. CASE UNCHANGED <<outs, holder, fence, ghosts>> /\ Rebase(r, moved)
  <2>1. UNCHANGED <<backend, rows, outs, fence, epoch, stale, overtaken, ledger>>
    BY <1>4 DEF OneTransaction, ghosts
  <2> QED
    BY <1>1, <1>2, <1>4, <2>1, RebaseStep
<1> QED
  BY <1>3, <1>4 DEF OneTransaction

LEMMA PrecheckStep ==
  ASSUME StackInv, NEW r \in Runs, Precheck(r)
  PROVE  StackInv'
<1> DEFINE S == StackChanges(r)
           v == [run[r] EXCEPT !.at = "chunks", !.rest = S, !.moved = {}]
<1>u. UNCHANGED <<backend, rows, outs, fence, epoch, stale, overtaken, ledger>>
  BY DEF Precheck, store, locks, ghosts
<1>1. /\ Publishing(r) /\ Working(r) /\ Leased(r) /\ backend = "journal" /\ run' = [run EXCEPT ![r] = v]
  BY DEF Precheck, Publishing, Working, Leased, At
<1>2. /\ DOMAIN v = RunFields /\ v.at = "chunks" /\ v.rest = S /\ v.moved = {}
      /\ \A f \in RunFields \ {"at", "rest", "moved"} : v[f] = run[r][f]
  BY DEF StackInv, Shape, RunFields
<1>3. /\ v.cmd = run[r].cmd /\ v.scope = run[r].scope /\ v.lease = run[r].lease
      /\ v.had = run[r].had /\ v.known = run[r].known /\ v.pub = run[r].pub /\ v.drop = run[r].drop
      /\ v.view = run[r].view
  BY <1>2 DEF RunFields
<1>4. View(r) = run[r].view
  BY <1>1, ViewFacts
<1>5. /\ S \subseteq Touched(r)
      /\ \A s \in Touched(r) \ S : Merged(r, s, v.view.outs[s]) = v.view.outs[s]
  BY <1>3, <1>4 DEF StackChanges
<1> HIDE DEF v, S
<1>6. Shape'
  BY <1>u, <1>1, <1>2 DEF StackInv, Shape
<1>7. RunOk(r)'
  <2>1. {} \subseteq Touched(r) /\ \A s \in Stacks \ {} : outs'[s] = outs[s]
    BY <1>u
  <2> QED
    BY <1>u, <1>1, <1>2, <1>3, <1>5, <1>6, <2>1, GoesOn
<1> QED
  BY <1>u, <1>1, <1>2, <1>3, <1>7, QuietStep

LEMMA SqlStep ==
  ASSUME StackInv, NEW r \in Runs, SqlSetOutputs(r)
  PROVE  StackInv'
<1> DEFINE torn == Torn(r, Touched(r))
<1>1. /\ Publishing(r) /\ Working(r) /\ backend # "journal"
      /\ Commit(r, Touched(r)) /\ Complete(r, torn)
  BY DEF SqlSetOutputs, Publishing, Working, At
<1>2. backend' = backend /\ rows' = rows /\ epoch' = epoch
  BY DEF SqlSetOutputs
<1>3. /\ run' = [run EXCEPT ![r] = Ended("over")] /\ Freed
      /\ stale' = stale \ Settled(r) /\ overtaken' = (overtaken \ Settled(r)) \cup torn
  BY <1>1, StopFrees DEF Complete, Stop, StackInv
<1>4. /\ \A n \in Settled(r) : fence[n] = run[r].lease
      /\ \A n \in Touched(r) \cap Nodes : fence[n] # run[r].lease => n \in overtaken'
  BY <1>3 DEF Settled, Held, Torn
<1> HIDE DEF torn
<1>5. PublishedIsLive'
  <2>1. \A n \in Nodes \ (stale' \cup overtaken') :
            /\ n \in Touched(r) => fence[n] = run[r].lease
            /\ n \notin stale \cup overtaken \/ n \in Settled(r)
    BY <1>3, <1>4
  <2> QED
    BY <1>1, <1>2, <2>1, CommitIsLive
<1> QED
  BY <1>1, <1>2, <1>3, <1>4, <1>5, CommitStep, EndedCommit

LEMMA ChunkStep ==
  ASSUME StackInv, NEW r \in Runs, Chunk(r)
  PROVE  StackInv'
<1> DEFINE S == Batch(run[r].rest)
           moved == HeadMoved(r, S)
           rest == run[r].rest \ S
           torn == IF moved = {} THEN Torn(r, S) ELSE {}
           behind == run[r].moved \cup moved
           goes == stale' = stale /\ overtaken' = overtaken \cup torn /\ fence' = fence
           on == [run[r] EXCEPT !.rest = rest, !.moved = behind,
                                !.view = IF moved = {} THEN Rebased(r, S) ELSE run[r].view]
           again == [run[r] EXCEPT !.at = "publishes", !.tries = run[r].tries + 1, !.moved = {},
                        !.rest = {},
                        !.view = Rebased(r, behind \cup (IF moved = {} THEN S ELSE {}))]
<1>1. At(r, "chunks") /\ Publishing(r) /\ Working(r) /\ Leased(r) /\ backend = "journal"
  BY DEF Chunk, Publishing, Working, Leased, At, StackInv, RunOk, Scoped
<1>2. /\ S \subseteq run[r].rest /\ S \subseteq Touched(r) /\ rest \subseteq Touched(r)
      /\ moved \subseteq S /\ run[r].moved \subseteq Touched(r) /\ behind \subseteq Touched(r)
  BY <1>1 DEF Batch, HeadMoved, StackInv, RunOk, Chunked
<1>3. backend' = backend /\ rows' = rows /\ epoch' = epoch
  BY DEF Chunk
<1>4. IF moved = {} THEN Commit(r, S) ELSE UNCHANGED <<outs, ledger>>
  BY DEF Chunk
<1>5. \/ rest # {} /\ run' = [run EXCEPT ![r] = on] /\ goes
      \/ rest = {} /\ behind = {} /\ Complete(r, torn)
      \/ Rebase(r, behind \cup (IF moved = {} THEN S ELSE {})) /\ goes
  BY DEF Chunk
<1>6. View(r) = run[r].view
  BY <1>1, ViewFacts
<1>7. moved = {} => \A s \in S : outs[s].seq = View(r).seqs[s]
  BY DEF HeadMoved
<1>8. moved = {} => \A n \in S \cap Nodes : n \notin torn => fence[n] = run[r].lease
  BY DEF Torn, Held
<1>9. ASSUME run[r].moved = {}, NEW s \in Touched(r), s \notin run[r].rest
      PROVE  Merged(r, s, View(r).outs[s]) = View(r).outs[s]
  BY <1>1, <1>9 DEF StackInv, RunOk, Chunked
<1>10. S \subseteq Stacks
  BY <1>1, <1>2, TouchedFacts
<1>11. /\ DOMAIN on = RunFields /\ on.rest = rest /\ on.moved = behind
       /\ on.view = IF moved = {} THEN Rebased(r, S) ELSE run[r].view
       /\ \A f \in RunFields \ {"rest", "moved", "view"} : on[f] = run[r][f]
  BY DEF StackInv, Shape, RunFields
<1>12. /\ on.cmd = run[r].cmd /\ on.scope = run[r].scope /\ on.lease = run[r].lease
       /\ on.had = run[r].had /\ on.known = run[r].known /\ on.pub = run[r].pub
       /\ on.drop = run[r].drop /\ on.at = "chunks"
  BY <1>1, <1>11 DEF RunFields, At
<1>13. /\ DOMAIN again = RunFields /\ again.at = "publishes"
       /\ again.view = Rebased(r, behind \cup (IF moved = {} THEN S ELSE {}))
       /\ \A f \in RunFields \ {"at", "tries", "rest", "moved", "view"} : again[f] = run[r][f]
  BY DEF StackInv, Shape, RunFields
<1>14. /\ again.cmd = run[r].cmd /\ again.scope = run[r].scope /\ again.lease = run[r].lease
       /\ again.had = run[r].had /\ again.known = run[r].known /\ again.pub = run[r].pub
       /\ again.drop = run[r].drop
  BY <1>13 DEF RunFields
<1>15. Rebase(r, behind \cup (IF moved = {} THEN S ELSE {})) => run' = [run EXCEPT ![r] = again]
  BY DEF Rebase
<1>16. /\ (moved # {} => torn = {}) /\ (moved # {} => behind # {})
       /\ (behind = {} => run[r].moved = {})
  OBVIOUS
<1>17. goes => /\ stale' = stale /\ overtaken' = overtaken \cup torn /\ Freed
               /\ fence' = fence
  BY UnchangedFrees DEF StackInv
<1> HIDE DEF S, moved, rest, torn, behind, goes, on, again
<1>18. CASE moved = {}
  <2>1. Commit(r, S) /\ \A s \in S : outs[s].seq = View(r).seqs[s]
    BY <1>4, <1>7, <1>18
  <2>2. /\ \A s \in Stacks \ S : outs'[s] = outs[s]
        /\ \A s \in S : outs'[s].map = Merged(r, s, View(r).outs[s])
    BY <1>1, <1>2, <1>10, <2>1, CommitFacts, ViewFacts
  <2>3. CASE run' = [run EXCEPT ![r] = on] /\ goes
    <3>1. ASSUME Shape' PROVE RunOk(r)'
      <4>1. ASSUME on.moved = {}, NEW s \in Touched(r) \ on.rest
            PROVE  Merged(r, s, on.view.outs[s]) = on.view.outs[s]
        <5>1. run[r].moved = {} /\ on.view = Rebased(r, S)
          BY <1>11, <1>16, <1>18, <4>1
        <5>2. s \in Stacks
          BY <1>1, TouchedFacts
        <5>3. CASE s \in S
          <6>1. on.view.outs[s] = Merged(r, s, View(r).outs[s])
            BY <1>1, <1>2, <2>2, <3>1, <5>1, <5>3, RebasedFacts
          <6> QED
            BY <6>1, MergedTwice
        <5>4. CASE s \notin S
          <6>1. on.view.outs[s] = View(r).outs[s]
            BY <1>1, <1>2, <2>2, <3>1, <5>1, <5>2, <5>4, RebasedFacts
          <6>2. s \notin run[r].rest
            BY <1>11, <4>1, <5>4 DEF rest
          <6> QED
            BY <1>9, <4>1, <5>1, <6>1, <6>2
        <5> QED
          BY <5>3, <5>4
      <4>2. on.view = Rebased(r, S)
        BY <1>11, <1>18
      <4> QED
        BY <1>1, <1>2, <1>3, <1>11, <1>12, <1>17, <2>2, <2>3, <3>1, <4>1, <4>2, GoesOn
    <3>2. PublishedIsLive'
      <4>1. \A n \in Nodes \ (stale' \cup overtaken') :
                /\ n \in S => fence[n] = run[r].lease
                /\ n \notin S => n \notin stale \cup overtaken
        BY <1>8, <1>17, <1>18, <2>3
      <4> QED
        BY <1>1, <1>2, <1>3, <2>1, <4>1, CommitIsLive
    <3> QED
      BY <1>1, <1>2, <1>3, <1>11, <1>12, <1>17, <2>1, <2>3, <3>1, <3>2, CommitStep
  <2>4. CASE rest = {} /\ behind = {} /\ Complete(r, torn)
    <3>0. /\ run' = [run EXCEPT ![r] = Ended("over")] /\ Freed
          /\ stale' = stale \ Settled(r) /\ overtaken' = (overtaken \ Settled(r)) \cup torn
          /\ \A n \in Settled(r) : fence[n] = run[r].lease
      BY <2>4, StopFrees DEF Complete, Stop, StackInv, Settled, Held
    <3>1. PublishedIsLive'
      <4>1. ASSUME NEW n \in Nodes, n \notin S, n \in Settled(r), n \in Touched(r)
            PROVE  Merged(r, n, outs[n].map) = outs[n].map
        <5>1. View(r).outs[n] = outs[n].map
          BY <1>1, <4>1, ViewFacts DEF Settled, Unseen, Nodes
        <5>2. n \notin run[r].rest
          BY <2>4, <4>1 DEF rest
        <5> QED
          BY <1>9, <1>16, <2>4, <4>1, <5>1, <5>2
      <4>2. \A n \in Nodes \ (stale' \cup overtaken') :
                /\ n \in S => fence[n] = run[r].lease
                /\ n \notin stale \cup overtaken \/ n \in Settled(r)
        BY <1>8, <1>18, <3>0
      <4> QED
        BY <1>1, <1>2, <1>3, <2>1, <4>1, <4>2, CommitIsLive
    <3> QED
      BY <1>1, <1>2, <1>3, <2>1, <3>0, <3>1, CommitStep, EndedCommit
  <2>5. CASE run' = [run EXCEPT ![r] = again] /\ goes
    <3>1. behind \cup (IF moved = {} THEN S ELSE {}) = behind \cup S /\ behind \cup S \subseteq Touched(r)
      BY <1>2, <1>18
    <3>2. ASSUME Shape' PROVE RunOk(r)'
      <4>1. \A s \in Stacks \ (behind \cup S) : outs'[s] = outs[s]
        BY <2>2
      <4>2. again.view = Rebased(r, behind \cup S)
        BY <1>13, <3>1
      <4> QED
        BY <1>1, <1>3, <1>13, <1>14, <1>17, <2>5, <3>1, <3>2, <4>1, <4>2, GoesOn
    <3>3. PublishedIsLive'
      <4>1. \A n \in Nodes \ (stale' \cup overtaken') :
                /\ n \in S => fence[n] = run[r].lease
                /\ n \notin S => n \notin stale \cup overtaken
        BY <1>8, <1>17, <1>18, <2>5
      <4> QED
        BY <1>1, <1>2, <1>3, <2>1, <4>1, CommitIsLive
    <3> QED
      BY <1>1, <1>2, <1>3, <1>13, <1>14, <1>17, <2>1, <2>5, <3>2, <3>3, CommitStep
  <2> QED
    BY <1>5, <1>15, <2>3, <2>4, <2>5
<1>19. CASE moved # {}
  <2>1. outs' = outs /\ ledger' = ledger
    BY <1>4, <1>19
  <2>2. CASE run' = [run EXCEPT ![r] = on] /\ goes
    <3>1. UNCHANGED <<backend, rows, outs, fence, epoch, stale, overtaken, ledger>>
      BY <1>3, <1>16, <1>17, <1>19, <2>1, <2>2
    <3>2. Shape'
      BY <1>11, <2>2, <3>1 DEF StackInv, Shape
    <3>3. RunOk(r)'
      <4>1. on.view = run[r].view /\ on.moved # {}
        BY <1>11, <1>16, <1>19
      <4>2. {} \subseteq Touched(r) /\ \A s \in Stacks \ {} : outs'[s] = outs[s]
        BY <2>1
      <4> QED
        BY <1>1, <1>2, <1>3, <1>11, <1>12, <1>17, <2>2, <3>2, <4>1, <4>2, GoesOn
    <3> QED
      BY <1>1, <1>11, <1>12, <2>2, <3>1, <3>3, QuietStep
  <2>3. CASE Rebase(r, behind \cup (IF moved = {} THEN S ELSE {})) /\ goes
    <3>1. behind \cup (IF moved = {} THEN S ELSE {}) = behind
      BY <1>19
    <3>2. UNCHANGED <<backend, rows, outs, fence, epoch, stale, overtaken, ledger>>
      BY <1>3, <1>16, <1>17, <1>19, <2>1, <2>3
    <3>3. Rebase(r, behind)
      BY <2>3, <3>1
    <3> QED
      BY <1>1, <1>2, <3>2, <3>3, RebaseStep
  <2> QED
    BY <1>5, <1>16, <1>19, <2>2, <2>3
<1> QED
  BY <1>18, <1>19


-----------------------------------------------------------------------------
\* A step that none of this is about.
LEMMA StillStep ==
  ASSUME StackInv, backend' = backend, rows' = rows, outs' = outs, fence' = fence, epoch' = epoch,
         run' = run, stale' = stale, overtaken' = overtaken, ledger' = ledger
  PROVE  StackInv'
<1>1. Shape' /\ Leases'
  BY DEF StackInv, Shape, Leases, Leased, Working, At
<1>2. \A q \in Runs : Kept(q)
  BY DEF Kept
<1>3. \A q \in Runs : RunOk(q)'
  BY <1>1, <1>2, KeptOk DEF StackInv
<1>4. PublishedIsLive' /\ MergesKept'
  BY DEF StackInv, PublishedIsLive, MergesKept
<1> QED
  BY <1>1, <1>3, <1>4 DEF StackInv

LEMMA StackNext == StackInv /\ [Next]_vars => StackInv'
<1> SUFFICES ASSUME StackInv, [Next]_vars PROVE StackInv'
  OBVIOUS
<1>1. CASE UNCHANGED vars
  <2>1. /\ backend' = backend /\ rows' = rows /\ outs' = outs /\ fence' = fence /\ epoch' = epoch
        /\ run' = run /\ stale' = stale /\ overtaken' = overtaken /\ ledger' = ledger
    BY <1>1 DEF vars, store, locks, ghosts
  <2> QED
    BY <2>1, StillStep
<1>2. ASSUME NEW r \in Runs, NEW n \in Nodes, Put(r, n) \/ Delete(r, n) \/ Check(r, n) \/ Adopt(r, n)
      PROVE  StackInv'
  BY <1>2, DoneStep DEF Put, Delete, Check, Adopt
<1>3. ASSUME NEW r \in Runs, Fail(r) \/ Crash(r) PROVE StackInv'
  <2>1. /\ run' = [run EXCEPT ![r] = Ended("failed")]
        /\ UNCHANGED <<backend, rows, outs, epoch, stale, overtaken, ledger>>
    BY <1>3 DEF Fail, Crash, Stop, store, locks, ghosts
  <2>2. Freed
    BY <1>3, StopFrees, UnchangedFrees DEF Fail, Crash, locks, StackInv
  <2> QED
    BY <2>1, <2>2, StopStep
<1>4. CASE (\E r \in Runs : Lapse(r)) \/ (\E n \in Nodes : Vanish(n))
  <2>1. /\ backend' = backend /\ rows' = rows /\ outs' = outs /\ fence' = fence /\ epoch' = epoch
        /\ run' = run /\ stale' = stale /\ overtaken' = overtaken /\ ledger' = ledger
    BY <1>4 DEF Lapse, Vanish, store, locks, ghosts
  <2> QED
    BY <2>1, StillStep
<1> QED
  BY <1>1, <1>2, <1>3, <1>4, ShowStep, GateStep, AcquireStep, LoadStep, PublishStep,
     OneTransactionStep, PrecheckStep, ChunkStep, SqlStep DEF Next

LEMMA StackInvariance == Spec => []StackInv
<1> QED
  BY StackInit, StackNext, PTL DEF Spec

\* apply_scope, require_no_new_nodes: for any stacks, rows and commands, whatever is recomputed
\* under a lease is within the scope that was sized before it.
THEOREM ScopesCover == Spec => []ScopeCovers
<1>1. StackInv => ScopeCovers
  BY DEF StackInv, RunOk, Scoped, ScopeCovers
<1> QED
  BY <1>1, StackInvariance, PTL

\* commit_outputs, retired_outputs, set_outputs: whatever runs commit beside one another, in
\* one transaction, in chunks or on SQL, after rebases, take-overs and crashes, the output
\* a node's stack has is that of its row, unless a run wrote the row and did not publish,
\* or one that no longer held the node was the last to commit.
THEOREM OutputsFollowRows == Spec => []PublishedIsLive
<1>1. StackInv => PublishedIsLive
  BY DEF StackInv
<1> QED
  BY <1>1, StackInvariance, PTL

\* merge_outputs: no commit of outputs loses what another run committed to the same stack.
THEOREM OutputMergesKept == Spec => []MergesKept
<1>1. StackInv => MergesKept
  BY DEF StackInv
<1> QED
  BY <1>1, StackInvariance, PTL

\* raise_drift, evaluate_policies: what a run does to the row of a node it holds was shown to
\* its operator, when it is an apply, and is denied by no mandatory policy.  A row is a
\* record, and so not Absent.
THEOREM RunsAreSanctioned ==
  ASSUME \A s, v, g : [spec |-> s, via |-> v, got |-> g] # Absent
  PROVE  Spec => Sanctioned
<1> DEFINE AsSaid(r, n) ==
             /\ run[r].cmd.kind = "apply" =>
                   n \in DOMAIN run[r].shown /\ run[r].shown[n].act = Effect(n)
             /\ run[r].cmd.kind \in Applies => <<n, Effect(n)>> \notin Forbidden
<1>1. StackInv /\ [Next]_vars => [\A r \in Runs : \A n \in Nodes : 
                  Did(r, n) /\ (backend = "journal" \/ Held(r, n)) => AsSaid(r, n)]_vars
  <2> SUFFICES ASSUME StackInv, Next, NEW r \in Runs, NEW n \in Nodes, Did(r, n),
                      backend = "journal" \/ Held(r, n), run[r].cmd.kind \in Applies
               PROVE  AsSaid(r, n)
    BY DEF Applies
  <2>1. n \in DOMAIN run[r].todo /\ n \notin DOMAIN run'[r].todo /\ rows'[n] # rows[n]
    BY DEF Did
  <2>2. PICK q \in Runs, m \in Nodes : Put(q, m) \/ Delete(q, m) \/ Check(q, m) \/ Adopt(q, m)
    <3>1. \A q \in Runs : Show(q) \/ Gate(q) \/ Acquire(q) \/ Load(q) \/ Fail(q) \/ Publish(q)
                          \/ OneTransaction(q) \/ Precheck(q) \/ Chunk(q) \/ SqlSetOutputs(q)
                          \/ Crash(q) \/ Lapse(q) => rows' = rows
      BY DEF Show, Gate, Acquire, Load, Fail, Publish, OneTransaction, Precheck, Chunk,
         SqlSetOutputs, Crash, Lapse, store
    <3>2. \A m \in Nodes : Vanish(m) => rows' = rows
      BY DEF Vanish
    <3> QED
      BY <2>1, <3>1, <3>2 DEF Next
  <2>3. PICK row, alive : Write(q, m) /\ Done(q, m, row, alive)
    BY <2>2 DEF Put, Delete, Check, Adopt
  <2>4. m = n /\ q = r
    <3>1. m = n
      BY <2>1, <2>3 DEF Done, StackInv, Shape
    <3>2. \A p \in Runs \ {q} : run'[p] = run[p]
      BY <2>3 DEF Done, StackInv, Shape
    <3> QED
      BY <2>1, <3>1, <3>2
  <2>5. /\ At(r, "works") /\ fence[n] = run[r].lease
        /\ Put(r, n) \/ Delete(r, n) \/ Check(r, n) \/ Adopt(r, n)
    BY <2>2, <2>3, <2>4 DEF Write, StillHolds, Held
  <2>6. /\ <<n, run[r].todo[n].act>> \notin Forbidden
        /\ run[r].cmd.kind = "apply" =>
              n \in DOMAIN run[r].shown /\ run[r].shown[n].act = run[r].todo[n].act
        /\ run[r].todo[n].act \in {"create", "update", "delete"}
        /\ run[r].todo[n].act = "create" <=> rows[n] = Absent
    BY <2>1, <2>5 DEF StackInv, RunOk, Ordered
  <2>7. run[r].todo[n].act = Effect(n)
    <3>1. CASE Put(r, n)
      <4>1. rows'[n] = Row(r, n) /\ run[r].todo[n].act \in {"create", "update"}
        BY <3>1 DEF Put, Done, StackInv, Shape
      <4>2. rows'[n] # Absent
        BY <4>1 DEF Row
      <4> QED
        BY <2>6, <4>1, <4>2 DEF Effect
    <3>2. CASE Delete(r, n)
      <4>1. rows'[n] = Absent /\ run[r].todo[n].act = "delete"
        BY <3>2 DEF Delete, Done, StackInv, Shape
      <4> QED
        BY <2>6, <4>1 DEF Effect
    <3>3. CASE Check(r, n) \/ Adopt(r, n)
      BY <2>6, <3>3 DEF Check, Adopt
    <3> QED
      BY <2>5, <3>1, <3>2, <3>3
  <2> QED
    BY <2>6, <2>7
<1> QED
  BY <1>1, StackInvariance, PTL DEF Spec, Sanctioned
=============================================================================
