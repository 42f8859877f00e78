--------------------------- MODULE ExecutorProofs ---------------------------
(***************************************************************************)
(* For any nodes, names, references, configs, numbers of runs and faults:  *)
(* however a run ended, applying its config again skips no node whose      *)
(* resource is gone, a run that completes leaves what its config asks for, *)
(* and a rollback that completes restores what the run had changed.        *)
(***************************************************************************)
EXTENDS Executor, TLAPS

Declared(n) == config[n] # Undeclared

\* What the next plan of the same config would leave alone, but for its upstreams.
Good(n) ==
    /\ Declared(n)
    /\ row[P(n)].status = "created" /\ row[P(n)].name = config[n]
    /\ row[P(n)].hash = HashOf(config, n)

\* If a resource of node n has this id, it has this name.
Matches(n, phys, name) ==
    /\ phys \in Nat /\ phys <= minted
    /\ \A r \in live[n] : r.phys = phys => r.name = name

Describes(n, R) ==
    /\ Matches(n, R.phys, R.name)
    /\ R.status = "created" => R.phys # 0
    /\ R.status # "none" => R.name \in Names
    /\ R.status = "none" => R = NoRow

\* Ids are minted once, and rows name what they describe.
Minted ==
    \A n \in Nodes : \A r \in live[n] :
        r.phys \in 1..minted /\ Matches(n, r.phys, r.name)
Described ==
    \A n \in Nodes : \A i \in {P(n), C(n)} :
        Describes(n, row[i]) /\ Describes(n, prior[i]) /\ Describes(n, seen[i])

\* A row that would be left alone describes a resource that exists, and no companion has
\* the name the config asks for.
Safe ==
    Resumed => \A n \in Nodes :
        /\ Good(n) => Exists(n, row[P(n)].phys)
        /\ row[C(n)].status # "none" => row[C(n)].name # config[n]
        /\ prior[C(n)].status # "none" => prior[C(n)].name # config[n]

\* The configs since a run completed, the last one among them.
Aimed == /\ aimed # {} => config \in aimed
         /\ phase # "idle" => aimed # {} /\ config \in project.configs

Between ==
    phase \in {"idle", "start"} =>
        /\ todo = NothingToDo /\ inflight = {} /\ saga = <<>>
        /\ deferred = {} /\ predeleted = {} /\ deleteIds = {}
Starting == phase = "start" => row = prior
Resolved == phase \in {"start", "predelete"} => outs = [n \in Nodes |-> prior[P(n)].phys]

Planned ==
    phase \in {"start"} \cup Working =>
       /\ predeleted \subseteq DestroyedHere /\ deleteIds \subseteq Dropped
       /\ \A n \in deferred : Change(n) = "replace"

Going == {<<"delete", "forget">>, <<"forget">>}
Predeleting(n) ==
    /\ IF P(n) \in predeleted
       THEN IF Change(n) = "delete"
            THEN todo[P(n)] \in Going \/ (todo[P(n)] = <<>> /\ row[P(n)] = NoRow)
            ELSE \/ todo[P(n)] = <<"ahead", "delete">>
                 \/ todo[P(n)] \in {<<"delete">>, <<>>} /\ row[P(n)].status = "creating"
       ELSE /\ todo[P(n)] = <<>> /\ row[P(n)] = prior[P(n)]
            /\ Change(n) = "delete" => P(n) \in deleteIds
    /\ IF C(n) \in predeleted
       THEN todo[C(n)] \in Going \/ (todo[C(n)] = <<>> /\ row[C(n)] = NoRow)
       ELSE /\ todo[C(n)] = <<>> /\ row[C(n)] = prior[C(n)]
            /\ prior[C(n)].status # "none" => C(n) \in deleteIds

\* Where n's own task is done in the forward pass.
Applied(n) ==
    /\ Good(n) /\ row[P(n)].phys = outs[n]
    /\ \A d \in Deps[n] : /\ row[P(n)].saw[d] = outs[d]
                          /\ phase = "forward" => \/ todo[P(d)] = <<>>
                                                  \/ Change(d) \in {"noop", "update"}
Made(n) == Matches(n, outs[n], config[n]) /\ Exists(n, outs[n])

Companions == {<<"deleteLeft", "forgetLeft", "companion", "ahead", "create", "persist">>,
               <<"forgetLeft", "companion", "ahead", "create", "persist">>,
               <<"companion", "ahead", "create", "persist">>}
Deferring(n) == Change(n) = "replace" /\ CreateFirst(n)

Forwarding(n) ==
    LET t == todo[P(n)]
        c == Change(n)
    IN /\ todo[C(n)] = <<>>
       /\ ~Declared(n) => t = <<>> /\ (row[P(n)] = NoRow \/ P(n) \in deleteIds)
       /\ Declared(n) =>
             \/ t = <<>> /\ Applied(n)
             \/ t = <<"persist">> /\ c \in {"create", "update", "replace"} /\ Made(n)
             \/ t = <<"update", "persist">> /\ c = "update"
             \/ /\ t \in {<<"create", "persist">>, <<"delete", "create", "persist">>}
                /\ row[P(n)].status = "creating" /\ c \in {"create", "replace"}
                /\ t # <<"create", "persist">> => c = "replace"
             \/ t = <<"ahead", "create", "persist">> /\ c \in {"create", "replace"}
             \/ t = <<"ahead", "delete", "create", "persist">> /\ c = "replace"
             \/ /\ t \in Companions /\ Deferring(n)
                /\ t # <<"companion", "ahead", "create", "persist">> => prior[C(n)].status # "none"
       /\ c \in {"noop", "update"} => outs[n] = prior[P(n)].phys
       /\ \/ row[C(n)] = NoRow \/ C(n) \in deleteIds \/ n \in deferred
          \/ Deferring(n) /\ t \notin {<<>>, <<"persist">>}

Destroying(n) ==
    /\ Declared(n) => /\ Applied(n)
                      /\ \/ todo[P(n)] = <<>>
                         \/ todo[P(n)] \in {<<"delete", "dropCompanion">>, <<"dropCompanion">>}
                            /\ Change(n) = "replace"
    /\ ~Declared(n) => \/ todo[P(n)] \in Going
                       \/ todo[P(n)] = <<>> /\ row[P(n)] = NoRow
    /\ todo[C(n)] = <<>> \/ (todo[C(n)] \in Going /\ prior[C(n)].status # "none")
    /\ \/ row[C(n)] = NoRow \/ todo[C(n)] # <<>>
       \/ Declared(n) /\ todo[P(n)] # <<>>

\* What a task may do next, cancelled or not.
Stopping(i) ==
    LET n == i[1]
        step == Head(todo[i])
    IN /\ todo[i] # <<>>
       /\ step \in ProviderSteps \cup StateWrites
       /\ i = C(n) => step \in {"delete", "forget"} /\ prior[C(n)].status # "none"
       /\ i = P(n) =>
          /\ step = "delete" => ~Declared(n) \/ Change(n) = "replace"
          /\ step = "companion" => Change(n) = "replace"
          /\ step = "deleteLeft" => prior[C(n)].status # "none"
          /\ step = "forget" => ~Declared(n)
          /\ step = "persist" => Declared(n) /\ Matches(n, outs[n], config[n]) /\ outs[n] # 0
                                 /\ (Resumed => Exists(n, outs[n]))
          /\ step \in {"create", "ahead"} => Declared(n)

Tasks ==
    /\ phase = "predelete" => \A n \in Nodes : Predeleting(n)
    /\ phase = "forward" => \A n \in Nodes : Forwarding(n)
    /\ phase = "destroy" => \A n \in Nodes : Destroying(n)
    /\ phase \in {"unwind", "stop"} => \A i \in inflight : Stopping(i)

\* What the saga holds.
Recordable(e) ==
    /\ Declared(e.node)
    /\ e.kind \in {"replace", "delete", "cbd"} => Change(e.node) = "replace"
    /\ e.kind \in {"create", "replace", "cbd"} =>
          IF phase = "rollback" THEN seen[P(e.node)].status # "none"
          ELSE row[P(e.node)].status # "none"
Sagas == \A k \in DOMAIN saga : Recordable(saga[k])

UndoLeft(kind) ==
    CASE kind = "create" -> {<<"stale", "deleteNew", "drop">>, <<"deleteNew", "drop">>, <<"drop">>}
      [] kind = "update" -> {<<"stale", "updateOld", "restore">>, <<"updateOld", "restore">>,
                             <<"restore">>}
      [] kind = "replace" -> {<<"stale", "deleteNew", "recreate", "restoreNew">>,
                              <<"deleteNew", "recreate", "restoreNew">>,
                              <<"recreate", "restoreNew">>, <<"restoreNew">>}
      [] kind = "delete" -> {<<"stale", "recreate", "restoreNew">>, <<"recreate", "restoreNew">>,
                             <<"restoreNew">>}
      [] kind = "cbd" -> {<<"stale", "deleteNew", "restore", "dropCompanion">>,
                          <<"deleteNew", "restore", "dropCompanion">>,
                          <<"restore", "dropCompanion">>, <<"dropCompanion">>}

UndoStands ==
    LET n == Undone.node
        kind == Undone.kind
    IN /\ at # 0 /\ undo \in UndoLeft(kind)
       /\ Head(undo) = "deleteNew" /\ Resumed => ~Good(n)
       /\ Head(undo) = "restore" /\ kind = "update" => Exists(n, prior[P(n)].phys)
       /\ Head(undo) = "restoreNew" => Matches(n, recreated, prior[P(n)].name) /\ recreated # 0
Undoes == phase = "rollback" => (undo # <<>> => UndoStands)

ExecInv == /\ TypeOK /\ Minted /\ Described /\ Safe /\ Aimed /\ Between /\ Starting /\ Resolved
           /\ Planned /\ Tasks /\ Sagas /\ Undoes /\ Converged

-----------------------------------------------------------------------------
(***************************************************************************)
(* Ids, sequences of awaits, hashes, and what a plan says.                 *)
(***************************************************************************)
LEMMA IdFacts ==
    /\ \A n \in Nodes : /\ P(n) \in Ids /\ C(n) \in Ids
                        /\ P(n)[1] = n /\ C(n)[1] = n
                        /\ P(n)[2] = "primary" /\ C(n)[2] = "replaced"
    /\ \A n, m \in Nodes : /\ P(n) # C(m)
                           /\ (P(n) = P(m) => n = m) /\ (C(n) = C(m) => n = m)
    /\ \A i \in Ids : i[1] \in Nodes /\ (i = P(i[1]) \/ i = C(i[1]))
    /\ \A i \in Ids : i[2] = "primary" => i = P(i[1])
    /\ \A i \in Ids : i[2] # "primary" => i = C(i[1])
  BY DEF Ids, P, C

LEMMA TaskSteps ==
    /\ <<"delete">> # <<>> /\ Head(<<"delete">>) = "delete"
       /\ Tail(<<"delete">>) = <<>>
    /\ <<"dropCompanion">> # <<>> /\ Head(<<"dropCompanion">>) = "dropCompanion"
       /\ Tail(<<"dropCompanion">>) = <<>>
    /\ <<"forget">> # <<>> /\ Head(<<"forget">>) = "forget"
       /\ Tail(<<"forget">>) = <<>>
    /\ <<"persist">> # <<>> /\ Head(<<"persist">>) = "persist"
       /\ Tail(<<"persist">>) = <<>>
    /\ <<"ahead", "delete">> # <<>> /\ Head(<<"ahead", "delete">>) = "ahead"
       /\ Tail(<<"ahead", "delete">>) = <<"delete">>
    /\ <<"create", "persist">> # <<>> /\ Head(<<"create", "persist">>) = "create"
       /\ Tail(<<"create", "persist">>) = <<"persist">>
    /\ <<"delete", "dropCompanion">> # <<>> /\ Head(<<"delete", "dropCompanion">>) = "delete"
       /\ Tail(<<"delete", "dropCompanion">>) = <<"dropCompanion">>
    /\ <<"delete", "forget">> # <<>> /\ Head(<<"delete", "forget">>) = "delete"
       /\ Tail(<<"delete", "forget">>) = <<"forget">>
    /\ <<"update", "persist">> # <<>> /\ Head(<<"update", "persist">>) = "update"
       /\ Tail(<<"update", "persist">>) = <<"persist">>
    /\ <<"ahead", "create", "persist">> # <<>>
       /\ Head(<<"ahead", "create", "persist">>) = "ahead"
       /\ Tail(<<"ahead", "create", "persist">>) = <<"create", "persist">>
    /\ <<"delete", "create", "persist">> # <<>>
       /\ Head(<<"delete", "create", "persist">>) = "delete"
       /\ Tail(<<"delete", "create", "persist">>) = <<"create", "persist">>
    /\ <<"ahead", "delete", "create", "persist">> # <<>>
       /\ Head(<<"ahead", "delete", "create", "persist">>) = "ahead"
       /\ Tail(<<"ahead", "delete", "create", "persist">>) = <<"delete", "create", "persist">>
    /\ <<"companion", "ahead", "create", "persist">> # <<>>
       /\ Head(<<"companion", "ahead", "create", "persist">>) = "companion"
       /\ Tail(<<"companion", "ahead", "create", "persist">>) = <<"ahead", "create", "persist">>
    /\ <<"forgetLeft", "companion", "ahead", "create", "persist">> # <<>>
       /\ Head(<<"forgetLeft", "companion", "ahead", "create", "persist">>) = "forgetLeft"
       /\ Tail(<<"forgetLeft", "companion", "ahead", "create", "persist">>)
          = <<"companion", "ahead", "create", "persist">>
    /\ <<"deleteLeft", "forgetLeft", "companion", "ahead", "create", "persist">> # <<>>
       /\ Head(<<"deleteLeft", "forgetLeft", "companion", "ahead", "create", "persist">>) = "deleteLeft"
       /\ Tail(<<"deleteLeft", "forgetLeft", "companion", "ahead", "create", "persist">>)
          = <<"forgetLeft", "companion", "ahead", "create", "persist">>
  OBVIOUS

LEMMA UndoneSteps ==
    /\ <<"drop">> # <<>> /\ Head(<<"drop">>) = "drop"
       /\ Tail(<<"drop">>) = <<>>
    /\ <<"dropCompanion">> # <<>> /\ Head(<<"dropCompanion">>) = "dropCompanion"
       /\ Tail(<<"dropCompanion">>) = <<>>
    /\ <<"restore">> # <<>> /\ Head(<<"restore">>) = "restore"
       /\ Tail(<<"restore">>) = <<>>
    /\ <<"restoreNew">> # <<>> /\ Head(<<"restoreNew">>) = "restoreNew"
       /\ Tail(<<"restoreNew">>) = <<>>
    /\ <<"deleteNew", "drop">> # <<>> /\ Head(<<"deleteNew", "drop">>) = "deleteNew"
       /\ Tail(<<"deleteNew", "drop">>) = <<"drop">>
    /\ <<"recreate", "restoreNew">> # <<>> /\ Head(<<"recreate", "restoreNew">>) = "recreate"
       /\ Tail(<<"recreate", "restoreNew">>) = <<"restoreNew">>
    /\ <<"restore", "dropCompanion">> # <<>> /\ Head(<<"restore", "dropCompanion">>) = "restore"
       /\ Tail(<<"restore", "dropCompanion">>) = <<"dropCompanion">>
    /\ <<"updateOld", "restore">> # <<>> /\ Head(<<"updateOld", "restore">>) = "updateOld"
       /\ Tail(<<"updateOld", "restore">>) = <<"restore">>
    /\ <<"deleteNew", "recreate", "restoreNew">> # <<>>
       /\ Head(<<"deleteNew", "recreate", "restoreNew">>) = "deleteNew"
       /\ Tail(<<"deleteNew", "recreate", "restoreNew">>) = <<"recreate", "restoreNew">>
    /\ <<"deleteNew", "restore", "dropCompanion">> # <<>>
       /\ Head(<<"deleteNew", "restore", "dropCompanion">>) = "deleteNew"
       /\ Tail(<<"deleteNew", "restore", "dropCompanion">>) = <<"restore", "dropCompanion">>
    /\ <<"stale", "deleteNew", "drop">> # <<>>
       /\ Head(<<"stale", "deleteNew", "drop">>) = "stale"
       /\ Tail(<<"stale", "deleteNew", "drop">>) = <<"deleteNew", "drop">>
    /\ <<"stale", "recreate", "restoreNew">> # <<>>
       /\ Head(<<"stale", "recreate", "restoreNew">>) = "stale"
       /\ Tail(<<"stale", "recreate", "restoreNew">>) = <<"recreate", "restoreNew">>
    /\ <<"stale", "updateOld", "restore">> # <<>>
       /\ Head(<<"stale", "updateOld", "restore">>) = "stale"
       /\ Tail(<<"stale", "updateOld", "restore">>) = <<"updateOld", "restore">>
    /\ <<"stale", "deleteNew", "recreate", "restoreNew">> # <<>>
       /\ Head(<<"stale", "deleteNew", "recreate", "restoreNew">>) = "stale"
       /\ Tail(<<"stale", "deleteNew", "recreate", "restoreNew">>)
          = <<"deleteNew", "recreate", "restoreNew">>
    /\ <<"stale", "deleteNew", "restore", "dropCompanion">> # <<>>
       /\ Head(<<"stale", "deleteNew", "restore", "dropCompanion">>) = "stale"
       /\ Tail(<<"stale", "deleteNew", "restore", "dropCompanion">>)
          = <<"deleteNew", "restore", "dropCompanion">>
  OBVIOUS

LEMMA HashFacts ==
  ASSUME TypeOK, NEW n \in Nodes
  PROVE  /\ HashOf(config, n) \in Hash /\ NoHash \in Hash /\ NoIds \in [Nodes -> Nat]
         /\ NoRow \in Row /\ NoRow.status = "none"
         /\ Declared(n) => HashOf(config, n) # NoHash /\ config[n] \in Names
  <1>1. HashOf(config, n) \in Hash /\ NoHash \in Hash /\ NoIds \in [Nodes -> Nat]
    BY DEF TypeOK, HashOf, Hash, NoHash, NoIds, Wanted
  <1>2. Undeclared \in Wanted
    BY DEF Wanted
  <1>3. NoRow \in Row /\ NoRow.status = "none"
    BY <1>1, <1>2 DEF NoRow, Row
  <1>4. HashOf(config, n)[n] = config[n] /\ NoHash[n] = Undeclared
    BY DEF HashOf, NoHash
  <1>5. config[n] \in Wanted
    BY DEF TypeOK
  <1> QED
    BY <1>1, <1>3, <1>4, <1>5 DEF Declared, Wanted

LEMMA PlanFacts ==
  ASSUME TypeOK, NEW n \in Nodes
  PROVE  /\ Change(n) \in {"none", "delete", "create", "replace", "noop", "update"}
         /\ Change(n) \in {"none", "delete"} <=> ~Declared(n)
         /\ Change(n) = "none" => prior[P(n)].status = "none"
         /\ Change(n) = "replace" => /\ prior[P(n)].status = "created"
                                     /\ prior[P(n)].name # config[n]
         /\ Change(n) \in {"noop", "update"} => /\ prior[P(n)].status = "created"
                                                /\ prior[P(n)].name = config[n]
         /\ Change(n) = "noop" =>
               /\ prior[P(n)].hash = HashOf(config, n) /\ ~Moved(prior, n)
               /\ \A u \in Upstream(n) : Classify(prior, config, u) \notin {"create", "replace"}
         /\ Classify(prior, config, n) \notin {"create", "replace"} =>
               Change(n) \notin {"create", "replace"}
  <1> DEFINE k == Classify(prior, config, n)
  <1>1. /\ k \in {"none", "delete", "create", "replace", "noop", "update"}
        /\ k \in {"none", "delete"} <=> ~Declared(n)
        /\ k = "none" => prior[P(n)].status = "none"
        /\ k = "replace" => prior[P(n)].status = "created" /\ prior[P(n)].name # config[n]
        /\ k \in {"noop", "update"} => /\ prior[P(n)].status = "created"
                                       /\ prior[P(n)].name = config[n]
        /\ k = "noop" => prior[P(n)].hash = HashOf(config, n) /\ ~Moved(prior, n)
    BY DEF Classify, Declared
  <1>2. Change(n) = IF k = "noop" /\ \E u \in Upstream(n) :
                                         Classify(prior, config, u) \in {"create", "replace"}
                    THEN "update" ELSE k
    BY DEF Change, PlanOf
  <1> HIDE DEF k
  <1>3. Change(n) = k \/ (k = "noop" /\ Change(n) = "update")
    BY <1>2
  <1>4. Change(n) = "noop" =>
            k = "noop" /\ \A u \in Upstream(n) : Classify(prior, config, u) \notin {"create", "replace"}
    BY <1>2
  <1> QED
    BY <1>1, <1>3, <1>4 DEF k

\* The refs of a node are among what it depends on, and a declared node's are declared.
LEMMA DepsFacts ==
  ASSUME TypeOK, NEW n \in Nodes
  PROVE  /\ Deps[n] \subseteq Nodes /\ Deps[n] \subseteq Upstream(n)
         /\ config \in project.configs /\ Declared(n) => \A d \in Deps[n] : Declared(d)
         /\ Upstream(n) \subseteq Nodes
  <1>1. project \in Project
    BY ProjectsAssumption DEF TypeOK
  <1>2. Deps[n] \subseteq Nodes
    BY <1>1 DEF Project, Deps
  <1>3. Deps[n] \subseteq Upstream(n) /\ Upstream(n) \subseteq Nodes
    BY <1>2 DEF Upstream
  <1>4. config \in project.configs /\ Declared(n) => \A d \in Deps[n] : Declared(d)
    BY ProjectsAssumption DEF TypeOK, Declared, Deps
  <1> QED
    BY <1>2, <1>3, <1>4

\* What is planned depends on the project, the config, the rows at the start and what was
\* destroyed first.
LEMMA PlanSame ==
  ASSUME UNCHANGED <<project, config, prior>>
  PROVE  /\ Deps' = Deps /\ CBDNodes' = CBDNodes
         /\ \A n \in Nodes : /\ Upstream(n)' = Upstream(n)
                             /\ HashOf(config, n)' = HashOf(config, n)
                             /\ Change(n)' = Change(n)
                             /\ CreateFirst(n)' = CreateFirst(n)
                             /\ Declared(n)' = Declared(n)
                             /\ Deferring(n)' = Deferring(n)
         /\ Dropped' = Dropped /\ DestroyedHere' = DestroyedHere
  <1>1. Deps' = Deps /\ CBDNodes' = CBDNodes
    BY DEF Deps, CBDNodes
  <1>2. \A n : Upstream(n)' = Upstream(n)
    BY <1>1 DEF Upstream
  <1>3. \A n : HashOf(config, n)' = HashOf(config, n)
    BY <1>2 DEF HashOf
  <1>4. \A n : Moved(prior, n)' = Moved(prior, n)
    BY <1>1 DEF Moved
  <1>5. \A n : Classify(prior, config, n)' = Classify(prior, config, n)
    BY <1>3, <1>4 DEF Classify
  <1>6. \A n : Change(n)' = Change(n)
    BY <1>2, <1>5 DEF Change, PlanOf
  <1>7. \A n : CreateFirst(n)' = CreateFirst(n) /\ Declared(n)' = Declared(n)
    BY <1>1, <1>2 DEF CreateFirst, Declared
  <1>8. \A n : DestroyFirst(n)' = DestroyFirst(n) /\ Deferring(n)' = Deferring(n)
    BY <1>6, <1>7 DEF DestroyFirst, Deferring
  <1>9. Dropped' = Dropped
    BY <1>6 DEF Dropped
  <1>10. DestroyedHere' = DestroyedHere
    BY <1>8, <1>9 DEF DestroyedHere
  <1> QED
    BY <1>1, <1>2, <1>3, <1>6, <1>7, <1>8, <1>9, <1>10

-----------------------------------------------------------------------------
(***************************************************************************)
(* The rows and the resources.                                             *)
(***************************************************************************)
Grows == \A m \in Nodes : \A p, w : Matches(m, p, w) => Matches(m, p, w)'

\* No resource that has the name the config asks for is removed.
Spares == Resumed => \A m \in Nodes : \A p :
              Exists(m, p) /\ Matches(m, p, config[m]) => Exists(m, p)'

LEMMA LiveFacts ==
  ASSUME TypeOK, NEW n \in Nodes, NEW r \in live[n]
  PROVE  r \in Resource /\ r.phys \in Nat /\ r.name \in Names
  BY DEF TypeOK, Resource

LEMMA MakeStep ==
  ASSUME TypeOK, Minted, NEW n \in Nodes, NEW name \in Names, MakeLive(n, name),
         NEW id, id = CreatedId(n, name)
  PROVE  /\ live' \in [Nodes -> SUBSET Resource] /\ minted' \in Nat
         /\ Minted' /\ Grows
         /\ \A m \in Nodes : \A p : Exists(m, p) => Exists(m, p)'
         /\ id \in Nat /\ id # 0 /\ Matches(n, id, name)' /\ Exists(n, id)'
  <1> DEFINE r == [name |-> name, phys |-> minted + 1]
  <1>1. minted \in Nat /\ live \in [Nodes -> SUBSET Resource]
    BY DEF TypeOK
  <1>2. r \in Resource /\ r.phys = minted + 1 /\ r.name = name
    BY <1>1 DEF Resource
  <1>3. \A m \in Nodes : \A q \in live[m] : /\ q.phys \in 1..minted
                                           /\ \A x \in live[m] : x.phys = q.phys => x.name = q.name
    BY DEF Minted, Matches
  <1>4. CASE Named(n, name) = {}
    <2>1. minted' = minted + 1 /\ live' = [live EXCEPT ![n] = live[n] \cup {r}] /\ id = minted + 1
      BY <1>4 DEF MakeLive, CreatedId
    <2> HIDE DEF r
    <2>2. /\ live'[n] = live[n] \cup {r}
          /\ \A m \in Nodes : m # n => live'[m] = live[m]
          /\ live' \in [Nodes -> SUBSET Resource] /\ minted' \in Nat
      BY <1>1, <1>2, <2>1
    <2>3. \A m \in Nodes : live[m] \subseteq live'[m]
          /\ (\A x \in live'[m] : x \in live[m] \/ (x = r /\ m = n))
      BY <2>2
    <2>4. Grows
      <3> SUFFICES ASSUME NEW m \in Nodes, NEW p, NEW w, Matches(m, p, w) PROVE Matches(m, p, w)'
        BY DEF Grows
      <3> QED
        BY <1>1, <1>2, <2>1, <2>3 DEF Matches
    <2>5. \A m \in Nodes : \A p : Exists(m, p) => Exists(m, p)'
      BY <2>3 DEF Exists
    <2>6. Matches(n, id, name)' /\ Exists(n, id)' /\ id \in Nat /\ id # 0
      BY <1>1, <1>2, <1>3, <2>1, <2>2 DEF Matches, Exists
    <2>7. ASSUME NEW m \in Nodes, NEW q \in live'[m]
          PROVE  q.phys \in 1..minted' /\ Matches(m, q.phys, q.name)'
      <3>1. CASE q \in live[m]
        <4>1. Matches(m, q.phys, q.name) /\ q.phys \in 1..minted
          BY <3>1 DEF Minted
        <4> QED
          BY <4>1, <2>4, <2>1, <1>1 DEF Grows
      <3>2. CASE q = r /\ m = n
        BY <3>2, <2>6, <1>2, <2>1, <1>1
      <3> QED
        BY <3>1, <3>2, <2>3
    <2>8. Minted'
      BY <2>7 DEF Minted
    <2> QED
      BY <2>2, <2>4, <2>5, <2>6, <2>8
  <1>5. CASE Named(n, name) # {}
    <2>1. UNCHANGED <<live, minted>>
      BY <1>5 DEF MakeLive
    <2>2. PICK x \in live[n] : x.name = name /\ id = x.phys
      BY <1>5 DEF CreatedId, Named
    <2>3. \A m, p, w : Matches(m, p, w)' <=> Matches(m, p, w)
      BY <2>1 DEF Matches
    <2>4. \A m, p : Exists(m, p)' <=> Exists(m, p)
      BY <2>1 DEF Exists
    <2>5. Minted'
      BY <2>1, <2>3 DEF Minted
    <2>6. Matches(n, x.phys, x.name) /\ x.phys \in 1..minted /\ Exists(n, x.phys)
      BY DEF Minted, Exists
    <2> QED
      BY <1>1, <2>1, <2>2, <2>3, <2>4, <2>5, <2>6 DEF Grows
  <1> QED
    BY <1>4, <1>5

LEMMA RemoveStep ==
  ASSUME TypeOK, Minted, NEW n \in Nodes, NEW R, Remove(n, R)
  PROVE  /\ live' \in [Nodes -> SUBSET Resource] /\ minted' = minted
         /\ Minted' /\ Grows
         /\ \A m \in Nodes : \A p : m # n /\ Exists(m, p) => Exists(m, p)'
         /\ \A p, w : Exists(n, p) /\ Matches(n, p, w) /\ Matches(n, R.phys, R.name) /\ R.name # w
                    => Exists(n, p)'
  <1>1. minted \in Nat /\ live \in [Nodes -> SUBSET Resource]
    BY DEF TypeOK
  <1>2. /\ minted' = minted
        /\ live'[n] = {x \in live[n] : IF R.phys # 0 THEN x.phys # R.phys ELSE x.name # R.name}
        /\ \A m \in Nodes : m # n => live'[m] = live[m]
        /\ live' \in [Nodes -> SUBSET Resource]
    BY <1>1 DEF Remove
  <1>3. \A m \in Nodes : live'[m] \subseteq live[m]
    BY <1>2
  <1>4. Grows
    <2> SUFFICES ASSUME NEW m \in Nodes, NEW p, NEW w, Matches(m, p, w) PROVE Matches(m, p, w)'
      BY DEF Grows
    <2> QED
      BY <1>2, <1>3 DEF Matches
  <1>5. ASSUME NEW m \in Nodes, NEW q \in live'[m]
        PROVE  q.phys \in 1..minted' /\ Matches(m, q.phys, q.name)'
    <2>1. q \in live[m]
      BY <1>3
    <2>2. Matches(m, q.phys, q.name) /\ q.phys \in 1..minted
      BY <2>1 DEF Minted
    <2> QED
      BY <2>2, <1>2, <1>4 DEF Grows
  <1>6. Minted'
    BY <1>5 DEF Minted
  <1>7. \A m \in Nodes : \A p : m # n /\ Exists(m, p) => Exists(m, p)'
    BY <1>2 DEF Exists
  <1>8. \A p, w : Exists(n, p) /\ Matches(n, p, w) /\ Matches(n, R.phys, R.name) /\ R.name # w
                    => Exists(n, p)'
    <2> SUFFICES ASSUME NEW p, NEW w, Exists(n, p), Matches(n, p, w),
                        Matches(n, R.phys, R.name), R.name # w
                 PROVE  Exists(n, p)'
      OBVIOUS
    <2>1. PICK x \in live[n] : x.phys = p
      BY DEF Exists
    <2>2. x.name = w
      BY <2>1 DEF Matches
    <2>3. x.phys # R.phys /\ x.name # R.name
      BY <2>1, <2>2 DEF Matches
    <2>4. x \in live'[n]
      BY <1>2, <2>3
    <2> QED
      BY <2>1, <2>4 DEF Exists
  <1> QED
    BY <1>2, <1>4, <1>6, <1>7, <1>8

\* The resources change, the rows do not.
SparesGood == Resumed => \A m \in Nodes : Good(m) => \A p :
                  Exists(m, p) /\ Matches(m, p, config[m]) => Exists(m, p)'

LEMMA LiveStep ==
  ASSUME Described, Safe, TypeOK, Grows, SparesGood, Resumed' => Resumed,
         UNCHANGED <<row, prior, seen, config, project>>
  PROVE  Described' /\ Safe'
  <1>1. \A m, R : Describes(m, R)' <=>
                      /\ Matches(m, R.phys, R.name)'
                      /\ R.status = "created" => R.phys # 0
                      /\ R.status # "none" => R.name \in Names
                      /\ R.status = "none" => R = NoRow
    BY DEF Describes, NoRow, NoHash, NoIds
  <1>2. ASSUME NEW m \in Nodes, NEW R, Describes(m, R) PROVE Describes(m, R)'
    <2>1. Matches(m, R.phys, R.name)'
      BY <1>2 DEF Describes, Grows
    <2> QED
      BY <1>1, <1>2, <2>1 DEF Describes
  <1>3. Described'
    BY <1>2 DEF Described, P, C
  <1>4. ASSUME Resumed', NEW m \in Nodes
        PROVE  /\ Good(m)' => Exists(m, row[P(m)].phys)'
               /\ row'[C(m)].status # "none" => row'[C(m)].name # config'[m]
               /\ prior'[C(m)].status # "none" => prior'[C(m)].name # config'[m]
    <2>1. Good(m)' = Good(m)
      BY PlanSame DEF Good, Declared, P
    <2>2. P(m)' = P(m) /\ C(m)' = C(m)
      BY DEF P, C
    <2>3. ASSUME Good(m) PROVE Exists(m, row[P(m)].phys)'
      <3>1. Exists(m, row[P(m)].phys) /\ row[P(m)].name = config[m]
        BY <1>4, <2>3 DEF Safe, Good
      <3>2. Matches(m, row[P(m)].phys, config[m])
        BY <3>1 DEF Described, Describes
      <3>3. PICK p : p = row[P(m)].phys
        OBVIOUS
      <3>4. Exists(m, p)'
        BY <1>4, <2>3, <3>1, <3>2, <3>3 DEF SparesGood
      <3>5. row[P(m)]' = row[P(m)]
        BY <2>2
      <3> QED
        BY <3>3, <3>4, <3>5
    <2> QED
      BY <1>4, <2>1, <2>2, <2>3 DEF Safe
  <1> QED
    BY <1>3, <1>4 DEF Safe

\* One row changes, the resources do not; a row to be left alone describes one that exists.
RowTo(i, R) ==
    /\ Describes(i[1], R)
    /\ row' = [row EXCEPT ![i] = R]
    /\ UNCHANGED <<live, minted, prior, seen, config, project>>
    /\ Resumed' => Resumed
    /\ /\ Resumed /\ i = P(i[1]) /\ Declared(i[1]) /\ R.status = "created"
       /\ R.name = config[i[1]] /\ R.hash = HashOf(config, i[1])
       => Exists(i[1], R.phys)
    /\ Resumed /\ i = C(i[1]) /\ R.status # "none" => R.name # config[i[1]]

LEMMA RowStep ==
  ASSUME TypeOK, Minted, Described, Safe, NEW i \in Ids, NEW R \in Row, RowTo(i, R)
  PROVE  row' \in [Ids -> Row] /\ Minted' /\ Described' /\ Safe'
  <1> USE DEF RowTo
  <1>1. row \in [Ids -> Row] /\ i[1] \in Nodes
    BY IdFacts DEF TypeOK
  <1>2. /\ row' \in [Ids -> Row] /\ row'[i] = R
        /\ \A j \in Ids : j # i => row'[j] = row[j]
    BY <1>1
  <1>3. \A m, p, w : Matches(m, p, w)' <=> Matches(m, p, w)
    BY DEF Matches
  <1>4. \A m, p : Exists(m, p)' <=> Exists(m, p)
    BY DEF Exists
  <1>5. Minted'
    BY <1>3 DEF Minted
  <1>6. \A m, S : Describes(m, S)' <=> Describes(m, S)
    BY <1>3 DEF Describes, NoRow, NoHash, NoIds
  <1>7. ASSUME NEW m \in Nodes, NEW j \in {P(m), C(m)}
        PROVE  Describes(m, row[j])' /\ Describes(m, prior[j])' /\ Describes(m, seen[j])'
    <2>1. j \in Ids /\ (j = i => m = i[1])
      BY IdFacts
    <2>2. Describes(m, row'[j]) /\ Describes(m, prior[j]) /\ Describes(m, seen[j])
      BY <1>2, <2>1 DEF Described
    <2>3. PICK S, T, U : S = row'[j] /\ T = prior[j] /\ U = seen[j]
      OBVIOUS
    <2>4. Describes(m, S)' /\ Describes(m, T)' /\ Describes(m, U)'
      BY <1>6, <2>2, <2>3
    <2>5. S = row[j]' /\ T = prior[j]' /\ U = seen[j]'
      BY <2>3
    <2> QED
      BY <2>4, <2>5
  <1>8. Described'
    BY <1>7 DEF Described, P, C
  <1>9. ASSUME Resumed', NEW m \in Nodes
        PROVE  /\ Good(m)' => Exists(m, row[P(m)].phys)'
               /\ row'[C(m)].status # "none" => row'[C(m)].name # config'[m]
               /\ prior'[C(m)].status # "none" => prior'[C(m)].name # config'[m]
    <2>1. /\ Good(m) => Exists(m, row[P(m)].phys)
          /\ row[C(m)].status # "none" => row[C(m)].name # config[m]
          /\ prior[C(m)].status # "none" => prior[C(m)].name # config[m]
      BY <1>9 DEF Safe
    <2>2. P(m)' = P(m) /\ C(m)' = C(m) /\ P(m) \in Ids /\ C(m) \in Ids /\ P(m)[1] = m /\ C(m)[1] = m
      BY IdFacts DEF P, C
    <2>3. row[P(m)]' = row'[P(m)]
      BY <2>2
    <2>4. Good(m)' <=> /\ Declared(m) /\ row'[P(m)].status = "created"
                       /\ row'[P(m)].name = config[m] /\ row'[P(m)].hash = HashOf(config, m)
      BY <2>2, PlanSame DEF Good, Declared
    <2>5. Good(m)' => Exists(m, row'[P(m)].phys)
      BY <1>9, <1>2, <2>1, <2>2, <2>4 DEF Good
    <2>6. Good(m)' => Exists(m, row[P(m)].phys)'
      <3>1. PICK p : p = row'[P(m)].phys
        OBVIOUS
      <3>2. Exists(m, p)' <=> Exists(m, p)
        BY <1>4
      <3> QED
        BY <3>1, <3>2, <2>3, <2>5
    <2>7. row'[C(m)].status # "none" => row'[C(m)].name # config[m]
      BY <1>9, <1>2, <2>1, <2>2
    <2> QED
      BY <2>1, <2>6, <2>7
  <1> QED
    BY <1>2, <1>5, <1>8, <1>9 DEF Safe

LEMMA DestroyFacts ==
  ASSUME NEW n \in Nodes
  PROVE  /\ P(n) \in Dropped <=> Change(n) = "delete"
         /\ C(n) \in Dropped <=> prior[C(n)].status # "none"
         /\ P(n) \in DestroyedHere <=> Change(n) = "delete" \/ (Change(n) = "replace" /\ ~CreateFirst(n))
         /\ C(n) \in DestroyedHere <=> prior[C(n)].status # "none"
  <1>1. /\ P(n) \in Dropped <=> Change(n) = "delete"
        /\ C(n) \in Dropped <=> prior[C(n)].status # "none"
    BY IdFacts DEF Dropped
  <1>2. /\ P(n) \in DestroyedHere <=> P(n) \in Dropped \/ DestroyFirst(n)
        /\ C(n) \in DestroyedHere <=> C(n) \in Dropped
    BY IdFacts DEF DestroyedHere
  <1> QED
    BY <1>1, <1>2 DEF DestroyFirst

-----------------------------------------------------------------------------
(***************************************************************************)
(* The tasks.                                                              *)
(***************************************************************************)
LEMMA Stops ==
  ASSUME TypeOK, Minted, Planned, Tasks, phase \in Working, NEW i \in Ids, todo[i] # <<>>
  PROVE  Stopping(i)
  <1> PICK n : n = i[1]
    OBVIOUS
  <1>1. n \in Nodes /\ (i = P(n) \/ i = C(n)) /\ P(n) # C(n)
    BY IdFacts
  <1>2. predeleted \subseteq DestroyedHere
    BY DEF Planned
  <1>3. CASE phase = "predelete"
    <2>1. Predeleting(n)
      BY <1>1, <1>3 DEF Tasks
    <2>2. CASE i = P(n)
      <3>1. P(n) \in predeleted
        BY <2>1, <2>2 DEF Predeleting
      <3>2. CASE Change(n) = "delete"
        <4>1. Head(todo[i]) \in {"delete", "forget"}
          BY <2>1, <2>2, <3>1, <3>2, TaskSteps DEF Predeleting, Going
        <4> QED
          BY <1>1, <2>2, <3>2, <4>1, PlanFacts DEF Stopping, ProviderSteps, StateWrites, CheckedWrites
      <3>3. CASE Change(n) # "delete"
        <4>1. Head(todo[i]) \in {"ahead", "delete"}
          BY <2>1, <2>2, <3>1, <3>3, TaskSteps DEF Predeleting
        <4>2. Change(n) = "replace"
          BY <1>1, <1>2, <3>1, <3>3, DestroyFacts
        <4> QED
          BY <1>1, <2>2, <4>1, <4>2, PlanFacts DEF Stopping, ProviderSteps, StateWrites, CheckedWrites
      <3> QED
        BY <3>2, <3>3
    <2>3. CASE i = C(n)
      <3>1. C(n) \in predeleted /\ Head(todo[i]) \in {"delete", "forget"}
        BY <2>1, <2>3, TaskSteps DEF Predeleting, Going
      <3> QED
        BY <1>1, <1>2, <2>3, <3>1, DestroyFacts DEF Stopping, ProviderSteps, StateWrites, CheckedWrites
    <2> QED
      BY <1>1, <2>2, <2>3
  <1>4. CASE phase = "forward"
    <2>1. Forwarding(n)
      BY <1>1, <1>4 DEF Tasks
    <2>2. i = P(n) /\ Declared(n)
      BY <1>1, <2>1 DEF Forwarding
    <2> DEFINE t == todo[P(n)]
    <2>3. \/ t = <<"persist">> /\ Made(n)
          \/ t = <<"update", "persist">>
          \/ t \in {<<"create", "persist">>, <<"delete", "create", "persist">>}
             /\ (t # <<"create", "persist">> => Change(n) = "replace")
          \/ t = <<"ahead", "create", "persist">>
          \/ t = <<"ahead", "delete", "create", "persist">>
          \/ /\ t \in Companions /\ Change(n) = "replace"
             /\ t # <<"companion", "ahead", "create", "persist">> => prior[C(n)].status # "none"
      BY <2>1, <2>2 DEF Forwarding, Deferring
    <2> HIDE DEF t
    <2>4. \/ Head(t) = "persist" /\ Made(n)
          \/ Head(t) \in {"update", "create", "ahead"}
          \/ Head(t) = "delete" /\ Change(n) = "replace"
          \/ Head(t) = "companion" /\ Change(n) = "replace"
          \/ Head(t) = "deleteLeft" /\ prior[C(n)].status # "none"
          \/ Head(t) = "forgetLeft"
      BY <2>3, TaskSteps DEF Companions
    <2>5. Made(n) => Matches(n, outs[n], config[n]) /\ outs[n] # 0 /\ Exists(n, outs[n])
      BY <1>1 DEF Made, Minted, Exists
    <2> QED
      BY <1>1, <2>2, <2>4, <2>5 DEF Stopping, ProviderSteps, StateWrites, CheckedWrites, t
  <1>5. CASE phase = "destroy"
    <2>1. Destroying(n)
      BY <1>1, <1>5 DEF Tasks
    <2>2. CASE i = P(n)
      <3>1. \/ Declared(n) /\ Change(n) = "replace" /\ Head(todo[i]) \in {"delete", "dropCompanion"}
            \/ ~Declared(n) /\ Head(todo[i]) \in {"delete", "forget"}
        BY <2>1, <2>2, TaskSteps DEF Destroying, Going
      <3> QED
        BY <1>1, <2>2, <3>1 DEF Stopping, ProviderSteps, StateWrites, CheckedWrites
    <2>3. CASE i = C(n)
      <3>1. Head(todo[i]) \in {"delete", "forget"} /\ prior[C(n)].status # "none"
        BY <2>1, <2>3, TaskSteps DEF Destroying, Going
      <3> QED
        BY <1>1, <2>3, <3>1 DEF Stopping, ProviderSteps, StateWrites, CheckedWrites
    <2> QED
      BY <1>1, <2>2, <2>3
  <1> QED
    BY <1>3, <1>4, <1>5 DEF Working

\* A task's write lands, at its turn or late.
LEMMA WriteStep ==
  ASSUME TypeOK, Minted, Described, Safe, NEW i \in Ids, Stopping(i), NEW step \in StateWrites,
         step = Head(todo[i]), row' = Written(i, step),
         UNCHANGED <<live, minted, prior, seen, config, project>>, Resumed' => Resumed
  PROVE  /\ row' \in [Ids -> Row] /\ Minted' /\ Described' /\ Safe'
         /\ \A m \in Nodes : Declared(m) /\ row[P(m)].status # "none" => row'[P(m)].status # "none"
  <1> PICK n : n = i[1]
    OBVIOUS
  <1>1. /\ n \in Nodes /\ (i = P(n) \/ i = C(n)) /\ P(n) # C(n) /\ P(n) \in Ids /\ C(n) \in Ids
        /\ P(n)[1] = n /\ C(n)[1] = n
    BY IdFacts
  <1>2. row \in [Ids -> Row] /\ prior \in [Ids -> Row] /\ minted \in Nat /\ outs \in [Nodes -> Nat]
    BY DEF TypeOK
  <1>3. Saw(n) \in [Nodes -> Nat]
    BY <1>2 DEF Saw
  <1>4. HashOf(config, n) \in Hash /\ NoRow \in Row /\ NoRow.status = "none"
        /\ config[n] \in Wanted /\ (Declared(n) => config[n] \in Names)
    BY <1>1, HashFacts DEF TypeOK
  <1>5. Describes(n, NoRow)
    <2>1. NoRow.phys = 0 /\ NoRow.name = Undeclared
      BY DEF NoRow
    <2>2. Matches(n, 0, Undeclared)
      BY <1>1, <1>2 DEF Matches, Minted
    <2> QED
      BY <1>4, <2>1, <2>2 DEF Describes
  <1> DEFINE new(status, phys) == [status |-> status, hash |-> HashOf(config, n), name |-> config[n],
                                   phys |-> phys, saw |-> Saw(n)]
  <1>6. CASE step = "ahead"
    <2> DEFINE R == new("creating", 0)
    <2>1. i = P(n) /\ Declared(n)
      BY <1>1, <1>6 DEF Stopping
    <2>2. R \in Row /\ R.status = "creating" /\ R.phys = 0 /\ R.name = config[n]
      BY <1>3, <1>4 DEF Row
    <2>3. row' = [row EXCEPT ![i] = R]
      BY <1>6, <2>1 DEF Written
    <2> HIDE DEF R
    <2>4. Describes(n, R)
      <3>1. Matches(n, 0, config[n])
        BY <1>1, <1>2 DEF Matches, Minted
      <3> QED
        BY <1>4, <2>1, <2>2, <3>1 DEF Describes
    <2>5. row' \in [Ids -> Row] /\ Minted' /\ Described' /\ Safe'
      <3>1. RowTo(P(n), R)
        BY <1>1, <2>1, <2>2, <2>3, <2>4 DEF RowTo
      <3> QED
        BY <1>1, <2>2, <3>1, RowStep
    <2> QED
      BY <1>1, <1>2, <2>1, <2>2, <2>3, <2>5, IdFacts
  <1>7. CASE step = "persist"
    <2> DEFINE R == new("created", outs[n])
    <2>1. /\ i = P(n) /\ Declared(n) /\ Matches(n, outs[n], config[n]) /\ outs[n] # 0
          /\ Resumed => Exists(n, outs[n])
      BY <1>1, <1>7 DEF Stopping
    <2>2. R \in Row /\ R.status = "created" /\ R.phys = outs[n] /\ R.name = config[n]
      BY <1>1, <1>2, <1>3, <1>4 DEF Row
    <2>3. row' = [row EXCEPT ![i] = R]
      BY <1>7, <2>1 DEF Written
    <2> HIDE DEF R
    <2>4. Describes(n, R)
      BY <1>4, <2>1, <2>2 DEF Describes
    <2>5. row' \in [Ids -> Row] /\ Minted' /\ Described' /\ Safe'
      <3>1. RowTo(P(n), R)
        BY <1>1, <2>1, <2>2, <2>3, <2>4 DEF RowTo
      <3> QED
        BY <1>1, <2>2, <3>1, RowStep
    <2> QED
      BY <1>1, <1>2, <2>1, <2>2, <2>3, <2>5, IdFacts
  <1>8. CASE step = "companion"
    <2> DEFINE R == prior[P(n)]
    <2>1. i = P(n) /\ Change(n) = "replace"
      BY <1>1, <1>8 DEF Stopping
    <2>2. R \in Row /\ R.name # config[n] /\ Describes(n, R)
      BY <1>1, <1>2, <2>1, PlanFacts DEF Described
    <2>3. row' = [row EXCEPT ![C(n)] = R]
      BY <1>8 DEF Written
    <2> HIDE DEF R
    <2>5. row' \in [Ids -> Row] /\ Minted' /\ Described' /\ Safe'
      <3>1. RowTo(C(n), R)
        BY <1>1, <2>1, <2>2, <2>3 DEF RowTo
      <3> QED
        BY <1>1, <2>2, <3>1, RowStep
    <2> QED
      BY <1>1, <1>2, <2>3, <2>5, IdFacts
  <1>9. CASE step = "forget"
    <2>1. i = P(n) => ~Declared(n)
      BY <1>1, <1>9 DEF Stopping
    <2>2. row' = [row EXCEPT ![i] = NoRow]
      BY <1>9 DEF Written
    <2>3. row' \in [Ids -> Row] /\ Minted' /\ Described' /\ Safe'
      <3>1. RowTo(i, NoRow)
        BY <1>1, <1>4, <1>5, <2>2 DEF RowTo
      <3> QED
        BY <1>4, <3>1, RowStep
    <2> QED
      BY <1>1, <1>2, <2>1, <2>2, <2>3, IdFacts
  <1>10. CASE step \in {"forgetLeft", "dropCompanion"}
    <2>2. row' = [row EXCEPT ![C(n)] = NoRow]
      BY <1>10 DEF Written
    <2>3. row' \in [Ids -> Row] /\ Minted' /\ Described' /\ Safe'
      <3>1. RowTo(C(n), NoRow)
        BY <1>1, <1>4, <1>5, <2>2 DEF RowTo
      <3> QED
        BY <1>1, <1>4, <3>1, RowStep
    <2> QED
      BY <1>1, <1>2, <2>2, <2>3, IdFacts
  <1> QED
    BY <1>6, <1>7, <1>8, <1>9, <1>10 DEF StateWrites, CheckedWrites

\* A task's provider call has its effect, or none, at its turn or late.
LEMMA CallStep ==
  ASSUME TypeOK, Minted, Described, Safe, NEW i \in Ids, Stopping(i), MaybeCalled(i),
         UNCHANGED <<row, prior, seen, config, project>>, Resumed' => Resumed
  PROVE  /\ live' \in [Nodes -> SUBSET Resource] /\ minted' \in Nat
         /\ Minted' /\ Described' /\ Safe' /\ Grows /\ Spares
         /\ \A m \in Nodes : \A p : m # i[1] /\ Exists(m, p) => Exists(m, p)'
  <1> PICK n : n = i[1]
    OBVIOUS
  <1>1. n \in Nodes /\ (i = P(n) \/ i = C(n)) /\ P(n) # C(n) /\ P(n) \in Ids /\ C(n) \in Ids
    BY IdFacts
  <1> DEFINE Kept == /\ live' \in [Nodes -> SUBSET Resource] /\ minted' \in Nat
                     /\ Minted' /\ Grows /\ Spares
                     /\ \A m \in Nodes : \A p : m # n /\ Exists(m, p) => Exists(m, p)'
  <1>2. ASSUME UNCHANGED <<live, minted>> PROVE Kept
    <2>1. \A m, p, w : Matches(m, p, w)' <=> Matches(m, p, w)
      BY <1>2 DEF Matches
    <2>2. \A m, p : Exists(m, p)' <=> Exists(m, p)
      BY <1>2 DEF Exists
    <2> QED
      BY <1>2, <2>1, <2>2 DEF Minted, Grows, Spares, TypeOK
  <1>3. ASSUME Head(todo[i]) = "create", MakeLive(n, config[n]) PROVE Kept
    <2>1. config[n] \in Names
      BY <1>1, <1>3, HashFacts DEF Stopping
    <2>2. PICK name, id : name = config[n] /\ id = CreatedId(n, config[n])
      OBVIOUS
    <2>3. /\ live' \in [Nodes -> SUBSET Resource] /\ minted' \in Nat /\ Minted' /\ Grows
          /\ \A m \in Nodes : \A p : Exists(m, p) => Exists(m, p)'
      BY <1>1, <1>3, <2>1, <2>2, MakeStep
    <2> QED
      BY <2>3 DEF Spares
  <1>4. ASSUME NEW j \in {P(n), C(n)}, Remove(n, prior[j]), Resumed => prior[j].name # config[n] \/ ~Declared(n)
        PROVE  Kept
    <2>1. /\ live' \in [Nodes -> SUBSET Resource] /\ minted' \in Nat /\ Minted' /\ Grows
          /\ \A m \in Nodes : \A p : m # n /\ Exists(m, p) => Exists(m, p)'
          /\ \A p, w : /\ Exists(n, p) /\ Matches(n, p, w)
                       /\ Matches(n, prior[j].phys, prior[j].name) /\ prior[j].name # w
                       => Exists(n, p)'
      <3>1. minted \in Nat
        BY DEF TypeOK
      <3> QED
        BY <1>1, <1>4, <3>1, RemoveStep
    <2>2. Matches(n, prior[j].phys, prior[j].name)
      BY <1>1, <1>4 DEF Described, Describes
    <2>3. ASSUME NEW p, Exists(n, p), Matches(n, p, config[n]) PROVE Declared(n)
      <3>1. PICK r \in live[n] : r.phys = p
        BY <2>3 DEF Exists
      <3>2. r.name = config[n] /\ r.name \in Names
        BY <1>1, <2>3, <3>1, LiveFacts DEF Matches
      <3> QED
        BY <3>2, NamesAssumption DEF Declared
    <2>4. Spares
      BY <1>4, <2>1, <2>2, <2>3 DEF Spares
    <2> QED
      BY <2>1, <2>4
  <1>5. Kept
    <2>1. CASE Head(todo[i]) = "delete" /\ Remove(n, prior[i])
      <3>1. Resumed => prior[i].name # config[n] \/ ~Declared(n)
        <4>1. CASE i = P(n)
          BY <1>1, <2>1, <4>1, PlanFacts DEF Stopping
        <4>2. CASE i = C(n)
          BY <1>1, <2>1, <4>2 DEF Stopping, Safe
        <4> QED
          BY <1>1, <4>1, <4>2
      <3> QED
        BY <1>1, <1>4, <2>1, <3>1
    <2>2. CASE Head(todo[i]) = "deleteLeft" /\ Remove(n, prior[C(n)])
      <3>1. Resumed => prior[C(n)].name # config[n]
        BY <1>1, <2>2 DEF Stopping, Safe
      <3> QED
        BY <1>1, <1>4, <2>2, <3>1
    <2> QED
      BY <1>2, <1>3, <2>1, <2>2 DEF MaybeCalled
  <1>6. Described' /\ Safe'
    <2>1. SparesGood
      BY <1>5 DEF Spares, SparesGood
    <2> QED
      BY <1>5, <2>1, LiveStep
  <1> QED
    BY <1>5, <1>6

LEMMA StaysStopping ==
  ASSUME TypeOK, NEW j \in Ids, Stopping(j), Grows, Spares, Resumed' => Resumed,
         UNCHANGED <<project, config, prior, outs, todo>>
  PROVE  Stopping(j)'
  <1> PICK n : n = j[1]
    OBVIOUS
  <1>1. n \in Nodes
    BY IdFacts
  <1>2. Declared(n)' = Declared(n) /\ Change(n)' = Change(n)
    BY <1>1, PlanSame
  <1>3. P(n)' = P(n) /\ C(n)' = C(n)
    BY DEF P, C
  <1>4. PICK p, w : p = outs[n] /\ w = config[n]
    OBVIOUS
  <1>5. Matches(n, p, w) => Matches(n, p, w)' /\ (Resumed /\ Exists(n, p) => Exists(n, p)')
    BY <1>1, <1>4 DEF Grows, Spares
  <1>6. p = outs[n]' /\ w = config[n]'
    BY <1>4
  <1>7. Matches(n, outs[n], config[n]) => Matches(n, outs[n], config[n])' /\
            (Resumed /\ Exists(n, outs[n]) => Exists(n, outs[n])')
    BY <1>4, <1>5, <1>6
  <1> QED
    BY <1>2, <1>3, <1>7 DEF Stopping

\* The rows after a step that keeps them as they should be.
RowsKept ==
    /\ row' \in [Ids -> Row] /\ live' \in [Nodes -> SUBSET Resource] /\ minted' \in Nat
    /\ Minted' /\ Described' /\ Safe' /\ Grows /\ Spares
    /\ \A m \in Nodes : Declared(m) /\ row[P(m)].status # "none" => row'[P(m)].status # "none"

LEMMA SameRows ==
  ASSUME ExecInv, UNCHANGED <<row, live, minted, prior, seen, config, project>>, Resumed' => Resumed
  PROVE  RowsKept
  <1>1. TypeOK /\ Minted /\ Described /\ Safe
    BY DEF ExecInv
  <1>2. \A m, p, w : Matches(m, p, w)' <=> Matches(m, p, w)
    BY DEF Matches
  <1>3. \A m, p : Exists(m, p)' <=> Exists(m, p)
    BY DEF Exists
  <1>4. Minted' /\ Grows /\ Spares
    BY <1>1, <1>2, <1>3 DEF Minted, Grows, Spares
  <1>5. Described' /\ Safe'
    <2>1. SparesGood
      BY <1>4 DEF Spares, SparesGood
    <2> QED
      BY <1>1, <1>4, <2>1, LiveStep
  <1> QED
    BY <1>1, <1>4, <1>5 DEF RowsKept, TypeOK

\* What the saga holds stays recordable.
LEMMA SagasSame ==
  ASSUME ExecInv, RowsKept, UNCHANGED <<project, config, prior, seen>>,
         phase' = "rollback" <=> phase = "rollback",
         NEW e \in Undo, Recordable(e)
  PROVE  Recordable(e)'
  <1>1. e.node \in Nodes
    BY DEF Undo
  <1>2. Declared(e.node)' = Declared(e.node) /\ Change(e.node)' = Change(e.node)
    BY <1>1, PlanSame
  <1>3. P(e.node)' = P(e.node)
    BY DEF P
  <1> QED
    BY <1>1, <1>2, <1>3 DEF Recordable, RowsKept

LEMMA HaltStep ==
  ASSUME ExecInv, phase \in Working, NEW stopped, Halt(stopped), RowsKept,
         faults' \in 0..MaxFaults, lost' \in BOOLEAN,
         UNCHANGED <<plan, work, todo, rolling, project, runs, unmarked, aimed>>
  PROVE  ExecInv'
  <1>1. TypeOK /\ Minted /\ Planned /\ Tasks /\ Aimed /\ Sagas
    BY DEF ExecInv
  <1>2. /\ UNCHANGED <<config, prior, predeleted, there, outs, deleteIds, deferred, saga>>
        /\ UNCHANGED <<at, undo, seen, recreated, undone>>
    BY DEF plan, work, rolling
  <1>3. phase' \in {"unwind", "stop"} /\ inflight' \subseteq {j \in Ids : Ready(j)}
    BY DEF Halt
  <1>4. Resumed' => Resumed
    BY <1>2 DEF Resumed
  <1>5. TypeOK'
    BY <1>1, <1>2, <1>3 DEF TypeOK, Phases, RowsKept
  <1>6. Tasks'
    <2> SUFFICES ASSUME NEW j \in inflight' PROVE Stopping(j)'
      BY <1>3 DEF Tasks
    <2>1. j \in Ids /\ todo[j] # <<>>
      BY <1>3 DEF Ready
    <2> QED
      BY <1>1, <1>2, <1>4, <2>1, Stops, StaysStopping DEF RowsKept
  <1>7. Sagas'
    <2> SUFFICES ASSUME NEW k \in DOMAIN saga PROVE Recordable(saga[k])'
      BY <1>2 DEF Sagas
    <2>1. PICK e : e = saga[k]
      OBVIOUS
    <2>2. e \in Undo
      BY <1>1, <2>1 DEF TypeOK
    <2>3. Recordable(e)
      BY <1>1, <2>1 DEF Sagas
    <2>4. Recordable(e)'
      BY <1>2, <1>3, <2>2, <2>3, SagasSame DEF Working
    <2>5. e = saga[k]'
      BY <1>2, <2>1
    <2> QED
      BY <2>4, <2>5
  <1>8. Aimed' /\ Between' /\ Starting' /\ Resolved' /\ Planned' /\ Undoes' /\ Converged'
    BY <1>1, <1>2, <1>3 DEF Aimed, Between, Starting, Resolved, Planned, Undoes, Converged, Working
  <1> QED
    BY <1>5, <1>6, <1>7, <1>8 DEF ExecInv, RowsKept

LEMMA MarkedRow ==
  ASSUME TypeOK, NEW n \in Nodes, NEW R \in Row, Describes(n, R),
         NEW S, S = [R EXCEPT !.hash = NoHash]
  PROVE  /\ S \in Row /\ Describes(n, S) /\ S.hash = NoHash
         /\ S.name = R.name /\ S.status = R.status
  <1>1. NoHash \in Hash
    BY HashFacts
  <1>2. /\ S \in Row /\ S.hash = NoHash
        /\ S.name = R.name /\ S.status = R.status /\ S.phys = R.phys /\ S.saw = R.saw
    BY <1>1 DEF Row
  <1>3. R = NoRow => S = NoRow
    BY DEF NoRow
  <1> QED
    BY <1>2, <1>3 DEF Describes

LEMMA MarkForgottenStep ==
  ASSUME ExecInv, NEW i \in Ids, MarkForgotten(i), Resumed' => Resumed,
         UNCHANGED <<live, minted, prior, seen, config, project>>
  PROVE  RowsKept
  <1> PICK id : id = IF Head(todo[i]) = "forgetLeft" THEN C(i[1]) ELSE i
    OBVIOUS
  <1>1. TypeOK /\ Minted /\ Described /\ Safe
    BY DEF ExecInv
  <1>2. CASE Head(todo[i]) \in {"forget", "forgetLeft"}
    <2>1. row' = [row EXCEPT ![id].hash = NoHash]
      BY <1>2 DEF MarkForgotten
    <2>2. PICK n : n \in Nodes /\ id \in Ids /\ n = id[1] /\ (id = P(n) \/ id = C(n)) /\ P(n) # C(n)
      BY IdFacts
    <2>3. row \in [Ids -> Row] /\ row[id] \in Row /\ Describes(n, row[id])
      BY <1>1, <2>2 DEF TypeOK, Described
    <2>4. PICK S : S = [row[id] EXCEPT !.hash = NoHash]
      OBVIOUS
    <2>5. /\ S \in Row /\ Describes(n, S) /\ S.hash = NoHash
          /\ S.name = row[id].name /\ S.status = row[id].status
      BY <1>1, <2>2, <2>3, <2>4, MarkedRow
    <2>6. row' = [row EXCEPT ![id] = S]
      BY <2>1, <2>3, <2>4
    <2>7. Declared(n) => S.hash # HashOf(config, n)
      BY <1>1, <2>2, <2>5, HashFacts
    <2>8. Resumed /\ row[C(n)].status # "none" => row[C(n)].name # config[n]
      BY <1>1, <2>2 DEF Safe
    <2>9. RowTo(id, S)
      BY <2>2, <2>5, <2>6, <2>7, <2>8 DEF RowTo
    <2>10. row' \in [Ids -> Row] /\ Minted' /\ Described' /\ Safe'
      BY <1>1, <2>2, <2>5, <2>9, RowStep
    <2>11. \A m \in Nodes : row[P(m)].status # "none" => row'[P(m)].status # "none"
      BY <2>3, <2>5, <2>6, IdFacts
    <2>12. Grows /\ Spares
      BY DEF Grows, Spares, Matches, Exists
    <2>13. live' \in [Nodes -> SUBSET Resource] /\ minted' \in Nat
      BY <1>1 DEF TypeOK
    <2> QED
      BY <2>10, <2>11, <2>12, <2>13 DEF RowsKept
  <1>3. CASE Head(todo[i]) \notin {"forget", "forgetLeft"}
    BY <1>3, SameRows DEF MarkForgotten
  <1> QED
    BY <1>2, <1>3

LEMMA CallKept ==
  ASSUME ExecInv, NEW i \in Ids, Stopping(i), MaybeCalled(i),
         UNCHANGED <<row, prior, seen, config, project>>, Resumed' => Resumed
  PROVE  RowsKept
  <1>1. TypeOK /\ Minted /\ Described /\ Safe
    BY DEF ExecInv
  <1>2. row' \in [Ids -> Row]
    BY <1>1 DEF TypeOK
  <1> QED
    BY <1>1, <1>2, CallStep DEF RowsKept

LEMMA WriteKept ==
  ASSUME ExecInv, NEW i \in Ids, Stopping(i), NEW step \in StateWrites,
         step = Head(todo[i]), row' = Written(i, step),
         UNCHANGED <<live, minted, prior, seen, config, project>>, Resumed' => Resumed
  PROVE  RowsKept
  <1>1. TypeOK /\ Minted /\ Described /\ Safe
    BY DEF ExecInv
  <1>2. live' \in [Nodes -> SUBSET Resource] /\ minted' \in Nat
    BY <1>1 DEF TypeOK
  <1>3. Grows /\ Spares
    BY DEF Grows, Spares, Matches, Exists
  <1> QED
    BY <1>1, <1>2, <1>3, WriteStep DEF RowsKept

LEMMA ProviderFailsStep ==
  ASSUME ExecInv, NEW i \in Ids, ProviderFails(i) PROVE ExecInv'
  <1> USE DEF ProviderFails
  <1>1. TypeOK /\ Minted /\ Planned /\ Tasks
    BY DEF ExecInv
  <1>2. UNCHANGED <<config, prior, seen>> /\ todo[i] # <<>> /\ (Resumed' => Resumed)
    BY DEF plan, rolling, Ready, Resumed
  <1>3. RowsKept
    BY <1>1, <1>2, Stops, CallKept
  <1>4. faults' \in 0..MaxFaults /\ lost' \in BOOLEAN
    BY <1>1, BoundsAssumption DEF TypeOK
  <1> QED
    BY <1>3, <1>4, HaltStep

LEMMA UpdateGoneStep ==
  ASSUME ExecInv, NEW n \in Nodes, UpdateGone(n) PROVE ExecInv'
  <1> USE DEF UpdateGone
  <1>1. TypeOK
    BY DEF ExecInv
  <1>2. UNCHANGED <<config, prior, seen, faults, project>> /\ (Resumed' => Resumed)
        /\ phase \in Working /\ UNCHANGED <<rolling, project, runs, unmarked, aimed>>
    BY DEF plan, rolling, Resumed, count, Awaits
  <1>3. RowsKept
    BY <1>1, <1>2, SameRows
  <1>4. faults' \in 0..MaxFaults /\ lost' \in BOOLEAN
    BY <1>1, <1>2 DEF TypeOK
  <1> QED
    BY <1>2, <1>3, <1>4, HaltStep

LEMMA WriteFailsStep ==
  ASSUME ExecInv, NEW i \in Ids, WriteFails(i) PROVE ExecInv'
  <1> USE DEF WriteFails
  <1>1. TypeOK
    BY DEF ExecInv
  <1>2. UNCHANGED <<config, prior, seen>> /\ (Resumed' => Resumed)
    BY DEF plan, rolling, Resumed
  <1>3. RowsKept
    BY <1>1, <1>2, MarkForgottenStep
  <1>4. faults' \in 0..MaxFaults /\ lost' \in BOOLEAN
    BY <1>1, BoundsAssumption DEF TypeOK
  <1> QED
    BY <1>3, <1>4, HaltStep

LEMMA InterruptStep ==
  ASSUME ExecInv, NEW leaseLost \in BOOLEAN, Interrupt(leaseLost) PROVE ExecInv'
  <1> USE DEF Interrupt
  <1>1. TypeOK
    BY DEF ExecInv
  <1>2. UNCHANGED <<config, prior, seen>> /\ (Resumed' => Resumed)
    BY DEF plan, rolling, Resumed
  <1>3. RowsKept
    BY <1>1, <1>2, SameRows
  <1>4. faults' \in 0..MaxFaults /\ lost' \in BOOLEAN
    BY <1>1, BoundsAssumption DEF TypeOK
  <1> QED
    BY <1>3, <1>4, HaltStep

LEMMA LateEffectStep ==
  ASSUME ExecInv, NEW i \in Ids, LateEffect(i) PROVE ExecInv'
  <1>1. TypeOK /\ Minted /\ Planned /\ Tasks /\ Aimed /\ Sagas
    BY DEF ExecInv
  <1>2. /\ phase \in {"unwind", "stop"} /\ i \in inflight
        /\ inflight' = inflight \ {i}
        /\ UNCHANGED <<phase, todo, lost>>
        /\ UNCHANGED <<config, prior, predeleted, there>> /\ UNCHANGED <<outs, deleteIds, deferred, saga>>
        /\ UNCHANGED <<at, undo, seen, recreated, undone>>
        /\ UNCHANGED <<project, runs, faults, unmarked, aimed>>
    BY DEF LateEffect, plan, work, rolling, count
  <1>3. Resumed' => Resumed
    BY <1>2 DEF Resumed
  <1>4. Stopping(i)
    BY <1>1, <1>2 DEF Tasks
  <1>5. RowsKept
    <2>1. CASE MaybeCalled(i) /\ UNCHANGED row
      BY <1>2, <1>3, <1>4, <2>1, CallKept
    <2>2. ASSUME NEW step, step = Head(todo[i]), step \in StateWrites, row' = Written(i, step),
                 UNCHANGED <<live, minted>>
          PROVE  RowsKept
      BY <1>2, <1>3, <1>4, <2>2, WriteKept
    <2> QED
      BY <2>1, <2>2 DEF LateEffect
  <1>6. TypeOK'
    BY <1>1, <1>2, <1>5 DEF TypeOK, RowsKept
  <1>7. Tasks'
    <2> SUFFICES ASSUME NEW j \in inflight' PROVE Stopping(j)'
      BY <1>2 DEF Tasks
    <2>1. j \in Ids /\ Stopping(j)
      BY <1>1, <1>2 DEF Tasks, TypeOK
    <2> QED
      BY <1>1, <1>2, <1>3, <1>5, <2>1, StaysStopping DEF RowsKept
  <1>8. Sagas'
    <2> SUFFICES ASSUME NEW k \in DOMAIN saga PROVE Recordable(saga[k])'
      BY <1>2 DEF Sagas
    <2>1. PICK e : e = saga[k]
      OBVIOUS
    <2>2. e \in Undo /\ Recordable(e)
      BY <1>1, <2>1 DEF TypeOK, Sagas
    <2>3. Recordable(e)'
      BY <1>2, <1>5, <2>2, SagasSame
    <2>4. e = saga[k]'
      BY <1>2, <2>1
    <2> QED
      BY <2>3, <2>4
  <1>9. Aimed' /\ Between' /\ Starting' /\ Resolved' /\ Planned' /\ Undoes' /\ Converged'
    BY <1>1, <1>2 DEF Aimed, Between, Starting, Resolved, Planned, Undoes, Converged, Working
  <1> QED
    BY <1>5, <1>6, <1>7, <1>8, <1>9 DEF ExecInv, RowsKept

-----------------------------------------------------------------------------
(***************************************************************************)
(* A run ends.                                                             *)
(***************************************************************************)
LEMMA EndStep ==
  ASSUME ExecInv, Ended, UNCHANGED <<row, live, minted, project, runs, unmarked>>,
         faults' \in 0..MaxFaults, aimed' \subseteq aimed, aimed' # {} => aimed' = aimed,
         Resumed' => Resumed, Converged'
  PROVE  ExecInv'
  <1>1. TypeOK /\ Minted /\ Described /\ Safe /\ Aimed
    BY DEF ExecInv
  <1>2. /\ phase' = "idle" /\ prior' = [i \in Ids |-> NoRow] /\ seen' = [i \in Ids |-> NoRow]
        /\ outs' = NoIds /\ predeleted' = {} /\ deleteIds' = {} /\ deferred' = {}
        /\ todo' = NothingToDo /\ inflight' = {} /\ saga' = <<>> /\ at' = 0 /\ undo' = <<>>
        /\ there' = {} /\ recreated' = 0 /\ undone' = TRUE /\ lost' = FALSE /\ config' = config
    BY DEF Ended
  <1>3. NoRow \in Row /\ NoIds \in [Nodes -> Nat] /\ NoRow.status = "none" /\ NoRow.phys = 0
    <2>1. NoIds \in [Nodes -> Nat] /\ NoHash \in Hash
      BY DEF NoIds, NoHash, Hash, Wanted
    <2> QED
      BY <2>1 DEF NoRow, Row, Wanted
  <1>4. NothingToDo \in [Ids -> Seq(ProviderSteps \cup StateWrites)]
    BY DEF NothingToDo
  <1>5. TypeOK'
    <2>1. /\ project' \in Projects /\ row' \in [Ids -> Row] /\ live' \in [Nodes -> SUBSET Resource]
          /\ minted' \in Nat /\ phase' \in Phases /\ config' \in [Nodes -> Wanted]
          /\ runs' \in 0..MaxRuns /\ unmarked' \subseteq Nodes /\ aimed' \subseteq project'.configs
      BY <1>1, <1>2 DEF TypeOK, Phases
    <2>2. /\ prior' \in [Ids -> Row] /\ seen' \in [Ids -> Row] /\ outs' \in [Nodes -> Nat]
          /\ todo' \in [Ids -> Seq(ProviderSteps \cup StateWrites)]
      BY <1>2, <1>3, <1>4
    <2>3. /\ predeleted' \subseteq Ids /\ deleteIds' \subseteq Ids /\ deferred' \subseteq Nodes
          /\ inflight' \subseteq Ids /\ recreated' \in Nat /\ undone' \in BOOLEAN /\ lost' \in BOOLEAN
          /\ there' \subseteq Nodes
      BY <1>2
    <2>4. saga' \in Seq(Undo) /\ at' \in 0..Len(saga') /\ undo' \in Seq(UndoAwaits)
      BY <1>2
    <2> QED
      BY <2>1, <2>2, <2>3, <2>4 DEF TypeOK
  <1>6. \A m, p, w : Matches(m, p, w)' <=> Matches(m, p, w)
    BY DEF Matches
  <1>7. \A m, p : Exists(m, p)' <=> Exists(m, p)
    BY DEF Exists
  <1>8. Minted'
    BY <1>1, <1>6 DEF Minted
  <1>9. Described'
    <2>1. \A m, S : Describes(m, S)' <=> Describes(m, S)
      BY <1>6 DEF Describes, NoRow, NoHash, NoIds
    <2>2. ASSUME NEW m \in Nodes, NEW i \in {P(m), C(m)}
          PROVE  Describes(m, row[i])' /\ Describes(m, prior[i])' /\ Describes(m, seen[i])'
      <3>1. i \in Ids
        BY IdFacts
      <3>2. Describes(m, row[i])
        BY <1>1 DEF Described
      <3>3. Describes(m, NoRow)
        <4>1. Matches(m, 0, NoRow.name)
          BY <1>1 DEF TypeOK, Matches, Minted
        <4> QED
          BY <4>1, <1>3 DEF Describes
      <3>4. PICK S, T : S = row[i] /\ T = NoRow
        OBVIOUS
      <3>5. Describes(m, S)' /\ Describes(m, T)'
        BY <2>1, <3>2, <3>3, <3>4
      <3>6. S = row[i]' /\ T = prior[i]' /\ T = seen[i]'
        BY <1>2, <3>1, <3>4
      <3> QED
        BY <3>5, <3>6
    <2> QED
      BY <2>2 DEF Described, P, C
  <1>10. Safe'
    <2> SUFFICES ASSUME Resumed', NEW m \in Nodes
                 PROVE  /\ Good(m)' => Exists(m, row[P(m)].phys)'
                        /\ row'[C(m)].status # "none" => row'[C(m)].name # config'[m]
                        /\ prior'[C(m)].status # "none" => prior'[C(m)].name # config'[m]
      BY DEF Safe, C
    <2>1. Good(m)' <=> Good(m)
      <3>1. Upstream(m)' = Upstream(m)
        BY DEF Upstream, Deps
      <3>2. HashOf(config, m)' = HashOf(config, m)
        BY <1>2, <3>1 DEF HashOf
      <3> QED
        BY <1>2, <3>2 DEF Good, Declared, P
    <2>2. C(m) \in Ids
      BY IdFacts
    <2>3. Exists(m, row[P(m)].phys)' <=> Exists(m, row[P(m)].phys)
      BY DEF Exists, P
    <2> QED
      BY <1>1, <1>2, <1>3, <2>1, <2>2, <2>3 DEF Safe
  <1>11. Aimed'
    BY <1>1, <1>2 DEF Aimed
  <1>12. Between' /\ Starting' /\ Resolved' /\ Planned' /\ Tasks' /\ Undoes'
    BY <1>2 DEF Between, Starting, Resolved, Planned, Tasks, Undoes, Working, NothingToDo, Ids, P, C
  <1>13. Sagas'
    BY <1>2 DEF Sagas
  <1> QED
    BY <1>5, <1>8, <1>9, <1>10, <1>11, <1>12, <1>13 DEF ExecInv

LEMMA CrashStep ==
  ASSUME ExecInv, Crash PROVE ExecInv'
  <1> USE DEF Crash
  <1>1. TypeOK /\ Aimed
    BY DEF ExecInv
  <1>2. aimed' # {} /\ faults' \in 0..MaxFaults
    BY <1>1, BoundsAssumption DEF Aimed, TypeOK
  <1>3. (Resumed' => Resumed) /\ Converged'
    BY <1>2 DEF Resumed, Converged, Ended
  <1> QED
    BY <1>2, <1>3, EndStep

LEMMA RollbackDoneStep ==
  ASSUME ExecInv, RollbackDone PROVE ExecInv'
  <1> USE DEF RollbackDone, count
  <1>1. TypeOK /\ Aimed
    BY DEF ExecInv
  <1>2. aimed' # {} /\ faults' \in 0..MaxFaults
    BY <1>1 DEF Aimed, TypeOK
  <1>3. (Resumed' => Resumed) /\ Converged'
    BY <1>2 DEF Resumed, Converged, Ended
  <1> QED
    BY <1>2, <1>3, EndStep

\* What a run that completes under Resumed leaves.
LEMMA CompleteConverges ==
  ASSUME ExecInv, phase = "destroy", todo = NothingToDo, aimed = {config}, unmarked = {},
         NEW n \in Nodes
  PROVE  /\ row[C(n)] = NoRow
         /\ ~Declared(n) => row[P(n)] = NoRow
         /\ Declared(n) => /\ PlanOf(row, config, n) = "noop"
                           /\ [name |-> config[n], phys |-> row[P(n)].phys] \in live[n]
                           /\ \A d \in Deps[n] : row[P(n)].saw[d] = row[P(d)].phys
  <1>1. TypeOK /\ Minted /\ Described /\ Safe /\ Aimed /\ Tasks
    BY DEF ExecInv
  <1>2. Resumed /\ config \in project.configs
    BY <1>1 DEF Resumed, Aimed
  <1>3. \A m \in Nodes : Destroying(m) /\ todo[P(m)] = <<>> /\ todo[C(m)] = <<>>
    BY <1>1, IdFacts DEF Tasks, NothingToDo
  <1>4. \A m \in Nodes : /\ row[C(m)] = NoRow
                         /\ ~Declared(m) => row[P(m)] = NoRow
                         /\ Declared(m) => Applied(m)
    BY <1>3, TaskSteps DEF Destroying, Going
  <1>5. ASSUME NEW m \in Nodes, Declared(m)
        PROVE  \A d \in Deps[m] : d \in Nodes /\ Declared(d) /\ row[P(m)].saw[d] = row[P(d)].phys
    <2>1. \A d \in Deps[m] : d \in Nodes /\ Declared(d)
      BY <1>1, <1>2, <1>5, DepsFacts
    <2> QED
      BY <1>4, <1>5, <2>1 DEF Applied
  <1>6. ASSUME NEW m \in Nodes PROVE Classify(row, config, m) \notin {"create", "replace"}
                                     /\ (Declared(m) => Classify(row, config, m) = "noop")
    <2>1. CASE ~Declared(m)
      BY <2>1 DEF Classify, Declared
    <2>2. CASE Declared(m)
      <3>1. ~Moved(row, m)
        BY <1>5, <2>2 DEF Moved
      <3>2. Good(m)
        BY <1>4, <2>2 DEF Applied
      <3> QED
        BY <2>2, <3>1, <3>2 DEF Classify, Declared, Good
    <2> QED
      BY <2>1, <2>2
  <1>7. ASSUME Declared(n) PROVE PlanOf(row, config, n) = "noop"
    <2>1. \A u \in Upstream(n) : Classify(row, config, u) \notin {"create", "replace"}
      BY <1>1, <1>6, DepsFacts
    <2> QED
      BY <1>6, <1>7, <2>1 DEF PlanOf
  <1>8. ASSUME Declared(n) PROVE [name |-> config[n], phys |-> row[P(n)].phys] \in live[n]
    <2>1. Good(n)
      BY <1>4, <1>8 DEF Applied
    <2>2. Exists(n, row[P(n)].phys) /\ row[P(n)].name = config[n]
      BY <1>1, <1>2, <2>1 DEF Safe, Good
    <2>3. PICK r \in live[n] : r.phys = row[P(n)].phys
      BY <2>2 DEF Exists
    <2>4. Matches(n, row[P(n)].phys, row[P(n)].name)
      BY <1>1 DEF Described, Describes
    <2>5. r.name = config[n]
      BY <2>2, <2>3, <2>4 DEF Matches
    <2>6. r = [name |-> r.name, phys |-> r.phys]
      BY <1>1 DEF TypeOK, Resource
    <2> QED
      BY <2>3, <2>5, <2>6
  <1> QED
    BY <1>4, <1>5, <1>7, <1>8

LEMMA NextPlanSame ==
  ASSUME UNCHANGED <<project, row, config>>
  PROVE  \A n : PlanOf(row, config, n)' = PlanOf(row, config, n)
  <1>1. \A n : Upstream(n)' = Upstream(n)
    BY DEF Upstream, Deps
  <1>2. \A n : HashOf(config, n)' = HashOf(config, n)
    BY <1>1 DEF HashOf
  <1>3. \A n : Moved(row, n)' = Moved(row, n)
    BY DEF Moved, Deps, P
  <1>4. \A n : Classify(row, config, n)' = Classify(row, config, n)
    BY <1>2, <1>3 DEF Classify, P
  <1> QED
    BY <1>1, <1>4 DEF PlanOf

LEMMA CompleteStep ==
  ASSUME ExecInv, Complete PROVE ExecInv'
  <1> USE DEF Complete
  <1>1. TypeOK /\ Aimed
    BY DEF ExecInv
  <1>2. aimed # {} /\ faults' \in 0..MaxFaults /\ config' = config
    BY <1>1 DEF Aimed, TypeOK, Ended
  <1>3. Resumed' => Resumed
    BY <1>2 DEF Resumed
  <1>4. ASSUME aimed = {config}, unmarked = {} PROVE Converged'
    <2>1. ASSUME NEW n \in Nodes
          PROVE  /\ row[C(n)]' = NoRow
                 /\ config'[n] = Undeclared => row[P(n)]' = NoRow
                 /\ config'[n] # Undeclared =>
                       /\ PlanOf(row, config, n)' = "noop"
                       /\ [name |-> config[n], phys |-> row[P(n)].phys]' \in live'[n]
                       /\ \A d \in Deps[n] : (row[P(n)].saw[d])' = (row[P(d)].phys)'
      <3>1. /\ row[C(n)] = NoRow
            /\ ~Declared(n) => row[P(n)] = NoRow
            /\ Declared(n) => /\ PlanOf(row, config, n) = "noop"
                              /\ [name |-> config[n], phys |-> row[P(n)].phys] \in live[n]
                              /\ \A d \in Deps[n] : row[P(n)].saw[d] = row[P(d)].phys
        BY <1>4, CompleteConverges
      <3>2. PlanOf(row, config, n)' = PlanOf(row, config, n)
        BY <1>2, NextPlanSame
      <3>3. row[C(n)]' = row[C(n)] /\ row[P(n)]' = row[P(n)] /\ config' = config /\ live' = live
            /\ \A d : row[P(d)]' = row[P(d)]
        BY <1>2 DEF P, C
      <3> QED
        BY <3>1, <3>2, <3>3 DEF Declared
    <2>2. Deps' = Deps
      BY DEF Deps
    <2>3. NoRow' = NoRow
      BY DEF NoRow, NoHash, NoIds
    <2> QED
      BY <2>1, <2>2, <2>3 DEF Converged
  <1>5. Converged'
    <2>1. aimed # {config} \/ unmarked # {} => Converged'
      BY <1>2 DEF Converged
    <2> QED
      BY <1>4, <2>1
  <1>6. aimed' \subseteq aimed /\ (aimed' # {} => aimed' = aimed)
    OBVIOUS
  <1> QED
    BY <1>2, <1>3, <1>5, <1>6, EndStep

-----------------------------------------------------------------------------
(***************************************************************************)
(* A run begins, and goes from phase to phase.                             *)
(***************************************************************************)
LEMMA StartRunStep ==
  ASSUME ExecInv, NEW c \in project.configs, StartRun(c) PROVE ExecInv'
  <1>1. TypeOK /\ Minted /\ Described /\ Safe /\ Aimed /\ Between /\ Converged
    BY DEF ExecInv
  <1>2. /\ phase = "idle" /\ runs < MaxRuns /\ phase' = "start" /\ config' = c /\ prior' = row
        /\ outs' = [n \in Nodes |-> row[P(n)].phys] /\ runs' = runs + 1
        /\ aimed' = aimed \cup {c} /\ there' \subseteq Nodes
        /\ UNCHANGED <<row, live, minted, predeleted, deleteIds, deferred, saga, todo, inflight, lost>>
        /\ UNCHANGED <<at, undo, seen, recreated, undone>> /\ UNCHANGED <<project, faults, unmarked>>
    BY DEF StartRun, rolling
  <1>3. \A n \in Nodes : P(n) \in Ids /\ C(n) \in Ids
    BY IdFacts
  <1>4. TypeOK'
    <2>1. c \in [Nodes -> Wanted]
      BY <1>1, ProjectsAssumption DEF TypeOK, Project
    <2>2. outs' \in [Nodes -> Nat]
      BY <1>1, <1>2, <1>3 DEF TypeOK, Row
    <2>3. runs' \in 0..MaxRuns
      BY <1>1, <1>2, BoundsAssumption DEF TypeOK
    <2> QED
      BY <1>1, <1>2, <2>1, <2>2, <2>3 DEF TypeOK, Phases
  <1>5. \A m, p, w : Matches(m, p, w)' <=> Matches(m, p, w)
    BY <1>2 DEF Matches
  <1>6. Minted'
    BY <1>1, <1>2, <1>5 DEF Minted
  <1>7. Described'
    <2>1. \A m, S : Describes(m, S)' <=> Describes(m, S)
      BY <1>5 DEF Describes, NoRow, NoHash, NoIds
    <2>2. ASSUME NEW m \in Nodes, NEW i \in {P(m), C(m)}
          PROVE  Describes(m, row[i])' /\ Describes(m, prior[i])' /\ Describes(m, seen[i])'
      <3>1. PICK S, T : S = row[i] /\ T = seen[i]
        OBVIOUS
      <3>2. Describes(m, S)' /\ Describes(m, T)'
        BY <1>1, <2>1, <3>1 DEF Described
      <3>3. S = row[i]' /\ S = prior[i]' /\ T = seen[i]'
        BY <1>2, <3>1
      <3> QED
        BY <3>2, <3>3
    <2> QED
      BY <2>2 DEF Described, P, C
  <1>8. Safe'
    <2> SUFFICES ASSUME Resumed', NEW m \in Nodes
                 PROVE  /\ Good(m)' => Exists(m, row[P(m)].phys)'
                        /\ row'[C(m)].status # "none" => row'[C(m)].name # config'[m]
                        /\ prior'[C(m)].status # "none" => prior'[C(m)].name # config'[m]
      BY DEF Safe, C
    <2>1. unmarked = {} /\ (aimed = {} \/ aimed = {c})
      BY <1>2 DEF Resumed
    <2>2. Exists(m, row[P(m)].phys)' <=> Exists(m, row[P(m)].phys)
      BY <1>2 DEF Exists, P
    <2>3. CASE aimed = {}
      <3>1. /\ row[C(m)] = NoRow
            /\ config[m] = Undeclared => row[P(m)] = NoRow
            /\ config[m] # Undeclared => [name |-> config[m], phys |-> row[P(m)].phys] \in live[m]
        BY <1>1, <1>2, <2>3 DEF Converged
      <3>2. NoRow.status = "none"
        BY DEF NoRow
      <3>3. row'[P(m)].status = "created" => Exists(m, row[P(m)].phys)
        BY <1>2, <3>1, <3>2 DEF Exists
      <3> QED
        BY <1>2, <2>2, <3>1, <3>2, <3>3 DEF Good, P
    <2>4. CASE aimed = {c}
      <3>1. config = c /\ Resumed
        BY <1>1, <2>1, <2>4 DEF Aimed, Resumed
      <3>2. Upstream(m)' = Upstream(m)
        BY <1>2 DEF Upstream, Deps
      <3>3. HashOf(config, m)' = HashOf(config, m)
        BY <1>2, <3>1, <3>2 DEF HashOf
      <3>4. Good(m)' <=> Good(m)
        BY <1>2, <3>1, <3>3 DEF Good, Declared, P
      <3> QED
        BY <1>1, <1>2, <2>2, <3>1, <3>4 DEF Safe
    <2> QED
      BY <2>1, <2>3, <2>4
  <1>9. Aimed'
    BY <1>2 DEF Aimed
  <1>10. Between' /\ Starting' /\ Planned'
    <2>1. todo' = NothingToDo' /\ inflight' = {} /\ saga' = <<>>
          /\ deferred' = {} /\ predeleted' = {} /\ deleteIds' = {}
      BY <1>1, <1>2 DEF Between, NothingToDo, Ids, P, C
    <2> QED
      BY <1>2, <2>1 DEF Between, Starting, Planned
  <1>11. Resolved' /\ Tasks' /\ Undoes' /\ Converged'
    BY <1>2 DEF Resolved, Tasks, Undoes, Converged, P
  <1>12. Sagas'
    BY <1>1, <1>2 DEF Between, Sagas
  <1> QED
    BY <1>4, <1>6, <1>7, <1>8, <1>9, <1>10, <1>11, <1>12 DEF ExecInv

LEMMA StepsTypes ==
  /\ \A i, first : PredeleteSteps(i, first) \in Seq(ProviderSteps \cup StateWrites)
  /\ \A n : ApplySteps(n) \in Seq(ProviderSteps \cup StateWrites)
  /\ \A i : DestroySteps(i) \in Seq(ProviderSteps \cup StateWrites)
  <1> DEFINE A == ProviderSteps \cup StateWrites
  <1>1. /\ "delete" \in A /\ "create" \in A /\ "update" \in A /\ "deleteLeft" \in A /\ "ahead" \in A
        /\ "companion" \in A /\ "persist" \in A /\ "forget" \in A /\ "forgetLeft" \in A
        /\ "dropCompanion" \in A
    BY DEF ProviderSteps, StateWrites, CheckedWrites
  <1> HIDE DEF A
  <1>2. \A i, first : PredeleteSteps(i, first) \in Seq(A)
    BY <1>1 DEF PredeleteSteps
  <1>3. \A n : ReplaceSteps(n) \in Seq(A)
    <2>1. /\ <<"deleteLeft", "forgetLeft", "companion", "ahead", "create", "persist">> \in Seq(A)
          /\ <<"companion", "ahead", "create", "persist">> \in Seq(A)
          /\ <<"create", "persist">> \in Seq(A) /\ <<"ahead", "delete", "create", "persist">> \in Seq(A)
      BY <1>1
    <2> QED
      BY <2>1 DEF ReplaceSteps
  <1>4. \A n : ApplySteps(n) \in Seq(A)
    BY <1>1, <1>3 DEF ApplySteps
  <1>5. \A i : DestroySteps(i) \in Seq(A)
    BY <1>1 DEF DestroySteps
  <1> QED
    BY <1>2, <1>4, <1>5 DEF A

LEMMA PhaseStep ==
  ASSUME ExecInv, phase \in {"start"} \cup Working, phase' \in Working,
         phase' = "predelete" => phase = "start",
         todo' \in [Ids -> Seq(ProviderSteps \cup StateWrites)],
         predeleted' \subseteq DestroyedHere, deleteIds' \subseteq Dropped,
         UNCHANGED <<row, live, minted, config, prior, there, outs, deferred, saga, inflight, lost,
                     rolling, count>>,
         Tasks'
  PROVE  ExecInv'
  <1>1. TypeOK /\ Minted /\ Described /\ Safe /\ Aimed /\ Resolved /\ Planned /\ Sagas
    BY DEF ExecInv
  <1>2. /\ UNCHANGED <<at, undo, seen, recreated, undone>>
        /\ UNCHANGED <<project, runs, faults, unmarked, aimed>>
    BY DEF rolling, count
  <1>3. Resumed' => Resumed
    BY <1>2 DEF Resumed
  <1>4. RowsKept
    BY <1>2, <1>3, SameRows
  <1>5. TypeOK'
    <2>1. predeleted' \subseteq Ids /\ deleteIds' \subseteq Ids
      BY DEF DestroyedHere, Dropped, Ids
    <2> QED
      BY <1>1, <1>2, <2>1 DEF TypeOK, Phases, Working
  <1>6. Dropped' = Dropped /\ DestroyedHere' = DestroyedHere
        /\ \A n \in Nodes : Change(n)' = Change(n)
    BY <1>2, PlanSame
  <1>7. Planned'
    BY <1>1, <1>6 DEF Planned, Working, TypeOK
  <1>8. Sagas'
    <2> SUFFICES ASSUME NEW k \in DOMAIN saga PROVE Recordable(saga[k])'
      BY DEF Sagas
    <2>1. PICK e : e = saga[k]
      OBVIOUS
    <2>2. e \in Undo /\ Recordable(e)
      BY <1>1, <2>1 DEF TypeOK, Sagas
    <2>3. Recordable(e)'
      BY <1>2, <1>4, <2>2, SagasSame DEF Working
    <2>4. e = saga[k]'
      BY <2>1
    <2> QED
      BY <2>3, <2>4
  <1>9. Resolved'
    BY <1>1, <1>2 DEF Resolved, Working, P
  <1>10. Aimed' /\ Between' /\ Starting' /\ Undoes' /\ Converged'
    BY <1>1, <1>2 DEF Aimed, Between, Starting, Undoes, Converged, Working
  <1> QED
    BY <1>4, <1>5, <1>7, <1>8, <1>9, <1>10 DEF ExecInv, RowsKept

LEMMA PredeleteStep ==
  ASSUME ExecInv, Predelete PROVE ExecInv'
  <1>1. TypeOK /\ Starting
    BY DEF ExecInv
  <1>2. PICK first : first = Predeletes
    OBVIOUS
  <1>3. /\ phase = "start" /\ phase' = "predelete" /\ predeleted' = first
        /\ deleteIds' = Dropped \ first
        /\ todo' = [i \in Ids |-> PredeleteSteps(i, first)]
        /\ UNCHANGED <<row, live, minted, config, prior, there, outs, deferred, saga, inflight, lost,
                       rolling, count>>
    BY <1>2 DEF Predelete
  <1>4. first \subseteq DestroyedHere
    BY <1>2 DEF Predeletes
  <1>5. todo' \in [Ids -> Seq(ProviderSteps \cup StateWrites)]
    BY <1>3, StepsTypes
  <1>6. UNCHANGED <<project, config, prior>>
    BY <1>3 DEF count
  <1>7. ASSUME NEW n \in Nodes PROVE Predeleting(n)'
    <2>1. /\ P(n) \in Ids /\ C(n) \in Ids /\ P(n)' = P(n) /\ C(n)' = C(n)
          /\ Change(n)' = Change(n)
      BY <1>6, IdFacts, PlanSame DEF P, C
    <2>2. todo'[P(n)] = PredeleteSteps(P(n), first) /\ todo'[C(n)] = PredeleteSteps(C(n), first)
      BY <1>3, <2>1
    <2>3. row' = prior'
      BY <1>1, <1>3 DEF Starting
    <2> QED
      BY <1>3, <1>4, <2>1, <2>2, <2>3, DestroyFacts DEF Predeleting, PredeleteSteps, Going
  <1>8. Tasks'
    BY <1>3, <1>7 DEF Tasks
  <1> QED
    BY <1>3, <1>4, <1>5, <1>8, PhaseStep DEF Working

\* A node the diff leaves alone is as applied, and nothing it refers to will get a new id.
LEMMA NoopApplied ==
  ASSUME ExecInv, phase = "predelete", NEW n \in Nodes, Change(n) = "noop", row[P(n)] = prior[P(n)]
  PROVE  /\ Good(n) /\ row[P(n)].phys = outs[n]
         /\ \A d \in Deps[n] : /\ row[P(n)].saw[d] = outs[d]
                               /\ Change(d) \in {"noop", "update"}
  <1>1. TypeOK /\ Described /\ Aimed /\ Resolved
    BY DEF ExecInv
  <1>2. outs = [m \in Nodes |-> prior[P(m)].phys] /\ config \in project.configs
    BY <1>1 DEF Resolved, Aimed
  <1>3. /\ Declared(n) /\ prior[P(n)].status = "created" /\ prior[P(n)].name = config[n]
        /\ prior[P(n)].hash = HashOf(config, n) /\ ~Moved(prior, n)
        /\ \A u \in Upstream(n) : Classify(prior, config, u) \notin {"create", "replace"}
    BY <1>1, PlanFacts
  <1>4. Good(n) /\ row[P(n)].phys = outs[n]
    BY <1>2, <1>3 DEF Good
  <1>5. ASSUME NEW d \in Deps[n]
        PROVE  row[P(n)].saw[d] = outs[d] /\ Change(d) \in {"noop", "update"}
    <2>1. d \in Nodes /\ Declared(d) /\ Classify(prior, config, d) \notin {"create", "replace"}
      BY <1>1, <1>2, <1>3, DepsFacts
    <2>2. Change(d) \in {"noop", "update"}
      BY <1>1, <2>1, PlanFacts
    <2>3. prior[P(d)].status = "created"
      BY <1>1, <2>1, <2>2, PlanFacts
    <2>4. prior[P(d)].phys # 0
      BY <1>1, <2>1, <2>3 DEF Described, Describes
    <2>5. prior[P(n)].saw[d] = prior[P(d)].phys
      BY <1>3, <2>4 DEF Moved
    <2> QED
      BY <1>2, <2>1, <2>2, <2>5
  <1> QED
    BY <1>4, <1>5

LEMMA ForwardStep ==
  ASSUME ExecInv, Forward PROVE ExecInv'
  <1>1. TypeOK /\ Described /\ Tasks /\ Planned /\ Resolved
    BY DEF ExecInv
  <1>2. /\ phase = "predelete" /\ todo = NothingToDo /\ phase' = "forward"
        /\ todo' = [i \in Ids |-> IF i[2] = "primary" THEN ApplySteps(i[1]) ELSE <<>>]
        /\ deleteIds' = deleteIds \ {C(n) : n \in {m \in Nodes : Deferring(m)}}
        /\ UNCHANGED <<row, live, minted, config, prior, predeleted, there>>
        /\ UNCHANGED <<outs, deferred, saga, inflight, lost, rolling, count>>
    BY DEF Forward, plan, Deferring
  <1>3. todo' \in [Ids -> Seq(ProviderSteps \cup StateWrites)]
    <2>1. \A n : ApplySteps(n) \in Seq(ProviderSteps \cup StateWrites)
      BY StepsTypes
    <2> QED
      BY <1>2, <2>1
  <1>4. UNCHANGED <<project, config, prior>>
    BY <1>2 DEF count
  <1>5. predeleted \subseteq DestroyedHere /\ deleteIds \subseteq Dropped
    BY <1>1, <1>2 DEF Planned, Working
  <1>6. ASSUME NEW n \in Nodes PROVE Forwarding(n)'
    <2>1. /\ P(n) \in Ids /\ C(n) \in Ids /\ P(n)' = P(n) /\ C(n)' = C(n) /\ P(n)[1] = n
          /\ P(n)[2] = "primary" /\ C(n)[2] = "replaced"
          /\ \A m \in Nodes : P(n) # C(m) /\ (C(n) = C(m) => n = m)
      BY IdFacts DEF P, C
    <2>2. /\ Change(n)' = Change(n) /\ Declared(n)' = Declared(n) /\ Deferring(n)' = Deferring(n)
          /\ Deps' = Deps /\ \A d \in Nodes : Change(d)' = Change(d)
      BY <1>4, PlanSame
    <2>3. todo'[P(n)] = ApplySteps(n) /\ todo'[C(n)] = <<>>
      BY <1>2, <2>1
    <2>4. Predeleting(n) /\ todo[P(n)] = <<>> /\ todo[C(n)] = <<>>
      BY <1>1, <1>2, <2>1 DEF Tasks, NothingToDo
    <2>5. /\ P(n) \in deleteIds' <=> P(n) \in deleteIds
          /\ C(n) \in deleteIds' <=> C(n) \in deleteIds /\ ~Deferring(n)
      BY <1>2, <2>1
    <2>6. /\ P(n) \in predeleted => IF Change(n) = "delete" THEN row[P(n)] = NoRow
                                                            ELSE row[P(n)].status = "creating"
          /\ P(n) \notin predeleted => /\ row[P(n)] = prior[P(n)]
                                       /\ Change(n) = "delete" => P(n) \in deleteIds
          /\ row[C(n)] = NoRow \/ (row[C(n)] = prior[C(n)]
                                   /\ (prior[C(n)].status # "none" => C(n) \in deleteIds))
      BY <2>4, TaskSteps DEF Predeleting, Going
    <2>7. /\ Change(n) \in {"none", "delete", "create", "replace", "noop", "update"}
          /\ Change(n) \in {"none", "delete"} <=> ~Declared(n)
          /\ Change(n) = "none" => prior[P(n)].status = "none"
      BY <1>1, PlanFacts
    <2>8. P(n) \in predeleted => Change(n) = "delete" \/ (Change(n) = "replace" /\ ~CreateFirst(n))
      BY <1>5, DestroyFacts
    <2>9. C(n) \in deleteIds => prior[C(n)].status # "none"
      BY <1>5, DestroyFacts
    <2>10. \A i \in {P(n), C(n)} : prior[i].status = "none" => prior[i] = NoRow
      BY <1>1 DEF Described, Describes
    <2>11. ApplySteps(n) = CASE Change(n) = "create" -> <<"ahead", "create", "persist">>
                             [] Change(n) = "update" -> <<"update", "persist">>
                             [] Change(n) = "replace" -> ReplaceSteps(n)
                             [] OTHER -> <<>>
      BY DEF ApplySteps
    <2> DEFINE t == todo'[P(n)]
    <2>12. ~Declared(n) => t = <<>> /\ (row[P(n)] = NoRow \/ P(n) \in deleteIds')
      BY <2>3, <2>5, <2>6, <2>7, <2>8, <2>10, <2>11
    <2>13. Change(n) = "noop" => t = <<>> /\ row[P(n)] = prior[P(n)]
      BY <2>3, <2>6, <2>7, <2>8, <2>11
    <2>14. Change(n) = "noop" => Applied(n)'
      <3> SUFFICES ASSUME Change(n) = "noop" PROVE Applied(n)'
        OBVIOUS
      <3>1. /\ Good(n) /\ row[P(n)].phys = outs[n]
            /\ \A d \in Deps[n] : row[P(n)].saw[d] = outs[d] /\ Change(d) \in {"noop", "update"}
        BY <1>2, <2>13, NoopApplied
      <3>2. Good(n)' = Good(n)
        BY <1>2, <1>4, <2>2, PlanSame DEF Good, P
      <3>3. \A d \in Deps[n] : d \in Nodes
        BY <1>1, DepsFacts
      <3>4. \A d \in Deps[n] : Change(d)' \in {"noop", "update"}
        BY <2>2, <3>1, <3>3
      <3> QED
        BY <1>2, <2>1, <2>2, <3>1, <3>2, <3>4 DEF Applied
    <2>15. Change(n) = "replace" =>
              \/ /\ t \in Companions /\ Deferring(n)
                 /\ t # <<"companion", "ahead", "create", "persist">> => prior[C(n)].status # "none"
              \/ t = <<"create", "persist">> /\ row[P(n)].status = "creating"
              \/ t = <<"ahead", "delete", "create", "persist">>
      BY <2>3, <2>6, <2>9, <2>11 DEF ReplaceSteps, Companions, Deferring
    <2>16. Change(n) \in {"noop", "update"} => outs[n] = prior[P(n)].phys
      BY <1>1, <1>2 DEF Resolved
    <2>17. Deferring(n) => Change(n) = "replace" /\ t \notin {<<>>, <<"persist">>}
      <3>1. Deferring(n) => Change(n) = "replace" /\ P(n) \notin predeleted /\ CreateFirst(n)
        BY <2>8 DEF Deferring
      <3>2. Deferring(n) => t \in {<<"deleteLeft", "forgetLeft", "companion", "ahead", "create", "persist">>,
                                   <<"companion", "ahead", "create", "persist">>}
        BY <2>3, <2>11, <3>1 DEF ReplaceSteps
      <3> QED
        BY <3>1, <3>2
    <2>18. \/ row[C(n)] = NoRow \/ C(n) \in deleteIds' \/ n \in deferred
           \/ Deferring(n) /\ t \notin {<<>>, <<"persist">>}
      BY <2>5, <2>6, <2>10, <2>17
    <2>19. Change(n) = "create" => t = <<"ahead", "create", "persist">>
      BY <2>3, <2>11
    <2>20. Change(n) = "update" => t = <<"update", "persist">>
      BY <2>3, <2>11
    <2> HIDE DEF t
    <2>21. Declared(n) =>
             \/ t = <<>> /\ Applied(n)'
             \/ t = <<"update", "persist">> /\ Change(n) = "update"
             \/ t = <<"create", "persist">> /\ row[P(n)].status = "creating" /\ Change(n) = "replace"
             \/ t = <<"ahead", "create", "persist">> /\ Change(n) \in {"create", "replace"}
             \/ t = <<"ahead", "delete", "create", "persist">> /\ Change(n) = "replace"
             \/ /\ t \in Companions /\ Deferring(n)
                /\ t # <<"companion", "ahead", "create", "persist">> => prior[C(n)].status # "none"
      BY <2>7, <2>13, <2>14, <2>15, <2>19, <2>20
    <2>22. NoRow' = NoRow /\ Companions' = Companions /\ row' = row /\ prior' = prior
           /\ outs' = outs /\ deferred' = deferred
      BY <1>2 DEF NoRow, NoHash, NoIds, Companions
    <2> QED
      BY <2>1, <2>2, <2>3, <2>12, <2>16, <2>18, <2>21, <2>22 DEF Forwarding, t
  <1>7. Tasks'
    BY <1>2, <1>6 DEF Tasks
  <1>8. predeleted' \subseteq DestroyedHere /\ deleteIds' \subseteq Dropped
    BY <1>2, <1>5
  <1> QED
    BY <1>2, <1>3, <1>7, <1>8, PhaseStep DEF Working

LEMMA DestroyStep ==
  ASSUME ExecInv, Destroy PROVE ExecInv'
  <1>1. TypeOK /\ Described /\ Tasks /\ Planned
    BY DEF ExecInv
  <1>2. /\ phase = "forward" /\ todo = NothingToDo /\ phase' = "destroy"
        /\ todo' = [i \in Ids |-> DestroySteps(i)]
        /\ UNCHANGED <<row, live, minted, config, prior, predeleted, there>>
        /\ UNCHANGED <<outs, deleteIds, deferred, saga, inflight, lost, rolling, count>>
    BY DEF Destroy, plan, work
  <1>3. todo' \in [Ids -> Seq(ProviderSteps \cup StateWrites)]
    BY <1>2, StepsTypes
  <1>4. UNCHANGED <<project, config, prior>>
    BY <1>2 DEF count
  <1>5. /\ predeleted \subseteq DestroyedHere /\ deleteIds \subseteq Dropped
        /\ \A n \in deferred : Change(n) = "replace"
    BY <1>1, <1>2 DEF Planned, Working
  <1>6. ASSUME NEW n \in Nodes PROVE Destroying(n)'
    <2>1. /\ P(n) \in Ids /\ C(n) \in Ids /\ P(n)' = P(n) /\ C(n)' = C(n) /\ P(n)[1] = n /\ C(n)[1] = n
          /\ P(n)[2] = "primary" /\ C(n)[2] = "replaced"
      BY IdFacts DEF P, C
    <2>2. Change(n)' = Change(n) /\ Declared(n)' = Declared(n) /\ Deps' = Deps
      BY <1>4, PlanSame
    <2>3. Forwarding(n) /\ todo[P(n)] = <<>> /\ todo[C(n)] = <<>>
      BY <1>1, <1>2, <2>1 DEF Tasks, NothingToDo
    <2>4. /\ ~Declared(n) => row[P(n)] = NoRow \/ P(n) \in deleteIds
          /\ Declared(n) => Applied(n)
          /\ row[C(n)] = NoRow \/ C(n) \in deleteIds \/ n \in deferred
      BY <2>3, TaskSteps DEF Forwarding, Companions
    <2>5. /\ P(n) \in deleteIds => Change(n) = "delete"
          /\ C(n) \in deleteIds => prior[C(n)].status # "none"
          /\ n \in deferred => Change(n) = "replace"
          /\ Change(n) \in {"none", "delete"} <=> ~Declared(n)
      BY <1>1, <1>5, DestroyFacts, PlanFacts
    <2>6. /\ todo'[P(n)] = IF n \in deferred THEN <<"delete", "dropCompanion">>
                           ELSE IF P(n) \in deleteIds THEN <<"delete", "forget">> ELSE <<>>
          /\ todo'[C(n)] = IF C(n) \in deleteIds THEN <<"delete", "forget">> ELSE <<>>
      BY <1>2, <2>1 DEF DestroySteps
    <2>7. Declared(n) => Applied(n)'
      <3> SUFFICES ASSUME Declared(n) PROVE Applied(n)'
        OBVIOUS
      <3>1. Good(n)' = Good(n)
        BY <1>2, <1>4, <2>2, PlanSame DEF Good, P
      <3> QED
        BY <1>2, <2>1, <2>2, <2>4, <3>1 DEF Applied
    <2>8. NoRow' = NoRow /\ Going' = Going
      BY DEF NoRow, NoHash, NoIds, Going
    <2>9. Declared(n) => \/ todo'[P(n)] = <<>>
                         \/ todo'[P(n)] = <<"delete", "dropCompanion">> /\ Change(n) = "replace"
      BY <2>5, <2>6
    <2>10. ~Declared(n) => \/ todo'[P(n)] \in Going
                           \/ todo'[P(n)] = <<>> /\ row[P(n)] = NoRow
      BY <2>4, <2>5, <2>6 DEF Going
    <2>11. todo'[C(n)] = <<>> \/ (todo'[C(n)] \in Going /\ prior[C(n)].status # "none")
      BY <2>5, <2>6 DEF Going
    <2>12. \/ row[C(n)] = NoRow \/ todo'[C(n)] # <<>>
           \/ Declared(n) /\ todo'[P(n)] # <<>>
      BY <2>4, <2>5, <2>6
    <2> QED
      BY <1>2, <2>1, <2>2, <2>7, <2>8, <2>9, <2>10, <2>11, <2>12 DEF Destroying
  <1>7. Tasks'
    BY <1>2, <1>6 DEF Tasks
  <1> QED
    BY <1>2, <1>3, <1>5, <1>7, PhaseStep DEF Working

-----------------------------------------------------------------------------
(***************************************************************************)
(* The steps of the tasks.                                                 *)
(***************************************************************************)
LEMMA WorkStep ==
  ASSUME ExecInv, phase \in Working, RowsKept,
         UNCHANGED <<phase, plan, deleteIds, inflight, lost, rolling, count>>,
         todo' \in [Ids -> Seq(ProviderSteps \cup StateWrites)],
         outs' \in [Nodes -> Nat], phase = "predelete" => outs' = outs,
         deferred' \subseteq Nodes, \A n \in deferred' : Change(n) = "replace",
         saga' = saga \/ \E e \in Undo : saga' = Append(saga, e) /\ Recordable(e)',
         Tasks'
  PROVE  ExecInv'
  <1>1. TypeOK /\ Aimed /\ Resolved /\ Planned /\ Sagas
    BY DEF ExecInv
  <1>2. /\ UNCHANGED <<config, prior, predeleted, there>>
        /\ UNCHANGED <<at, undo, seen, recreated, undone>>
        /\ UNCHANGED <<project, runs, faults, unmarked, aimed>>
    BY DEF plan, rolling, count
  <1>3. phase # "rollback" /\ phase \notin {"idle", "start"}
    BY DEF Working
  <1>4. ASSUME NEW k \in DOMAIN saga, NEW e, e = saga[k] PROVE e \in Undo /\ Recordable(e)'
    <2>1. e \in Undo /\ Recordable(e)
      BY <1>1, <1>4 DEF TypeOK, Sagas
    <2> QED
      BY <1>2, <2>1, SagasSame
  <1>5. /\ saga' \in Seq(Undo) /\ Len(saga) \in Nat /\ Len(saga') \in Nat /\ Len(saga') >= Len(saga)
        /\ \A k \in DOMAIN saga' : \A e : e = saga'[k] => Recordable(e)'
    <2>1. CASE saga' = saga
      BY <1>1, <1>4, <2>1 DEF TypeOK
    <2>2. ASSUME NEW u \in Undo, saga' = Append(saga, u), Recordable(u)'
          PROVE  /\ saga' \in Seq(Undo) /\ Len(saga) \in Nat /\ Len(saga') = Len(saga) + 1
                 /\ \A k \in DOMAIN saga' : (k \in DOMAIN saga /\ saga'[k] = saga[k]) \/ saga'[k] = u
      BY <1>1, <2>2 DEF TypeOK
    <2>3. CASE \E u \in Undo : saga' = Append(saga, u) /\ Recordable(u)'
      <3>1. PICK u \in Undo : saga' = Append(saga, u) /\ Recordable(u)'
        BY <2>3
      <3>2. /\ saga' \in Seq(Undo) /\ Len(saga) \in Nat /\ Len(saga') = Len(saga) + 1
            /\ \A k \in DOMAIN saga' : (k \in DOMAIN saga /\ saga'[k] = saga[k]) \/ saga'[k] = u
        BY <2>2, <3>1
      <3>3. ASSUME NEW k \in DOMAIN saga', NEW e, e = saga'[k] PROVE Recordable(e)'
        <4>1. CASE saga'[k] = u
          BY <3>1, <3>3, <4>1
        <4>2. CASE k \in DOMAIN saga /\ saga'[k] = saga[k]
          BY <1>4, <3>3, <4>2
        <4> QED
          BY <3>2, <4>1, <4>2
      <3> QED
        BY <3>2, <3>3
    <2> QED
      BY <2>1, <2>3
  <1>6. Sagas'
    <2> SUFFICES ASSUME NEW k \in DOMAIN saga' PROVE Recordable(saga[k])'
      BY DEF Sagas
    <2>1. PICK e : e = saga'[k]
      OBVIOUS
    <2>2. Recordable(e)'
      BY <1>5, <2>1
    <2> QED
      BY <2>1, <2>2
  <1>7. TypeOK'
    <2>1. at' \in 0..Len(saga')
      BY <1>1, <1>2, <1>5 DEF TypeOK
    <2> QED
      BY <1>1, <1>2, <1>5, <2>1 DEF TypeOK, RowsKept
  <1>8. Dropped' = Dropped /\ DestroyedHere' = DestroyedHere
        /\ \A n \in Nodes : Change(n)' = Change(n)
    BY <1>2, PlanSame
  <1>9. Planned'
    BY <1>1, <1>2, <1>8 DEF Planned
  <1>10. Resolved'
    BY <1>1, <1>2, <1>3 DEF Resolved, P
  <1>11. Aimed' /\ Between' /\ Starting' /\ Undoes' /\ Converged'
    BY <1>1, <1>2, <1>3 DEF Aimed, Between, Starting, Undoes, Converged
  <1> QED
    BY <1>6, <1>7, <1>9, <1>10, <1>11 DEF ExecInv, RowsKept

\* i's task has done its next step.
LEMMA Advanced ==
  ASSUME TypeOK, NEW i \in Ids, Advance(i), todo[i] # <<>>
  PROVE  /\ todo' \in [Ids -> Seq(ProviderSteps \cup StateWrites)]
         /\ todo'[i] = Tail(todo[i])
         /\ \A j \in Ids : j # i => todo'[j] = todo[j]
         /\ UNCHANGED <<phase, inflight, lost>>
  <1>1. todo \in [Ids -> Seq(ProviderSteps \cup StateWrites)]
    BY DEF TypeOK
  <1>2. Tail(todo[i]) \in Seq(ProviderSteps \cup StateWrites)
    BY <1>1
  <1> QED
    BY <1>1, <1>2 DEF Advance

\* Phase 0.
LEMMA PredeleteWork ==
  ASSUME ExecInv, phase = "predelete", NEW i \in Ids, Advance(i), todo[i] # <<>>,
         UNCHANGED <<project, config, prior, predeleted, deleteIds>>,
         \A j \in Ids : j # i => row'[j] = row[j],
         Head(todo[i]) = "delete" => row'[i] = row[i],
         Head(todo[i]) = "forget" => row'[i] = NoRow,
         Head(todo[i]) = "ahead" => row'[i].status = "creating"
  PROVE  Tasks'
  <1>1. TypeOK /\ Tasks
    BY DEF ExecInv
  <1>2. /\ todo'[i] = Tail(todo[i]) /\ phase' = "predelete"
        /\ \A j \in Ids : j # i => todo'[j] = todo[j]
    BY <1>1, Advanced
  <1>3. ASSUME NEW n \in Nodes PROVE Predeleting(n)'
    <2>1. Predeleting(n)
      BY <1>1 DEF Tasks
    <2>2. /\ P(n) \in Ids /\ C(n) \in Ids /\ P(n)' = P(n) /\ C(n)' = C(n) /\ P(n) # C(n)
          /\ Change(n)' = Change(n) /\ NoRow' = NoRow /\ Going' = Going
      BY IdFacts, PlanSame DEF P, C, NoRow, NoHash, NoIds, Going
    <2>3. IF P(n) \in predeleted
          THEN IF Change(n) = "delete"
               THEN todo'[P(n)] \in Going \/ (todo'[P(n)] = <<>> /\ row'[P(n)] = NoRow)
               ELSE \/ todo'[P(n)] = <<"ahead", "delete">>
                    \/ todo'[P(n)] \in {<<"delete">>, <<>>} /\ row'[P(n)].status = "creating"
          ELSE /\ todo'[P(n)] = <<>> /\ row'[P(n)] = prior[P(n)]
               /\ Change(n) = "delete" => P(n) \in deleteIds
      <3>1. CASE i # P(n)
        BY <1>2, <2>1, <2>2, <3>1 DEF Predeleting
      <3>2. CASE i = P(n)
        BY <1>2, <2>1, <2>2, <3>2, TaskSteps DEF Predeleting, Going
      <3> QED
        BY <3>1, <3>2
    <2>4. IF C(n) \in predeleted
          THEN todo'[C(n)] \in Going \/ (todo'[C(n)] = <<>> /\ row'[C(n)] = NoRow)
          ELSE /\ todo'[C(n)] = <<>> /\ row'[C(n)] = prior[C(n)]
               /\ prior[C(n)].status # "none" => C(n) \in deleteIds
      <3>1. CASE i # C(n)
        BY <1>2, <2>1, <2>2, <3>1 DEF Predeleting
      <3>2. CASE i = C(n)
        BY <1>2, <2>1, <2>2, <3>2, TaskSteps DEF Predeleting, Going
      <3> QED
        BY <3>1, <3>2
    <2> QED
      BY <2>2, <2>3, <2>4 DEF Predeleting
  <1> QED
    BY <1>2, <1>3 DEF Tasks

\* Phase 2.
LEMMA DestroyWork ==
  ASSUME ExecInv, phase = "destroy", NEW i \in Ids, Advance(i), todo[i] # <<>>,
         UNCHANGED <<project, config, prior, outs>>,
         Head(todo[i]) = "delete" => row' = row,
         Head(todo[i]) = "forget" => row' = [row EXCEPT ![i] = NoRow],
         Head(todo[i]) = "dropCompanion" => row' = [row EXCEPT ![C(i[1])] = NoRow]
  PROVE  Tasks'
  <1>1. TypeOK /\ Tasks /\ row \in [Ids -> Row]
    BY DEF ExecInv, TypeOK
  <1>2. /\ todo'[i] = Tail(todo[i]) /\ phase' = "destroy"
        /\ \A j \in Ids : j # i => todo'[j] = todo[j]
    BY <1>1, Advanced
  <1>3. PICK k : k \in Nodes /\ k = i[1] /\ (i = P(k) \/ i = C(k))
    BY IdFacts
  <1>4. Destroying(k)
    BY <1>1, <1>3 DEF Tasks
  <1>5. /\ i = P(k) /\ Declared(k) => Head(todo[i]) \in {"delete", "dropCompanion"}
        /\ i = P(k) /\ ~Declared(k) => Head(todo[i]) \in {"delete", "forget"}
        /\ i = C(k) => Head(todo[i]) \in {"delete", "forget"}
    BY <1>4, TaskSteps DEF Destroying, Going
  <1>6. ASSUME NEW n \in Nodes PROVE Destroying(n)'
    <2>1. Destroying(n)
      BY <1>1 DEF Tasks
    <2>2. /\ P(n) \in Ids /\ C(n) \in Ids /\ P(n)' = P(n) /\ C(n)' = C(n) /\ P(n) # C(n)
          /\ P(n) # C(k) /\ C(n) # P(k) /\ (C(n) = C(k) => n = k) /\ (P(n) = P(k) => n = k)
          /\ Change(n)' = Change(n) /\ Declared(n)' = Declared(n) /\ Deps' = Deps
          /\ NoRow' = NoRow /\ Going' = Going
      BY <1>3, IdFacts, PlanSame DEF P, C, NoRow, NoHash, NoIds, Going
    <2>3. Declared(n) => row'[P(n)] = row[P(n)]
      BY <1>1, <1>3, <1>5, <2>2
    <2>4. Declared(n) => Applied(n)'
      <3> SUFFICES ASSUME Declared(n) PROVE Applied(n)'
        OBVIOUS
      <3>1. Good(n)' = Good(n)
        BY <2>2, <2>3, PlanSame DEF Good
      <3> QED
        BY <1>2, <2>1, <2>2, <2>3, <3>1 DEF Applied, Destroying
    <2>5. Declared(n) => \/ todo'[P(n)] = <<>>
                         \/ todo'[P(n)] \in {<<"delete", "dropCompanion">>, <<"dropCompanion">>}
                            /\ Change(n) = "replace"
      <3>1. CASE i = P(n)
        BY <1>2, <2>1, <3>1, TaskSteps DEF Destroying
      <3>2. CASE i # P(n)
        BY <1>2, <2>1, <2>2, <3>2 DEF Destroying
      <3> QED
        BY <3>1, <3>2
    <2>6. ~Declared(n) => \/ todo'[P(n)] \in Going
                          \/ todo'[P(n)] = <<>> /\ row'[P(n)] = NoRow
      <3>1. CASE i = P(n)
        BY <1>1, <1>2, <1>3, <2>1, <2>2, <3>1, TaskSteps DEF Destroying, Going
      <3>2. CASE i # P(n)
        <4>1. row'[P(n)] = row[P(n)]
          BY <1>1, <1>3, <1>5, <2>2, <3>2
        <4> QED
          BY <1>2, <2>1, <2>2, <3>2, <4>1 DEF Destroying
      <3> QED
        BY <3>1, <3>2
    <2>7. todo'[C(n)] = <<>> \/ (todo'[C(n)] \in Going /\ prior[C(n)].status # "none")
      <3>1. CASE i = C(n)
        <4>1. todo[C(n)] \in Going /\ prior[C(n)].status # "none"
          BY <2>1, <3>1 DEF Destroying
        <4> QED
          BY <1>2, <3>1, <4>1, TaskSteps DEF Going
      <3>2. CASE i # C(n)
        BY <1>2, <2>1, <2>2, <3>2 DEF Destroying
      <3> QED
        BY <3>1, <3>2
    <2>8. \/ row'[C(n)] = NoRow \/ todo'[C(n)] # <<>>
          \/ Declared(n) /\ todo'[P(n)] # <<>>
      <3>1. row'[C(n)] = row[C(n)] \/ row'[C(n)] = NoRow
        BY <1>1, <1>3, <1>5, <2>2
      <3>2. i = C(n) => todo'[C(n)] # <<>> \/ row'[C(n)] = NoRow
        <4> SUFFICES ASSUME i = C(n) PROVE todo'[i] # <<>> \/ row'[C(n)] = NoRow
          OBVIOUS
        <4>1. todo[i] \in Going
          BY <2>1 DEF Destroying
        <4>2. CASE todo[i] = <<"delete", "forget">>
          BY <1>2, <4>2, TaskSteps
        <4>3. CASE todo[i] = <<"forget">>
          <5>1. row' = [row EXCEPT ![i] = NoRow]
            BY <4>3, TaskSteps
          <5> QED
            BY <1>1, <2>2, <5>1
        <4> QED
          BY <4>1, <4>2, <4>3 DEF Going
      <3>3. i = P(n) /\ Declared(n) => todo'[P(n)] # <<>> \/ row'[C(n)] = NoRow
        BY <1>1, <1>2, <1>3, <2>1, <2>2, TaskSteps DEF Destroying
      <3> QED
        BY <1>2, <2>1, <2>2, <3>1, <3>2, <3>3 DEF Destroying
    <2> QED
      BY <1>2, <2>2, <2>4, <2>5, <2>6, <2>7, <2>8 DEF Destroying
  <1> QED
    BY <1>2, <1>6 DEF Tasks

\* Phase 1: what a node's own step leaves of the others.
OthersKept(n) ==
    /\ \A m \in Nodes : m # n => /\ row'[P(m)] = row[P(m)] /\ row'[C(m)] = row[C(m)]
                                 /\ outs'[m] = outs[m] /\ (m \in deferred => m \in deferred')
                                 /\ \A p : Exists(m, p) => Exists(m, p)'
    /\ outs'[n] = outs[n] \/ Change(n) \notin {"noop", "update"}
    /\ UNCHANGED <<project, config, prior, deleteIds>>

LEMMA OthersForward ==
  ASSUME ExecInv, phase = "forward", NEW n \in Nodes, todo[P(n)] # <<>>, Advance(P(n)),
         OthersKept(n), Grows, NEW m \in Nodes, m # n
  PROVE  Forwarding(m)'
  <1>1. TypeOK /\ Tasks
    BY DEF ExecInv
  <1>2. /\ P(n) \in Ids /\ P(m) \in Ids /\ C(m) \in Ids /\ P(m)' = P(m) /\ C(m)' = C(m)
        /\ P(m) # P(n) /\ C(m) # P(n)
    BY IdFacts DEF P, C
  <1>3. /\ todo'[P(n)] = Tail(todo[P(n)]) /\ phase' = "forward"
        /\ \A j \in Ids : j # P(n) => todo'[j] = todo[j]
    BY <1>1, <1>2, Advanced
  <1>4. UNCHANGED <<project, config, prior, deleteIds>>
    BY DEF OthersKept
  <1>5. /\ Change(m)' = Change(m) /\ Declared(m)' = Declared(m) /\ Deferring(m)' = Deferring(m)
        /\ HashOf(config, m)' = HashOf(config, m)
        /\ Deps' = Deps /\ \A d \in Nodes : Change(d)' = Change(d)
    BY <1>4, PlanSame
  <1>6. Forwarding(m)
    BY <1>1 DEF Tasks
  <1>7. /\ row'[P(m)] = row[P(m)] /\ row'[C(m)] = row[C(m)] /\ outs'[m] = outs[m]
        /\ (m \in deferred => m \in deferred')
    BY DEF OthersKept
  <1>8. Applied(m) /\ todo[P(m)] = <<>> => Applied(m)'
    <2> SUFFICES ASSUME Applied(m) PROVE Applied(m)'
      OBVIOUS
    <2>1. Good(m)' = Good(m)
      BY <1>2, <1>4, <1>5, <1>7 DEF Good
    <2>2. ASSUME NEW d \in Deps[m]
          PROVE  /\ row'[P(m)].saw[d] = outs'[d]
                 /\ todo'[P(d)] = <<>> \/ Change(d)' \in {"noop", "update"}
      <3>1. d \in Nodes /\ P(d) \in Ids
        BY <1>1, DepsFacts, IdFacts
      <3>2. row[P(m)].saw[d] = outs[d] /\ (todo[P(d)] = <<>> \/ Change(d) \in {"noop", "update"})
        BY DEF Applied
      <3>3. CASE d = n
        BY <1>5, <1>7, <3>1, <3>2, <3>3 DEF OthersKept
      <3>4. CASE d # n
        <4>1. P(d) # P(n)
          BY <3>1, <3>4, IdFacts
        <4> QED
          BY <1>3, <1>5, <1>7, <3>1, <3>2, <3>4, <4>1 DEF OthersKept
      <3> QED
        BY <3>3, <3>4
    <2>3. \A d : P(d)' = P(d)
      BY DEF P
    <2> QED
      BY <1>2, <1>5, <1>7, <2>1, <2>2, <2>3 DEF Applied
  <1>9. Made(m) => Made(m)'
    <2>1. PICK p, w : p = outs[m] /\ w = config[m]
      OBVIOUS
    <2>2. p = outs'[m] /\ w = config'[m]
      BY <1>4, <1>7, <2>1
    <2>3. Matches(m, p, w) /\ Exists(m, p) => Matches(m, p, w)' /\ Exists(m, p)'
      BY DEF Grows, OthersKept
    <2> QED
      BY <2>1, <2>2, <2>3 DEF Made
  <1>10. NoRow' = NoRow /\ Companions' = Companions
    BY DEF NoRow, NoHash, NoIds, Companions
  <1>11. todo'[P(m)] = todo[P(m)] /\ todo'[C(m)] = todo[C(m)]
    BY <1>2, <1>3
  <1> QED
    BY <1>2, <1>4, <1>5, <1>6, <1>7, <1>8, <1>9, <1>10, <1>11 DEF Forwarding

\* Phase 1: where the node's own task may get to.
Continues(n) ==
    LET t == todo'[P(n)]
    IN \/ t = <<>> /\ Applied(n)'
       \/ t = <<"persist">> /\ Change(n) \in {"create", "update", "replace"} /\ Made(n)'
       \/ /\ t \in {<<"create", "persist">>, <<"delete", "create", "persist">>}
          /\ row'[P(n)].status = "creating" /\ Change(n) \in {"create", "replace"}
          /\ t # <<"create", "persist">> => Change(n) = "replace"
       \/ t = <<"ahead", "create", "persist">> /\ Change(n) \in {"create", "replace"}
       \/ /\ t \in Companions /\ Deferring(n)
          /\ t # <<"companion", "ahead", "create", "persist">> => prior[C(n)].status # "none"

LEMMA OwnForward ==
  ASSUME ExecInv, phase = "forward", NEW n \in Nodes, todo[P(n)] # <<>>, Advance(P(n)),
         UNCHANGED <<project, config, prior, deleteIds>>,
         Declared(n), n \in deferred => n \in deferred',
         Change(n) \in {"noop", "update"} => outs'[n] = outs[n],
         Continues(n),
         \/ row'[C(n)] = row[C(n)] /\ (todo'[P(n)] = <<"persist">> /\ Deferring(n) => n \in deferred')
         \/ Deferring(n) /\ todo'[P(n)] \notin {<<>>, <<"persist">>}
  PROVE  Forwarding(n)'
  <1>1. TypeOK /\ Tasks
    BY DEF ExecInv
  <1>2. P(n) \in Ids /\ C(n) \in Ids /\ P(n)' = P(n) /\ C(n)' = C(n) /\ C(n) # P(n)
    BY IdFacts DEF P, C
  <1>3. todo'[P(n)] = Tail(todo[P(n)]) /\ todo'[C(n)] = todo[C(n)]
    BY <1>1, <1>2, Advanced
  <1>4. /\ Change(n)' = Change(n) /\ Declared(n)' = Declared(n) /\ Deferring(n)' = Deferring(n)
    BY PlanSame
  <1>5. Forwarding(n)
    BY <1>1 DEF Tasks
  <1>6. NoRow' = NoRow /\ Companions' = Companions
    BY DEF NoRow, NoHash, NoIds, Companions
  <1>7. todo'[P(n)] = <<>> => todo[P(n)] = <<"persist">>
    <2>1. todo[P(n)] \in {<<"persist">>, <<"update", "persist">>, <<"create", "persist">>,
                          <<"delete", "create", "persist">>, <<"ahead", "create", "persist">>,
                          <<"ahead", "delete", "create", "persist">>} \cup Companions
      BY <1>5 DEF Forwarding
    <2> QED
      BY <1>3, <2>1, TaskSteps DEF Companions
  <1>8. \/ row'[C(n)] = NoRow \/ C(n) \in deleteIds \/ n \in deferred'
        \/ Deferring(n) /\ todo'[P(n)] \notin {<<>>, <<"persist">>}
    <2>1. \/ row[C(n)] = NoRow \/ C(n) \in deleteIds \/ n \in deferred
          \/ Deferring(n) /\ todo[P(n)] \notin {<<>>, <<"persist">>}
      BY <1>5 DEF Forwarding
    <2> QED
      BY <1>7, <2>1
  <1>9. Change(n) \in {"noop", "update"} => outs'[n] = prior[P(n)].phys
    BY <1>5 DEF Forwarding
  <1> QED
    BY <1>2, <1>3, <1>4, <1>5, <1>6, <1>8, <1>9 DEF Forwarding, Continues

\* What the next step of a task says of where the task stands.
LEMMA Heads ==
  ASSUME ExecInv, phase \in Working, NEW i \in Ids, todo[i] # <<>>
  PROVE  /\ phase = "predelete" => Head(todo[i]) \in {"delete", "forget", "ahead"}
         /\ phase = "destroy" => Head(todo[i]) \in {"delete", "forget", "dropCompanion"}
         /\ phase = "predelete" => i \in predeleted
  <1>1. Tasks
    BY DEF ExecInv
  <1>2. PICK n : n \in Nodes /\ n = i[1] /\ (i = P(n) \/ i = C(n))
    BY IdFacts
  <1>3. CASE phase = "predelete"
    <2>1. Predeleting(n)
      BY <1>1, <1>2, <1>3 DEF Tasks
    <2> QED
      BY <1>2, <1>3, <2>1, TaskSteps DEF Predeleting, Going
  <1>4. CASE phase = "destroy"
    <2>1. Destroying(n)
      BY <1>1, <1>2, <1>4 DEF Tasks
    <2>2. todo[i] \in Going \cup {<<"delete", "dropCompanion">>, <<"dropCompanion">>}
      BY <1>2, <2>1 DEF Destroying
    <2> QED
      BY <1>4, <2>2, TaskSteps DEF Going
  <1> QED
    BY <1>3, <1>4

LEMMA ForwardHeads ==
  ASSUME ExecInv, phase = "forward", NEW i \in Ids, todo[i] # <<>>, NEW n, n = i[1]
  PROVE  /\ n \in Nodes /\ i = P(n) /\ Declared(n)
         /\ \/ todo[i] = <<"persist">> /\ Made(n) /\ Change(n) \in {"create", "update", "replace"}
            \/ todo[i] = <<"update", "persist">> /\ Change(n) = "update"
            \/ /\ todo[i] \in {<<"create", "persist">>, <<"delete", "create", "persist">>}
               /\ row[P(n)].status = "creating" /\ Change(n) \in {"create", "replace"}
               /\ todo[i] # <<"create", "persist">> => Change(n) = "replace"
            \/ todo[i] = <<"ahead", "create", "persist">> /\ Change(n) \in {"create", "replace"}
            \/ todo[i] = <<"ahead", "delete", "create", "persist">> /\ Change(n) = "replace"
            \/ /\ todo[i] \in Companions /\ Deferring(n)
               /\ todo[i] # <<"companion", "ahead", "create", "persist">> => prior[C(n)].status # "none"
         /\ Change(n) \in {"noop", "update"} => outs[n] = prior[P(n)].phys
         /\ \/ row[C(n)] = NoRow \/ C(n) \in deleteIds \/ n \in deferred
            \/ Deferring(n) /\ todo[i] \notin {<<>>, <<"persist">>}
  <1>1. Tasks
    BY DEF ExecInv
  <1>2. n \in Nodes /\ (i = P(n) \/ i = C(n))
    BY IdFacts
  <1>3. Forwarding(n)
    BY <1>1, <1>2 DEF Tasks
  <1>4. i = P(n) /\ Declared(n)
    BY <1>2, <1>3 DEF Forwarding
  <1> QED
    BY <1>2, <1>3, <1>4 DEF Forwarding

\* In the forward pass only the node's own rows, resources and id change.
LEMMA ForwardTasks ==
  ASSUME ExecInv, phase = "forward", NEW n \in Nodes, todo[P(n)] # <<>>, Advance(P(n)),
         OthersKept(n), Grows, Forwarding(n)'
  PROVE  Tasks'
  <1>1. TypeOK /\ P(n) \in Ids
    BY IdFacts DEF ExecInv
  <1>2. phase' = "forward"
    BY <1>1, Advanced
  <1>3. \A m \in Nodes : Forwarding(m)'
    <2> SUFFICES ASSUME NEW m \in Nodes, m # n PROVE Forwarding(m)'
      OBVIOUS
    <2> QED
      BY OthersForward
  <1> QED
    BY <1>2, <1>3 DEF Tasks

LEMMA CreateStep ==
  ASSUME ExecInv, NEW n \in Nodes, Create(n) PROVE ExecInv'
  <1>1. TypeOK /\ Minted /\ Described /\ Safe /\ Planned /\ Tasks
    BY DEF ExecInv
  <1>2. PICK id, kind, i : /\ id = CreatedId(n, config[n]) /\ i = P(n)
                           /\ kind = (IF Change(n) = "create" \/ P(n) \in predeleted THEN "create"
                                      ELSE IF CreateFirst(n) THEN "cbd" ELSE "replace")
    OBVIOUS
  <1>3. /\ phase \in Working /\ todo[i] # <<>> /\ Head(todo[i]) = "create"
        /\ MakeLive(n, config[n])
        /\ outs' = [outs EXCEPT ![n] = id]
        /\ deferred' = (IF kind = "cbd" THEN deferred \cup {n} ELSE deferred)
        /\ Recorded(n, kind, id)
        /\ Advance(i)
        /\ UNCHANGED <<row, plan, deleteIds, rolling, count>>
    BY <1>2 DEF Create, Awaits, Ready
  <1>4. i \in Ids /\ P(n) \in Ids /\ i[1] = n /\ \A m \in Nodes : m # n => P(m) # i /\ C(m) # i
    BY <1>2, IdFacts
  <1>5. /\ UNCHANGED <<row, config, prior, predeleted, deleteIds, seen, project>>
        /\ Resumed' => Resumed
    BY <1>3 DEF plan, rolling, count, Resumed
  <1>6. phase = "forward"
    BY <1>3, <1>4, Heads DEF Working
  <1>7. /\ todo[i] = <<"create", "persist">> /\ Declared(n)
        /\ row[P(n)].status = "creating" /\ Change(n) \in {"create", "replace"}
        /\ \/ row[C(n)] = NoRow \/ C(n) \in deleteIds \/ n \in deferred
           \/ Deferring(n)
    BY <1>2, <1>3, <1>4, <1>6, ForwardHeads, TaskSteps DEF Companions
  <1>8. Stopping(i) /\ config[n] \in Names
    BY <1>1, <1>3, <1>4, <1>7, Stops, HashFacts
  <1>9. MaybeCalled(i)
    BY <1>3, <1>4 DEF MaybeCalled
  <1>10. RowsKept /\ \A m \in Nodes : \A p : m # n /\ Exists(m, p) => Exists(m, p)'
    BY <1>1, <1>4, <1>5, <1>8, <1>9, CallKept, CallStep
  <1>11. PICK name : name = config[n]
    OBVIOUS
  <1>12. id \in Nat /\ id # 0 /\ Matches(n, id, name)' /\ Exists(n, id)'
    BY <1>1, <1>2, <1>3, <1>8, <1>11, MakeStep
  <1>13. outs' \in [Nodes -> Nat] /\ outs'[n] = id /\ \A m \in Nodes : m # n => outs'[m] = outs[m]
    BY <1>1, <1>3, <1>12 DEF TypeOK
  <1>14. Made(n)'
    <2>1. id = outs[n]' /\ name = config[n]'
      BY <1>5, <1>11, <1>13
    <2> QED
      BY <1>12, <2>1 DEF Made
  <1>15. /\ todo' \in [Ids -> Seq(ProviderSteps \cup StateWrites)]
         /\ todo'[i] = <<"persist">> /\ UNCHANGED <<phase, inflight, lost>>
    BY <1>1, <1>3, <1>4, <1>7, Advanced, TaskSteps
  <1>16. deferred' \subseteq Nodes /\ deferred \subseteq deferred'
         /\ \A m \in deferred' : Change(m) = "replace"
    <2>1. kind = "cbd" => Change(n) = "replace"
      BY <1>2, <1>7
    <2>2. deferred \subseteq Nodes /\ \A m \in deferred : Change(m) = "replace"
      BY <1>1, <1>3 DEF TypeOK, Planned
    <2> QED
      BY <1>3, <2>1, <2>2
  <1>17. Deferring(n) => n \in deferred'
    <2>1. P(n) \in predeleted => Change(n) = "delete" \/ ~CreateFirst(n)
      BY <1>1, <1>3, DestroyFacts DEF Planned
    <2> QED
      BY <1>2, <1>3, <1>7, <2>1 DEF Deferring
  <1>18. Forwarding(n)'
    <2>1. Continues(n)
      BY <1>2, <1>7, <1>14, <1>15 DEF Continues
    <2> QED
      BY <1>2, <1>3, <1>5, <1>6, <1>7, <1>16, <1>17, <2>1, OwnForward
  <1>19. OthersKept(n)
    BY <1>4, <1>5, <1>7, <1>10, <1>13, <1>16 DEF OthersKept
  <1>20. Tasks'
    BY <1>2, <1>3, <1>6, <1>10, <1>18, <1>19, ForwardTasks DEF RowsKept
  <1>21. saga' = saga \/ \E e \in Undo : saga' = Append(saga, e) /\ Recordable(e)'
    <2>1. PICK e : e = [node |-> n, kind |-> kind, phys |-> id, saw |-> Saw(n)]
      OBVIOUS
    <2>2. Saw(n) \in [Nodes -> Nat]
      BY <1>1 DEF TypeOK, Saw
    <2>3. kind \in {"create", "replace", "cbd"} /\ (kind # "create" => Change(n) = "replace")
      BY <1>2, <1>7
    <2>4. e \in Undo /\ e.node = n /\ e.kind = kind
      BY <1>12, <2>1, <2>2, <2>3 DEF Undo
    <2>5. Recordable(e)'
      <3>1. Declared(n)' = Declared(n) /\ Change(n)' = Change(n)
        BY <1>5, PlanSame
      <3>2. P(n)' = P(n)
        BY DEF P
      <3> QED
        BY <1>5, <1>6, <1>7, <1>15, <2>3, <2>4, <3>1, <3>2 DEF Recordable
    <2> QED
      BY <1>3, <2>1, <2>4, <2>5 DEF Recorded
  <1> QED
    BY <1>3, <1>6, <1>10, <1>13, <1>15, <1>16, <1>20, <1>21, WorkStep

LEMMA UpdateStep ==
  ASSUME ExecInv, NEW n \in Nodes, Update(n) PROVE ExecInv'
  <1>1. TypeOK /\ Minted /\ Described /\ Safe /\ Planned /\ Tasks
    BY DEF ExecInv
  <1>2. PICK i : i = P(n)
    OBVIOUS
  <1>3. /\ phase \in Working /\ todo[i] # <<>> /\ Head(todo[i]) = "update"
        /\ Exists(n, prior[P(n)].phys)
        /\ Recorded(n, "update", prior[P(n)].phys)
        /\ Advance(i)
        /\ UNCHANGED <<row, live, minted, plan, outs, deleteIds, deferred, rolling, count>>
    BY <1>2 DEF Update, Awaits, Ready
  <1>4. i \in Ids /\ P(n) \in Ids /\ i[1] = n
    BY <1>2, IdFacts
  <1>5. /\ UNCHANGED <<row, live, minted, outs, config, prior, predeleted, deleteIds, deferred, seen, project>>
        /\ Resumed' => Resumed
    BY <1>3 DEF plan, rolling, count, Resumed
  <1>6. phase = "forward"
    BY <1>3, <1>4, Heads DEF Working
  <1>7. todo[i] = <<"update", "persist">> /\ Declared(n) /\ Change(n) = "update"
        /\ outs[n] = prior[P(n)].phys
    BY <1>2, <1>3, <1>4, <1>6, ForwardHeads, TaskSteps DEF Companions
  <1>8. RowsKept
    BY <1>5, SameRows
  <1>9. Made(n)'
    <2>1. prior[P(n)].name = config[n] /\ Matches(n, prior[P(n)].phys, prior[P(n)].name)
      BY <1>1, <1>7, PlanFacts DEF Described, Describes
    <2>2. Made(n)
      BY <1>3, <1>7, <2>1 DEF Made
    <2> QED
      BY <1>5, <2>2 DEF Made, Matches, Exists
  <1>10. /\ todo' \in [Ids -> Seq(ProviderSteps \cup StateWrites)]
         /\ todo'[i] = <<"persist">> /\ UNCHANGED <<phase, inflight, lost>>
    BY <1>1, <1>3, <1>4, <1>7, Advanced, TaskSteps
  <1>11. Forwarding(n)'
    <2>1. ~Deferring(n)
      BY <1>7 DEF Deferring
    <2>2. Continues(n)
      BY <1>2, <1>7, <1>9, <1>10 DEF Continues
    <2> QED
      BY <1>2, <1>3, <1>5, <1>6, <1>7, <2>1, <2>2, OwnForward
  <1>12. OthersKept(n)
    BY <1>5 DEF OthersKept, Exists
  <1>13. Tasks'
    BY <1>2, <1>3, <1>6, <1>8, <1>11, <1>12, ForwardTasks DEF RowsKept
  <1>14. saga' = saga \/ \E e \in Undo : saga' = Append(saga, e) /\ Recordable(e)'
    <2>1. PICK e : e = [node |-> n, kind |-> "update", phys |-> prior[P(n)].phys, saw |-> Saw(n)]
      OBVIOUS
    <2>2. Saw(n) \in [Nodes -> Nat] /\ prior[P(n)].phys \in Nat
      BY <1>1, <1>4 DEF TypeOK, Saw, Row
    <2>3. e \in Undo /\ e.node = n /\ e.kind = "update"
      BY <2>1, <2>2 DEF Undo
    <2>4. Recordable(e)'
      <3>1. Declared(n)' = Declared(n)
        BY <1>5, PlanSame
      <3> QED
        BY <1>7, <2>3, <3>1 DEF Recordable
    <2> QED
      BY <1>3, <2>1, <2>3, <2>4 DEF Recorded
  <1>15. outs' \in [Nodes -> Nat] /\ deferred' \subseteq Nodes
         /\ \A m \in deferred' : Change(m) = "replace"
    BY <1>1, <1>3, <1>5 DEF TypeOK, Planned
  <1> QED
    BY <1>3, <1>6, <1>8, <1>10, <1>13, <1>14, <1>15, WorkStep

LEMMA DeleteStep ==
  ASSUME ExecInv, NEW i \in Ids, Delete(i) PROVE ExecInv'
  <1>1. TypeOK /\ Minted /\ Described /\ Safe /\ Planned /\ Tasks
    BY DEF ExecInv
  <1>2. PICK n : n \in Nodes /\ n = i[1] /\ (i = P(n) \/ i = C(n)) /\ P(n) # C(n)
    BY IdFacts
  <1>3. /\ phase \in Working /\ todo[i] # <<>> /\ Head(todo[i]) = "delete"
        /\ Remove(n, prior[i])
        /\ IF phase = "predelete" /\ i \notin Dropped THEN Recorded(n, "delete", 0)
           ELSE UNCHANGED saga
        /\ Advance(i)
        /\ UNCHANGED <<row, plan, outs, deleteIds, deferred, rolling, count>>
    BY <1>2 DEF Delete, Awaits, Ready
  <1>4. /\ UNCHANGED <<row, outs, config, prior, predeleted, deleteIds, deferred, seen, project>>
        /\ Resumed' => Resumed
    BY <1>3 DEF plan, rolling, count, Resumed
  <1>5. Stopping(i)
    BY <1>1, <1>3, Stops
  <1>6. MaybeCalled(i)
    BY <1>2, <1>3 DEF MaybeCalled
  <1>7. RowsKept /\ \A m \in Nodes : \A p : m # n /\ Exists(m, p) => Exists(m, p)'
    BY <1>1, <1>2, <1>4, <1>5, <1>6, CallKept, CallStep
  <1>8. /\ todo' \in [Ids -> Seq(ProviderSteps \cup StateWrites)]
        /\ todo'[i] = Tail(todo[i]) /\ UNCHANGED <<phase, inflight, lost>>
    BY <1>1, <1>3, Advanced
  <1>9. Tasks'
    <2>1. CASE phase = "predelete"
      BY <1>3, <1>4, <2>1, PredeleteWork
    <2>2. CASE phase = "destroy"
      BY <1>3, <1>4, <2>2, DestroyWork
    <2>3. CASE phase = "forward"
      <3>1. /\ i = P(n) /\ Declared(n) /\ todo[i] = <<"delete", "create", "persist">>
            /\ row[P(n)].status = "creating" /\ Change(n) = "replace"
        BY <1>2, <1>3, <2>3, ForwardHeads, TaskSteps DEF Companions
      <3>2. todo'[i] = <<"create", "persist">>
        BY <1>8, <3>1, TaskSteps
      <3>3. Forwarding(n)'
        <4>1. Continues(n)
          BY <1>2, <1>4, <3>1, <3>2 DEF Continues
        <4>2. todo'[i] # <<"persist">>
          BY <3>2, TaskSteps
        <4> QED
          BY <1>2, <1>3, <1>4, <2>3, <3>1, <4>1, <4>2, OwnForward
      <3>4. OthersKept(n)
        BY <1>4, <1>7 DEF OthersKept
      <3> QED
        BY <1>2, <1>3, <1>7, <2>3, <3>1, <3>3, <3>4, ForwardTasks DEF RowsKept
    <2> QED
      BY <1>3, <2>1, <2>2, <2>3 DEF Working
  <1>10. saga' = saga \/ \E e \in Undo : saga' = Append(saga, e) /\ Recordable(e)'
    <2>1. CASE phase = "predelete" /\ i \notin Dropped
      <3>1. PICK e : e = [node |-> n, kind |-> "delete", phys |-> 0, saw |-> Saw(n)]
        OBVIOUS
      <3>2. Saw(n) \in [Nodes -> Nat]
        BY <1>1 DEF TypeOK, Saw
      <3>3. e \in Undo /\ e.node = n /\ e.kind = "delete"
        BY <1>2, <3>1, <3>2 DEF Undo
      <3>4. i \in DestroyedHere
        BY <1>1, <1>3, <2>1, Heads DEF Planned
      <3>5. Change(n) = "replace" /\ Declared(n)
        BY <1>1, <1>2, <2>1, <3>4, DestroyFacts, PlanFacts
      <3>6. Recordable(e)'
        <4>1. Declared(n)' = Declared(n) /\ Change(n)' = Change(n)
          BY <1>2, <1>4, PlanSame
        <4> QED
          BY <3>3, <3>5, <4>1 DEF Recordable
      <3> QED
        BY <1>3, <2>1, <3>1, <3>3, <3>6 DEF Recorded
    <2> QED
      BY <1>3, <2>1
  <1>11. outs' \in [Nodes -> Nat] /\ deferred' \subseteq Nodes
         /\ \A m \in deferred' : Change(m) = "replace"
    BY <1>1, <1>3, <1>4 DEF TypeOK, Planned
  <1> QED
    BY <1>3, <1>4, <1>7, <1>8, <1>9, <1>10, <1>11, WorkStep

LEMMA DeleteLeftStep ==
  ASSUME ExecInv, NEW n \in Nodes, DeleteLeft(n) PROVE ExecInv'
  <1>1. TypeOK /\ Minted /\ Described /\ Safe /\ Planned /\ Tasks
    BY DEF ExecInv
  <1>2. PICK i : i = P(n)
    OBVIOUS
  <1>3. /\ phase \in Working /\ todo[i] # <<>> /\ Head(todo[i]) = "deleteLeft"
        /\ Remove(n, prior[C(n)])
        /\ Advance(i)
        /\ UNCHANGED <<row, plan, work, rolling, count>>
    BY <1>2 DEF DeleteLeft, Awaits, Ready
  <1>4. i \in Ids /\ i[1] = n
    BY <1>2, IdFacts
  <1>5. /\ UNCHANGED <<row, outs, config, prior, predeleted, deleteIds, deferred, saga, seen, project>>
        /\ Resumed' => Resumed
    BY <1>3 DEF plan, work, rolling, count, Resumed
  <1>6. phase = "forward"
    BY <1>3, <1>4, Heads DEF Working
  <1>7. /\ todo[i] = <<"deleteLeft", "forgetLeft", "companion", "ahead", "create", "persist">>
        /\ Declared(n) /\ Deferring(n) /\ prior[C(n)].status # "none"
    BY <1>2, <1>3, <1>4, <1>6, ForwardHeads, TaskSteps DEF Companions
  <1>8. Stopping(i) /\ MaybeCalled(i)
    BY <1>1, <1>3, <1>4, Stops DEF MaybeCalled
  <1>9. RowsKept /\ \A m \in Nodes : \A p : m # n /\ Exists(m, p) => Exists(m, p)'
    BY <1>1, <1>4, <1>5, <1>8, CallKept, CallStep
  <1>10. /\ todo' \in [Ids -> Seq(ProviderSteps \cup StateWrites)]
         /\ todo'[i] = <<"forgetLeft", "companion", "ahead", "create", "persist">>
         /\ UNCHANGED <<phase, inflight, lost>>
    BY <1>1, <1>3, <1>4, <1>7, Advanced, TaskSteps
  <1>11. Forwarding(n)'
    <2>1. Continues(n)
      BY <1>2, <1>7, <1>10 DEF Continues, Companions
    <2>2. todo'[i] # <<"persist">>
      BY <1>10, TaskSteps
    <2> QED
      BY <1>2, <1>3, <1>5, <1>6, <1>7, <2>1, <2>2, OwnForward
  <1>12. OthersKept(n)
    BY <1>5, <1>9 DEF OthersKept
  <1>13. Tasks'
    BY <1>2, <1>3, <1>6, <1>9, <1>11, <1>12, ForwardTasks DEF RowsKept
  <1>14. outs' \in [Nodes -> Nat] /\ deferred' \subseteq Nodes
         /\ \A m \in deferred' : Change(m) = "replace"
    BY <1>1, <1>3, <1>5 DEF TypeOK, Planned
  <1> QED
    BY <1>3, <1>5, <1>6, <1>9, <1>10, <1>13, <1>14, WorkStep

\* Phase 1: a write of the node's own task.
LEMMA ForwardWrite ==
  ASSUME ExecInv, phase = "forward", NEW i \in Ids, NEW step \in StateWrites, Write(i, step)
  PROVE  Tasks'
  <1>1. TypeOK /\ row \in [Ids -> Row] /\ prior \in [Ids -> Row]
    BY DEF ExecInv, TypeOK
  <1>2. PICK n : n = i[1]
    OBVIOUS
  <1>3. /\ todo[i] # <<>> /\ Head(todo[i]) = step
        /\ row' = Written(i, step) /\ Advance(i)
        /\ UNCHANGED <<live, minted, config, prior, predeleted, outs, deleteIds, deferred, project>>
    BY DEF Write, Awaits, Ready, plan, work, count
  <1>4. /\ n \in Nodes /\ i = P(n) /\ Declared(n)
        /\ \/ todo[i] = <<"persist">> /\ Made(n) /\ Change(n) \in {"create", "update", "replace"}
           \/ todo[i] = <<"ahead", "create", "persist">> /\ Change(n) \in {"create", "replace"}
           \/ todo[i] = <<"ahead", "delete", "create", "persist">> /\ Change(n) = "replace"
           \/ todo[i] = <<"forgetLeft", "companion", "ahead", "create", "persist">> /\ Deferring(n)
           \/ todo[i] = <<"companion", "ahead", "create", "persist">> /\ Deferring(n)
    <2>1. Head(todo[i]) \notin {"update", "create", "delete", "deleteLeft"}
      BY <1>3 DEF StateWrites, CheckedWrites
    <2> QED
      BY <1>2, <1>3, <2>1, ForwardHeads, TaskSteps DEF Companions
  <1>5. /\ P(n) \in Ids /\ C(n) \in Ids /\ P(n) # C(n) /\ P(n)' = P(n) /\ C(n)' = C(n)
        /\ \A m \in Nodes : m # n => /\ P(m) \in Ids /\ C(m) \in Ids
                                     /\ P(m) \notin {P(n), C(n)} /\ C(m) \notin {P(n), C(n)}
    BY <1>4, IdFacts DEF P, C
  <1>6. todo'[i] = Tail(todo[i]) /\ phase' = "forward"
    BY <1>1, <1>3, Advanced
  <1>7. Deferring(n) => Change(n) = "replace"
    BY DEF Deferring
  <1> DEFINE new(status, phys) == [status |-> status, hash |-> HashOf(config, n), name |-> config[n],
                                   phys |-> phys, saw |-> Saw(n)]
  <1>8. /\ step = "ahead" => row' = [row EXCEPT ![P(n)] = new("creating", 0)]
        /\ step = "persist" => row' = [row EXCEPT ![P(n)] = new("created", outs[n])]
        /\ step = "companion" => row' = [row EXCEPT ![C(n)] = prior[P(n)]]
        /\ step = "forgetLeft" => row' = [row EXCEPT ![C(n)] = NoRow]
    BY <1>2, <1>3 DEF Written
  <1>9. step \in {"ahead", "persist", "companion", "forgetLeft"}
    BY <1>3, <1>4, TaskSteps
  <1>10. \A m \in Nodes : m # n => row'[P(m)] = row[P(m)] /\ row'[C(m)] = row[C(m)]
    BY <1>1, <1>5, <1>8, <1>9
  <1>11. OthersKept(n)
    BY <1>3, <1>10 DEF OthersKept, Exists
  <1>12. Grows
    BY <1>3 DEF Grows, Matches
  <1>13. Continues(n) /\ (\/ row'[C(n)] = row[C(n)] /\ todo'[i] # <<"persist">>
                          \/ row'[C(n)] = row[C(n)] /\ ~Deferring(n)
                          \/ row'[C(n)] = row[C(n)] /\ n \in deferred
                          \/ Deferring(n) /\ todo'[i] \notin {<<>>, <<"persist">>})
    <2>1. CASE todo[i] = <<"persist">>
      <3>1. step = "persist" /\ todo'[i] = <<>> /\ todo'[i] # <<"persist">>
        BY <1>3, <1>6, <2>1, TaskSteps
      <3>2. /\ row'[P(n)] = new("created", outs[n])
            /\ row'[C(n)] = row[C(n)]
        BY <1>1, <1>5, <1>8, <3>1
      <3>3. /\ row'[P(n)].status = "created" /\ row'[P(n)].name = config[n] /\ row'[P(n)].phys = outs[n]
            /\ row'[P(n)].hash = HashOf(config, n) /\ row'[P(n)].saw = Saw(n)
        BY <3>2
      <3>4. Good(n)'
        BY <1>3, <1>4, <1>5, <3>3, PlanSame DEF Good
      <3>5. ASSUME NEW d \in Deps[n] PROVE row'[P(n)].saw[d] = outs'[d] /\ todo'[P(d)] = <<>>
        <4>1. d \in Nodes /\ P(d) \in Ids
          BY <1>1, <1>4, DepsFacts, IdFacts
        <4>2. todo[P(d)] = <<>>
          <5>1. Ready(i) /\ i[1] = n
            BY <1>2 DEF Write, Awaits
          <5> QED
            BY <5>1 DEF Ready
        <4>3. P(d) # i
          BY <1>3, <4>2
        <4>4. todo'[P(d)] = <<>>
          BY <1>1, <1>3, <4>1, <4>2, <4>3, Advanced
        <4> QED
          BY <1>3, <3>3, <4>1, <4>4 DEF Saw
      <3>6. Deps' = Deps /\ \A d : P(d)' = P(d)
        BY <1>3, PlanSame DEF P
      <3>7. Applied(n)'
        BY <1>3, <1>5, <3>3, <3>4, <3>5, <3>6 DEF Applied
      <3> QED
        BY <1>4, <3>1, <3>2, <3>7 DEF Continues
    <2>2. CASE todo[i] = <<"ahead", "create", "persist">>
      <3>1. step = "ahead" /\ todo'[i] = <<"create", "persist">> /\ todo'[i] # <<"persist">>
        BY <1>3, <1>6, <2>2, TaskSteps
      <3>2. row'[P(n)].status = "creating" /\ row'[C(n)] = row[C(n)]
        BY <1>1, <1>5, <1>8, <3>1
      <3>3. Change(n) \in {"create", "replace"}
        BY <1>4, <2>2, TaskSteps
      <3> QED
        BY <1>4, <3>1, <3>2, <3>3 DEF Continues
    <2>3. CASE todo[i] = <<"ahead", "delete", "create", "persist">>
      <3>1. step = "ahead" /\ todo'[i] = <<"delete", "create", "persist">> /\ todo'[i] # <<"persist">>
        BY <1>3, <1>6, <2>3, TaskSteps
      <3>2. row'[P(n)].status = "creating" /\ row'[C(n)] = row[C(n)]
        BY <1>1, <1>5, <1>8, <3>1
      <3>3. Change(n) = "replace"
        BY <1>4, <1>7, <2>3, TaskSteps
      <3> QED
        BY <1>4, <3>1, <3>2, <3>3 DEF Continues
    <2>4. CASE todo[i] = <<"forgetLeft", "companion", "ahead", "create", "persist">> /\ Deferring(n)
      <3>1. todo'[i] = <<"companion", "ahead", "create", "persist">>
            /\ todo'[i] \notin {<<>>, <<"persist">>}
        BY <1>6, <2>4, TaskSteps
      <3> QED
        BY <1>4, <2>4, <3>1 DEF Continues, Companions
    <2>5. CASE todo[i] = <<"companion", "ahead", "create", "persist">> /\ Deferring(n)
      <3>1. todo'[i] = <<"ahead", "create", "persist">> /\ todo'[i] \notin {<<>>, <<"persist">>}
        BY <1>6, <2>5, TaskSteps
      <3> QED
        BY <1>4, <1>7, <2>5, <3>1 DEF Continues
    <2> QED
      BY <1>4, <2>1, <2>2, <2>3, <2>4, <2>5
  <1>14. Forwarding(n)'
    BY <1>3, <1>4, <1>13, OwnForward
  <1> QED
    BY <1>3, <1>4, <1>11, <1>12, <1>14, ForwardTasks

LEMMA WriteTaskStep ==
  ASSUME ExecInv, NEW i \in Ids, NEW step \in StateWrites, Write(i, step) PROVE ExecInv'
  <1>1. TypeOK /\ Minted /\ Described /\ Safe /\ Planned /\ Tasks /\ row \in [Ids -> Row]
    BY DEF ExecInv, TypeOK
  <1>2. /\ phase \in Working /\ todo[i] # <<>> /\ Head(todo[i]) = step
        /\ row' = Written(i, step) /\ Advance(i)
        /\ UNCHANGED <<live, minted, plan, work, rolling, count>>
    BY DEF Write, Awaits, Ready
  <1>3. /\ UNCHANGED <<live, minted, outs, config, prior, predeleted, deleteIds, deferred, saga, seen, project>>
        /\ Resumed' => Resumed
    BY <1>2 DEF plan, work, rolling, count, Resumed
  <1>4. RowsKept
    BY <1>1, <1>2, <1>3, Stops, WriteKept
  <1>5. /\ todo' \in [Ids -> Seq(ProviderSteps \cup StateWrites)] /\ UNCHANGED <<phase, inflight, lost>>
    BY <1>1, <1>2, Advanced
  <1>6. PICK n : n \in Nodes /\ n = i[1] /\ P(n) \in Ids /\ C(n) \in Ids
    BY IdFacts
  <1>7. Tasks'
    <2>1. CASE phase = "predelete"
      <3>1. step \in {"forget", "ahead"}
        BY <1>2, <2>1, Heads DEF StateWrites, CheckedWrites
      <3>2. CASE step = "forget"
        <4>1. row' = [row EXCEPT ![i] = NoRow]
          BY <1>2, <3>2 DEF Written
        <4> QED
          BY <1>1, <1>2, <1>3, <2>1, <3>2, <4>1, PredeleteWork
      <3>3. CASE step = "ahead"
        <4>1. i = P(n)
          BY <1>1, <1>2, <1>6, <3>3, Stops, IdFacts DEF Stopping
        <4>2. PICK R : R = [status |-> "creating", hash |-> HashOf(config, n), name |-> config[n],
                            phys |-> 0, saw |-> Saw(n)]
          OBVIOUS
        <4>3. row' = [row EXCEPT ![i] = R] /\ R.status = "creating"
          BY <1>2, <1>6, <3>3, <4>1, <4>2 DEF Written
        <4> QED
          BY <1>1, <1>2, <1>3, <2>1, <3>3, <4>3, PredeleteWork
      <3> QED
        BY <3>1, <3>2, <3>3
    <2>2. CASE phase = "destroy"
      <3>1. step \in {"forget", "dropCompanion"}
        BY <1>2, <2>2, Heads DEF StateWrites, CheckedWrites
      <3>2. step = "forget" => row' = [row EXCEPT ![i] = NoRow]
        BY <1>2 DEF Written
      <3>3. step = "dropCompanion" => row' = [row EXCEPT ![C(i[1])] = NoRow]
        BY <1>2 DEF Written
      <3> QED
        BY <1>2, <1>3, <2>2, <3>1, <3>2, <3>3, DestroyWork
    <2>3. CASE phase = "forward"
      BY <2>3, ForwardWrite
    <2> QED
      BY <1>2, <2>1, <2>2, <2>3 DEF Working
  <1>8. outs' \in [Nodes -> Nat] /\ deferred' \subseteq Nodes
        /\ \A m \in deferred' : Change(m) = "replace"
    BY <1>1, <1>2, <1>3 DEF TypeOK, Planned
  <1> QED
    BY <1>2, <1>3, <1>4, <1>5, <1>7, <1>8, WorkStep

-----------------------------------------------------------------------------
(***************************************************************************)
(* The rollback.                                                           *)
(***************************************************************************)
\* What the next await of an undo says of its kind and of the awaits left after it.
LEMMA UndoShapes ==
  ASSUME NEW kind \in {"create", "update", "replace", "delete", "cbd"}, undo \in UndoLeft(kind)
  PROVE  /\ undo # <<>>
         /\ Head(undo) \in {"stale", "deleteNew", "updateOld", "recreate", "drop", "restore",
                            "restoreNew", "dropCompanion"}
         /\ Head(undo) = "stale" =>
               /\ Tail(undo) \in UndoLeft(kind)
               /\ Head(Tail(undo)) \in {"deleteNew", "updateOld", "recreate"}
               /\ Head(Tail(undo)) = "deleteNew" => kind \in {"create", "replace", "cbd"}
         /\ Head(undo) = "deleteNew" =>
               /\ kind \in {"create", "replace", "cbd"} /\ Tail(undo) \in UndoLeft(kind)
               /\ Head(Tail(undo)) \in {"drop", "recreate", "restore"}
         /\ Head(undo) = "updateOld" => kind = "update" /\ Tail(undo) = <<"restore">>
         /\ Head(undo) = "recreate" => kind \in {"replace", "delete"} /\ Tail(undo) = <<"restoreNew">>
         /\ Head(undo) \in {"drop", "dropCompanion"} => Tail(undo) = <<>>
         /\ Head(undo) = "restoreNew" => kind \in {"replace", "delete"} /\ Tail(undo) = <<>>
         /\ Head(undo) = "restore" => \/ kind = "update" /\ Tail(undo) = <<>>
                                      \/ kind = "cbd" /\ Tail(undo) = <<"dropCompanion">>
  <1>1. CASE kind = "create"
    <2>1. UndoLeft(kind) = {<<"stale", "deleteNew", "drop">>, <<"deleteNew", "drop">>, <<"drop">>}
      BY <1>1 DEF UndoLeft
    <2> QED
      BY <1>1, <2>1, UndoneSteps
  <1>2. CASE kind = "update"
    <2>1. UndoLeft(kind) = {<<"stale", "updateOld", "restore">>, <<"updateOld", "restore">>,
                            <<"restore">>}
      BY <1>2 DEF UndoLeft
    <2> QED
      BY <1>2, <2>1, UndoneSteps
  <1>3. CASE kind = "replace"
    <2>1. UndoLeft(kind) = {<<"stale", "deleteNew", "recreate", "restoreNew">>,
                            <<"deleteNew", "recreate", "restoreNew">>,
                            <<"recreate", "restoreNew">>, <<"restoreNew">>}
      BY <1>3 DEF UndoLeft
    <2> QED
      BY <1>3, <2>1, UndoneSteps
  <1>4. CASE kind = "delete"
    <2>1. UndoLeft(kind) = {<<"stale", "recreate", "restoreNew">>, <<"recreate", "restoreNew">>,
                            <<"restoreNew">>}
      BY <1>4 DEF UndoLeft
    <2> QED
      BY <1>4, <2>1, UndoneSteps
  <1>5. CASE kind = "cbd"
    <2>1. UndoLeft(kind) = {<<"stale", "deleteNew", "restore", "dropCompanion">>,
                            <<"deleteNew", "restore", "dropCompanion">>,
                            <<"restore", "dropCompanion">>, <<"dropCompanion">>}
      BY <1>5 DEF UndoLeft
    <2> QED
      BY <1>5, <2>1, UndoneSteps
  <1> QED
    BY <1>1, <1>2, <1>3, <1>4, <1>5

\* The undo in progress.
LEMMA UndoFacts ==
  ASSUME ExecInv, phase = "rollback", undo # <<>>, NEW n, n = Undone.node
  PROVE  /\ Undone \in Undo /\ n \in Nodes /\ P(n) \in Ids /\ C(n) \in Ids
         /\ at # 0 /\ undo \in UndoLeft(Undone.kind)
         /\ Undone.kind \in {"create", "update", "replace", "delete", "cbd"}
         /\ Declared(n)
         /\ Undone.kind \in {"replace", "delete", "cbd"} => Change(n) = "replace"
         /\ Undone.kind \in {"create", "replace", "cbd"} => seen[P(n)].status # "none"
         /\ Head(undo) = "deleteNew" /\ Resumed => ~Good(n)
         /\ Head(undo) = "restore" /\ Undone.kind = "update" => Exists(n, prior[P(n)].phys)
         /\ Head(undo) = "restoreNew" =>
               Matches(n, recreated, prior[P(n)].name) /\ recreated # 0
  <1>1. TypeOK /\ Sagas /\ Undoes
    BY DEF ExecInv
  <1>2. UndoStands
    BY <1>1 DEF Undoes
  <1>3. at \in 1..Len(saga) /\ saga \in Seq(Undo)
    BY <1>1, <1>2 DEF TypeOK, UndoStands
  <1>4. at \in DOMAIN saga /\ Undone \in Undo
    BY <1>3 DEF Undone
  <1>5. Recordable(Undone)
    BY <1>1, <1>4 DEF Sagas, Undone
  <1>6. n \in Nodes /\ Undone.kind \in {"create", "update", "replace", "delete", "cbd"}
    BY <1>4 DEF Undo
  <1>7. P(n) \in Ids /\ C(n) \in Ids
    BY <1>6, IdFacts
  <1> QED
    BY <1>2, <1>4, <1>5, <1>6, <1>7 DEF Recordable, UndoStands

LEMMA RollStep ==
  ASSUME ExecInv, phase = "rollback",
         UNCHANGED <<phase, plan, work, todo, inflight, seen, project, runs, aimed>>,
         row' \in [Ids -> Row], live' \in [Nodes -> SUBSET Resource], minted' \in Nat,
         Minted', Described', Safe',
         lost' \in BOOLEAN, undone' \in BOOLEAN, recreated' \in Nat, at' \in 0..Len(saga),
         undo' \in Seq(UndoAwaits), faults' \in 0..MaxFaults, unmarked' \subseteq Nodes,
         Undoes'
  PROVE  ExecInv'
  <1>1. TypeOK /\ Aimed /\ Sagas
    BY DEF ExecInv
  <1>2. UNCHANGED <<config, prior, predeleted, there, outs, deleteIds, deferred, saga>>
    BY DEF plan, work
  <1>3. TypeOK'
    BY <1>1, <1>2 DEF TypeOK
  <1>4. Sagas'
    <2> SUFFICES ASSUME NEW k \in DOMAIN saga PROVE Recordable(saga[k])'
      BY <1>2 DEF Sagas
    <2>1. PICK e : e = saga[k]
      OBVIOUS
    <2>2. e \in Undo /\ Recordable(e) /\ e.node \in Nodes
      <3>1. e \in Undo
        BY <1>1, <2>1 DEF TypeOK
      <3>2. e.node \in Nodes
        BY <3>1 DEF Undo
      <3> QED
        BY <1>1, <2>1, <3>1, <3>2 DEF Sagas
    <2>3. Declared(e.node)' = Declared(e.node) /\ Change(e.node)' = Change(e.node)
      BY <1>2, <2>2, PlanSame
    <2>4. P(e.node)' = P(e.node)
      BY DEF P
    <2>5. Recordable(e)'
      BY <2>2, <2>3, <2>4 DEF Recordable
    <2>6. e = saga[k]'
      BY <1>2, <2>1
    <2> QED
      BY <2>5, <2>6
  <1>5. /\ Aimed' /\ Between' /\ Starting' /\ Resolved' /\ Planned' /\ Tasks' /\ Converged'
    BY <1>1, <1>2 DEF Aimed, Between, Starting, Resolved, Planned, Tasks, Converged, Working
  <1> QED
    BY <1>3, <1>4, <1>5 DEF ExecInv

\* The next await of an undo is done, or marking stale is given up.
LEMMA UndoTail ==
  ASSUME TypeOK, undo # <<>>
  PROVE  Tail(undo) \in Seq(UndoAwaits)
  BY DEF TypeOK

LEMMA UndoStart ==
  ASSUME NEW kind \in {"create", "update", "replace", "delete", "cbd"}
  PROVE  /\ UndoSteps(kind) \in UndoLeft(kind) /\ UndoSteps(kind) \in Seq(UndoAwaits)
         /\ UndoSteps(kind) # <<>> /\ Head(UndoSteps(kind)) = "stale"
  <1>1. UndoSteps(kind) \in {<<"stale", "deleteNew", "drop">>, <<"stale", "updateOld", "restore">>,
                             <<"stale", "deleteNew", "recreate", "restoreNew">>,
                             <<"stale", "recreate", "restoreNew">>,
                             <<"stale", "deleteNew", "restore", "dropCompanion">>}
    BY DEF UndoSteps
  <1>2. /\ <<"stale", "deleteNew", "drop">> \in Seq(UndoAwaits)
        /\ <<"stale", "updateOld", "restore">> \in Seq(UndoAwaits)
        /\ <<"stale", "deleteNew", "recreate", "restoreNew">> \in Seq(UndoAwaits)
        /\ <<"stale", "recreate", "restoreNew">> \in Seq(UndoAwaits)
        /\ <<"stale", "deleteNew", "restore", "dropCompanion">> \in Seq(UndoAwaits)
    BY DEF UndoAwaits
  <1>3. UndoSteps(kind) \in Seq(UndoAwaits)
    BY <1>1, <1>2
  <1>4. UndoSteps(kind) # <<>> /\ Head(UndoSteps(kind)) = "stale"
    BY <1>1, UndoneSteps
  <1>5. UndoSteps(kind) \in UndoLeft(kind)
    BY DEF UndoSteps, UndoLeft
  <1> QED
    BY <1>3, <1>4, <1>5

\* The next await of n's undo may be taken.
Left(n) ==
    /\ UNCHANGED <<phase, at, saga>>
    /\ \/ undo' = <<>>
       \/ /\ undo' \in UndoLeft(Undone.kind)
          /\ Head(undo') = "deleteNew" /\ Resumed' => ~Good(n)'
          /\ Head(undo') = "restore" /\ Undone.kind = "update" => Exists(n, prior[P(n)].phys)'
          /\ Head(undo') = "restoreNew" =>
                 Matches(n, recreated, prior[P(n)].name)' /\ recreated' # 0

LEMMA LeftStep ==
  ASSUME at # 0, NEW n, n = Undone.node, Left(n)
  PROVE  Undoes'
  <1>1. Undone' = Undone /\ at' = at
    BY DEF Left, Undone
  <1>2. Undone.node' = n
    BY <1>1
  <1>3. ASSUME undo' # <<>> PROVE UndoStands'
    <2>1. /\ undo' \in UndoLeft(Undone.kind)
          /\ Head(undo') = "deleteNew" /\ Resumed' => ~Good(n)'
          /\ Head(undo') = "restore" /\ Undone.kind = "update" => Exists(n, prior[P(n)].phys)'
          /\ Head(undo') = "restoreNew" =>
                 Matches(n, recreated, prior[P(n)].name)' /\ recreated' # 0
      BY <1>3 DEF Left
    <2>2. undo' \in UndoLeft(Undone'.kind)
      BY <1>1, <2>1
    <2>3. Good(Undone.node)' = Good(n)'
      BY <1>2 DEF Good, Declared, P, HashOf, Upstream, Deps
    <2>4. Exists(Undone.node, prior[P(Undone.node)].phys)' = Exists(n, prior[P(n)].phys)'
      BY <1>2 DEF Exists, P
    <2>5. Matches(Undone.node, recreated, prior[P(Undone.node)].name)'
             = Matches(n, recreated, prior[P(n)].name)'
      BY <1>2 DEF Matches, P
    <2> QED
      BY <1>1, <2>1, <2>2, <2>3, <2>4, <2>5 DEF UndoStands, UndoLeft
  <1> QED
    BY <1>3 DEF Undoes

\* An await of the undo in progress returns.
LEMMA UndoDoneStep ==
  ASSUME ExecInv, phase = "rollback", undo # <<>>, UndoDone, NEW n, n = Undone.node,
         row' \in [Ids -> Row], live' \in [Nodes -> SUBSET Resource], minted' \in Nat,
         Minted', Described', Safe', recreated' \in Nat, Left(n)
  PROVE  ExecInv'
  <1>1. TypeOK
    BY DEF ExecInv
  <1>2. undo' = Tail(undo) /\ UNCHANGED <<run, at, seen, undone, count>>
    BY DEF UndoDone
  <1>3. UNCHANGED <<phase, plan, work, todo, inflight, lost, seen, at, undone>>
    BY <1>2 DEF run
  <1>4. UNCHANGED <<project, runs, faults, unmarked, aimed, saga>>
    BY <1>2, <1>3 DEF count, work
  <1>5. undo' \in Seq(UndoAwaits)
    BY <1>1, <1>2, UndoTail
  <1>6. at # 0
    BY UndoFacts
  <1>7. Undoes'
    BY <1>6, LeftStep
  <1>8. at' \in 0..Len(saga) /\ undone' \in BOOLEAN /\ lost' \in BOOLEAN
        /\ faults' \in 0..MaxFaults /\ unmarked' \subseteq Nodes
    BY <1>1, <1>3, <1>4 DEF TypeOK
  <1> QED
    BY <1>3, <1>4, <1>5, <1>7, <1>8, RollStep

\* What an await of an undo leaves alone.
LEMMA UndoKeeps ==
  ASSUME TypeOK, UndoDone
  PROVE  /\ UNCHANGED <<phase, at, saga, config, prior, seen, project>>
         /\ Resumed' = Resumed /\ undo' = Tail(undo)
  BY DEF UndoDone, run, plan, work, count, Resumed

LEMMA MarkStaleStep ==
  ASSUME ExecInv, MarkStale PROVE ExecInv'
  <1> PICK n : n = Undone.node
    OBVIOUS
  <1>1. TypeOK /\ Minted /\ Described /\ Safe
    BY DEF ExecInv
  <1>2. phase = "rollback" /\ undo # <<>> /\ Head(undo) = "stale" /\ UndoDone
        /\ UNCHANGED <<live, minted, recreated>>
        /\ row' = IF seen[P(n)].status = "none" THEN row
                  ELSE [row EXCEPT ![P(n)] = [seen[P(n)] EXCEPT !.hash = NoHash]]
    BY DEF MarkStale, Undoing
  <1>3. /\ n \in Nodes /\ P(n) \in Ids /\ P(n)[1] = n /\ P(n) # C(n) /\ Declared(n)
        /\ undo \in UndoLeft(Undone.kind)
        /\ Undone.kind \in {"create", "update", "replace", "delete", "cbd"}
        /\ Undone.kind \in {"create", "replace", "cbd"} => seen[P(n)].status # "none"
    BY <1>2, UndoFacts, IdFacts
  <1>4. /\ Tail(undo) \in UndoLeft(Undone.kind)
        /\ Head(Tail(undo)) \in {"deleteNew", "updateOld", "recreate"}
        /\ Head(Tail(undo)) = "deleteNew" => Undone.kind \in {"create", "replace", "cbd"}
    BY <1>2, <1>3, UndoShapes
  <1>5. /\ UNCHANGED <<phase, at, saga, config, prior, seen, project>>
        /\ Resumed' = Resumed /\ undo' = Tail(undo)
    BY <1>1, <1>2, UndoKeeps
  <1>6. live' \in [Nodes -> SUBSET Resource] /\ minted' \in Nat /\ recreated' \in Nat
    BY <1>1, <1>2 DEF TypeOK
  <1>7. CASE seen[P(n)].status = "none"
    <2>1. RowsKept
      BY <1>2, <1>5, <1>7, SameRows
    <2>2. Left(n)
      BY <1>3, <1>4, <1>5, <1>7 DEF Left
    <2> QED
      BY <1>2, <1>6, <2>1, <2>2, UndoDoneStep DEF RowsKept
  <1>8. CASE seen[P(n)].status # "none"
    <2> PICK S : S = [seen[P(n)] EXCEPT !.hash = NoHash]
      OBVIOUS
    <2>1. seen[P(n)] \in Row /\ Describes(n, seen[P(n)])
      BY <1>1, <1>3 DEF TypeOK, Described
    <2>2. S \in Row /\ Describes(n, S) /\ S.hash = NoHash
      BY <1>1, <1>3, <2>1, MarkedRow
    <2>3. HashOf(config, n) # NoHash
      BY <1>1, <1>3, HashFacts
    <2>4. row' = [row EXCEPT ![P(n)] = S]
      BY <1>2, <1>8
    <2>5. RowTo(P(n), S)
      BY <1>2, <1>3, <1>5, <2>2, <2>3, <2>4 DEF RowTo
    <2>6. row' \in [Ids -> Row] /\ Minted' /\ Described' /\ Safe'
      BY <1>1, <1>3, <2>2, <2>5, RowStep
    <2>7. ~Good(n)'
      <3>1. row'[P(n)] = S
        BY <1>1, <1>3, <2>4 DEF TypeOK
      <3>2. row[P(n)]' = row'[P(n)]
        BY DEF P
      <3>3. HashOf(config, n)' = HashOf(config, n)
        BY <1>3, <1>5, PlanSame
      <3> QED
        BY <2>2, <2>3, <3>1, <3>2, <3>3 DEF Good
    <2>8. Left(n)
      BY <1>4, <1>5, <2>7 DEF Left
    <2> QED
      BY <1>2, <1>6, <2>6, <2>8, UndoDoneStep
  <1> QED
    BY <1>7, <1>8

LEMMA UndoDeleteStep ==
  ASSUME ExecInv, UndoDelete PROVE ExecInv'
  <1> PICK n, R : n = Undone.node /\ R = [phys |-> Undone.phys, name |-> Undeclared]
    OBVIOUS
  <1>1. TypeOK /\ Minted /\ Described /\ Safe
    BY DEF ExecInv
  <1>2. phase = "rollback" /\ undo # <<>> /\ Head(undo) = "deleteNew" /\ UndoDone
        /\ UNCHANGED <<row, recreated>> /\ Remove(n, R)
    BY DEF UndoDelete, Undoing
  <1>3. /\ n \in Nodes /\ undo \in UndoLeft(Undone.kind)
        /\ Undone.kind \in {"create", "update", "replace", "delete", "cbd"}
        /\ Resumed => ~Good(n)
    BY <1>2, UndoFacts
  <1>4. /\ Undone.kind \in {"create", "replace", "cbd"} /\ Tail(undo) \in UndoLeft(Undone.kind)
        /\ Head(Tail(undo)) \in {"drop", "recreate", "restore"}
    BY <1>2, <1>3, UndoShapes
  <1>5. /\ UNCHANGED <<phase, at, saga, config, prior, seen, project>>
        /\ Resumed' = Resumed /\ undo' = Tail(undo)
    BY <1>1, <1>2, UndoKeeps
  <1>6. /\ live' \in [Nodes -> SUBSET Resource] /\ minted' = minted
        /\ Minted' /\ Grows
        /\ \A m \in Nodes : \A p : m # n /\ Exists(m, p) => Exists(m, p)'
    BY <1>1, <1>2, <1>3, RemoveStep
  <1>7. SparesGood
    BY <1>3, <1>6 DEF SparesGood
  <1>8. Described' /\ Safe'
    BY <1>1, <1>2, <1>5, <1>6, <1>7, LiveStep
  <1>9. row' \in [Ids -> Row] /\ minted' \in Nat /\ recreated' \in Nat
    BY <1>1, <1>2, <1>6 DEF TypeOK
  <1>10. Left(n)
    BY <1>4, <1>5 DEF Left
  <1> QED
    BY <1>2, <1>6, <1>8, <1>9, <1>10, UndoDoneStep

LEMMA UndoUpdateStep ==
  ASSUME ExecInv, UndoUpdate PROVE ExecInv'
  <1> PICK n : n = Undone.node
    OBVIOUS
  <1>1. TypeOK
    BY DEF ExecInv
  <1>2. phase = "rollback" /\ undo # <<>> /\ Head(undo) = "updateOld" /\ UndoDone
        /\ UNCHANGED <<row, live, minted, recreated>> /\ Exists(n, prior[P(n)].phys)
    BY DEF UndoUpdate, Undoing
  <1>3. /\ undo \in UndoLeft(Undone.kind)
        /\ Undone.kind \in {"create", "update", "replace", "delete", "cbd"}
    BY <1>2, UndoFacts
  <1>4. Undone.kind = "update" /\ Tail(undo) = <<"restore">>
    BY <1>2, <1>3, UndoShapes
  <1>5. /\ UNCHANGED <<phase, at, saga, config, prior, seen, project>>
        /\ Resumed' = Resumed /\ undo' = Tail(undo)
    BY <1>1, <1>2, UndoKeeps
  <1>6. RowsKept
    BY <1>2, <1>5, SameRows
  <1>7. Exists(n, prior[P(n)].phys)'
    BY <1>2, <1>5 DEF Exists, P
  <1>8. <<"restore">> \in UndoLeft(Undone.kind)
    BY <1>4 DEF UndoLeft
  <1>9. Left(n)
    BY <1>4, <1>5, <1>7, <1>8, UndoneSteps DEF Left
  <1>10. live' \in [Nodes -> SUBSET Resource] /\ minted' \in Nat /\ recreated' \in Nat
    BY <1>1, <1>2 DEF TypeOK
  <1> QED
    BY <1>2, <1>6, <1>9, <1>10, UndoDoneStep DEF RowsKept

\* What the original is made anew from.
LEMMA OldRow ==
  ASSUME TypeOK, Described, NEW n \in Nodes, Change(n) = "replace"
  PROVE  /\ prior[P(n)] \in Row /\ Describes(n, prior[P(n)])
         /\ prior[P(n)].status = "created" /\ prior[P(n)].name # config[n]
         /\ prior[P(n)].name \in Names
  <1>1. prior[P(n)].status = "created" /\ prior[P(n)].name # config[n]
    BY PlanFacts
  <1>2. prior[P(n)] \in Row /\ Describes(n, prior[P(n)])
    BY IdFacts DEF TypeOK, Described
  <1> QED
    BY <1>1, <1>2 DEF Describes

LEMMA RecreateLive ==
  ASSUME ExecInv, NEW n \in Nodes, Change(n) = "replace", MakeLive(n, prior[P(n)].name),
         NEW id, id = CreatedId(n, prior[P(n)].name),
         UNCHANGED <<row, prior, seen, config, project>>, Resumed' => Resumed
  PROVE  /\ live' \in [Nodes -> SUBSET Resource] /\ minted' \in Nat
         /\ Minted' /\ Described' /\ Safe'
         /\ id \in Nat /\ id # 0 /\ Matches(n, id, prior[P(n)].name)'
  <1> PICK name : name = prior[P(n)].name
    OBVIOUS
  <1>1. TypeOK /\ Minted /\ Described /\ Safe
    BY DEF ExecInv
  <1>2. name \in Names
    BY <1>1, OldRow
  <1>3. /\ live' \in [Nodes -> SUBSET Resource] /\ minted' \in Nat
        /\ Minted' /\ Grows
        /\ \A m \in Nodes : \A p : Exists(m, p) => Exists(m, p)'
        /\ id \in Nat /\ id # 0 /\ Matches(n, id, name)'
    BY <1>1, <1>2, MakeStep
  <1>4. SparesGood
    BY <1>3 DEF SparesGood
  <1>5. Described' /\ Safe'
    BY <1>1, <1>3, <1>4, LiveStep
  <1>6. prior[P(n)].name' = name
    BY DEF P
  <1> QED
    BY <1>3, <1>5, <1>6

LEMMA UndoRecreateStep ==
  ASSUME ExecInv, UndoRecreate PROVE ExecInv'
  <1> PICK n : n = Undone.node
    OBVIOUS
  <1>1. TypeOK
    BY DEF ExecInv
  <1>2. phase = "rollback" /\ undo # <<>> /\ Head(undo) = "recreate" /\ UndoDone
        /\ row' = row /\ MakeLive(n, prior[P(n)].name)
        /\ recreated' = CreatedId(n, prior[P(n)].name)
    BY DEF UndoRecreate, Undoing
  <1>3. /\ n \in Nodes /\ undo \in UndoLeft(Undone.kind)
        /\ Undone.kind \in {"create", "update", "replace", "delete", "cbd"}
        /\ Undone.kind \in {"replace", "delete", "cbd"} => Change(n) = "replace"
    BY <1>2, UndoFacts
  <1>4. Undone.kind \in {"replace", "delete"} /\ Tail(undo) = <<"restoreNew">>
    BY <1>2, <1>3, UndoShapes
  <1>5. /\ UNCHANGED <<phase, at, saga, config, prior, seen, project>>
        /\ Resumed' = Resumed /\ undo' = Tail(undo)
    BY <1>1, <1>2, UndoKeeps
  <1> PICK id : id = recreated'
    OBVIOUS
  <1>6. /\ live' \in [Nodes -> SUBSET Resource] /\ minted' \in Nat
        /\ Minted' /\ Described' /\ Safe'
        /\ id \in Nat /\ id # 0 /\ Matches(n, id, prior[P(n)].name)'
    BY <1>2, <1>3, <1>4, <1>5, RecreateLive
  <1>7. Matches(n, recreated, prior[P(n)].name)'
    BY <1>6 DEF Matches
  <1>8. <<"restoreNew">> \in UndoLeft(Undone.kind)
    BY <1>4 DEF UndoLeft
  <1>9. Left(n)
    BY <1>4, <1>5, <1>6, <1>7, <1>8, UndoneSteps DEF Left
  <1>10. row' \in [Ids -> Row] /\ recreated' \in Nat
    BY <1>1, <1>2, <1>6 DEF TypeOK
  <1> QED
    BY <1>2, <1>6, <1>9, <1>10, UndoDoneStep

LEMMA NoRowFacts ==
  ASSUME TypeOK, Minted, NEW n \in Nodes
  PROVE  NoRow \in Row /\ NoRow.status = "none" /\ Describes(n, NoRow)
  <1>1. NoRow \in Row /\ NoRow.status = "none"
    BY HashFacts
  <1>2. NoRow.phys = 0 /\ NoRow.name = Undeclared
    BY DEF NoRow
  <1>3. Matches(n, 0, Undeclared)
    BY DEF Matches, Minted, TypeOK
  <1> QED
    BY <1>1, <1>2, <1>3 DEF Describes

LEMMA UndoWriteStep ==
  ASSUME ExecInv, NEW step \in {"drop", "restore", "restoreNew", "dropCompanion"}, UndoWrite(step)
  PROVE  ExecInv'
  <1> PICK n : n = Undone.node
    OBVIOUS
  <1>1. TypeOK /\ Minted /\ Described /\ Safe
    BY DEF ExecInv
  <1>2. phase = "rollback" /\ undo # <<>> /\ Head(undo) = step /\ UndoDone
        /\ UNCHANGED <<live, minted, recreated>> /\ row' = UndoWritten(step)
    BY DEF UndoWrite, Undoing
  <1>3. /\ n \in Nodes /\ undo \in UndoLeft(Undone.kind) /\ Undone \in Undo
        /\ Undone.kind \in {"create", "update", "replace", "delete", "cbd"}
        /\ Undone.kind \in {"replace", "delete", "cbd"} => Change(n) = "replace"
        /\ step = "restore" /\ Undone.kind = "update" => Exists(n, prior[P(n)].phys)
        /\ step = "restoreNew" => Matches(n, recreated, prior[P(n)].name) /\ recreated # 0
    BY <1>2, UndoFacts
  <1>4. /\ P(n) \in Ids /\ C(n) \in Ids /\ P(n)[1] = n /\ C(n)[1] = n /\ P(n) # C(n)
        /\ NoRow \in Row /\ NoRow.status = "none" /\ Describes(n, NoRow)
    BY <1>1, <1>3, IdFacts, NoRowFacts
  <1>5. /\ step \in {"drop", "dropCompanion"} => Tail(undo) = <<>>
        /\ step = "restoreNew" => Undone.kind \in {"replace", "delete"} /\ Tail(undo) = <<>>
        /\ step = "restore" => \/ Undone.kind = "update" /\ Tail(undo) = <<>>
                               \/ Undone.kind = "cbd" /\ Tail(undo) = <<"dropCompanion">>
    BY <1>2, <1>3, UndoShapes
  <1>6. /\ UNCHANGED <<phase, at, saga, config, prior, seen, project>>
        /\ Resumed' = Resumed /\ undo' = Tail(undo)
    BY <1>1, <1>2, UndoKeeps
  <1>7. ASSUME NEW i \in {P(n), C(n)}, NEW R \in Row, RowTo(i, R)
        PROVE  row' \in [Ids -> Row] /\ Minted' /\ Described' /\ Safe'
    <2>1. i \in Ids
      BY <1>4
    <2> QED
      BY <1>1, <1>7, <2>1, RowStep
  <1>8. row' \in [Ids -> Row] /\ Minted' /\ Described' /\ Safe'
    <2>1. CASE step = "drop"
      <3>1. row' = [row EXCEPT ![P(n)] = NoRow]
        BY <1>2, <2>1 DEF UndoWritten
      <3>2. RowTo(P(n), NoRow)
        BY <1>2, <1>4, <1>6, <3>1 DEF RowTo
      <3> QED
        BY <1>4, <1>7, <3>2
    <2>2. CASE step = "dropCompanion"
      <3>1. row' = [row EXCEPT ![C(n)] = NoRow]
        BY <1>2, <2>2 DEF UndoWritten
      <3>2. RowTo(C(n), NoRow)
        BY <1>2, <1>4, <1>6, <3>1 DEF RowTo
      <3> QED
        BY <1>4, <1>7, <3>2
    <2>3. CASE step = "restore"
      <3> PICK R : R = prior[P(n)]
        OBVIOUS
      <3>1. row' = [row EXCEPT ![P(n)] = R]
        BY <1>2, <2>3 DEF UndoWritten
      <3>2. R \in Row /\ Describes(n, R)
        BY <1>1, <1>3, <1>4 DEF TypeOK, Described
      <3>3. R.name = config[n] => Exists(n, R.phys)
        <4>1. CASE Undone.kind = "update"
          BY <1>3, <2>3, <4>1
        <4>2. CASE Undone.kind = "cbd"
          BY <1>1, <1>3, <4>2, OldRow
        <4> QED
          BY <1>5, <2>3, <4>1, <4>2
      <3>4. RowTo(P(n), R)
        BY <1>2, <1>4, <1>6, <3>1, <3>2, <3>3 DEF RowTo
      <3> QED
        BY <1>7, <3>2, <3>4
    <2>4. CASE step = "restoreNew"
      <3> PICK was, R :
            /\ was = prior[P(n)]
            /\ R = [was EXCEPT !.phys = recreated,
                        !.saw = IF Undone.kind = "replace" THEN Undone.saw ELSE was.saw]
        OBVIOUS
      <3>1. row' = [row EXCEPT ![P(n)] = R]
        BY <1>2, <2>4 DEF UndoWritten
      <3>2. was \in Row /\ was.status = "created" /\ was.name # config[n] /\ was.name \in Names
        BY <1>1, <1>3, <1>5, <2>4, OldRow
      <3>3. Undone.saw \in [Nodes -> Nat] /\ recreated \in Nat
        BY <1>1, <1>3 DEF Undo, TypeOK
      <3>4. R \in Row /\ R.phys = recreated /\ R.name = was.name /\ R.status = was.status
        BY <3>2, <3>3 DEF Row
      <3>5. Describes(n, R)
        BY <1>3, <2>4, <3>2, <3>4 DEF Describes
      <3>6. RowTo(P(n), R)
        BY <1>2, <1>4, <1>6, <3>1, <3>2, <3>4, <3>5 DEF RowTo
      <3> QED
        BY <1>7, <3>4, <3>6
    <2> QED
      BY <2>1, <2>2, <2>3, <2>4
  <1>9. Left(n)
    <2>1. CASE Tail(undo) = <<>>
      BY <1>6, <2>1 DEF Left
    <2>2. CASE Undone.kind = "cbd" /\ Tail(undo) = <<"dropCompanion">>
      <3>1. <<"dropCompanion">> \in UndoLeft(Undone.kind)
        BY <2>2 DEF UndoLeft
      <3> QED
        BY <1>6, <2>2, <3>1, UndoneSteps DEF Left
    <2> QED
      BY <1>5, <2>1, <2>2
  <1>10. live' \in [Nodes -> SUBSET Resource] /\ minted' \in Nat /\ recreated' \in Nat
    BY <1>1, <1>2 DEF TypeOK
  <1> QED
    BY <1>2, <1>8, <1>9, <1>10, UndoDoneStep

LEMMA UndoFailsStep ==
  ASSUME ExecInv, UndoFails PROVE ExecInv'
  <1> PICK n, R : n = Undone.node /\ R = [phys |-> Undone.phys, name |-> Undeclared]
    OBVIOUS
  <1>1. TypeOK /\ Minted /\ Described /\ Safe
    BY DEF ExecInv
  <1>2. /\ phase = "rollback" /\ undo # <<>>
        /\ UNCHANGED <<row, run, at, seen, recreated, project, runs, aimed>>
        /\ undo' = IF Head(undo) = "stale" THEN Tail(undo) ELSE <<>>
        /\ undone' \in BOOLEAN
        /\ unmarked' = IF Head(undo) = "stale" THEN unmarked \cup {n} ELSE unmarked
    BY DEF UndoFails
  <1>3. \/ UNCHANGED <<live, minted>>
        \/ Head(undo) = "deleteNew" /\ Remove(n, R)
        \/ Head(undo) = "recreate" /\ MakeLive(n, prior[P(n)].name)
    BY DEF UndoFails, MaybeUndone
  <1>4. faults' \in 0..MaxFaults
    BY <1>1, BoundsAssumption DEF UndoFails, TypeOK
  <1>5. UNCHANGED <<phase, plan, work, todo, inflight, lost, config, prior, saga>>
    BY <1>2 DEF run, plan, work
  <1>6. /\ n \in Nodes /\ undo \in UndoLeft(Undone.kind) /\ at # 0
        /\ Undone.kind \in {"create", "update", "replace", "delete", "cbd"}
        /\ Undone.kind \in {"replace", "delete", "cbd"} => Change(n) = "replace"
        /\ Head(undo) = "deleteNew" /\ Resumed => ~Good(n)
    BY <1>2, UndoFacts
  <1>7. /\ Head(undo) = "stale" => /\ Tail(undo) \in UndoLeft(Undone.kind)
                                   /\ Head(Tail(undo)) \in {"deleteNew", "updateOld", "recreate"}
        /\ Head(undo) = "recreate" => Undone.kind \in {"replace", "delete"}
    BY <1>6, UndoShapes
  <1>8. (Resumed' => Resumed) /\ (Head(undo) = "stale" => ~Resumed') /\ unmarked' \subseteq Nodes
    BY <1>1, <1>2, <1>5, <1>6 DEF Resumed, TypeOK
  <1>9. /\ live' \in [Nodes -> SUBSET Resource] /\ minted' \in Nat
        /\ Minted' /\ Described' /\ Safe'
    <2>1. CASE UNCHANGED <<live, minted>>
      <3>1. RowsKept
        BY <1>2, <1>5, <1>8, <2>1, SameRows
      <3> QED
        BY <1>1, <2>1, <3>1 DEF RowsKept, TypeOK
    <2>2. CASE Head(undo) = "deleteNew" /\ Remove(n, R)
      <3>1. /\ live' \in [Nodes -> SUBSET Resource] /\ minted' = minted
            /\ Minted' /\ Grows
            /\ \A m \in Nodes : \A p : m # n /\ Exists(m, p) => Exists(m, p)'
        BY <1>1, <1>6, <2>2, RemoveStep
      <3>2. SparesGood
        BY <1>6, <2>2, <3>1 DEF SparesGood
      <3>3. Described' /\ Safe'
        BY <1>1, <1>2, <1>5, <1>8, <3>1, <3>2, LiveStep
      <3> QED
        BY <1>1, <3>1, <3>3 DEF TypeOK
    <2>3. CASE Head(undo) = "recreate" /\ MakeLive(n, prior[P(n)].name)
      <3>1. Change(n) = "replace"
        BY <1>6, <1>7, <2>3
      <3> PICK id : id = CreatedId(n, prior[P(n)].name)
        OBVIOUS
      <3> QED
        BY <1>2, <1>5, <1>6, <1>8, <2>3, <3>1, RecreateLive
    <2> QED
      BY <1>3, <2>1, <2>2, <2>3
  <1>10. Left(n)
    BY <1>2, <1>5, <1>7, <1>8 DEF Left
  <1>11. Undoes'
    BY <1>6, <1>10, LeftStep
  <1>12. undo' \in Seq(UndoAwaits)
    <2>1. Tail(undo) \in Seq(UndoAwaits)
      BY <1>1, <1>2, UndoTail
    <2> QED
      BY <1>2, <2>1
  <1>13. row' \in [Ids -> Row] /\ lost' \in BOOLEAN /\ recreated' \in Nat /\ at' \in 0..Len(saga)
    BY <1>1, <1>2, <1>5 DEF TypeOK
  <1> QED
    BY <1>2, <1>4, <1>5, <1>8, <1>9, <1>11, <1>12, <1>13, RollStep

LEMMA RollbackLosesLeaseStep ==
  ASSUME ExecInv, RollbackLosesLease PROVE ExecInv'
  <1>1. TypeOK /\ Undoes
    BY DEF ExecInv
  <1>2. /\ phase = "rollback" /\ lost' = TRUE /\ undone' = FALSE
        /\ UNCHANGED <<row, live, minted, phase, plan, work, todo, inflight, at, undo, seen,
                       recreated, project, runs, unmarked, aimed, config, prior, saga>>
    BY DEF RollbackLosesLease, plan, work
  <1>3. faults' \in 0..MaxFaults
    BY <1>1, BoundsAssumption DEF RollbackLosesLease, TypeOK
  <1>4. Resumed' = Resumed
    BY <1>2 DEF Resumed
  <1>5. RowsKept
    BY <1>2, <1>4, SameRows
  <1>6. Undoes'
    <2>1. CASE undo = <<>>
      BY <1>2, <2>1 DEF Undoes
    <2>2. CASE undo # <<>>
      <3> PICK n : n = Undone.node
        OBVIOUS
      <3>1. /\ n \in Nodes /\ at # 0 /\ undo \in UndoLeft(Undone.kind)
            /\ Head(undo) = "deleteNew" /\ Resumed => ~Good(n)
            /\ Head(undo) = "restore" /\ Undone.kind = "update" => Exists(n, prior[P(n)].phys)
            /\ Head(undo) = "restoreNew" =>
                   Matches(n, recreated, prior[P(n)].name) /\ recreated # 0
        BY <1>2, <2>2, UndoFacts
      <3>2. Declared(n)' = Declared(n) /\ HashOf(config, n)' = HashOf(config, n)
        BY <1>2, <3>1, PlanSame
      <3>3. Good(n)' = Good(n)
        BY <1>2, <3>2 DEF Good, P
      <3>4. Exists(n, prior[P(n)].phys)' = Exists(n, prior[P(n)].phys)
        BY <1>2 DEF Exists, P
      <3>5. Matches(n, recreated, prior[P(n)].name)' = Matches(n, recreated, prior[P(n)].name)
        BY <1>2 DEF Matches, P
      <3>6. Left(n)
        BY <1>2, <1>4, <3>1, <3>3, <3>4, <3>5 DEF Left
      <3> QED
        BY <3>1, <3>6, LeftStep
    <2> QED
      BY <2>1, <2>2
  <1>7. /\ row' \in [Ids -> Row] /\ live' \in [Nodes -> SUBSET Resource] /\ minted' \in Nat
        /\ recreated' \in Nat /\ at' \in 0..Len(saga) /\ undo' \in Seq(UndoAwaits)
        /\ unmarked' \subseteq Nodes /\ lost' \in BOOLEAN /\ undone' \in BOOLEAN
    BY <1>1, <1>2 DEF TypeOK
  <1> QED
    BY <1>2, <1>3, <1>5, <1>6, <1>7, RollStep DEF RowsKept

LEMMA NextUndoStep ==
  ASSUME ExecInv, NextUndo PROVE ExecInv'
  <1>1. TypeOK
    BY DEF ExecInv
  <1>2. /\ phase = "rollback" /\ undo = <<>> /\ at > 0 /\ at' = at - 1
        /\ undo' = IF at = 1 \/ lost THEN <<>> ELSE UndoSteps(saga[at - 1].kind)
        /\ UNCHANGED <<row, live, minted, seen, recreated, undone>>
        /\ UNCHANGED <<phase, plan, work, todo, inflight, lost, config, prior, saga>>
        /\ UNCHANGED <<project, runs, faults, unmarked, aimed>>
    BY DEF NextUndo, run, count, plan, work
  <1>3. RowsKept
    BY <1>2, SameRows DEF Resumed
  <1>4. at \in 0..Len(saga) /\ saga \in Seq(Undo)
    BY <1>1 DEF TypeOK
  <1>5. at' \in 0..Len(saga)
    BY <1>2, <1>4
  <1>6. CASE undo' = <<>>
    <2>1. Undoes' /\ undo' \in Seq(UndoAwaits)
      BY <1>6 DEF Undoes
    <2> QED
      BY <1>1, <1>2, <1>3, <1>5, <2>1, RollStep DEF RowsKept, TypeOK
  <1>7. CASE undo' # <<>>
    <2>1. at' # 0 /\ at' \in DOMAIN saga /\ undo' = UndoSteps(saga[at'].kind)
      BY <1>2, <1>4, <1>7
    <2> PICK e : e = saga[at']
      OBVIOUS
    <2>2. e \in Undo
      BY <1>4, <2>1
    <2>3. e.kind \in {"create", "update", "replace", "delete", "cbd"}
      BY <2>2 DEF Undo
    <2>4. undo' \in UndoLeft(e.kind) /\ undo' \in Seq(UndoAwaits) /\ Head(undo') = "stale"
      BY <2>1, <2>3, UndoStart
    <2>5. Undone' = e
      BY <1>2 DEF Undone
    <2>6. UndoStands'
      BY <2>1, <2>4, <2>5 DEF UndoStands, UndoLeft
    <2>7. Undoes'
      BY <2>6 DEF Undoes
    <2> QED
      BY <1>1, <1>2, <1>3, <1>5, <2>4, <2>7, RollStep DEF RowsKept, TypeOK
  <1> QED
    BY <1>6, <1>7

LEMMA UnwoundStep ==
  ASSUME ExecInv, Unwound PROVE ExecInv'
  <1>1. TypeOK /\ Minted /\ Described /\ Safe /\ Aimed /\ Sagas
    BY DEF ExecInv
  <1>2. /\ phase \in {"unwind", "stop"}
        /\ UNCHANGED <<row, live, minted, project, runs, faults, unmarked, aimed>>
    BY DEF Unwound, count
  <1>3. CASE Ended
    <2>1. aimed' # {} /\ faults' \in 0..MaxFaults
      BY <1>1, <1>2 DEF Aimed, TypeOK
    <2>2. (Resumed' => Resumed) /\ Converged'
      BY <1>2, <1>3, <2>1 DEF Resumed, Converged, Ended
    <2> QED
      BY <1>2, <1>3, <2>1, <2>2, EndStep
  <1>4. CASE ~Ended
    <2> PICK e : e = saga[Len(saga)]
      OBVIOUS
    <2>1. /\ saga # <<>> /\ phase = "unwind" /\ phase' = "rollback" /\ at' = Len(saga)
          /\ undo' = UndoSteps(e.kind) /\ seen' = row
          /\ todo' = NothingToDo /\ inflight' = {}
          /\ UNCHANGED <<lost, recreated, undone>>
          /\ UNCHANGED <<config, prior, predeleted, there, outs, deleteIds, deferred, saga>>
      BY <1>4 DEF Unwound, plan, work
    <2>2. saga \in Seq(Undo)
      BY <1>1 DEF TypeOK
    <2>3. at' # 0 /\ at' \in DOMAIN saga /\ at' \in 0..Len(saga)
      BY <2>1, <2>2
    <2>4. e \in Undo
      BY <2>1, <2>2, <2>3
    <2>5. e.kind \in {"create", "update", "replace", "delete", "cbd"}
      BY <2>4 DEF Undo
    <2>6. undo' \in UndoLeft(e.kind) /\ undo' \in Seq(UndoAwaits) /\ Head(undo') = "stale"
      BY <2>1, <2>5, UndoStart
    <2>7. Undone' = e
      BY <2>1 DEF Undone
    <2>8. Undoes'
      <3>1. UndoStands'
        BY <2>3, <2>6, <2>7 DEF UndoStands, UndoLeft
      <3> QED
        BY <3>1 DEF Undoes
    <2>9. todo' \in [Ids -> Seq(ProviderSteps \cup StateWrites)]
      BY <2>1 DEF NothingToDo
    <2>10. TypeOK'
      BY <1>1, <1>2, <2>1, <2>3, <2>6, <2>9 DEF TypeOK, Phases
    <2>11. Minted'
      BY <1>1, <1>2 DEF Minted, Matches
    <2>12. Described'
      <3>1. \A m, S : Describes(m, S)' <=> Describes(m, S)
        BY <1>2 DEF Describes, Matches, NoRow, NoHash, NoIds
      <3>2. ASSUME NEW m \in Nodes, NEW i \in {P(m), C(m)}
            PROVE  Describes(m, row[i])' /\ Describes(m, prior[i])' /\ Describes(m, seen[i])'
        <4>1. Describes(m, row[i]) /\ Describes(m, prior[i])
          BY <1>1 DEF Described
        <4>2. PICK S, T : S = row[i] /\ T = prior[i]
          OBVIOUS
        <4>3. Describes(m, S)' /\ Describes(m, T)'
          BY <3>1, <4>1, <4>2
        <4>4. S = row[i]' /\ T = prior[i]' /\ S = seen[i]'
          BY <1>2, <2>1, <4>2
        <4> QED
          BY <4>3, <4>4
      <3> QED
        BY <3>2 DEF Described, P, C
    <2>13. Safe'
      <3>1. \A m \in Nodes : HashOf(config, m)' = HashOf(config, m)
        BY <1>2, <2>1, PlanSame
      <3>2. \A m \in Nodes : Good(m)' <=> Good(m)
        BY <1>2, <2>1, <3>1 DEF Good, Declared, P
      <3>3. \A m : Exists(m, row[P(m)].phys)' <=> Exists(m, row[P(m)].phys)
        BY <1>2 DEF Exists, P
      <3>4. Resumed' = Resumed
        BY <1>2, <2>1 DEF Resumed
      <3> QED
        BY <1>1, <1>2, <2>1, <3>2, <3>3, <3>4 DEF Safe, C
    <2>14. Sagas'
      <3> SUFFICES ASSUME NEW k \in DOMAIN saga PROVE Recordable(saga[k])'
        BY <2>1 DEF Sagas
      <3> PICK f : f = saga[k]
        OBVIOUS
      <3>1. f \in Undo
        BY <2>2
      <3>2. f.node \in Nodes /\ Recordable(f)
        BY <1>1, <3>1 DEF Undo, Sagas
      <3>3. Declared(f.node)' = Declared(f.node) /\ Change(f.node)' = Change(f.node)
        BY <1>2, <2>1, <3>2, PlanSame
      <3>4. P(f.node)' = P(f.node)
        BY DEF P
      <3>5. Recordable(f)'
        BY <2>1, <3>2, <3>3, <3>4 DEF Recordable
      <3>6. f = saga[k]'
        BY <2>1
      <3> QED
        BY <3>5, <3>6
    <2>15. Aimed' /\ Between' /\ Starting' /\ Resolved' /\ Planned' /\ Tasks' /\ Converged'
      BY <1>1, <1>2, <2>1 DEF Aimed, Between, Starting, Resolved, Planned, Tasks, Converged, Working
    <2> QED
      BY <2>8, <2>10, <2>11, <2>12, <2>13, <2>14, <2>15 DEF ExecInv
  <1> QED
    BY <1>3, <1>4

-----------------------------------------------------------------------------
(***************************************************************************)
(* The invariant holds, and what follows.                                  *)
(***************************************************************************)
LEMMA InitInv ==
  ASSUME Init PROVE ExecInv
  <1>1. NoRow \in Row /\ NoHash \in Hash /\ NoIds \in [Nodes -> Nat]
        /\ NoRow.status = "none" /\ NoRow.phys = 0 /\ NoRow.name = Undeclared
    <2>1. NoIds \in [Nodes -> Nat] /\ NoHash \in Hash
      BY DEF NoIds, NoHash, Hash, Wanted
    <2> QED
      BY <2>1 DEF NoRow, Row, Wanted
  <1>2. TypeOK
    <2>1. /\ row \in [Ids -> Row] /\ prior \in [Ids -> Row] /\ seen \in [Ids -> Row]
          /\ outs \in [Nodes -> Nat] /\ config \in [Nodes -> Wanted]
      BY <1>1 DEF Init, Hash
    <2>2. todo \in [Ids -> Seq(ProviderSteps \cup StateWrites)]
      BY DEF Init, NothingToDo
    <2>3. saga \in Seq(Undo) /\ undo \in Seq(UndoAwaits) /\ at \in 0..Len(saga)
      BY DEF Init
    <2>4. /\ live \in [Nodes -> SUBSET Resource] /\ minted \in Nat /\ recreated \in Nat
          /\ phase \in Phases /\ project \in Projects /\ undone \in BOOLEAN /\ lost \in BOOLEAN
          /\ predeleted \subseteq Ids /\ deleteIds \subseteq Ids /\ deferred \subseteq Nodes
          /\ inflight \subseteq Ids /\ unmarked \subseteq Nodes /\ aimed \subseteq project.configs
          /\ there \subseteq Nodes
      BY DEF Init, Phases
    <2>5. runs \in 0..MaxRuns /\ faults \in 0..MaxFaults
      BY BoundsAssumption DEF Init
    <2> QED
      BY <2>1, <2>2, <2>3, <2>4, <2>5 DEF TypeOK
  <1>3. Minted
    BY DEF Init, Minted
  <1>4. Described
    <2>1. \A n \in Nodes : Describes(n, NoRow)
      BY <1>1 DEF Init, Describes, Matches
    <2> QED
      BY <2>1, IdFacts DEF Init, Described
  <1>5. Safe
    <2> SUFFICES ASSUME NEW n \in Nodes
                 PROVE  /\ ~Good(n)
                        /\ row[C(n)].status = "none" /\ prior[C(n)].status = "none"
      BY DEF Safe
    <2>1. P(n) \in Ids /\ C(n) \in Ids
      BY IdFacts
    <2> QED
      BY <1>1, <2>1 DEF Init, Good
  <1>6. Aimed /\ Between /\ Starting /\ Resolved /\ Planned /\ Tasks /\ Sagas /\ Undoes
    BY DEF Init, Aimed, Between, Starting, Resolved, Planned, Tasks, Sagas, Undoes, Working
  <1>7. Converged
    <2> SUFFICES ASSUME NEW n \in Nodes
                 PROVE  row[C(n)] = NoRow /\ row[P(n)] = NoRow /\ config[n] = Undeclared
      BY DEF Converged
    <2> QED
      BY IdFacts DEF Init, NoHash
  <1> QED
    BY <1>2, <1>3, <1>4, <1>5, <1>6, <1>7 DEF ExecInv

\* The invariant speaks of no variable that a stuttering step changes.
LEMMA StutterInv ==
  ASSUME ExecInv, UNCHANGED vars PROVE ExecInv'
  <1> USE DEF vars, run, plan, work, rolling, count
  <1>1. /\ TypeOK' = TypeOK /\ Minted' = Minted /\ Described' = Described /\ Safe' = Safe
        /\ Aimed' = Aimed /\ Between' = Between /\ Starting' = Starting /\ Resolved' = Resolved
    BY DEF TypeOK, Minted, Described, Safe, Aimed, Between, Starting, Resolved, Matches, Describes,
       Exists, Good, Declared, Resumed, HashOf, Upstream, Deps, NoRow, NoHash, NoIds, NothingToDo,
       P, C, Ids, Row, Hash, Wanted, Resource, Undo
  <1>2. /\ \A n : Change(n)' = Change(n) /\ CreateFirst(n)' = CreateFirst(n)
                 /\ HashOf(config, n)' = HashOf(config, n)
                 /\ PlanOf(row, config, n)' = PlanOf(row, config, n)
    BY DEF Change, PlanOf, Classify, Moved, CreateFirst, CBDNodes, HashOf, Upstream, Deps, P
  <1>3. /\ Dropped' = Dropped /\ DestroyedHere' = DestroyedHere
    BY <1>2 DEF Dropped, DestroyedHere, DestroyFirst, P, C
  <1>4. Planned' = Planned /\ Sagas' = Sagas /\ Converged' = Converged
    BY <1>2, <1>3 DEF Planned, Sagas, Converged, Recordable, Declared, Working, P, C, Deps, NoRow,
       NoHash, NoIds
  <1>5. Tasks' = Tasks
    <2>1. /\ NoRow' = NoRow /\ Deps' = Deps /\ Companions' = Companions /\ Going' = Going
          /\ \A n : P(n)' = P(n) /\ C(n)' = C(n) /\ Declared(n)' = Declared(n)
      BY DEF NoRow, NoHash, NoIds, Deps, Companions, Going, P, C, Declared
    <2>2. \A n : Good(n)' = Good(n) /\ Made(n)' = Made(n) /\ Deferring(n)' = Deferring(n)
      BY <1>2, <2>1 DEF Good, Made, Matches, Exists, Deferring
    <2>3. \A n : Applied(n)' = Applied(n)
      BY <1>2, <2>1, <2>2 DEF Applied
    <2>4. \A n : Predeleting(n)' = Predeleting(n)
      BY <1>2, <2>1 DEF Predeleting
    <2>5. \A n : Forwarding(n)' = Forwarding(n)
      BY <1>2, <2>1, <2>2, <2>3 DEF Forwarding
    <2>6. \A n : Destroying(n)' = Destroying(n)
      BY <1>2, <2>1, <2>3 DEF Destroying
    <2>7. \A i : Stopping(i)' = Stopping(i)
      BY <1>2, <2>1 DEF Stopping, Matches, Exists, Resumed, ProviderSteps, StateWrites, CheckedWrites
    <2> QED
      BY <2>4, <2>5, <2>6, <2>7 DEF Tasks
  <1>6. Undoes' = Undoes
    <2>1. Undone' = Undone
      BY DEF Undone
    <2>2. UndoStands' = UndoStands
      BY <1>2, <2>1 DEF UndoStands, UndoLeft, Good, Declared, Matches, Exists, Resumed, P
    <2> QED
      BY <2>2 DEF Undoes
  <1> QED
    BY <1>1, <1>4, <1>5, <1>6 DEF ExecInv

\* Every step of a run, of a failure and of a rollback keeps the invariant.
LEMMA NextInv ==
  ASSUME ExecInv, [Next]_vars PROVE ExecInv'
  <1>1. CASE UNCHANGED vars
    BY <1>1, StutterInv
  <1>2. CASE Running
    <2>1. ASSUME NEW c \in project.configs, StartRun(c) PROVE ExecInv'
      BY <2>1, StartRunStep
    <2>2. ASSUME Predelete \/ Forward \/ Destroy \/ Complete PROVE ExecInv'
      BY <2>2, PredeleteStep, ForwardStep, DestroyStep, CompleteStep
    <2>3. ASSUME NEW n \in Nodes, Create(n) \/ Update(n) \/ DeleteLeft(n) PROVE ExecInv'
      BY <2>3, CreateStep, UpdateStep, DeleteLeftStep
    <2>4. ASSUME NEW i \in Ids, Delete(i) PROVE ExecInv'
      BY <2>4, DeleteStep
    <2>5. ASSUME NEW i \in Ids, NEW step \in StateWrites, Write(i, step) PROVE ExecInv'
      BY <2>5, WriteTaskStep
    <2> QED
      BY <1>2, <2>1, <2>2, <2>3, <2>4, <2>5 DEF Running
  <1>3. CASE Failing
    <2>1. ASSUME NEW i \in Ids, ProviderFails(i) \/ WriteFails(i) \/ LateEffect(i) PROVE ExecInv'
      BY <2>1, ProviderFailsStep, WriteFailsStep, LateEffectStep
    <2>2. ASSUME NEW n \in Nodes, UpdateGone(n) PROVE ExecInv'
      BY <2>2, UpdateGoneStep
    <2>3. ASSUME NEW leaseLost \in BOOLEAN, Interrupt(leaseLost) PROVE ExecInv'
      BY <2>3, InterruptStep
    <2>4. ASSUME Crash \/ Unwound PROVE ExecInv'
      BY <2>4, CrashStep, UnwoundStep
    <2> QED
      BY <1>3, <2>1, <2>2, <2>3, <2>4 DEF Failing
  <1>4. CASE RollingBack
    <2>1. ASSUME MarkStale \/ UndoDelete \/ UndoUpdate \/ UndoRecreate PROVE ExecInv'
      BY <2>1, MarkStaleStep, UndoDeleteStep, UndoUpdateStep, UndoRecreateStep
    <2>2. ASSUME NEW step \in {"drop", "restore", "restoreNew", "dropCompanion"}, UndoWrite(step)
          PROVE  ExecInv'
      BY <2>2, UndoWriteStep
    <2>3. ASSUME UndoFails \/ RollbackLosesLease \/ NextUndo \/ RollbackDone PROVE ExecInv'
      BY <2>3, UndoFailsStep, RollbackLosesLeaseStep, NextUndoStep, RollbackDoneStep
    <2> QED
      BY <1>4, <2>1, <2>2, <2>3 DEF RollingBack
  <1> QED
    BY <1>1, <1>2, <1>3, <1>4 DEF Next

LEMMA Invariance == Spec => []ExecInv
  <1>1. Init => ExecInv
    BY InitInv
  <1>2. ExecInv /\ [Next]_vars => ExecInv'
    BY NextInv
  <1> QED
    BY <1>1, <1>2, PTL DEF Spec

\* The rows, the resources and what a run knows keep their types, whatever fails.
THEOREM TypeCorrect == Spec => []TypeOK
  <1>1. ExecInv => TypeOK
    BY DEF ExecInv
  <1> QED
    BY <1>1, Invariance, PTL

\* However a run ended (a failure in either pass, a lost lease, a crash, a rollback cut
\* short), a run of the same config plans as NOOP no node whose resource is gone
\* (replace.py:88-91, records.py:166-176): for any graph, any names and any number of
\* runs and faults.
THEOREM ResumesSafely == Spec => []ResumeSafe
  <1>1. ExecInv => ResumeSafe
    <2> SUFFICES ASSUME ExecInv, phase = "idle", Resumed, NEW n \in Nodes,
                        PlanOf(row, config, n) = "noop"
                 PROVE  Exists(n, row[P(n)].phys)
      BY DEF ResumeSafe
    <2>1. Classify(row, config, n) = "noop"
      BY DEF PlanOf
    <2>2. Good(n)
      BY <2>1 DEF Classify, Good, Declared
    <2> QED
      BY <2>2 DEF ExecInv, Safe
  <1> QED
    BY <1>1, Invariance, PTL

\* A run that completes, after any history of failed ones of its config, leaves one
\* confirmed row per declared node for the resource that exists, no other row and nothing
\* to plan (executor/__init__.py:15: the state a crash leaves is resumable, and
\* executor/run.py resumes it).
THEOREM RunsConverge == Spec => []Converged
  <1>1. ExecInv => Converged
    BY DEF ExecInv
  <1> QED
    BY <1>1, Invariance, PTL

-----------------------------------------------------------------------------
(***************************************************************************)
(* What a rollback restores: what the saga says of a run, what the run has *)
(* left of a replaced resource, and what the undos have put back.          *)
(***************************************************************************)
\* The run's own delete of what the prior row describes is done, and no create brings
\* that id back.
Parted(n) == ~Exists(n, prior[P(n)].phys)

Companioned ==
    \A n \in Nodes : row[C(n)].status # "creating" /\ prior[C(n)].status # "creating"

\* A create-first replace leaves the old resource alone until the destroys.
Sparing == {"start", "predelete", "forward", "unwind", "rollback"}
Kept(n) == Deferring(n) /\ ~Twins(prior, n)
Spared ==
    phase \in Sparing => \A n \in there : Kept(n) => Exists(n, prior[P(n)].phys)

Entry(n, kind) == \E k \in DOMAIN saga : saga[k].node = n /\ saga[k].kind = kind
\* The forward pass is past the create or the update of n.
Acted(n) == todo[P(n)] \in {<<"persist">>, <<>>}

\* What the awaits a task has left say of what it has done of a replace.
Parting ==
    /\ phase \in {"predelete", "forward"} =>
          \A n \in Nodes : /\ P(n) \in predeleted /\ DestroyFirst(n)
                           /\ phase = "predelete" => todo[P(n)] = <<>>
             => Parted(n) /\ (project.rollback => Entry(n, "delete"))
    /\ phase = "forward" => \A n \in Nodes :
          /\ DestroyFirst(n) =>
                \/ todo[P(n)] \in {<<"ahead", "delete", "create", "persist">>,
                                   <<"delete", "create", "persist">>}
                \/ todo[P(n)] = <<"create", "persist">> /\ Parted(n)
                \/ Acted(n)
          /\ Deferring(n) =>
                \/ todo[P(n)] \in Companions \cup {<<"ahead", "create", "persist">>,
                                                   <<"create", "persist">>}
                \/ Acted(n)
    /\ phase = "unwind" => \A n \in Nodes :
          Deferring(n) /\ P(n) \in inflight => Head(todo[P(n)]) # "delete"

\* The saga has what the tasks have done, and nothing else.
Entered ==
    \A k \in DOMAIN saga :
        /\ phase = "predelete" => saga[k].kind = "delete" /\ todo[P(saga[k].node)] = <<>>
        /\ phase = "forward" => saga[k].kind = "delete" \/ Acted(saga[k].node)

\* What an entry says.
Means(e) ==
    LET n == e.node
    IN /\ e.kind = "create" => Change(n) \in {"create", "replace"}
       /\ e.kind = "update" => Change(n) = "update"
       /\ e.kind \in {"replace", "delete"} => DestroyFirst(n) /\ Parted(n)
       /\ e.kind = "delete" => P(n) \in predeleted
       /\ e.kind = "cbd" => Deferring(n)
       /\ e.kind \in {"create", "replace", "cbd"} =>
             Matches(n, e.phys, config[n]) /\ e.phys # 0

\* One entry per node, but for a delete in phase 0 followed by its create.
Earlier(k) == {j \in DOMAIN saga : j < k /\ saga[j].node = saga[k].node}
Follows(k) ==
    /\ \A j \in Earlier(k) : saga[j].kind = "delete" /\ saga[k].kind = "create"
    /\ saga[k].kind = "create" /\ Change(saga[k].node) = "replace" => Earlier(k) # {}
Entries == \A k \in DOMAIN saga : Means(saga[k]) /\ Follows(k)

\* What the undo of a node's first entry leaves.
Restored(e) ==
    LET n == e.node
        was == prior[P(n)]
        now == row[P(n)]
    IN IF e.kind = "create" THEN now = NoRow
       ELSE /\ now = [was EXCEPT !.phys = now.phys, !.saw = now.saw]
            /\ e.kind \in {"update", "cbd"} => now.phys = was.phys
            /\ e.kind # "cbd" => [name |-> was.name, phys |-> now.phys] \in live[n]

Behind(k) == k > at \/ (k = at /\ undo = <<>>)
Undoings ==
    phase = "rollback" /\ undone =>
       /\ ~lost
       /\ \A k \in DOMAIN saga : Behind(k) /\ Earlier(k) = {} => Restored(saga[k])
       /\ undo # <<>> =>
             /\ Head(undo) = "restoreNew" => Exists(Undone.node, recreated)
             /\ Head(undo) = "dropCompanion" => row[P(Undone.node)] = prior[P(Undone.node)]

RestoreInv == Companioned /\ Spared /\ Parting /\ Entered /\ Entries /\ Undoings

-----------------------------------------------------------------------------
(***************************************************************************)
(* What a rollback restores: the resources a run leaves and those it does  *)
(* away with.                                                              *)
(***************************************************************************)
\* No id that was given comes back.
NothingBack == \A m \in Nodes, p \in Nat : p <= minted /\ ~Exists(m, p) => ~Exists(m, p)'
OldStays == \A m \in Nodes, p \in Nat :
                Kept(m) /\ p = prior[P(m)].phys /\ Exists(m, p) => Exists(m, p)'

LEMMA LiveSame ==
  ASSUME UNCHANGED <<live, minted>>
  PROVE  Grows /\ NothingBack /\ OldStays
  BY DEF Grows, NothingBack, OldStays, Matches, Exists

LEMMA MakeFresh ==
  ASSUME TypeOK, NEW n \in Nodes, NEW name, MakeLive(n, name)
  PROVE  NothingBack
  <1>1. minted \in Nat /\ live \in [Nodes -> SUBSET Resource]
    BY DEF TypeOK
  <1>2. CASE Named(n, name) = {}
    <2>1. live' = [live EXCEPT ![n] = live[n] \cup {[name |-> name, phys |-> minted + 1]}]
      BY <1>2 DEF MakeLive
    <2>2. \A m \in Nodes : \A x \in live'[m] : x \in live[m] \/ x.phys = minted + 1
      BY <1>1, <2>1
    <2> QED
      BY <1>1, <2>2 DEF NothingBack, Exists
  <1>3. CASE Named(n, name) # {}
    <2>1. UNCHANGED <<live, minted>>
      BY <1>3 DEF MakeLive
    <2> QED
      BY <2>1, LiveSame
  <1> QED
    BY <1>2, <1>3

LEMMA RemoveFresh ==
  ASSUME TypeOK, NEW n \in Nodes, NEW R, Remove(n, R)
  PROVE  /\ NothingBack
         /\ (Kept(n) /\ Exists(n, prior[P(n)].phys) => R.phys # 0 /\ R.phys # prior[P(n)].phys)
            => OldStays
  <1>1. live \in [Nodes -> SUBSET Resource]
    BY DEF TypeOK
  <1>2. /\ live'[n] = {x \in live[n] : IF R.phys # 0 THEN x.phys # R.phys ELSE x.name # R.name}
        /\ \A m \in Nodes : m # n => live'[m] = live[m]
    BY <1>1 DEF Remove
  <1>3. \A m \in Nodes : live'[m] \subseteq live[m]
    BY <1>2
  <1>4. NothingBack
    BY <1>3 DEF NothingBack, Exists
  <1>5. ASSUME Kept(n) /\ Exists(n, prior[P(n)].phys) => R.phys # 0 /\ R.phys # prior[P(n)].phys
        PROVE  OldStays
    <2> SUFFICES ASSUME NEW m \in Nodes, NEW p \in Nat, Kept(m), p = prior[P(m)].phys, Exists(m, p)
                 PROVE  Exists(m, p)'
      BY DEF OldStays
    <2>1. PICK x \in live[m] : x.phys = p
      BY DEF Exists
    <2>2. x \in live'[m]
      BY <1>2, <1>5, <2>1
    <2> QED
      BY <2>1, <2>2 DEF Exists
  <1> QED
    BY <1>4, <1>5

\* A task's call, answered or not, deletes what a create-first replace set aside only
\* where it deletes the node's own row.
LEMMA TaskLive ==
  ASSUME ExecInv, Companioned, NEW i \in Ids, Stopping(i), MaybeCalled(i)
  PROVE  /\ Grows /\ NothingBack
         /\ (Kept(i[1]) /\ i = P(i[1]) => Head(todo[i]) # "delete") => OldStays
  <1>1. TypeOK /\ Minted /\ Described
    BY DEF ExecInv
  <1>2. PICK n : n \in Nodes /\ n = i[1] /\ (i = P(n) \/ i = C(n)) /\ P(n) # C(n)
    BY IdFacts
  <1>3. CASE UNCHANGED <<live, minted>>
    BY <1>3, LiveSame
  <1>4. CASE Head(todo[i]) = "create" /\ MakeLive(n, config[n])
    <2>1. Declared(n)
      BY <1>2, <1>4 DEF Stopping
    <2>2. config[n] \in Names
      BY <1>1, <1>2, <2>1, HashFacts
    <2>3. PICK id : id = CreatedId(n, config[n])
      OBVIOUS
    <2>4. Grows /\ \A m \in Nodes : \A p : Exists(m, p) => Exists(m, p)'
      BY <1>1, <1>2, <1>4, <2>2, <2>3, MakeStep
    <2> QED
      BY <1>1, <1>2, <1>4, <2>4, MakeFresh DEF OldStays
  <1>5. ASSUME NEW R, R = prior[C(n)], R.status # "none", Kept(n)
        PROVE  R.phys # 0 /\ R.phys # prior[P(n)].phys
    <2>1. R.status = "created"
      BY <1>1, <1>2, <1>5, IdFacts DEF Companioned, TypeOK, Row
    <2>2. R.phys # 0
      BY <1>1, <1>2, <1>5, <2>1 DEF Described, Describes
    <2>3. prior[P(n)].status = "created"
      BY <1>1, <1>2, <1>5, PlanFacts DEF Kept, Deferring
    <2> QED
      BY <1>5, <2>1, <2>2, <2>3 DEF Kept, Twins
  <1>6. ASSUME NEW R, Remove(n, R), Kept(n) => R.phys # 0 /\ R.phys # prior[P(n)].phys
        PROVE  Grows /\ NothingBack /\ OldStays
    BY <1>1, <1>2, <1>6, RemoveStep, RemoveFresh
  <1>7. CASE Head(todo[i]) = "delete" /\ Remove(n, prior[i])
    <2>1. CASE i = C(n)
      <3>1. prior[C(n)].status # "none"
        BY <1>2, <1>7, <2>1 DEF Stopping
      <3> QED
        BY <1>5, <1>6, <1>7, <2>1, <3>1
    <2>2. CASE i = P(n) /\ ~Kept(n)
      BY <1>6, <1>7, <2>2
    <2>3. CASE i = P(n) /\ Kept(n)
      BY <1>1, <1>2, <1>7, <2>3, RemoveStep, RemoveFresh
    <2> QED
      BY <1>2, <2>1, <2>2, <2>3
  <1>8. CASE Head(todo[i]) = "deleteLeft" /\ Remove(n, prior[C(n)])
    <2>1. prior[C(n)].status # "none"
      BY <1>2, <1>8 DEF Stopping
    <2> QED
      BY <1>5, <1>6, <1>8, <2>1
  <1> QED
    BY <1>2, <1>3, <1>4, <1>7, <1>8 DEF MaybeCalled

LEMMA PartedKept ==
  ASSUME ExecInv, NothingBack, UNCHANGED prior, NEW n \in Nodes, Parted(n)
  PROVE  Parted(n)'
  <1>1. PICK p : p = prior[P(n)].phys
    OBVIOUS
  <1>2. Matches(n, p, prior[P(n)].name)
    BY <1>1 DEF ExecInv, Described, Describes
  <1>3. p \in Nat /\ p <= minted
    BY <1>2 DEF Matches
  <1>4. ~Exists(n, p)'
    BY <1>1, <1>3 DEF NothingBack, Parted
  <1>5. p = prior[P(n)].phys'
    BY <1>1 DEF P
  <1> QED
    BY <1>4, <1>5 DEF Parted

\* What the plan says of a node, all through its run.
LEMMA RunSame ==
  ASSUME UNCHANGED <<project, config, prior>>, NEW n \in Nodes
  PROVE  /\ Change(n)' = Change(n) /\ Deferring(n)' = Deferring(n)
         /\ DestroyFirst(n)' = DestroyFirst(n) /\ Kept(n)' = Kept(n)
         /\ P(n)' = P(n) /\ C(n)' = C(n)
  <1>1. /\ Change(n)' = Change(n) /\ CreateFirst(n)' = CreateFirst(n)
        /\ Deferring(n)' = Deferring(n)
    BY PlanSame
  <1>2. P(n)' = P(n) /\ C(n)' = C(n)
    BY DEF P, C
  <1>3. Twins(prior, n)' = Twins(prior, n)
    BY <1>2 DEF Twins
  <1> QED
    BY <1>1, <1>2, <1>3 DEF DestroyFirst, Kept

LEMMA SparedKept ==
  ASSUME Spared, UNCHANGED <<project, config, prior, there>>, TypeOK, Described,
         phase' \in Sparing => phase \in Sparing /\ OldStays
  PROVE  Spared'
  <1> SUFFICES ASSUME phase' \in Sparing, NEW n \in Nodes, n \in there, Kept(n)'
               PROVE  Exists(n, prior[P(n)].phys)'
    BY DEF Spared, TypeOK, Sparing
  <1>1. PICK p : p = prior[P(n)].phys
    OBVIOUS
  <1>2. Kept(n) /\ Exists(n, p)
    BY <1>1, RunSame DEF Spared
  <1>3. p \in Nat
    BY <1>1, IdFacts DEF TypeOK, Row
  <1>4. Exists(n, p)'
    BY <1>1, <1>2, <1>3 DEF OldStays
  <1>5. p = prior[P(n)].phys'
    BY <1>1 DEF P
  <1> QED
    BY <1>4, <1>5

LEMMA MeansKept ==
  ASSUME ExecInv, Grows, NothingBack, UNCHANGED <<project, config, prior, predeleted>>,
         NEW e \in Undo, Means(e)
  PROVE  Means(e)'
  <1>1. PICK n : n = e.node /\ n \in Nodes
    BY DEF Undo
  <1>2. /\ Change(n)' = Change(n) /\ Deferring(n)' = Deferring(n)
        /\ DestroyFirst(n)' = DestroyFirst(n) /\ P(n)' = P(n)
    BY <1>1, RunSame
  <1>3. Parted(n) => Parted(n)'
    BY <1>1, PartedKept
  <1>4. Matches(n, e.phys, config[n]) => Matches(n, e.phys, config[n])'
    <2>1. PICK p, w : p = e.phys /\ w = config[n]
      OBVIOUS
    <2>2. Matches(n, p, w) => Matches(n, p, w)'
      BY <1>1 DEF Grows
    <2>3. w = config[n]'
      BY <2>1
    <2> QED
      BY <2>1, <2>2, <2>3
  <1> QED
    BY <1>1, <1>2, <1>3, <1>4 DEF Means

\* An entry is the node's first, or the create after its delete.
New(e) ==
    /\ \A k \in DOMAIN saga : saga[k].node = e.node => saga[k].kind = "delete" /\ e.kind = "create"
    /\ e.kind = "create" /\ Change(e.node) = "replace" => Entry(e.node, "delete")
Adds(e) == saga' = Append(saga, e) /\ Means(e)' /\ New(e)

LEMMA EntriesKept ==
  ASSUME ExecInv, Entries, Grows, NothingBack, UNCHANGED <<project, config, prior, predeleted>>,
         saga' = saga \/ \E e \in Undo : Adds(e)
  PROVE  Entries'
  <1>1. saga \in Seq(Undo)
    BY DEF ExecInv, TypeOK
  <1>2. ASSUME NEW k \in DOMAIN saga, k \in DOMAIN saga', \A j \in 1..k : saga'[j] = saga[j]
        PROVE  Means(saga[k])' /\ Follows(k)'
    <2>1. PICK e : e = saga[k] /\ e \in Undo
      BY <1>1
    <2>2. Means(e)' /\ Change(e.node)' = Change(e.node)
      <3>1. Means(e)
        BY <2>1 DEF Entries
      <3>2. e.node \in Nodes
        BY <2>1 DEF Undo
      <3> QED
        BY <2>1, <3>1, <3>2, MeansKept, RunSame
    <2>3. e = saga[k]' /\ \A j \in DOMAIN saga : j < k => j \in DOMAIN saga' /\ saga'[j] = saga[j]
      <3>1. k \in 1..Len(saga) /\ DOMAIN saga = 1..Len(saga)
        BY <1>1
      <3>2. Len(saga') >= k /\ DOMAIN saga' = 1..Len(saga')
        <4>1. saga' \in Seq(Undo)
          BY <1>1 DEF Adds
        <4> QED
          BY <1>2, <4>1
      <3> QED
        BY <1>2, <2>1, <3>1, <3>2
    <2>4. Earlier(k)' = Earlier(k)
      <3>1. \A j : j \in DOMAIN saga' /\ j < k => j \in DOMAIN saga
        <4>1. saga' \in Seq(Undo) /\ k \in 1..Len(saga)
          BY <1>1 DEF Adds
        <4> QED
          BY <1>1, <4>1
      <3> QED
        BY <2>1, <2>3, <3>1 DEF Earlier
    <2>5. Follows(k)
      BY DEF Entries
    <2>6. Follows(k)'
      <3>1. \A j \in Earlier(k) : saga'[j] = saga[j]
        BY <2>3 DEF Earlier
      <3> QED
        BY <2>1, <2>2, <2>3, <2>4, <2>5, <3>1 DEF Follows
    <2> QED
      BY <2>2, <2>3, <2>6
  <1>3. CASE saga' = saga
    <2>1. ASSUME NEW k \in DOMAIN saga' PROVE Means(saga[k])' /\ Follows(k)'
      BY <1>2, <1>3
    <2> QED
      BY <2>1 DEF Entries
  <1>4. ASSUME NEW e \in Undo, Adds(e) PROVE Entries'
    <2>1. /\ saga' = Append(saga, e) /\ Means(e)' /\ New(e)
      BY <1>4 DEF Adds
    <2>2. /\ DOMAIN saga' = 1..(Len(saga) + 1) /\ saga'[Len(saga) + 1] = e
          /\ DOMAIN saga = 1..Len(saga) /\ Len(saga) \in Nat
          /\ \A j \in DOMAIN saga : saga'[j] = saga[j]
      BY <1>1, <2>1
    <2>3. PICK l : l = Len(saga) + 1 /\ l \in DOMAIN saga'
      BY <2>2
    <2>4. e = saga[l]'
      BY <2>2, <2>3
    <2>5. Earlier(l)' = {j \in DOMAIN saga : saga[j].node = e.node}
      BY <2>2, <2>3, <2>4 DEF Earlier
    <2>6. Change(e.node)' = Change(e.node)
      <3>1. e.node \in Nodes
        BY DEF Undo
      <3> QED
        BY <3>1, RunSame
    <2>7. Follows(l)'
      <3>1. \A j \in Earlier(l)' : saga'[j].kind = "delete" /\ e.kind = "create"
        BY <2>1, <2>2, <2>5 DEF New
      <3>2. e.kind = "create" /\ Change(e.node) = "replace" => Earlier(l)' # {}
        BY <2>1, <2>5 DEF New, Entry
      <3> QED
        BY <2>4, <2>6, <3>1, <3>2 DEF Follows
    <2>8. Means(saga[l])'
      BY <2>1, <2>4
    <2>9. ASSUME NEW k \in DOMAIN saga', k # l PROVE Means(saga[k])' /\ Follows(k)'
      <3>1. k \in DOMAIN saga /\ \A j \in 1..k : saga'[j] = saga[j]
        BY <2>2, <2>3, <2>9
      <3> QED
        BY <1>2, <2>9, <3>1
    <2> QED
      BY <2>3, <2>7, <2>8, <2>9 DEF Entries
  <1> QED
    BY <1>3, <1>4

-----------------------------------------------------------------------------
(***************************************************************************)
(* What a rollback restores: companions.                                   *)
(***************************************************************************)
LEMMA CompanionsSame ==
  ASSUME Companioned, prior' = prior \/ prior' = row,
         \A n \in Nodes : row'[C(n)].status \in {"none", row[C(n)].status, "created"}
  PROVE  Companioned'
  <1>1. \A n \in Nodes : row'[C(n)].status # "creating" /\ prior'[C(n)].status # "creating"
    BY DEF Companioned
  <1> QED
    BY <1>1 DEF Companioned, C

LEMMA CompanionWrite ==
  ASSUME ExecInv, Companioned, NEW i \in Ids, Stopping(i), NEW step \in StateWrites,
         step = Head(todo[i]), row' = Written(i, step), UNCHANGED prior
  PROVE  Companioned'
  <1>1. PICK n : n \in Nodes /\ n = i[1] /\ (i = P(n) \/ i = C(n)) /\ P(n) # C(n) /\ C(n) \in Ids
    BY IdFacts
  <1>2. row \in [Ids -> Row] /\ prior \in [Ids -> Row] /\ TypeOK
    BY DEF ExecInv, TypeOK
  <1>3. \A m \in Nodes : C(m) # P(n) /\ C(m) \in Ids
    BY <1>1, IdFacts
  <1>4. NoRow.status = "none"
    BY DEF NoRow
  <1>5. CASE step \in {"ahead", "persist"}
    <2>1. \A m \in Nodes : row'[C(m)] = row[C(m)]
      BY <1>1, <1>2, <1>3, <1>5 DEF Written
    <2> QED
      BY <2>1, CompanionsSame
  <1>6. CASE step = "companion"
    <2>1. i = P(n)
      BY <1>1, <1>6 DEF Stopping
    <2>2. prior[P(n)].status = "created"
      BY <1>1, <1>2, <1>6, <2>1, PlanFacts DEF Stopping
    <2>3. row' = [row EXCEPT ![C(n)] = prior[P(n)]]
      BY <1>1, <1>6 DEF Written
    <2>4. \A m \in Nodes : row'[C(m)].status \in {row[C(m)].status, "created"}
      BY <1>1, <1>2, <1>3, <2>2, <2>3
    <2> QED
      BY <2>4, CompanionsSame
  <1>7. CASE step \in {"forget", "forgetLeft", "dropCompanion"}
    <2>1. PICK j : j \in Ids /\ row' = [row EXCEPT ![j] = NoRow]
      BY <1>1, <1>7 DEF Written
    <2>2. \A m \in Nodes : row'[C(m)].status \in {row[C(m)].status, "none"}
      BY <1>2, <1>3, <1>4, <2>1
    <2> QED
      BY <2>2, CompanionsSame
  <1> QED
    BY <1>5, <1>6, <1>7 DEF StateWrites, CheckedWrites

LEMMA CompanionMark ==
  ASSUME ExecInv, Companioned, NEW i \in Ids, MarkForgotten(i), UNCHANGED prior
  PROVE  Companioned'
  <1>1. PICK j : row' = row \/ row' = [row EXCEPT ![j].hash = NoHash]
    BY DEF MarkForgotten
  <1>2. row \in [Ids -> Row] /\ \A m \in Nodes : C(m) \in Ids
    BY IdFacts DEF ExecInv, TypeOK
  <1>3. \A m \in Nodes : row'[C(m)].status = row[C(m)].status
    BY <1>1, <1>2 DEF Row
  <1> QED
    BY <1>3, CompanionsSame

-----------------------------------------------------------------------------
(***************************************************************************)
(* What a rollback restores: a run's steps.                                *)
(***************************************************************************)
\* What every step within a run leaves alone, and what it may do to resources and saga.
Goes ==
    /\ UNCHANGED <<project, config, prior, predeleted, there>>
    /\ Grows /\ NothingBack
    /\ phase' \in Sparing => phase \in Sparing /\ OldStays
    /\ saga' = saga \/ \E e \in Undo : Adds(e)

LEMMA GoesOn ==
  ASSUME ExecInv, RestoreInv, Goes
  PROVE  Spared' /\ Entries'
  <1>1. TypeOK /\ Described /\ Spared /\ Entries
    BY DEF ExecInv, RestoreInv
  <1>2. Spared'
    BY <1>1, SparedKept DEF Goes
  <1>3. Entries'
    BY <1>1, EntriesKept DEF Goes
  <1> QED
    BY <1>2, <1>3

LEMMA GoesStep ==
  ASSUME ExecInv, RestoreInv, Goes, Companioned', Parting', Entered', phase' # "rollback"
  PROVE  RestoreInv'
  BY GoesOn DEF RestoreInv, Undoings

LEMMA EndRestores ==
  ASSUME RestoreInv, Ended, UNCHANGED row PROVE RestoreInv'
  <1>1. phase' = "idle" /\ saga' = <<>> /\ prior' = [i \in Ids |-> NoRow]
    BY DEF Ended
  <1>2. \A n \in Nodes : prior'[C(n)].status = "none"
    BY <1>1, IdFacts DEF NoRow
  <1>3. Companioned'
    BY <1>2 DEF RestoreInv, Companioned, C
  <1> QED
    BY <1>1, <1>3 DEF RestoreInv, Spared, Sparing, Parting, Entered, Entries, Undoings

LEMMA StartRestores ==
  ASSUME ExecInv, RestoreInv, NEW c, StartRun(c) PROVE RestoreInv'
  <1>1. /\ phase = "idle" /\ phase' = "start" /\ prior' = row /\ row' = row /\ saga' = saga
        /\ there' = {n \in Nodes : \E r \in live[n] : r.phys = row[P(n)].phys}
        /\ live' = live
    BY DEF StartRun
  <1>2. saga' = <<>>
    BY <1>1 DEF ExecInv, Between
  <1>3. Companioned'
    BY <1>1 DEF RestoreInv, Companioned, C
  <1>4. Spared'
    BY <1>1 DEF Spared, Exists, P
  <1> QED
    BY <1>1, <1>2, <1>3, <1>4 DEF RestoreInv, Parting, Entered, Entries, Undoings

\* In the passes before the destroys a task deletes nothing that a create-first replace
\* has set aside.
LEMMA SetAside ==
  ASSUME ExecInv, Parting, phase \in {"predelete", "forward"}, NEW n \in Nodes, Deferring(n),
         todo[P(n)] # <<>>
  PROVE  Head(todo[P(n)]) # "delete"
  <1>1. Tasks /\ Planned /\ TypeOK
    BY DEF ExecInv
  <1>2. CASE phase = "predelete"
    <2>1. P(n) \in predeleted
      BY <1>1, <1>2 DEF Tasks, Predeleting
    <2>2. P(n) \in DestroyedHere
      BY <1>1, <1>2, <2>1 DEF Planned, Working
    <2> QED
      BY <2>2, DestroyFacts DEF Deferring
  <1>3. CASE phase = "forward"
    BY <1>3, TaskSteps DEF Parting, Companions, Acted
  <1> QED
    BY <1>2, <1>3

LEMMA PredeleteRestores ==
  ASSUME ExecInv, RestoreInv, Predelete PROVE RestoreInv'
  <1>1. PICK first : first = Predeletes
    OBVIOUS
  <1>2. /\ phase = "start" /\ phase' = "predelete" /\ predeleted' = first
        /\ todo' = [i \in Ids |-> PredeleteSteps(i, first)]
        /\ UNCHANGED <<row, live, minted, project, config, prior, there, saga>>
    BY <1>1 DEF Predelete, count
  <1>3. saga' = <<>> /\ TypeOK /\ Described
    BY <1>2 DEF ExecInv, Between
  <1>4. Companioned'
    BY <1>2 DEF RestoreInv, Companioned, C
  <1>5. Spared'
    BY <1>2, <1>3, SparedKept, LiveSame DEF RestoreInv, Sparing
  <1>6. Parting'
    <2> SUFFICES ASSUME NEW n \in Nodes, P(n) \in first, DestroyFirst(n)
                 PROVE  todo'[P(n)] # <<>>
      BY <1>2, RunSame DEF Parting, P
    <2>1. P(n) \in Ids /\ P(n) \notin Dropped
      BY IdFacts, DestroyFacts DEF DestroyFirst
    <2>2. todo'[P(n)] = <<"ahead", "delete">>
      BY <1>2, <2>1 DEF PredeleteSteps
    <2> QED
      BY <2>2, TaskSteps
  <1> QED
    BY <1>2, <1>3, <1>4, <1>5, <1>6 DEF RestoreInv, Entered, Entries, Undoings

LEMMA ForwardRestores ==
  ASSUME ExecInv, RestoreInv, Forward PROVE RestoreInv'
  <1>1. /\ phase = "predelete" /\ todo = NothingToDo /\ phase' = "forward"
        /\ todo' = [i \in Ids |-> IF i[2] = "primary" THEN ApplySteps(i[1]) ELSE <<>>]
        /\ UNCHANGED <<row, live, minted, project, config, prior, predeleted, there, saga>>
    BY DEF Forward, plan, count
  <1>2. TypeOK /\ Planned /\ Companioned /\ Parting /\ Entered
    BY DEF ExecInv, RestoreInv
  <1>3. Goes
    BY <1>1, LiveSame DEF Goes, Sparing
  <1>4. Companioned'
    BY <1>1, <1>2 DEF Companioned, C
  <1>5. ASSUME NEW n \in Nodes
        PROVE  /\ P(n) \in predeleted /\ DestroyFirst(n) =>
                     Parted(n)' /\ (project.rollback => Entry(n, "delete")')
               /\ DestroyFirst(n) =>
                     \/ todo'[P(n)] = <<"ahead", "delete", "create", "persist">>
                     \/ todo'[P(n)] = <<"create", "persist">> /\ Parted(n)'
               /\ Deferring(n) => todo'[P(n)] \in Companions
    <2>1. P(n) \in Ids /\ todo[P(n)] = <<>> /\ todo'[P(n)] = ApplySteps(n)
      BY <1>1, IdFacts DEF NothingToDo
    <2>2. ASSUME P(n) \in predeleted, DestroyFirst(n)
          PROVE  Parted(n)' /\ (project.rollback => Entry(n, "delete")')
      <3>1. Parted(n) /\ (project.rollback => Entry(n, "delete"))
        BY <1>1, <1>2, <2>1, <2>2 DEF Parting
      <3> QED
        BY <1>1, <3>1 DEF Parted, Entry, Exists, P
    <2>3. ASSUME DestroyFirst(n)
          PROVE  \/ todo'[P(n)] = <<"ahead", "delete", "create", "persist">>
                 \/ todo'[P(n)] = <<"create", "persist">> /\ Parted(n)'
      BY <2>1, <2>2, <2>3 DEF DestroyFirst, ApplySteps, ReplaceSteps
    <2>4. Deferring(n) => todo'[P(n)] \in Companions
      BY <2>1 DEF Deferring, ApplySteps, ReplaceSteps, Companions
    <2> QED
      BY <2>2, <2>3, <2>4
  <1>6. Parting'
    <2>1. ASSUME NEW n \in Nodes
          PROVE  /\ DestroyFirst(n)' = DestroyFirst(n) /\ Deferring(n)' = Deferring(n)
                 /\ P(n)' = P(n)
      BY <1>1, RunSame
    <2> QED
      BY <1>1, <1>5, <2>1 DEF Parting, Companions
  <1>7. Entered'
    BY <1>1, <1>2 DEF Entered
  <1> QED
    BY <1>1, <1>3, <1>4, <1>6, <1>7, GoesStep

LEMMA DestroyRestores ==
  ASSUME ExecInv, RestoreInv, Destroy PROVE RestoreInv'
  <1>1. /\ phase' = "destroy"
        /\ UNCHANGED <<row, live, minted, project, config, prior, predeleted, there, saga>>
    BY DEF Destroy, plan, work, count
  <1>2. Goes
    BY <1>1, LiveSame DEF Goes, Sparing
  <1>3. Companioned'
    BY <1>1 DEF RestoreInv, Companioned, C
  <1> QED
    BY <1>1, <1>2, <1>3, GoesStep DEF Parting, Entered

\* A failure, an interrupt or a lost lease stops the tasks where they are.
LEMMA HaltRestores ==
  ASSUME ExecInv, RestoreInv, phase \in Working, NEW stopped, Halt(stopped),
         UNCHANGED <<plan, work, todo, project>>, Companioned',
         Grows, NothingBack, phase # "destroy" => OldStays
  PROVE  RestoreInv'
  <1>1. /\ phase' = (IF phase = "destroy" THEN "stop" ELSE "unwind")
        /\ inflight' \subseteq {j \in Ids : Ready(j)}
        /\ UNCHANGED <<config, prior, predeleted, there, saga>>
    BY DEF Halt, plan, work
  <1>2. Goes
    BY <1>1 DEF Goes, Sparing, Working
  <1>3. Parting'
    <2> SUFFICES ASSUME phase' = "unwind", NEW n \in Nodes, Deferring(n)', P(n)' \in inflight'
                 PROVE  Head(todo[P(n)]') # "delete"
      BY <1>1 DEF Parting
    <2>1. Deferring(n) /\ P(n)' = P(n)
      BY <1>1, RunSame
    <2>2. todo[P(n)] # <<>> /\ todo[P(n)]' = todo[P(n)]
      BY <1>1, <2>1 DEF Ready
    <2>3. phase \in {"predelete", "forward"}
      BY <1>1 DEF Working
    <2> QED
      BY <2>1, <2>2, <2>3, SetAside DEF RestoreInv
  <1>4. Entered'
    BY <1>1 DEF Entered
  <1> QED
    BY <1>1, <1>2, <1>3, <1>4, GoesStep

LEMMA FailsRestores ==
  ASSUME ExecInv, RestoreInv, NEW i \in Ids, ProviderFails(i) \/ WriteFails(i)
  PROVE  RestoreInv'
  <1>1. TypeOK /\ Minted /\ Planned /\ Tasks /\ Companioned /\ Parting
    BY DEF ExecInv, RestoreInv
  <1>2. PICK n : n = i[1] /\ n \in Nodes
    BY IdFacts
  <1>3. CASE ProviderFails(i)
    <2>1. /\ phase \in Working /\ Ready(i) /\ todo[i] # <<>> /\ MaybeCalled(i) /\ Halt({i})
          /\ UNCHANGED <<row, plan, work, todo, project, prior>>
      BY <1>3 DEF ProviderFails, Ready, plan
    <2>2. Stopping(i)
      BY <1>1, <2>1, Stops
    <2>3. phase # "destroy" /\ Kept(n) /\ i = P(n) => Head(todo[i]) # "delete"
      BY <1>1, <1>2, <2>1, SetAside DEF Kept, Working
    <2>4. Grows /\ NothingBack /\ (phase # "destroy" => OldStays)
      BY <1>1, <1>2, <2>1, <2>2, <2>3, TaskLive
    <2>5. Companioned'
      BY <1>1, <2>1 DEF Companioned, C
    <2> QED
      BY <2>1, <2>4, <2>5, HaltRestores
  <1>4. CASE WriteFails(i)
    <2>1. /\ phase \in Working /\ MarkForgotten(i) /\ Halt({i})
          /\ UNCHANGED <<live, minted, plan, work, todo, project, prior>>
      BY <1>4 DEF WriteFails, plan
    <2>2. Companioned'
      BY <1>1, <2>1, CompanionMark
    <2> QED
      BY <2>1, <2>2, LiveSame, HaltRestores
  <1> QED
    BY <1>3, <1>4

LEMMA StopRestores ==
  ASSUME ExecInv, RestoreInv,
         (\E n \in Nodes : UpdateGone(n)) \/ (\E leaseLost \in BOOLEAN : Interrupt(leaseLost))
  PROVE  RestoreInv'
  <1>1. PICK stopped : /\ phase \in Working /\ Halt(stopped)
                       /\ UNCHANGED <<row, live, minted, plan, work, todo, project>>
    BY DEF UpdateGone, Interrupt, Awaits, count
  <1>2. Companioned'
    BY <1>1 DEF RestoreInv, Companioned, C, plan
  <1> QED
    BY <1>1, <1>2, LiveSame, HaltRestores

LEMMA LateRestores ==
  ASSUME ExecInv, RestoreInv, NEW i \in Ids, LateEffect(i) PROVE RestoreInv'
  <1>1. TypeOK /\ Tasks /\ Companioned /\ Parting
    BY DEF ExecInv, RestoreInv
  <1>2. PICK n : n = i[1] /\ n \in Nodes
    BY IdFacts
  <1>3. /\ phase \in {"unwind", "stop"} /\ i \in inflight /\ inflight' \subseteq inflight
        /\ UNCHANGED <<phase, todo, project, config, prior, predeleted, there, saga>>
    BY DEF LateEffect, plan, work, count
  <1>4. Stopping(i)
    BY <1>1, <1>3 DEF Tasks
  <1>5. /\ Grows /\ NothingBack /\ (phase' \in Sparing => OldStays)
        /\ Companioned'
    <2>1. CASE MaybeCalled(i) /\ UNCHANGED row
      <3>1. phase = "unwind" /\ Kept(n) /\ i = P(n) => Head(todo[i]) # "delete"
        BY <1>1, <1>2, <1>3 DEF Parting, Kept
      <3>2. Companioned'
        BY <1>1, <1>3, <2>1 DEF Companioned, C
      <3> QED
        BY <1>1, <1>2, <1>3, <1>4, <2>1, <3>1, <3>2, TaskLive DEF Sparing
    <2>2. ASSUME NEW step, step = Head(todo[i]), step \in StateWrites, row' = Written(i, step),
                 UNCHANGED <<live, minted>>
          PROVE  Grows /\ NothingBack /\ OldStays /\ Companioned'
      BY <1>1, <1>3, <1>4, <2>2, CompanionWrite, LiveSame
    <2> QED
      BY <2>1, <2>2 DEF LateEffect
  <1>6. Goes
    BY <1>3, <1>5 DEF Goes
  <1>7. Parting'
    <2>1. \A m \in Nodes : Deferring(m)' = Deferring(m) /\ P(m)' = P(m)
      BY <1>3, RunSame
    <2> QED
      BY <1>1, <1>3, <2>1 DEF Parting
  <1>8. Entered'
    BY <1>3 DEF Entered
  <1> QED
    BY <1>3, <1>5, <1>6, <1>7, <1>8, GoesStep

-----------------------------------------------------------------------------
(***************************************************************************)
(* What a rollback restores: the tasks' own awaits.                        *)
(***************************************************************************)
\* An entry added for n's task.
Appends(n) == saga' = saga \/ \E e \in Undo : saga' = Append(saga, e) /\ e.node = n

LEMMA EntryKept ==
  ASSUME TypeOK, NEW n, Appends(n)
  PROVE  \A m, kind : Entry(m, kind) => Entry(m, kind)'
  <1> SUFFICES ASSUME NEW m, NEW kind, Entry(m, kind) PROVE Entry(m, kind)'
    OBVIOUS
  <1>1. saga \in Seq(Undo)
    BY DEF TypeOK
  <1>2. PICK k \in DOMAIN saga : saga[k].node = m /\ saga[k].kind = kind
    BY DEF Entry
  <1>3. k \in DOMAIN saga' /\ saga'[k] = saga[k]
    BY <1>1 DEF Appends
  <1> QED
    BY <1>2, <1>3 DEF Entry

LEMMA PartedAll ==
  ASSUME ExecInv, NothingBack, UNCHANGED <<project, config, prior, predeleted>>, NEW n, Appends(n)
  PROVE  \A m \in Nodes :
            /\ DestroyFirst(m)' = DestroyFirst(m) /\ Deferring(m)' = Deferring(m) /\ P(m)' = P(m)
            /\ Parted(m) => Parted(m)'
            /\ (project.rollback => Entry(m, "delete")) => (project.rollback => Entry(m, "delete"))'
  <1>1. TypeOK
    BY DEF ExecInv
  <1> SUFFICES ASSUME NEW m \in Nodes
               PROVE  /\ DestroyFirst(m)' = DestroyFirst(m) /\ Deferring(m)' = Deferring(m)
                      /\ P(m)' = P(m) /\ (Parted(m) => Parted(m)')
                      /\ (project.rollback => Entry(m, "delete"))
                         => (project.rollback => Entry(m, "delete"))'
    OBVIOUS
  <1>2. Entry(m, "delete") => Entry(m, "delete")'
    BY <1>1, EntryKept
  <1> QED
    BY <1>2, RunSame, PartedKept

LEMMA PredeleteParting ==
  ASSUME ExecInv, RestoreInv, phase = "predelete", NEW i \in Ids, todo[i] # <<>>, Advance(i),
         UNCHANGED <<project, config, prior, predeleted>>, NothingBack, NEW n, n = i[1], Appends(n),
         saga' # saga => i = P(n) /\ todo[i] = <<"delete">>
                         /\ \E e \in Undo : saga' = Append(saga, e) /\ e.node = n /\ e.kind = "delete",
         i = P(n) /\ DestroyFirst(n) /\ Tail(todo[i]) = <<>> =>
             Parted(n)' /\ (project.rollback => Entry(n, "delete")')
  PROVE  Parting' /\ Entered'
  <1>1. TypeOK /\ Parting /\ Entered
    BY DEF ExecInv, RestoreInv
  <1>2. /\ phase' = "predelete" /\ todo'[i] = Tail(todo[i])
        /\ \A j \in Ids : j # i => todo'[j] = todo[j]
    BY <1>1, Advanced
  <1>3. \A m \in Nodes : P(m) \in Ids /\ (P(m) = i => m = n)
    BY IdFacts
  <1>4. Parting'
    <2> SUFFICES ASSUME NEW m \in Nodes, P(m) \in predeleted, DestroyFirst(m), todo'[P(m)] = <<>>
                 PROVE  Parted(m)' /\ (project.rollback => Entry(m, "delete"))'
      BY <1>2, PartedAll DEF Parting
    <2>1. CASE P(m) = i
      BY <1>2, <1>3, <2>1
    <2>2. CASE P(m) # i
      <3>1. todo[P(m)] = <<>>
        BY <1>2, <1>3, <2>2
      <3>2. Parted(m) /\ (project.rollback => Entry(m, "delete"))
        BY <1>1, <3>1 DEF Parting
      <3> QED
        BY <3>2, PartedAll
    <2> QED
      BY <2>1, <2>2
  <1>5. saga \in Seq(Undo)
    BY <1>1 DEF TypeOK
  <1>6. Entered'
    <2> SUFFICES ASSUME NEW k \in DOMAIN saga'
                 PROVE  saga'[k].kind = "delete" /\ todo'[P(saga'[k].node)] = <<>>
      BY <1>2 DEF Entered, P
    <2>1. CASE k \in DOMAIN saga /\ saga'[k] = saga[k]
      <3>1. saga[k].kind = "delete" /\ todo[P(saga[k].node)] = <<>>
        BY <1>1, <2>1 DEF Entered
      <3>2. saga[k] \in Undo
        BY <1>5, <2>1
      <3>3. P(saga[k].node) \in Ids
        BY <1>3, <3>2 DEF Undo
      <3> QED
        BY <1>2, <2>1, <3>1, <3>3
    <2>2. ASSUME NEW e \in Undo, saga' = Append(saga, e), e.node = n, e.kind = "delete",
                 i = P(n), todo[i] = <<"delete">>
          PROVE  \/ k \in DOMAIN saga /\ saga'[k] = saga[k]
                 \/ (saga'[k].kind = "delete" /\ todo'[P(saga'[k].node)] = <<>>)
      <3>1. (k \in DOMAIN saga /\ saga'[k] = saga[k]) \/ saga'[k] = e
        BY <1>5, <2>2
      <3> QED
        BY <1>2, <2>2, <3>1, TaskSteps
    <2> QED
      BY <2>1, <2>2
  <1> QED
    BY <1>4, <1>6

LEMMA ForwardParting ==
  ASSUME ExecInv, RestoreInv, phase = "forward", NEW n \in Nodes, todo[P(n)] # <<>>, Advance(P(n)),
         UNCHANGED <<project, config, prior, predeleted>>, NothingBack, Appends(n),
         saga' # saga => Tail(todo[P(n)]) = <<"persist">>,
         DestroyFirst(n) /\ todo[P(n)] = <<"delete", "create", "persist">> => Parted(n)'
  PROVE  Parting' /\ Entered'
  <1>1. TypeOK /\ Parting /\ Entered /\ P(n) \in Ids
    BY IdFacts DEF ExecInv, RestoreInv
  <1>2. /\ phase' = "forward" /\ todo'[P(n)] = Tail(todo[P(n)])
        /\ \A j \in Ids : j # P(n) => todo'[j] = todo[j]
    BY <1>1, Advanced
  <1>3. \A m \in Nodes : P(m) \in Ids /\ (m # n => P(m) # P(n))
    BY IdFacts
  <1>4. ASSUME NEW m \in Nodes
        PROVE  /\ DestroyFirst(m) =>
                     \/ todo'[P(m)] \in {<<"ahead", "delete", "create", "persist">>,
                                        <<"delete", "create", "persist">>}
                     \/ todo'[P(m)] = <<"create", "persist">> /\ Parted(m)'
                     \/ todo'[P(m)] \in {<<"persist">>, <<>>}
               /\ Deferring(m) =>
                     \/ todo'[P(m)] \in Companions \cup {<<"ahead", "create", "persist">>,
                                                        <<"create", "persist">>}
                     \/ todo'[P(m)] \in {<<"persist">>, <<>>}
    <2>1. /\ DestroyFirst(m) =>
                \/ todo[P(m)] \in {<<"ahead", "delete", "create", "persist">>,
                                   <<"delete", "create", "persist">>}
                \/ todo[P(m)] = <<"create", "persist">> /\ Parted(m)
                \/ todo[P(m)] \in {<<"persist">>, <<>>}
          /\ Deferring(m) =>
                \/ todo[P(m)] \in Companions \cup {<<"ahead", "create", "persist">>,
                                                   <<"create", "persist">>}
                \/ todo[P(m)] \in {<<"persist">>, <<>>}
      BY <1>1 DEF Parting, Acted
    <2>2. CASE m # n
      BY <1>2, <1>3, <2>1, <2>2, PartedAll
    <2>3. CASE m = n
      <3>1. DestroyFirst(m) =>
                     \/ todo'[P(m)] \in {<<"ahead", "delete", "create", "persist">>,
                                        <<"delete", "create", "persist">>}
                     \/ todo'[P(m)] = <<"create", "persist">> /\ Parted(m)'
                     \/ todo'[P(m)] \in {<<"persist">>, <<>>}
        BY <1>2, <2>1, <2>3, TaskSteps
      <3>2. Deferring(m) =>
                     \/ todo'[P(m)] \in Companions \cup {<<"ahead", "create", "persist">>,
                                                        <<"create", "persist">>}
                     \/ todo'[P(m)] \in {<<"persist">>, <<>>}
        BY <1>2, <2>1, <2>3, TaskSteps DEF Companions
      <3> QED
        BY <3>1, <3>2
    <2> QED
      BY <2>2, <2>3
  <1>5. ASSUME NEW m \in Nodes, P(m) \in predeleted, DestroyFirst(m)
        PROVE  Parted(m)' /\ (project.rollback => Entry(m, "delete"))'
    <2>1. Parted(m) /\ (project.rollback => Entry(m, "delete"))
      BY <1>1, <1>5 DEF Parting
    <2> QED
      BY <2>1, PartedAll
  <1>6. Parting'
    <2>1. \A m \in Nodes : /\ DestroyFirst(m)' = DestroyFirst(m)
                           /\ Deferring(m)' = Deferring(m) /\ P(m)' = P(m)
      BY PartedAll
    <2> QED
      BY <1>2, <1>4, <1>5, <2>1 DEF Parting, Acted, Companions
  <1>7. saga \in Seq(Undo)
    BY <1>1 DEF TypeOK
  <1>8. Entered'
    <2> SUFFICES ASSUME NEW k \in DOMAIN saga'
                 PROVE  saga'[k].kind = "delete" \/ todo'[P(saga'[k].node)] \in {<<"persist">>, <<>>}
      BY <1>2 DEF Entered, Acted, P
    <2>1. CASE k \in DOMAIN saga /\ saga'[k] = saga[k]
      <3>1. saga[k].kind = "delete" \/ todo[P(saga[k].node)] \in {<<"persist">>, <<>>}
        BY <1>1, <2>1 DEF Entered, Acted
      <3>2. saga[k] \in Undo
        BY <1>7, <2>1
      <3>3. saga[k].node \in Nodes
        BY <3>2 DEF Undo
      <3> QED
        BY <1>2, <1>3, <2>1, <3>1, <3>3, TaskSteps
    <2>2. ASSUME NEW e \in Undo, saga' = Append(saga, e), e.node = n, saga' # saga
          PROVE  (k \in DOMAIN saga /\ saga'[k] = saga[k]) \/ todo'[P(saga'[k].node)] = <<"persist">>
      <3>1. (k \in DOMAIN saga /\ saga'[k] = saga[k]) \/ saga'[k] = e
        BY <1>7, <2>2
      <3> QED
        BY <1>2, <2>2, <3>1
    <2> QED
      BY <2>1, <2>2 DEF Appends
  <1> QED
    BY <1>6, <1>8

\* A task that is before its create or its update has no entry but its delete.
LEMMA NotYet ==
  ASSUME ExecInv, RestoreInv, phase = "forward", NEW n \in Nodes, ~Acted(n),
         NEW k \in DOMAIN saga, saga[k].node = n
  PROVE  saga[k].kind = "delete" /\ DestroyFirst(n) /\ P(n) \in predeleted
  <1>1. saga[k].kind = "delete"
    BY DEF RestoreInv, Entered
  <1>2. Means(saga[k])
    BY DEF RestoreInv, Entries
  <1> QED
    BY <1>1, <1>2 DEF Means

LEMMA CreateRestores ==
  ASSUME ExecInv, RestoreInv, NEW n \in Nodes, Create(n) PROVE RestoreInv'
  <1>1. TypeOK /\ Minted /\ Described /\ Planned /\ Tasks /\ Companioned /\ Parting
    BY DEF ExecInv, RestoreInv
  <1>2. PICK id, kind, i : /\ id = CreatedId(n, config[n]) /\ i = P(n)
                           /\ kind = (IF Change(n) = "create" \/ P(n) \in predeleted THEN "create"
                                      ELSE IF CreateFirst(n) THEN "cbd" ELSE "replace")
    OBVIOUS
  <1>3. /\ phase \in Working /\ todo[i] # <<>> /\ Head(todo[i]) = "create"
        /\ MakeLive(n, config[n])
        /\ Recorded(n, kind, id)
        /\ Advance(i)
        /\ UNCHANGED <<row, project, config, prior, predeleted, there>>
    BY <1>2 DEF Create, Awaits, Ready, plan, count
  <1>4. i \in Ids /\ i[1] = n /\ i = P(n)
    BY <1>2, IdFacts
  <1>5. phase = "forward"
    BY <1>3, <1>4, Heads DEF Working
  <1>6. todo[i] = <<"create", "persist">> /\ Declared(n) /\ Change(n) \in {"create", "replace"}
    BY <1>3, <1>4, <1>5, ForwardHeads, TaskSteps DEF Companions
  <1>7. Stopping(i) /\ config[n] \in Names /\ MaybeCalled(i)
    BY <1>1, <1>3, <1>4, <1>6, Stops, HashFacts DEF MaybeCalled
  <1>8. Grows /\ NothingBack /\ OldStays
    BY <1>1, <1>3, <1>4, <1>7, TaskLive
  <1>9. PICK name : name = config[n]
    OBVIOUS
  <1>10. id \in Nat /\ id # 0 /\ Matches(n, id, name)'
    BY <1>1, <1>2, <1>3, <1>7, <1>9, MakeStep
  <1>11. phase' = "forward" /\ todo'[i] = <<"persist">> /\ ~Acted(n)
    BY <1>1, <1>3, <1>4, <1>5, <1>6, Advanced, TaskSteps DEF Acted
  <1>12. DestroyFirst(n) => Parted(n) /\ Parted(n)'
    BY <1>1, <1>3, <1>4, <1>5, <1>8, <1>11, PartedKept, <1>6, TaskSteps DEF Parting
  <1>13. PICK e : e = [node |-> n, kind |-> kind, phys |-> id, saw |-> Saw(n)]
    OBVIOUS
  <1>14. e \in Undo /\ e.node = n /\ e.kind = kind /\ e.phys = id
    <2>1. Saw(n) \in [Nodes -> Nat]
      BY <1>1 DEF TypeOK, Saw
    <2> QED
      BY <1>2, <1>10, <1>13, <2>1 DEF Undo
  <1>15. Means(e)'
    <2>1. /\ Change(n)' = Change(n) /\ Deferring(n)' = Deferring(n)
          /\ DestroyFirst(n)' = DestroyFirst(n)
      BY <1>3, RunSame
    <2>2. Matches(n, id, config[n])'
      <3>1. name = config[n]'
        BY <1>3, <1>9
      <3> QED
        BY <1>10, <3>1
    <2>3. /\ kind \in {"create", "replace", "cbd"}
          /\ kind = "replace" => DestroyFirst(n)
          /\ kind = "cbd" => Deferring(n)
      BY <1>2, <1>6 DEF DestroyFirst, Deferring
    <2> QED
      BY <1>6, <1>10, <1>12, <1>14, <2>1, <2>2, <2>3 DEF Means
  <1>16. project.rollback => New(e)
    <2>1. ASSUME NEW k \in DOMAIN saga, saga[k].node = n
          PROVE  saga[k].kind = "delete" /\ kind = "create"
      BY <1>2, <1>5, <1>11, <2>1, NotYet
    <2>2. ASSUME kind = "create", Change(n) = "replace", project.rollback
          PROVE  Entry(n, "delete")
      <3>1. P(n) \in predeleted
        BY <1>2, <2>2
      <3>2. DestroyFirst(n)
        BY <1>1, <1>5, <2>2, <3>1, DestroyFacts DEF Planned, Working, DestroyFirst
      <3> QED
        BY <1>1, <1>5, <2>2, <3>1, <3>2 DEF Parting
    <2> QED
      BY <1>14, <2>1, <2>2 DEF New
  <1>17. saga' = saga \/ (Adds(e) /\ saga' = Append(saga, e))
    BY <1>3, <1>13, <1>15, <1>16 DEF Recorded, Adds
  <1>18. Goes
    BY <1>3, <1>5, <1>8, <1>11, <1>14, <1>17 DEF Goes, Sparing
  <1>19. Appends(n)
    BY <1>14, <1>17 DEF Appends
  <1>20. Parting' /\ Entered'
    BY <1>3, <1>4, <1>5, <1>6, <1>8, <1>19, ForwardParting, TaskSteps
  <1>21. Companioned'
    BY <1>1, <1>3 DEF Companioned, C
  <1> QED
    BY <1>11, <1>18, <1>20, <1>21, GoesStep

LEMMA UpdateRestores ==
  ASSUME ExecInv, RestoreInv, NEW n \in Nodes, Update(n) PROVE RestoreInv'
  <1>1. TypeOK /\ Companioned
    BY DEF ExecInv, RestoreInv
  <1>2. PICK i : i = P(n)
    OBVIOUS
  <1>3. /\ phase \in Working /\ todo[i] # <<>> /\ Head(todo[i]) = "update"
        /\ Recorded(n, "update", prior[P(n)].phys)
        /\ Advance(i)
        /\ UNCHANGED <<row, live, minted, project, config, prior, predeleted, there>>
    BY <1>2 DEF Update, Awaits, Ready, plan, count
  <1>4. i \in Ids /\ i[1] = n /\ i = P(n)
    BY <1>2, IdFacts
  <1>5. phase = "forward"
    BY <1>3, <1>4, Heads DEF Working
  <1>6. todo[i] = <<"update", "persist">> /\ Change(n) = "update"
    BY <1>3, <1>4, <1>5, ForwardHeads, TaskSteps DEF Companions
  <1>7. phase' = "forward" /\ ~Acted(n)
    BY <1>1, <1>3, <1>4, <1>5, <1>6, Advanced, TaskSteps DEF Acted
  <1>8. PICK e : e = [node |-> n, kind |-> "update", phys |-> prior[P(n)].phys, saw |-> Saw(n)]
    OBVIOUS
  <1>9. e \in Undo /\ e.node = n /\ e.kind = "update"
    <2>1. Saw(n) \in [Nodes -> Nat] /\ prior[P(n)].phys \in Nat
      BY <1>1, <1>4 DEF TypeOK, Saw, Row
    <2> QED
      BY <1>8, <2>1 DEF Undo
  <1>10. Means(e)'
    BY <1>3, <1>6, <1>9, RunSame DEF Means
  <1>11. New(e)
    <2>1. \A k \in DOMAIN saga : saga[k].node # n
      BY <1>5, <1>6, <1>7, NotYet DEF DestroyFirst
    <2> QED
      BY <1>9, <2>1 DEF New
  <1>12. saga' = saga \/ (Adds(e) /\ saga' = Append(saga, e))
    BY <1>3, <1>8, <1>10, <1>11 DEF Recorded, Adds
  <1>13. Goes
    BY <1>3, <1>5, <1>7, <1>9, <1>12, LiveSame DEF Goes, Sparing
  <1>14. Appends(n)
    BY <1>9, <1>12 DEF Appends
  <1>15. Parting' /\ Entered'
    BY <1>3, <1>4, <1>5, <1>6, <1>14, LiveSame, ForwardParting, TaskSteps
  <1>16. Companioned'
    BY <1>1, <1>3 DEF Companioned, C
  <1> QED
    BY <1>7, <1>13, <1>15, <1>16, GoesStep

LEMMA RemoveParts ==
  ASSUME TypeOK, Described, NEW n \in Nodes, Remove(n, prior[P(n)]), Change(n) = "replace",
         UNCHANGED prior
  PROVE  Parted(n)'
  <1> PICK p : p = prior[P(n)].phys
    OBVIOUS
  <1>1. prior[P(n)].status = "created" /\ p # 0
    BY PlanFacts DEF Described, Describes
  <1>2. live'[n] = {x \in live[n] : x.phys # p}
    BY <1>1 DEF Remove, TypeOK
  <1>3. ~Exists(n, p)'
    BY <1>2 DEF Exists
  <1>4. p = prior[P(n)].phys'
    BY DEF P
  <1> QED
    BY <1>3, <1>4 DEF Parted

LEMMA DeleteRestores ==
  ASSUME ExecInv, RestoreInv, NEW i \in Ids, Delete(i) PROVE RestoreInv'
  <1>1. TypeOK /\ Minted /\ Described /\ Planned /\ Tasks /\ Companioned /\ Parting /\ Entered
    BY DEF ExecInv, RestoreInv
  <1>2. PICK n : n \in Nodes /\ n = i[1] /\ (i = P(n) \/ i = C(n)) /\ P(n) # C(n)
    BY IdFacts
  <1>3. /\ phase \in Working /\ todo[i] # <<>> /\ Head(todo[i]) = "delete"
        /\ Remove(n, prior[i])
        /\ IF phase = "predelete" /\ i \notin Dropped THEN Recorded(n, "delete", 0)
           ELSE UNCHANGED saga
        /\ Advance(i)
        /\ UNCHANGED <<row, project, config, prior, predeleted, there>>
    BY <1>2 DEF Delete, Awaits, Ready, plan, count
  <1>4. Stopping(i) /\ MaybeCalled(i)
    BY <1>1, <1>2, <1>3, Stops DEF MaybeCalled
  <1>5. phase' = phase /\ todo'[i] = Tail(todo[i])
    BY <1>1, <1>3, Advanced
  <1>6. Grows /\ NothingBack /\ (phase # "destroy" => OldStays)
    <2>1. phase # "destroy" /\ Kept(n) => i # P(n)
      BY <1>1, <1>2, <1>3, SetAside DEF Kept, Working
    <2> QED
      BY <1>1, <1>2, <1>4, <2>1, TaskLive
  <1>7. i = P(n) /\ Change(n) = "replace" => Parted(n)'
    BY <1>1, <1>2, <1>3, RemoveParts
  <1>8. Companioned'
    BY <1>1, <1>3 DEF Companioned, C
  <1>9. CASE saga' # saga
    <2>1. phase = "predelete" /\ i \notin Dropped /\ Recorded(n, "delete", 0) /\ project.rollback
      BY <1>3, <1>9 DEF Recorded
    <2>2. i \in predeleted /\ i \in DestroyedHere
      BY <1>1, <1>3, <2>1, Heads DEF Planned, Working
    <2>3. i = P(n) /\ DestroyFirst(n)
      BY <1>2, <2>1, <2>2, DestroyFacts DEF DestroyFirst
    <2>4. Predeleting(n) /\ Change(n) = "replace"
      BY <1>1, <1>2, <2>1, <2>3 DEF Tasks, DestroyFirst
    <2>5. todo[i] = <<"delete">>
      BY <1>3, <2>2, <2>3, <2>4, TaskSteps DEF Predeleting
    <2>6. PICK e : e = [node |-> n, kind |-> "delete", phys |-> 0, saw |-> Saw(n)]
      OBVIOUS
    <2>7. e \in Undo /\ e.node = n /\ e.kind = "delete"
      <3>1. Saw(n) \in [Nodes -> Nat]
        BY <1>1 DEF TypeOK, Saw
      <3> QED
        BY <1>2, <2>6, <3>1 DEF Undo
    <2>8. Means(e)'
      BY <1>2, <1>3, <1>7, <2>2, <2>3, <2>4, <2>7, RunSame DEF Means
    <2>9. New(e)
      BY <1>1, <1>3, <2>1, <2>3, <2>7 DEF New, Entered
    <2>10. saga' = Append(saga, e) /\ Adds(e)
      BY <2>1, <2>6, <2>8, <2>9 DEF Recorded, Adds
    <2>11. Appends(n)
      BY <2>7, <2>10 DEF Appends
    <2>12. Entry(n, "delete")'
      <3>1. saga \in Seq(Undo)
        BY <1>1 DEF TypeOK
      <3>2. Len(saga) + 1 \in DOMAIN saga' /\ saga'[Len(saga) + 1] = e
        BY <2>10, <3>1
      <3> QED
        BY <2>7, <3>2 DEF Entry
    <2>13. Goes
      BY <1>3, <1>5, <1>6, <2>1, <2>7, <2>10 DEF Goes, Sparing
    <2>14. Parting' /\ Entered'
      BY <1>2, <1>3, <1>6, <1>7, <2>1, <2>3, <2>4, <2>5, <2>7, <2>10, <2>11, <2>12, PredeleteParting
    <2> QED
      BY <1>5, <1>8, <2>1, <2>13, <2>14, GoesStep
  <1>10. CASE saga' = saga
    <2>1. Goes
      BY <1>3, <1>5, <1>6, <1>10 DEF Goes, Sparing
    <2>2. Appends(n)
      BY <1>10 DEF Appends
    <2>3. CASE phase = "predelete"
      <3>1. i = P(n) /\ DestroyFirst(n) => Parted(n)' /\ ~project.rollback
        <4>1. ASSUME i = P(n), DestroyFirst(n), project.rollback PROVE FALSE
          <5>1. i \notin Dropped
            BY <1>2, <4>1, DestroyFacts DEF DestroyFirst
          <5>2. saga \in Seq(Undo)
            BY <1>1 DEF TypeOK
          <5> QED
            BY <1>3, <1>10, <2>3, <4>1, <5>1, <5>2 DEF Recorded
        <4> QED
          BY <1>7, <4>1 DEF DestroyFirst
      <3>2. Parting' /\ Entered'
        BY <1>2, <1>3, <1>6, <1>10, <2>2, <2>3, <3>1, PredeleteParting
      <3> QED
        BY <1>5, <1>8, <2>1, <2>3, <3>2, GoesStep
    <2>4. CASE phase = "forward"
      <3>1. i = P(n) /\ Change(n) = "replace"
        BY <1>2, <1>3, <2>4, ForwardHeads, TaskSteps DEF Companions
      <3>2. Parting' /\ Entered'
        BY <1>2, <1>3, <1>6, <1>7, <1>10, <2>2, <2>4, <3>1, ForwardParting
      <3> QED
        BY <1>5, <1>8, <2>1, <2>4, <3>2, GoesStep
    <2>5. CASE phase = "destroy"
      BY <1>5, <1>8, <2>1, <2>5, GoesStep DEF Parting, Entered
    <2> QED
      BY <1>3, <2>3, <2>4, <2>5 DEF Working
  <1> QED
    BY <1>9, <1>10

LEMMA DeleteLeftRestores ==
  ASSUME ExecInv, RestoreInv, NEW n \in Nodes, DeleteLeft(n) PROVE RestoreInv'
  <1>1. TypeOK /\ Minted /\ Planned /\ Tasks /\ Companioned
    BY DEF ExecInv, RestoreInv
  <1>2. PICK i : i = P(n)
    OBVIOUS
  <1>3. /\ phase \in Working /\ todo[i] # <<>> /\ Head(todo[i]) = "deleteLeft"
        /\ Remove(n, prior[C(n)])
        /\ Advance(i)
        /\ UNCHANGED <<row, project, config, prior, predeleted, there, saga>>
    BY <1>2 DEF DeleteLeft, Awaits, Ready, plan, count, work
  <1>4. i \in Ids /\ i[1] = n /\ i = P(n)
    BY <1>2, IdFacts
  <1>5. phase = "forward"
    BY <1>3, <1>4, Heads DEF Working
  <1>6. Stopping(i) /\ MaybeCalled(i)
    BY <1>1, <1>3, <1>4, Stops DEF MaybeCalled
  <1>7. Grows /\ NothingBack /\ OldStays
    BY <1>1, <1>3, <1>4, <1>6, TaskLive
  <1>8. phase' = "forward"
    BY <1>1, <1>3, <1>4, <1>5, Advanced
  <1>9. Goes /\ Appends(n)
    BY <1>3, <1>5, <1>7, <1>8 DEF Goes, Sparing, Appends
  <1>10. Parting' /\ Entered'
    BY <1>3, <1>4, <1>5, <1>7, <1>9, ForwardParting, TaskSteps
  <1>11. Companioned'
    BY <1>1, <1>3 DEF Companioned, C
  <1> QED
    BY <1>8, <1>9, <1>10, <1>11, GoesStep

LEMMA WriteRestores ==
  ASSUME ExecInv, RestoreInv, NEW i \in Ids, NEW step \in StateWrites, Write(i, step)
  PROVE  RestoreInv'
  <1>1. TypeOK /\ Minted /\ Planned /\ Tasks /\ Companioned
    BY DEF ExecInv, RestoreInv
  <1>2. PICK n : n \in Nodes /\ n = i[1] /\ (i = P(n) \/ i = C(n)) /\ P(n) # C(n)
    BY IdFacts
  <1>3. /\ phase \in Working /\ todo[i] # <<>> /\ Head(todo[i]) = step
        /\ row' = Written(i, step) /\ Advance(i)
        /\ UNCHANGED <<live, minted, project, config, prior, predeleted, there, saga>>
    BY DEF Write, Awaits, Ready, plan, count, work
  <1>4. Stopping(i)
    BY <1>1, <1>3, Stops
  <1>5. Companioned'
    BY <1>1, <1>3, <1>4, CompanionWrite
  <1>6. phase' = phase
    BY <1>1, <1>3, Advanced
  <1>7. Goes /\ Appends(n) /\ NothingBack
    BY <1>3, <1>6, LiveSame DEF Goes, Sparing, Appends, Working
  <1>8. step # "delete"
    BY DEF StateWrites, CheckedWrites
  <1>9. CASE phase = "predelete"
    <2>1. ASSUME i = P(n), DestroyFirst(n) PROVE Tail(todo[i]) # <<>>
      <3>1. i \in predeleted /\ Predeleting(n)
        BY <1>1, <1>2, <1>3, <1>9, Heads DEF Tasks, Working
      <3>2. todo[i] = <<"ahead", "delete">>
        BY <1>3, <1>8, <2>1, <3>1, TaskSteps DEF Predeleting, DestroyFirst
      <3> QED
        BY <3>2, TaskSteps
    <2>2. Parting' /\ Entered'
      BY <1>2, <1>3, <1>7, <1>9, <2>1, PredeleteParting
    <2> QED
      BY <1>5, <1>6, <1>7, <1>9, <2>2, GoesStep
  <1>10. CASE phase = "forward"
    <2>1. i = P(n)
      BY <1>2, <1>3, <1>10, ForwardHeads
    <2>2. Parting' /\ Entered'
      BY <1>2, <1>3, <1>7, <1>8, <1>10, <2>1, ForwardParting, TaskSteps
    <2> QED
      BY <1>5, <1>6, <1>7, <1>10, <2>2, GoesStep
  <1>11. CASE phase = "destroy"
    BY <1>5, <1>6, <1>7, <1>11, GoesStep DEF Parting, Entered
  <1> QED
    BY <1>3, <1>9, <1>10, <1>11 DEF Working

-----------------------------------------------------------------------------
(***************************************************************************)
(* What a rollback restores: the undos.                                    *)
(***************************************************************************)
LEMMA UndoEnds ==
  ASSUME NEW kind \in {"create", "update", "replace", "delete", "cbd"}, undo \in UndoLeft(kind)
  PROVE  /\ Head(undo) = "drop" => kind = "create"
         /\ Head(undo) = "dropCompanion" => kind = "cbd"
  <1>1. CASE kind \in {"create", "update"}
    BY <1>1, UndoneSteps DEF UndoLeft
  <1>2. CASE kind \in {"replace", "delete"}
    BY <1>2, UndoneSteps DEF UndoLeft
  <1>3. CASE kind = "cbd"
    BY <1>3, UndoneSteps DEF UndoLeft
  <1> QED
    BY <1>1, <1>2, <1>3

\* An await of n's undo touches nothing of other nodes.
OnlyOf(n) ==
    /\ UNCHANGED <<phase, project, config, prior, predeleted, there, saga, at, lost>>
    /\ \A m \in Nodes : m # n => row'[P(m)] = row[P(m)] /\ live'[m] = live[m]
    /\ \A m \in Nodes : row'[C(m)].status \in {"none", row[C(m)].status}
    /\ Grows /\ NothingBack /\ OldStays
    /\ undone' => undone

\* What is there once an undo's awaits have come this far.
Leaves(n, kind) ==
    /\ undo' = <<>> /\ Earlier(at) = {} =>
          LET was == prior[P(n)]
              now == row'[P(n)]
          IN IF kind = "create" THEN now = NoRow
             ELSE /\ now = [was EXCEPT !.phys = now.phys, !.saw = now.saw]
                  /\ kind \in {"update", "cbd"} => now.phys = was.phys
                  /\ kind # "cbd" => [name |-> was.name, phys |-> now.phys] \in live'[n]
    /\ undo' # <<>> =>
          /\ Head(undo') = "restoreNew" => Exists(n, recreated)'
          /\ Head(undo') = "dropCompanion" => row'[P(n)] = prior[P(n)]

LEMMA UndoRestores ==
  ASSUME ExecInv, RestoreInv, phase = "rollback", undo # <<>>, NEW n, n = Undone.node,
         OnlyOf(n), undone' => Leaves(n, Undone.kind)
  PROVE  RestoreInv'
  <1>1. TypeOK /\ Companioned /\ Undoings
    BY DEF ExecInv, RestoreInv
  <1>2. /\ UNCHANGED <<phase, project, config, prior, predeleted, there, saga, at, lost>>
        /\ \A m \in Nodes : m # n => row'[P(m)] = row[P(m)] /\ live'[m] = live[m]
        /\ \A m \in Nodes : row'[C(m)].status \in {"none", row[C(m)].status}
        /\ Grows /\ NothingBack /\ OldStays
        /\ undone' => undone
    BY DEF OnlyOf
  <1>3. n \in Nodes /\ at # 0 /\ Undone \in Undo
    BY UndoFacts
  <1>4. at \in DOMAIN saga /\ saga \in Seq(Undo) /\ Undone = saga[at]
    BY <1>1, <1>3 DEF TypeOK, Undone
  <1>5. Goes
    BY <1>2 DEF Goes, Sparing
  <1>6. Companioned'
    BY <1>1, <1>2, CompanionsSame
  <1>7. Parting' /\ Entered'
    BY <1>2 DEF Parting, Entered
  <1>8. Undoings'
    <2> SUFFICES ASSUME undone' PROVE
          /\ ~lost
          /\ \A k \in DOMAIN saga : Behind(k)' /\ Earlier(k) = {} => Restored(saga[k])'
          /\ undo' # <<>> =>
                /\ Head(undo') = "restoreNew" => Exists(n, recreated)'
                /\ Head(undo') = "dropCompanion" => row'[P(n)] = prior[P(n)]
      <3>1. \A k : Earlier(k)' = Earlier(k)
        BY <1>2 DEF Earlier
      <3>2. Undone.node' = n
        BY <1>2 DEF Undone
      <3>3. Exists(Undone.node, recreated)' <=> Exists(n, recreated)'
        BY <3>2 DEF Exists
      <3>4. row[P(Undone.node)]' = row'[P(n)] /\ prior[P(Undone.node)]' = prior[P(n)]
        BY <1>2, <3>2 DEF P
      <3> QED
        BY <1>2, <3>1, <3>3, <3>4 DEF Undoings
    <2>1. ~lost
      BY <1>1, <1>2 DEF Undoings
    <2>2. ASSUME NEW k \in DOMAIN saga, Behind(k)', Earlier(k) = {} PROVE Restored(saga[k])'
      <3> PICK e : e = saga[k]
        OBVIOUS
      <3>1. e = saga[k]' /\ e \in Undo /\ e.node \in Nodes
        <4>1. e \in Undo
          BY <1>4
        <4> QED
          BY <1>2, <4>1 DEF Undo
      <3>2. Restored(e)'
        <4>1. CASE k = at /\ undo' = <<>>
          <5>1. e = Undone /\ Earlier(at) = {}
            BY <1>4, <2>2, <4>1
          <5>2. Leaves(n, e.kind)
            BY <5>1
          <5> QED
            BY <1>2, <4>1, <5>1, <5>2 DEF Leaves, Restored, P
        <4>2. CASE k # at
          <5>1. k > at
            BY <1>2, <2>2, <4>2 DEF Behind
          <5>2. Restored(e)
            BY <1>1, <1>2, <2>2, <5>1 DEF Undoings, Behind
          <5>3. e.node # n
            BY <1>4, <2>2, <5>1 DEF Earlier
          <5>4. row'[P(e.node)] = row[P(e.node)] /\ live'[e.node] = live[e.node]
            BY <1>2, <3>1, <5>3
          <5> QED
            BY <1>2, <5>2, <5>4 DEF Restored, P
        <4>3. k = at => undo' = <<>>
          <5>1. at \in Nat
            BY <1>1 DEF TypeOK
          <5> QED
            BY <1>2, <2>2, <5>1 DEF Behind
        <4> QED
          BY <4>1, <4>2, <4>3
      <3> QED
        BY <3>1, <3>2
    <2> QED
      BY <2>1, <2>2 DEF Leaves
  <1> QED
    BY <1>5, <1>6, <1>7, <1>8, GoesOn DEF RestoreInv

\* What every await of an undo that returns leaves alone.
LEMMA UndoDoneKeeps ==
  ASSUME TypeOK, UndoDone
  PROVE  /\ UNCHANGED <<phase, project, config, prior, predeleted, there, saga, at, lost, undone>>
         /\ undo' = Tail(undo)
  BY DEF UndoDone, run, plan, work, count

\* An id that exists, by the name it has.
LEMMA Found ==
  ASSUME TypeOK, NEW n \in Nodes, NEW p, NEW w, Exists(n, p), Matches(n, p, w)
  PROVE  [name |-> w, phys |-> p] \in live[n]
  <1>1. PICK r \in live[n] : r.phys = p
    BY DEF Exists
  <1>2. r.name = w /\ r \in Resource
    BY <1>1 DEF Matches, TypeOK
  <1>3. r = [name |-> w, phys |-> p]
    BY <1>1, <1>2 DEF Resource
  <1> QED
    BY <1>3

\* What an undo deletes is not what a create-first replace has set aside.
LEMMA UndoneIsNew ==
  ASSUME ExecInv, RestoreInv, phase = "rollback", undo # <<>>, NEW n, n = Undone.node,
         Undone.kind \in {"create", "replace", "cbd"},
         Remove(n, [phys |-> Undone.phys, name |-> Undeclared])
  PROVE  NothingBack /\ OldStays /\ Grows
  <1>1. TypeOK /\ Minted /\ Described
    BY DEF ExecInv
  <1>2. n \in Nodes /\ at # 0
    BY UndoFacts
  <1>3. Matches(n, Undone.phys, config[n]) /\ Undone.phys # 0
    <2>1. at \in DOMAIN saga
      BY <1>1, <1>2 DEF TypeOK
    <2>2. Means(Undone)
      BY <2>1 DEF RestoreInv, Entries, Undone
    <2> QED
      BY <2>2 DEF Means
  <1>4. PICK R : R = [phys |-> Undone.phys, name |-> Undeclared]
    OBVIOUS
  <1>5. ASSUME Kept(n), Exists(n, prior[P(n)].phys) PROVE Undone.phys # prior[P(n)].phys
    <2>1. Matches(n, prior[P(n)].phys, prior[P(n)].name) /\ prior[P(n)].name # config[n]
      BY <1>1, <1>2, <1>5, OldRow DEF Kept, Deferring, Describes
    <2> QED
      BY <1>3, <1>5, <2>1 DEF Matches, Exists
  <1>6. NothingBack /\ OldStays
    BY <1>1, <1>2, <1>3, <1>4, <1>5, RemoveFresh
  <1>7. Grows
    BY <1>1, <1>2, RemoveStep
  <1> QED
    BY <1>6, <1>7

LEMMA RecreateKeeps ==
  ASSUME ExecInv, NEW n \in Nodes, Change(n) = "replace", MakeLive(n, prior[P(n)].name),
         NEW id, id = CreatedId(n, prior[P(n)].name)
  PROVE  NothingBack /\ OldStays /\ Grows /\ Exists(n, id)'
  <1> PICK name : name = prior[P(n)].name
    OBVIOUS
  <1>1. TypeOK /\ Minted /\ Described
    BY DEF ExecInv
  <1>2. name \in Names
    BY <1>1, OldRow
  <1>3. Grows /\ (\A m \in Nodes : \A p : Exists(m, p) => Exists(m, p)') /\ Exists(n, id)'
    BY <1>1, <1>2, MakeStep
  <1> QED
    BY <1>1, <1>3, MakeFresh DEF OldStays

LEMMA OthersLive ==
  ASSUME TypeOK, NEW n \in Nodes, (\E R : Remove(n, R)) \/ (\E name : MakeLive(n, name))
  PROVE  \A m \in Nodes : m # n => live'[m] = live[m]
  BY DEF TypeOK, Remove, MakeLive

LEMMA UndoTailLeft ==
  ASSUME NEW kind \in {"create", "update", "replace", "delete", "cbd"}, undo \in UndoLeft(kind),
         Head(undo) \in {"stale", "deleteNew"}
  PROVE  Tail(undo) # <<>>
  <1>1. CASE kind \in {"create", "update"}
    BY <1>1, UndoneSteps DEF UndoLeft
  <1>2. CASE kind \in {"replace", "delete"}
    BY <1>2, UndoneSteps DEF UndoLeft
  <1>3. CASE kind = "cbd"
    BY <1>3, UndoneSteps DEF UndoLeft
  <1> QED
    BY <1>1, <1>2, <1>3

LEMMA MarkRestores ==
  ASSUME ExecInv, RestoreInv, MarkStale PROVE RestoreInv'
  <1> PICK n : n = Undone.node
    OBVIOUS
  <1>1. TypeOK
    BY DEF ExecInv
  <1>2. phase = "rollback" /\ undo # <<>> /\ Head(undo) = "stale" /\ UndoDone
        /\ UNCHANGED <<live, minted>>
        /\ (row' = row \/ row' = [row EXCEPT ![P(n)] = [seen[P(n)] EXCEPT !.hash = NoHash]])
    BY DEF MarkStale, Undoing
  <1>3. /\ UNCHANGED <<phase, project, config, prior, predeleted, there, saga, at, lost, undone>>
        /\ undo' = Tail(undo)
    BY <1>1, <1>2, UndoDoneKeeps
  <1>4. /\ undo \in UndoLeft(Undone.kind) /\ n \in Nodes
        /\ Undone.kind \in {"create", "update", "replace", "delete", "cbd"}
    BY <1>2, UndoFacts
  <1>5. undo' # <<>> /\ Head(undo') \in {"deleteNew", "updateOld", "recreate"}
    BY <1>2, <1>3, <1>4, UndoShapes, UndoTailLeft
  <1>6. OnlyOf(n)
    <2>1. \A m \in Nodes : /\ m # n => row'[P(m)] = row[P(m)]
                           /\ row'[C(m)] = row[C(m)]
      BY <1>1, <1>2, <1>4, IdFacts DEF TypeOK
    <2> QED
      BY <1>2, <1>3, <2>1, LiveSame DEF OnlyOf
  <1>7. Leaves(n, Undone.kind)
    BY <1>5 DEF Leaves
  <1> QED
    BY <1>2, <1>6, <1>7, UndoRestores

LEMMA UndoDeleteRestores ==
  ASSUME ExecInv, RestoreInv, UndoDelete PROVE RestoreInv'
  <1> PICK n : n = Undone.node
    OBVIOUS
  <1>1. TypeOK
    BY DEF ExecInv
  <1>2. phase = "rollback" /\ undo # <<>> /\ Head(undo) = "deleteNew" /\ UndoDone
        /\ Remove(n, [phys |-> Undone.phys, name |-> Undeclared]) /\ UNCHANGED row
    BY DEF UndoDelete, Undoing
  <1>3. /\ UNCHANGED <<phase, project, config, prior, predeleted, there, saga, at, lost, undone>>
        /\ undo' = Tail(undo)
    BY <1>1, <1>2, UndoDoneKeeps
  <1>4. /\ undo \in UndoLeft(Undone.kind) /\ n \in Nodes
        /\ Undone.kind \in {"create", "update", "replace", "delete", "cbd"}
    BY <1>2, UndoFacts
  <1>5. undo' # <<>> /\ Head(undo') \in {"drop", "recreate", "restore"}
        /\ Undone.kind \in {"create", "replace", "cbd"}
    BY <1>2, <1>3, <1>4, UndoShapes, UndoTailLeft
  <1>6. NothingBack /\ OldStays /\ Grows
    BY <1>2, <1>5, UndoneIsNew
  <1>7. OnlyOf(n)
    BY <1>1, <1>2, <1>3, <1>4, <1>6, OthersLive DEF OnlyOf
  <1>8. Leaves(n, Undone.kind)
    BY <1>5 DEF Leaves
  <1> QED
    BY <1>2, <1>7, <1>8, UndoRestores

LEMMA UndoUpdateRestores ==
  ASSUME ExecInv, RestoreInv, UndoUpdate PROVE RestoreInv'
  <1> PICK n : n = Undone.node
    OBVIOUS
  <1>1. TypeOK
    BY DEF ExecInv
  <1>2. phase = "rollback" /\ undo # <<>> /\ Head(undo) = "updateOld" /\ UndoDone
        /\ UNCHANGED <<row, live, minted>>
    BY DEF UndoUpdate, Undoing
  <1>3. /\ UNCHANGED <<phase, project, config, prior, predeleted, there, saga, at, lost, undone>>
        /\ undo' = Tail(undo)
    BY <1>1, <1>2, UndoDoneKeeps
  <1>4. /\ undo \in UndoLeft(Undone.kind) /\ n \in Nodes
        /\ Undone.kind \in {"create", "update", "replace", "delete", "cbd"}
    BY <1>2, UndoFacts
  <1>5. undo' = <<"restore">>
    BY <1>2, <1>3, <1>4, UndoShapes
  <1>6. OnlyOf(n)
    BY <1>2, <1>3, LiveSame DEF OnlyOf
  <1>7. Leaves(n, Undone.kind)
    BY <1>5, UndoneSteps DEF Leaves
  <1> QED
    BY <1>2, <1>6, <1>7, UndoRestores

LEMMA UndoRecreateRestores ==
  ASSUME ExecInv, RestoreInv, UndoRecreate PROVE RestoreInv'
  <1> PICK n, id : n = Undone.node /\ id = CreatedId(n, prior[P(n)].name)
    OBVIOUS
  <1>1. TypeOK
    BY DEF ExecInv
  <1>2. phase = "rollback" /\ undo # <<>> /\ Head(undo) = "recreate" /\ UndoDone
        /\ row' = row /\ MakeLive(n, prior[P(n)].name) /\ recreated' = id
    BY DEF UndoRecreate, Undoing
  <1>3. /\ UNCHANGED <<phase, project, config, prior, predeleted, there, saga, at, lost, undone>>
        /\ undo' = Tail(undo)
    BY <1>1, <1>2, UndoDoneKeeps
  <1>4. /\ undo \in UndoLeft(Undone.kind) /\ n \in Nodes
        /\ Undone.kind \in {"create", "update", "replace", "delete", "cbd"}
        /\ Undone.kind \in {"replace", "delete", "cbd"} => Change(n) = "replace"
    BY <1>2, UndoFacts
  <1>5. undo' = <<"restoreNew">> /\ Undone.kind \in {"replace", "delete"}
    BY <1>2, <1>3, <1>4, UndoShapes
  <1>6. NothingBack /\ OldStays /\ Grows /\ Exists(n, id)'
    BY <1>2, <1>4, <1>5, RecreateKeeps
  <1>7. OnlyOf(n)
    BY <1>1, <1>2, <1>3, <1>4, <1>6, OthersLive DEF OnlyOf
  <1>8. Exists(n, recreated)'
    BY <1>2, <1>6 DEF Exists
  <1>9. Leaves(n, Undone.kind)
    BY <1>5, <1>8, UndoneSteps DEF Leaves
  <1> QED
    BY <1>2, <1>7, <1>9, UndoRestores

LEMMA UndoWriteRestores ==
  ASSUME ExecInv, RestoreInv, NEW step \in {"drop", "restore", "restoreNew", "dropCompanion"},
         UndoWrite(step)
  PROVE  RestoreInv'
  <1> PICK n, was : n = Undone.node /\ was = prior[P(n)]
    OBVIOUS
  <1>1. TypeOK /\ Minted /\ Described /\ Undoings
    BY DEF ExecInv, RestoreInv
  <1>2. phase = "rollback" /\ undo # <<>> /\ Head(undo) = step /\ UndoDone
        /\ UNCHANGED <<live, minted, recreated>> /\ row' = UndoWritten(step)
    BY DEF UndoWrite, Undoing
  <1>3. /\ UNCHANGED <<phase, project, config, prior, predeleted, there, saga, at, lost, undone>>
        /\ undo' = Tail(undo)
    BY <1>1, <1>2, UndoDoneKeeps
  <1>4. /\ n \in Nodes /\ undo \in UndoLeft(Undone.kind) /\ Undone \in Undo
        /\ Undone.kind \in {"create", "update", "replace", "delete", "cbd"}
        /\ step = "restore" /\ Undone.kind = "update" => Exists(n, was.phys)
        /\ step = "restoreNew" => Matches(n, recreated, was.name)
    BY <1>2, UndoFacts
  <1>5. /\ P(n) \in Ids /\ C(n) \in Ids /\ P(n) # C(n) /\ NoRow.status = "none"
        /\ \A m \in Nodes : P(m) \in Ids /\ C(m) \in Ids /\ P(m) # C(n) /\ C(m) # P(n)
                            /\ (m # n => P(m) # P(n) /\ C(m) # C(n))
    BY <1>1, <1>4, IdFacts, NoRowFacts
  <1>6. row \in [Ids -> Row] /\ was \in Row /\ Describes(n, was)
    BY <1>1, <1>4, <1>5 DEF TypeOK, Described
  <1>7. /\ step = "drop" => Undone.kind = "create" /\ Tail(undo) = <<>>
        /\ step = "dropCompanion" => Undone.kind = "cbd" /\ Tail(undo) = <<>>
        /\ step = "restoreNew" => Undone.kind \in {"replace", "delete"} /\ Tail(undo) = <<>>
        /\ step = "restore" => \/ Undone.kind = "update" /\ Tail(undo) = <<>>
                               \/ Undone.kind = "cbd" /\ Tail(undo) = <<"dropCompanion">>
    BY <1>2, <1>4, UndoShapes, UndoEnds
  <1>8. /\ step = "drop" => row' = [row EXCEPT ![P(n)] = NoRow]
        /\ step = "restore" => row' = [row EXCEPT ![P(n)] = was]
        /\ step = "dropCompanion" => row' = [row EXCEPT ![C(n)] = NoRow]
        /\ step = "restoreNew" => \E S : row' =
              [row EXCEPT ![P(n)] = [was EXCEPT !.phys = recreated, !.saw = S]]
    BY <1>2 DEF UndoWritten
  <1>9. OnlyOf(n)
    <2>1. \A m \in Nodes : /\ m # n => row'[P(m)] = row[P(m)]
                           /\ row'[C(m)].status \in {"none", row[C(m)].status}
      <3>1. CASE step = "dropCompanion"
        BY <1>5, <1>6, <1>8, <3>1
      <3>2. CASE step # "dropCompanion"
        <4>1. PICK S : row' = [row EXCEPT ![P(n)] = S]
          BY <1>8, <3>2
        <4> QED
          BY <1>5, <1>6, <4>1
      <3> QED
        BY <3>1, <3>2
    <2> QED
      BY <1>2, <1>3, <2>1, LiveSame DEF OnlyOf
  <1>10. was = [was EXCEPT !.phys = was.phys, !.saw = was.saw]
    BY <1>6 DEF Row
  <1>11. ASSUME undone' PROVE Leaves(n, Undone.kind)
    <2>1. undone
      BY <1>3, <1>11
    <2>2. CASE step = "drop"
      <3>1. row'[P(n)] = NoRow /\ undo' = <<>>
        BY <1>3, <1>5, <1>6, <1>7, <1>8, <2>2
      <3> QED
        BY <1>7, <2>2, <3>1 DEF Leaves
    <2>3. CASE step = "restore" /\ Undone.kind = "update"
      <3>1. row'[P(n)] = was /\ undo' = <<>>
        BY <1>3, <1>5, <1>6, <1>7, <1>8, <2>3
      <3>2. [name |-> was.name, phys |-> was.phys] \in live[n]
        BY <1>1, <1>4, <1>6, <2>3, Found DEF Describes
      <3> QED
        BY <1>2, <1>10, <2>3, <3>1, <3>2 DEF Leaves
    <2>4. CASE step = "restore" /\ Undone.kind # "update"
      <3>1. row'[P(n)] = was /\ undo' = <<"dropCompanion">>
        BY <1>3, <1>5, <1>6, <1>7, <1>8, <2>4
      <3> QED
        BY <3>1, UndoneSteps DEF Leaves
    <2>5. CASE step = "restoreNew"
      <3> PICK S : row' = [row EXCEPT ![P(n)] = [was EXCEPT !.phys = recreated, !.saw = S]]
        BY <1>8, <2>5
      <3>1. PICK R : R = [was EXCEPT !.phys = recreated, !.saw = S]
                     /\ row' = [row EXCEPT ![P(n)] = R]
        OBVIOUS
      <3>2. row'[P(n)] = R /\ undo' = <<>>
        BY <1>3, <1>5, <1>6, <1>7, <2>5, <3>1
      <3>3. R.phys = recreated /\ R.saw = S
        BY <1>6, <3>1 DEF Row
      <3>4. R = [was EXCEPT !.phys = R.phys, !.saw = R.saw]
        BY <3>1, <3>3
      <3>5. Exists(n, recreated)
        BY <1>1, <1>2, <2>1, <2>5 DEF Undoings
      <3>6. [name |-> was.name, phys |-> R.phys] \in live[n]
        BY <1>1, <1>4, <2>5, <3>3, <3>5, Found
      <3> QED
        BY <1>2, <1>7, <2>5, <3>2, <3>4, <3>6 DEF Leaves
    <2>6. CASE step = "dropCompanion"
      <3>1. row'[P(n)] = row[P(n)] /\ undo' = <<>>
        BY <1>3, <1>5, <1>6, <1>7, <1>8, <2>6
      <3>2. row[P(n)] = was
        BY <1>1, <1>2, <2>1, <2>6 DEF Undoings
      <3> QED
        BY <1>7, <1>10, <2>6, <3>1, <3>2 DEF Leaves
    <2> QED
      BY <2>2, <2>3, <2>4, <2>5, <2>6
  <1> QED
    BY <1>2, <1>9, <1>11, UndoRestores

LEMMA UndoFailsRestores ==
  ASSUME ExecInv, RestoreInv, UndoFails PROVE RestoreInv'
  <1> PICK n : n = Undone.node
    OBVIOUS
  <1>1. TypeOK
    BY DEF ExecInv
  <1>2. /\ phase = "rollback" /\ undo # <<>> /\ MaybeUndone
        /\ UNCHANGED <<phase, project, config, prior, predeleted, there, saga, at, lost, row>>
        /\ undo' = IF Head(undo) = "stale" THEN Tail(undo) ELSE <<>>
        /\ undone' = (undone /\ Head(undo) = "stale")
    BY DEF UndoFails, run, plan, work
  <1>3. /\ n \in Nodes /\ undo \in UndoLeft(Undone.kind)
        /\ Undone.kind \in {"create", "update", "replace", "delete", "cbd"}
        /\ Undone.kind \in {"replace", "delete", "cbd"} => Change(n) = "replace"
    BY <1>2, UndoFacts
  <1>4. /\ Head(undo) = "deleteNew" => Undone.kind \in {"create", "replace", "cbd"}
        /\ Head(undo) = "recreate" => Undone.kind \in {"replace", "delete"}
    BY <1>3, UndoShapes
  <1>5. Grows /\ NothingBack /\ OldStays /\ \A m \in Nodes : m # n => live'[m] = live[m]
    <2>1. CASE UNCHANGED <<live, minted>>
      BY <2>1, LiveSame
    <2>2. CASE Head(undo) = "deleteNew" /\ Remove(n, [phys |-> Undone.phys, name |-> Undeclared])
      BY <1>1, <1>2, <1>3, <1>4, <2>2, UndoneIsNew, OthersLive
    <2>3. CASE Head(undo) = "recreate" /\ MakeLive(n, prior[P(n)].name)
      <3>1. PICK id : id = CreatedId(n, prior[P(n)].name)
        OBVIOUS
      <3>2. Grows /\ NothingBack /\ OldStays
        BY <1>3, <1>4, <2>3, <3>1, RecreateKeeps
      <3> QED
        BY <1>1, <1>3, <2>3, <3>2, OthersLive
    <2> QED
      BY <1>2, <2>1, <2>2, <2>3 DEF MaybeUndone
  <1>6. OnlyOf(n)
    BY <1>2, <1>5 DEF OnlyOf
  <1>7. ASSUME undone' PROVE Leaves(n, Undone.kind)
    <2>1. Head(undo) = "stale" /\ undo' = Tail(undo)
      BY <1>2, <1>7
    <2>2. undo' # <<>> /\ Head(undo') \in {"deleteNew", "updateOld", "recreate"}
      BY <1>3, <2>1, UndoShapes, UndoTailLeft
    <2> QED
      BY <2>2 DEF Leaves
  <1> QED
    BY <1>2, <1>6, <1>7, UndoRestores

LEMMA RollbackLosesLeaseRestores ==
  ASSUME ExecInv, RestoreInv, RollbackLosesLease PROVE RestoreInv'
  <1>1. /\ phase = "rollback" /\ undone' = FALSE
        /\ UNCHANGED <<row, live, minted, phase, project, config, prior, predeleted, there, saga>>
    BY DEF RollbackLosesLease, plan, work
  <1>2. Goes
    BY <1>1, LiveSame DEF Goes
  <1>3. Companioned'
    BY <1>1 DEF RestoreInv, Companioned, C
  <1>4. Parting' /\ Entered' /\ Undoings'
    BY <1>1 DEF Parting, Entered, Undoings
  <1> QED
    BY <1>2, <1>3, <1>4, GoesOn DEF RestoreInv

LEMMA NextUndoRestores ==
  ASSUME ExecInv, RestoreInv, NextUndo PROVE RestoreInv'
  <1>1. /\ phase = "rollback" /\ undo = <<>> /\ at > 0 /\ at' = at - 1
        /\ undo' = IF at = 1 \/ lost THEN <<>> ELSE UndoSteps(saga[at - 1].kind)
        /\ UNCHANGED <<row, live, minted, phase, project, config, prior, predeleted, there, saga,
                       undone, lost>>
    BY DEF NextUndo, run, plan, work, count
  <1>2. TypeOK /\ Undoings
    BY DEF ExecInv, RestoreInv
  <1>3. at \in 0..Len(saga) /\ saga \in Seq(Undo)
    BY <1>2 DEF TypeOK
  <1>4. Goes
    BY <1>1, LiveSame DEF Goes
  <1>5. Companioned'
    BY <1>1 DEF RestoreInv, Companioned, C
  <1>6. Parting' /\ Entered'
    BY <1>1 DEF Parting, Entered
  <1>7. Undoings'
    <2> SUFFICES ASSUME undone'
                 PROVE  /\ ~lost'
                        /\ \A k \in DOMAIN saga' : Behind(k)' /\ Earlier(k)' = {} => Restored(saga[k])'
                        /\ undo' # <<>> => Head(undo') = "stale"
      BY DEF Undoings
    <2>1. undone /\ ~lost /\ ~lost'
      BY <1>1, <1>2 DEF Undoings
    <2>2. ASSUME undo' # <<>> PROVE Head(undo') = "stale"
      <3>1. PICK e : e = saga[at - 1] /\ undo' = UndoSteps(e.kind) /\ at # 1
        BY <1>1, <2>2
      <3>2. e \in Undo
        BY <1>1, <1>3, <3>1
      <3>3. e.kind \in {"create", "update", "replace", "delete", "cbd"}
        BY <3>2 DEF Undo
      <3> QED
        BY <3>1, <3>3, UndoStart
    <2>3. ASSUME NEW k \in DOMAIN saga, Behind(k)', Earlier(k)' = {} PROVE Restored(saga[k])'
      <3>1. Earlier(k) = {}
        BY <1>1, <2>3 DEF Earlier
      <3>2. k \in 1..Len(saga)
        BY <1>3
      <3>3. k > at \/ k = at
        <4>1. undo' # <<>> => k # at - 1
          BY <1>1, <2>3 DEF Behind
        <4>2. undo' = <<>> => at = 1
          <5>1. ASSUME at # 1, undo' = <<>> PROVE FALSE
            <6>1. PICK e : e = saga[at - 1] /\ undo' = UndoSteps(e.kind)
              BY <1>1, <2>1, <5>1
            <6>2. e \in Undo
              BY <1>1, <1>3, <5>1, <6>1
            <6>3. e.kind \in {"create", "update", "replace", "delete", "cbd"}
              BY <6>2 DEF Undo
            <6> QED
              BY <5>1, <6>1, <6>3, UndoStart
          <5> QED
            BY <5>1
        <4>3. k > at - 1 \/ k = at - 1
          BY <1>1, <2>3 DEF Behind
        <4> QED
          BY <1>1, <1>3, <3>2, <4>1, <4>2, <4>3
      <3>4. Behind(k)
        BY <1>1, <3>3 DEF Behind
      <3>5. PICK e : e = saga[k]
        OBVIOUS
      <3>6. Restored(e)
        BY <1>1, <1>2, <2>1, <3>1, <3>4, <3>5 DEF Undoings
      <3>7. Restored(e)'
        BY <1>1, <3>6 DEF Restored, P
      <3>8. e = saga[k]'
        BY <1>1, <3>5
      <3> QED
        BY <3>7, <3>8
    <2> QED
      BY <1>1, <2>1, <2>2, <2>3
  <1> QED
    BY <1>4, <1>5, <1>6, <1>7, GoesOn DEF RestoreInv

LEMMA UnwoundRestores ==
  ASSUME ExecInv, RestoreInv, Unwound PROVE RestoreInv'
  <1>1. UNCHANGED <<row, live, minted, project>>
    BY DEF Unwound, count
  <1>2. CASE Ended
    BY <1>1, <1>2, EndRestores
  <1>3. CASE ~Ended
    <2>1. /\ phase = "unwind" /\ phase' = "rollback" /\ saga # <<>> /\ ~lost /\ at' = Len(saga)
          /\ undo' = UndoSteps(saga[Len(saga)].kind)
          /\ UNCHANGED <<config, prior, predeleted, there, saga, lost, undone>>
      BY <1>3 DEF Unwound, plan, work
    <2>2. saga \in Seq(Undo)
      BY DEF ExecInv, TypeOK
    <2>3. Goes
      BY <1>1, <2>1, LiveSame DEF Goes, Sparing
    <2>4. Companioned'
      BY <1>1, <2>1 DEF RestoreInv, Companioned, C
    <2>5. Parting' /\ Entered'
      BY <2>1 DEF Parting, Entered
    <2>6. undo' # <<>> /\ Head(undo') = "stale"
      <3>1. PICK e : e = saga[Len(saga)]
        OBVIOUS
      <3>2. e \in Undo
        BY <2>1, <2>2, <3>1
      <3>3. e.kind \in {"create", "update", "replace", "delete", "cbd"}
        BY <3>2 DEF Undo
      <3> QED
        BY <2>1, <3>1, <3>3, UndoStart
    <2>7. Undoings'
      <3>1. \A k \in DOMAIN saga : ~Behind(k)'
        BY <2>1, <2>2, <2>6 DEF Behind
      <3> QED
        BY <2>1, <2>6, <3>1 DEF Undoings
    <2> QED
      BY <2>3, <2>4, <2>5, <2>7, GoesOn DEF RestoreInv
  <1> QED
    BY <1>2, <1>3

LEMMA StutterRestores ==
  ASSUME ExecInv, RestoreInv, UNCHANGED vars PROVE RestoreInv'
  <1>1. UNCHANGED <<row, live, minted, phase, project, config, prior, predeleted, there, saga, at,
                    undo, recreated, undone, lost, todo, inflight>>
    BY DEF vars, run, plan, work, rolling, count
  <1>2. Goes
    BY <1>1, LiveSame DEF Goes
  <1>3. Companioned'
    BY <1>1 DEF RestoreInv, Companioned, C
  <1>4. \A n \in Nodes : Parted(n)' = Parted(n)
    BY <1>1 DEF Parted, Exists, P
  <1>5. Parting'
    <2>1. Parting
      BY DEF RestoreInv
    <2>2. \A n \in Nodes : DestroyFirst(n)' = DestroyFirst(n) /\ Deferring(n)' = Deferring(n)
                           /\ P(n)' = P(n)
      BY <1>1, RunSame
    <2>3. \A n : (Entry(n, "delete")' <=> Entry(n, "delete")) /\ (Acted(n)' <=> Acted(n))
      BY <1>1 DEF Entry, Acted, P
    <2> QED
      BY <1>1, <1>4, <2>1, <2>2, <2>3 DEF Parting
  <1>6. Entered'
    BY <1>1 DEF RestoreInv, Entered, Acted, P
  <1>7. Undoings'
    BY <1>1 DEF RestoreInv, Undoings, Behind, Earlier, Restored, Undone, Exists, P
  <1> QED
    BY <1>2, <1>3, <1>5, <1>6, <1>7, GoesOn DEF RestoreInv

-----------------------------------------------------------------------------
(***************************************************************************)
(* What a rollback restores.                                               *)
(***************************************************************************)
LEMMA NextRestores ==
  ASSUME ExecInv, RestoreInv, [Next]_vars PROVE RestoreInv'
  <1>1. CASE UNCHANGED vars
    BY <1>1, StutterRestores
  <1>2. CASE Running
    <2>1. ASSUME NEW c \in project.configs, StartRun(c) PROVE RestoreInv'
      BY <2>1, StartRestores
    <2>2. ASSUME Predelete \/ Forward \/ Destroy PROVE RestoreInv'
      BY <2>2, PredeleteRestores, ForwardRestores, DestroyRestores
    <2>3. ASSUME Complete PROVE RestoreInv'
      BY <2>3, EndRestores DEF Complete
    <2>4. ASSUME NEW n \in Nodes, Create(n) \/ Update(n) \/ DeleteLeft(n) PROVE RestoreInv'
      BY <2>4, CreateRestores, UpdateRestores, DeleteLeftRestores
    <2>5. ASSUME NEW i \in Ids, Delete(i) PROVE RestoreInv'
      BY <2>5, DeleteRestores
    <2>6. ASSUME NEW i \in Ids, NEW step \in StateWrites, Write(i, step) PROVE RestoreInv'
      BY <2>6, WriteRestores
    <2> QED
      BY <1>2, <2>1, <2>2, <2>3, <2>4, <2>5, <2>6 DEF Running
  <1>3. CASE Failing
    <2>1. ASSUME NEW i \in Ids, ProviderFails(i) \/ WriteFails(i) \/ LateEffect(i) PROVE RestoreInv'
      BY <2>1, FailsRestores, LateRestores
    <2>2. ASSUME (\E n \in Nodes : UpdateGone(n)) \/ (\E leaseLost \in BOOLEAN : Interrupt(leaseLost))
          PROVE  RestoreInv'
      BY <2>2, StopRestores
    <2>3. ASSUME Crash PROVE RestoreInv'
      BY <2>3, EndRestores DEF Crash
    <2>4. ASSUME Unwound PROVE RestoreInv'
      BY <2>4, UnwoundRestores
    <2> QED
      BY <1>3, <2>1, <2>2, <2>3, <2>4 DEF Failing
  <1>4. CASE RollingBack
    <2>1. ASSUME MarkStale \/ UndoDelete \/ UndoUpdate \/ UndoRecreate PROVE RestoreInv'
      BY <2>1, MarkRestores, UndoDeleteRestores, UndoUpdateRestores, UndoRecreateRestores
    <2>2. ASSUME NEW step \in {"drop", "restore", "restoreNew", "dropCompanion"}, UndoWrite(step)
          PROVE  RestoreInv'
      BY <2>2, UndoWriteRestores
    <2>3. ASSUME UndoFails \/ RollbackLosesLease \/ NextUndo PROVE RestoreInv'
      BY <2>3, UndoFailsRestores, RollbackLosesLeaseRestores, NextUndoRestores
    <2>4. ASSUME RollbackDone PROVE RestoreInv'
      BY <2>4, EndRestores DEF RollbackDone
    <2> QED
      BY <1>4, <2>1, <2>2, <2>3, <2>4 DEF RollingBack
  <1> QED
    BY <1>1, <1>2, <1>3, <1>4 DEF Next

LEMMA InitRestores ==
  ASSUME Init PROVE RestoreInv
  <1>1. phase = "idle" /\ saga = <<>> /\ prior = [i \in Ids |-> NoRow] /\ row = [i \in Ids |-> NoRow]
    BY DEF Init
  <1>2. \A n \in Nodes : row[C(n)].status = "none" /\ prior[C(n)].status = "none"
    BY <1>1, IdFacts DEF NoRow
  <1> QED
    BY <1>1, <1>2 DEF RestoreInv, Companioned, Spared, Sparing, Parting, Entered, Entries, Undoings

\* The first undo of a node's leaves what RollbackRestores asks for.
LEMMA UndoneRestored ==
  ASSUME ExecInv, RestoreInv, phase = "rollback",
         NEW e \in Undo, NEW n, n = e.node, Restored(e), Means(e),
         e.kind = "create" => Change(n) # "replace"
  PROVE  LET was == prior[P(n)]
             now == row[P(n)]
         IN /\ was.status = "created" =>
                 /\ now = [was EXCEPT !.phys = now.phys, !.saw = now.saw]
                 /\ Exists(n, was.phys) => now.phys = was.phys
                 /\ e.kind # "cbd" \/ (n \in there /\ ~Twins(prior, n)) =>
                        [name |-> was.name, phys |-> now.phys] \in live[n]
            /\ was.status # "created" => now = NoRow
  <1> DEFINE was == prior[P(n)]
             now == row[P(n)]
  <1>1. TypeOK /\ Described /\ Spared
    BY DEF ExecInv, RestoreInv
  <1>2. n \in Nodes /\ e.kind \in {"create", "update", "replace", "delete", "cbd"}
    BY DEF Undo
  <1>3. CASE e.kind = "create"
    <2>1. Change(n) = "create" /\ now = NoRow
      BY <1>3 DEF Means, Restored
    <2>2. was.status # "created"
      BY <2>1 DEF Change, PlanOf, Classify
    <2> QED
      BY <2>1, <2>2
  <1>4. CASE e.kind # "create"
    <2>1. /\ now = [was EXCEPT !.phys = now.phys, !.saw = now.saw]
          /\ e.kind \in {"update", "cbd"} => now.phys = was.phys
          /\ e.kind # "cbd" => [name |-> was.name, phys |-> now.phys] \in live[n]
      BY <1>4 DEF Restored
    <2>2. was.status = "created"
      <3>1. Change(n) \in {"update", "replace"}
        BY <1>2, <1>4 DEF Means, DestroyFirst, Deferring
      <3> QED
        BY <1>1, <1>2, <3>1, PlanFacts
    <2>3. e.kind \in {"replace", "delete"} => ~Exists(n, was.phys)
      BY DEF Means, Parted
    <2>4. ASSUME e.kind = "cbd", n \in there, ~Twins(prior, n)
          PROVE  [name |-> was.name, phys |-> was.phys] \in live[n]
      <3>1. Kept(n)
        BY <2>4 DEF Means, Kept
      <3>2. Exists(n, was.phys)
        BY <1>1, <1>2, <2>4, <3>1 DEF Spared, Sparing
      <3>3. Matches(n, was.phys, was.name)
        BY <1>1, <1>2 DEF Described, Describes
      <3> QED
        BY <1>1, <1>2, <3>2, <3>3, Found
    <2> HIDE DEF was, now
    <2>5. Exists(n, was.phys) => now.phys = was.phys
      BY <1>2, <1>4, <2>1, <2>3
    <2>6. e.kind # "cbd" \/ (n \in there /\ ~Twins(prior, n)) =>
             [name |-> was.name, phys |-> now.phys] \in live[n]
      BY <2>1, <2>4
    <2> QED
      BY <2>1, <2>2, <2>5, <2>6 DEF was, now
  <1> QED
    BY <1>3, <1>4

LEMMA Restoring ==
  ASSUME ExecInv, RestoreInv PROVE RollbackRestores
  <1> SUFFICES ASSUME phase = "rollback", at = 0, undone, NEW k \in DOMAIN saga,
                      NEW e, e = saga[k], NEW n, n = e.node
               PROVE  LET was == prior[P(n)]
                          now == row[P(n)]
                      IN /\ was.status = "created" =>
                              /\ now = [was EXCEPT !.phys = now.phys, !.saw = now.saw]
                              /\ Exists(n, was.phys) => now.phys = was.phys
                              /\ e.kind # "cbd" \/ (n \in there /\ ~Twins(prior, n)) =>
                                     [name |-> was.name, phys |-> now.phys] \in live[n]
                         /\ was.status # "created" => now = NoRow
    BY DEF RollbackRestores
  <1>1. saga \in Seq(Undo) /\ Entries /\ Undoings
    BY DEF ExecInv, TypeOK, RestoreInv
  <1>2. \A j \in DOMAIN saga : saga[j] \in Undo /\ j > 0
    BY <1>1
  <1>3. \A j \in DOMAIN saga : Earlier(j) = {} => Restored(saga[j])
    BY <1>1, <1>2 DEF Undoings, Behind
  <1>4. \A j \in DOMAIN saga : Means(saga[j]) /\ Follows(j)
    BY <1>1 DEF Entries
  <1>5. CASE Earlier(k) = {}
    <2>1. e.kind = "create" => Change(n) # "replace"
      BY <1>4, <1>5 DEF Follows
    <2> QED
      BY <1>2, <1>3, <1>4, <1>5, <2>1, UndoneRestored
  <1>6. CASE Earlier(k) # {}
    <2>1. PICK j \in DOMAIN saga : j < k /\ saga[j].node = n /\ j \in Earlier(k)
      BY <1>6 DEF Earlier
    <2>2. PICK d : d = saga[j]
      OBVIOUS
    <2>3. d.kind = "delete" /\ e.kind = "create"
      BY <1>4, <2>1, <2>2 DEF Follows
    <2>4. Earlier(j) = {}
      BY <1>4, <2>2, <2>3 DEF Follows
    <2>5. d \in Undo /\ d.node = n /\ Restored(d) /\ Means(d)
      BY <1>2, <1>3, <1>4, <2>1, <2>2, <2>4
    <2> QED
      BY <2>3, <2>5, UndoneRestored
  <1> QED
    BY <1>5, <1>6

\* A rollback whose every undo completes leaves each node it undid with its prior row, under
\* the id of the resource that exists now, or with none if it had no confirmed one (saga.py,
\* Compensator): whatever the run did before, however its awaits interleaved and whatever
\* cancelled calls still did.
THEOREM RollsBack == Spec => []RollbackRestores
  <1>1. Init => RestoreInv
    BY InitRestores
  <1>2. ExecInv /\ RestoreInv /\ [Next]_vars => RestoreInv'
    BY NextRestores
  <1>3. ExecInv /\ RestoreInv => RollbackRestores
    BY Restoring
  <1> QED
    BY <1>1, <1>2, <1>3, Invariance, PTL DEF Spec
=============================================================================
