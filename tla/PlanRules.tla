------------------------------ MODULE PlanRules ------------------------------
(***************************************************************************)
(* How a config and the recorded rows become a plan: the Merkle hash       *)
(* (ir/merkle.py), the diff and its passes (reconcile/diff.py,             *)
(* classify.py, upstream.py, applied.py, ordering.py, guards.py,           *)
(* graph/cbd.py), --replace, --target and destroy (engine/selection.py),   *)
(* the secret audit (engine/secret_audit.py) and Planner.build             *)
(* (engine/planner.py).  Pure operators, no state.                         *)
(*                                                                         *)
(* A config maps the declared node ids to declarations; the state maps ids *)
(* to rows.  A property value is a literal, a $ref to an upstream output   *)
(* or a secret handle; a digest is modelled by the value it digests.       *)
(***************************************************************************)
EXTENDS Integers, FiniteSets

CONSTANTS
    Nodes,      \* ids a config can declare
    Fields,     \* the input fields of a resource
    Immutable,  \* TypeMutability: per node, the immutable() fields of its type
    NameField   \* per node, its type's physical_name field, or NoField

NoField == "(none)"
Forced == "(forced)"            \* FORCED_FIELD
NoHash == [hash |-> "none"]        \* NO_INPUT_HASH

ASSUME NodesAssumption == IsFiniteSet(Nodes) /\ Nodes \subseteq Nat \ {0}
ASSUME FieldsAssumption ==
    /\ {NoField, Forced} \cap Fields = {}
    /\ Immutable \in [Nodes -> SUBSET Fields]
    /\ NameField \in [Nodes -> Fields \cup {NoField}]

\* cbd_companion_id: the id that tracks the old half of a create-first replace.
Companion(n) == -n
Ids == Nodes \cup {Companion(n) : n \in Nodes}

Lit(v) == <<"lit", v>>
Ref(u, attr) == <<"ref", u, attr>>
Secret == <<"secret">>
Targets(v) == IF v[1] = "ref" THEN {v[2]} ELSE {}
RefFields(props) == {f \in DOMAIN props : Targets(props[f]) # {}}
TargetsOf(props, fields) == UNION {Targets(props[f]) : f \in fields \cap DOMAIN props}

\* Whether two property maps say the same of f, a missing field being a value of its own.
Same(p, q, f) == IF f \in DOMAIN p /\ f \in DOMAIN q THEN p[f] = q[f]
                 ELSE f \notin DOMAIN p \cup DOMAIN q

----------------------------------------------------------------------------
(* The graph and the hashes.                                               *)

\* IRNode.dependencies and IRNode.edges.
Deps(c, n) == TargetsOf(c[n].props, Fields)
Edges(c, n) == Deps(c, n) \cup c[n].after
RowEdges(rows, i) == (rows[i].deps \cup rows[i].after) \cap DOMAIN rows

\* The smallest set with the seeds that holds next[i] with every i in it.
Closure(seeds, next) ==
    {i \in DOMAIN next : \A S \in SUBSET DOMAIN next :
        (seeds \subseteq S /\ \A j \in S : next[j] \subseteq S) => i \in S}

Upstreams(c) == [n \in DOMAIN c |-> Edges(c, n)]
Dependents(c) == [n \in DOMAIN c |-> {m \in DOMAIN c : n \in Edges(c, m)}]
RowDependents(rows) == [i \in DOMAIN rows |-> {j \in DOMAIN rows : i \in RowEdges(rows, j)}]

\* merkle_hashes: the symbolic properties and the hashes of the refs' nodes.
MerkleHashes(g) ==
    LET h[n \in DOMAIN g] ==
          [props |-> [f \in DOMAIN g[n].props \ g[n].ignore |-> g[n].props[f]],
           deps |-> [d \in g[n].deps |-> h[d]]]
    IN  h
Hashes(c) ==
    MerkleHashes([n \in DOMAIN c |-> [props |-> c[n].props, deps |-> Deps(c, n), ignore |-> c[n].ignore]])

\* build_graph over ir_from_state: no row waits for itself.
Acyclic(rows) == \A i \in DOMAIN rows : i \notin Closure(RowDependents(rows)[i], RowDependents(rows))

----------------------------------------------------------------------------
(* What a recorded ref resolves to now.                                    *)

Confirmed(rows, i) == i \in DOMAIN rows /\ rows[i].status = "created"

Resolvable(v, outputs) ==
    Targets(v) # {} => v[2] \in DOMAIN outputs /\ v[3] \in DOMAIN outputs[v[2]]
Resolve(v, outputs) ==
    IF Targets(v) # {} /\ Resolvable(v, outputs) THEN outputs[v[2]][v[3]] ELSE v

StoredOutputs(rows) == [i \in {j \in DOMAIN rows : Confirmed(rows, j)} |-> rows[i].out]

\* _RecordCheck: the ref fields of a confirmed row the config left alone.
Watched(c, rows, n) ==
    {f \in RefFields(c[n].props) \ c[n].ignore :
        f \in DOMAIN rows[n].props /\ rows[n].props[f] = c[n].props[f]}
\* Mutated: a recorded ref is never compared with what it resolves to now.
ConsumedUnseen(c, rows, n) == {}
ConsumedMoved(c, rows, n) ==
    {f \in Watched(c, rows, n) :
        /\ f \in DOMAIN rows[n].refs
        /\ Resolvable(c[n].props[f], StoredOutputs(rows))
        /\ rows[n].refs[f] # Resolve(c[n].props[f], StoredOutputs(rows))}
ConsumedUnrecorded(c, rows, n) ==
    {f \in Watched(c, rows, n) : f \notin DOMAIN rows[n].refs}

Touches(n, v, moved) == (Targets(v) \ {n}) \cap moved # {}
Stable(c, n, fields, moved) == {f \in fields : ~Touches(n, c[n].props[f], moved)}
Settled(c, rows, n, moved) == Stable(c, n, ConsumedMoved(c, rows, n), moved)
Unrecorded(c, rows, n, moved) == Stable(c, n, ConsumedUnrecorded(c, rows, n), moved)

----------------------------------------------------------------------------
(* One node's action.  des: the change carries its desired node, which     *)
(* restrict drops; sonly: state_only.                                      *)

Change(act) == [act |-> act, fields |-> {}, cond |-> FALSE, cbd |-> FALSE,
                sonly |-> FALSE, des |-> act # "DELETE"]
Noop == [Change("NOOP") EXCEPT !.des = FALSE]

Differing(p, q) == {f \in DOMAIN p \cup DOMAIN q : ~Same(p, q, f)}

ChangedFields(c, rows, n, moved, known) ==
    (Differing(c[n].props, rows[n].props)
        \cup {f \in DOMAIN c[n].props : Touches(n, c[n].props[f], moved)}
        \cup known) \ c[n].ignore

\* classify_node, the changed fields given.
ClassifyAs(c, n, changed, known) ==
    LET immutable == changed \cap Immutable[n]
    IN  IF immutable = {} THEN [Change("UPDATE") EXCEPT !.fields = changed]
        ELSE [Change("REPLACE") EXCEPT
                 !.fields = changed,
                 !.cond = immutable \subseteq RefFields(c[n].props) \ known,
                 !.cbd = c[n].cbd]

Classify(c, rows, n, moved) ==
    LET known == Settled(c, rows, n, moved)
        changed == ChangedFields(c, rows, n, moved, known)
        unexplained == rows[n].hash \notin {Hashes(c)[n], NoHash}
    IN  ClassifyAs(c, n,
            IF unexplained /\ changed = {} THEN Unrecorded(c, rows, n, moved) ELSE changed,
            known)

ChangeFor(c, rows, n) ==
    CASE n \notin DOMAIN c -> Change("DELETE")
      [] n \in DOMAIN c /\ ~Confirmed(rows, n) -> Change("CREATE")
      [] n \in DOMAIN c /\ Confirmed(rows, n) ->
            IF rows[n].hash = Hashes(c)[n] /\ Settled(c, rows, n, {}) = {}
            THEN [Change("NOOP") EXCEPT !.sonly = (c[n].prot # rows[n].prot)]
            ELSE Classify(c, rows, n, {})

\* forced: --replace of a node that has a row and is declared.
Force(c, rows, n, change) ==
    IF change.act \in {"DELETE", "REPLACE"} \/ n \notin DOMAIN rows THEN change
    ELSE [Change("REPLACE") EXCEPT !.fields = {Forced}, !.cbd = c[n].cbd]

----------------------------------------------------------------------------
(* The passes over a whole changeset.                                      *)

Acting(cs, acts) == {n \in DOMAIN cs : cs[n].act \in acts}
Reidentified(cs) == Acting(cs, {"CREATE", "REPLACE"})

StaleDependents(c, cs) ==
    Closure(UNION {Dependents(c)[n] : n \in Reidentified(cs) \cap DOMAIN c}, Dependents(c))

Refine(c, rows, n, change, stale, moved) ==
    IF /\ n \in DOMAIN c \cap DOMAIN rows
       /\ \/ change.act = "NOOP" /\ n \in stale
          \/ change.act \in {"UPDATE", "REPLACE"} /\ Forced \notin change.fields
    THEN Classify(c, rows, n, moved)
    ELSE change

\* cbd_forcers: the create-before-destroy nodes that make n so; effective_cbd.
Forcers(c, n) == {o \in DOMAIN c : c[o].cbd /\ n \in Closure({o}, Upstreams(c))}
EffectiveCbd(c) == {n \in DOMAIN c : Forcers(c, n) # {}}

CreateFirst(n, change, cbd) ==
    IF change.act = "REPLACE" /\ n \in cbd THEN [change EXCEPT !.cbd = TRUE] ELSE change

\* A REPLACE always has a prior row.
DestroyedFirst(cs) == {n \in DOMAIN cs : cs[n].act = "REPLACE" /\ ~cs[n].cbd}

Behind(c, cs, n, first) ==
    /\ cs[n].act = "REPLACE" /\ cs[n].cond
    /\ \E f \in cs[n].fields \cap Immutable[n] \cap DOMAIN c[n].props :
          Touches(n, c[n].props[f], first)

\* behind_destroy_first.  Every destroy-first REPLACE is in the set the code
\* starts from, so its loop adds none and one pass is its fixpoint.
BehindDestroyFirst(c, cs) ==
    [n \in DOMAIN cs |-> IF Behind(c, cs, n, DestroyedFirst(cs))
                         THEN [cs[n] EXCEPT !.cond = FALSE] ELSE cs[n]]

Diff(c, rows, forced) ==
    LET raw == [n \in DOMAIN c \cup DOMAIN rows |->
                  IF n \in forced THEN Force(c, rows, n, ChangeFor(c, rows, n))
                  ELSE ChangeFor(c, rows, n)]
        stale == StaleDependents(c, raw)
        moved == Acting(raw, {"CREATE", "UPDATE", "REPLACE", "DELETE"}) \cup stale
    IN  BehindDestroyFirst(c, [n \in DOMAIN raw |->
            CreateFirst(n, Refine(c, rows, n, raw[n], stale, moved), EffectiveCbd(c))])

Restrict(cs, selected) == [n \in DOMAIN cs |-> IF n \in selected THEN cs[n] ELSE Noop]

\* What --target leaves selected, and destroy's.
TargetSelection(c, seeds) == Closure(seeds \cap DOMAIN c, Upstreams(c)) \cup seeds
DestroySelection(rows, seeds) == Closure(seeds, RowDependents(rows))

ProtectedIds(c, rows) ==
    {n \in DOMAIN c : c[n].prot} \cup {i \in DOMAIN rows \ DOMAIN c : rows[i].prot}

DeferredToApply(c, cs, protected) ==
    {n \in protected \cap Acting(cs, {"REPLACE"}) :
        cs[n].cond /\ TargetsOf(c[n].props, cs[n].fields) \cap Reidentified(cs) = {}}

\* check_prevent_destroy passes.
NothingProtectedGoes(c, cs, protected) ==
    Acting(cs, {"DELETE", "REPLACE"}) \cap protected \subseteq DeferredToApply(c, cs, protected)

\* audit_secrets: the secret fields of an unchanged node the row's digests miss.
Rotated(c, rows, cs, secret, n) ==
    IF cs[n].act = "NOOP" /\ cs[n].des /\ n \in DOMAIN rows
    THEN {f \in DOMAIN c[n].props : c[n].props[f] = Secret
             /\ (f \notin DOMAIN rows[n].sec \/ rows[n].sec[f] # secret)}
    ELSE {}

Upgraded(n, change, fields, cbd) ==
    IF fields \cap Immutable[n] # {}
    THEN [change EXCEPT !.act = "REPLACE", !.fields = fields, !.cbd = n \in cbd, !.sonly = FALSE]
    ELSE [change EXCEPT !.act = "UPDATE", !.fields = fields, !.sonly = FALSE]

Audited(c, rows, cs, secret) ==
    LET rotated == [n \in DOMAIN cs |-> Rotated(c, rows, cs, secret, n)]
    IN  IF \A n \in DOMAIN cs : rotated[n] = {} THEN cs
        ELSE BehindDestroyFirst(c, [n \in DOMAIN cs |->
                IF rotated[n] = {} THEN cs[n]
                ELSE Upgraded(n, cs[n], rotated[n], EffectiveCbd(c))])

\* _cbd_collides: the replacement would share the old one's identity.
Collides(c, rows, cs) ==
    {n \in Acting(cs, {"REPLACE"}) : cs[n].cbd /\
        IF NameField[n] # NoField THEN Same(c[n].props, rows[n].props, NameField[n])
        ELSE cs[n].fields \cap Immutable[n] = {}}

\* resolve_cbd fails, or falls back to destroy-before-create.
Conflicts(c, rows, cs) == {n \in Collides(c, rows, cs) : Forcers(c, n) \ {n} # {}}
ResolveCbd(c, rows, cs) ==
    LET colliding == Collides(c, rows, cs)
    IN  [n \in DOMAIN cs |-> [cs[n] EXCEPT !.cbd = @ /\ n \notin colliding]]

----------------------------------------------------------------------------
(* aliases.py: the rows as a config that renames their nodes has them.     *)

\* Mutated: aliases are read only for nodes that depend on nothing.
RenamedRoots(c, rows) == {n \in DOMAIN c \ DOMAIN rows : c[n].was \cap DOMAIN rows # {} /\ Edges(c, n) = {}}
Renamed(c, rows) == {n \in DOMAIN c \ DOMAIN rows : c[n].was \cap DOMAIN rows # {}}
NewId(c, rows, i) ==
    LET takers == {n \in Renamed(c, rows) : i \in c[n].was}
    IN  IF takers = {} THEN i ELSE CHOOSE n \in takers : \A m \in takers : n <= m

\* _rekey.
Rekeyed(row, to) ==
    [row EXCEPT
       !.props = [f \in DOMAIN @ |-> IF Targets(@[f]) # {} THEN Ref(to[@[f][2]], @[f][3]) ELSE @[f]],
       !.deps = {to[d] : d \in @},
       !.after = {to[d] : d \in @}]

\* _rehash, over the rows as if they were a config.
AsConfig(c, rows) ==
    [i \in DOMAIN rows |->
        [props |-> rows[i].props, deps |-> rows[i].deps \cap DOMAIN rows,
         ignore |-> IF i \in DOMAIN c THEN c[i].ignore ELSE {}]]

Migrated(c, rows) ==
    IF Renamed(c, rows) = {} THEN rows
    ELSE LET to == [i \in Ids |-> NewId(c, rows, i)]
             moved == [j \in {to[i] : i \in DOMAIN rows} |->
                          Rekeyed(rows[CHOOSE i \in DOMAIN rows : to[i] = j], to)]
             hashes == MerkleHashes(AsConfig(c, moved))
         IN  [j \in DOMAIN moved |->
                 IF moved[j].hash = NoHash THEN moved[j] ELSE [moved[j] EXCEPT !.hash = hashes[j]]]

----------------------------------------------------------------------------
(* Planner.build.  opts: the ids --replace names and those in scope.       *)

Shaped(c, rows, opts) == Restrict(Diff(c, rows, opts.forced), opts.selected)
AfterAudit(c, rows, secret, opts) == Audited(c, rows, Shaped(c, rows, opts), secret)

PlanFails(c, rows, secret, opts) ==
    \/ ~NothingProtectedGoes(c, Shaped(c, rows, opts), ProtectedIds(c, rows))
    \/ Conflicts(c, rows, AfterAudit(c, rows, secret, opts)) # {}

Plan(c, rows, secret, opts) ==
    BehindDestroyFirst(c, ResolveCbd(c, rows, AfterAudit(c, rows, secret, opts)))

\* ChangeSet.pending.
Pending(cs) == {n \in DOMAIN cs : cs[n].act # "NOOP" \/ cs[n].sonly}
=============================================================================
