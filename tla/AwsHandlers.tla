---------------------------- MODULE AwsHandlers ----------------------------
(***************************************************************************)
(* The AWS provider's handlers: how a create, update or delete of one      *)
(* declared resource becomes a sequence of API calls, cut short, retried   *)
(* and run again, against an account that also holds someone else's        *)
(* resource and that people edit by hand.                                  *)
(*                                                                         *)
(* Sources: atlantide/providers/aws/provider.py and handlers/*.py; the     *)
(* executor's steps around a provider call (reconcile/executor/replace.py, *)
(* run.py, deletes.py) as far as the row they leave matters here.          *)
(*                                                                         *)
(* A handler is a record: what identifies its resource, what its create    *)
(* call sets, and the calls of each operation.  Every API call is a step;  *)
(* between any two the process may die, the call fail for good, or fail in *)
(* passing (_retrying runs the whole operation again).  A resource is its  *)
(* facets: two immutable ones (its name, another), its settings (body, and *)
(* late, the ones only a follow-up call can set), its tags, its rules or   *)
(* routes (entries).                                                       *)
(***************************************************************************)
EXTENDS Integers, Sequences, FiniteSets, SequencesExt

CONSTANTS
    Kinds,        \* the resource types to consider, out of DOMAIN Handler
    CreateFirst,  \* those declared create_before_destroy
    Configs,      \* what a config can declare of the resource: a value per facet
    First,        \* the config to start with
    Tags, Keys,   \* tag keys; what a rule permits, or a route's destination
    MaxFaults,    \* bound: failed calls, retries, crashes
    MaxEdits      \* bound: edits of the config or by hand

----------------------------------------------------------------------------
(* The handlers.                                                           *)

\* Settings one after another: sync_tags, SecurityGroupHandler._sync_rules,
\* RouteTableHandler._sync.
\* Mutant: tags are added, none removed.
SyncTagsKeepingAll == <<"listed", "tag">>
SyncTags == <<"listed", "untag", "tag">>
\* Mutant: rules removed before the new ones are in.
SyncRulesRevokingFirst == <<"listed", "revoke", "authorize", "relabel">>
SyncRules == <<"listed", "authorize", "revoke", "relabel">>
SyncRoutes == <<"listed", "unroute", "route">>

\* Ec2Handler: found by the node tag its create call stamps, then re-tagged and
\* configured; updated and deleted by id.
Ec2(fields, stamps, reads, after, update, delete) ==
    [by |-> "tag", fields |-> fields \cup {"tags"}, stamps |-> stamps, reads |-> reads \cup {"tags"},
     adopt |-> <<>>, after |-> <<"stamp">> \o after, update |-> SyncTags \o update,
     delete |-> delete, born |-> "active"]

Vpc == Ec2({"imm"}, {"imm"}, {}, <<>>, <<>>, <<"delete">>)
Subnet == Ec2({"imm", "late"}, {"imm"}, {"late"}, <<"late">>, <<"late">>, <<"delete">>)
SecurityGroup ==
    Ec2({"name", "entries"}, {"name"}, {"entries"}, SyncRules, SyncRules, <<"delete">>)
\* Mutant: deleted without being detached.
InternetGatewayNotDetached == Ec2({"imm"}, {}, {}, <<"attach">>, <<>>, <<"delete">>)
InternetGateway == Ec2({"imm"}, {}, {}, <<"attach">>, <<>>, <<"detach", "delete">>)
ElasticIp == Ec2({}, {}, {}, <<"listed">>, <<>>, <<"delete">>)
NatGateway ==
    [Ec2({"imm"}, {"imm"}, {}, <<"active">>, <<>>, <<"delete", "gone">>) EXCEPT !.born = "pending"]
\* late: the subnets a table is associated with, put in one step (they are associated,
\* the undeclared ones disassociated, a call each, and read again by every attempt).
RouteTable ==
    LET sync == SyncRoutes \o <<"late">>
    IN Ec2({"imm", "late", "entries"}, {"imm"}, {}, sync, sync, <<"disassociate", "delete">>)

\* Found by its name, which its create call refuses to use twice.
Named(fields, stamps, reads, adopt, after, update) ==
    [by |-> "name", fields |-> fields \cup {"name"}, stamps |-> stamps \cup {"name"}, reads |-> reads,
     adopt |-> adopt, after |-> after, update |-> update, delete |-> <<"delete">>, born |-> "active"]

IamRole == LET configure == <<"body">> \o SyncTags
           IN Named({"body", "tags"}, {"body", "tags"}, {"body", "tags"}, configure, <<>>, configure)
LambdaFunction ==
    LET configure == <<"body", "active", "late">> \o SyncTags
    IN [Named({"body", "late", "tags"}, {"body", "late", "tags"}, {"body"},
              <<"active">> \o configure, <<>>, configure) EXCEPT !.born = "pending"]
SqsQueue == LET configure == <<"body">> \o SyncTags
            IN Named({"body", "tags"}, {"body", "tags"}, {"body", "tags"}, configure, <<>>, configure)
DynamoDbTable ==
    [Named({"imm", "body", "late", "tags"}, {"imm", "body", "tags"}, {"body", "tags"},
           <<>>, <<"active", "late">>, <<"body", "late">> \o SyncTags)
     EXCEPT !.delete = <<"delete", "gone">>, !.born = "pending"]
CloudWatchLogGroup ==
    Named({"late", "tags"}, {"tags"}, {"late", "tags"}, <<>>, <<"late">>, <<"late">> \o SyncTags)
\* Pending until its endpoint confirms it; its delete passes over it until then.
SnsSubscription == [Named({}, {}, {}, <<>>, <<>>, <<>>) EXCEPT !.born = "pending"]
SnsTopic == Named({"tags"}, {"tags"}, {"tags"}, <<>>, <<>>, SyncTags)
S3Bucket == LET settings == <<"body", "settags">>
            IN Named({"body", "tags"}, {}, {"body", "tags"}, <<>>, settings, settings)

\* Put whole under a key of its own: Route53Record, IamPolicy, S3BucketPolicy.
Upserted(reads) == Named({"body"}, {}, reads, <<>>, <<"body">>, <<"body">>)
Route53Record == Upserted({"body"})
IamPolicy == Upserted({"body"})
S3BucketPolicy == Upserted({})

\* Known by the id in its row.  The create call refuses a name (an origin access
\* control) or a CallerReference (the node id) a second time, or answers it with
\* the certificate it made for the same IdempotencyToken within the hour.
OriginAccessControl ==
    [Named({"body"}, {"body"}, {}, <<>>, <<>>, <<"body">>) EXCEPT !.by = "name, then id"]
Route53HostedZone ==
    [Named({"body"}, {"body"}, {}, <<>>, <<>>, <<"body">>) EXCEPT !.by = "reference and name"]
CloudFrontDistribution ==
    [by |-> "reference", fields |-> {"imm", "body", "tags"}, stamps |-> {"imm", "body", "tags"},
     reads |-> {}, adopt |-> <<>>, after |-> <<>>, update |-> <<"body">> \o SyncTags,
     delete |-> <<"disable", "deployed", "delete">>, born |-> "active"]
AcmCertificate ==
    [by |-> "token", fields |-> {"name", "imm", "tags"}, stamps |-> {"name", "imm", "tags"},
     reads |-> {}, adopt |-> <<>>, after |-> <<"active">>, update |-> SyncTags,
     delete |-> <<"delete">>, born |-> "pending"]

\* _ReadOnlyHandler: every operation looks the object up; delete is a no-op.
Lookup == [by |-> "lookup", fields |-> {}, stamps |-> {}, reads |-> {}, adopt |-> <<>>,
           after |-> <<>>, update |-> <<>>, delete |-> <<>>, born |-> "active"]

\* AwsProvider._dispatch.
Handler == [
    Vpc |-> Vpc, Subnet |-> Subnet, SecurityGroup |-> SecurityGroup,
    InternetGateway |-> InternetGateway, ElasticIp |-> ElasticIp, NatGateway |-> NatGateway,
    RouteTable |-> RouteTable, IamRole |-> IamRole, LambdaFunction |-> LambdaFunction,
    SqsQueue |-> SqsQueue, DynamoDbTable |-> DynamoDbTable,
    CloudWatchLogGroup |-> CloudWatchLogGroup, SnsTopic |-> SnsTopic,
    SnsSubscription |-> SnsSubscription, S3Bucket |-> S3Bucket, Route53Record |-> Route53Record,
    IamPolicy |-> IamPolicy, S3BucketPolicy |-> S3BucketPolicy,
    OriginAccessControl |-> OriginAccessControl, Route53HostedZone |-> Route53HostedZone,
    CloudFrontDistribution |-> CloudFrontDistribution, AcmCertificate |-> AcmCertificate,
    Lookup |-> Lookup]

Settings == {"name", "imm", "body", "late", "tags", "entries"}
ASSUME KindsAssumption == Kinds \subseteq DOMAIN Handler /\ CreateFirst \subseteq Kinds
ASSUME ConfigsAssumption ==
    /\ Configs \subseteq [name : Nat \ {0}, imm : Nat \ {0}, body : Nat \ {0}, late : Nat \ {0},
                       tags : SUBSET Tags, entries : [Keys -> Nat]]
    /\ First \in Configs
ASSUME BoundsAssumption == {MaxFaults, MaxEdits} \subseteq Nat

----------------------------------------------------------------------------
VARIABLES
    kind,     \* the resource's type, the same all along
    want,     \* its config
    row,      \* its state row: [st, in (the inputs recorded), id (0: none)]
    comp,     \* its cbd_companion row
    cloud,    \* every object there ever was, in the order of their ids
    todo,     \* the steps the run has left for this node
    calls,    \* the API calls the handler has left
    old,      \* the row whose resource is to be destroyed
    it,       \* the object the handler is working on
    seen,     \* what its last describe showed of it
    saved,    \* history: no operation began since the row was persisted
    astray,   \* history: the facets no completed operation or read has compared since
              \* someone edited them, or a create adopted the object as it was; "gone":
              \* deleted by hand, by a destroy cut short, or about to be through a
              \* companion row left beside it; "replaced": a replace cut short before
              \* its delete was done, or a create whose immutable inputs were then edited
    lost,     \* history: objects a later write-ahead row no longer leads to, or whose row
              \* was dropped without ever having their id, whose token lapsed before a row
              \* had it, or that their delete passed over
    faults, edits

h == Handler[kind]
vars == <<kind, want, row, comp, cloud, todo, calls, old, it, seen, saved, astray, lost, faults, edits>>
rows == <<row, comp>>
run == <<todo, calls, old, it, seen>>
bounds == <<faults, edits>>

Blank == [name |-> 0, imm |-> 0, body |-> 0, late |-> 0, tags |-> {}, entries |-> [k \in Keys |-> 0]]
Undeclared == Blank
NoRow == [st |-> "none", in |-> Blank, id |-> 0]
Row(st, in, id) == [st |-> st, in |-> in, id |-> id]

\* An object: its facets, whether it carries this node's mark (MANAGED_TAG, the
\* CallerReference, the IdempotencyToken), its status, and who made it.
Object(facets, mark, up, ours) == [set |-> facets, mark |-> mark, up |-> up, ours |-> ours]
Gone == Object(Blank, FALSE, "gone", FALSE)
Exists(i) == cloud[i].up # "gone"
\* NatGatewayHandler._is_live; a table being deleted still answers describe_table.
Live(i) == Exists(i) /\ (kind = "NatGateway" => cloud[i].up \notin {"dying", "failed"})
Objects == {i \in DOMAIN cloud : Exists(i)}

\* A new security group lets everything out (the last key).
Everything == CHOOSE k \in Keys : \A l \in Keys : l <= k
\* Mutant: the node tag comes with the other tags, after the create call.
MadeUnmarked ==
    Object([f \in Settings |-> IF f \in h.stamps THEN want[f] ELSE Blank[f]], FALSE, h.born, TRUE)
Made ==
    Object([f \in Settings |->
                IF f \in h.stamps THEN want[f]
                ELSE IF f = "entries" /\ kind = "SecurityGroup"
                     THEN [Blank.entries EXCEPT ![Everything] = 1] ELSE Blank[f]],
           h.by \in {"tag", "reference", "reference and name", "token"}, h.born, TRUE)

\* Which objects make the create call conflict (or, for a tag, be skipped), and which
\* of those the handler takes for the resource (create_or_adopt, _find_tagged,
\* _find_by_reference).
Marked == {i \in Objects : cloud[i].mark /\ Live(i)}
SameName(name) == {i \in Objects : cloud[i].set.name = name}
Claims(in) ==
    CASE h.by \in {"tag", "reference", "reference and name"} -> Marked
      [] h.by \in {"name", "name, then id"} -> SameName(in.name)
      [] h.by = "token" -> {i \in Marked : \A f \in {"name", "imm"} : cloud[i].set[f] = in[f]}
      [] h.by = "lookup" -> {}
Conflicting == Claims(want)
Adoptable == IF h.by = "reference and name" THEN Conflicting \cap SameName(want.name) ELSE Conflicting

\* The object an update or a delete of the row r acts on: the id it holds, else the
\* name it declares, else (delete, of a tagged type) the tag.
Held(r) == IF h.by = "name" THEN SameName(r.in.name)
             ELSE {r.id} \ {0}
Target(r) == IF r.st = "none" THEN {}
             ELSE IF h.by = "tag" /\ r.id = 0 THEN Marked ELSE {i \in Held(r) : Exists(i)}

\* The facets a sequence of calls leaves as declared.
SetBy(s) == (ToSet(s) \cap {"body", "late"})
            \cup (IF ToSet(s) \cap {"untag", "settags"} # {} THEN {"tags"} ELSE {})
            \cup (IF ToSet(s) \cap {"revoke", "route"} # {} THEN {"entries"} ELSE {})
            \cup (IF "attach" \in ToSet(s) THEN {"imm"} ELSE {})

Init ==
    /\ kind \in Kinds
    /\ want = First
    \* Someone else's object, alike in everything two objects may have in common.
    /\ cloud \in {<<>>} \cup
          IF h.by \in {"tag", "reference", "lookup"} /\ "name" \notin h.fields
          THEN {<<Object(First, FALSE, "active", FALSE)>>} ELSE {}
    /\ row = NoRow /\ comp = NoRow /\ old = NoRow
    /\ todo = <<>> /\ calls = <<>>
    /\ it = 0 /\ seen = Blank
    /\ saved = FALSE /\ astray = {} /\ lost = {}
    /\ faults = 0 /\ edits = 0

----------------------------------------------------------------------------
(* The run: what it plans for the node, and the rows it writes.            *)

\* The action the plan gives the node (PlanRules), and the executor's steps for it.
Differ(fields) == \E f \in fields \cap h.fields : row.in[f] # want[f]
\* ordering._cbd_collides: a declared name must change for the two to coexist.
CreatedFirst == kind \in CreateFirst /\ ("name" \in h.fields => Differ({"name"}))
Change ==
    IF want = Undeclared THEN IF row.st = "none" THEN "noop" ELSE "delete"
    ELSE IF row.st # "created" THEN "create"
    ELSE IF Differ({"name", "imm"}) THEN IF CreatedFirst THEN "create first" ELSE "replace"
    ELSE IF Differ(Settings) THEN "update" ELSE "noop"
StepsOf(change) ==
    CASE change = "create" -> <<"ahead", "create", "persist">>
      [] change = "update" -> <<"update", "persist">>
      [] change = "replace" -> <<"ahead", "destroy", "create", "persist">>
      [] change = "create first" ->
            <<"companion", "ahead", "create", "persist", "destroy", "uncompanion">>
      [] change = "delete" -> <<"destroy", "forget">>

\* A companion row an earlier run left is a DELETE of its own, brought forward before
\* another create-before-destroy of the node.
Plan ==
    /\ todo = <<>>
    /\ \/ /\ comp.st # "none"
          /\ todo' = <<"destroy", "uncompanion">> /\ old' = comp
       \/ /\ Change # "noop"
          /\ Change = "create first" => comp.st = "none"
          /\ todo' = StepsOf(Change) /\ old' = row
    /\ UNCHANGED <<kind, want, rows, cloud, calls, it, seen, saved, astray, lost, bounds>>

\* Objects made for this node, and those nothing leads to any more once a write-ahead
\* row takes the place of the row (a companion row's object is still that row's).
Ours == {i \in Objects : cloud[i].ours /\ Live(i)}
Strays == Ours \ (Conflicting \cup Target(comp))
\* Types whose delete has nothing to go by but an id.
KnownById == h.by \notin {"name", "tag"}

Written(step) ==
    /\ todo # <<>> /\ Head(todo) = step
    /\ todo' = Tail(todo)
    /\ old' = IF todo' = <<>> THEN NoRow ELSE old
    /\ it' = IF step = "persist" THEN 0 ELSE it
    /\ UNCHANGED <<kind, want, cloud, calls, seen, bounds>>

CopyToCompanion ==
    /\ Written("companion")
    /\ comp' = row
    /\ UNCHANGED <<row, saved, astray, lost>>
WriteAhead ==
    /\ Written("ahead")
    /\ row' = Row("creating", want, 0)
    /\ lost' = IF Head(todo') = "create" THEN lost \cup Strays ELSE lost
    /\ UNCHANGED <<comp, saved, astray>>
Persist ==
    /\ Written("persist")
    /\ row' = Row("created", want, it) /\ saved' = TRUE
    /\ UNCHANGED <<comp, astray, lost>>
Forget ==
    /\ Written("forget")
    /\ row' = NoRow
    /\ lost' = IF KnownById THEN lost \cup (Ours \ Target(comp)) ELSE lost
    /\ UNCHANGED <<comp, saved, astray>>
DropCompanion ==
    /\ Written("uncompanion")
    /\ comp' = NoRow
    /\ UNCHANGED <<row, saved, astray, lost>>

\* A failure or a crash: the run stops where it is.
CutShort == CASE todo = <<"destroy", "create", "persist">> -> {"replaced"}
              [] Len(todo) = 5 -> {"gone"}
              [] "forget" \in ToSet(todo) /\ \A i \in Target(row) : cloud[i].up = "dying" -> {"gone"}
              [] OTHER -> {}
Abandoned ==
    /\ todo' = <<>> /\ calls' = <<>> /\ old' = NoRow /\ it' = 0 /\ seen' = Blank
    /\ lost' = IF CutShort = {"replaced"} THEN lost \cup Strays ELSE lost
    /\ astray' = astray \cup CutShort
    /\ UNCHANGED <<kind, want, rows, cloud, saved, edits>>
Stop ==
    /\ todo # <<>> /\ faults < MaxFaults
    /\ Abandoned /\ faults' = faults + 1

----------------------------------------------------------------------------
(* The handlers' operations.                                               *)

Operations == {"create", "update", "destroy"}
\* A subscription listed as PendingConfirmation: its delete calls nothing.
Unconfirmed == {i \in Objects : kind = "SnsSubscription" /\ cloud[i].up = "pending"}
\* The provider calls the handler: create asks for the object first, the others locate
\* theirs.  An update that finds none raises; a delete that finds none is done.
Begin ==
    /\ todo # <<>> /\ Head(todo) \in Operations /\ calls = <<>>
    /\ \/ /\ Head(todo) = "create" /\ it' = 0
          /\ calls' = IF h.by = "lookup" THEN <<"return">> ELSE <<"make">>
          /\ UNCHANGED astray
       \/ /\ Head(todo) = "update" /\ it' \in Target(row)
          /\ calls' = Append(h.update, "return")
          /\ astray' = astray \ SetBy(h.update)
       \/ /\ Head(todo) = "destroy" /\ it' \in Target(old)
          /\ calls' = Append(IF it' \in Unconfirmed THEN <<>> ELSE h.delete, "return")
          /\ UNCHANGED astray
       \/ /\ Head(todo) = "destroy" /\ Target(old) = {} /\ it' = 0
          /\ calls' = <<"return">>
          /\ UNCHANGED astray
    /\ saved' = (saved /\ Head(todo) = "destroy" /\ "uncompanion" \in ToSet(todo))
    /\ lost' = IF Head(todo) = "destroy" THEN lost \cup ({it'} \cap Unconfirmed) ELSE lost
    /\ UNCHANGED <<kind, want, rows, cloud, todo, old, seen, bounds>>

\* _retrying: a transient failure, before a call's effect or after it, runs the
\* operation again from its beginning.
Retry ==
    /\ calls # <<>> /\ faults < MaxFaults
    /\ calls' = <<>> /\ faults' = faults + 1
    /\ UNCHANGED <<kind, want, rows, cloud, todo, old, it, seen, saved, astray, lost, edits>>

Calling(call) ==
    /\ calls # <<>> /\ Head(calls) = call
    /\ UNCHANGED <<kind, want, rows, old, saved, lost, bounds>>
Done == calls' = Tail(calls) /\ UNCHANGED <<todo, it>>

\* A companion row an earlier run left may lead, by name, to what is now created.
Doomed == IF (it \in Target(comp))' THEN {"gone"} ELSE {}
\* What the object a create adopts has in common with it, having been found by it.
Same == IF h.by = "tag" THEN {} ELSE {"name"}
\* The create call: a new object, or the one in its way if the handler takes it for
\* its own.  (For a tag the lookup comes first, and nothing else is in the way.)
Make ==
    /\ Calling("make") /\ UNCHANGED <<todo, seen>>
    /\ \/ /\ Conflicting = {}
          /\ cloud' = Append(cloud, Made) /\ it' = Len(cloud) + 1
          /\ calls' = h.after \o <<"return">>
          /\ astray' = Doomed
       \/ /\ it' \in Adoptable /\ UNCHANGED cloud
          /\ calls' = h.adopt \o h.after \o <<"return">>
          /\ astray' = (h.fields \ (SetBy(h.adopt \o h.after) \cup Same)) \cup (astray \cap {"replaced"}) \cup Doomed

Settled == cloud[it].up = "active" \/ h.born = "active"
Here == it \in Objects
Changed(f, value) == cloud' = [cloud EXCEPT ![it].set[f] = value]
Facet(f, value) == Here /\ Changed(f, value) /\ UNCHANGED <<seen, astray>> /\ Done

Stamp ==
    /\ Calling("stamp") /\ Here
    /\ cloud' = [cloud EXCEPT ![it].set.tags = @ \cup want.tags, ![it].mark = TRUE]
    /\ UNCHANGED <<seen, astray>> /\ Done
\* A function being updated refuses the next change.
PutBody ==
    /\ Calling("body") /\ Here /\ Settled
    /\ cloud' = [cloud EXCEPT ![it].set.body = want.body,
                              ![it].up = CASE kind = "LambdaFunction" -> "pending"
                                           [] kind = "CloudFrontDistribution" -> "active"
                                           [] OTHER -> @]
    /\ UNCHANGED <<seen, astray>> /\ Done
PutLate == Calling("late") /\ Settled /\ Facet("late", want.late)
SetTags == Calling("settags") /\ Facet("tags", want.tags)
\* sync_tags: what the listing shows and config dropped is removed, the rest added.
Describe ==
    /\ Calling("listed") /\ Here
    /\ seen' = cloud[it].set
    /\ UNCHANGED <<cloud, astray>> /\ Done
Untag == Calling("untag") /\ Facet("tags", cloud[it].set.tags \ (seen.tags \ want.tags))
Tag == Calling("tag") /\ Facet("tags", cloud[it].set.tags \cup want.tags)

\* The security group's rules, by the delta against the listing: rules added first,
\* then rules removed, then descriptions.
Entries(new(_)) == Facet("entries", [k \in Keys |-> new(k)])
Authorize ==
    /\ Calling("authorize")
    /\ Entries(LAMBDA k : IF seen.entries[k] = 0 /\ want.entries[k] # 0
                          THEN want.entries[k] ELSE cloud[it].set.entries[k])
Revoke ==
    /\ Calling("revoke")
    /\ Entries(LAMBDA k : IF want.entries[k] = 0 THEN 0 ELSE cloud[it].set.entries[k])
Relabel == Calling("relabel") /\ Facet("entries", want.entries)

\* The table's routes, one call each: those not declared are deleted, then each declared
\* one is created, or repointed by replace_route.
Loop(left, new(_)) ==
    /\ Here /\ UNCHANGED <<seen, astray, todo, it>>
    /\ \/ left = {} /\ UNCHANGED cloud /\ calls' = Tail(calls)
       \/ \E k \in left : /\ cloud' = [cloud EXCEPT ![it].set.entries[k] = new(k)]
                          /\ UNCHANGED calls
Differing == {k \in Keys : cloud[it].set.entries[k] # want.entries[k]}
Unroute ==
    /\ Calling("unroute")
    /\ Loop({k \in Differing : want.entries[k] = 0}, LAMBDA k : 0)
Route == Calling("route") /\ Loop(Differing, LAMBDA k : want.entries[k])

Turn(up) ==
    /\ Here /\ cloud' = [cloud EXCEPT ![it].up = up] /\ UNCHANGED <<seen, astray>> /\ Done
\* The gateway's VPC is where it is attached; attached elsewhere, it cannot be.
AttachedElsewhere == cloud[it].up = "attached" /\ cloud[it].set.imm # want.imm
Attach ==
    /\ Calling("attach") /\ Here /\ ~AttachedElsewhere
    /\ cloud' = [cloud EXCEPT ![it].set.imm = want.imm, ![it].up = "attached"]
    /\ UNCHANGED <<seen, astray>> /\ Done
Detach == Calling("detach") /\ Turn("active")
Disassociate == Calling("disassociate") /\ Facet("late", Blank.late)
Disable == Calling("disable") /\ Turn(IF cloud[it].up = "disabled" THEN "disabled" ELSE "disabling")
\* A waiter, or a bounded poll.
Reached == CASE Head(calls) = "active" -> Here /\ cloud[it].up = "active"
             [] Head(calls) = "gone" -> ~Here
             [] Head(calls) = "deployed" -> Here /\ cloud[it].up = "disabled"
Waits == {"active", "gone", "deployed"}
Await == \E call \in Waits :
            Calling(call) /\ Reached /\ UNCHANGED <<cloud, seen, astray>> /\ Done

\* An attached gateway and an enabled distribution refuse; a NAT gateway and a table
\* are deleted in the background; ignore_missing makes absence a success.
Refused == \/ cloud[it].up \in {"attached", "disabling"}
           \/ kind = "DynamoDbTable" /\ cloud[it].up # "active"
           \/ kind = "RouteTable" /\ cloud[it].set.late # Blank.late
Delete ==
    /\ Calling("delete")
    /\ Here => ~Refused
    /\ cloud' = IF ~Here THEN cloud
                ELSE [cloud EXCEPT ![it] = IF "gone" \in ToSet(h.delete)
                                           THEN [@ EXCEPT !.up = "dying"] ELSE Gone]
    /\ UNCHANGED <<seen, astray>> /\ Done
Return ==
    /\ Calling("return")
    /\ calls' = <<>> /\ todo' = Tail(todo) /\ seen' = Blank
    /\ UNCHANGED <<cloud, it, astray>>

Step == \/ Make \/ Stamp \/ PutBody \/ PutLate \/ SetTags \/ Describe \/ Untag \/ Tag
        \/ Authorize \/ Revoke \/ Relabel \/ Unroute \/ Route \/ Attach \/ Detach \/ Disassociate
        \/ Disable \/ Await \/ Delete \/ Return

\* What AWS does in the background.
Becomes(up) == CASE up = "pending" -> {"active"} \cup (IF kind = "NatGateway" THEN {"failed"} ELSE {})
                 [] up = "dying" -> {"gone"}
                 [] up = "disabling" -> {"disabled"}
                 [] OTHER -> {}

\* A call AWS refuses, a waiter that gives up, an update of an absent object: the
\* operation fails for good.
Fails(call) ==
    CASE call = "make" -> Conflicting # {} /\ Adoptable = {}
      [] call \in Waits -> ~Reached
      [] call = "delete" -> Here /\ Refused
      [] call \in {"body", "late"} -> ~Here \/ ~Settled
      [] call = "attach" -> ~Here \/ AttachedElsewhere
      [] call = "return" -> FALSE
      [] OTHER -> ~Here
\* A waiter that gives up too early is a fault; any other failure has its cause.
Early == calls # <<>> /\ Head(calls) \in Waits /\ Here /\ Becomes(cloud[it].up) # {}
GiveUp ==
    /\ \/ calls # <<>> /\ Fails(Head(calls))
       \/ calls = <<>> /\ todo # <<>> /\ Head(todo) = "update" /\ Target(row) = {}
    /\ Early => faults < MaxFaults
    /\ Abandoned /\ faults' = IF Early THEN faults + 1 ELSE faults

----------------------------------------------------------------------------
(* The account, its users, and the specification.                          *)

Background ==
    /\ \E i \in Objects : \E up \in Becomes(cloud[i].up) :
          /\ up = "failed" => faults < MaxFaults
          /\ faults' = IF up = "failed" THEN faults + 1 ELSE faults
          /\ cloud' = [cloud EXCEPT ![i] = IF up = "gone" THEN Gone ELSE [@ EXCEPT !.up = up]]
    /\ UNCHANGED <<kind, want, rows, run, saved, astray, lost, edits>>
\* _idempotency_token: an hour after a certificate was requested its token counts no
\* more, and only a row that has its id leads to it.  Between runs only: no run takes
\* that long over one create.
Lapse ==
    /\ h.by = "token" /\ todo = <<>>
    /\ \E i \in Marked :
          /\ cloud' = [cloud EXCEPT ![i].mark = FALSE]
          /\ lost' = IF (row.st = "created" /\ i \in Target(row)) \/ i \in Target(comp)
                     THEN lost ELSE lost \cup {i}
    /\ UNCHANGED <<kind, want, rows, run, saved, astray, bounds>>

Between == todo = <<>> /\ edits < MaxEdits /\ edits' = edits + 1
           /\ UNCHANGED <<kind, comp, run, saved, lost, faults>>
EditConfig ==
    /\ Between /\ want' \in (Configs \cup {Undeclared}) \ {want}
    /\ astray' = IF row.st = "creating" /\ \E f \in {"name", "imm"} : want'[f] # row.in[f]
                 THEN astray \cup {"replaced"} ELSE astray
    /\ UNCHANGED <<row, cloud>>
\* Someone changes the resource, or deletes it, by hand.
EditByHand ==
    /\ Between /\ row.st = "created" /\ UNCHANGED <<want, row>>
    /\ \E i \in Target(row) :
          \/ \E f \in h.fields \ {"name", "imm"}, c \in Configs :
                /\ cloud' = [cloud EXCEPT ![i].set[f] = c[f]]
                /\ astray' = astray \cup {f}
          \/ cloud' = [cloud EXCEPT ![i] = Gone] /\ astray' = astray \cup {"gone"}

\* refresh --write --prune: read() reports some facets of the resource, and a row whose
\* resource is gone is dropped.  A write-ahead row is left as it is.
Refresh ==
    /\ todo = <<>> /\ row.st = "created" /\ astray # {}
    /\ LET found == {i \in Held(row) : Exists(i) /\ Live(i)} IN
       \/ /\ found = {} /\ row' = NoRow /\ astray' = {}
       \/ \E i \in found :
             /\ row' = [row EXCEPT !.in = [f \in Settings |-> IF f \in h.reads THEN cloud[i].set[f]
                                                               ELSE @[f]]]
             /\ astray' = astray \ h.reads
    /\ UNCHANGED <<kind, want, comp, cloud, run, saved, lost, bounds>>

Work == \/ Plan \/ CopyToCompanion \/ WriteAhead \/ Persist \/ Forget \/ DropCompanion
        \/ Begin \/ Step \/ GiveUp
Next == Work \/ Retry \/ Stop \/ Background \/ Lapse \/ EditConfig \/ EditByHand \/ Refresh

Spec == Init /\ [][Next]_vars
\* Whoever runs apply runs it until nothing is left to do, a run proceeds, and AWS
\* finishes what it began.
FairSpec == Spec /\ WF_vars(Work) /\ WF_vars(Background)

----------------------------------------------------------------------------
(* Properties.                                                             *)

TypeOK ==
    /\ kind \in Kinds /\ want \in Configs \cup {Undeclared}
    /\ \A r \in {row, comp, old} : /\ r.st \in {"none", "creating", "created"}
                                   /\ DOMAIN r.in = Settings /\ r.id \in 0 .. Len(cloud)
    /\ \A i \in DOMAIN cloud : DOMAIN cloud[i].set = Settings
    /\ it \in 0 .. Len(cloud)
    /\ astray \subseteq Settings \cup {"gone", "replaced"} /\ lost \subseteq DOMAIN cloud
    /\ faults \in 0 .. MaxFaults /\ edits \in 0 .. MaxEdits

\* A created row tells the truth: the resource it leads to exists, is not on its way
\* out, and holds every input the row records.  Not the facets somebody edited and no
\* run or refresh has compared since, nor those a create that adopted its earlier self
\* left as it found them.
RowIsLive ==
    row.st = "created" /\ saved /\ "gone" \notin astray =>
        /\ Held(row) \cap Objects # {} \/ h.by = "lookup"
        /\ \A i \in Held(row) \cap Objects :
              /\ cloud[i].up # "dying"
              /\ \A f \in h.fields \ astray : cloud[i].set[f] = row.in[f]

\* However often a create is cut short and run again, it makes one resource, and between
\* runs a row leads to it, so that the next run can update, adopt or delete it.  Except
\* what is lost: superseded by a write-ahead row of other inputs, one known by its id
\* alone whose row was dropped without it, a certificate whose token lapsed before its
\* row was persisted, a subscription its delete passed over.
Tracked ==
    todo = <<>> =>
        LET leads == Target(comp) \cup CASE row.st = "created" -> Target(row)
                                          [] row.st = "creating" -> Claims(row.in)
                                          [] OTHER -> {}
        IN /\ Ours \subseteq leads \cup lost
           /\ Cardinality(Ours \ lost) <= IF comp.st = "none" THEN 1 ELSE 2

\* A resource this project did not create is left alone, even if it looks like the one
\* declared: creates adopt by the node's own mark, deletes go by id or mark.
ForeignUntouched ==
    [][\A i \in DOMAIN cloud : ~cloud[i].ours /\ Exists(i) /\ i \notin Held(row)
          => cloud'[i] = cloud[i]]_vars

\* Rules and routes are synced without a gap: one that is live and declared, before and
\* after the change, is never away in between, and a group that lets something through
\* and shall go on to never closes.
NoGap ==
    [][\A i \in DOMAIN cloud : calls # <<>> /\ Exists(i) /\ Head(calls) # "delete" =>
          LET before == cloud[i].set.entries after == cloud'[i].set.entries IN
          /\ \A k \in Keys : before[k] # 0 /\ want.entries[k] # 0 => after[k] # 0
          /\ kind = "SecurityGroup" /\ (\E k \in Keys : before[k] # 0)
                /\ (\E k \in Keys : want.entries[k] # 0) => \E k \in Keys : after[k] # 0]_vars

\* Run again until nothing is planned, any interrupted or failed run is made good: every
\* operation starts over from where it was cut.  (Not when the resource was deleted by
\* hand, which a refresh has to find first, nor past a lost one that is in the way.)
Settles == <>[](todo = <<>> /\ (Change = "noop" /\ comp.st = "none")) \/ <>[]({"gone", "replaced"} \cap astray # {} \/ lost # {})

----------------------------------------------------------------------------
(* What the code's own comments say more.                                  *)

\* core/lifecycle.py: create_before_destroy creates the new resource before destroying
\* the old one; so what the destroy half destroys is not what the row now leads to.
OldOneDestroyed ==
    calls # <<>> /\ Head(calls) = "delete" /\ Head(Tail(todo)) = "uncompanion"
    /\ row.st = "created" => it \notin Held(row)

\* reconcile/executor/records.py, write_ahead: a create cut short stays tracked, so that
\* destroy can still reclaim it.
Reclaimed == [][row.st = "creating" /\ row' = NoRow => Ours' \subseteq lost \cup Target(comp)]_vars
=============================================================================
