------------------------- MODULE AwsHandlersProofs -------------------------
(***************************************************************************)
(* The AWS handlers' promises, for any kinds, configs and bounds: what the *)
(* runs check on one or two objects of a few kinds.                        *)
(*                                                                         *)
(* Every promise rests on Base, which says what a run's position means:    *)
(* the types; the rows each executor step leaves (Stage); the calls an     *)
(* operation can have left, in which a listing stands right before what    *)
(* goes by it (Ordered); that no two objects answer to one mark, name or   *)
(* token (Identified: create_or_adopt); and that an id leads to an object  *)
(* of ours (Ids).  Onto Base comes, for each promise, what makes it        *)
(* inductive:                                                              *)
(*  - Tracked: every object made for the node has something leading to it  *)
(*    at every step, not only between runs (Led, LedNew), and a row is     *)
(*    dropped only once its delete is done (Destroying, Destroyed);        *)
(*  - ForeignUntouched: a handler works on an object of ours (Ids) or on   *)
(*    one its row's name leads to;                                         *)
(*  - NoGap: the delta a sync applies comes from a listing that still      *)
(*    holds (Listed);                                                      *)
(*  - RowIsLive: while an operation runs, each facet is as declared or     *)
(*    awaits a call that is still to come (Progress); the destroy half of  *)
(*    a create-before-destroy has another object than the row (Apart);     *)
(*    the row's object keeps what makes it the row's (Kept).               *)
(*                                                                         *)
(* A step is, seen from the objects, of one of a few forms: it changes no  *)
(* object or takes some away (Shrink), makes one (MakeNew), or changes one *)
(* the handler works on (Stroke); each form is treated once, for all the   *)
(* handlers, by what their plans have in common (Fits).                    *)
(***************************************************************************)
EXTENDS AwsHandlers, FiniteSetTheorems, SequenceTheorems, TLAPS

----------------------------------------------------------------------------
----------------------------------------------------------------------------
(* Types.                                                                  *)

Facets == [name : Nat, imm : Nat, body : Nat, late : Nat, tags : SUBSET Tags,
           entries : [Keys -> Nat]]
Ups == {"pending", "active", "attached", "disabling", "disabled", "dying", "failed", "gone"}
Things == [set : Facets, mark : BOOLEAN, up : Ups, ours : BOOLEAN]
Rows == [st : {"none", "creating", "created"}, in : Facets, id : Nat]
Chains == {
    <<>>, <<"ahead", "create", "persist">>, <<"create", "persist">>, <<"persist">>,
    <<"update", "persist">>,
    <<"ahead", "destroy", "create", "persist">>, <<"destroy", "create", "persist">>,
    <<"companion", "ahead", "create", "persist", "destroy", "uncompanion">>,
    <<"ahead", "create", "persist", "destroy", "uncompanion">>,
    <<"create", "persist", "destroy", "uncompanion">>,
    <<"persist", "destroy", "uncompanion">>, <<"destroy", "uncompanion">>, <<"uncompanion">>,
    <<"destroy", "forget">>, <<"forget">>}

Setting == {"stamp", "active", "listed", "untag", "tag", "settags", "authorize", "revoke",
            "relabel", "unroute", "route", "attach", "body", "late"}
CallNames == Setting \cup {"make", "return", "disassociate", "detach", "disable", "deployed", "delete", "gone"}

Types ==
    /\ kind \in Kinds /\ want \in Facets
    /\ {row, comp, old} \subseteq Rows
    /\ cloud \in Seq(Things) /\ \A i \in DOMAIN cloud : cloud[i] \in Things
    /\ DOMAIN cloud = 1 .. Len(cloud)
    /\ todo \in Chains
    /\ calls \in Seq(CallNames) /\ it \in Nat /\ seen \in Facets
    /\ saved \in BOOLEAN

----------------------------------------------------------------------------
(* Where a run is, and the rows at each stage of it.                       *)

Doing(op) == todo # <<>> /\ Head(todo) = op
Within(op) == Doing(op) /\ calls # <<>>
Left == ToSet(calls)
\* what is left once the create call has been made, or nothing
Creating == Within("create") /\ it # 0
Wrote == Doing("persist") /\ row.st = "creating"

\* at its step op, with n steps left, that one among them.
At(op, n) == todo # <<>> /\ Head(todo) = op /\ Len(todo) = n
\* with a companion row to drop at its end; about to drop the row
Beside == "uncompanion" \in ToSet(todo)
Removing == "forget" \in ToSet(todo)

\* The rows a run's steps leave (replace.py, run.py, deletes.py): a write-ahead row
\* before its create, the replaced row in the companion row, and so on.
Stage ==
    /\ row.st = "creating" => row.id = 0
    /\ row.st = "none" => row = NoRow
    /\ comp.st \in {"none", "created"} /\ (comp.st = "none" => comp = NoRow)
    /\ todo = <<>> => calls = <<>>
    /\ At("create", 2) \/ At("create", 4) \/ At("destroy", 3) \/ Wrote => row = Row("creating", want, 0)
    /\ At("persist", 1) => row.st # "none"
    /\ At("persist", 3) => row.st = "creating"
    /\ At("ahead", 3) => row.st # "created"
    /\ At("update", 2) => row.st = "created"
    /\ (At("update", 2) \/ At("persist", 1)) /\ row.st = "created" =>
          \A f \in h.fields \cap {"name", "imm"} : row.in[f] = want[f]
    /\ At("ahead", 4) => row.st = "created" /\ old = row
    /\ At("destroy", 3) => old.st = "created"
    /\ At("companion", 6) => row.st = "created" /\ comp.st = "none" /\ old = row
    /\ At("ahead", 5) => row.st = "created" /\ comp = row
    /\ todo # <<>> /\ Beside /\ Len(todo) # 6 => old = comp /\ comp.st = "created"
    /\ todo # <<>> /\ Removing => row.st # "none" /\ old = row

----------------------------------------------------------------------------
(* The calls a handler has left: a listing stands before what goes by it,   *)
(* and what is taken away before a call that adds stands right behind it.  *)

\* What follows what, in a handler's calls ...
Placed(s, n) ==
    /\ s[n] \in {"untag", "authorize"} => n > 1 /\ s[n - 1] = "listed"
    /\ s[n] = "tag" => n > 1 /\ s[n - 1] = "untag"
    /\ s[n] = "revoke" => n > 1 /\ s[n - 1] = "authorize"
    /\ s[n] = "untag" => n < Len(s) /\ s[n + 1] = "tag"
    /\ s[n] = "authorize" => n < Len(s) /\ s[n + 1] = "revoke"
    /\ s[n] = "revoke" => n < Len(s) /\ s[n + 1] = "relabel"
    /\ s[n] = "unroute" => n < Len(s) /\ s[n + 1] = "route"
    /\ s[n] = "stamp" => n = 1
    /\ s[n] \in Setting
InPlace(s) == \A n \in 1 .. Len(s) : Placed(s, n)
\* ... and in what is left of them.
Due(s, n) ==
    /\ n > 1 => /\ s[n] \in {"untag", "authorize"} => s[n - 1] = "listed"
                /\ s[n] = "tag" => s[n - 1] = "untag"
                /\ s[n] = "revoke" => s[n - 1] = "authorize"
                /\ s[n] = "gone" => s[n - 1] = "delete"
                /\ s[n] # "stamp"
    /\ s[n] = "untag" => n < Len(s) /\ s[n + 1] = "tag"
    /\ s[n] = "authorize" => n < Len(s) /\ s[n + 1] = "revoke"
    /\ s[n] = "revoke" => n < Len(s) /\ s[n + 1] = "relabel"
    /\ s[n] = "unroute" => n < Len(s) /\ s[n + 1] = "route"
    /\ s[n] = "delete" => n < Len(s) /\ s[n + 1] \in {"gone", "return"}
    /\ s[n] \in {"return", "make"} => n = Len(s)
Orderly(s) == \A n \in 1 .. Len(s) : Due(s, n)

Ordered ==
    /\ Orderly(calls)
    /\ calls # <<>> => Head(todo) \in Operations /\ calls[Len(calls)] \in {"make", "return"}
    /\ Within("create") =>
          IF it = 0 THEN calls = IF h.by = "lookup" THEN <<"return">> ELSE <<"make">>
          ELSE Left \subseteq ToSet(h.adopt) \cup ToSet(h.after) \cup {"return"}
    /\ Within("update") => Left \subseteq ToSet(h.update) \cup {"return"}
    /\ Within("destroy") => Left \subseteq ToSet(h.delete) \cup {"return"}

----------------------------------------------------------------------------
(* Whose an object is, and what leads to it.                               *)

ByMark == {"tag", "reference", "reference and name"}
ByName == {"name", "name, then id"}
\* No two objects answer to the same mark, name or token (create_or_adopt), and the
\* node's mark is on its own objects only.
Identified ==
    /\ h.by \in ByMark => \A i \in Objects : cloud[i].mark <=> cloud[i].ours
    /\ h.by \in ByName \cup {"reference and name", "token"} => \A i \in Objects : cloud[i].ours
    /\ h.by = "lookup" => \A i \in Objects : ~cloud[i].ours
    /\ h.by \in ByMark => \A i, j \in Marked : i = j
    /\ h.by \in ByName => \A i, j \in Objects : cloud[i].set.name = cloud[j].set.name => i = j
    /\ h.by = "token" => \A i, j \in Marked :
          cloud[i].set.name = cloud[j].set.name /\ cloud[i].set.imm = cloud[j].set.imm => i = j

\* an id leads to an object of ours
Leading(id) == id # 0 => id \in DOMAIN cloud /\ (Exists(id) => cloud[id].ours)
\* The ids of the rows, and the object a handler works on: the row's, or the one its
\* create call made or took over.
Ids ==
    /\ Leading(row.id) /\ Leading(comp.id) /\ Leading(old.id)
    /\ \A r \in {row, comp, old} :
        /\ r.st = "created" => (h.by = "lookup" <=> r.id = 0)
        /\ r.st = "none" => r.id = 0
    /\ Creating \/ Within("update") \/ Doing("persist") \/ Within("destroy") => Leading(it)
    /\ Creating \/ (Doing("persist") /\ h.by # "lookup") \/ Within("update") => it # 0
    /\ Wrote /\ h.by = "lookup" => it = 0
    /\ Creating => h.by # "lookup"
    /\ Within("update") \/ (Doing("persist") /\ row.st = "created") =>
          IF h.by = "name" THEN Here => it \in Held(row) ELSE it = row.id
    /\ Creating \/ Wrote => (it \in Ours => it \in Conflicting)

----------------------------------------------------------------------------
(* The objects made for the node: none goes astray.                        *)

\* A delete works on what its row leads to, until that is gone ...
Destroying ==
    Within("destroy") =>
        /\ Target(old) \subseteq {it}
        /\ Here /\ (Live(it) \/ old.st = "created") => it \in Target(old)
        /\ (Target(old) \cap Ours) \ lost # {} =>
              IF "gone" \in ToSet(h.delete) THEN "gone" \in Left ELSE "delete" \in Left
\* ... and the row is dropped only then, or when the delete passed over the object.
Destroyed ==
    /\ At("uncompanion", 1) => Target(comp) \cap Ours \subseteq lost
    /\ At("forget", 1) => Target(row) \cap Ours \subseteq lost

\* What leads to an object of ours: the row, or the row being replaced, or the create
\* that is to come; and what a run cut short before it was lost.
Leads ==
    IF row.st = "created" THEN Target(row)
    ELSE IF At("destroy", 3) THEN Target(old)
    ELSE IF row.st = "creating" THEN Claims(row.in)
    ELSE {}
Led == Ours \subseteq lost \cup Target(comp) \cup Leads
LedNew == Creating \/ Wrote => Ours \subseteq lost \cup Target(comp) \cup {it}

----------------------------------------------------------------------------
(* What the row says of its object.                                        *)

\* Nobody deleted it, by hand or by a destroy cut short.
Standing == "gone" \notin astray

\* The row and the companion row lead to two objects, so that the destroy half of a
\* create-before-destroy cannot reach the new one.
Apart ==
    Standing =>
        /\ row.st = "created" /\ ~At("ahead", 5) => Held(row) \cap Target(comp) = {}
        /\ Creating \/ Wrote => it \notin Target(comp)

\* A call among s will still set the facet f.
Pends(f, s) ==
    \/ f = "body" /\ "body" \in s
    \/ f = "late" /\ "late" \in s
    \/ f = "imm" /\ "attach" \in s
    \/ f = "tags" /\ s \cap {"stamp", "tag", "untag", "settags"} # {}
    \/ f = "entries" /\ s \cap {"revoke", "relabel", "route"} # {}

\* While a create or an update is on its way, up to the row that records it: every
\* facet is as declared, or a call left in the handler's plan will set it; and the
\* object is not on its way out, unless the handler waits to find that out next
\* (a table still being deleted answers describe_table).
Working == (Creating \/ Within("update") \/ Doing("persist")) /\ h.by # "lookup"
Sound == Here /\ cloud[it].up # "dying"
Progress ==
    Standing /\ Working =>
        /\ Sound \/ (calls # <<>> /\ Head(calls) = "active")
        /\ Sound => \A f \in h.fields \ astray : cloud[it].set[f] = want[f] \/ Pends(f, Left)
        /\ Sound /\ calls # <<>> /\ Head(calls) = "stamp" /\ "tags" \in h.fields \ astray => cloud[it].set.tags = {}
\* A sync goes by a listing that is still true (sync_tags, _sync_rules).
Listed ==
    calls # <<>> /\ Here =>
        /\ Head(calls) \in {"untag", "authorize"} => seen = cloud[it].set
        /\ Head(calls) = "tag" => cloud[it].set.tags \subseteq want.tags
        /\ Head(calls) = "revoke" => \A k \in Keys : want.entries[k] # 0 => cloud[it].set.entries[k] # 0

\* The row's object still has the name and the immutable facet the row records.
Kept ==
    Standing /\ row.st = "created" =>
        \A i \in Target(row) :
            /\ \A f \in (h.fields \cap {"name", "imm"}) \ astray : cloud[i].set[f] = row.in[f]
            /\ ~Removing => cloud[i].up # "dying"

\* Behind a persisted row only the old object's destroy half is left to run.
Saved == saved /\ calls # <<>> => Head(todo) = "destroy" /\ Beside

\* Only what a handler deletes in the background is ever on its way out; and such a
\* handler keeps no entries.
Dying ==
    \A i \in Objects :
        /\ cloud[i].up = "dying" => "gone" \in ToSet(h.delete) /\ cloud[i].ours
        /\ "gone" \in ToSet(h.delete) /\ cloud[i].ours => cloud[i].set.entries = Blank.entries

\* What a handler's record says of what it finds and compares, ...
Shaped(g) ==
    /\ g.by \in ByMark \cup ByName \cup {"token", "lookup"}
    /\ g.fields \subseteq Settings /\ g.stamps \subseteq Settings
    /\ g.reads \subseteq Settings \ {"name", "imm"}
    /\ g.by \in ByName \cup {"reference and name", "token"} => "name" \in g.fields \cap g.stamps
    /\ g.by = "token" => "imm" \in g.fields \cap g.stamps
    /\ g.by = "lookup" => g.fields = {}
    /\ g.by = "reference" => "name" \notin g.fields
    /\ g.by = "tag" => g.adopt = <<>> /\ "tags" \notin g.stamps
    /\ g.born \in {"active", "pending"}

\* ... of its calls and their order, ...
Sequenced(g) ==
    /\ \A s \in {g.adopt, g.after, g.update} : s \in Seq(CallNames) /\ InPlace(s) /\ ToSet(s) \subseteq Setting
    /\ "stamp" \in ToSet(g.after) => g.by = "tag"
    /\ "attach" \in ToSet(g.after) => g.by = "tag"
    /\ {"stamp", "attach"} \cap (ToSet(g.adopt) \cup ToSet(g.update)) = {}
    /\ g.adopt # <<>> => "stamp" \notin ToSet(g.after)
    /\ g.delete \in {<<>>, <<"delete">>, <<"detach", "delete">>, <<"disassociate", "delete">>, <<"delete", "gone">>,
                     <<"disable", "deployed", "delete">>}
    /\ g.delete = <<>> => g.by = "lookup"

\* ... and of what its calls leave as declared.
Complete(g) ==
    /\ g.fields \subseteq {"name", "imm"} \cup SetBy(g.update)
    /\ \A f \in g.fields : f \in g.stamps \/ Pends(f, ToSet(g.after))
    /\ g.by = "tag" => "tags" \notin SetBy(g.after)

Particular(k, g) ==
    /\ k = "NatGateway" => /\ g.by = "tag" 
                           /\ {"attach", "body"} \cap (ToSet(g.after) \cup ToSet(g.update)) = {}
                           /\ g.delete = <<"delete", "gone">>
    /\ k = "SecurityGroup" => /\ g.adopt = <<>>
                              /\ {"unroute", "route"} \cap (ToSet(g.after) \cup ToSet(g.update)) = {}
    /\ g.delete = <<"delete", "gone">> =>
          /\ k # "NatGateway" => g.by = "name" /\ g.adopt = <<>> /\ g.after = <<"active", "late">>
          /\ k # "SecurityGroup" /\ "entries" \notin g.stamps \cup g.fields
          /\ {"authorize", "revoke", "relabel", "unroute", "route"}
                \cap (ToSet(g.adopt) \cup ToSet(g.after) \cup ToSet(g.update)) = {}

Fits(k, g) == Shaped(g) /\ Sequenced(g) /\ Complete(g) /\ Particular(k, g)

LEMMA Singles ==
    \A x \in Setting \ {"untag", "tag", "authorize", "revoke", "unroute"} :
        <<x>> \in Seq(CallNames) /\ InPlace(<<x>>) /\ ToSet(<<x>>) = {x}
BY DEF Setting, CallNames, InPlace, Placed, ToSet

LEMMA Synced ==
    /\ SyncTags \in Seq(CallNames) /\ InPlace(SyncTags) /\ ToSet(SyncTags) = {"listed", "untag", "tag"}
    /\ SyncRules \in Seq(CallNames) /\ InPlace(SyncRules) /\ ToSet(SyncRules) = {"listed", "authorize", "revoke", "relabel"}
    /\ SyncRoutes \in Seq(CallNames) /\ InPlace(SyncRoutes) /\ ToSet(SyncRoutes) = {"listed", "unroute", "route"}
    /\ <<>> \in Seq(CallNames) /\ InPlace(<<>>) /\ ToSet(<<>>) = {}
<1>1. SyncTags \in Seq(CallNames) /\ InPlace(SyncTags) /\ ToSet(SyncTags) = {"listed", "untag", "tag"}
  BY DEF CallNames, Setting, SyncTags, InPlace, Placed, ToSet
<1>2. SyncRules \in Seq(CallNames) /\ InPlace(SyncRules) /\ ToSet(SyncRules) = {"listed", "authorize", "revoke", "relabel"}
  BY DEF CallNames, Setting, SyncRules, InPlace, Placed, ToSet
<1>3. SyncRoutes \in Seq(CallNames) /\ InPlace(SyncRoutes) /\ ToSet(SyncRoutes) = {"listed", "unroute", "route"}
  BY DEF CallNames, Setting, SyncRoutes, InPlace, Placed, ToSet
<1>4. <<>> \in Seq(CallNames) /\ InPlace(<<>>) /\ ToSet(<<>>) = {}
  BY DEF InPlace, Placed, ToSet
<1> QED
  BY <1>1, <1>2, <1>3, <1>4

LEMMA Joined ==
    ASSUME NEW s \in Seq(CallNames), NEW t \in Seq(CallNames), InPlace(s), InPlace(t), "stamp" \notin ToSet(t)
    PROVE  s \o t \in Seq(CallNames) /\ InPlace(s \o t) /\ ToSet(s \o t) = ToSet(s) \cup ToSet(t)
<1> DEFINE u == s \o t
<1>1. u \in Seq(CallNames) /\ Len(u) = Len(s) + Len(t) /\ Len(s) \in Nat /\ Len(t) \in Nat
  OBVIOUS
<1>2. \A n \in 1 .. Len(s) : u[n] = s[n]
  OBVIOUS
<1>3. \A n \in 1 .. Len(t) : u[Len(s) + n] = t[n]
  OBVIOUS
<1>4. \A n \in 1 .. Len(u) : n \in 1 .. Len(s) \/ \E m \in 1 .. Len(t) : n = Len(s) + m
  <2> TAKE n \in 1 .. Len(u)
  <2> SUFFICES ASSUME n \notin 1 .. Len(s) PROVE \E m \in 1 .. Len(t) : n = Len(s) + m
    OBVIOUS
  <2>1. n - Len(s) \in 1 .. Len(t) /\ n = Len(s) + (n - Len(s))
    BY <1>1
  <2> QED
    BY <2>1
<1> HIDE DEF u
<1>5. ToSet(u) = ToSet(s) \cup ToSet(t)
  <2>1. \A n \in 1 .. Len(s) : n \in 1 .. Len(u)
    BY <1>1
  <2>2. \A n \in 1 .. Len(t) : Len(s) + n \in 1 .. Len(u)
    BY <1>1
  <2>3. DOMAIN u = 1 .. Len(u) /\ DOMAIN s = 1 .. Len(s) /\ DOMAIN t = 1 .. Len(t)
    BY <1>1
  <2>4. ToSet(u) \subseteq ToSet(s) \cup ToSet(t)
    <3> SUFFICES ASSUME NEW n \in 1 .. Len(u) PROVE u[n] \in ToSet(s) \cup ToSet(t)
      BY <2>3 DEF ToSet
    <3> QED
      BY <1>2, <1>3, <1>4, <2>3 DEF ToSet
  <2>5. ToSet(s) \subseteq ToSet(u) /\ ToSet(t) \subseteq ToSet(u)
    <3>1. \A n \in 1 .. Len(s) : s[n] \in ToSet(u)
      BY <1>2, <2>1, <2>3 DEF ToSet
    <3>2. \A n \in 1 .. Len(t) : t[n] \in ToSet(u)
      BY <1>3, <2>2, <2>3 DEF ToSet
    <3> QED
      BY <3>1, <3>2, <2>3 DEF ToSet
  <2> QED
    BY <2>4, <2>5
<1>6. InPlace(u)
  <2> SUFFICES ASSUME NEW n \in 1 .. Len(u) PROVE Placed(u, n)
    BY DEF InPlace
  <2>1. CASE n \in 1 .. Len(s)
    <3>1. n > 1 => u[n - 1] = s[n - 1]
      BY <2>1, <1>1, <1>2
    <3>2. n < Len(s) => n < Len(u) /\ u[n + 1] = s[n + 1]
      BY <2>1, <1>1, <1>2
    <3> QED
      BY <2>1, <3>1, <3>2, <1>1, <1>2 DEF InPlace, Placed
  <2>2. ASSUME NEW m \in 1 .. Len(t), n = Len(s) + m PROVE Placed(u, n)
    <3>1. m > 1 => n > 1 /\ u[n - 1] = t[m - 1]
      <4> HAVE m > 1
      <4>1. m - 1 \in 1 .. Len(t) /\ n - 1 = Len(s) + (m - 1) /\ n > 1
        BY <1>1, <2>2
      <4> QED
        BY <4>1, <1>3
    <3>2. m < Len(t) => n < Len(u) /\ u[n + 1] = t[m + 1]
      <4> HAVE m < Len(t)
      <4>1. m + 1 \in 1 .. Len(t) /\ n + 1 = Len(s) + (m + 1) /\ n < Len(u)
        BY <1>1, <2>2
      <4> QED
        BY <4>1, <1>3
    <3>3. u[n] = t[m] /\ t[m] # "stamp"
      BY <1>1, <1>3, <2>2 DEF ToSet
    <3> QED
      BY <3>1, <3>2, <3>3, <1>1 DEF InPlace, Placed
  <2> QED
    BY <2>1, <2>2, <1>4
<1> QED
  BY <1>1, <1>5, <1>6 DEF u

\* A sequence that may be joined with others behind it.
Block(s, S) == s \in Seq(CallNames) /\ InPlace(s) /\ ToSet(s) = S

LEMMA BlockOne == ASSUME NEW x \in Setting \ {"untag", "tag", "authorize", "revoke", "unroute"} PROVE Block(<<x>>, {x})
BY Singles DEF Block
LEMMA BlockSynced ==
    /\ Block(SyncTags, {"listed", "untag", "tag"})
    /\ Block(SyncRules, {"listed", "authorize", "revoke", "relabel"})
    /\ Block(SyncRoutes, {"listed", "unroute", "route"})
    /\ Block(<<>>, {})
BY Synced DEF Block
LEMMA BlockJoined ==
    ASSUME NEW s, NEW S, NEW t, NEW T, Block(s, S), Block(t, T), "stamp" \notin T
    PROVE  Block(s \o t, S \cup T)
BY Joined DEF Block

\* The blocks the handlers are built from.
LEMMA Blocks ==
    /\ Block(<<"stamp">> \o <<>>, {"stamp"})
    /\ Block(SyncTags \o <<>>, {"listed", "untag", "tag"})
    /\ Block(<<"stamp">> \o <<"late">>, {"stamp", "late"})
    /\ Block(SyncTags \o <<"late">>, {"listed", "untag", "tag", "late"})
    /\ Block(<<"stamp">> \o SyncRules, {"stamp", "listed", "authorize", "revoke", "relabel"})
    /\ Block(SyncTags \o SyncRules, {"listed", "untag", "tag", "authorize", "revoke", "relabel"})
    /\ Block(<<"stamp">> \o <<"attach">>, {"stamp", "attach"})
    /\ Block(<<"stamp">> \o <<"listed">>, {"stamp", "listed"})
    /\ Block(<<"stamp">> \o <<"active">>, {"stamp", "active"})
    /\ Block(<<"stamp">> \o (SyncRoutes \o <<"late">>), {"stamp", "listed", "unroute", "route", "late"})
    /\ Block(SyncTags \o (SyncRoutes \o <<"late">>), {"listed", "untag", "tag", "unroute", "route", "late"})
    /\ Block(<<"body">> \o SyncTags, {"body", "listed", "untag", "tag"})
    /\ Block(<<"body", "active", "late">> \o SyncTags, {"body", "active", "late", "listed", "untag", "tag"})
    /\ Block(<<"active">> \o (<<"body", "active", "late">> \o SyncTags), {"body", "active", "late", "listed", "untag", "tag"})
    /\ Block(<<"active", "late">>, {"active", "late"})
    /\ Block(<<"body", "late">> \o SyncTags, {"body", "late", "listed", "untag", "tag"})
    /\ Block(<<"late">> \o SyncTags, {"late", "listed", "untag", "tag"})
    /\ Block(<<"body", "settags">>, {"body", "settags"})
<1>1. \A x \in {"stamp", "late", "attach", "listed", "active", "body"} : Block(<<x>>, {x})
  BY BlockOne DEF Setting
<1>2. /\ Block(<<"body", "active", "late">>, {"body", "active", "late"})
      /\ Block(<<"active", "late">>, {"active", "late"})
      /\ Block(<<"body", "late">>, {"body", "late"})
      /\ Block(<<"body", "settags">>, {"body", "settags"})
  BY DEF Block, InPlace, Placed, CallNames, Setting, ToSet
<1>3. Block(<<"stamp">> \o <<>>, {"stamp"})
  <2>1. Block(<<"stamp">> \o <<>>, {"stamp"} \cup {})
    BY <1>1, <1>2, BlockSynced, BlockJoined
  <2>2. {"stamp"} \cup {} = {"stamp"}
    OBVIOUS
  <2> QED
    BY <2>1, <2>2
<1>4. Block(SyncTags \o <<>>, {"listed", "untag", "tag"})
  <2>1. Block(SyncTags \o <<>>, {"listed", "untag", "tag"} \cup {})
    BY <1>1, <1>2, BlockSynced, BlockJoined
  <2>2. {"listed", "untag", "tag"} \cup {} = {"listed", "untag", "tag"}
    OBVIOUS
  <2> QED
    BY <2>1, <2>2
<1>5. Block(<<"stamp">> \o <<"late">>, {"stamp", "late"})
  <2>1. Block(<<"stamp">> \o <<"late">>, {"stamp"} \cup {"late"})
    BY <1>1, <1>2, BlockSynced, BlockJoined
  <2>2. {"stamp"} \cup {"late"} = {"stamp", "late"}
    OBVIOUS
  <2> QED
    BY <2>1, <2>2
<1>6. Block(SyncTags \o <<"late">>, {"listed", "untag", "tag", "late"})
  <2>1. Block(SyncTags \o <<"late">>, {"listed", "untag", "tag"} \cup {"late"})
    BY <1>1, <1>2, BlockSynced, BlockJoined
  <2>2. {"listed", "untag", "tag"} \cup {"late"} = {"listed", "untag", "tag", "late"}
    OBVIOUS
  <2> QED
    BY <2>1, <2>2
<1>7. Block(<<"stamp">> \o SyncRules, {"stamp", "listed", "authorize", "revoke", "relabel"})
  <2>1. Block(<<"stamp">> \o SyncRules, {"stamp"} \cup {"listed", "authorize", "revoke", "relabel"})
    BY <1>1, <1>2, BlockSynced, BlockJoined
  <2>2. {"stamp"} \cup {"listed", "authorize", "revoke", "relabel"} = {"stamp", "listed", "authorize", "revoke", "relabel"}
    OBVIOUS
  <2> QED
    BY <2>1, <2>2
<1>8. Block(SyncTags \o SyncRules, {"listed", "untag", "tag", "authorize", "revoke", "relabel"})
  <2>1. Block(SyncTags \o SyncRules, {"listed", "untag", "tag"} \cup {"listed", "authorize", "revoke", "relabel"})
    BY <1>1, <1>2, BlockSynced, BlockJoined
  <2>2. {"listed", "untag", "tag"} \cup {"listed", "authorize", "revoke", "relabel"} = {"listed", "untag", "tag", "authorize", "revoke", "relabel"}
    OBVIOUS
  <2> QED
    BY <2>1, <2>2
<1>9. Block(<<"stamp">> \o <<"attach">>, {"stamp", "attach"})
  <2>1. Block(<<"stamp">> \o <<"attach">>, {"stamp"} \cup {"attach"})
    BY <1>1, <1>2, BlockSynced, BlockJoined
  <2>2. {"stamp"} \cup {"attach"} = {"stamp", "attach"}
    OBVIOUS
  <2> QED
    BY <2>1, <2>2
<1>10. Block(<<"stamp">> \o <<"listed">>, {"stamp", "listed"})
  <2>1. Block(<<"stamp">> \o <<"listed">>, {"stamp"} \cup {"listed"})
    BY <1>1, <1>2, BlockSynced, BlockJoined
  <2>2. {"stamp"} \cup {"listed"} = {"stamp", "listed"}
    OBVIOUS
  <2> QED
    BY <2>1, <2>2
<1>11. Block(<<"stamp">> \o <<"active">>, {"stamp", "active"})
  <2>1. Block(<<"stamp">> \o <<"active">>, {"stamp"} \cup {"active"})
    BY <1>1, <1>2, BlockSynced, BlockJoined
  <2>2. {"stamp"} \cup {"active"} = {"stamp", "active"}
    OBVIOUS
  <2> QED
    BY <2>1, <2>2
<1>19. Block(SyncRoutes \o <<"late">>, {"listed", "unroute", "route", "late"})
  <2>1. Block(SyncRoutes \o <<"late">>, {"listed", "unroute", "route"} \cup {"late"})
    BY <1>1, BlockSynced, BlockJoined
  <2>2. {"listed", "unroute", "route"} \cup {"late"} = {"listed", "unroute", "route", "late"}
    OBVIOUS
  <2> QED
    BY <2>1, <2>2
<1>12. Block(<<"stamp">> \o (SyncRoutes \o <<"late">>), {"stamp", "listed", "unroute", "route", "late"})
  <2>1. Block(<<"stamp">> \o (SyncRoutes \o <<"late">>), {"stamp"} \cup {"listed", "unroute", "route", "late"})
    BY <1>1, <1>2, <1>19, BlockSynced, BlockJoined
  <2>2. {"stamp"} \cup {"listed", "unroute", "route", "late"} = {"stamp", "listed", "unroute", "route", "late"}
    OBVIOUS
  <2> QED
    BY <2>1, <2>2
<1>13. Block(SyncTags \o (SyncRoutes \o <<"late">>), {"listed", "untag", "tag", "unroute", "route", "late"})
  <2>1. Block(SyncTags \o (SyncRoutes \o <<"late">>), {"listed", "untag", "tag"} \cup {"listed", "unroute", "route", "late"})
    BY <1>1, <1>2, <1>19, BlockSynced, BlockJoined
  <2>2. {"listed", "untag", "tag"} \cup {"listed", "unroute", "route", "late"} = {"listed", "untag", "tag", "unroute", "route", "late"}
    OBVIOUS
  <2> QED
    BY <2>1, <2>2
<1>14. Block(<<"body">> \o SyncTags, {"body", "listed", "untag", "tag"})
  <2>1. Block(<<"body">> \o SyncTags, {"body"} \cup {"listed", "untag", "tag"})
    BY <1>1, <1>2, BlockSynced, BlockJoined
  <2>2. {"body"} \cup {"listed", "untag", "tag"} = {"body", "listed", "untag", "tag"}
    OBVIOUS
  <2> QED
    BY <2>1, <2>2
<1>15. Block(<<"body", "active", "late">> \o SyncTags, {"body", "active", "late", "listed", "untag", "tag"})
  <2>1. Block(<<"body", "active", "late">> \o SyncTags, {"body", "active", "late"} \cup {"listed", "untag", "tag"})
    BY <1>1, <1>2, BlockSynced, BlockJoined
  <2>2. {"body", "active", "late"} \cup {"listed", "untag", "tag"} = {"body", "active", "late", "listed", "untag", "tag"}
    OBVIOUS
  <2> QED
    BY <2>1, <2>2
<1>16. Block(<<"active">> \o (<<"body", "active", "late">> \o SyncTags), {"active", "body", "late", "listed", "untag", "tag"})
  <2>1. Block(<<"active">> \o (<<"body", "active", "late">> \o SyncTags), {"active"} \cup {"body", "active", "late", "listed", "untag", "tag"})
    BY <1>1, <1>2, <1>15, BlockSynced, BlockJoined
  <2>2. {"active"} \cup {"body", "active", "late", "listed", "untag", "tag"} = {"active", "body", "late", "listed", "untag", "tag"}
    OBVIOUS
  <2> QED
    BY <2>1, <2>2
<1>17. Block(<<"body", "late">> \o SyncTags, {"body", "late", "listed", "untag", "tag"})
  <2>1. Block(<<"body", "late">> \o SyncTags, {"body", "late"} \cup {"listed", "untag", "tag"})
    BY <1>1, <1>2, BlockSynced, BlockJoined
  <2>2. {"body", "late"} \cup {"listed", "untag", "tag"} = {"body", "late", "listed", "untag", "tag"}
    OBVIOUS
  <2> QED
    BY <2>1, <2>2
<1>18. Block(<<"late">> \o SyncTags, {"late", "listed", "untag", "tag"})
  <2>1. Block(<<"late">> \o SyncTags, {"late"} \cup {"listed", "untag", "tag"})
    BY <1>1, <1>2, BlockSynced, BlockJoined
  <2>2. {"late"} \cup {"listed", "untag", "tag"} = {"late", "listed", "untag", "tag"}
    OBVIOUS
  <2> QED
    BY <2>1, <2>2
<1> QED
  BY <1>2, <1>3, <1>4, <1>5, <1>6, <1>7, <1>8, <1>9, <1>10, <1>11, <1>12, <1>13, <1>14, <1>15, <1>16, <1>17, <1>18

\* What every handler's record comes to.
LEMMA Provided == \A k \in DOMAIN Handler : Fits(k, Handler[k])
<1>1. Fits("Vpc", Vpc)
  <2>1. Block(Vpc.adopt, {}) /\ Block(Vpc.after, {"stamp"}) /\ Block(Vpc.update, {"listed", "untag", "tag"})
    BY Blocks, BlockOne, BlockSynced DEF Vpc, Ec2, Setting
  <2>2. ToSet(Vpc.adopt) = {} /\ ToSet(Vpc.after) = {"stamp"} /\ ToSet(Vpc.update) = {"listed", "untag", "tag"}
    BY <2>1 DEF Block
  <2>3. Shaped(Vpc)
    BY DEF Vpc, Ec2, Shaped, Settings, ByMark, ByName
  <2>4. Sequenced(Vpc)
    BY <2>1, <2>2 DEF Vpc, Ec2, Block, Sequenced, Setting
  <2>5. Complete(Vpc)
    BY <2>2 DEF Vpc, Ec2, Complete, SetBy, Pends
  <2>6. Particular("Vpc", Vpc)
    BY <2>2 DEF Vpc, Ec2, Particular
  <2> QED
    BY <2>3, <2>4, <2>5, <2>6 DEF Fits
<1>2. Fits("Subnet", Subnet)
  <2>1. Block(Subnet.adopt, {}) /\ Block(Subnet.after, {"stamp", "late"}) /\ Block(Subnet.update, {"listed", "untag", "tag", "late"})
    BY Blocks, BlockOne, BlockSynced DEF Subnet, Ec2, Setting
  <2>2. ToSet(Subnet.adopt) = {} /\ ToSet(Subnet.after) = {"stamp", "late"} /\ ToSet(Subnet.update) = {"listed", "untag", "tag", "late"}
    BY <2>1 DEF Block
  <2>3. Shaped(Subnet)
    BY DEF Subnet, Ec2, Shaped, Settings, ByMark, ByName
  <2>4. Sequenced(Subnet)
    BY <2>1, <2>2 DEF Subnet, Ec2, Block, Sequenced, Setting
  <2>5. Complete(Subnet)
    BY <2>2 DEF Subnet, Ec2, Complete, SetBy, Pends
  <2>6. Particular("Subnet", Subnet)
    BY <2>2 DEF Subnet, Ec2, Particular
  <2> QED
    BY <2>3, <2>4, <2>5, <2>6 DEF Fits
<1>3. Fits("SecurityGroup", SecurityGroup)
  <2>1. Block(SecurityGroup.adopt, {}) /\ Block(SecurityGroup.after, {"stamp", "listed", "authorize", "revoke", "relabel"}) /\ Block(SecurityGroup.update, {"listed", "untag", "tag", "authorize", "revoke", "relabel"})
    BY Blocks, BlockOne, BlockSynced DEF SecurityGroup, Ec2, Setting
  <2>2. ToSet(SecurityGroup.adopt) = {} /\ ToSet(SecurityGroup.after) = {"stamp", "listed", "authorize", "revoke", "relabel"} /\ ToSet(SecurityGroup.update) = {"listed", "untag", "tag", "authorize", "revoke", "relabel"}
    BY <2>1 DEF Block
  <2>3. Shaped(SecurityGroup)
    BY DEF SecurityGroup, Ec2, Shaped, Settings, ByMark, ByName
  <2>4. Sequenced(SecurityGroup)
    BY <2>1, <2>2 DEF SecurityGroup, Ec2, Block, Sequenced, Setting
  <2>5. Complete(SecurityGroup)
    BY <2>2 DEF SecurityGroup, Ec2, Complete, SetBy, Pends
  <2>6. Particular("SecurityGroup", SecurityGroup)
    BY <2>2 DEF SecurityGroup, Ec2, Particular
  <2> QED
    BY <2>3, <2>4, <2>5, <2>6 DEF Fits
<1>4. Fits("InternetGateway", InternetGateway)
  <2>1. Block(InternetGateway.adopt, {}) /\ Block(InternetGateway.after, {"stamp", "attach"}) /\ Block(InternetGateway.update, {"listed", "untag", "tag"})
    BY Blocks, BlockOne, BlockSynced DEF InternetGateway, Ec2, Setting
  <2>2. ToSet(InternetGateway.adopt) = {} /\ ToSet(InternetGateway.after) = {"stamp", "attach"} /\ ToSet(InternetGateway.update) = {"listed", "untag", "tag"}
    BY <2>1 DEF Block
  <2>3. Shaped(InternetGateway)
    BY DEF InternetGateway, Ec2, Shaped, Settings, ByMark, ByName
  <2>4. Sequenced(InternetGateway)
    BY <2>1, <2>2 DEF InternetGateway, Ec2, Block, Sequenced, Setting
  <2>5. Complete(InternetGateway)
    BY <2>2 DEF InternetGateway, Ec2, Complete, SetBy, Pends
  <2>6. Particular("InternetGateway", InternetGateway)
    BY <2>2 DEF InternetGateway, Ec2, Particular
  <2> QED
    BY <2>3, <2>4, <2>5, <2>6 DEF Fits
<1>5. Fits("ElasticIp", ElasticIp)
  <2>1. Block(ElasticIp.adopt, {}) /\ Block(ElasticIp.after, {"stamp", "listed"}) /\ Block(ElasticIp.update, {"listed", "untag", "tag"})
    BY Blocks, BlockOne, BlockSynced DEF ElasticIp, Ec2, Setting
  <2>2. ToSet(ElasticIp.adopt) = {} /\ ToSet(ElasticIp.after) = {"stamp", "listed"} /\ ToSet(ElasticIp.update) = {"listed", "untag", "tag"}
    BY <2>1 DEF Block
  <2>3. Shaped(ElasticIp)
    BY DEF ElasticIp, Ec2, Shaped, Settings, ByMark, ByName
  <2>4. Sequenced(ElasticIp)
    BY <2>1, <2>2 DEF ElasticIp, Ec2, Block, Sequenced, Setting
  <2>5. Complete(ElasticIp)
    BY <2>2 DEF ElasticIp, Ec2, Complete, SetBy, Pends
  <2>6. Particular("ElasticIp", ElasticIp)
    BY <2>2 DEF ElasticIp, Ec2, Particular
  <2> QED
    BY <2>3, <2>4, <2>5, <2>6 DEF Fits
<1>6. Fits("NatGateway", NatGateway)
  <2>1. Block(NatGateway.adopt, {}) /\ Block(NatGateway.after, {"stamp", "active"}) /\ Block(NatGateway.update, {"listed", "untag", "tag"})
    BY Blocks, BlockOne, BlockSynced DEF NatGateway, Ec2, Setting
  <2>2. ToSet(NatGateway.adopt) = {} /\ ToSet(NatGateway.after) = {"stamp", "active"} /\ ToSet(NatGateway.update) = {"listed", "untag", "tag"}
    BY <2>1 DEF Block
  <2>3. Shaped(NatGateway)
    BY DEF NatGateway, Ec2, Shaped, Settings, ByMark, ByName
  <2>4. Sequenced(NatGateway)
    BY <2>1, <2>2 DEF NatGateway, Ec2, Block, Sequenced, Setting
  <2>5. Complete(NatGateway)
    BY <2>2 DEF NatGateway, Ec2, Complete, SetBy, Pends
  <2>6. Particular("NatGateway", NatGateway)
    <3>1. /\ NatGateway.by = "tag" /\ NatGateway.delete = <<"delete", "gone">>
          /\ "entries" \notin NatGateway.stamps \cup NatGateway.fields
      BY DEF NatGateway, Ec2
    <3> QED
      BY <2>2, <3>1 DEF Particular
  <2> QED
    BY <2>3, <2>4, <2>5, <2>6 DEF Fits
<1>7. Fits("RouteTable", RouteTable)
  <2>1. Block(RouteTable.adopt, {}) /\ Block(RouteTable.after, {"stamp", "listed", "unroute", "route", "late"}) /\ Block(RouteTable.update, {"listed", "untag", "tag", "unroute", "route", "late"})
    BY Blocks, BlockOne, BlockSynced DEF RouteTable, Ec2, Setting
  <2>2. ToSet(RouteTable.adopt) = {} /\ ToSet(RouteTable.after) = {"stamp", "listed", "unroute", "route", "late"} /\ ToSet(RouteTable.update) = {"listed", "untag", "tag", "unroute", "route", "late"}
    BY <2>1 DEF Block
  <2>3. Shaped(RouteTable)
    BY DEF RouteTable, Ec2, Shaped, Settings, ByMark, ByName
  <2>4. Sequenced(RouteTable)
    BY <2>1, <2>2 DEF RouteTable, Ec2, Block, Sequenced, Setting
  <2>5. Complete(RouteTable)
    BY <2>2 DEF RouteTable, Ec2, Complete, SetBy, Pends
  <2>6. Particular("RouteTable", RouteTable)
    BY <2>2 DEF RouteTable, Ec2, Particular
  <2> QED
    BY <2>3, <2>4, <2>5, <2>6 DEF Fits
<1>8. Fits("IamRole", IamRole)
  <2>1. Block(IamRole.adopt, {"body", "listed", "untag", "tag"}) /\ Block(IamRole.after, {}) /\ Block(IamRole.update, {"body", "listed", "untag", "tag"})
    BY Blocks, BlockOne, BlockSynced DEF IamRole, Named, Setting
  <2>2. ToSet(IamRole.adopt) = {"body", "listed", "untag", "tag"} /\ ToSet(IamRole.after) = {} /\ ToSet(IamRole.update) = {"body", "listed", "untag", "tag"}
    BY <2>1 DEF Block
  <2>3. Shaped(IamRole)
    BY DEF IamRole, Named, Shaped, Settings, ByMark, ByName
  <2>4. Sequenced(IamRole)
    BY <2>1, <2>2 DEF IamRole, Named, Block, Sequenced, Setting
  <2>5. Complete(IamRole)
    BY <2>2 DEF IamRole, Named, Complete, SetBy, Pends
  <2>6. Particular("IamRole", IamRole)
    BY <2>2 DEF IamRole, Named, Particular
  <2> QED
    BY <2>3, <2>4, <2>5, <2>6 DEF Fits
<1>9. Fits("LambdaFunction", LambdaFunction)
  <2>1. Block(LambdaFunction.adopt, {"active", "body", "late", "listed", "untag", "tag"}) /\ Block(LambdaFunction.after, {}) /\ Block(LambdaFunction.update, {"body", "active", "late", "listed", "untag", "tag"})
    BY Blocks, BlockOne, BlockSynced DEF LambdaFunction, Named, Setting
  <2>2. ToSet(LambdaFunction.adopt) = {"active", "body", "late", "listed", "untag", "tag"} /\ ToSet(LambdaFunction.after) = {} /\ ToSet(LambdaFunction.update) = {"body", "active", "late", "listed", "untag", "tag"}
    BY <2>1 DEF Block
  <2>3. Shaped(LambdaFunction)
    BY DEF LambdaFunction, Named, Shaped, Settings, ByMark, ByName
  <2>4. Sequenced(LambdaFunction)
    BY <2>1, <2>2 DEF LambdaFunction, Named, Block, Sequenced, Setting
  <2>5. Complete(LambdaFunction)
    BY <2>2 DEF LambdaFunction, Named, Complete, SetBy, Pends
  <2>6. Particular("LambdaFunction", LambdaFunction)
    BY <2>2 DEF LambdaFunction, Named, Particular
  <2> QED
    BY <2>3, <2>4, <2>5, <2>6 DEF Fits
<1>10. Fits("SqsQueue", SqsQueue)
  <2>1. Block(SqsQueue.adopt, {"body", "listed", "untag", "tag"}) /\ Block(SqsQueue.after, {}) /\ Block(SqsQueue.update, {"body", "listed", "untag", "tag"})
    BY Blocks, BlockOne, BlockSynced DEF SqsQueue, Named, Setting
  <2>2. ToSet(SqsQueue.adopt) = {"body", "listed", "untag", "tag"} /\ ToSet(SqsQueue.after) = {} /\ ToSet(SqsQueue.update) = {"body", "listed", "untag", "tag"}
    BY <2>1 DEF Block
  <2>3. Shaped(SqsQueue)
    BY DEF SqsQueue, Named, Shaped, Settings, ByMark, ByName
  <2>4. Sequenced(SqsQueue)
    BY <2>1, <2>2 DEF SqsQueue, Named, Block, Sequenced, Setting
  <2>5. Complete(SqsQueue)
    BY <2>2 DEF SqsQueue, Named, Complete, SetBy, Pends
  <2>6. Particular("SqsQueue", SqsQueue)
    BY <2>2 DEF SqsQueue, Named, Particular
  <2> QED
    BY <2>3, <2>4, <2>5, <2>6 DEF Fits
<1>11. Fits("DynamoDbTable", DynamoDbTable)
  <2>1. Block(DynamoDbTable.adopt, {}) /\ Block(DynamoDbTable.after, {"active", "late"}) /\ Block(DynamoDbTable.update, {"body", "late", "listed", "untag", "tag"})
    BY Blocks, BlockOne, BlockSynced DEF DynamoDbTable, Named, Setting
  <2>2. ToSet(DynamoDbTable.adopt) = {} /\ ToSet(DynamoDbTable.after) = {"active", "late"} /\ ToSet(DynamoDbTable.update) = {"body", "late", "listed", "untag", "tag"}
    BY <2>1 DEF Block
  <2>3. Shaped(DynamoDbTable)
    BY DEF DynamoDbTable, Named, Shaped, Settings, ByMark, ByName
  <2>4. Sequenced(DynamoDbTable)
    BY <2>1, <2>2 DEF DynamoDbTable, Named, Block, Sequenced, Setting
  <2>5. Complete(DynamoDbTable)
    BY <2>2 DEF DynamoDbTable, Named, Complete, SetBy, Pends
  <2>6. Particular("DynamoDbTable", DynamoDbTable)
    BY <2>2 DEF DynamoDbTable, Named, Particular
  <2> QED
    BY <2>3, <2>4, <2>5, <2>6 DEF Fits
<1>12. Fits("CloudWatchLogGroup", CloudWatchLogGroup)
  <2>1. Block(CloudWatchLogGroup.adopt, {}) /\ Block(CloudWatchLogGroup.after, {"late"}) /\ Block(CloudWatchLogGroup.update, {"late", "listed", "untag", "tag"})
    BY Blocks, BlockOne, BlockSynced DEF CloudWatchLogGroup, Named, Setting
  <2>2. ToSet(CloudWatchLogGroup.adopt) = {} /\ ToSet(CloudWatchLogGroup.after) = {"late"} /\ ToSet(CloudWatchLogGroup.update) = {"late", "listed", "untag", "tag"}
    BY <2>1 DEF Block
  <2>3. Shaped(CloudWatchLogGroup)
    BY DEF CloudWatchLogGroup, Named, Shaped, Settings, ByMark, ByName
  <2>4. Sequenced(CloudWatchLogGroup)
    BY <2>1, <2>2 DEF CloudWatchLogGroup, Named, Block, Sequenced, Setting
  <2>5. Complete(CloudWatchLogGroup)
    BY <2>2 DEF CloudWatchLogGroup, Named, Complete, SetBy, Pends
  <2>6. Particular("CloudWatchLogGroup", CloudWatchLogGroup)
    BY <2>2 DEF CloudWatchLogGroup, Named, Particular
  <2> QED
    BY <2>3, <2>4, <2>5, <2>6 DEF Fits
<1>13. Fits("SnsTopic", SnsTopic)
  <2>1. Block(SnsTopic.adopt, {}) /\ Block(SnsTopic.after, {}) /\ Block(SnsTopic.update, {"listed", "untag", "tag"})
    BY Blocks, BlockOne, BlockSynced DEF SnsTopic, Named, Setting
  <2>2. ToSet(SnsTopic.adopt) = {} /\ ToSet(SnsTopic.after) = {} /\ ToSet(SnsTopic.update) = {"listed", "untag", "tag"}
    BY <2>1 DEF Block
  <2>3. Shaped(SnsTopic)
    BY DEF SnsTopic, Named, Shaped, Settings, ByMark, ByName
  <2>4. Sequenced(SnsTopic)
    BY <2>1, <2>2 DEF SnsTopic, Named, Block, Sequenced, Setting
  <2>5. Complete(SnsTopic)
    BY <2>2 DEF SnsTopic, Named, Complete, SetBy, Pends
  <2>6. Particular("SnsTopic", SnsTopic)
    BY <2>2 DEF SnsTopic, Named, Particular
  <2> QED
    BY <2>3, <2>4, <2>5, <2>6 DEF Fits
<1>14. Fits("SnsSubscription", SnsSubscription)
  <2>1. Block(SnsSubscription.adopt, {}) /\ Block(SnsSubscription.after, {}) /\ Block(SnsSubscription.update, {})
    BY Blocks, BlockOne, BlockSynced DEF SnsSubscription, Named, Setting
  <2>2. ToSet(SnsSubscription.adopt) = {} /\ ToSet(SnsSubscription.after) = {} /\ ToSet(SnsSubscription.update) = {}
    BY <2>1 DEF Block
  <2>3. Shaped(SnsSubscription)
    BY DEF SnsSubscription, Named, Shaped, Settings, ByMark, ByName
  <2>4. Sequenced(SnsSubscription)
    BY <2>1, <2>2 DEF SnsSubscription, Named, Block, Sequenced, Setting
  <2>5. Complete(SnsSubscription)
    BY <2>2 DEF SnsSubscription, Named, Complete, SetBy, Pends
  <2>6. Particular("SnsSubscription", SnsSubscription)
    BY <2>2 DEF SnsSubscription, Named, Particular
  <2> QED
    BY <2>3, <2>4, <2>5, <2>6 DEF Fits
<1>15. Fits("S3Bucket", S3Bucket)
  <2>1. Block(S3Bucket.adopt, {}) /\ Block(S3Bucket.after, {"body", "settags"}) /\ Block(S3Bucket.update, {"body", "settags"})
    BY Blocks, BlockOne, BlockSynced DEF S3Bucket, Named, Setting
  <2>2. ToSet(S3Bucket.adopt) = {} /\ ToSet(S3Bucket.after) = {"body", "settags"} /\ ToSet(S3Bucket.update) = {"body", "settags"}
    BY <2>1 DEF Block
  <2>3. Shaped(S3Bucket)
    BY DEF S3Bucket, Named, Shaped, Settings, ByMark, ByName
  <2>4. Sequenced(S3Bucket)
    BY <2>1, <2>2 DEF S3Bucket, Named, Block, Sequenced, Setting
  <2>5. Complete(S3Bucket)
    BY <2>2 DEF S3Bucket, Named, Complete, SetBy, Pends
  <2>6. Particular("S3Bucket", S3Bucket)
    BY <2>2 DEF S3Bucket, Named, Particular
  <2> QED
    BY <2>3, <2>4, <2>5, <2>6 DEF Fits
<1>16. Fits("Route53Record", Route53Record)
  <2>1. Block(Route53Record.adopt, {}) /\ Block(Route53Record.after, {"body"}) /\ Block(Route53Record.update, {"body"})
    BY Blocks, BlockOne, BlockSynced DEF Route53Record, Named, Upserted, Setting
  <2>2. ToSet(Route53Record.adopt) = {} /\ ToSet(Route53Record.after) = {"body"} /\ ToSet(Route53Record.update) = {"body"}
    BY <2>1 DEF Block
  <2>3. Shaped(Route53Record)
    BY DEF Route53Record, Named, Upserted, Shaped, Settings, ByMark, ByName
  <2>4. Sequenced(Route53Record)
    BY <2>1, <2>2 DEF Route53Record, Named, Upserted, Block, Sequenced, Setting
  <2>5. Complete(Route53Record)
    BY <2>2 DEF Route53Record, Named, Upserted, Complete, SetBy, Pends
  <2>6. Particular("Route53Record", Route53Record)
    BY <2>2 DEF Route53Record, Named, Upserted, Particular
  <2> QED
    BY <2>3, <2>4, <2>5, <2>6 DEF Fits
<1>17. Fits("IamPolicy", IamPolicy)
  <2>1. Block(IamPolicy.adopt, {}) /\ Block(IamPolicy.after, {"body"}) /\ Block(IamPolicy.update, {"body"})
    BY Blocks, BlockOne, BlockSynced DEF IamPolicy, Named, Upserted, Setting
  <2>2. ToSet(IamPolicy.adopt) = {} /\ ToSet(IamPolicy.after) = {"body"} /\ ToSet(IamPolicy.update) = {"body"}
    BY <2>1 DEF Block
  <2>3. Shaped(IamPolicy)
    BY DEF IamPolicy, Named, Upserted, Shaped, Settings, ByMark, ByName
  <2>4. Sequenced(IamPolicy)
    BY <2>1, <2>2 DEF IamPolicy, Named, Upserted, Block, Sequenced, Setting
  <2>5. Complete(IamPolicy)
    BY <2>2 DEF IamPolicy, Named, Upserted, Complete, SetBy, Pends
  <2>6. Particular("IamPolicy", IamPolicy)
    BY <2>2 DEF IamPolicy, Named, Upserted, Particular
  <2> QED
    BY <2>3, <2>4, <2>5, <2>6 DEF Fits
<1>18. Fits("S3BucketPolicy", S3BucketPolicy)
  <2>1. Block(S3BucketPolicy.adopt, {}) /\ Block(S3BucketPolicy.after, {"body"}) /\ Block(S3BucketPolicy.update, {"body"})
    BY Blocks, BlockOne, BlockSynced DEF S3BucketPolicy, Named, Upserted, Setting
  <2>2. ToSet(S3BucketPolicy.adopt) = {} /\ ToSet(S3BucketPolicy.after) = {"body"} /\ ToSet(S3BucketPolicy.update) = {"body"}
    BY <2>1 DEF Block
  <2>3. Shaped(S3BucketPolicy)
    BY DEF S3BucketPolicy, Named, Upserted, Shaped, Settings, ByMark, ByName
  <2>4. Sequenced(S3BucketPolicy)
    BY <2>1, <2>2 DEF S3BucketPolicy, Named, Upserted, Block, Sequenced, Setting
  <2>5. Complete(S3BucketPolicy)
    BY <2>2 DEF S3BucketPolicy, Named, Upserted, Complete, SetBy, Pends
  <2>6. Particular("S3BucketPolicy", S3BucketPolicy)
    BY <2>2 DEF S3BucketPolicy, Named, Upserted, Particular
  <2> QED
    BY <2>3, <2>4, <2>5, <2>6 DEF Fits
<1>19. Fits("OriginAccessControl", OriginAccessControl)
  <2>1. Block(OriginAccessControl.adopt, {}) /\ Block(OriginAccessControl.after, {}) /\ Block(OriginAccessControl.update, {"body"})
    BY Blocks, BlockOne, BlockSynced DEF OriginAccessControl, Named, Setting
  <2>2. ToSet(OriginAccessControl.adopt) = {} /\ ToSet(OriginAccessControl.after) = {} /\ ToSet(OriginAccessControl.update) = {"body"}
    BY <2>1 DEF Block
  <2>3. Shaped(OriginAccessControl)
    BY DEF OriginAccessControl, Named, Shaped, Settings, ByMark, ByName
  <2>4. Sequenced(OriginAccessControl)
    BY <2>1, <2>2 DEF OriginAccessControl, Named, Block, Sequenced, Setting
  <2>5. Complete(OriginAccessControl)
    BY <2>2 DEF OriginAccessControl, Named, Complete, SetBy, Pends
  <2>6. Particular("OriginAccessControl", OriginAccessControl)
    BY <2>2 DEF OriginAccessControl, Named, Particular
  <2> QED
    BY <2>3, <2>4, <2>5, <2>6 DEF Fits
<1>20. Fits("Route53HostedZone", Route53HostedZone)
  <2>1. Block(Route53HostedZone.adopt, {}) /\ Block(Route53HostedZone.after, {}) /\ Block(Route53HostedZone.update, {"body"})
    BY Blocks, BlockOne, BlockSynced DEF Route53HostedZone, Named, Setting
  <2>2. ToSet(Route53HostedZone.adopt) = {} /\ ToSet(Route53HostedZone.after) = {} /\ ToSet(Route53HostedZone.update) = {"body"}
    BY <2>1 DEF Block
  <2>3. Shaped(Route53HostedZone)
    BY DEF Route53HostedZone, Named, Shaped, Settings, ByMark, ByName
  <2>4. Sequenced(Route53HostedZone)
    BY <2>1, <2>2 DEF Route53HostedZone, Named, Block, Sequenced, Setting
  <2>5. Complete(Route53HostedZone)
    BY <2>2 DEF Route53HostedZone, Named, Complete, SetBy, Pends
  <2>6. Particular("Route53HostedZone", Route53HostedZone)
    BY <2>2 DEF Route53HostedZone, Named, Particular
  <2> QED
    BY <2>3, <2>4, <2>5, <2>6 DEF Fits
<1>21. Fits("CloudFrontDistribution", CloudFrontDistribution)
  <2>1. Block(CloudFrontDistribution.adopt, {}) /\ Block(CloudFrontDistribution.after, {}) /\ Block(CloudFrontDistribution.update, {"body", "listed", "untag", "tag"})
    BY Blocks, BlockOne, BlockSynced DEF CloudFrontDistribution, Setting
  <2>2. ToSet(CloudFrontDistribution.adopt) = {} /\ ToSet(CloudFrontDistribution.after) = {} /\ ToSet(CloudFrontDistribution.update) = {"body", "listed", "untag", "tag"}
    BY <2>1 DEF Block
  <2>3. Shaped(CloudFrontDistribution)
    BY DEF CloudFrontDistribution, Shaped, Settings, ByMark, ByName
  <2>4. Sequenced(CloudFrontDistribution)
    BY <2>1, <2>2 DEF CloudFrontDistribution, Block, Sequenced, Setting
  <2>5. Complete(CloudFrontDistribution)
    BY <2>2 DEF CloudFrontDistribution, Complete, SetBy, Pends
  <2>6. Particular("CloudFrontDistribution", CloudFrontDistribution)
    BY <2>2 DEF CloudFrontDistribution, Particular
  <2> QED
    BY <2>3, <2>4, <2>5, <2>6 DEF Fits
<1>22. Fits("AcmCertificate", AcmCertificate)
  <2>1. Block(AcmCertificate.adopt, {}) /\ Block(AcmCertificate.after, {"active"}) /\ Block(AcmCertificate.update, {"listed", "untag", "tag"})
    BY Blocks, BlockOne, BlockSynced DEF AcmCertificate, Setting
  <2>2. ToSet(AcmCertificate.adopt) = {} /\ ToSet(AcmCertificate.after) = {"active"} /\ ToSet(AcmCertificate.update) = {"listed", "untag", "tag"}
    BY <2>1 DEF Block
  <2>3. Shaped(AcmCertificate)
    BY DEF AcmCertificate, Shaped, Settings, ByMark, ByName
  <2>4. Sequenced(AcmCertificate)
    BY <2>1, <2>2 DEF AcmCertificate, Block, Sequenced, Setting
  <2>5. Complete(AcmCertificate)
    BY <2>2 DEF AcmCertificate, Complete, SetBy, Pends
  <2>6. Particular("AcmCertificate", AcmCertificate)
    BY <2>2 DEF AcmCertificate, Particular
  <2> QED
    BY <2>3, <2>4, <2>5, <2>6 DEF Fits
<1>23. Fits("Lookup", Lookup)
  <2>1. Block(Lookup.adopt, {}) /\ Block(Lookup.after, {}) /\ Block(Lookup.update, {})
    BY Blocks, BlockOne, BlockSynced DEF Lookup, Setting
  <2>2. ToSet(Lookup.adopt) = {} /\ ToSet(Lookup.after) = {} /\ ToSet(Lookup.update) = {}
    BY <2>1 DEF Block
  <2>3. Shaped(Lookup)
    BY DEF Lookup, Shaped, Settings, ByMark, ByName
  <2>4. Sequenced(Lookup)
    BY <2>1, <2>2 DEF Lookup, Block, Sequenced, Setting
  <2>5. Complete(Lookup)
    BY <2>2 DEF Lookup, Complete, SetBy, Pends
  <2>6. Particular("Lookup", Lookup)
    BY <2>2 DEF Lookup, Particular
  <2> QED
    BY <2>3, <2>4, <2>5, <2>6 DEF Fits
<1> QED
  BY <1>1, <1>2, <1>3, <1>4, <1>5, <1>6, <1>7, <1>8, <1>9, <1>10, <1>11, <1>12, <1>13, <1>14, <1>15, <1>16, <1>17, <1>18, <1>19, <1>20, <1>21, <1>22, <1>23 DEF Handler

----------------------------------------------------------------------------
(* Sequences of calls.                                                     *)

\* What is left after the first of the calls.
LEMMA Advance ==
    ASSUME NEW s \in Seq(CallNames), s # <<>>, Orderly(s), s[Len(s)] \in {"make", "return"}
    PROVE  /\ Tail(s) \in Seq(CallNames) /\ Orderly(Tail(s))
           /\ Head(s) \in CallNames
           /\ ToSet(s) = {Head(s)} \cup ToSet(Tail(s))
           /\ Head(s) \in {"make", "return"} <=> Tail(s) = <<>>
           /\ Tail(s) # <<>> => Tail(s)[Len(Tail(s))] \in {"make", "return"} /\ Head(Tail(s)) \in ToSet(Tail(s))
           /\ Tail(s) # <<>> =>
                 /\ Head(Tail(s)) \in {"untag", "authorize"} => Head(s) = "listed"
                 /\ Head(Tail(s)) = "tag" <=> Head(s) = "untag"
                 /\ Head(Tail(s)) = "revoke" => Head(s) = "authorize"
                 /\ Head(Tail(s)) = "gone" => Head(s) = "delete"
                 /\ Head(Tail(s)) # "stamp"
           /\ Head(s) = "authorize" => Head(Tail(s)) = "revoke"
           /\ Head(s) = "revoke" => Head(Tail(s)) = "relabel"
           /\ Head(s) = "unroute" => Head(Tail(s)) = "route"
           /\ Head(s) = "delete" => Head(Tail(s)) \in {"gone", "return"}
<1> DEFINE t == Tail(s)
<1>1. /\ t \in Seq(CallNames) /\ Len(s) \in Nat /\ Len(s) > 0 /\ Len(t) = Len(s) - 1 /\ Head(s) = s[1]
      /\ \A n \in 1 .. Len(t) : t[n] = s[n + 1]
      /\ DOMAIN t = 1 .. Len(t) /\ DOMAIN s = 1 .. Len(s)
  OBVIOUS
<1>2. t # <<>> => Len(t) > 0 /\ Head(t) = t[1]
  BY <1>1
<1>3. t = <<>> <=> Len(s) = 1
  BY <1>1
<1> HIDE DEF t
<1>4. Due(s, 1) /\ (Len(s) > 1 => Due(s, 2))
  BY <1>1 DEF Orderly
<1>5. \A n \in 1 .. Len(t) : Due(t, n)
  <2> TAKE n \in 1 .. Len(t)
  <2>1. Due(s, n + 1) /\ t[n] = s[n + 1] /\ (n > 1 => t[n - 1] = s[n])
    BY <1>1 DEF Orderly
  <2>2. n < Len(t) <=> n + 1 < Len(s)
    BY <1>1
  <2>3. n < Len(t) => t[n + 1] = s[n + 2]
    BY <1>1
  <2> QED
    BY <2>1, <2>2, <2>3, <1>1 DEF Due
<1>6. ToSet(s) = {Head(s)} \cup ToSet(t)
  <2>1. \A n \in 1 .. Len(t) : n + 1 \in 1 .. Len(s)
    BY <1>1
  <2>2. \A n \in 1 .. Len(s) : n = 1 \/ n - 1 \in 1 .. Len(t)
    BY <1>1
  <2>3. 1 \in 1 .. Len(s)
    BY <1>1
  <2>4. ToSet(t) \subseteq ToSet(s) /\ Head(s) \in ToSet(s)
    BY <2>1, <2>3, <1>1 DEF ToSet
  <2>5. ToSet(s) \subseteq {Head(s)} \cup ToSet(t)
    <3> SUFFICES ASSUME NEW n \in 1 .. Len(s), n # 1 PROVE s[n] \in ToSet(t)
      BY <1>1 DEF ToSet
    <3>1. n - 1 \in 1 .. Len(t) /\ t[n - 1] = s[(n - 1) + 1] /\ (n - 1) + 1 = n
      BY <2>2, <1>1
    <3> QED
      BY <3>1, <1>1 DEF ToSet
  <2> QED
    BY <2>4, <2>5
<1>7. t # <<>> => t[Len(t)] = s[Len(s)] /\ Head(t) \in ToSet(t) /\ Head(t) = s[2]
  BY <1>1, <1>2 DEF ToSet
<1>8. Head(s) \in CallNames
  BY <1>1
<1>9. Head(s) \in {"make", "return"} <=> t = <<>>
  BY <1>1, <1>3, <1>4 DEF Due
<1>10. t # <<>> => Len(s) > 1
  BY <1>1, <1>3
<1>11. /\ t # <<>> =>
                 /\ Head(t) \in {"untag", "authorize"} => Head(s) = "listed"
                 /\ Head(t) = "tag" <=> Head(s) = "untag"
                 /\ Head(t) = "revoke" => Head(s) = "authorize"
                 /\ Head(t) = "gone" => Head(s) = "delete"
                 /\ Head(t) # "stamp"
       /\ Head(s) = "authorize" => Head(t) = "revoke"
       /\ Head(s) = "revoke" => Head(t) = "relabel"
       /\ Head(s) = "unroute" => Head(t) = "route"
       /\ Head(s) = "delete" => Head(t) \in {"gone", "return"}
  <2>1. Head(s) \in {"authorize", "revoke", "unroute", "delete"} => t # <<>>
    BY <1>9
  <2>2. CASE t # <<>>
    <3>1. Head(t) = s[2] /\ Head(s) = s[1] /\ Len(s) > 1 /\ Due(s, 1) /\ Due(s, 2)
      BY <2>2, <1>1, <1>4, <1>7, <1>10
    <3> QED
      BY <3>1, <1>1 DEF Due
  <2> QED
    BY <2>1, <2>2
<1> QED
  BY <1>1, <1>5, <1>6, <1>7, <1>8, <1>9, <1>11 DEF t, Orderly

\* An operation's calls, from the first to its return.
Opens(s, S) ==
    /\ s \in Seq(CallNames) /\ s # <<>> /\ Orderly(s) /\ ToSet(s) = S \cup {"return"}
    /\ s[Len(s)] = "return"
    /\ Head(s) \notin {"untag", "tag", "authorize", "revoke", "gone"}

LEMMA Opening ==
    ASSUME NEW s \in Seq(CallNames), InPlace(s)
    PROVE  Opens(s \o <<"return">>, ToSet(s)) /\ Opens(Append(s, "return"), ToSet(s))
<1> DEFINE u == Append(s, "return")
<1>1. s \o <<"return">> = u
  BY AppendIsConcat DEF CallNames
<1>2. /\ u \in Seq(CallNames) /\ Len(u) = Len(s) + 1 /\ Len(s) \in Nat
      /\ \A n \in 1 .. Len(s) : u[n] = s[n]
      /\ u[Len(s) + 1] = "return"
      /\ DOMAIN u = 1 .. Len(s) + 1 /\ DOMAIN s = 1 .. Len(s)
  BY DEF CallNames
<1>h. u # <<>> /\ Head(u) = u[1]
  BY <1>2
<1> HIDE DEF u
<1>3. ToSet(u) = ToSet(s) \cup {"return"}
  <2>1. ToSet(s) \subseteq ToSet(u)
    <3> SUFFICES ASSUME NEW n \in 1 .. Len(s) PROVE s[n] \in ToSet(u)
      BY <1>2 DEF ToSet
    <3>1. n \in 1 .. Len(s) + 1 /\ u[n] = s[n]
      BY <1>2
    <3> QED
      BY <3>1, <1>2 DEF ToSet
  <2>2. "return" \in ToSet(u)
    <3>1. Len(s) + 1 \in 1 .. Len(s) + 1
      BY <1>2
    <3> QED
      BY <3>1, <1>2 DEF ToSet
  <2>3. ToSet(u) \subseteq ToSet(s) \cup {"return"}
    <3> SUFFICES ASSUME NEW n \in 1 .. Len(s) + 1 PROVE u[n] \in ToSet(s) \cup {"return"}
      BY <1>2 DEF ToSet
    <3>1. n \in 1 .. Len(s) \/ n = Len(s) + 1
      BY <1>2
    <3> QED
      BY <3>1, <1>2 DEF ToSet
  <2> QED
    BY <2>1, <2>2, <2>3
<1>4. Orderly(u)
  <2> SUFFICES ASSUME NEW n \in 1 .. Len(u) PROVE Due(u, n)
    BY DEF Orderly
  <2>1. CASE n \in 1 .. Len(s)
    <3>1. Placed(s, n) /\ u[n] = s[n] /\ (n > 1 => u[n - 1] = s[n - 1]) /\ (n < Len(s) => u[n + 1] = s[n + 1])
          /\ n < Len(u)
      BY <2>1, <1>2 DEF InPlace
    <3> QED
      BY <3>1 DEF Placed, Due, Setting
  <2>2. CASE n = Len(s) + 1
    BY <2>2, <1>2 DEF Due
  <2> QED
    BY <2>1, <2>2, <1>2
<1>5. Head(u) \notin {"untag", "tag", "authorize", "revoke", "gone"}
  <2>1. CASE Len(s) = 0
    BY <2>1, <1>2, <1>h
  <2>2. CASE Len(s) > 0
    BY <2>2, <1>2, <1>h DEF InPlace, Placed, Setting
  <2> QED
    BY <2>1, <2>2, <1>2
<1> QED
  BY <1>1, <1>2, <1>3, <1>4, <1>5, <1>h DEF Opens, u

----------------------------------------------------------------------------
(* Types.                                                                  *)

LEMMA HandlerFits == Types => Fits(kind, h) /\ kind \in DOMAIN Handler
BY Provided, KindsAssumption DEF Types, h

LEMMA Given ==
    /\ Blank \in Facets /\ Configs \cup {Undeclared} \subseteq Facets /\ First \in Facets
    /\ NoRow \in Rows /\ Gone \in Things
<1>1. Blank \in Facets
  BY DEF Blank, Facets
<1>2. Configs \subseteq Facets /\ First \in Configs
  BY ConfigsAssumption DEF Facets
<1>3. NoRow \in Rows
  BY <1>1 DEF NoRow, Rows
<1>4. Gone \in Things
  BY <1>1 DEF Gone, Object, Things, Ups
<1> QED
  BY <1>1, <1>2, <1>3, <1>4 DEF Undeclared

\* One object changed, the others as they were.
LEMMA Replaced ==
    ASSUME Types, NEW i \in DOMAIN cloud, NEW x \in Things,
           NEW c, c = [cloud EXCEPT ![i] = x]
    PROVE  /\ c \in Seq(Things) /\ (\A j \in DOMAIN c : c[j] \in Things)
           /\ Len(c) = Len(cloud) /\ DOMAIN c = 1 .. Len(c) /\ DOMAIN c = DOMAIN cloud
           /\ c[i] = x /\ \A j \in DOMAIN cloud : j # i => c[j] = cloud[j]
<1>1. /\ [cloud EXCEPT ![i] = x] \in Seq(Things)
      /\ Len([cloud EXCEPT ![i] = x]) = Len(cloud)
      /\ \A j \in 1 .. Len(cloud) : [cloud EXCEPT ![i] = x][j] = IF j=i THEN x ELSE cloud[j]
  BY ExceptSeq DEF Types
<1>2. /\ c \in Seq(Things) /\ Len(c) = Len(cloud) /\ DOMAIN c = DOMAIN cloud
      /\ DOMAIN cloud = 1 .. Len(cloud) /\ \A j \in DOMAIN cloud : cloud[j] \in Things
      /\ \A j \in 1 .. Len(cloud) : c[j] = IF j=i THEN x ELSE cloud[j]
  BY <1>1 DEF Types
<1> QED
  BY <1>2

LEMMA Refaceted ==
    ASSUME NEW t \in Things
    PROVE  /\ t.set \in Facets /\ t.up \in Ups /\ t.mark \in BOOLEAN /\ t.ours \in BOOLEAN
           /\ \A v \in Nat : \A f \in {"imm", "body", "late"} :
                 [t EXCEPT !.set = [t.set EXCEPT ![f] = v]] \in Things
           /\ \A v \in SUBSET Tags : [t EXCEPT !.set = [t.set EXCEPT !["tags"] = v]] \in Things
           /\ \A v \in [Keys -> Nat] : [t EXCEPT !.set = [t.set EXCEPT !["entries"] = v]] \in Things
           /\ \A u \in Ups : [t EXCEPT !.up = u] \in Things
<1>1. t.set \in Facets /\ t.up \in Ups /\ t.mark \in BOOLEAN /\ t.ours \in BOOLEAN
  BY DEF Things
<1>2. \A s \in Facets : [t EXCEPT !.set = s] \in Things
  BY DEF Things
<1>3. \A v \in Nat : \A f \in {"imm", "body", "late"} : [t.set EXCEPT ![f] = v] \in Facets
  BY <1>1 DEF Facets
<1>4. \A v \in SUBSET Tags : [t.set EXCEPT !["tags"] = v] \in Facets
  BY <1>1 DEF Facets
<1>5. \A v \in [Keys -> Nat] : [t.set EXCEPT !["entries"] = v] \in Facets
  BY <1>1 DEF Facets
<1>6. \A u \in Ups : [t EXCEPT !.up = u] \in Things
  BY DEF Things
<1> QED
  BY <1>1, <1>2, <1>3, <1>4, <1>5, <1>6

----------------------------------------------------------------------------
(* A call changes at most the object it is about, and not who that is.     *)

Alike(c, d) ==
    /\ d.set.name = c.set.name /\ d.ours = c.ours /\ (d.mark = c.mark) /\ d.up # "gone"
    /\ d.up = "dying" => c.up = "dying"
    /\ h.by # "tag" => d.set.imm = c.set.imm
    /\ kind = "NatGateway" => d.up = c.up
    /\ h.delete = <<"delete", "gone">> => d.set.entries = c.set.entries
Stroke ==
    /\ calls # <<>> /\ Head(calls) \in Setting \cup {"disassociate", "detach", "disable", "deployed", "gone"}
    /\ calls' \in {calls, Tail(calls)}
    /\ UNCHANGED <<kind, want, row, comp, old, saved, lost, faults, edits, todo, it, astray>>
    /\ seen' \in Facets
    /\ \/ UNCHANGED cloud
       \/ Here /\ \E x \in Things : Alike(cloud[it], x) /\ cloud' = [cloud EXCEPT ![it] = x]
StrokeStep ==
    \/ Stamp \/ PutBody \/ PutLate \/ SetTags \/ Describe \/ Untag \/ Tag \/ Authorize \/ Revoke
    \/ Relabel \/ Unroute \/ Route \/ Attach \/ Detach \/ Disassociate \/ Disable \/ Await

LEMMA ItHere ==
    ASSUME Types, Here
    PROVE  /\ it \in DOMAIN cloud /\ cloud[it] \in Things /\ cloud[it].up # "gone"
           /\ cloud[it].set \in Facets /\ cloud[it].up \in Ups
BY DEF Types, Here, Objects, Exists, Things

\* Where each call may stand.
LEMMA Whose ==
    ASSUME Types, Stage, Ordered, calls # <<>>
    PROVE  /\ Head(calls) \in Left /\ Head(calls) \in CallNames
           /\ Head(calls) \in Setting => (Within("create") /\ it # 0) \/ Within("update")
           /\ Head(calls) \in {"disassociate", "detach", "disable", "deployed", "gone", "delete"} => Within("destroy")
           /\ Within("create") /\ it # 0 => Left \subseteq ToSet(h.adopt) \cup ToSet(h.after) \cup {"return"}
           /\ Within("update") => Left \subseteq ToSet(h.update) \cup {"return"}
           /\ Within("destroy") => Left \subseteq ToSet(h.delete) \cup {"return"}
           /\ Head(calls) \in {"stamp", "attach"} => h.by = "tag"
           /\ Head(calls) = "body" => kind # "NatGateway"
           /\ Head(calls) \in {"detach", "disable"} => kind # "NatGateway"
           /\ Head(calls) \in {"authorize", "revoke", "relabel", "unroute", "route"} => h.delete # <<"delete", "gone">>
<1>1. Fits(kind, h)
  BY HandlerFits
<1>2. Head(calls) \in Left /\ Head(calls) \in CallNames
  BY Advance DEF Types, Ordered, Left
<1>3. Within("create") \/ Within("update") \/ Within("destroy")
  <2>1. todo # <<>>
    BY DEF Stage
  <2> QED
    BY <2>1 DEF Ordered, Operations, Within, Doing
<1>4. /\ Within("create") /\ it # 0 => Left \subseteq ToSet(h.adopt) \cup ToSet(h.after) \cup {"return"}
      /\ Within("update") => Left \subseteq ToSet(h.update) \cup {"return"}
      /\ Within("destroy") => Left \subseteq ToSet(h.delete) \cup {"return"}
  BY DEF Ordered
<1>5. Within("create") /\ it = 0 => Head(calls) \in {"make", "return"}
  BY DEF Ordered
<1>6. /\ ToSet(h.adopt) \subseteq Setting /\ ToSet(h.after) \subseteq Setting /\ ToSet(h.update) \subseteq Setting
      /\ ToSet(h.delete) \subseteq {"disassociate", "detach", "disable", "deployed", "gone", "delete"}
  <2>1. \A s \in {h.adopt, h.after, h.update} : ToSet(s) \subseteq Setting
    BY <1>1 DEF Fits, Sequenced
  <2>2. h.delete \in {<<>>, <<"delete">>, <<"detach", "delete">>, <<"disassociate", "delete">>, <<"delete", "gone">>,
                     <<"disable", "deployed", "delete">>}
    BY <1>1 DEF Fits, Sequenced
  <2>3. ToSet(h.delete) \subseteq {"disassociate", "detach", "disable", "deployed", "gone", "delete"}
    BY <2>2 DEF ToSet
  <2> QED
    BY <2>1, <2>3
<1>7. Head(calls) \in Setting => (Within("create") /\ it # 0) \/ Within("update")
  BY <1>2, <1>3, <1>4, <1>5, <1>6 DEF Setting
<1>8. Head(calls) \in {"disassociate", "detach", "disable", "deployed", "gone", "delete"} => Within("destroy")
  BY <1>2, <1>3, <1>4, <1>5, <1>6 DEF Setting
<1>9. Head(calls) \in {"stamp", "attach"} => h.by = "tag"
  BY <1>1, <1>2, <1>4, <1>7 DEF Fits, Sequenced, Setting
<1>10. Head(calls) = "body" => kind # "NatGateway"
  <2> SUFFICES ASSUME Head(calls) = "body", kind = "NatGateway" PROVE FALSE
    OBVIOUS
  <2>1. h.by = "tag" /\ "body" \notin ToSet(h.after) \cup ToSet(h.update)
    <3>1. h.by = "tag" /\ {"attach", "body"} \cap (ToSet(h.after) \cup ToSet(h.update)) = {}
      BY <1>1 DEF Fits, Particular
    <3> QED
      BY <3>1
  <2>2. "body" \notin ToSet(h.adopt)
    BY <2>1, <1>1 DEF Fits, Shaped, ToSet
  <2> QED
    BY <2>1, <2>2, <1>2, <1>4, <1>7 DEF Setting
<1>11. Head(calls) \in {"detach", "disable"} => kind # "NatGateway"
  BY <1>1, <1>2, <1>4, <1>8 DEF Fits, Particular, ToSet
<1>12. Head(calls) \in {"authorize", "revoke", "relabel", "unroute", "route"} => h.delete # <<"delete", "gone">>
  <2> SUFFICES ASSUME h.delete = <<"delete", "gone">>,
                      Head(calls) \in {"authorize", "revoke", "relabel", "unroute", "route"} PROVE FALSE
    OBVIOUS
  <2>1. {"authorize", "revoke", "relabel", "unroute", "route"}
           \cap (ToSet(h.adopt) \cup ToSet(h.after) \cup ToSet(h.update)) = {}
    BY <1>1 DEF Fits, Particular
  <2> QED
    BY <2>1, <1>2, <1>4, <1>7 DEF Setting
<1> QED
  BY <1>2, <1>4, <1>7, <1>8, <1>9, <1>10, <1>11, <1>12

\* The object as a call leaves it.
LEMMA Strokes ==
    ASSUME Types, Stage, Ordered, Identified, Ids, StrokeStep
    PROVE  Stroke
<1>t. calls # <<>> => Head(calls) \in Left
  BY Whose
<1>b. /\ Here => it \in DOMAIN cloud /\ cloud[it] \in Things /\ cloud[it].up # "gone"
      /\ want \in Facets /\ seen \in Facets /\ DOMAIN cloud = 1 .. Len(cloud)
  BY ItHere DEF Types
<1>w. /\ want.imm \in Nat /\ want.body \in Nat /\ want.late \in Nat /\ want.tags \in SUBSET Tags
      /\ want.entries \in [Keys -> Nat] /\ seen.tags \in SUBSET Tags /\ seen.entries \in [Keys -> Nat]
  BY <1>b DEF Facets
<1>c. Here => /\ cloud[it].set.tags \in SUBSET Tags /\ cloud[it].set.entries \in [Keys -> Nat]
              /\ cloud[it].set \in Facets
  BY <1>b DEF Things, Facets
\* one facet other than the name
<1>f. ASSUME NEW f \in Settings \ {"name"}, NEW v, Facet(f, v),
             \/ f \in {"imm", "body", "late"} /\ v \in Nat
             \/ f = "tags" /\ v \in SUBSET Tags
             \/ f = "entries" /\ v \in [Keys -> Nat],
             f # "imm", f = "entries" => h.delete # <<"delete", "gone">>
      PROVE  /\ \E x \in Things : Alike(cloud[it], x) /\ cloud' = [cloud EXCEPT ![it] = x]
             /\ Here /\ UNCHANGED <<seen, astray>> /\ calls' = Tail(calls) /\ UNCHANGED <<todo, it>>
  <2> DEFINE x == [cloud[it] EXCEPT !.set = [cloud[it].set EXCEPT ![f] = v]]
  <2>1. Here /\ cloud' = [cloud EXCEPT ![it].set[f] = v]
    BY <1>f DEF Facet, Changed
  <2>2. x \in Things
    BY <1>f, <1>b, <2>1, Refaceted
  <2>3. Alike(cloud[it], x)
    <3>1. /\ x.ours = cloud[it].ours /\ x.mark = cloud[it].mark /\ x.up = cloud[it].up
          /\ x.set = [cloud[it].set EXCEPT ![f] = v]
      BY <1>b, <2>1 DEF Things
    <3>2. x.set.name = cloud[it].set.name /\ x.set.imm = cloud[it].set.imm /\ (f # "entries" => x.set.entries = cloud[it].set.entries)
      BY <3>1, <1>f, <1>c, <2>1 DEF Facets
    <3> QED
      BY <3>1, <3>2, <1>f, <1>b, <2>1 DEF Alike
  <2>4. cloud' = [cloud EXCEPT ![it] = x]
    BY <2>1
  <2> QED
    BY <2>1, <2>2, <2>3, <2>4, <1>f DEF Facet, Done
<1>u. ASSUME NEW u \in Ups \ {"gone", "dying"}, Turn(u), kind # "NatGateway"
      PROVE  \E x \in Things : Alike(cloud[it], x) /\ cloud' = [cloud EXCEPT ![it] = x]
  <2> DEFINE x == [cloud[it] EXCEPT !.up = u]
  <2>1. Here /\ cloud' = [cloud EXCEPT ![it].up = u]
    BY <1>u DEF Turn
  <2>2. x \in Things
    BY <1>b, <2>1, Refaceted
  <2>3. Alike(cloud[it], x)
    BY <1>b, <2>1, <1>u DEF Things, Alike
  <2>4. cloud' = [cloud EXCEPT ![it] = x]
    BY <2>1
  <2> QED
    BY <2>2, <2>3, <2>4
<1> DEFINE Names == Setting \cup {"disassociate", "detach", "disable", "deployed", "gone"}
           Same2 == UNCHANGED <<kind, want, row, comp, old, saved, lost, faults, edits>>
<1>q. ASSUME NEW c \in Names, Calling(c), seen' \in Facets,
             calls' \in {calls, Tail(calls)}, UNCHANGED <<todo, it, astray>>,
             UNCHANGED cloud \/ (Here /\ \E x \in Things : Alike(cloud[it], x) /\ cloud' = [cloud EXCEPT ![it] = x])
      PROVE  Stroke
  BY <1>q DEF Stroke, Calling, rows, bounds
\* the same of a call that sets the tags
<1>g. ASSUME NEW c \in Setting, Calling(c), NEW v \in SUBSET Tags, Facet("tags", v)
      PROVE  Stroke
  <2>1. "tags" \in Settings \ {"name"} /\ "tags" \notin {"imm", "entries"}
    BY DEF Settings
  <2>2. /\ \E x \in Things : Alike(cloud[it], x) /\ cloud' = [cloud EXCEPT ![it] = x]
        /\ Here /\ UNCHANGED <<seen, astray>> /\ calls' = Tail(calls) /\ UNCHANGED <<todo, it>>
    <3> HIDE DEF Setting
    <3> QED
      BY <2>1, <1>g, <1>f
  <2>3. c \in Names /\ seen' \in Facets
    BY <2>2, <1>g, <1>b
  <2> HIDE DEF Names
  <2> QED
    BY <2>2, <2>3, <1>g, <1>q
<1>1. CASE Stamp
  <2> DEFINE s == [cloud[it].set EXCEPT !["tags"] = cloud[it].set.tags \cup want.tags]
             y == [cloud[it] EXCEPT !.set = s]
             x == [y EXCEPT !.mark = TRUE]
             c1 == [cloud EXCEPT ![it] = y]
  <2>1. Calling("stamp") /\ Here /\ UNCHANGED <<seen, astray>> /\ Done
        /\ cloud' = [cloud EXCEPT ![it].set.tags = @ \cup want.tags, ![it].mark = TRUE]
    BY <1>1 DEF Stamp
  <2>2. y \in Things
    BY <2>1, <1>b, <1>c, <1>w, Refaceted
  <2>3. x \in Things
    BY <2>2 DEF Things
  <2>4. cloud' = [c1 EXCEPT ![it] = [c1[it] EXCEPT !.mark = TRUE]]
    BY <2>1
  <2>5. c1[it] = y /\ DOMAIN c1 = DOMAIN cloud
    BY <2>1, <1>b
  <2>6. cloud' = [cloud EXCEPT ![it] = x]
    <3> HIDE DEF y
    <3> QED
      BY <2>4, <2>5
  <2>7. cloud[it].mark = TRUE
    <3>1. h.by = "tag" /\ (Creating \/ Within("update"))
      BY <1>t, <2>1, Whose DEF Calling, Setting, Creating
    <3>2. cloud[it].ours /\ it \in Objects
      BY <3>1, <2>1, <1>b DEF Ids, Leading, Exists, Here
    <3> QED
      BY <3>1, <3>2, <1>b DEF Identified, ByMark, Things
  <2>8. Alike(cloud[it], x)
    <3>1. /\ x.ours = cloud[it].ours /\ x.mark = TRUE /\ x.up = cloud[it].up /\ x.set = s
      BY <1>b, <2>1 DEF Things
    <3>2. s.name = cloud[it].set.name /\ s.imm = cloud[it].set.imm /\ s.entries = cloud[it].set.entries
      BY <1>c, <2>1 DEF Facets
    <3> QED
      BY <3>1, <3>2, <2>7, <1>b, <2>1 DEF Alike
  <2> HIDE DEF x
  <2>9. \E z \in Things : Alike(cloud[it], z) /\ cloud' = [cloud EXCEPT ![it] = z]
    BY <2>3, <2>6, <2>8
  <2> QED
    BY <2>1, <2>9, <1>q, <1>b DEF Done, Setting
<1>2. CASE PutBody
  <2> DEFINE u == CASE kind = "LambdaFunction" -> "pending"
                                           [] kind = "CloudFrontDistribution" -> "active"
                                           [] OTHER -> cloud[it].up
             s == [cloud[it].set EXCEPT !["body"] = want.body]
             y == [cloud[it] EXCEPT !.set = s]
             x == [y EXCEPT !.up = u]
             c1 == [cloud EXCEPT ![it] = y]
  <2>1. Calling("body") /\ Here /\ UNCHANGED <<seen, astray>> /\ Done
        /\ cloud' = [cloud EXCEPT ![it].set.body = want.body,
                              ![it].up = CASE kind = "LambdaFunction" -> "pending"
                                           [] kind = "CloudFrontDistribution" -> "active"
                                           [] OTHER -> @]
    BY <1>2 DEF PutBody
  <2>2. y \in Things
    BY <2>1, <1>b, <1>c, <1>w, Refaceted
  <2>5. c1[it] = y /\ DOMAIN c1 = DOMAIN cloud /\ y.up = cloud[it].up /\ y.set = s
        /\ y.ours = cloud[it].ours /\ y.mark = cloud[it].mark
    BY <2>1, <1>b DEF Things
  <2>4. cloud' = [c1 EXCEPT ![it] = [c1[it] EXCEPT !.up = CASE kind = "LambdaFunction" -> "pending"
                                           [] kind = "CloudFrontDistribution" -> "active"
                                           [] OTHER -> c1[it].up]]
    BY <2>1
  <2>3. x \in Things /\ u \in Ups
    <3>1. u \in Ups
      BY <2>1, ItHere DEF Ups
    <3> HIDE DEF u, y
    <3> QED
      BY <3>1, <2>2, Refaceted
  <2>6. cloud' = [cloud EXCEPT ![it] = x]
    <3> HIDE DEF y
    <3> QED
      BY <2>4, <2>5
  <2>8. Alike(cloud[it], x)
    <3>1. x.ours = cloud[it].ours /\ x.mark = cloud[it].mark /\ x.up = u /\ x.set = s
      <4> HIDE DEF y, u
      <4> QED
        BY <2>2, <2>5 DEF Things
    <3>2. s.name = cloud[it].set.name /\ s.imm = cloud[it].set.imm /\ s.entries = cloud[it].set.entries
      BY <1>c, <2>1 DEF Facets
    <3>3. kind # "NatGateway"
      BY <2>1, Whose DEF Calling
    <3>4. u # "gone" /\ (u = "dying" => cloud[it].up = "dying")
      BY <1>b, <2>1
    <3> HIDE DEF x, u, s
    <3> QED
      BY <3>1, <3>2, <3>3, <3>4 DEF Alike
  <2> HIDE DEF x
  <2>9. \E z \in Things : Alike(cloud[it], z) /\ cloud' = [cloud EXCEPT ![it] = z]
    BY <2>3, <2>6, <2>8
  <2> QED
    BY <2>1, <2>9, <1>q, <1>b DEF Done, Setting
<1>3. CASE PutLate \/ SetTags
  <2>1. ASSUME PutLate PROVE Stroke
    BY <2>1, <1>f, <1>q, <1>w, <1>b DEF PutLate, Settings, Setting
  <2>2. ASSUME SetTags PROVE Stroke
    BY <2>2, <1>f, <1>q, <1>w, <1>b DEF SetTags, Settings, Setting
  <2> QED
    BY <1>3, <2>1, <2>2
<1>4. CASE Describe
  <2>1. Calling("listed") /\ Here /\ seen' = cloud[it].set /\ UNCHANGED <<cloud, astray>> /\ Done
    BY <1>4 DEF Describe
  <2>2. seen' \in Facets /\ Head(calls) = "listed" /\ calls # <<>>
    BY <2>1, <1>c DEF Calling
  <2>3. calls' = Tail(calls) /\ UNCHANGED <<todo, it, astray, cloud>>
    BY <2>1 DEF Done
  <2>4. UNCHANGED <<kind, want, row, comp, old, saved, lost, faults, edits>>
    BY <2>1 DEF Calling, rows, bounds
  <2> QED
    BY <2>2, <2>3, <2>4 DEF Stroke, Setting
<1>5. CASE Untag \/ Tag
  <2>1. ASSUME Untag PROVE Stroke
    <3>1. Calling("untag") /\ Facet("tags", cloud[it].set.tags \ (seen.tags \ want.tags)) /\ Here
      BY <2>1 DEF Untag, Facet
    <3>2. cloud[it].set.tags \ (seen.tags \ want.tags) \in SUBSET Tags
      BY <3>1, <1>c
    <3>3. "untag" \in Setting
      BY DEF Setting
    <3> QED
      BY <3>1, <3>2, <3>3, <1>g
  <2>2. ASSUME Tag PROVE Stroke
    <3>1. Calling("tag") /\ Facet("tags", cloud[it].set.tags \cup want.tags) /\ Here
      BY <2>2 DEF Tag, Facet
    <3>2. cloud[it].set.tags \cup want.tags \in SUBSET Tags
      BY <3>1, <1>c, <1>w
    <3>3. "tag" \in Setting
      BY DEF Setting
    <3> QED
      BY <3>1, <3>2, <3>3, <1>g
  <2> QED
    BY <1>5, <2>1, <2>2
<1>e. calls # <<>> /\ Head(calls) \in {"authorize", "revoke", "relabel", "unroute", "route"}
      => h.delete # <<"delete", "gone">>
  BY Whose
<1>6. CASE Authorize
  <2> DEFINE v == [k \in Keys |-> IF seen.entries[k] = 0 /\ want.entries[k] # 0
                          THEN want.entries[k] ELSE cloud[it].set.entries[k]]
  <2>1. Calling("authorize") /\ Facet("entries", v) /\ Here
    BY <1>6 DEF Authorize, Entries, Facet
  <2>2. v \in [Keys -> Nat]
    BY <2>1, <1>c, <1>w
  <2>3. h.delete # <<"delete", "gone">>
    BY <2>1, <1>e DEF Calling
  <2> HIDE DEF v
  <2> QED
    BY <2>1, <2>2, <2>3, <1>f, <1>q, <1>b DEF Settings, Setting
<1>7. CASE Revoke
  <2> DEFINE v == [k \in Keys |-> IF want.entries[k] = 0 THEN 0 ELSE cloud[it].set.entries[k]]
  <2>1. Calling("revoke") /\ Facet("entries", v) /\ Here
    BY <1>7 DEF Revoke, Entries, Facet
  <2>2. v \in [Keys -> Nat]
    BY <2>1, <1>c, <1>w
  <2>3. h.delete # <<"delete", "gone">>
    BY <2>1, <1>e DEF Calling
  <2> HIDE DEF v
  <2> QED
    BY <2>1, <2>2, <2>3, <1>f, <1>q, <1>b DEF Settings, Setting
<1>8. CASE Relabel
  <2>1. Calling("relabel") /\ Facet("entries", want.entries)
    BY <1>8 DEF Relabel
  <2>3. h.delete # <<"delete", "gone">>
    BY <2>1, <1>e DEF Calling
  <2> QED
    BY <2>1, <2>3, <1>w, <1>f, <1>q, <1>b DEF Settings, Setting
<1>9. ASSUME NEW k \in Keys, NEW n \in Nat, Here, h.delete # <<"delete", "gone">>,
             cloud' = [cloud EXCEPT ![it].set.entries[k] = n]
      PROVE  \E z \in Things : Alike(cloud[it], z) /\ cloud' = [cloud EXCEPT ![it] = z]
  <2> DEFINE v == [cloud[it].set.entries EXCEPT ![k] = n]
             s == [cloud[it].set EXCEPT !["entries"] = v]
             x == [cloud[it] EXCEPT !.set = s]
  <2>1. v \in [Keys -> Nat]
    BY <1>9, <1>c
  <2>2. cloud' = [cloud EXCEPT ![it] = x]
    BY <1>9
  <2>3. x \in Things /\ x.ours = cloud[it].ours /\ x.mark = cloud[it].mark /\ x.up = cloud[it].up /\ x.set = s
    <3> HIDE DEF v
    <3>1. x \in Things
      BY <2>1, <1>9, <1>b, Refaceted
    <3> QED
      BY <3>1, <1>9, <1>b DEF Things
  <2>4. s.name = cloud[it].set.name /\ s.imm = cloud[it].set.imm
    BY <1>9, <1>c DEF Facets
  <2>5. Alike(cloud[it], x)
    <3> HIDE DEF x, s
    <3> QED
      BY <2>3, <2>4, <1>9, <1>b DEF Alike
  <2> HIDE DEF x
  <2> QED
    BY <2>2, <2>3, <2>5
<1>10. CASE Unroute
  <2>1. Calling("unroute") /\ Here /\ UNCHANGED <<seen, astray, todo, it>>
        /\ \/ UNCHANGED cloud /\ calls' = Tail(calls)
           \/ \E k \in Keys : cloud' = [cloud EXCEPT ![it].set.entries[k] = 0] /\ UNCHANGED calls
    BY <1>10 DEF Unroute, Loop, Differing
  <2>3. h.delete # <<"delete", "gone">>
    BY <2>1, <1>e DEF Calling
  <2> QED
    BY <2>1, <2>3, <1>9, <1>q, <1>b DEF Setting
<1>11. CASE Route
  <2>1. Calling("route") /\ Here /\ UNCHANGED <<seen, astray, todo, it>>
        /\ \/ UNCHANGED cloud /\ calls' = Tail(calls)
           \/ \E k \in Keys : cloud' = [cloud EXCEPT ![it].set.entries[k] = want.entries[k]] /\ UNCHANGED calls
    BY <1>11 DEF Route, Loop, Differing
  <2>3. h.delete # <<"delete", "gone">>
    BY <2>1, <1>e DEF Calling
  <2>4. \A k \in Keys : want.entries[k] \in Nat
    BY <1>w
  <2> QED
    BY <2>1, <2>3, <2>4, <1>9, <1>q, <1>b DEF Setting
<1>12. CASE Attach
  <2> DEFINE s == [cloud[it].set EXCEPT !["imm"] = want.imm]
             y == [cloud[it] EXCEPT !.set = s]
             x == [y EXCEPT !.up = "attached"]
             c1 == [cloud EXCEPT ![it] = y]
  <2>1. Calling("attach") /\ Here /\ UNCHANGED <<seen, astray>> /\ Done
        /\ cloud' = [cloud EXCEPT ![it].set.imm = want.imm, ![it].up = "attached"]
    BY <1>12 DEF Attach
  <2>2. y \in Things
    BY <2>1, <1>b, <1>c, <1>w, Refaceted
  <2>5. c1[it] = y /\ DOMAIN c1 = DOMAIN cloud
    BY <2>1, <1>b
  <2>4. cloud' = [c1 EXCEPT ![it] = [c1[it] EXCEPT !.up = "attached"]]
    BY <2>1
  <2>3. x \in Things
    <3> HIDE DEF y
    <3> QED
      BY <2>2, Refaceted DEF Ups
  <2>6. cloud' = [cloud EXCEPT ![it] = x]
    <3> HIDE DEF y
    <3> QED
      BY <2>4, <2>5
  <2>7. h.by = "tag" /\ kind # "NatGateway"
    <3>1. h.by = "tag" /\ "attach" \in ToSet(h.after)
      <4>1. Head(calls) = "attach" /\ Fits(kind, h)
        BY <2>1, HandlerFits DEF Calling
      <4> QED
        BY <4>1, <1>t, <2>1, Whose DEF Calling, Fits, Sequenced, Setting
    <3>2. kind = "NatGateway" => {"attach", "body"} \cap (ToSet(h.after) \cup ToSet(h.update)) = {}
      BY HandlerFits DEF Fits, Particular
    <3> QED
      BY <3>1, <3>2
  <2>8. Alike(cloud[it], x)
    <3>1. x.ours = cloud[it].ours /\ x.mark = cloud[it].mark /\ x.up = "attached" /\ x.set = s
      BY <1>b, <2>1 DEF Things
    <3>2. s.name = cloud[it].set.name /\ s.entries = cloud[it].set.entries
      BY <1>c, <2>1 DEF Facets
    <3> HIDE DEF x, s
    <3> QED
      BY <3>1, <3>2, <2>7 DEF Alike
  <2> HIDE DEF x
  <2>9. \E z \in Things : Alike(cloud[it], z) /\ cloud' = [cloud EXCEPT ![it] = z]
    BY <2>3, <2>6, <2>8
  <2> QED
    BY <2>1, <2>9, <1>q, <1>b DEF Done, Setting
<1>13. CASE Detach \/ Disable
  <2>1. ASSUME NEW c \in {"detach", "disable"}, NEW u \in Ups \ {"gone", "dying"}, Calling(c), Turn(u) PROVE Stroke
    <3>1. kind # "NatGateway"
      BY <2>1, Whose DEF Calling
    <3>2. Here /\ UNCHANGED <<seen, astray>> /\ Done
      BY <2>1 DEF Turn
    <3>3. \E x \in Things : Alike(cloud[it], x) /\ cloud' = [cloud EXCEPT ![it] = x]
      BY <2>1, <3>1, <1>u
    <3> QED
      BY <2>1, <3>2, <3>3, <1>q, <1>b DEF Done
  <2>2. ASSUME Detach PROVE Stroke
    BY <2>1, <2>2 DEF Detach, Ups
  <2>3. ASSUME Disable PROVE Stroke
    <3> DEFINE u == IF cloud[it].up = "disabled" THEN "disabled" ELSE "disabling"
    <3>1. Calling("disable") /\ Turn(u) /\ u \in Ups \ {"gone", "dying"}
      BY <2>3 DEF Disable, Ups
    <3> HIDE DEF u
    <3> QED
      BY <2>1, <3>1
  <2> QED
    BY <1>13, <2>2, <2>3
<1>14. CASE Await
  <2>1. PICK c \in Waits : Calling(c) /\ UNCHANGED <<cloud, seen, astray>> /\ Done
    BY <1>14 DEF Await
  <2>2. c \in Names
    BY DEF Waits, Setting
  <2> QED
    BY <2>1, <2>2, <1>q, <1>b DEF Done
<1>15. CASE Disassociate
  <2>1. Calling("disassociate") /\ Facet("late", Blank.late) /\ Here
    BY <1>15 DEF Disassociate, Facet
  <2>2. Blank.late \in Nat
    BY DEF Blank
  <2>3. "disassociate" \in Names
    OBVIOUS
  <2> QED
    BY <2>1, <2>2, <2>3, <1>f, <1>q, <1>b DEF Settings
<1> QED
  BY <1>1, <1>2, <1>3, <1>4, <1>5, <1>6, <1>7, <1>8, <1>10, <1>11, <1>12, <1>13, <1>14, <1>15 DEF StrokeStep

----------------------------------------------------------------------------
(* What is there before: every step but a create call leaves no object that was not   *)
(* there, under another name, or someone else's.                                       *)

Shrink ==
    /\ kind' = kind
    /\ cloud' \in Seq(Things) /\ (\A j \in DOMAIN cloud' : cloud'[j] \in Things)
    /\ Len(cloud') = Len(cloud) /\ DOMAIN cloud' = DOMAIN cloud
    /\ \A i \in DOMAIN cloud : cloud'[i].up # "gone" =>
          /\ cloud[i].up # "gone"
          /\ kind = "NatGateway" /\ cloud'[i].up \notin {"dying", "failed"} => cloud[i].up \notin {"dying", "failed"}
          /\ cloud'[i].set.name = cloud[i].set.name
          /\ h.by # "tag" => cloud'[i].set.imm = cloud[i].set.imm
          /\ cloud'[i].mark = cloud[i].mark /\ cloud'[i].ours = cloud[i].ours

\* Most often one object is changed.
LEMMA ShrinkOne ==
    ASSUME Types, kind' = kind, NEW i \in DOMAIN cloud, NEW x \in Things, cloud' = [cloud EXCEPT ![i] = x],
           x.up # "gone" =>
              /\ cloud[i].up # "gone"
              /\ kind = "NatGateway" /\ x.up \notin {"dying", "failed"} => cloud[i].up \notin {"dying", "failed"}
              /\ x.set.name = cloud[i].set.name
              /\ h.by # "tag" => x.set.imm = cloud[i].set.imm
              /\ x.mark = cloud[i].mark /\ x.ours = cloud[i].ours
    PROVE  Shrink
<1>1. PICK c : c = [cloud EXCEPT ![i] = x]
  OBVIOUS
<1>2. /\ c \in Seq(Things) /\ (\A j \in DOMAIN c : c[j] \in Things)
      /\ Len(c) = Len(cloud) /\ DOMAIN c = DOMAIN cloud
      /\ c[i] = x /\ \A j \in DOMAIN cloud : j # i => c[j] = cloud[j]
  BY <1>1, Replaced
<1>3. cloud' = c
  BY <1>1
<1> QED
  BY <1>2, <1>3 DEF Shrink

LEMMA ShrinkNone ==
    ASSUME Types, kind' = kind, cloud' = cloud
    PROVE  Shrink
BY DEF Shrink, Types

LEMMA ShrinkStroke ==
    ASSUME Types, Stroke
    PROVE  Shrink
<1>1. kind' = kind
  BY DEF Stroke
<1>2. CASE cloud' = cloud
  BY <1>1, <1>2, ShrinkNone
<1>3. CASE Here /\ \E x \in Things : Alike(cloud[it], x) /\ cloud' = [cloud EXCEPT ![it] = x]
  <2>1. PICK x \in Things : Alike(cloud[it], x) /\ cloud' = [cloud EXCEPT ![it] = x]
    BY <1>3
  <2>2. PICK j : j = it
    OBVIOUS
  <2>3. j \in DOMAIN cloud /\ cloud[j].up # "gone"
    BY <1>3, <2>2, ItHere
  <2> QED
    BY <1>1, <2>1, <2>2, <2>3, ShrinkOne DEF Alike
<1> QED
  BY <1>2, <1>3 DEF Stroke

LEMMA ShrinkDelete ==
    ASSUME Types, Delete
    PROVE  Shrink
<1>1. kind' = kind
  BY DEF Delete, Calling
<1>2. CASE cloud' = cloud
  BY <1>1, <1>2, ShrinkNone
<1>3. CASE Here
  <2> DEFINE x == IF "gone" \in ToSet(h.delete) THEN [cloud[it] EXCEPT !.up = "dying"] ELSE Gone
  <2>1. cloud' = [cloud EXCEPT ![it] = x]
    BY <1>3 DEF Delete
  <2>2. x \in Things /\ x.up \in {"dying", "gone"}
        /\ (x.up # "gone" => x.set = cloud[it].set /\ x.mark = cloud[it].mark /\ x.ours = cloud[it].ours)
    BY <1>3, ItHere, Given, Refaceted DEF Ups, Things, Gone, Object
  <2> HIDE DEF x
  <2>3. PICK j : j = it
    OBVIOUS
  <2>4. PICK y : y = x
    OBVIOUS
  <2>5. j \in DOMAIN cloud /\ cloud[j].up # "gone"
    BY <1>3, <2>3, ItHere
  <2> QED
    BY <1>1, <2>1, <2>2, <2>3, <2>4, <2>5, ShrinkOne
<1> QED
  BY <1>2, <1>3 DEF Delete

LEMMA ShrinkBackground ==
    ASSUME Types, Background
    PROVE  Shrink
<1>1. PICK i \in Objects : \E up \in Becomes(cloud[i].up) :
          cloud' = [cloud EXCEPT ![i] = IF up = "gone" THEN Gone ELSE [@ EXCEPT !.up = up]]
  BY DEF Background
<1>2. PICK up \in Becomes(cloud[i].up) :
          cloud' = [cloud EXCEPT ![i] = IF up = "gone" THEN Gone ELSE [@ EXCEPT !.up = up]]
  BY <1>1
<1>3. /\ up \in {"active", "failed", "gone", "disabled"}
      /\ up = "active" => cloud[i].up = "pending"
      /\ up = "disabled" => cloud[i].up = "disabling"
      /\ i \in DOMAIN cloud /\ cloud[i] \in Things /\ cloud[i].up # "gone"
  BY <1>2 DEF Becomes, Objects, Exists, Types
<1> DEFINE x == IF up = "gone" THEN Gone ELSE [cloud[i] EXCEPT !.up = up]
<1>4. cloud' = [cloud EXCEPT ![i] = x]
  BY <1>2
<1>5. x \in Things /\ x.up = up
      /\ (x.up # "gone" => x.set = cloud[i].set /\ x.mark = cloud[i].mark /\ x.ours = cloud[i].ours)
  BY <1>3, Given, Refaceted DEF Ups, Things, Gone, Object
<1>6. kind' = kind
  BY DEF Background
<1> HIDE DEF x
<1>7. PICK y : y = x
  OBVIOUS
<1> QED
  BY <1>3, <1>4, <1>5, <1>6, <1>7, ShrinkOne

\* By hand: a facet that does not identify the resource, or all of it.
LEMMA ByHand ==
    ASSUME Types, Ids, EditByHand
    PROVE  \E i \in Target(row) : i \in DOMAIN cloud /\ Exists(i) /\
              \/ \E f \in h.fields \ {"name", "imm"}, x \in Things :
                    /\ cloud' = [cloud EXCEPT ![i] = x]
                    /\ x.up = cloud[i].up /\ x.mark = cloud[i].mark /\ x.ours = cloud[i].ours
                    /\ \A g \in Settings \ {f} : x.set[g] = cloud[i].set[g]
                    /\ astray' = astray \cup {f} /\ f \in Settings
              \/ cloud' = [cloud EXCEPT ![i] = Gone] /\ astray' = astray \cup {"gone"}
<1>1. PICK i \in Target(row) :
          \/ \E f \in h.fields \ {"name", "imm"}, c \in Configs :
                /\ cloud' = [cloud EXCEPT ![i].set[f] = c[f]]
                /\ astray' = astray \cup {f}
          \/ cloud' = [cloud EXCEPT ![i] = Gone] /\ astray' = astray \cup {"gone"}
  BY DEF EditByHand
<1>2. i \in DOMAIN cloud /\ Exists(i) /\ cloud[i] \in Things
  <2>1. Target(row) \subseteq Objects \/ \A j \in Target(row) : Exists(j) /\ j \in Held(row)
    BY DEF Target, Marked
  <2>2. i \in DOMAIN cloud /\ Exists(i)
    <3>1. CASE Target(row) \subseteq Objects
      BY <3>1 DEF Objects
    <3>2. CASE Exists(i) /\ i \in Held(row)
      <4>1. Leading(row.id)
        BY DEF Ids
      <4> QED
        BY <3>2, <4>1 DEF Held, SameName, Objects, Leading
    <3> QED
      BY <2>1, <3>1, <3>2
  <2> QED
    BY <2>2 DEF Types
<1>3. CASE cloud' = [cloud EXCEPT ![i] = Gone] /\ astray' = astray \cup {"gone"}
  BY <1>2, <1>3
<1>4. ASSUME NEW f \in h.fields \ {"name", "imm"}, NEW c \in Configs,
             cloud' = [cloud EXCEPT ![i].set[f] = c[f]], astray' = astray \cup {f}
      PROVE  \E x \in Things :
                    /\ cloud' = [cloud EXCEPT ![i] = x]
                    /\ x.up = cloud[i].up /\ x.mark = cloud[i].mark /\ x.ours = cloud[i].ours
                    /\ \A g \in Settings \ {f} : x.set[g] = cloud[i].set[g]
  <2> DEFINE s == [cloud[i].set EXCEPT ![f] = c[f]]
             x == [cloud[i] EXCEPT !.set = s]
  <2>1. f \in Settings \ {"name", "imm"} /\ c \in Facets /\ cloud[i].set \in Facets
    BY <1>2, <1>4, HandlerFits, Given DEF Fits, Shaped, Things
  <2>2. cloud' = [cloud EXCEPT ![i] = x]
    BY <1>4
  <2>3. \/ c[f] \in Nat /\ f \in {"body", "late"}
        \/ f = "tags" /\ c[f] \in SUBSET Tags
        \/ f = "entries" /\ c[f] \in [Keys -> Nat]
    BY <2>1 DEF Settings, Facets
  <2>4. x \in Things
    <3>1. CASE c[f] \in Nat /\ f \in {"body", "late"}
      BY <3>1, <1>2, Refaceted
    <3>2. CASE f = "tags" /\ c[f] \in SUBSET Tags
      BY <3>2, <1>2, Refaceted
    <3>3. CASE f = "entries" /\ c[f] \in [Keys -> Nat]
      BY <3>3, <1>2, Refaceted
    <3> QED
      BY <2>3, <3>1, <3>2, <3>3
  <2>5. x.up = cloud[i].up /\ x.mark = cloud[i].mark /\ x.ours = cloud[i].ours /\ x.set = s
    BY <1>2 DEF Things
  <2>6. \A g \in Settings \ {f} : s[g] = cloud[i].set[g]
    BY <2>1 DEF Facets, Settings
  <2> HIDE DEF x, s
  <2> QED
    BY <2>2, <2>4, <2>5, <2>6
<1>5. h.fields \subseteq Settings
  BY HandlerFits DEF Fits, Shaped
<1> QED
  BY <1>1, <1>2, <1>3, <1>4, <1>5

LEMMA ShrinkByHand ==
    ASSUME Types, Ids, EditByHand
    PROVE  Shrink
<1>1. PICK i \in Target(row) : i \in DOMAIN cloud /\ Exists(i) /\
              \/ \E f \in h.fields \ {"name", "imm"}, x \in Things :
                    /\ cloud' = [cloud EXCEPT ![i] = x]
                    /\ x.up = cloud[i].up /\ x.mark = cloud[i].mark /\ x.ours = cloud[i].ours
                    /\ \A g \in Settings \ {f} : x.set[g] = cloud[i].set[g]
                    /\ astray' = astray \cup {f} /\ f \in Settings
              \/ cloud' = [cloud EXCEPT ![i] = Gone] /\ astray' = astray \cup {"gone"}
  BY ByHand
<1>2. kind' = kind
  BY DEF EditByHand, Between
<1>3. CASE cloud' = [cloud EXCEPT ![i] = Gone]
  BY <1>1, <1>2, <1>3, Given, ShrinkOne DEF Gone, Object
<1>4. ASSUME NEW f \in h.fields \ {"name", "imm"}, NEW x \in Things,
                    cloud' = [cloud EXCEPT ![i] = x],
                    x.up = cloud[i].up /\ x.mark = cloud[i].mark /\ x.ours = cloud[i].ours,
                    \A g \in Settings \ {f} : x.set[g] = cloud[i].set[g]
      PROVE  Shrink
  <2>1. x.set["name"] = cloud[i].set["name"] /\ x.set["imm"] = cloud[i].set["imm"]
    BY <1>4 DEF Settings
  <2>2. x.set.name = cloud[i].set.name /\ x.set.imm = cloud[i].set.imm
    BY <2>1
  <2> QED
    BY <1>1, <1>2, <1>4, <2>2, ShrinkOne DEF Exists
<1> QED
  BY <1>1, <1>3, <1>4

\* A token that counts no more: what was there still is, and no object gains a mark.
Wane ==
    /\ kind' = kind
    /\ cloud' \in Seq(Things) /\ (\A j \in DOMAIN cloud' : cloud'[j] \in Things)
    /\ Len(cloud') = Len(cloud) /\ DOMAIN cloud' = DOMAIN cloud
    /\ \A i \in DOMAIN cloud : cloud'[i].up # "gone" =>
          /\ cloud[i].up # "gone"
          /\ kind = "NatGateway" /\ cloud'[i].up \notin {"dying", "failed"} => cloud[i].up \notin {"dying", "failed"}
          /\ cloud'[i].set.name = cloud[i].set.name
          /\ h.by # "tag" => cloud'[i].set.imm = cloud[i].set.imm
          /\ (cloud'[i].mark => cloud[i].mark) /\ cloud'[i].ours = cloud[i].ours
          /\ Shrink \/ h.by # "token" => cloud'[i].mark = cloud[i].mark
LEMMA LapseOne ==
    ASSUME Types, Lapse
    PROVE  \E i \in Marked : \E x \in Things :
              /\ i \in DOMAIN cloud /\ cloud' = [cloud EXCEPT ![i] = x] /\ x = [cloud[i] EXCEPT !.mark = FALSE]
              /\ x.mark = FALSE /\ x.up = cloud[i].up /\ x.set = cloud[i].set /\ x.ours = cloud[i].ours
              /\ cloud[i].up # "gone"
<1>1. PICK i \in Marked : cloud' = [cloud EXCEPT ![i].mark = FALSE]
  BY DEF Lapse
<1>2. i \in DOMAIN cloud /\ cloud[i] \in Things /\ cloud[i].up # "gone"
  BY DEF Marked, Objects, Exists, Types
<1> DEFINE x == [cloud[i] EXCEPT !.mark = FALSE]
<1>3. /\ x \in Things
      /\ x.mark = FALSE /\ x.up = cloud[i].up /\ x.set = cloud[i].set /\ x.ours = cloud[i].ours
  BY <1>2 DEF Things
<1>4. cloud' = [cloud EXCEPT ![i] = x]
  BY <1>1
<1> QED
  BY <1>2, <1>3, <1>4
LEMMA Waning ==
    ASSUME Types, Shrink \/ Lapse
    PROVE  Wane
<1>1. CASE Shrink
  BY <1>1 DEF Shrink, Wane
<1>2. CASE Lapse
  <2>1. PICK i \in Marked, x \in Things :
              /\ i \in DOMAIN cloud /\ cloud' = [cloud EXCEPT ![i] = x]
              /\ x.mark = FALSE /\ x.up = cloud[i].up /\ x.set = cloud[i].set /\ x.ours = cloud[i].ours
    BY <1>2, LapseOne
  <2>2. kind' = kind /\ h.by = "token"
    BY <1>2 DEF Lapse
  <2>3. PICK c : c = [cloud EXCEPT ![i] = x]
    OBVIOUS
  <2>4. /\ c \in Seq(Things) /\ (\A j \in DOMAIN c : c[j] \in Things)
        /\ Len(c) = Len(cloud) /\ DOMAIN c = DOMAIN cloud
        /\ c[i] = x /\ \A j \in DOMAIN cloud : j # i => c[j] = cloud[j]
    <3>1. i \in DOMAIN cloud /\ x \in Things
      BY <2>1
    <3> QED
      BY <3>1, <2>3, Replaced
  <2>5. cloud' = c
    BY <2>1, <2>3
  <2>6. \A j \in DOMAIN cloud :
          /\ cloud'[j].up = cloud[j].up /\ cloud'[j].set = cloud[j].set /\ cloud'[j].ours = cloud[j].ours
          /\ cloud'[j].mark => cloud[j].mark
    BY <2>1, <2>4, <2>5
  <2>7. Shrink => \A j \in DOMAIN cloud : cloud'[j].up # "gone" => cloud'[j].mark = cloud[j].mark
    BY DEF Shrink
  <2> QED
    BY <2>2, <2>4, <2>5, <2>6, <2>7 DEF Wane
<1> QED
  BY <1>1, <1>2

\* What was found is still found, if it is still there.
LEMMA Shrunk ==
    ASSUME Types, Shrink \/ Lapse
    PROVE  /\ h' = h /\ Fits(kind, h)
           /\ Objects' \subseteq Objects /\ Marked' \subseteq Marked /\ Ours' \subseteq Ours
           /\ Objects \subseteq DOMAIN cloud /\ Objects' \subseteq DOMAIN cloud
           /\ \A i \in Objects' : /\ i \in Objects
                                  /\ cloud'[i] \in Things /\ cloud[i] \in Things
                                  /\ cloud'[i].set.name = cloud[i].set.name
                                  /\ h.by # "tag" => cloud'[i].set.imm = cloud[i].set.imm
                                  /\ (cloud'[i].mark => cloud[i].mark) /\ cloud'[i].ours = cloud[i].ours
                                  /\ Shrink \/ h.by # "token" => cloud'[i].mark = cloud[i].mark
                                  /\ cloud'[i].up # "gone" /\ cloud[i].up # "gone"
                                  /\ (Shrink \/ h.by # "token") /\ (kind # "NatGateway" \/ cloud'[i].up \notin {"dying", "failed"})
                                        /\ i \in Marked => i \in Marked'
                                  /\ i \in Ours' => cloud'[i].ours /\ (kind = "NatGateway" => cloud'[i].up \notin {"dying", "failed"})
<1>0. Wane
  BY Waning
<1>1. h' = h
  BY <1>0 DEF Wane, h
<1>2. kind' = kind
  BY <1>0 DEF Wane
<1>3. Objects \subseteq DOMAIN cloud /\ Objects' \subseteq DOMAIN cloud
  BY <1>0 DEF Wane, Objects
<1>4. \A i \in Objects' : i \in DOMAIN cloud' /\ cloud'[i].up # "gone" /\ cloud'[i] \in Things
  BY <1>0 DEF Wane, Objects, Exists
<1>5. \A i \in Objects' : i \in Objects /\ cloud[i].up # "gone" /\ cloud[i] \in Things
  BY <1>0, <1>3, <1>4 DEF Wane, Objects, Exists, Types
<1>6. \A i \in Objects' :
          /\ kind = "NatGateway" /\ cloud'[i].up \notin {"dying", "failed"} => cloud[i].up \notin {"dying", "failed"}
          /\ cloud'[i].set.name = cloud[i].set.name
          /\ h.by # "tag" => cloud'[i].set.imm = cloud[i].set.imm
          /\ (cloud'[i].mark => cloud[i].mark) /\ cloud'[i].ours = cloud[i].ours
          /\ Shrink \/ h.by # "token" => cloud'[i].mark = cloud[i].mark
  BY <1>0, <1>3, <1>4 DEF Wane
<1>7. Marked' \subseteq Marked
  <2> SUFFICES ASSUME NEW i \in Marked' PROVE i \in Marked
    OBVIOUS
  <2>1. i \in Objects' /\ cloud'[i].mark /\ (kind = "NatGateway" => cloud'[i].up \notin {"dying", "failed"})
    BY <1>2 DEF Marked, Live
  <2> QED
    BY <2>1, <1>5, <1>6 DEF Marked, Live, Exists
<1>8. Ours' \subseteq Ours
  <2> SUFFICES ASSUME NEW i \in Ours' PROVE i \in Ours
    OBVIOUS
  <2>1. i \in Objects' /\ cloud'[i].ours /\ (kind = "NatGateway" => cloud'[i].up \notin {"dying", "failed"})
    BY <1>2 DEF Ours, Live
  <2> QED
    BY <2>1, <1>5, <1>6 DEF Ours, Live, Exists
<1>9. \A i \in Objects' :
         /\ (Shrink \/ h.by # "token") /\ (kind # "NatGateway" \/ cloud'[i].up \notin {"dying", "failed"})
               /\ i \in Marked => i \in Marked'
         /\ i \in Ours' => cloud'[i].ours /\ (kind = "NatGateway" => cloud'[i].up \notin {"dying", "failed"})
  BY <1>2, <1>4, <1>6 DEF Marked, Ours, Live, Exists
<1> QED
  BY <1>1, <1>3, <1>4, <1>5, <1>6, <1>7, <1>8, <1>9, HandlerFits

LEMMA ShrunkNames ==
    ASSUME Types, Shrink \/ Lapse
    PROVE  \A n : SameName(n)' = SameName(n) \cap Objects'
BY Shrunk DEF SameName

LEMMA IdentifiedShrunk ==
    ASSUME Types, Identified, Shrink \/ Lapse
    PROVE  Identified'
<1>1. h' = h /\ Marked' \subseteq Marked /\ Objects' \subseteq Objects
  BY Shrunk
<1>2. \A i \in Objects' : /\ cloud'[i].set.name = cloud[i].set.name
                          /\ h.by # "tag" => cloud'[i].set.imm = cloud[i].set.imm
                          /\ h.by # "token" => cloud'[i].mark = cloud[i].mark
                          /\ cloud'[i].ours = cloud[i].ours
  BY Shrunk
<1>3. (h.by \in ByMark => \A i \in Objects : cloud[i].mark <=> cloud[i].ours)'
  BY <1>1, <1>2 DEF Identified, ByMark
<1>4. (h.by \in ByName \cup {"reference and name", "token"} => \A i \in Objects : cloud[i].ours)'
  BY <1>1, <1>2 DEF Identified
<1>5. (h.by = "lookup" => \A i \in Objects : ~cloud[i].ours)'
  BY <1>1, <1>2 DEF Identified
<1>6. (h.by \in ByMark => \A i, j \in Marked : i = j)'
  BY <1>1 DEF Identified
<1>7. (h.by \in ByName => \A i, j \in Objects : cloud[i].set.name = cloud[j].set.name => i = j)'
  <2> SUFFICES ASSUME h.by \in ByName, NEW i \in Objects', NEW j \in Objects', cloud'[i].set.name = cloud'[j].set.name
               PROVE  i = j
    BY <1>1 DEF ByName
  <2>1. i \in Objects /\ j \in Objects /\ cloud[i].set.name = cloud[j].set.name
    BY <1>1, <1>2
  <2> QED
    BY <2>1 DEF Identified
<1>8. (h.by = "token" => \A i, j \in Marked :
          cloud[i].set.name = cloud[j].set.name /\ cloud[i].set.imm = cloud[j].set.imm => i = j)'
  <2>1. Marked' \subseteq Objects'
    BY DEF Marked
  <2> QED
    BY <1>1, <1>2, <2>1 DEF Identified
<1> QED
  BY <1>3, <1>4, <1>5, <1>6, <1>7, <1>8 DEF Identified

----------------------------------------------------------------------------
(* What the rows lead to.                                                  *)

LEMMA Targets ==
    ASSUME Ids
    PROVE  \A r \in {row, comp, old} :
              Target(r) = IF r.st = "none" THEN {}
                          ELSE IF h.by = "tag" /\ r.id = 0 THEN Marked ELSE Held(r) \cap Objects
<1> SUFFICES ASSUME NEW r \in {row, comp, old}
             PROVE  Target(r) = IF r.st = "none" THEN {}
                          ELSE IF h.by = "tag" /\ r.id = 0 THEN Marked ELSE Held(r) \cap Objects
  OBVIOUS
<1>1. \A i \in Held(r) : i \in DOMAIN cloud
  BY DEF Ids, Leading, Held, SameName, Objects
<1>2. {i \in Held(r) : Exists(i)} = Held(r) \cap Objects
  BY <1>1 DEF Objects
<1> QED
  BY <1>2 DEF Target

LEMMA Shrunk_row ==
    ASSUME Types, Ids, Shrink \/ Lapse, row' = row
    PROVE  /\ Target(row)' \subseteq Target(row)
           /\ Held(row)' \cap Objects' = Held(row) \cap Objects'
           /\ h.by # "name" => Held(row)' = Held(row)
           /\ \A i \in Objects' \cap Target(row) :
                 (i \in Ours' \/ row.id # 0 \/ h.by # "tag" \/ kind # "NatGateway") => i \in Target(row)'
           /\ Target(row)' \subseteq Objects'
<1>1. /\ h' = h /\ Marked' \subseteq Marked /\ Objects' \subseteq Objects
      /\ Objects' \subseteq DOMAIN cloud /\ DOMAIN cloud' = DOMAIN cloud
  BY Shrunk, Waning DEF Wane
<1>2. Held(row)' \cap Objects' = Held(row) \cap Objects'
  BY <1>1, ShrunkNames DEF Held
<1>3. h.by # "name" => Held(row)' = Held(row)
  BY <1>1 DEF Held
<1>4. Target(row) = IF row.st = "none" THEN {}
                    ELSE IF h.by = "tag" /\ row.id = 0 THEN Marked ELSE Held(row) \cap Objects
  BY Targets
<1>5. Target(row)' = IF row.st = "none" THEN {}
                     ELSE IF h.by = "tag" /\ row.id = 0 THEN Marked' ELSE Held(row)' \cap Objects'
  <2>1. \A i \in Held(row)' : i \in DOMAIN cloud'
    BY <1>1 DEF Ids, Leading, Held, SameName, Objects
  <2>2. ({i \in Held(row) : Exists(i)} = Held(row) \cap Objects)'
    BY <2>1 DEF Objects
  <2> QED
    BY <2>2, <1>1 DEF Target
<1>6. Marked' \subseteq Objects' /\ Marked \subseteq Objects
  BY DEF Marked
<1>7. Target(row)' \subseteq Objects' /\ Target(row)' \subseteq Target(row)
  BY <1>1, <1>2, <1>4, <1>5, <1>6
<1>8. h.by = "tag" => \A i \in Objects' \cap Marked : (i \in Ours' \/ kind # "NatGateway") => i \in Marked'
  BY Shrunk
<1>9. \A i \in Objects' \cap Target(row) :
         (i \in Ours' \/ row.id # 0 \/ h.by # "tag" \/ kind # "NatGateway") => i \in Target(row)'
  BY <1>2, <1>4, <1>5, <1>8
<1> QED
  BY <1>2, <1>3, <1>7, <1>9

LEMMA Shrunk_comp ==
    ASSUME Types, Ids, Shrink \/ Lapse, comp' = comp
    PROVE  /\ Target(comp)' \subseteq Target(comp)
           /\ Held(comp)' \cap Objects' = Held(comp) \cap Objects'
           /\ h.by # "name" => Held(comp)' = Held(comp)
           /\ \A i \in Objects' \cap Target(comp) :
                 (i \in Ours' \/ comp.id # 0 \/ h.by # "tag" \/ kind # "NatGateway") => i \in Target(comp)'
           /\ Target(comp)' \subseteq Objects'
<1>1. /\ h' = h /\ Marked' \subseteq Marked /\ Objects' \subseteq Objects
      /\ Objects' \subseteq DOMAIN cloud /\ DOMAIN cloud' = DOMAIN cloud
  BY Shrunk, Waning DEF Wane
<1>2. Held(comp)' \cap Objects' = Held(comp) \cap Objects'
  BY <1>1, ShrunkNames DEF Held
<1>3. h.by # "name" => Held(comp)' = Held(comp)
  BY <1>1 DEF Held
<1>4. Target(comp) = IF comp.st = "none" THEN {}
                    ELSE IF h.by = "tag" /\ comp.id = 0 THEN Marked ELSE Held(comp) \cap Objects
  BY Targets
<1>5. Target(comp)' = IF comp.st = "none" THEN {}
                     ELSE IF h.by = "tag" /\ comp.id = 0 THEN Marked' ELSE Held(comp)' \cap Objects'
  <2>1. \A i \in Held(comp)' : i \in DOMAIN cloud'
    BY <1>1 DEF Ids, Leading, Held, SameName, Objects
  <2>2. ({i \in Held(comp) : Exists(i)} = Held(comp) \cap Objects)'
    BY <2>1 DEF Objects
  <2> QED
    BY <2>2, <1>1 DEF Target
<1>6. Marked' \subseteq Objects' /\ Marked \subseteq Objects
  BY DEF Marked
<1>7. Target(comp)' \subseteq Objects' /\ Target(comp)' \subseteq Target(comp)
  BY <1>1, <1>2, <1>4, <1>5, <1>6
<1>8. h.by = "tag" => \A i \in Objects' \cap Marked : (i \in Ours' \/ kind # "NatGateway") => i \in Marked'
  BY Shrunk
<1>9. \A i \in Objects' \cap Target(comp) :
         (i \in Ours' \/ comp.id # 0 \/ h.by # "tag" \/ kind # "NatGateway") => i \in Target(comp)'
  BY <1>2, <1>4, <1>5, <1>8
<1> QED
  BY <1>2, <1>3, <1>7, <1>9

LEMMA Shrunk_old ==
    ASSUME Types, Ids, Shrink \/ Lapse, old' = old
    PROVE  /\ Target(old)' \subseteq Target(old)
           /\ Held(old)' \cap Objects' = Held(old) \cap Objects'
           /\ h.by # "name" => Held(old)' = Held(old)
           /\ \A i \in Objects' \cap Target(old) :
                 (i \in Ours' \/ old.id # 0 \/ h.by # "tag" \/ kind # "NatGateway") => i \in Target(old)'
           /\ Target(old)' \subseteq Objects'
<1>1. /\ h' = h /\ Marked' \subseteq Marked /\ Objects' \subseteq Objects
      /\ Objects' \subseteq DOMAIN cloud /\ DOMAIN cloud' = DOMAIN cloud
  BY Shrunk, Waning DEF Wane
<1>2. Held(old)' \cap Objects' = Held(old) \cap Objects'
  BY <1>1, ShrunkNames DEF Held
<1>3. h.by # "name" => Held(old)' = Held(old)
  BY <1>1 DEF Held
<1>4. Target(old) = IF old.st = "none" THEN {}
                    ELSE IF h.by = "tag" /\ old.id = 0 THEN Marked ELSE Held(old) \cap Objects
  BY Targets
<1>5. Target(old)' = IF old.st = "none" THEN {}
                     ELSE IF h.by = "tag" /\ old.id = 0 THEN Marked' ELSE Held(old)' \cap Objects'
  <2>1. \A i \in Held(old)' : i \in DOMAIN cloud'
    BY <1>1 DEF Ids, Leading, Held, SameName, Objects
  <2>2. ({i \in Held(old) : Exists(i)} = Held(old) \cap Objects)'
    BY <2>1 DEF Objects
  <2> QED
    BY <2>2, <1>1 DEF Target
<1>6. Marked' \subseteq Objects' /\ Marked \subseteq Objects
  BY DEF Marked
<1>7. Target(old)' \subseteq Objects' /\ Target(old)' \subseteq Target(old)
  BY <1>1, <1>2, <1>4, <1>5, <1>6
<1>8. h.by = "tag" => \A i \in Objects' \cap Marked : (i \in Ours' \/ kind # "NatGateway") => i \in Marked'
  BY Shrunk
<1>9. \A i \in Objects' \cap Target(old) :
         (i \in Ours' \/ old.id # 0 \/ h.by # "tag" \/ kind # "NatGateway") => i \in Target(old)'
  BY <1>2, <1>4, <1>5, <1>8
<1> QED
  BY <1>2, <1>3, <1>7, <1>9

----------------------------------------------------------------------------
(* The steps of a run.                                                     *)

\* What tells the runs apart: the next step, how many are left, and what is still to
\* be dropped.
Shape(s, op, n, beside, removing) ==
    /\ s # <<>> /\ Head(s) = op /\ Len(s) = n
    /\ "uncompanion" \in ToSet(s) <=> beside
    /\ "forget" \in ToSet(s) <=> removing
LEMMA Shapes ==
    /\ Shape(<<"ahead", "create", "persist">>, "ahead", 3, FALSE, FALSE) /\ Tail(<<"ahead", "create", "persist">>) = <<"create", "persist">>
    /\ Shape(<<"create", "persist">>, "create", 2, FALSE, FALSE) /\ Tail(<<"create", "persist">>) = <<"persist">>
    /\ Shape(<<"persist">>, "persist", 1, FALSE, FALSE) /\ Tail(<<"persist">>) = <<>>
    /\ Shape(<<"update", "persist">>, "update", 2, FALSE, FALSE) /\ Tail(<<"update", "persist">>) = <<"persist">>
    /\ Shape(<<"ahead", "destroy", "create", "persist">>, "ahead", 4, FALSE, FALSE) /\ Tail(<<"ahead", "destroy", "create", "persist">>) = <<"destroy", "create", "persist">>
    /\ Shape(<<"destroy", "create", "persist">>, "destroy", 3, FALSE, FALSE) /\ Tail(<<"destroy", "create", "persist">>) = <<"create", "persist">>
    /\ Shape(<<"companion", "ahead", "create", "persist", "destroy", "uncompanion">>, "companion", 6, TRUE, FALSE) /\ Tail(<<"companion", "ahead", "create", "persist", "destroy", "uncompanion">>) = <<"ahead", "create", "persist", "destroy", "uncompanion">>
    /\ Shape(<<"ahead", "create", "persist", "destroy", "uncompanion">>, "ahead", 5, TRUE, FALSE) /\ Tail(<<"ahead", "create", "persist", "destroy", "uncompanion">>) = <<"create", "persist", "destroy", "uncompanion">>
    /\ Shape(<<"create", "persist", "destroy", "uncompanion">>, "create", 4, TRUE, FALSE) /\ Tail(<<"create", "persist", "destroy", "uncompanion">>) = <<"persist", "destroy", "uncompanion">>
    /\ Shape(<<"persist", "destroy", "uncompanion">>, "persist", 3, TRUE, FALSE) /\ Tail(<<"persist", "destroy", "uncompanion">>) = <<"destroy", "uncompanion">>
    /\ Shape(<<"destroy", "uncompanion">>, "destroy", 2, TRUE, FALSE) /\ Tail(<<"destroy", "uncompanion">>) = <<"uncompanion">>
    /\ Shape(<<"uncompanion">>, "uncompanion", 1, TRUE, FALSE) /\ Tail(<<"uncompanion">>) = <<>>
    /\ Shape(<<"destroy", "forget">>, "destroy", 2, FALSE, TRUE) /\ Tail(<<"destroy", "forget">>) = <<"forget">>
    /\ Shape(<<"forget">>, "forget", 1, FALSE, TRUE) /\ Tail(<<"forget">>) = <<>>
    /\ ToSet(<<>>) = {}
<1>1. Shape(<<"ahead", "create", "persist">>, "ahead", 3, FALSE, FALSE) /\ Tail(<<"ahead", "create", "persist">>) = <<"create", "persist">>
  BY DEF Shape, ToSet
<1>2. Shape(<<"create", "persist">>, "create", 2, FALSE, FALSE) /\ Tail(<<"create", "persist">>) = <<"persist">>
  BY DEF Shape, ToSet
<1>3. Shape(<<"persist">>, "persist", 1, FALSE, FALSE) /\ Tail(<<"persist">>) = <<>>
  BY DEF Shape, ToSet
<1>4. Shape(<<"update", "persist">>, "update", 2, FALSE, FALSE) /\ Tail(<<"update", "persist">>) = <<"persist">>
  BY DEF Shape, ToSet
<1>5. Shape(<<"ahead", "destroy", "create", "persist">>, "ahead", 4, FALSE, FALSE) /\ Tail(<<"ahead", "destroy", "create", "persist">>) = <<"destroy", "create", "persist">>
  BY DEF Shape, ToSet
<1>6. Shape(<<"destroy", "create", "persist">>, "destroy", 3, FALSE, FALSE) /\ Tail(<<"destroy", "create", "persist">>) = <<"create", "persist">>
  BY DEF Shape, ToSet
<1>7. Shape(<<"companion", "ahead", "create", "persist", "destroy", "uncompanion">>, "companion", 6, TRUE, FALSE) /\ Tail(<<"companion", "ahead", "create", "persist", "destroy", "uncompanion">>) = <<"ahead", "create", "persist", "destroy", "uncompanion">>
  BY DEF Shape, ToSet
<1>8. Shape(<<"ahead", "create", "persist", "destroy", "uncompanion">>, "ahead", 5, TRUE, FALSE) /\ Tail(<<"ahead", "create", "persist", "destroy", "uncompanion">>) = <<"create", "persist", "destroy", "uncompanion">>
  BY DEF Shape, ToSet
<1>9. Shape(<<"create", "persist", "destroy", "uncompanion">>, "create", 4, TRUE, FALSE) /\ Tail(<<"create", "persist", "destroy", "uncompanion">>) = <<"persist", "destroy", "uncompanion">>
  BY DEF Shape, ToSet
<1>10. Shape(<<"persist", "destroy", "uncompanion">>, "persist", 3, TRUE, FALSE) /\ Tail(<<"persist", "destroy", "uncompanion">>) = <<"destroy", "uncompanion">>
  BY DEF Shape, ToSet
<1>11. Shape(<<"destroy", "uncompanion">>, "destroy", 2, TRUE, FALSE) /\ Tail(<<"destroy", "uncompanion">>) = <<"uncompanion">>
  BY DEF Shape, ToSet
<1>12. Shape(<<"uncompanion">>, "uncompanion", 1, TRUE, FALSE) /\ Tail(<<"uncompanion">>) = <<>>
  BY DEF Shape, ToSet
<1>13. Shape(<<"destroy", "forget">>, "destroy", 2, FALSE, TRUE) /\ Tail(<<"destroy", "forget">>) = <<"forget">>
  BY DEF Shape, ToSet
<1>14. Shape(<<"forget">>, "forget", 1, FALSE, TRUE) /\ Tail(<<"forget">>) = <<>>
  BY DEF Shape, ToSet
<1>15. ToSet(<<>>) = {}
  BY DEF ToSet
<1> QED
  BY <1>1, <1>2, <1>3, <1>4, <1>5, <1>6, <1>7, <1>8, <1>9, <1>10, <1>11, <1>12, <1>13, <1>14, <1>15

\* Which runs may be at a step, and how they go on.
LEMMA Stations ==
    ASSUME Types, todo # <<>>
    PROVE  /\ Head(todo) \in {"companion", "ahead", "create", "update", "persist", "destroy", "uncompanion", "forget"}
           /\ Tail(todo) \in Chains
           /\ todo = <<"destroy", "create", "persist">> <=> At("destroy", 3)
           /\ Head(todo) = "companion" =>
                 \/ Shape(todo, "companion", 6, TRUE, FALSE) /\ Shape(Tail(todo), "ahead", 5, TRUE, FALSE)
           /\ Head(todo) = "ahead" =>
                 \/ Shape(todo, "ahead", 3, FALSE, FALSE) /\ Shape(Tail(todo), "create", 2, FALSE, FALSE)
                 \/ Shape(todo, "ahead", 4, FALSE, FALSE) /\ Shape(Tail(todo), "destroy", 3, FALSE, FALSE)
                 \/ Shape(todo, "ahead", 5, TRUE, FALSE) /\ Shape(Tail(todo), "create", 4, TRUE, FALSE)
           /\ Head(todo) = "create" =>
                 \/ Shape(todo, "create", 2, FALSE, FALSE) /\ Shape(Tail(todo), "persist", 1, FALSE, FALSE)
                 \/ Shape(todo, "create", 4, TRUE, FALSE) /\ Shape(Tail(todo), "persist", 3, TRUE, FALSE)
           /\ Head(todo) = "update" =>
                 \/ Shape(todo, "update", 2, FALSE, FALSE) /\ Shape(Tail(todo), "persist", 1, FALSE, FALSE)
           /\ Head(todo) = "persist" =>
                 \/ Shape(todo, "persist", 1, FALSE, FALSE) /\ Tail(todo) = <<>>
                 \/ Shape(todo, "persist", 3, TRUE, FALSE) /\ Shape(Tail(todo), "destroy", 2, TRUE, FALSE)
           /\ Head(todo) = "destroy" =>
                 \/ Shape(todo, "destroy", 3, FALSE, FALSE) /\ Shape(Tail(todo), "create", 2, FALSE, FALSE)
                 \/ Shape(todo, "destroy", 2, TRUE, FALSE) /\ Shape(Tail(todo), "uncompanion", 1, TRUE, FALSE)
                 \/ Shape(todo, "destroy", 2, FALSE, TRUE) /\ Shape(Tail(todo), "forget", 1, FALSE, TRUE)
           /\ Head(todo) = "uncompanion" =>
                 \/ Shape(todo, "uncompanion", 1, TRUE, FALSE) /\ Tail(todo) = <<>>
           /\ Head(todo) = "forget" =>
                 \/ Shape(todo, "forget", 1, FALSE, TRUE) /\ Tail(todo) = <<>>
<1>1. todo \in Chains \ {<<>>}
  BY DEF Types
<1> DEFINE At3 == todo = <<"destroy", "create", "persist">> <=> At("destroy", 3)
<1>2. CASE todo = <<"ahead", "create", "persist">>
  <2>1. Head(todo) = "ahead" /\ Shape(todo, "ahead", 3, FALSE, FALSE) /\ Shape(Tail(todo), "create", 2, FALSE, FALSE)
    BY <1>2, Shapes DEF Shape
  <2>2. Tail(todo) \in Chains
    BY <1>2, Shapes DEF Chains
  <2>3. At3
    BY <1>2, <2>1 DEF At, Shape
  <2> QED
    BY <2>1, <2>2, <2>3
<1>3. CASE todo = <<"create", "persist">>
  <2>1. Head(todo) = "create" /\ Shape(todo, "create", 2, FALSE, FALSE) /\ Shape(Tail(todo), "persist", 1, FALSE, FALSE)
    BY <1>3, Shapes DEF Shape
  <2>2. Tail(todo) \in Chains
    BY <1>3, Shapes DEF Chains
  <2>3. At3
    BY <1>3, <2>1 DEF At, Shape
  <2> QED
    BY <2>1, <2>2, <2>3
<1>4. CASE todo = <<"persist">>
  <2>1. Head(todo) = "persist" /\ Shape(todo, "persist", 1, FALSE, FALSE) /\ Tail(todo) = <<>>
    BY <1>4, Shapes DEF Shape
  <2>2. Tail(todo) \in Chains
    BY <1>4, Shapes DEF Chains
  <2>3. At3
    BY <1>4, <2>1 DEF At, Shape
  <2> QED
    BY <2>1, <2>2, <2>3
<1>5. CASE todo = <<"update", "persist">>
  <2>1. Head(todo) = "update" /\ Shape(todo, "update", 2, FALSE, FALSE) /\ Shape(Tail(todo), "persist", 1, FALSE, FALSE)
    BY <1>5, Shapes DEF Shape
  <2>2. Tail(todo) \in Chains
    BY <1>5, Shapes DEF Chains
  <2>3. At3
    BY <1>5, <2>1 DEF At, Shape
  <2> QED
    BY <2>1, <2>2, <2>3
<1>6. CASE todo = <<"ahead", "destroy", "create", "persist">>
  <2>1. Head(todo) = "ahead" /\ Shape(todo, "ahead", 4, FALSE, FALSE) /\ Shape(Tail(todo), "destroy", 3, FALSE, FALSE)
    BY <1>6, Shapes DEF Shape
  <2>2. Tail(todo) \in Chains
    BY <1>6, Shapes DEF Chains
  <2>3. At3
    BY <1>6, <2>1 DEF At, Shape
  <2> QED
    BY <2>1, <2>2, <2>3
<1>7. CASE todo = <<"destroy", "create", "persist">>
  <2>1. Head(todo) = "destroy" /\ Shape(todo, "destroy", 3, FALSE, FALSE) /\ Shape(Tail(todo), "create", 2, FALSE, FALSE)
    BY <1>7, Shapes DEF Shape
  <2>2. Tail(todo) \in Chains
    BY <1>7, Shapes DEF Chains
  <2>3. At3
    BY <1>7, <2>1 DEF At, Shape
  <2> QED
    BY <2>1, <2>2, <2>3
<1>8. CASE todo = <<"companion", "ahead", "create", "persist", "destroy", "uncompanion">>
  <2>1. Head(todo) = "companion" /\ Shape(todo, "companion", 6, TRUE, FALSE) /\ Shape(Tail(todo), "ahead", 5, TRUE, FALSE)
    BY <1>8, Shapes DEF Shape
  <2>2. Tail(todo) \in Chains
    BY <1>8, Shapes DEF Chains
  <2>3. At3
    BY <1>8, <2>1 DEF At, Shape
  <2> QED
    BY <2>1, <2>2, <2>3
<1>9. CASE todo = <<"ahead", "create", "persist", "destroy", "uncompanion">>
  <2>1. Head(todo) = "ahead" /\ Shape(todo, "ahead", 5, TRUE, FALSE) /\ Shape(Tail(todo), "create", 4, TRUE, FALSE)
    BY <1>9, Shapes DEF Shape
  <2>2. Tail(todo) \in Chains
    BY <1>9, Shapes DEF Chains
  <2>3. At3
    BY <1>9, <2>1 DEF At, Shape
  <2> QED
    BY <2>1, <2>2, <2>3
<1>10. CASE todo = <<"create", "persist", "destroy", "uncompanion">>
  <2>1. Head(todo) = "create" /\ Shape(todo, "create", 4, TRUE, FALSE) /\ Shape(Tail(todo), "persist", 3, TRUE, FALSE)
    BY <1>10, Shapes DEF Shape
  <2>2. Tail(todo) \in Chains
    BY <1>10, Shapes DEF Chains
  <2>3. At3
    BY <1>10, <2>1 DEF At, Shape
  <2> QED
    BY <2>1, <2>2, <2>3
<1>11. CASE todo = <<"persist", "destroy", "uncompanion">>
  <2>1. Head(todo) = "persist" /\ Shape(todo, "persist", 3, TRUE, FALSE) /\ Shape(Tail(todo), "destroy", 2, TRUE, FALSE)
    BY <1>11, Shapes DEF Shape
  <2>2. Tail(todo) \in Chains
    BY <1>11, Shapes DEF Chains
  <2>3. At3
    BY <1>11, <2>1 DEF At, Shape
  <2> QED
    BY <2>1, <2>2, <2>3
<1>12. CASE todo = <<"destroy", "uncompanion">>
  <2>1. Head(todo) = "destroy" /\ Shape(todo, "destroy", 2, TRUE, FALSE) /\ Shape(Tail(todo), "uncompanion", 1, TRUE, FALSE)
    BY <1>12, Shapes DEF Shape
  <2>2. Tail(todo) \in Chains
    BY <1>12, Shapes DEF Chains
  <2>3. At3
    BY <1>12, <2>1 DEF At, Shape
  <2> QED
    BY <2>1, <2>2, <2>3
<1>13. CASE todo = <<"uncompanion">>
  <2>1. Head(todo) = "uncompanion" /\ Shape(todo, "uncompanion", 1, TRUE, FALSE) /\ Tail(todo) = <<>>
    BY <1>13, Shapes DEF Shape
  <2>2. Tail(todo) \in Chains
    BY <1>13, Shapes DEF Chains
  <2>3. At3
    BY <1>13, <2>1 DEF At, Shape
  <2> QED
    BY <2>1, <2>2, <2>3
<1>14. CASE todo = <<"destroy", "forget">>
  <2>1. Head(todo) = "destroy" /\ Shape(todo, "destroy", 2, FALSE, TRUE) /\ Shape(Tail(todo), "forget", 1, FALSE, TRUE)
    BY <1>14, Shapes DEF Shape
  <2>2. Tail(todo) \in Chains
    BY <1>14, Shapes DEF Chains
  <2>3. At3
    BY <1>14, <2>1 DEF At, Shape
  <2> QED
    BY <2>1, <2>2, <2>3
<1>15. CASE todo = <<"forget">>
  <2>1. Head(todo) = "forget" /\ Shape(todo, "forget", 1, FALSE, TRUE) /\ Tail(todo) = <<>>
    BY <1>15, Shapes DEF Shape
  <2>2. Tail(todo) \in Chains
    BY <1>15, Shapes DEF Chains
  <2>3. At3
    BY <1>15, <2>1 DEF At, Shape
  <2> QED
    BY <2>1, <2>2, <2>3
<1> QED
  BY <1>1, <1>2, <1>3, <1>4, <1>5, <1>6, <1>7, <1>8, <1>9, <1>10, <1>11, <1>12, <1>13, <1>14, <1>15 DEF Chains

----------------------------------------------------------------------------
(* Types are kept.                                                         *)

LEMMA TypesShrunk ==
    ASSUME Types, Shrink \/ Lapse, want' \in Facets, {row', comp', old'} \subseteq Rows, todo' \in Chains,
           calls' \in Seq(CallNames), it' \in Nat, seen' \in Facets, saved' \in BOOLEAN
    PROVE  Types'
BY Waning DEF Types, Wane

LEMMA TailCalls == ASSUME Types, calls # <<>> PROVE Tail(calls) \in Seq(CallNames)
BY DEF Types

RowStep == Plan \/ CopyToCompanion \/ WriteAhead \/ Persist \/ Forget \/ DropCompanion
LEMMA TypesRow ==
    ASSUME Types, RowStep
    PROVE  Types' /\ Shrink /\ cloud' = cloud /\ kind' = kind /\ want' = want /\ h' = h /\ calls' = calls
<1>1. kind' = kind /\ want' = want /\ cloud' = cloud /\ calls' = calls /\ seen' = seen
  BY DEF RowStep, Plan, CopyToCompanion, WriteAhead, Persist, Forget, DropCompanion, Written, rows, bounds
<1>2. Shrink
  BY <1>1, ShrinkNone
<1>3. \A r \in {row, comp, old} : r \in Rows
  BY DEF Types
<1>4. want \in Facets /\ calls \in Seq(CallNames) /\ it \in Nat /\ seen \in Facets /\ saved \in BOOLEAN /\ todo \in Chains
  BY DEF Types
<1>5. \A s \in {"creating", "created"} : \A i \in Nat : Row(s, want, i) \in Rows
  BY <1>4 DEF Row, Rows
<1>6. /\ {row', comp', old'} \subseteq Rows /\ todo' \in Chains /\ it' \in Nat /\ saved' \in BOOLEAN
  <2>1. CASE Plan
    <3>1. todo' \in Chains
      BY <2>1, <1>4 DEF Plan, StepsOf, Chains, Change
    <3> QED
      BY <2>1, <3>1, <1>3, <1>4 DEF Plan, rows
  <2>t. ASSUME NEW s, Written(s) PROVE todo' \in Chains /\ old' \in Rows /\ it' \in Nat
    BY <2>t, <1>3, <1>4, Stations, Given DEF Written
  <2>2. CASE CopyToCompanion
    BY <2>2, <2>t, <1>3, <1>4 DEF CopyToCompanion
  <2>3. CASE WriteAhead
    BY <2>3, <2>t, <1>3, <1>4, <1>5 DEF WriteAhead
  <2>4. CASE Persist
    BY <2>4, <2>t, <1>3, <1>4, <1>5 DEF Persist
  <2>5. CASE Forget
    BY <2>5, <2>t, <1>3, <1>4, Given DEF Forget
  <2>6. CASE DropCompanion
    BY <2>6, <2>t, <1>3, <1>4, Given DEF DropCompanion
  <2> QED
    BY <2>1, <2>2, <2>3, <2>4, <2>5, <2>6 DEF RowStep
<1>7. Types'
  BY <1>1, <1>2, <1>4, <1>6, TypesShrunk
<1> QED
  BY <1>1, <1>2, <1>7 DEF h

LEMMA TypesAbandoned ==
    ASSUME Types, Abandoned
    PROVE  Types' /\ Shrink /\ cloud' = cloud /\ kind' = kind /\ want' = want /\ h' = h /\ row' = row /\ comp' = comp
<1>1. /\ kind' = kind /\ want' = want /\ cloud' = cloud /\ row' = row /\ comp' = comp /\ saved' = saved
      /\ todo' = <<>> /\ calls' = <<>> /\ old' = NoRow /\ it' = 0 /\ seen' = Blank
  BY DEF Abandoned, rows
<1>2. Shrink
  BY <1>1, ShrinkNone
<1>3. Types'
  BY <1>1, <1>2, TypesShrunk, Given DEF Types, Chains
<1> QED
  BY <1>1, <1>2, <1>3 DEF h

LEMMA TypesBegin ==
    ASSUME Types, Ids, Begin \/ Retry
    PROVE  /\ Types' /\ Shrink /\ cloud' = cloud /\ kind' = kind /\ want' = want /\ h' = h
           /\ row' = row /\ comp' = comp /\ old' = old /\ todo' = todo
<1>1. /\ kind' = kind /\ want' = want /\ cloud' = cloud /\ row' = row /\ comp' = comp /\ old' = old
      /\ todo' = todo /\ seen' = seen
  BY DEF Begin, Retry, rows, bounds
<1>2. Shrink
  BY <1>1, ShrinkNone
<1>3. calls' \in Seq(CallNames) /\ it' \in Nat /\ saved' \in BOOLEAN
  <2>1. CASE Begin
    <3>1. /\ <<"return">> \in Seq(CallNames) /\ <<"make">> \in Seq(CallNames)
          /\ Append(h.update, "return") \in Seq(CallNames) /\ Append(h.delete, "return") \in Seq(CallNames)
      <4>1. h.update \in Seq(CallNames)
        BY HandlerFits DEF Fits, Sequenced
      <4>2. h.delete \in Seq(CallNames)
        <5>1. h.delete \in {<<>>, <<"delete">>, <<"detach", "delete">>, <<"disassociate", "delete">>, <<"delete", "gone">>,
                            <<"disable", "deployed", "delete">>}
          BY HandlerFits DEF Fits, Sequenced
        <5>2. /\ <<>> \in Seq(CallNames) /\ <<"delete">> \in Seq(CallNames)
              /\ <<"detach", "delete">> \in Seq(CallNames) /\ <<"delete", "gone">> \in Seq(CallNames)
              /\ <<"disassociate", "delete">> \in Seq(CallNames)
              /\ <<"disable", "deployed", "delete">> \in Seq(CallNames)
          BY DEF CallNames
        <5> QED
          BY <5>1, <5>2
      <4> QED
        BY <4>1, <4>2 DEF CallNames
    <3>2. calls' \in Seq(CallNames)
      <4>1. Append(<<>>, "return") = <<"return">>
        OBVIOUS
      <4>2. calls' \in {<<"return">>, <<"make">>, Append(h.update, "return"), Append(h.delete, "return"), Append(<<>>, "return")}
        BY <2>1 DEF Begin
      <4> QED
        BY <3>1, <4>1, <4>2
    <3>3. it' \in Nat
      <4>1. Target(row) \subseteq Objects /\ Target(old) \subseteq Objects
        BY Targets DEF Marked
      <4>2. Objects \subseteq Nat
        BY DEF Objects, Types
      <4>3. it' = 0 \/ it' \in Target(row) \/ it' \in Target(old)
        <5> HIDE DEF h
        <5> QED
          BY <2>1 DEF Begin
      <4> QED
        <5>1. 0 \in Nat
          OBVIOUS
        <5> QED
          BY <4>1, <4>2, <4>3, <5>1, Zenon
    <3>4. saved' \in BOOLEAN
      <4>1. saved' = (saved /\ Head(todo) = "destroy" /\ "uncompanion" \in ToSet(todo))
        BY <2>1 DEF Begin
      <4>2. (saved /\ Head(todo) = "destroy" /\ "uncompanion" \in ToSet(todo)) \in BOOLEAN
        OBVIOUS
      <4> QED
        BY <4>1, <4>2, Zenon
    <3> QED
      BY <3>2, <3>3, <3>4
  <2>2. CASE Retry
    BY <2>2 DEF Retry, Types
  <2> QED
    BY <2>1, <2>2
<1>4. Types'
  BY <1>1, <1>2, <1>3, TypesShrunk DEF Types
<1> QED
  BY <1>1, <1>2, <1>4 DEF h

LEMMA TypesStroke ==
    ASSUME Types, Stroke
    PROVE  /\ Types' /\ Shrink /\ kind' = kind /\ want' = want /\ h' = h
           /\ row' = row /\ comp' = comp /\ old' = old /\ todo' = todo /\ it' = it
<1>1. /\ kind' = kind /\ want' = want /\ row' = row /\ comp' = comp /\ old' = old
      /\ todo' = todo /\ seen' \in Facets /\ it' = it /\ saved' = saved
  BY DEF Stroke
<1>2. Shrink
  BY ShrinkStroke
<1>3. calls' \in Seq(CallNames)
  BY TailCalls DEF Stroke, Types
<1>4. Types'
  BY <1>1, <1>2, <1>3, TypesShrunk DEF Types
<1> QED
  BY <1>1, <1>2, <1>4 DEF h

LEMMA TypesDelete ==
    ASSUME Types, Stage, Delete \/ Return
    PROVE  /\ Types' /\ Shrink /\ kind' = kind /\ want' = want /\ h' = h
           /\ row' = row /\ comp' = comp /\ old' = old /\ it' = it
<1>1. CASE Delete
  <2>1. /\ kind' = kind /\ want' = want /\ row' = row /\ comp' = comp /\ old' = old
        /\ todo' = todo /\ seen' = seen /\ it' = it /\ saved' = saved /\ calls' = Tail(calls) /\ calls # <<>>
    BY <1>1 DEF Delete, Calling, Done, rows, bounds
  <2>2. Shrink
    BY <1>1, ShrinkDelete
  <2>3. Types'
    BY <2>1, <2>2, TailCalls, TypesShrunk DEF Types
  <2> QED
    BY <2>1, <2>2, <2>3 DEF h
<1>2. CASE Return
  <2>1. /\ kind' = kind /\ want' = want /\ row' = row /\ comp' = comp /\ old' = old
        /\ todo' = Tail(todo) /\ seen' = Blank /\ it' = it /\ saved' = saved /\ calls' = <<>> /\ cloud' = cloud
    BY <1>2 DEF Return, Calling, Done, rows, bounds
  <2>2. Shrink
    BY <2>1, ShrinkNone
  <2>3. todo # <<>> => Tail(todo) \in Chains
    BY Stations
  <2>4. todo # <<>>
    BY <1>2 DEF Stage, Return, Calling
  <2>5. Types'
    BY <2>1, <2>2, <2>3, <2>4, TypesShrunk, Given DEF Types
  <2> QED
    BY <2>1, <2>2, <2>5 DEF h
<1> QED
  BY <1>1, <1>2

LEMMA TypesAround ==
    ASSUME Types, Ids, Background \/ EditConfig \/ EditByHand \/ Refresh
    PROVE  Types' /\ Shrink /\ kind' = kind /\ h' = h /\ comp' = comp /\ UNCHANGED run
<1>1. /\ kind' = kind /\ comp' = comp /\ old' = old
      /\ todo' = todo /\ seen' = seen /\ it' = it /\ saved' = saved /\ calls' = calls
  BY DEF Background, EditConfig, EditByHand, Refresh, Between, run, rows, bounds
<1>2. Shrink
  BY <1>1, ShrinkNone, ShrinkBackground, ShrinkByHand DEF EditConfig, Refresh
<1>3. want' \in Facets
  BY Given DEF Background, EditConfig, EditByHand, Refresh, Types
<1>4. row' \in Rows
  <2>1. CASE Background \/ EditConfig \/ EditByHand
    BY <2>1 DEF Background, EditConfig, EditByHand, Types, rows
  <2>2. CASE Refresh
    <3>1. row' = NoRow \/ \E i \in Held(row) : Exists(i) /\
             row' = [row EXCEPT !.in = [f \in Settings |-> IF f \in h.reads THEN cloud[i].set[f] ELSE @[f]]]
      BY <2>2 DEF Refresh
    <3>2. ASSUME NEW i \in Held(row), Exists(i),
             row' = [row EXCEPT !.in = [f \in Settings |-> IF f \in h.reads THEN cloud[i].set[f] ELSE @[f]]]
          PROVE  row' \in Rows
      <4>1. cloud[i].set \in Facets
        BY <3>2 DEF Held, SameName, Objects, Ids, Leading, Types, Things
      <4>2. row \in Rows /\ row.in \in Facets
        BY DEF Types, Rows
      <4>3. PICK g : g = [f \in Settings |-> IF f \in h.reads THEN cloud[i].set[f] ELSE row.in[f]]
        OBVIOUS
      <4>4. g \in Facets
        <5>1. PICK a, b : a = cloud[i].set /\ b = row.in
          OBVIOUS
        <5>2. a \in Facets /\ b \in Facets /\ g = [f \in Settings |-> IF f \in h.reads THEN a[f] ELSE b[f]]
          BY <5>1, <4>1, <4>2, <4>3
        <5> QED
          BY <5>2 DEF Facets, Settings
      <4>5. row' = [row EXCEPT !.in = g]
        BY <3>2, <4>3
      <4> QED
        BY <4>2, <4>4, <4>5 DEF Rows
    <3> QED
      BY <3>1, <3>2, Given
  <2> QED
    BY <2>1, <2>2
<1>5. Types'
  BY <1>1, <1>2, <1>3, <1>4, TypesShrunk DEF Types
<1> QED
  BY <1>1, <1>2, <1>5 DEF h, run

----------------------------------------------------------------------------
(* The create call.                                                        *)

MakeNew ==
    /\ Calling("make") /\ UNCHANGED <<todo, seen>>
    /\ Conflicting = {}
    /\ cloud' = Append(cloud, Made) /\ it' = Len(cloud) + 1
    /\ calls' = h.after \o <<"return">>
    /\ astray' = Doomed
MakeOld ==
    /\ Calling("make") /\ UNCHANGED <<todo, seen>>
    /\ it' \in Adoptable /\ UNCHANGED cloud
    /\ calls' = h.adopt \o h.after \o <<"return">>
    /\ astray' = (h.fields \ (SetBy(h.adopt \o h.after) \cup Same)) \cup (astray \cap {"replaced"}) \cup Doomed
LEMMA MakeEither == Make <=> MakeNew \/ MakeOld
BY DEF Make, MakeNew, MakeOld

LEMMA MadeIs ==
    ASSUME Types
    PROVE  /\ Made \in Things /\ Made.ours = TRUE /\ Made.up \in {"active", "pending"}
           /\ Made.up = h.born
           /\ Made.mark = (h.by \in ByMark \cup {"token"})
           /\ \A f \in h.stamps : Made.set[f] = want[f]
           /\ "tags" \notin h.stamps => Made.set.tags = {}
           /\ kind # "SecurityGroup" /\ "entries" \notin h.stamps => Made.set.entries = Blank.entries
<1>1. PICK s : s = [f \in Settings |->
                IF f \in h.stamps THEN want[f]
                ELSE IF f = "entries" /\ kind = "SecurityGroup"
                     THEN [Blank.entries EXCEPT ![Everything] = 1] ELSE Blank[f]]
  OBVIOUS
<1>2. PICK e : e = [Blank.entries EXCEPT ![Everything] = 1]
  OBVIOUS
<1>3. PICK w, b : w = want /\ b = Blank
  OBVIOUS
<1>4. w \in Facets /\ b \in Facets /\ e \in [Keys -> Nat]
  <2>1. Blank.entries \in [Keys -> Nat]
    BY Given DEF Facets
  <2> QED
    BY <1>2, <1>3, <2>1, Given DEF Types
<1>5. s = [f \in Settings |-> IF f \in h.stamps THEN w[f] ELSE IF f = "entries" /\ kind = "SecurityGroup" THEN e ELSE b[f]]
  BY <1>1, <1>2, <1>3
<1>6. s \in Facets
  BY <1>4, <1>5 DEF Facets, Settings
<1>7. h.born \in {"active", "pending"} /\ h.stamps \subseteq Settings
  BY HandlerFits DEF Fits, Shaped
<1>8. PICK m : m = (h.by \in {"tag", "reference", "reference and name", "token"})
  OBVIOUS
<1>9. Made = [set |-> s, mark |-> m, up |-> h.born, ours |-> TRUE]
  BY <1>1, <1>8 DEF Made, Object
<1>10. m \in BOOLEAN
  <2>1. (h.by \in {"tag", "reference", "reference and name", "token"}) \in BOOLEAN
    OBVIOUS
  <2> QED
    BY <1>8, <2>1, Zenon
<1>11. Made \in Things /\ Made.ours = TRUE /\ Made.up = h.born /\ Made.mark = m /\ Made.set = s
  <2>1. Made.ours = TRUE /\ Made.up = h.born /\ Made.mark = m /\ Made.set = s
    BY <1>9
  <2>2. PICK b1 : b1 = h.born
    OBVIOUS
  <2>3. [set |-> s, mark |-> m, up |-> b1, ours |-> TRUE] \in Things
    BY <2>2, <1>6, <1>7, <1>10 DEF Things, Ups
  <2> QED
    BY <1>9, <2>1, <2>2, <2>3
<1>12. \A f \in h.stamps : s[f] = want[f]
  BY <1>3, <1>5, <1>7
<1>13. "tags" \notin h.stamps => s.tags = {}
  BY <1>3, <1>5 DEF Settings, Blank
<1>14. kind # "SecurityGroup" /\ "entries" \notin h.stamps => s.entries = Blank.entries
  BY <1>3, <1>5 DEF Settings
<1>15. m = (h.by \in ByMark \cup {"token"})
  BY <1>8 DEF ByMark
<1> QED
  BY <1>7, <1>11, <1>12, <1>13, <1>14, <1>15

\* A new object, of the next id.
LEMMA Grown ==
    ASSUME Types, Ids, MakeNew
    PROVE  /\ kind' = kind /\ want' = want /\ h' = h
           /\ row' = row /\ comp' = comp /\ old' = old /\ todo' = todo /\ seen' = seen /\ saved' = saved /\ lost' = lost
           /\ it' = Len(cloud) + 1 /\ it' \in Nat \ {0} /\ it' \notin DOMAIN cloud
           /\ DOMAIN cloud' = DOMAIN cloud \cup {it'}
           /\ (\A i \in DOMAIN cloud : cloud'[i] = cloud[i] /\ i # it') /\ cloud'[it'] = Made
           /\ Objects' = Objects \cup {it'} /\ Ours' = Ours \cup {it'}
           /\ Marked' = Marked \cup IF h.by \in ByMark \cup {"token"} THEN {it'} ELSE {}
           /\ Made \in Things
           /\ Types'
<1>1. /\ kind' = kind /\ want' = want /\ row' = row /\ comp' = comp /\ old' = old /\ todo' = todo
      /\ seen' = seen /\ saved' = saved /\ lost' = lost /\ h' = h
  BY DEF MakeNew, Calling, rows, bounds, h
<1>2. /\ Made \in Things /\ Made.ours = TRUE /\ Made.up \in {"active", "pending"}
      /\ Made.mark = (h.by \in ByMark \cup {"token"})
  BY MadeIs
<1>3. PICK x : x = Made
  OBVIOUS
<1>4. PICK c : c = Append(cloud, x)
  OBVIOUS
<1>5. cloud' = c /\ it' = Len(cloud) + 1
  BY <1>3, <1>4 DEF MakeNew
<1>6. cloud \in Seq(Things) /\ DOMAIN cloud = 1 .. Len(cloud) /\ (\A i \in DOMAIN cloud : cloud[i] \in Things) /\ Len(cloud) \in Nat
  BY DEF Types
<1>7. /\ c \in Seq(Things) /\ Len(c) = Len(cloud) + 1 /\ DOMAIN c = 1 .. Len(c)
      /\ (\A i \in DOMAIN cloud : c[i] = cloud[i]) /\ c[Len(cloud) + 1] = x
  BY <1>2, <1>3, <1>4, <1>6
<1>8. /\ it' \in Nat \ {0} /\ it' \notin DOMAIN cloud /\ DOMAIN c = DOMAIN cloud \cup {it'}
      /\ \A i \in DOMAIN cloud : i # it'
  <2>1. it' = Len(cloud) + 1 /\ Len(cloud) \in Nat /\ DOMAIN c = 1 .. Len(cloud) + 1 /\ DOMAIN cloud = 1 .. Len(cloud)
    BY <1>5, <1>6, <1>7
  <2> QED
    BY <2>1
<1>9. /\ DOMAIN cloud' = DOMAIN cloud \cup {it'}
      /\ (\A i \in DOMAIN cloud : cloud'[i] = cloud[i]) /\ cloud'[it'] = x
  BY <1>5, <1>7, <1>8
<1>10. Objects' = Objects \cup {it'}
  BY <1>2, <1>3, <1>8, <1>9 DEF Objects, Exists
<1>11. Ours' = Ours \cup {it'}
  BY <1>1, <1>2, <1>3, <1>8, <1>9, <1>10 DEF Ours, Live, Exists, Objects
<1>12. Marked' = Marked \cup IF h.by \in ByMark \cup {"token"} THEN {it'} ELSE {}
  BY <1>1, <1>2, <1>3, <1>8, <1>9, <1>10 DEF Marked, Live, Exists, Objects
<1>13. Types'
  <2>1. (cloud \in Seq(Things) /\ (\A i \in DOMAIN cloud : cloud[i] \in Things)
        /\ DOMAIN cloud = 1 .. Len(cloud))'
    <3>1. \A i \in DOMAIN c : c[i] \in Things
      BY <1>2, <1>3, <1>6, <1>7, <1>8, <1>5
    <3> QED
      BY <3>1, <1>5, <1>7
  <2>2. calls' \in Seq(CallNames)
    <3>1. h.after \in Seq(CallNames) /\ calls' = h.after \o <<"return">>
      BY HandlerFits DEF Fits, Sequenced, MakeNew
    <3>2. <<"return">> \in Seq(CallNames)
      BY DEF CallNames
    <3> QED
      BY <3>1, <3>2
  <2>3. it' \in Nat
    BY <1>8
  <2>4. kind' \in Kinds /\ want' \in Facets /\ {row', comp', old'} \subseteq Rows /\ todo' \in Chains /\ seen' \in Facets /\ saved' \in BOOLEAN
    BY <1>1 DEF Types
  <2> QED
    BY <2>1, <2>2, <2>3, <2>4 DEF Types
<1> QED
  BY <1>1, <1>2, <1>3, <1>5, <1>8, <1>9, <1>10, <1>11, <1>12, <1>13

LEMMA Adopted ==
    ASSUME Types, MakeOld
    PROVE  /\ kind' = kind /\ want' = want /\ h' = h /\ cloud' = cloud
           /\ row' = row /\ comp' = comp /\ old' = old /\ todo' = todo /\ seen' = seen /\ saved' = saved /\ lost' = lost
           /\ it' \in Adoptable /\ it' \in Conflicting /\ it' \in Objects /\ it' \in DOMAIN cloud /\ it' # 0
           /\ calls' = (h.adopt \o h.after) \o <<"return">>
           /\ h.adopt \o h.after \in Seq(CallNames) /\ InPlace(h.adopt \o h.after)
           /\ ToSet(h.adopt \o h.after) = ToSet(h.adopt) \cup ToSet(h.after)
           /\ Types' /\ Shrink
<1>1. /\ kind' = kind /\ want' = want /\ row' = row /\ comp' = comp /\ old' = old /\ todo' = todo
      /\ seen' = seen /\ saved' = saved /\ lost' = lost /\ h' = h /\ cloud' = cloud
  BY DEF MakeOld, Calling, rows, bounds, h
<1>2. it' \in Adoptable /\ calls' = h.adopt \o h.after \o <<"return">>
  BY DEF MakeOld
<1>3. Adoptable \subseteq Conflicting
  BY DEF Adoptable
<1>4. Conflicting \subseteq Objects
  <2>1. h.by \in ByMark \cup ByName \cup {"token", "lookup"}
    BY HandlerFits DEF Fits, Shaped
  <2> QED
    BY <2>1 DEF Conflicting, Claims, Marked, SameName, ByMark, ByName
<1>5. Objects \subseteq DOMAIN cloud /\ DOMAIN cloud = 1 .. Len(cloud)
  BY DEF Objects, Types
<1>6. /\ h.adopt \o h.after \in Seq(CallNames) /\ InPlace(h.adopt \o h.after)
      /\ ToSet(h.adopt \o h.after) = ToSet(h.adopt) \cup ToSet(h.after)
  <2>1. h.adopt \in Seq(CallNames) /\ h.after \in Seq(CallNames) /\ InPlace(h.adopt) /\ InPlace(h.after)
    BY HandlerFits DEF Fits, Sequenced
  <2>2. CASE h.adopt # <<>>
    BY <2>1, <2>2, HandlerFits, Joined DEF Fits, Sequenced
  <2>3. CASE h.adopt = <<>>
    <3>1. <<>> \o h.after = h.after
      BY <2>1
    <3> QED
      BY <2>1, <2>3, <3>1, Synced
  <2> QED
    BY <2>2, <2>3
<1>7. calls' \in Seq(CallNames)
  <2>1. <<"return">> \in Seq(CallNames)
    BY DEF CallNames
  <2> QED
    BY <1>2, <1>6, <2>1
<1>8. it' \in Conflicting /\ it' \in Objects /\ it' \in DOMAIN cloud
  BY <1>2, <1>3, <1>4, <1>5
<1>9. it' \in Nat /\ it' # 0
  BY <1>5, <1>8
<1>10. Shrink
  BY <1>1, ShrinkNone
<1>11. Types'
  BY <1>1, <1>7, <1>9, <1>10, TypesShrunk DEF Types
<1> QED
  BY <1>1, <1>2, <1>6, <1>8, <1>9, <1>10, <1>11

----------------------------------------------------------------------------
(* The rows at each stage of a run.                                        *)

LEMMA StageStays ==
    ASSUME Stage, UNCHANGED <<kind, want, row, comp, old, todo>>, calls' = <<>> \/ todo # <<>>
    PROVE  Stage'
<1>1. h' = h
  BY DEF h
<1> QED
  BY <1>1 DEF Stage, Wrote, Doing, At, Beside, Removing

LEMMA StageIdle ==
    ASSUME Stage, todo' = <<>>, calls' = <<>>, comp' = comp \/ comp' = NoRow,
           row' = row \/ row' = NoRow \/ (row'.st = "created" /\ row.st = "created")
    PROVE  Stage'
<1>1. /\ row'.st = "creating" => row'.id = 0
      /\ row'.st = "none" => row' = NoRow
      /\ comp'.st \in {"none", "created"} /\ (comp'.st = "none" => comp' = NoRow)
  BY DEF Stage, NoRow
<1> QED
  BY <1>1 DEF Stage, Wrote, Doing, At

LEMMA PlanShape ==
    ASSUME Plan
    PROVE  /\ row' = row /\ comp' = comp /\ want' = want /\ kind' = kind /\ calls' = calls /\ h' = h /\ todo = <<>>
           /\ cloud' = cloud /\ it' = it /\ seen' = seen /\ saved' = saved /\ astray' = astray /\ lost' = lost
           /\ \/ Shape(todo', "destroy", 2, TRUE, FALSE) /\ comp.st # "none" /\ old' = comp
              \/ Shape(todo', "ahead", 3, FALSE, FALSE) /\ row.st # "created" /\ old' = row
              \/ Shape(todo', "update", 2, FALSE, FALSE) /\ row.st = "created" /\ ~Differ({"name", "imm"}) /\ old' = row
              \/ Shape(todo', "ahead", 4, FALSE, FALSE) /\ row.st = "created" /\ old' = row
              \/ Shape(todo', "companion", 6, TRUE, FALSE) /\ row.st = "created" /\ comp.st = "none" /\ old' = row
              \/ Shape(todo', "destroy", 2, FALSE, TRUE) /\ row.st # "none" /\ old' = row
<1>1. \/ comp.st # "none" /\ todo' = <<"destroy", "uncompanion">> /\ old' = comp
      \/ Change # "noop" /\ (Change = "create first" => comp.st = "none") /\ todo' = StepsOf(Change) /\ old' = row
  BY DEF Plan
<1>2. Change \in {"noop", "create", "update", "replace", "create first", "delete"}
  BY DEF Change
<1>3. /\ Change = "create" => row.st # "created"
      /\ Change = "update" => row.st = "created" /\ ~Differ({"name", "imm"})
      /\ Change = "replace" => row.st = "created"
      /\ Change = "create first" => row.st = "created"
      /\ Change = "delete" => row.st # "none"
  BY DEF Change
<1>4. /\ Shape(StepsOf("create"), "ahead", 3, FALSE, FALSE)
      /\ Shape(StepsOf("update"), "update", 2, FALSE, FALSE)
      /\ Shape(StepsOf("replace"), "ahead", 4, FALSE, FALSE)
      /\ Shape(StepsOf("create first"), "companion", 6, TRUE, FALSE)
      /\ Shape(StepsOf("delete"), "destroy", 2, FALSE, TRUE)
      /\ Shape(<<"destroy", "uncompanion">>, "destroy", 2, TRUE, FALSE)
  BY Shapes DEF StepsOf
<1>5. /\ row' = row /\ comp' = comp /\ want' = want /\ kind' = kind /\ calls' = calls /\ h' = h /\ todo = <<>>
      /\ cloud' = cloud /\ it' = it /\ seen' = seen /\ saved' = saved /\ astray' = astray /\ lost' = lost
  BY DEF Plan, rows, bounds, h
<1> QED
  BY <1>1, <1>2, <1>3, <1>4, <1>5

LEMMA StagePlan ==
    ASSUME Types, Stage, Plan
    PROVE  Stage'
<1>1. /\ row' = row /\ comp' = comp /\ want' = want /\ kind' = kind /\ calls' = calls /\ h' = h /\ todo = <<>>
  BY PlanShape
<1> DEFINE Goal == Stage'
<1>2. CASE Shape(todo', "destroy", 2, TRUE, FALSE) /\ comp.st # "none" /\ old' = comp
  BY <1>1, <1>2 DEF Stage, Wrote, Doing, At, Beside, Removing, Shape
<1>3. CASE Shape(todo', "ahead", 3, FALSE, FALSE) /\ row.st # "created" /\ old' = row
  BY <1>1, <1>3 DEF Stage, Wrote, Doing, At, Beside, Removing, Shape
<1>4. CASE Shape(todo', "update", 2, FALSE, FALSE) /\ row.st = "created" /\ ~Differ({"name", "imm"}) /\ old' = row
  BY <1>1, <1>4 DEF Stage, Wrote, Doing, At, Beside, Removing, Shape, Differ
<1>5. CASE Shape(todo', "ahead", 4, FALSE, FALSE) /\ row.st = "created" /\ old' = row
  BY <1>1, <1>5 DEF Stage, Wrote, Doing, At, Beside, Removing, Shape
<1>6. CASE Shape(todo', "companion", 6, TRUE, FALSE) /\ row.st = "created" /\ comp.st = "none" /\ old' = row
  BY <1>1, <1>6 DEF Stage, Wrote, Doing, At, Beside, Removing, Shape
<1>7. CASE Shape(todo', "destroy", 2, FALSE, TRUE) /\ row.st # "none" /\ old' = row
  BY <1>1, <1>7 DEF Stage, Wrote, Doing, At, Beside, Removing, Shape
<1> QED
  BY PlanShape, <1>2, <1>3, <1>4, <1>5, <1>6, <1>7

\* No call is left when a row is written.
LEMMA Quiet ==
    ASSUME Types, Stage, Ordered, CopyToCompanion \/ WriteAhead \/ Persist \/ Forget \/ DropCompanion
    PROVE  calls = <<>>
BY DEF Ordered, Operations, CopyToCompanion, WriteAhead, Persist, Forget, DropCompanion, Written

LEMMA StageRow ==
    ASSUME Types, Stage, Ordered, RowStep
    PROVE  Stage'
<1>1. CASE Plan
  BY <1>1, StagePlan
<1>w. /\ want' = want /\ kind' = kind /\ calls' = calls /\ h' = h
  BY TypesRow
<1>2. CASE CopyToCompanion
  <2>1. /\ Shape(todo, "companion", 6, TRUE, FALSE) /\ Shape(todo', "ahead", 5, TRUE, FALSE)
        /\ row' = row /\ comp' = row /\ old' = old
    BY <1>2, Stations DEF CopyToCompanion, Written, Shape
  <2>2. row.st = "created" /\ old = row
    BY <2>1 DEF Stage, Shape, At
  <2> QED
    BY <1>w, <2>1, <2>2 DEF Stage, Wrote, Doing, At, Beside, Removing, Shape
<1>3. CASE WriteAhead
  <2>1. /\ Head(todo) = "ahead" /\ todo # <<>> /\ row' = Row("creating", want, 0) /\ comp' = comp /\ todo' = Tail(todo)
        /\ old' = IF todo' = <<>> THEN NoRow ELSE old
    BY <1>3 DEF WriteAhead, Written
  <2>2. row'.st = "creating" /\ row'.id = 0 /\ row' = Row("creating", want, 0)'
    BY <2>1, <1>w DEF Row
  <2>3. CASE Shape(todo, "ahead", 3, FALSE, FALSE) /\ Shape(todo', "create", 2, FALSE, FALSE)
    <3>1. old' = old /\ TRUE
      BY <2>1, <2>3 DEF Stage, Shape, At, Beside
    <3> QED
      BY <1>w, <2>1, <2>2, <2>3, <3>1 DEF Stage, Wrote, Doing, At, Beside, Removing, Shape
  <2>4. CASE Shape(todo, "ahead", 4, FALSE, FALSE) /\ Shape(todo', "destroy", 3, FALSE, FALSE)
    <3>1. old' = old /\ old.st = "created"
      BY <2>1, <2>4 DEF Stage, Shape, At, Beside
    <3> QED
      BY <1>w, <2>1, <2>2, <2>4, <3>1 DEF Stage, Wrote, Doing, At, Beside, Removing, Shape
  <2>5. CASE Shape(todo, "ahead", 5, TRUE, FALSE) /\ Shape(todo', "create", 4, TRUE, FALSE)
    <3>1. old' = old /\ old = comp /\ comp.st = "created"
      BY <2>1, <2>5 DEF Stage, Shape, At, Beside
    <3> QED
      BY <1>w, <2>1, <2>2, <2>5, <3>1 DEF Stage, Wrote, Doing, At, Beside, Removing, Shape
  <2> QED
    BY <2>1, <2>3, <2>4, <2>5, Stations
<1>4. CASE Persist
  <2>1. /\ Head(todo) = "persist" /\ todo # <<>> /\ row' = Row("created", want, it) /\ comp' = comp /\ todo' = Tail(todo)
        /\ old' = IF todo' = <<>> THEN NoRow ELSE old
    BY <1>4 DEF Persist, Written
  <2>2. row'.st = "created"
    BY <2>1 DEF Row
  <2>3. CASE todo' = <<>>
    <3>1. calls' = <<>>
      BY <1>4, <1>w, Quiet
    <3> QED
      BY <2>2, <2>3, <3>1, <1>w, <2>1 DEF Stage, Wrote, Doing, At
  <2>4. CASE Shape(todo, "persist", 3, TRUE, FALSE) /\ Shape(todo', "destroy", 2, TRUE, FALSE)
    <3>1. old = comp /\ comp.st = "created" /\ old' = old
      BY <2>1, <2>4 DEF Stage, Shape, At, Beside
    <3> QED
      BY <2>2, <2>4, <3>1, <1>w, <2>1 DEF Stage, Wrote, Doing, At, Beside, Removing, Shape
  <2> QED
    BY <2>1, <2>3, <2>4, Stations
<1>5. CASE Forget \/ DropCompanion
  <2>1. /\ todo' = <<>> /\ (row' = row \/ row' = NoRow) /\ (comp' = comp \/ comp' = NoRow)
    BY <1>5, Stations DEF Forget, DropCompanion, Written
  <2>2. calls' = <<>>
    BY <1>5, <1>w, Quiet
  <2> QED
    BY <2>1, <2>2, StageIdle
<1> QED
  BY <1>1, <1>2, <1>3, <1>4, <1>5 DEF RowStep

LEMMA StageReturn ==
    ASSUME Types, Stage, Ordered, Return
    PROVE  Stage'
<1>1. /\ row' = row /\ comp' = comp /\ want' = want /\ kind' = kind /\ calls' = <<>> /\ h' = h
      /\ old' = old /\ todo' = Tail(todo) /\ calls # <<>>
  BY DEF Return, Calling, rows, bounds, h
<1>2. todo # <<>> /\ Head(todo) \in {"create", "update", "destroy"}
  BY <1>1 DEF Stage, Ordered, Operations
<1>3. CASE Shape(todo, "create", 2, FALSE, FALSE) /\ Shape(Tail(todo), "persist", 1, FALSE, FALSE)
  BY <1>1, <1>3 DEF Stage, Wrote, Doing, At, Beside, Removing, Shape, Row
<1>4. CASE Shape(todo, "create", 4, TRUE, FALSE) /\ Shape(Tail(todo), "persist", 3, TRUE, FALSE)
  BY <1>1, <1>4 DEF Stage, Wrote, Doing, At, Beside, Removing, Shape, Row
<1>5. CASE Shape(todo, "update", 2, FALSE, FALSE) /\ Shape(Tail(todo), "persist", 1, FALSE, FALSE)
  BY <1>1, <1>5 DEF Stage, Wrote, Doing, At, Beside, Removing, Shape, Row
<1>6. CASE Shape(todo, "destroy", 3, FALSE, FALSE) /\ Shape(Tail(todo), "create", 2, FALSE, FALSE)
  BY <1>1, <1>6 DEF Stage, Wrote, Doing, At, Beside, Removing, Shape, Row
<1>7. CASE Shape(todo, "destroy", 2, TRUE, FALSE) /\ Shape(Tail(todo), "uncompanion", 1, TRUE, FALSE)
  BY <1>1, <1>7 DEF Stage, Wrote, Doing, At, Beside, Removing, Shape, Row
<1>8. CASE Shape(todo, "destroy", 2, FALSE, TRUE) /\ Shape(Tail(todo), "forget", 1, FALSE, TRUE)
  BY <1>1, <1>8 DEF Stage, Wrote, Doing, At, Beside, Removing, Shape, Row
<1> QED
  BY <1>2, Stations, <1>3, <1>4, <1>5, <1>6, <1>7, <1>8

----------------------------------------------------------------------------
(* The calls an operation has left.                                        *)

LEMMA OrderedNone == ASSUME calls' = <<>> PROVE Ordered'
BY DEF Ordered, Orderly, Within

LEMMA OrderedSame ==
    ASSUME Ordered, UNCHANGED <<kind, calls, todo, it>>
    PROVE  Ordered'
<1>1. h' = h
  BY DEF h
<1> QED
  BY <1>1 DEF Ordered, Within, Doing, Left

\* A sequence with the return behind it.
LEMMA Ended ==
    ASSUME NEW s \in Seq(CallNames)
    PROVE  LET u == Append(s, "return") IN
           /\ u \in Seq(CallNames) /\ u # <<>> /\ Len(u) = Len(s) + 1
           /\ (\A n \in 1 .. Len(s) : u[n] = s[n]) /\ u[Len(s) + 1] = "return"
           /\ ToSet(u) = ToSet(s) \cup {"return"}
<1> DEFINE u == Append(s, "return")
<1>2. /\ u \in Seq(CallNames) /\ u # <<>> /\ Len(u) = Len(s) + 1 /\ Len(s) \in Nat
      /\ \A n \in 1 .. Len(s) : u[n] = s[n]
      /\ u[Len(s) + 1] = "return"
      /\ DOMAIN u = 1 .. Len(s) + 1 /\ DOMAIN s = 1 .. Len(s)
  BY DEF CallNames
<1> HIDE DEF u
<1>3. ToSet(u) = ToSet(s) \cup {"return"}
  <2>1. ToSet(s) \subseteq ToSet(u)
    <3> SUFFICES ASSUME NEW n \in 1 .. Len(s) PROVE s[n] \in ToSet(u)
      BY <1>2 DEF ToSet
    <3>1. n \in 1 .. Len(s) + 1 /\ u[n] = s[n]
      BY <1>2
    <3> QED
      BY <3>1, <1>2 DEF ToSet
  <2>2. "return" \in ToSet(u)
    <3>1. Len(s) + 1 \in 1 .. Len(s) + 1
      BY <1>2
    <3> QED
      BY <3>1, <1>2 DEF ToSet
  <2>3. ToSet(u) \subseteq ToSet(s) \cup {"return"}
    <3> SUFFICES ASSUME NEW n \in 1 .. Len(s) + 1 PROVE u[n] \in ToSet(s) \cup {"return"}
      BY <1>2 DEF ToSet
    <3>1. n \in 1 .. Len(s) \/ n = Len(s) + 1
      BY <1>2
    <3> QED
      BY <3>1, <1>2 DEF ToSet
  <2> QED
    BY <2>1, <2>2, <2>3
<1> QED
  BY <1>2, <1>3 DEF u

\* The calls an operation begins with.
LEMMA Openings ==
    ASSUME Types
    PROVE  /\ Opens(Append(h.update, "return"), ToSet(h.update))
           /\ Opens(h.after \o <<"return">>, ToSet(h.after))
           /\ \A s \in Seq(CallNames) : InPlace(s) => Opens(s \o <<"return">>, ToSet(s))
           /\ Opens(Append(h.delete, "return"), ToSet(h.delete))
           /\ Opens(<<"return">>, {})
           /\ Orderly(<<"make">>)
<1>1. /\ h.update \in Seq(CallNames) /\ InPlace(h.update) /\ h.after \in Seq(CallNames) /\ InPlace(h.after)
      /\ h.delete \in {<<>>, <<"delete">>, <<"detach", "delete">>, <<"disassociate", "delete">>, <<"delete", "gone">>,
                       <<"disable", "deployed", "delete">>}
  BY HandlerFits DEF Fits, Sequenced
<1>2. \A s \in Seq(CallNames) : InPlace(s) => Opens(s \o <<"return">>, ToSet(s)) /\ Opens(Append(s, "return"), ToSet(s))
  BY Opening
<1>3. Opens(<<"return">>, {}) /\ Orderly(<<"make">>)
  BY DEF Opens, Orderly, Due, CallNames, ToSet
<1>4. /\ Opens(Append(<<>>, "return"), ToSet(<<>>))
      /\ Opens(Append(<<"delete">>, "return"), ToSet(<<"delete">>))
      /\ Opens(Append(<<"detach", "delete">>, "return"), ToSet(<<"detach", "delete">>))
      /\ Opens(Append(<<"disassociate", "delete">>, "return"), ToSet(<<"disassociate", "delete">>))
      /\ Opens(Append(<<"delete", "gone">>, "return"), ToSet(<<"delete", "gone">>))
      /\ Opens(Append(<<"disable", "deployed", "delete">>, "return"), ToSet(<<"disable", "deployed", "delete">>))
  <2>1. Opens(Append(<<>>, "return"), ToSet(<<>>))
    <3> DEFINE d == <<>>
    <3>1. d \in Seq(CallNames) /\ Len(d) = 0
      BY DEF CallNames
    <3> HIDE DEF d
    <3>2. PICK u : u = Append(d, "return")
      OBVIOUS
    <3>3. u \in Seq(CallNames) /\ u # <<>> /\ Len(u) = 1 /\ ToSet(u) = ToSet(d) \cup {"return"} /\ u[1] = "return"
      <4>1. /\ u \in Seq(CallNames) /\ u # <<>> /\ Len(u) = Len(d) + 1
            /\ (\A n \in 1 .. Len(d) : u[n] = d[n]) /\ u[Len(d) + 1] = "return"
            /\ ToSet(u) = ToSet(d) \cup {"return"}
        BY <3>1, <3>2, Ended
      <4> QED
        BY <3>1, <4>1
    <3>4. Orderly(u)
      <4> SUFFICES ASSUME NEW n \in 1 .. 1 PROVE Due(u, n)
        BY <3>3 DEF Orderly
      <4>1. n = 1
        OBVIOUS
      <4> QED
        BY <4>1, <3>3 DEF Due
    <3>5. u[Len(u)] = "return" /\ Head(u) = u[1]
      BY <3>3
    <3> QED
      BY <3>2, <3>3, <3>4, <3>5 DEF Opens, d
  <2>2. Opens(Append(<<"delete">>, "return"), ToSet(<<"delete">>))
    <3> DEFINE d == <<"delete">>
    <3>1. d \in Seq(CallNames) /\ Len(d) = 1 /\ d[1] = "delete"
      BY DEF CallNames
    <3> HIDE DEF d
    <3>2. PICK u : u = Append(d, "return")
      OBVIOUS
    <3>3. u \in Seq(CallNames) /\ u # <<>> /\ Len(u) = 2 /\ ToSet(u) = ToSet(d) \cup {"return"} /\ u[1] = "delete" /\ u[2] = "return"
      <4>1. /\ u \in Seq(CallNames) /\ u # <<>> /\ Len(u) = Len(d) + 1
            /\ (\A n \in 1 .. Len(d) : u[n] = d[n]) /\ u[Len(d) + 1] = "return"
            /\ ToSet(u) = ToSet(d) \cup {"return"}
        BY <3>1, <3>2, Ended
      <4> QED
        BY <3>1, <4>1
    <3>4. Orderly(u)
      <4> SUFFICES ASSUME NEW n \in 1 .. 2 PROVE Due(u, n)
        BY <3>3 DEF Orderly
      <4>1. n = 1 \/ n = 2
        OBVIOUS
      <4> QED
        BY <4>1, <3>3 DEF Due
    <3>5. u[Len(u)] = "return" /\ Head(u) = u[1]
      BY <3>3
    <3> QED
      BY <3>2, <3>3, <3>4, <3>5 DEF Opens, d
  <2>3. Opens(Append(<<"detach", "delete">>, "return"), ToSet(<<"detach", "delete">>))
    <3> DEFINE d == <<"detach", "delete">>
    <3>1. d \in Seq(CallNames) /\ Len(d) = 2 /\ d[1] = "detach" /\ d[2] = "delete"
      BY DEF CallNames
    <3> HIDE DEF d
    <3>2. PICK u : u = Append(d, "return")
      OBVIOUS
    <3>3. u \in Seq(CallNames) /\ u # <<>> /\ Len(u) = 3 /\ ToSet(u) = ToSet(d) \cup {"return"} /\ u[1] = "detach" /\ u[2] = "delete" /\ u[3] = "return"
      <4>1. /\ u \in Seq(CallNames) /\ u # <<>> /\ Len(u) = Len(d) + 1
            /\ (\A n \in 1 .. Len(d) : u[n] = d[n]) /\ u[Len(d) + 1] = "return"
            /\ ToSet(u) = ToSet(d) \cup {"return"}
        BY <3>1, <3>2, Ended
      <4> QED
        BY <3>1, <4>1
    <3>4. Orderly(u)
      <4> SUFFICES ASSUME NEW n \in 1 .. 3 PROVE Due(u, n)
        BY <3>3 DEF Orderly
      <4>1. n = 1 \/ n = 2 \/ n = 3
        OBVIOUS
      <4> QED
        BY <4>1, <3>3 DEF Due
    <3>5. u[Len(u)] = "return" /\ Head(u) = u[1]
      BY <3>3
    <3> QED
      BY <3>2, <3>3, <3>4, <3>5 DEF Opens, d
  <2>6. Opens(Append(<<"disassociate", "delete">>, "return"), ToSet(<<"disassociate", "delete">>))
    <3> DEFINE d == <<"disassociate", "delete">>
    <3>1. d \in Seq(CallNames) /\ Len(d) = 2 /\ d[1] = "disassociate" /\ d[2] = "delete"
      BY DEF CallNames
    <3> HIDE DEF d
    <3>2. PICK u : u = Append(d, "return")
      OBVIOUS
    <3>3. u \in Seq(CallNames) /\ u # <<>> /\ Len(u) = 3 /\ ToSet(u) = ToSet(d) \cup {"return"} /\ u[1] = "disassociate" /\ u[2] = "delete" /\ u[3] = "return"
      <4>1. /\ u \in Seq(CallNames) /\ u # <<>> /\ Len(u) = Len(d) + 1
            /\ (\A n \in 1 .. Len(d) : u[n] = d[n]) /\ u[Len(d) + 1] = "return"
            /\ ToSet(u) = ToSet(d) \cup {"return"}
        BY <3>1, <3>2, Ended
      <4> QED
        BY <3>1, <4>1
    <3>4. Orderly(u)
      <4> SUFFICES ASSUME NEW n \in 1 .. 3 PROVE Due(u, n)
        BY <3>3 DEF Orderly
      <4>1. n = 1 \/ n = 2 \/ n = 3
        OBVIOUS
      <4> QED
        BY <4>1, <3>3 DEF Due
    <3>5. u[Len(u)] = "return" /\ Head(u) = u[1]
      BY <3>3
    <3> QED
      BY <3>2, <3>3, <3>4, <3>5 DEF Opens, d
  <2>4. Opens(Append(<<"delete", "gone">>, "return"), ToSet(<<"delete", "gone">>))
    <3> DEFINE d == <<"delete", "gone">>
    <3>1. d \in Seq(CallNames) /\ Len(d) = 2 /\ d[1] = "delete" /\ d[2] = "gone"
      BY DEF CallNames
    <3> HIDE DEF d
    <3>2. PICK u : u = Append(d, "return")
      OBVIOUS
    <3>3. u \in Seq(CallNames) /\ u # <<>> /\ Len(u) = 3 /\ ToSet(u) = ToSet(d) \cup {"return"} /\ u[1] = "delete" /\ u[2] = "gone" /\ u[3] = "return"
      <4>1. /\ u \in Seq(CallNames) /\ u # <<>> /\ Len(u) = Len(d) + 1
            /\ (\A n \in 1 .. Len(d) : u[n] = d[n]) /\ u[Len(d) + 1] = "return"
            /\ ToSet(u) = ToSet(d) \cup {"return"}
        BY <3>1, <3>2, Ended
      <4> QED
        BY <3>1, <4>1
    <3>4. Orderly(u)
      <4> SUFFICES ASSUME NEW n \in 1 .. 3 PROVE Due(u, n)
        BY <3>3 DEF Orderly
      <4>1. n = 1 \/ n = 2 \/ n = 3
        OBVIOUS
      <4> QED
        BY <4>1, <3>3 DEF Due
    <3>5. u[Len(u)] = "return" /\ Head(u) = u[1]
      BY <3>3
    <3> QED
      BY <3>2, <3>3, <3>4, <3>5 DEF Opens, d
  <2>5. Opens(Append(<<"disable", "deployed", "delete">>, "return"), ToSet(<<"disable", "deployed", "delete">>))
    <3> DEFINE d == <<"disable", "deployed", "delete">>
    <3>1. d \in Seq(CallNames) /\ Len(d) = 3 /\ d[1] = "disable" /\ d[2] = "deployed" /\ d[3] = "delete"
      BY DEF CallNames
    <3> HIDE DEF d
    <3>2. PICK u : u = Append(d, "return")
      OBVIOUS
    <3>3. u \in Seq(CallNames) /\ u # <<>> /\ Len(u) = 4 /\ ToSet(u) = ToSet(d) \cup {"return"} /\ u[1] = "disable" /\ u[2] = "deployed" /\ u[3] = "delete" /\ u[4] = "return"
      <4>1. /\ u \in Seq(CallNames) /\ u # <<>> /\ Len(u) = Len(d) + 1
            /\ (\A n \in 1 .. Len(d) : u[n] = d[n]) /\ u[Len(d) + 1] = "return"
            /\ ToSet(u) = ToSet(d) \cup {"return"}
        BY <3>1, <3>2, Ended
      <4> QED
        BY <3>1, <4>1
    <3>4. Orderly(u)
      <4> SUFFICES ASSUME NEW n \in 1 .. 4 PROVE Due(u, n)
        BY <3>3 DEF Orderly
      <4>1. n = 1 \/ n = 2 \/ n = 3 \/ n = 4
        OBVIOUS
      <4> QED
        BY <4>1, <3>3 DEF Due
    <3>5. u[Len(u)] = "return" /\ Head(u) = u[1]
      BY <3>3
    <3> QED
      BY <3>2, <3>3, <3>4, <3>5 DEF Opens, d
  <2> QED
    BY <2>1, <2>2, <2>3, <2>4, <2>5, <2>6
<1>7. Opens(Append(h.delete, "return"), ToSet(h.delete))
  BY <1>1, <1>4
<1> QED
  BY <1>1, <1>2, <1>3, <1>7

LEMMA OrderedBegin ==
    ASSUME Types, Ids, Begin
    PROVE  Ordered'
<1>1. todo' = todo /\ h' = h /\ todo # <<>> /\ Head(todo) \in Operations
  BY TypesBegin DEF Begin
<1>2. CASE /\ Head(todo) = "create" /\ it' = 0
           /\ calls' = IF h.by = "lookup" THEN <<"return">> ELSE <<"make">>
  <2>1. Orderly(calls') /\ calls' # <<>> /\ calls'[Len(calls')] \in {"make", "return"}
    BY <1>2, Openings DEF Opens
  <2> QED
    BY <1>1, <1>2, <2>1 DEF Ordered, Within, Doing, Left
<1>3. ASSUME Opens(calls', ToSet(h.update)), Head(todo) = "update" PROVE Ordered'
  BY <1>1, <1>3 DEF Opens, Ordered, Within, Doing, Left
<1>4. ASSUME Opens(calls', ToSet(h.delete)) \/ Opens(calls', {}), Head(todo) = "destroy" PROVE Ordered'
  BY <1>1, <1>4 DEF Opens, Ordered, Within, Doing, Left
<1>5. \/ Head(todo) = "create" /\ it' = 0 /\ calls' = IF h.by = "lookup" THEN <<"return">> ELSE <<"make">>
      \/ Head(todo) = "update" /\ calls' = Append(h.update, "return")
      \/ Head(todo) = "destroy" /\ (calls' = Append(h.delete, "return") \/ calls' = <<"return">>)
  <2>1. Append(<<>>, "return") = <<"return">>
    OBVIOUS
  <2> QED
    BY <2>1 DEF Begin
<1> QED
  BY <1>2, <1>3, <1>4, <1>5, Openings

LEMMA OrderedMake ==
    ASSUME Types, Stage, Ordered, Ids, Make
    PROVE  /\ Ordered' /\ Within("create") /\ calls # <<>> /\ Head(calls) = "make" /\ it = 0 /\ it' # 0 /\ h.by # "lookup"
           /\ Left' = (IF cloud' = cloud THEN ToSet(h.adopt) ELSE {}) \cup ToSet(h.after) \cup {"return"}
           /\ Opens(calls', Left' \ {"return"})
<1>1. calls # <<>> /\ Head(calls) = "make"
  BY DEF Make, Calling
<1>2. Within("create") /\ it = 0 /\ h.by # "lookup"
  <2>1. todo # <<>> /\ Head(todo) \in Operations
    BY <1>1 DEF Ordered, Stage
  <2>2. Head(calls) \in Left
    BY <1>1, Whose
  <2>3. "make" \notin ToSet(h.adopt) \cup ToSet(h.after) \cup ToSet(h.update) \cup ToSet(h.delete) \cup {"return"}
    <3>1. \A s \in {h.adopt, h.after, h.update} : ToSet(s) \subseteq Setting
      BY HandlerFits DEF Fits, Sequenced
    <3>2. "make" \notin ToSet(h.delete)
      BY HandlerFits DEF Fits, Sequenced, ToSet
    <3> QED
      BY <3>1, <3>2 DEF Setting
  <2>4. Within("create") /\ it = 0
    BY <2>1, <2>2, <2>3, <1>1 DEF Ordered, Operations, Within, Doing
  <2>5. h.by # "lookup"
    BY <2>4, <1>1 DEF Ordered
  <2> QED
    BY <2>4, <2>5
<1>3. ASSUME NEW S, Opens(calls', S), S \subseteq ToSet(h.adopt) \cup ToSet(h.after),
             h' = h, todo' = todo, it' # 0
      PROVE  Ordered' /\ Left' = S \cup {"return"}
  BY <1>2, <1>3 DEF Opens, Ordered, Within, Doing, Left
<1>r. \A f \in {ToSet(h.adopt) \cup ToSet(h.after), ToSet(h.after)} : "return" \notin f
  <2>1. \A s \in {h.adopt, h.after} : ToSet(s) \subseteq Setting
    BY HandlerFits DEF Fits, Sequenced
  <2> QED
    BY <2>1 DEF Setting
<1>4. CASE MakeNew
  <2>1. h' = h /\ todo' = todo /\ it' # 0 /\ cloud' # cloud
    BY <1>4, Grown
  <2>2. Opens(calls', ToSet(h.after))
    BY <1>4, Openings DEF MakeNew
  <2>3. Ordered' /\ Left' = ToSet(h.after) \cup {"return"}
    BY <2>1, <2>2, <1>3
  <2>4. ToSet(h.after) = Left' \ {"return"}
    BY <2>3, <1>r
  <2> QED
    BY <1>1, <1>2, <2>1, <2>2, <2>3, <2>4
<1>5. CASE MakeOld
  <2>1. h' = h /\ todo' = todo /\ it' # 0 /\ cloud' = cloud /\ calls' = (h.adopt \o h.after) \o <<"return">>
    BY <1>5, Adopted
  <2>2. Opens(calls', ToSet(h.adopt) \cup ToSet(h.after))
    BY <1>5, <2>1, Adopted, Openings
  <2>3. Ordered' /\ Left' = ToSet(h.adopt) \cup ToSet(h.after) \cup {"return"}
    BY <2>1, <2>2, <1>3
  <2>4. ToSet(h.adopt) \cup ToSet(h.after) = Left' \ {"return"}
    BY <2>3, <1>r
  <2> QED
    BY <1>1, <1>2, <2>1, <2>2, <2>3, <2>4
<1> QED
  BY <1>4, <1>5, MakeEither

\* One call done, or one more of a loop.
LEMMA OrderedOnward ==
    ASSUME Types, Stage, Ordered, calls # <<>>, calls' \in {calls, Tail(calls)}, kind' = kind, todo' = todo, it' = it
    PROVE  /\ Ordered' /\ Left' \subseteq Left
           /\ \A op : Within(op)' => Within(op)
           /\ calls' # <<>> => Head(calls') \in Left' /\ Head(calls') \in CallNames
<1>1. h' = h
  BY DEF h
<1>2. CASE calls' = calls
  BY <1>2, OrderedSame, Whose DEF Left, Within, Doing
<1>3. CASE calls' = Tail(calls)
  <2>1. /\ Tail(calls) \in Seq(CallNames) /\ Orderly(Tail(calls))
        /\ ToSet(calls) = {Head(calls)} \cup ToSet(Tail(calls))
        /\ Head(calls) \in {"make", "return"} <=> Tail(calls) = <<>>
        /\ Tail(calls) # <<>> =>
              Tail(calls)[Len(Tail(calls))] \in {"make", "return"} /\ Head(Tail(calls)) \in ToSet(Tail(calls))
    BY Advance DEF Types, Ordered
  <2>2. Left' \subseteq Left
    BY <1>3, <2>1 DEF Left
  <2>3. \A op : Within(op)' => Within(op)
    BY DEF Within, Doing
  <2>5. ASSUME it = 0, Within("create") PROVE Tail(calls) = <<>>
    <3>1. calls = <<"return">> \/ calls = <<"make">>
      BY <2>5 DEF Ordered
    <3>2. Tail(<<"return">>) = <<>> /\ Tail(<<"make">>) = <<>>
      OBVIOUS
    <3> QED
      BY <3>1, <3>2
  <2>4. Ordered'
    <3>1. Orderly(calls')
      <4>1. PICK t : t = Tail(calls)
        OBVIOUS
      <4>2. calls' = t /\ Orderly(t)
        BY <4>1, <1>3, <2>1
      <4> QED
        BY <4>2
    <3>2. (calls # <<>> => Head(todo) \in Operations /\ calls[Len(calls)] \in {"make", "return"})'
      BY <1>3, <2>1 DEF Ordered
    <3>3. (Within("create") =>
              IF it = 0 THEN calls = IF h.by = "lookup" THEN <<"return">> ELSE <<"make">>
              ELSE Left \subseteq ToSet(h.adopt) \cup ToSet(h.after) \cup {"return"})'
      <4> SUFFICES ASSUME Within("create")'
                   PROVE  it # 0 /\ Left' \subseteq ToSet(h.adopt) \cup ToSet(h.after) \cup {"return"}
        BY <1>1
      <4>1. Within("create") /\ calls' # <<>>
        BY <2>3 DEF Within
      <4>2. it # 0
        BY <4>1, <2>5, <1>3
      <4> QED
        BY <4>1, <4>2, <2>2 DEF Ordered
    <3>4. (Within("update") => Left \subseteq ToSet(h.update) \cup {"return"})'
      BY <1>1, <2>2, <2>3 DEF Ordered
    <3>5. (Within("destroy") => Left \subseteq ToSet(h.delete) \cup {"return"})'
      BY <1>1, <2>2, <2>3 DEF Ordered
    <3> QED
      BY <3>1, <3>2, <3>3, <3>4, <3>5 DEF Ordered
  <2>6. calls' # <<>> => Head(calls') \in Left' /\ Head(calls') \in CallNames
    BY <1>3, <2>1 DEF Left
  <2> QED
    BY <2>2, <2>3, <2>4, <2>6
<1> QED
  BY <1>2, <1>3

----------------------------------------------------------------------------
(* What ids lead to.                                                       *)

\* What a create takes for its own in a later state, still is that.
LEMMA ClaimsKept ==
    ASSUME Types, Shrink
    PROVE  \A c : \A i \in Ours' : i \in Claims(c) => i \in Claims(c)'
<1> SUFFICES ASSUME NEW c, NEW i \in Ours', i \in Claims(c) PROVE i \in Claims(c)'
  OBVIOUS
<1>1. h' = h /\ i \in Objects' /\ (i \in Marked => i \in Marked') /\ cloud'[i].set.name = cloud[i].set.name
      /\ (h.by # "tag" => cloud'[i].set.imm = cloud[i].set.imm)
  BY Shrunk DEF Ours
<1>2. i \in SameName(c.name) => i \in SameName(c.name)'
  BY <1>1, ShrunkNames
<1>3. CASE h.by \in ByMark
  BY <1>1, <1>3 DEF Claims, ByMark
<1>4. CASE h.by \in ByName
  BY <1>1, <1>2, <1>4 DEF Claims, ByName
<1>5. CASE h.by = "token"
  <2>1. \A f \in {"name", "imm"} : cloud[i].set[f] = c[f]
    BY <1>5 DEF Claims
  <2>2. cloud[i].set["name"] = c["name"] /\ cloud[i].set["imm"] = c["imm"]
    BY <2>1
  <2>3. cloud'[i].set["name"] = cloud[i].set["name"] /\ cloud'[i].set["imm"] = cloud[i].set["imm"]
    BY <1>1, <1>5
  <2>4. i \in Marked
    BY <1>5 DEF Claims
  <2> QED
    BY <1>1, <1>5, <2>2, <2>3, <2>4 DEF Claims
<1>6. CASE h.by = "lookup"
  BY <1>6 DEF Claims
<1> QED
  BY <1>3, <1>4, <1>5, <1>6, HandlerFits DEF Fits, Shaped

LEMMA ConflictingIs == Conflicting = Claims(want)
BY DEF Conflicting, Claims

LEMMA LeadingKept ==
    ASSUME Types, Ids, Shrink \/ Lapse \/ MakeNew
    PROVE  \A id : Leading(id) => Leading(id)'
<1> SUFFICES ASSUME NEW id, Leading(id), id # 0
             PROVE  id \in DOMAIN cloud' /\ (cloud'[id].up # "gone" => cloud'[id].ours)
  BY DEF Leading, Exists
<1>1. id \in DOMAIN cloud /\ (cloud[id].up # "gone" => cloud[id].ours)
  BY DEF Leading, Exists
<1>2. CASE Shrink \/ Lapse
  BY <1>1, <1>2, Waning DEF Wane
<1>3. CASE MakeNew
  BY <1>1, <1>3, Grown
<1> QED
  BY <1>2, <1>3

\* The rows' ids.
RowIds ==
    /\ Leading(row.id) /\ Leading(comp.id) /\ Leading(old.id)
    /\ \A r \in {row, comp, old} :
        /\ r.st = "created" => (h.by = "lookup" <=> r.id = 0)
        /\ r.st = "none" => r.id = 0
\* The object at work.
ItsIds ==
    /\ Creating \/ Within("update") \/ Doing("persist") \/ Within("destroy") => Leading(it)
    /\ Creating \/ (Doing("persist") /\ h.by # "lookup") \/ Within("update") => it # 0
    /\ Wrote /\ h.by = "lookup" => it = 0
    /\ Creating => h.by # "lookup"
    /\ Within("update") \/ (Doing("persist") /\ row.st = "created") =>
          IF h.by = "name" THEN Here => it \in Held(row) ELSE it = row.id
    /\ Creating \/ Wrote => (it \in Ours => it \in Conflicting)
LEMMA IdsParts == Ids <=> RowIds /\ ItsIds
BY DEF Ids, RowIds, ItsIds

LEMMA RowIdsKept ==
    ASSUME Types, Ids, Shrink \/ Lapse \/ MakeNew, {row', comp', old'} \subseteq {row, comp, old, NoRow}
    PROVE  RowIds'
<1>1. h' = h
  BY Shrunk, Grown
<1>2. \A r \in {row, comp, old, NoRow} :
        /\ Leading(r.id)
        /\ r.st = "created" => (h.by = "lookup" <=> r.id = 0)
        /\ r.st = "none" => r.id = 0
  BY DEF Ids, NoRow, Leading
<1>3. \A r \in {row', comp', old'} :
        /\ Leading(r.id)'
        /\ r.st = "created" => (h.by = "lookup" <=> r.id = 0)
        /\ r.st = "none" => r.id = 0
  BY <1>2, LeadingKept
<1>4. Leading(row.id)' /\ Leading(comp.id)' /\ Leading(old.id)'
  BY <1>3 DEF Leading, Exists
<1>5. \A r \in {row', comp', old'} :
        /\ r.st = "created" => (h.by = "lookup" <=> r.id = 0)
        /\ r.st = "none" => r.id = 0
  BY <1>3
<1> QED
  BY <1>1, <1>4, <1>5 DEF RowIds

LEMMA ItsIdsNone ==
    ASSUME calls' = <<>>, ~Doing("persist")'
    PROVE  ItsIds'
BY DEF ItsIds, Creating, Within, Wrote

\* A step within an operation, or beside it.
LEMMA IdsOnward ==
    ASSUME Types, Ids, Shrink, row' = row, comp' = comp, old' = old, want' = want, todo' = todo, it' = it,
           \A op : Within(op)' => Within(op)
    PROVE  Ids'
<1>1. h' = h
  BY Shrunk
<1>2. RowIds'
  BY RowIdsKept
<1>3. /\ Creating' => Creating
      /\ Within("update")' => Within("update")
      /\ Within("destroy")' => Within("destroy")
      /\ Doing("persist")' = Doing("persist")
      /\ Wrote' => Wrote
  BY DEF Creating, Doing, Wrote
<1>4. Leading(it) => Leading(it)'
  <2>1. PICK id : id = it
    OBVIOUS
  <2>2. Leading(it) => Leading(id)
    BY <2>1
  <2>3. Leading(id)' => Leading(it)'
    BY <2>1 DEF Leading, Exists
  <2> QED
    BY <2>2, <2>3, LeadingKept
<1>5. (Here => it \in Held(row)) => (Here => it \in Held(row))'
  <2>1. it \in Objects' /\ it \in Held(row) => it \in Held(row)'
    BY Shrunk_row
  <2>2. Here' => it \in Objects' /\ Here
    BY Shrunk DEF Here
  <2> QED
    BY <2>1, <2>2
<1>6. (it \in Ours => it \in Conflicting) => (it \in Ours => it \in Conflicting)'
  <2> SUFFICES ASSUME it \in Ours => it \in Conflicting, it' \in Ours' PROVE it' \in Conflicting'
    OBVIOUS
  <2>1. it \in Ours' /\ it \in Ours
    BY Shrunk
  <2>2. PICK w : w = want
    OBVIOUS
  <2>3. it \in Claims(w)
    BY <2>1, <2>2, ConflictingIs
  <2>4. it \in Claims(w)'
    BY <2>1, <2>3, ClaimsKept
  <2>5. Claims(w)' = Conflicting'
    BY <2>2 DEF Claims, Conflicting
  <2> QED
    BY <2>4, <2>5
<1>7. ItsIds'
  <2>1. (Creating \/ Within("update") \/ Doing("persist") \/ Within("destroy") => Leading(it))'
    BY <1>3, <1>4 DEF Ids
  <2>2. (Creating \/ (Doing("persist") /\ h.by # "lookup") \/ Within("update") => it # 0)'
    BY <1>1, <1>3 DEF Ids
  <2>3. (Wrote /\ h.by = "lookup" => it = 0)' /\ (Creating => h.by # "lookup")'
    BY <1>1, <1>3 DEF Ids
  <2>4. (Within("update") \/ (Doing("persist") /\ row.st = "created") =>
          IF h.by = "name" THEN Here => it \in Held(row) ELSE it = row.id)'
    <3> SUFFICES ASSUME Within("update")' \/ (Doing("persist")' /\ row'.st = "created")
                 PROVE  IF h.by = "name" THEN Here' => it' \in Held(row)' ELSE it' = row'.id
      BY <1>1
    <3>1. IF h.by = "name" THEN Here => it \in Held(row) ELSE it = row.id
      BY <1>3 DEF Ids
    <3> QED
      BY <3>1, <1>5
  <2>5. (Creating \/ Wrote => (it \in Ours => it \in Conflicting))'
    BY <1>3, <1>6 DEF Ids
  <2> QED
    BY <2>1, <2>2, <2>3, <2>4, <2>5 DEF ItsIds
<1> QED
  BY <1>2, <1>7, IdsParts DEF Ids, RowIds, ItsIds

LEMMA IdentifiedGrown ==
    ASSUME Types, Stage, Ordered, Ids, Identified, MakeNew
    PROVE  Identified'
<1>1. /\ h' = h /\ h.by # "lookup" /\ Conflicting = {}
      /\ Objects' = Objects \cup {it'} /\ it' \notin DOMAIN cloud
      /\ Marked' = Marked \cup IF h.by \in ByMark \cup {"token"} THEN {it'} ELSE {}
      /\ cloud'[it'] = Made
      /\ \A i \in Objects : cloud'[i] = cloud[i] /\ i # it'
  <2>1. h.by # "lookup"
    BY OrderedMake, MakeEither
  <2> QED
    BY <2>1, Grown DEF MakeNew, Objects
<1>2. Made.ours = TRUE /\ Made.mark = (h.by \in ByMark \cup {"token"})
  BY MadeIs
<1>3. /\ h.by \in ByName \cup {"token"} => Made.set.name = want.name
      /\ h.by = "token" => Made.set.imm = want.imm
  <2>1. /\ h.by \in ByName \cup {"token"} => "name" \in h.stamps
        /\ h.by = "token" => "imm" \in h.stamps
    BY HandlerFits DEF Fits, Shaped
  <2>2. \A f \in h.stamps : Made.set[f] = want[f]
    BY MadeIs
  <2>3. /\ h.by \in ByName \cup {"token"} => Made.set["name"] = want["name"]
        /\ h.by = "token" => Made.set["imm"] = want["imm"]
    BY <2>1, <2>2
  <2> QED
    BY <2>3
<1>4. Marked \subseteq Objects
  BY DEF Marked
<1>5. (h.by \in ByMark => \A i \in Objects : cloud[i].mark <=> cloud[i].ours)'
  BY <1>1, <1>2 DEF Identified
<1>6. (h.by \in ByName \cup {"reference and name", "token"} => \A i \in Objects : cloud[i].ours)'
  BY <1>1, <1>2 DEF Identified
<1>7. (h.by \in ByMark => \A i, j \in Marked : i = j)'
  BY <1>1 DEF Conflicting, Claims, ByMark
<1>8. (h.by \in ByName => \A i, j \in Objects : cloud[i].set.name = cloud[j].set.name => i = j)'
  <2> SUFFICES ASSUME h.by \in ByName, NEW i \in Objects', NEW j \in Objects', cloud'[i].set.name = cloud'[j].set.name
               PROVE  i = j
    BY <1>1 DEF ByName
  <2>1. \A k \in Objects : cloud[k].set.name # want.name
    BY <1>1 DEF Conflicting, Claims, SameName, ByName
  <2>2. cloud'[it'].set.name = want.name
    BY <1>1, <1>3
  <2>3. \A k \in Objects : cloud'[k].set.name = cloud[k].set.name
    BY <1>1
  <2>4. \A k, l \in Objects : cloud[k].set.name = cloud[l].set.name => k = l
    BY DEF Identified
  <2>5. (i \in Objects \/ i = it') /\ (j \in Objects \/ j = it')
    BY <1>1
  <2> QED
    BY <2>1, <2>2, <2>3, <2>4, <2>5
<1>9. (h.by = "token" => \A i, j \in Marked :
          cloud[i].set.name = cloud[j].set.name /\ cloud[i].set.imm = cloud[j].set.imm => i = j)'
  <2> SUFFICES ASSUME h.by = "token", NEW i \in Marked', NEW j \in Marked', cloud'[i].set.name = cloud'[j].set.name,
                      cloud'[i].set.imm = cloud'[j].set.imm
               PROVE  i = j
    BY <1>1
  <2>1. \A k \in Marked : ~(cloud[k].set.name = want.name /\ cloud[k].set.imm = want.imm)
    <3> SUFFICES ASSUME NEW k \in Marked, cloud[k].set.name = want.name, cloud[k].set.imm = want.imm PROVE FALSE
      OBVIOUS
    <3>1. cloud[k].set["name"] = want["name"] /\ cloud[k].set["imm"] = want["imm"]
      OBVIOUS
    <3> QED
      BY <1>1, <3>1 DEF Conflicting, Claims
  <2>2. \A k \in Marked' : k = it' \/ k \in Marked
    BY <1>1
  <2> QED
    BY <1>1, <1>3, <1>4, <2>1, <2>2 DEF Identified
<1>10. h'.by # "lookup"
  BY <1>1
<1> QED
  BY <1>5, <1>6, <1>7, <1>8, <1>9, <1>10 DEF Identified

LEMMA IdsMake ==
    ASSUME Types, Stage, Ordered, Ids, Identified, Make
    PROVE  Ids'
<1>1. /\ h.by # "lookup" /\ it' # 0 /\ Within("create")
  BY OrderedMake
<1>2. /\ row' = row /\ comp' = comp /\ old' = old /\ todo' = todo /\ h' = h /\ want' = want /\ kind' = kind
      /\ Shrink \/ MakeNew
  BY MakeEither, Grown, Adopted
<1>3. RowIds'
  BY <1>2, RowIdsKept
<1>4. Leading(it)' /\ it' \in Conflicting'
  <2>1. CASE MakeNew
    <3>1. /\ it' \in Objects' /\ cloud'[it'] = Made /\ it' \in Ours'
          /\ (h.by \in ByMark \cup {"token"} => it' \in Marked') /\ it' \in DOMAIN cloud'
      BY <2>1, Grown
    <3>2. Made.ours = TRUE
      BY MadeIs
    <3>3. it' \in Conflicting'
      <4>1. CASE h.by \in ByMark
        BY <1>2, <3>1, <4>1 DEF Conflicting, Claims, ByMark
      <4>2. CASE h.by \in ByName
        <5>1. Made.set["name"] = want["name"]
          BY <4>2, MadeIs, HandlerFits DEF Fits, Shaped
        <5>2. it' \in SameName(want.name)'
          BY <1>2, <3>1, <5>1 DEF SameName
        <5> QED
          BY <1>2, <4>2, <5>2 DEF Conflicting, Claims, SameName, ByName
      <4>3. CASE h.by = "token"
        <5>1. Made.set["name"] = want["name"] /\ Made.set["imm"] = want["imm"]
          BY <4>3, MadeIs, HandlerFits DEF Fits, Shaped
        <5> QED
          BY <1>2, <3>1, <4>3, <5>1 DEF Conflicting, Claims
      <4> QED
        BY <1>1, <4>1, <4>2, <4>3, HandlerFits DEF Fits, Shaped
    <3> QED
      BY <3>1, <3>2, <3>3 DEF Leading
  <2>2. CASE MakeOld
    <3>1. it' \in Conflicting /\ it' \in Objects /\ it' \in DOMAIN cloud /\ cloud' = cloud
      BY <2>2, Adopted
    <3>2. it' \in Conflicting'
      BY <1>2, <3>1 DEF Conflicting, Claims, Marked, SameName, Objects, Exists, Live, MakeOld, Calling
    <3>3. cloud[it'].ours
      <4>1. CASE h.by \in ByMark \cup {"token"}
        <5>1. it' \in Marked
          BY <3>1, <4>1 DEF Conflicting, Claims, ByMark
        <5> QED
          BY <4>1, <5>1, <3>1 DEF Identified, Marked
      <4>2. CASE h.by \in ByName
        BY <4>2, <3>1 DEF Identified
      <4> QED
        BY <1>1, <4>1, <4>2, HandlerFits DEF Fits, Shaped
    <3> QED
      BY <3>1, <3>2, <3>3 DEF Leading
  <2> QED
    BY <1>2, <2>1, <2>2, MakeEither
<1>5. Head(todo) = "create" /\ ~Within("update")' /\ ~Doing("persist")' /\ ~Within("destroy")'
  BY <1>1, <1>2 DEF Within, Doing
<1>6. ItsIds'
  BY <1>1, <1>2, <1>4, <1>5 DEF ItsIds, Wrote
<1> QED
  BY <1>3, <1>6, IdsParts DEF Ids, RowIds, ItsIds

LEMMA IdsBegin ==
    ASSUME Types, Stage, Identified, Ids, Begin
    PROVE  Ids'
<1>1. /\ row' = row /\ comp' = comp /\ old' = old /\ todo' = todo /\ h' = h /\ want' = want /\ cloud' = cloud
      /\ kind' = kind /\ Shrink /\ todo # <<>>
  BY TypesBegin DEF Begin
<1>2. RowIds'
  BY <1>1, RowIdsKept
<1>3. /\ h.by = "tag" => \A i \in Marked : Leading(i)
      /\ \A i \in Held(row) \cup Held(old) : Leading(i)
  <2>1. h.by = "tag" => \A i \in Marked : Leading(i)
    <3> SUFFICES ASSUME h.by = "tag", NEW i \in Marked PROVE Leading(i)
      OBVIOUS
    <3>1. i \in Objects /\ cloud[i].mark
      BY DEF Marked
    <3>2. i \in DOMAIN cloud
      BY <3>1 DEF Objects
    <3>3. cloud[i].ours
      BY <3>1 DEF Identified, ByMark
    <3> QED
      BY <3>2, <3>3 DEF Leading
  <2>2. \A i \in Held(row) \cup Held(old) : Leading(i)
    <3>1. CASE h.by = "name"
      BY <3>1 DEF Held, SameName, Objects, Leading, Identified, ByName
    <3>2. CASE h.by # "name"
      BY <3>2 DEF Held, Ids
    <3> QED
      BY <3>1, <3>2
  <2> QED
    BY <2>1, <2>2
<1>c. ~Creating' /\ ~Wrote' /\ ~Doing("persist")'
  <2>1. Head(todo) \in {"create", "update", "destroy"}
    BY DEF Begin, Operations
  <2>2. Head(todo) = "create" => it' = 0
    BY DEF Begin
  <2> QED
    BY <1>1, <2>1, <2>2 DEF Creating, Within, Wrote, Doing
<1>u. ASSUME Within("update")'
      PROVE  /\ it' \in Held(row) \cap Objects /\ Leading(it)' /\ it' # 0
             /\ IF h.by = "name" THEN it' \in Held(row)' ELSE it' = row'.id
  <2>1. Head(todo) = "update" /\ it' \in Target(row)
    BY <1>1, <1>u DEF Begin, Within, Doing
  <2>2. row.st = "created"
    BY <1>1, <2>1, Stations DEF Stage, At, Shape
  <2>3. h.by = "tag" => row.id # 0
    BY <2>2 DEF Ids
  <2>4. it' \in Held(row) \cap Objects
    <3>1. Target(row) = Held(row) \cap Objects
      BY <2>2, <2>3, Targets
    <3> QED
      BY <2>1, <3>1
  <2>5. Leading(it') /\ it' # 0
    <3>1. Objects \subseteq 1 .. Len(cloud)
      BY DEF Objects, Types
    <3> QED
      BY <1>3, <2>4, <3>1
  <2>6. Held(row)' = Held(row)
    BY <1>1 DEF Held, SameName, Objects, Exists
  <2>7. IF h.by = "name" THEN it' \in Held(row)' ELSE it' = row'.id
    BY <1>1, <2>4, <2>6 DEF Held
  <2>8. Leading(it)'
    BY <1>1, <2>5 DEF Leading, Exists
  <2> QED
    BY <2>4, <2>5, <2>7, <2>8
<1>d. ASSUME Within("destroy")' PROVE Leading(it)'
  <2>1. it' \in Target(old) \/ it' = 0
    BY <1>1, <1>d DEF Begin, Within, Doing
  <2>2. Target(old) \subseteq (IF h.by = "tag" THEN Marked ELSE {}) \cup Held(old)
    BY Targets
  <2>3. Leading(it')
    BY <1>3, <2>1, <2>2 DEF Leading
  <2> QED
    BY <1>1, <2>3 DEF Leading, Exists
<1>4. ItsIds'
  <2>1. (Creating \/ Within("update") \/ Doing("persist") \/ Within("destroy") => Leading(it))'
    BY <1>c, <1>u, <1>d
  <2>2. (Creating \/ (Doing("persist") /\ h.by # "lookup") \/ Within("update") => it # 0)'
    BY <1>c, <1>u
  <2>3. (Within("update") \/ (Doing("persist") /\ row.st = "created") =>
          IF h.by = "name" THEN Here => it \in Held(row) ELSE it = row.id)'
    BY <1>c, <1>u, <1>1
  <2> QED
    BY <1>c, <2>1, <2>2, <2>3 DEF ItsIds
<1> QED
  BY <1>2, <1>4, IdsParts DEF Ids, RowIds, ItsIds

LEMMA IdsReturn ==
    ASSUME Types, Stage, Ordered, Identified, Ids, Return
    PROVE  Ids'
<1>1. /\ row' = row /\ comp' = comp /\ old' = old /\ todo' = Tail(todo) /\ h' = h /\ want' = want /\ cloud' = cloud
      /\ kind' = kind /\ Shrink /\ it' = it /\ calls' = <<>> /\ calls # <<>> /\ Head(calls) = "return" /\ todo # <<>>
  BY TypesDelete DEF Return, Calling, Stage
<1>2. RowIds'
  BY <1>1, RowIdsKept
<1>s. /\ Leading(it)' = Leading(it) /\ Here' = Here /\ Held(row)' = Held(row) /\ Ours' = Ours /\ Conflicting' = Conflicting
  BY <1>1 DEF Leading, Here, Held, SameName, Ours, Conflicting, Claims, Marked, Objects, Exists, Live
<1>3. CASE Doing("persist")'
  <2>1. Within("create") \/ Within("update")
    <3>1. Head(todo) \in {"create", "update", "destroy"}
      BY <1>1 DEF Ordered, Operations
    <3>2. Head(todo) # "destroy"
      BY <1>1, <1>3, Stations DEF Doing, Shape
    <3> QED
      BY <1>1, <3>1, <3>2 DEF Within, Doing
  <2>2. CASE Within("update")
    <3>1. row.st = "created"
      BY <1>1, <2>2, Stations DEF Stage, At, Shape, Within, Doing
    <3>2. Leading(it) /\ it # 0 /\ IF h.by = "name" THEN Here => it \in Held(row) ELSE it = row.id
      BY <2>2 DEF Ids
    <3>3. ~Wrote' /\ ~Creating' /\ ~Within("update")' /\ ~Within("destroy")'
      BY <1>1, <3>1 DEF Wrote, Creating, Within
    <3>4. ItsIds'
      BY <1>1, <1>s, <3>2, <3>3 DEF ItsIds
    <3> QED
      BY <1>2, <3>4, IdsParts DEF Ids, RowIds, ItsIds
  <2>3. CASE Within("create")
    <3>1. row.st = "creating"
      <4>1. row = Row("creating", want, 0)
        BY <1>1, <2>3, Stations DEF Stage, At, Shape, Within, Doing
      <4> QED
        BY <4>1 DEF Row
    <3>2. it = 0 => h.by = "lookup"
      <4> SUFFICES ASSUME it = 0, h.by # "lookup" PROVE FALSE
        OBVIOUS
      <4>1. calls = <<"make">>
        BY <2>3 DEF Ordered
      <4> QED
        BY <1>1, <4>1
    <3>3. Leading(it) /\ (it # 0 => h.by # "lookup") /\ (it \in Ours => it \in Conflicting)
      <4>1. CASE it = 0
        <5>1. 0 \notin Ours
          BY DEF Ours, Objects, Types
        <5> QED
          BY <4>1, <5>1 DEF Leading
      <4>2. CASE it # 0
        <5>1. Creating
          BY <2>3, <4>2 DEF Creating
        <5> QED
          BY <5>1 DEF Ids
      <4> QED
        BY <4>1, <4>2
    <3>4. ~Creating' /\ ~Within("update")' /\ ~Within("destroy")'
      BY <1>1, <3>1 DEF Wrote, Creating, Within
    <3>5. ItsIds'
      BY <1>1, <1>s, <3>1, <3>2, <3>3, <3>4 DEF ItsIds
    <3> QED
      BY <1>2, <3>5, IdsParts DEF Ids, RowIds, ItsIds
  <2> QED
    BY <2>1, <2>2, <2>3
<1>4. CASE ~Doing("persist")'
  BY <1>1, <1>2, <1>4, ItsIdsNone, IdsParts DEF Ids, RowIds, ItsIds
<1> QED
  BY <1>3, <1>4

LEMMA IdsRow ==
    ASSUME Types, Stage, Ordered, Identified, Ids, RowStep
    PROVE  Ids'
<1>1. cloud' = cloud /\ kind' = kind /\ want' = want /\ h' = h /\ calls' = calls /\ Shrink
  BY TypesRow
<1>2. calls' = <<>> /\ ~Doing("persist")'
  <2>1. CASE Plan
    BY <2>1, PlanShape DEF Shape, Doing, Stage
  <2>2. CASE CopyToCompanion \/ WriteAhead \/ Persist \/ Forget \/ DropCompanion
    BY <1>1, <2>2, Quiet, Stations DEF CopyToCompanion, WriteAhead, Persist, Forget, DropCompanion, Written, Shape, Doing
  <2> QED
    BY <2>1, <2>2 DEF RowStep
<1>3. ItsIds'
  BY <1>2, ItsIdsNone
<1>4. RowIds'
  <2>1. CASE Plan
    BY <2>1, <1>1, PlanShape, RowIdsKept
  <2>2. CASE CopyToCompanion \/ Forget \/ DropCompanion
    BY <2>2, <1>1, RowIdsKept DEF CopyToCompanion, Forget, DropCompanion, Written
  <2>3. CASE WriteAhead
    <3>1. row' = Row("creating", want, 0) /\ comp' = comp /\ old' \in {old, NoRow}
      BY <2>3 DEF WriteAhead, Written
    <3>2. row'.st = "creating" /\ row'.id = 0
      BY <3>1 DEF Row
    <3>3. \A r \in {comp, old, NoRow} : /\ Leading(r.id)
                                        /\ r.st = "created" => (h.by = "lookup" <=> r.id = 0)
                                        /\ r.st = "none" => r.id = 0
      BY DEF Ids, Leading, NoRow
    <3>4. \A id : Leading(id) => Leading(id)'
      BY <1>1, LeadingKept
    <3>5. Leading(row.id)' /\ Leading(comp.id)' /\ Leading(old.id)'
      BY <1>1, <3>1, <3>2, <3>3 DEF Leading, Exists
    <3> QED
      BY <1>1, <3>1, <3>2, <3>3, <3>5 DEF RowIds
  <2>4. CASE Persist
    <3>1. row' = Row("created", want, it) /\ comp' = comp /\ old' \in {old, NoRow} /\ Doing("persist")
      BY <2>4 DEF Persist, Written, Doing
    <3>2. row'.st = "created" /\ row'.id = it
      BY <3>1 DEF Row
    <3>3. \A r \in {comp, old, NoRow} : /\ Leading(r.id)
                                        /\ r.st = "created" => (h.by = "lookup" <=> r.id = 0)
                                        /\ r.st = "none" => r.id = 0
      BY DEF Ids, Leading, NoRow
    <3>4. Leading(it)
      BY <3>1 DEF Ids
    <3>5. Leading(row.id)' /\ Leading(comp.id)' /\ Leading(old.id)'
      BY <1>1, <3>1, <3>2, <3>3, <3>4 DEF Leading, Exists
    <3>6. h.by = "lookup" <=> it = 0
      <4>1. h.by # "lookup" => it # 0
        BY <3>1 DEF Ids
      <4>2. row.st \in {"creating", "created"}
        <5>1. row.st \in {"none", "creating", "created"}
          BY DEF Types, Rows
        <5>2. row.st # "none"
          BY <3>1, Stations DEF Stage, At, Shape, Doing
        <5> QED
          BY <5>1, <5>2
      <4>3. h.by = "lookup" /\ row.st = "creating" => it = 0
        BY <3>1 DEF Ids, Wrote
      <4>4. h.by = "lookup" /\ row.st = "created" => it = 0
        <5>1. row.st = "created" /\ h.by = "lookup" => row.id = 0
          BY DEF Ids
        <5>2. row.st = "created" /\ h.by # "name" => it = row.id
          BY <3>1 DEF Ids
        <5> QED
          BY <5>1, <5>2
      <4> QED
        BY <4>1, <4>2, <4>3, <4>4
    <3> QED
      BY <1>1, <3>1, <3>2, <3>3, <3>5, <3>6 DEF RowIds
  <2> QED
    BY <2>1, <2>2, <2>3, <2>4 DEF RowStep
<1> QED
  BY <1>3, <1>4, IdsParts DEF Ids, RowIds, ItsIds

LEMMA IdsIdle ==
    ASSUME Types, Ids, Abandoned \/ Retry, calls # <<>> => Head(todo) \in Operations
    PROVE  Ids'
<1>1. /\ Shrink /\ {row', comp', old'} \subseteq {row, comp, old, NoRow}
  BY TypesAbandoned, TypesBegin DEF Abandoned
<1>2. calls' = <<>> /\ ~Doing("persist")'
  BY DEF Abandoned, Retry, Doing, Operations
<1> QED
  BY <1>1, <1>2, RowIdsKept, ItsIdsNone, IdsParts DEF Ids, RowIds, ItsIds

LEMMA IdsAround ==
    ASSUME Types, Stage, Ids, EditConfig \/ Refresh
    PROVE  Ids'
<1>1. /\ cloud' = cloud /\ h' = h /\ comp' = comp /\ old' = old /\ calls' = <<>> /\ todo' = <<>> /\ Shrink /\ calls = <<>>
  BY TypesAround DEF EditConfig, Refresh, Between, run, Stage
<1>2. ItsIds'
  BY <1>1, ItsIdsNone DEF Doing
<1>3. row' = row \/ row' = NoRow \/ (row'.st = row.st /\ row'.id = row.id)
  BY DEF EditConfig, Refresh, Types, Rows
<1>4. CASE row' = row \/ row' = NoRow
  BY <1>1, <1>2, <1>4, RowIdsKept, IdsParts DEF Ids, RowIds, ItsIds
<1>5. CASE row'.st = row.st /\ row'.id = row.id
  <2>1. Leading(row.id)' /\ Leading(comp.id)' /\ Leading(old.id)'
    BY <1>1, <1>5 DEF Leading, Exists, Ids
  <2>2. \A r \in {row', comp', old'} : /\ r.st = "created" => (h.by = "lookup" <=> r.id = 0)
                                       /\ r.st = "none" => r.id = 0
    BY <1>1, <1>5 DEF Ids
  <2>3. RowIds'
    BY <1>1, <2>1, <2>2 DEF RowIds
  <2> QED
    BY <1>2, <2>3, IdsParts DEF Ids, RowIds, ItsIds
<1> QED
  BY <1>3, <1>4, <1>5

\* What holds of every state, whatever is to be shown.
Base == Types /\ Stage /\ Ordered /\ Identified /\ Ids

LEMMA BaseRow ==
    ASSUME Base, RowStep
    PROVE  /\ Base' /\ Shrink /\ cloud' = cloud /\ kind' = kind /\ want' = want /\ h' = h /\ calls' = calls
           /\ calls = <<>>
<1>1. Types /\ Stage /\ Ordered /\ Identified /\ Ids
  BY DEF Base
<1>2. /\ Types' /\ Shrink /\ cloud' = cloud /\ kind' = kind /\ want' = want /\ h' = h /\ calls' = calls
  BY <1>1, TypesRow
<1>3. Stage'
  BY <1>1, StageRow
<1>4. calls = <<>>
  <2>1. CASE Plan
    BY <2>1, <1>1, PlanShape DEF Stage
  <2>2. CASE ~Plan
    BY <2>2, <1>1, Quiet DEF RowStep
  <2> QED BY <2>1, <2>2
<1>5. Ordered'
  BY <1>2, <1>4, OrderedNone
<1>6. Identified'
  BY <1>1, <1>2, IdentifiedShrunk
<1>7. Ids'
  BY <1>1, IdsRow
<1> QED BY <1>2, <1>3, <1>4, <1>5, <1>6, <1>7 DEF Base

LEMMA BaseAbandoned ==
    ASSUME Base, Abandoned
    PROVE  /\ Base' /\ Shrink /\ cloud' = cloud /\ kind' = kind /\ want' = want /\ h' = h /\ row' = row /\ comp' = comp
           /\ old' = NoRow /\ todo' = <<>> /\ calls' = <<>> /\ it' = 0
<1>1. Types /\ Stage /\ Ordered /\ Identified /\ Ids
  BY DEF Base
<1>2. Types' /\ Shrink /\ cloud' = cloud /\ kind' = kind /\ want' = want /\ h' = h /\ row' = row /\ comp' = comp
  BY <1>1, TypesAbandoned
<1>3. calls' = <<>> /\ todo' = <<>> /\ old' = NoRow /\ it' = 0
  BY DEF Abandoned
<1>4. Stage'
  BY <1>1, <1>2, <1>3, StageIdle
<1>5. Ordered'
  BY <1>3, OrderedNone
<1>6. Identified'
  BY <1>1, <1>2, IdentifiedShrunk
<1>7. calls # <<>> => Head(todo) \in Operations
  BY <1>1 DEF Ordered
<1>8. Ids'
  BY <1>1, <1>7, IdsIdle
<1> QED BY <1>2, <1>3, <1>4, <1>5, <1>6, <1>8 DEF Base

LEMMA BaseBegin ==
    ASSUME Base, Begin \/ Retry
    PROVE  /\ Base' /\ Shrink /\ cloud' = cloud /\ kind' = kind /\ want' = want /\ h' = h
           /\ row' = row /\ comp' = comp /\ old' = old /\ todo' = todo /\ lost \subseteq lost'
<1>1. Types /\ Stage /\ Ordered /\ Identified /\ Ids
  BY DEF Base
<1>2. /\ Types' /\ Shrink /\ cloud' = cloud /\ kind' = kind /\ want' = want /\ h' = h
      /\ row' = row /\ comp' = comp /\ old' = old /\ todo' = todo
  BY <1>1, TypesBegin
<1>l. lost \subseteq lost'
  BY DEF Begin, Retry
<1>3. calls' = <<>> \/ todo # <<>>
  BY DEF Begin, Retry
<1>4. Stage'
  BY <1>1, <1>2, <1>3, StageStays
<1>5. Ordered'
  <2>1. CASE Begin
    BY <2>1, <1>1, OrderedBegin
  <2>2. CASE Retry
    <3>1. calls' = <<>>
      BY <2>2 DEF Retry
    <3> QED BY <3>1, OrderedNone
  <2> QED BY <2>1, <2>2
<1>6. Identified'
  BY <1>1, <1>2, IdentifiedShrunk
<1>7. calls # <<>> => Head(todo) \in Operations
  BY <1>1 DEF Ordered
<1>8. Ids'
  <2>1. CASE Begin
    BY <2>1, <1>1, IdsBegin
  <2>2. CASE Retry
    BY <2>2, <1>1, <1>7, IdsIdle
  <2> QED BY <2>1, <2>2
<1> QED BY <1>2, <1>l, <1>4, <1>5, <1>6, <1>8 DEF Base

LEMMA BaseMake ==
    ASSUME Base, Make
    PROVE  /\ Base' /\ kind' = kind /\ want' = want /\ h' = h
           /\ row' = row /\ comp' = comp /\ old' = old /\ todo' = todo /\ saved' = saved /\ lost' = lost
           /\ Within("create") /\ calls # <<>> /\ Head(calls) = "make" /\ it = 0 /\ it' # 0 /\ h.by # "lookup"
           /\ Left' = (IF cloud' = cloud THEN ToSet(h.adopt) ELSE {}) \cup ToSet(h.after) \cup {"return"}
           /\ Opens(calls', Left' \ {"return"}) /\ Within("create")'
<1>1. Types /\ Stage /\ Ordered /\ Identified /\ Ids
  BY DEF Base
<1>2. /\ Ordered' /\ Within("create") /\ calls # <<>> /\ Head(calls) = "make" /\ it = 0 /\ it' # 0 /\ h.by # "lookup"
      /\ Left' = (IF cloud' = cloud THEN ToSet(h.adopt) ELSE {}) \cup ToSet(h.after) \cup {"return"}
      /\ Opens(calls', Left' \ {"return"})
  BY <1>1, OrderedMake
<1>3. /\ kind' = kind /\ want' = want /\ h' = h
      /\ row' = row /\ comp' = comp /\ old' = old /\ todo' = todo /\ saved' = saved /\ lost' = lost
      /\ Types' /\ Identified'
  <2>1. CASE MakeNew
    BY <2>1, <1>1, Grown, IdentifiedGrown
  <2>2. CASE MakeOld
    BY <2>2, <1>1, Adopted, IdentifiedShrunk
  <2> QED BY <2>1, <2>2, MakeEither
<1>4. Stage'
  <2>1. todo # <<>>
    BY <1>2 DEF Within, Doing
  <2> QED BY <2>1, <1>1, <1>3, StageStays
<1>5. Ids'
  BY <1>1, IdsMake
<1>6. Within("create")'
  BY <1>2, <1>3 DEF Within, Doing, Opens
<1> QED BY <1>1, <1>2, <1>3, <1>4, <1>5, <1>6 DEF Base

LEMMA BaseStroke ==
    ASSUME Base, StrokeStep
    PROVE  /\ Base' /\ Stroke /\ Shrink /\ kind' = kind /\ want' = want /\ h' = h
           /\ row' = row /\ comp' = comp /\ old' = old /\ todo' = todo /\ it' = it
           /\ saved' = saved /\ lost' = lost /\ astray' = astray /\ calls # <<>>
           /\ Left' \subseteq Left
           /\ \A op : Within(op)' => Within(op)
           /\ calls' \in {calls, Tail(calls)} /\ calls' # <<>> /\ Head(calls') \in Left' /\ Head(calls') \in CallNames
<1>1. Types /\ Stage /\ Ordered /\ Identified /\ Ids
  BY DEF Base
<1>2. Stroke
  BY <1>1, Strokes
<1>3. /\ Types' /\ Shrink /\ kind' = kind /\ want' = want /\ h' = h
      /\ row' = row /\ comp' = comp /\ old' = old /\ todo' = todo /\ it' = it
  BY <1>1, <1>2, TypesStroke
<1>4. saved' = saved /\ lost' = lost /\ astray' = astray /\ calls # <<>> /\ calls' \in {calls, Tail(calls)}
  BY <1>2 DEF Stroke
<1>5. /\ Ordered' /\ Left' \subseteq Left
      /\ \A op : Within(op)' => Within(op)
      /\ calls' # <<>> => Head(calls') \in Left' /\ Head(calls') \in CallNames
  BY <1>1, <1>3, <1>4, OrderedOnward
<1>6. todo # <<>>
  BY <1>1, <1>4 DEF Stage
<1>7. Stage'
  BY <1>1, <1>3, <1>6, StageStays
<1>8. Identified'
  BY <1>1, <1>3, IdentifiedShrunk
<1>9. Ids'
  BY <1>1, <1>3, <1>5, IdsOnward
<1>10. calls' # <<>>
  <2>1. Head(calls) \notin {"make", "return"}
    BY <1>2 DEF Stroke, Setting
  <2>2. /\ calls \in Seq(CallNames) /\ Orderly(calls) /\ calls[Len(calls)] \in {"make", "return"}
    BY <1>1, <1>4 DEF Types, Ordered
  <2>3. Tail(calls) # <<>>
    BY <2>1, <2>2, <1>4, Advance
  <2> QED BY <2>3, <1>4
<1> QED BY <1>2, <1>3, <1>4, <1>5, <1>7, <1>8, <1>9, <1>10 DEF Base

LEMMA BaseDelete ==
    ASSUME Base, Delete
    PROVE  /\ Base' /\ Shrink /\ kind' = kind /\ want' = want /\ h' = h
           /\ row' = row /\ comp' = comp /\ old' = old /\ todo' = todo /\ it' = it
           /\ saved' = saved /\ lost' = lost /\ astray' = astray /\ calls # <<>> /\ Head(calls) = "delete"
           /\ Left' \subseteq Left /\ Within("destroy")
           /\ \A op : Within(op)' => Within(op)
           /\ calls' = Tail(calls) /\ Head(calls') \in {"gone", "return"} /\ calls' # <<>> /\ Within("destroy")'
<1>1. Types /\ Stage /\ Ordered /\ Identified /\ Ids
  BY DEF Base
<1>3. /\ Types' /\ Shrink /\ kind' = kind /\ want' = want /\ h' = h
      /\ row' = row /\ comp' = comp /\ old' = old /\ it' = it
  BY <1>1, TypesDelete
<1>4. saved' = saved /\ lost' = lost /\ astray' = astray /\ calls # <<>> /\ Head(calls) = "delete" /\ calls' = Tail(calls) /\ todo' = todo
  BY DEF Delete, Calling, Done
<1>5. /\ Ordered' /\ Left' \subseteq Left
      /\ \A op : Within(op)' => Within(op)
  BY <1>1, <1>3, <1>4, OrderedOnward
<1>6. todo # <<>>
  BY <1>1, <1>4 DEF Stage
<1>7. Stage'
  BY <1>1, <1>3, <1>4, <1>6, StageStays
<1>8. Identified'
  BY <1>1, <1>3, IdentifiedShrunk
<1>9. Ids'
  BY <1>1, <1>3, <1>4, <1>5, IdsOnward
<1>10. Within("destroy")
  BY <1>1, <1>4, Whose
<1>11. /\ Head(Tail(calls)) \in {"gone", "return"} /\ Tail(calls) # <<>>
  <2>1. /\ calls \in Seq(CallNames) /\ Orderly(calls) /\ calls[Len(calls)] \in {"make", "return"}
    BY <1>1, <1>4 DEF Types, Ordered
  <2> QED BY <2>1, <1>4, Advance
<1>12. Within("destroy")'
  BY <1>10, <1>11, <1>4 DEF Within, Doing
<1> QED BY <1>3, <1>4, <1>5, <1>7, <1>8, <1>9, <1>10, <1>11, <1>12 DEF Base

LEMMA BaseReturn ==
    ASSUME Base, Return
    PROVE  /\ Base' /\ Shrink /\ kind' = kind /\ want' = want /\ h' = h /\ cloud' = cloud
           /\ row' = row /\ comp' = comp /\ old' = old /\ it' = it
           /\ saved' = saved /\ lost' = lost /\ astray' = astray /\ calls # <<>> /\ Head(calls) = "return"
           /\ calls' = <<>> /\ todo' = Tail(todo) /\ todo # <<>> /\ Head(todo) \in Operations /\ todo' # <<>>
<1>1. Types /\ Stage /\ Ordered /\ Identified /\ Ids
  BY DEF Base
<1>3. /\ Types' /\ Shrink /\ kind' = kind /\ want' = want /\ h' = h
      /\ row' = row /\ comp' = comp /\ old' = old /\ it' = it
  BY <1>1, TypesDelete
<1>4. /\ saved' = saved /\ lost' = lost /\ astray' = astray /\ calls # <<>> /\ Head(calls) = "return" /\ calls' = <<>>
      /\ todo' = Tail(todo) /\ cloud' = cloud
  BY DEF Return, Calling
<1>5. Ordered'
  BY <1>4, OrderedNone
<1>6. todo # <<>> /\ Head(todo) \in Operations
  BY <1>1, <1>4 DEF Stage, Ordered
<1>7. Stage'
  BY <1>1, StageReturn
<1>8. Identified'
  BY <1>1, <1>3, IdentifiedShrunk
<1>9. Ids'
  BY <1>1, IdsReturn
<1>10. Tail(todo) # <<>>
  BY <1>1, <1>6, Stations DEF Operations, Shape
<1> QED BY <1>3, <1>4, <1>5, <1>6, <1>7, <1>8, <1>9, <1>10 DEF Base

LEMMA BaseAround ==
    ASSUME Base, Background \/ EditConfig \/ EditByHand \/ Refresh
    PROVE  /\ Base' /\ Shrink /\ kind' = kind /\ h' = h /\ comp' = comp /\ UNCHANGED run
           /\ saved' = saved /\ lost' = lost
           /\ ~Background => todo = <<>> /\ calls = <<>>
<1>1. Types /\ Stage /\ Ordered /\ Identified /\ Ids
  BY DEF Base
<1>2. Types' /\ Shrink /\ kind' = kind /\ h' = h /\ comp' = comp /\ UNCHANGED run
  BY <1>1, TypesAround
<1>3. saved' = saved /\ lost' = lost
  BY DEF Background, EditConfig, EditByHand, Refresh, Between
<1>4. ~Background => todo = <<>> /\ calls = <<>>
  BY <1>1 DEF EditConfig, EditByHand, Refresh, Between, Stage
<1>5. Ordered'
  BY <1>1, <1>2, OrderedSame DEF run
<1>6. Identified'
  BY <1>1, <1>2, IdentifiedShrunk
<1>7. Stage' /\ Ids'
  <2>1. CASE Background
    <3>1. row' = row /\ comp' = comp /\ old' = old /\ want' = want /\ todo' = todo /\ it' = it /\ calls' = calls
      BY <2>1 DEF Background, rows, run
    <3>2. \A op : Within(op)' => Within(op)
      BY <3>1 DEF Within, Doing
    <3>3. calls' = <<>> \/ todo # <<>>
      BY <3>1, <1>1 DEF Stage
    <3> QED BY <3>1, <3>2, <3>3, <1>1, <1>2, StageStays, IdsOnward
  <2>2. CASE EditByHand
    <3>1. row' = row /\ comp' = comp /\ old' = old /\ want' = want /\ todo' = todo /\ it' = it /\ calls' = calls
      BY <2>2, <1>2 DEF EditByHand, run
    <3>2. \A op : Within(op)' => Within(op)
      BY <3>1 DEF Within, Doing
    <3>3. calls' = <<>> \/ todo # <<>>
      BY <3>1, <1>1 DEF Stage
    <3> QED BY <3>1, <3>2, <3>3, <1>1, <1>2, StageStays, IdsOnward
  <2>3. CASE EditConfig \/ Refresh
    <3>1. todo' = <<>> /\ calls' = <<>>
      <4>1. todo = <<>> /\ calls = <<>>
        BY <2>3, <1>1 DEF EditConfig, Refresh, Between, Stage
      <4> QED BY <4>1, <1>2 DEF run
    <3>2. row' = row \/ row' = NoRow \/ (row'.st = "created" /\ row.st = "created")
      <4>1. CASE EditConfig
        BY <4>1 DEF EditConfig
      <4>2. CASE Refresh
        <5>1. row \in Rows /\ row.st = "created"
          BY <1>1, <4>2 DEF Types, Refresh
        <5>2. PICK g : row' = NoRow \/ row' = [row EXCEPT !.in = g]
          BY <4>2 DEF Refresh
        <5> QED BY <5>1, <5>2 DEF Rows
      <4> QED BY <4>1, <4>2, <2>3
    <3>3. Stage'
      BY <1>1, <1>2, <3>1, <3>2, StageIdle
    <3> QED BY <3>3, <2>3, <1>1, IdsAround
  <2> QED BY <2>1, <2>2, <2>3
<1> QED BY <1>2, <1>3, <1>4, <1>5, <1>6, <1>7 DEF Base

\* Between runs a token may come to count no more.
LEMMA BaseLapse ==
    ASSUME Base, Lapse
    PROVE  /\ Base' /\ kind' = kind /\ h' = h /\ want' = want /\ row' = row /\ comp' = comp /\ UNCHANGED run
           /\ saved' = saved /\ astray' = astray /\ todo = <<>> /\ calls = <<>> /\ h.by = "token"
           /\ lost \subseteq lost'
<1>1. Types /\ Stage /\ Ordered /\ Identified /\ Ids
  BY DEF Base
<1>2. /\ kind' = kind /\ want' = want /\ row' = row /\ comp' = comp /\ UNCHANGED run
      /\ saved' = saved /\ astray' = astray /\ todo = <<>> /\ h.by = "token"
  BY DEF Lapse, rows
<1>3. h' = h /\ calls = <<>> /\ lost \subseteq lost'
  BY <1>1, <1>2 DEF Stage, Lapse, h
<1>4. /\ old' = old /\ todo' = todo /\ it' = it /\ calls' = calls /\ seen' = seen
  BY <1>2 DEF run
<1>5. Types'
  BY <1>1, <1>2, <1>4, TypesShrunk DEF Types
<1>6. Stage'
  BY <1>1, <1>2, <1>3, <1>4, StageStays
<1>7. Ordered' /\ Identified'
  BY <1>1, <1>2, <1>3, <1>4, OrderedSame, IdentifiedShrunk
<1>8. RowIds' /\ ItsIds'
  BY <1>1, <1>2, <1>3, <1>4, RowIdsKept, ItsIdsNone DEF Doing
<1>9. Ids'
  BY <1>8 DEF Ids, RowIds, ItsIds
<1> QED
  BY <1>2, <1>3, <1>5, <1>6, <1>7, <1>9 DEF Base

LEMMA Moves ==
    Next => \/ RowStep \/ Begin \/ Retry \/ Make \/ StrokeStep \/ Delete \/ Return \/ Abandoned
            \/ Lapse \/ Background \/ EditConfig \/ EditByHand \/ Refresh
  BY DEF Next, Work, Step, RowStep, StrokeStep, GiveUp, Stop

LEMMA BaseInit == Init => Base
<1> SUFFICES ASSUME Init PROVE Base
  OBVIOUS
<1>0. Blank \in Facets /\ First \in Facets /\ NoRow \in Rows /\ Gone \in Things
  BY Given
<1>1. kind \in Kinds /\ kind \in DOMAIN Handler /\ Fits(kind, h)
  <2>1. kind \in Kinds /\ Kinds \subseteq DOMAIN Handler
    BY KindsAssumption DEF Init
  <2> QED BY <2>1, Provided DEF h
<1>2. want = First /\ row = NoRow /\ comp = NoRow /\ old = NoRow /\ todo = <<>> /\ calls = <<>> /\ it = 0 /\ seen = Blank
      /\ saved = FALSE
  BY DEF Init
<1>3. \/ cloud = <<>>
      \/ cloud = <<Object(First, FALSE, "active", FALSE)>> /\ h.by \in {"tag", "reference", "lookup"}
  BY DEF Init
<1>4. Object(First, FALSE, "active", FALSE) \in Things
  BY <1>0 DEF Object, Things, Ups
<1>5. /\ cloud \in Seq(Things) /\ (\A i \in DOMAIN cloud : cloud[i] \in Things) /\ DOMAIN cloud = 1 .. Len(cloud)
      /\ \A i \in DOMAIN cloud : i = 1 /\ cloud[i] = Object(First, FALSE, "active", FALSE)
  <2>1. CASE cloud = <<>>
    BY <2>1
  <2>2. CASE cloud # <<>>
    <3>1. PICK d : d = Object(First, FALSE, "active", FALSE)
      OBVIOUS
    <3>2. cloud = <<d>> /\ d \in Things
      BY <2>2, <1>3, <1>4, <3>1
    <3>3. /\ cloud \in Seq(Things) /\ (\A i \in DOMAIN cloud : cloud[i] \in Things) /\ DOMAIN cloud = 1 .. Len(cloud)
          /\ \A i \in DOMAIN cloud : i = 1 /\ cloud[i] = d
      BY <3>2
    <3> QED BY <3>1, <3>3
  <2> QED BY <2>1, <2>2
<1>6. Types
  <2>1. <<>> \in Seq(CallNames)
    OBVIOUS
  <2>2. saved \in BOOLEAN
    BY <1>2
  <2>3. todo \in Chains
    BY <1>2 DEF Chains
  <2>4. {row, comp, old} \subseteq Rows /\ it \in Nat /\ seen \in Facets /\ calls \in Seq(CallNames) /\ want \in Facets
    BY <1>0, <1>2, <2>1
  <2>5. calls \in Seq(CallNames)
    BY <2>4
  <2> QED BY <1>1, <1>5, <2>2, <2>3, <2>4, <2>5, Zenon DEF Types
<1>7. Stage
  <2>1. row.st = "none" /\ row.id = 0 /\ comp.st = "none"
    BY <1>2 DEF NoRow
  <2> QED BY <1>2, <2>1 DEF Stage, At, Wrote, Doing
<1>8. Ordered
  BY <1>2 DEF Ordered, Orderly, Within
<1>9. Identified
  <2>1. \A i \in Objects : i \in DOMAIN cloud /\ ~cloud[i].ours /\ ~cloud[i].mark /\ i = 1 /\ cloud # <<>>
    BY <1>5 DEF Objects, Object
  <2>2. Marked = {}
    BY <2>1 DEF Marked
  <2>3. \A i \in Objects : h.by \in {"tag", "reference", "lookup"}
    BY <2>1, <1>3
  <2> QED BY <2>1, <2>2, <2>3 DEF Identified, ByMark, ByName
<1>10. Ids
  BY <1>2 DEF Ids, Leading, NoRow, Within, Doing, Creating, Wrote
<1> QED BY <1>6, <1>7, <1>8, <1>9, <1>10 DEF Base

LEMMA BaseIdle ==
    ASSUME Base, UNCHANGED vars
    PROVE  Base'
<1>1. Types /\ Stage /\ Ordered /\ Identified /\ Ids
  BY DEF Base
<1>2. /\ kind' = kind /\ want' = want /\ row' = row /\ comp' = comp /\ cloud' = cloud /\ todo' = todo /\ calls' = calls
      /\ old' = old /\ it' = it /\ seen' = seen /\ saved' = saved
  BY DEF vars
<1>3. Shrink
  BY <1>1, <1>2, ShrinkNone
<1>4. Types'
  BY <1>1, <1>2 DEF Types
<1>5. Stage'
  <2>1. calls' = <<>> \/ todo # <<>>
    BY <1>1, <1>2 DEF Stage
  <2> QED BY <1>1, <1>2, <2>1, StageStays
<1>6. \A op : Within(op)' => Within(op)
  BY <1>2 DEF Within, Doing
<1> QED BY <1>1, <1>2, <1>3, <1>4, <1>5, <1>6, OrderedSame, IdentifiedShrunk, IdsOnward DEF Base

LEMMA BaseNext ==
    ASSUME Base, [Next]_vars
    PROVE  Base'
  BY Moves, BaseIdle, BaseRow, BaseBegin, BaseMake, BaseStroke, BaseDelete, BaseReturn, BaseAbandoned, BaseAround, BaseLapse

LEMMA FitsBase == ASSUME Base PROVE Types /\ Stage /\ Ordered /\ Identified /\ Ids /\ Fits(kind, h)
  BY HandlerFits DEF Base

LEMMA TargetOne ==
    ASSUME Base
    PROVE  \A r \in {row, comp, old} : \A i, j \in Target(r) : i = j
<1>1. Types /\ Stage /\ Ordered /\ Identified /\ Ids /\ Fits(kind, h)
  BY FitsBase
<1> SUFFICES ASSUME NEW r \in {row, comp, old}, NEW i \in Target(r), NEW j \in Target(r) PROVE i = j
  OBVIOUS
<1>2. r.st # "none" /\ Target(r) = IF h.by = "tag" /\ r.id = 0 THEN Marked ELSE Held(r) \cap Objects
  <2>1. Target(r) = IF r.st = "none" THEN {}
                          ELSE IF h.by = "tag" /\ r.id = 0 THEN Marked ELSE Held(r) \cap Objects
    BY <1>1, Targets
  <2> QED BY <2>1
<1>3. CASE h.by = "tag" /\ r.id = 0
  BY <1>1, <1>2, <1>3 DEF Identified, ByMark
<1>4. CASE ~(h.by = "tag" /\ r.id = 0) /\ h.by = "name"
  <2>1. i \in SameName(r.in.name) /\ j \in SameName(r.in.name)
    BY <1>2, <1>4 DEF Held
  <2>2. i \in Objects /\ j \in Objects /\ cloud[i].set.name = cloud[j].set.name
    BY <2>1 DEF SameName
  <2> QED BY <2>2, <1>1, <1>4 DEF Identified, ByName
<1>5. CASE ~(h.by = "tag" /\ r.id = 0) /\ h.by # "name"
  BY <1>2, <1>5 DEF Held
<1> QED BY <1>3, <1>4, <1>5

LEMMA ClaimOne ==
    ASSUME Base
    PROVE  \A c : \A i, j \in Claims(c) : i = j
<1>1. Types /\ Stage /\ Ordered /\ Identified /\ Ids /\ Fits(kind, h)
  BY FitsBase
<1> SUFFICES ASSUME NEW c, NEW i \in Claims(c), NEW j \in Claims(c) PROVE i = j
  OBVIOUS
<1>2. CASE h.by \in ByMark
  BY <1>1, <1>2 DEF Identified, ByMark, Claims
<1>3. CASE h.by \in ByName
  <2>1. i \in SameName(c.name) /\ j \in SameName(c.name)
    BY <1>3 DEF Claims, ByName
  <2>2. i \in Objects /\ j \in Objects /\ cloud[i].set.name = cloud[j].set.name
    BY <2>1 DEF SameName
  <2> QED BY <2>2, <1>1, <1>3 DEF Identified, ByName
<1>4. CASE h.by = "token"
  <2>1. /\ i \in Marked /\ cloud[i].set["name"] = c["name"] /\ cloud[i].set["imm"] = c["imm"]
        /\ j \in Marked /\ cloud[j].set["name"] = c["name"] /\ cloud[j].set["imm"] = c["imm"]
    BY <1>4 DEF Claims
  <2> QED BY <2>1, <1>1, <1>4 DEF Identified
<1>5. CASE h.by = "lookup"
  BY <1>5 DEF Claims
<1> QED BY <1>1, <1>2, <1>3, <1>4, <1>5 DEF Fits, Shaped

LEMMA NoneOurs ==
    ASSUME Base, h.by = "lookup"
    PROVE  Ours = {}
  BY FitsBase DEF Identified, Ours

LEMMA SameCloud ==
    ASSUME cloud' = cloud, kind' = kind
    PROVE  /\ h' = h /\ Objects' = Objects /\ Marked' = Marked /\ Ours' = Ours
           /\ (\A n : SameName(n)' = SameName(n)) /\ (\A c : Claims(c)' = Claims(c))
           /\ (\A r : Held(r)' = Held(r)) /\ (\A r : Target(r)' = Target(r))
<1>1. h' = h
  BY DEF h
<1>2. Objects' = Objects
  BY DEF Objects, Exists
<1>3. \A i : (Live(i) <=> Live(i)') /\ (Exists(i) <=> Exists(i)')
  BY DEF Live, Exists
<1>4. Marked' = Marked /\ Ours' = Ours
  BY <1>2, <1>3 DEF Marked, Ours
<1>5. \A n : SameName(n)' = SameName(n)
  BY <1>2 DEF SameName
<1>6. \A c : Claims(c)' = Claims(c)
  BY <1>1, <1>4, <1>5 DEF Claims
<1>7. \A r : Held(r)' = Held(r)
  BY <1>1, <1>5 DEF Held
<1>8. \A r : Target(r)' = Target(r)
  BY <1>1, <1>3, <1>4, <1>7 DEF Target
<1> QED BY <1>1, <1>2, <1>4, <1>5, <1>6, <1>7, <1>8

LEMMA SameRows ==
    /\ \A r : (row' = r => Target(row)' = Target(r)' /\ Held(row)' = Held(r)' /\ Claims(row.in)' = Claims(r.in)')
    /\ \A r : (comp' = r => Target(comp)' = Target(r)' /\ Held(comp)' = Held(r)')
    /\ \A r : (old' = r => Target(old)' = Target(r)' /\ Held(old)' = Held(r)')
  BY DEF Target, Held, Claims

----------------------------------------------------------------------------
(* A delete works on what its row leads to, until that is gone.            *)

LEMMA Onward ==
    ASSUME Types, Ordered, calls # <<>>
    PROVE  /\ Left = {Head(calls)} \cup ToSet(Tail(calls))
           /\ Head(calls) \in {"make", "return"} => Left = {Head(calls)}
           /\ Head(calls) \in Left
<1>1. /\ calls \in Seq(CallNames) /\ Orderly(calls) /\ calls[Len(calls)] \in {"make", "return"}
  BY DEF Types, Ordered
<1>2. /\ ToSet(calls) = {Head(calls)} \cup ToSet(Tail(calls))
      /\ Head(calls) \in {"make", "return"} <=> Tail(calls) = <<>>
  BY <1>1, Advance
<1>3. ToSet(<<>>) = {}
  BY Shapes
<1> QED BY <1>2, <1>3 DEF Left

\* What was lost stays lost.
LEMMA LostGrows ==
    ASSUME Base, Next
    PROVE  lost \subseteq lost'
<1>1. CASE RowStep
  <2>1. CASE Plan
    BY <2>1 DEF Plan
  <2>2. CASE CopyToCompanion \/ WriteAhead \/ Persist \/ Forget \/ DropCompanion
    BY <2>2 DEF CopyToCompanion, WriteAhead, Persist, Forget, DropCompanion
  <2> QED BY <1>1, <2>1, <2>2 DEF RowStep
<1>2. CASE Begin \/ Retry \/ Make \/ StrokeStep \/ Delete \/ Return \/ Lapse
  BY <1>2, BaseBegin, BaseMake, BaseStroke, BaseDelete, BaseReturn, BaseLapse
<1>3. CASE Background \/ EditConfig \/ EditByHand \/ Refresh
  BY <1>3, BaseAround
<1>4. CASE Abandoned
  BY <1>4 DEF Abandoned
<1> QED BY Moves, <1>1, <1>2, <1>3, <1>4

LEMMA DestroyingShrunk ==
    ASSUME Base, Destroying, Shrink, old' = old, it' = it, Within("destroy"),
           (Target(old)' \cap Ours') \ lost' # {} =>
              IF "gone" \in ToSet(h.delete) THEN "gone" \in Left' ELSE "delete" \in Left'
    PROVE  Destroying'
<1>1. Types /\ Stage /\ Ordered /\ Identified /\ Ids /\ Fits(kind, h)
  BY FitsBase
<1>2. /\ Target(old) \subseteq {it}
      /\ Here /\ (Live(it) \/ old.st = "created") => it \in Target(old)
  BY DEF Destroying
<1>3. h' = h /\ kind' = kind /\ Objects' \subseteq Objects
  BY <1>1, Shrunk DEF Shrink
<1>4. Target(old)' \subseteq {it'}
  BY <1>1, <1>2, Shrunk_old
<1>5. ASSUME Here', Live(it)' \/ old.st = "created"
      PROVE  it \in Target(old)'
  <2>1. it \in Objects' /\ it \in Objects
    BY <1>3, <1>5 DEF Here
  <2>2. Live(it)' => Live(it)
    <3>1. it \in DOMAIN cloud /\ cloud'[it].up # "gone"
      BY <2>1, <1>1, Shrunk DEF Types
    <3>2. kind = "NatGateway" /\ cloud'[it].up \notin {"dying", "failed"} => cloud[it].up \notin {"dying", "failed"}
      BY <3>1 DEF Shrink
    <3>3. Exists(it)
      BY <2>1 DEF Objects
    <3> QED BY <3>2, <3>3, <1>3 DEF Live
  <2>3. it \in Target(old)
    BY <2>1, <2>2, <1>2, <1>5 DEF Here
  <2>4. it \in Ours' \/ old.id # 0 \/ h.by # "tag"
    <3>1. CASE Live(it)'
      <4>1. Leading(it)
        BY <1>1 DEF Ids
      <4>2. it # 0
        BY <2>1, <1>1 DEF Objects, Types
      <4>3. cloud[it].ours
        BY <4>1, <4>2, <2>1 DEF Leading, Objects
      <4>4. cloud'[it].ours
        BY <4>3, <2>1, <1>1, Shrunk
      <4> QED BY <4>4, <3>1, <2>1 DEF Ours
    <3>2. CASE old.st = "created"
      <4>1. h.by = "lookup" <=> old.id = 0
        BY <1>1, <3>2 DEF Ids
      <4> QED BY <4>1
    <3> QED BY <3>1, <3>2, <1>5
  <2> QED BY <2>1, <2>3, <2>4, <1>1, Shrunk_old
<1>6. (Target(old)' \cap Ours') \ lost' # {} =>
          IF "gone" \in ToSet(h'.delete) THEN "gone" \in Left' ELSE "delete" \in Left'
  BY <1>3
<1> QED BY <1>4, <1>5, <1>6 DEF Destroying

LEMMA DestroyingNone ==
    ASSUME ~Within("destroy")'
    PROVE  Destroying'
  BY DEF Destroying

LEMMA DestroyingNext ==
    ASSUME Base, Destroying, Next
    PROVE  Destroying'
<1>1. Types /\ Stage /\ Ordered /\ Identified /\ Ids /\ Fits(kind, h)
  BY FitsBase
<1>2. CASE RowStep \/ Abandoned \/ Return \/ Retry
  <2>1. calls' = <<>>
    BY <1>2, BaseRow, BaseAbandoned, BaseReturn DEF Retry
  <2> QED BY <2>1, DestroyingNone DEF Within
<1>3. CASE Make
  <2>1. Within("create")'
    BY <1>3, BaseMake
  <2>2. ~Within("destroy")'
    BY <2>1 DEF Within, Doing
  <2> QED BY <2>2, DestroyingNone
<1>4. CASE Begin
  <2>1. Base' /\ Shrink /\ cloud' = cloud /\ kind' = kind /\ h' = h /\ old' = old /\ todo' = todo
    BY <1>4, BaseBegin
  <2>2. CASE Head(todo) # "destroy"
    <3>1. ~Within("destroy")'
      BY <2>1, <2>2 DEF Within, Doing
    <3> QED BY <3>1, DestroyingNone
  <2>3. Target(old)' = Target(old) /\ Objects' = Objects /\ Ours' = Ours
    <3>1. PICK r : r = old
      OBVIOUS
    <3>2. Target(old)' = Target(r)' /\ Target(r)' = Target(r) /\ Target(r) = Target(old)
      BY <3>1, <2>1, SameCloud, SameRows
    <3> QED BY <3>2, <2>1, SameCloud
  <2>4. CASE Head(todo) = "destroy" /\ Target(old) = {} /\ it' = 0
    <3>1. Target(old)' = {}
      BY <2>3, <2>4
    <3>2. ~Here'
      <4>1. 0 \notin DOMAIN cloud
        BY <1>1 DEF Types
      <4>2. 0 \notin Objects
        BY <4>1 DEF Objects
      <4> QED BY <4>2, <2>3, <2>4 DEF Here
    <3> QED BY <3>1, <3>2 DEF Destroying
  <2>6. CASE Head(todo) = "destroy" /\ it' \in Target(old) /\ it' \in Unconfirmed
    <3>1. Target(old) \subseteq {it'}
      BY <2>6, <1>1, TargetOne
    <3>2. Target(old)' \subseteq {it'} /\ it' \in Target(old)'
      BY <3>1, <2>3, <2>6
    <3>3. it' \in lost'
      BY <1>4, <2>6 DEF Begin
    <3> QED BY <3>2, <3>3 DEF Destroying
  <2>5. CASE Head(todo) = "destroy" /\ it' \in Target(old) /\ it' \notin Unconfirmed
             /\ calls' = Append(h.delete, "return")
    <3>1. Target(old) \subseteq {it'}
      BY <2>5, <1>1, TargetOne
    <3>2. Target(old)' \subseteq {it'} /\ it' \in Target(old)'
      BY <3>1, <2>3, <2>5
    <3>3. Left' = ToSet(h.delete) \cup {"return"}
      BY <2>5, <1>1, Openings DEF Opens, Left
    <3>4. ASSUME (Target(old)' \cap Ours') \ lost' # {}
          PROVE  IF "gone" \in ToSet(h'.delete) THEN "gone" \in Left' ELSE "delete" \in Left'
      <4>1. h.by # "lookup"
        BY <3>4, <2>3, NoneOurs
      <4>2. "delete" \in ToSet(h.delete)
        <5>1. h.delete \in {<<"delete">>, <<"detach", "delete">>, <<"disassociate", "delete">>, <<"delete", "gone">>,
                     <<"disable", "deployed", "delete">>}
          BY <4>1, <1>1 DEF Fits, Sequenced
        <5>2. CASE h.delete = <<"delete">>
          BY <5>2 DEF ToSet
        <5>3. CASE h.delete = <<"detach", "delete">>
          <6>1. h.delete[2] = "delete" /\ 2 \in DOMAIN h.delete
            BY <5>3
          <6> QED BY <6>1 DEF ToSet
        <5>6. CASE h.delete = <<"disassociate", "delete">>
          <6>1. h.delete[2] = "delete" /\ 2 \in DOMAIN h.delete
            BY <5>6
          <6> QED BY <6>1 DEF ToSet
        <5>4. CASE h.delete = <<"delete", "gone">>
          <6>1. h.delete[1] = "delete" /\ 1 \in DOMAIN h.delete
            BY <5>4
          <6> QED BY <6>1 DEF ToSet
        <5>5. CASE h.delete = <<"disable", "deployed", "delete">>
          <6>1. h.delete[3] = "delete" /\ 3 \in DOMAIN h.delete
            BY <5>5
          <6> QED BY <6>1 DEF ToSet
        <5> QED BY <5>1, <5>2, <5>3, <5>4, <5>5, <5>6
      <4> QED BY <4>2, <3>3, <2>1
    <3> QED BY <3>2, <3>4 DEF Destroying
  <2> QED BY <1>4, <2>2, <2>4, <2>5, <2>6 DEF Begin
<1>5. CASE StrokeStep
  <2>1. /\ Base' /\ Stroke /\ Shrink /\ kind' = kind /\ want' = want /\ h' = h
        /\ old' = old /\ todo' = todo /\ it' = it
        /\ calls # <<>>
        /\ \A op : Within(op)' => Within(op)
        /\ calls' \in {calls, Tail(calls)} /\ lost' = lost
    BY <1>5, BaseStroke
  <2>2. CASE ~Within("destroy")
    BY <2>1, <2>2, DestroyingNone
  <2>3. CASE Within("destroy")
    <3>1. ASSUME (Target(old)' \cap Ours') \ lost' # {}
          PROVE  IF "gone" \in ToSet(h.delete) THEN "gone" \in Left' ELSE "delete" \in Left'
      <4>1. Target(old)' \subseteq Target(old) /\ Ours' \subseteq Ours
        BY <1>1, <2>1, Shrunk, Shrunk_old
      <4>2. IF "gone" \in ToSet(h.delete) THEN "gone" \in Left ELSE "delete" \in Left
        BY <4>1, <3>1, <2>1, <2>3 DEF Destroying
      <4>3. Left' = Left \/ Left = {Head(calls)} \cup Left'
        BY <2>1, <1>1, Onward DEF Left
      <4>4. Head(calls) # "delete"
        BY <2>1 DEF Stroke, Setting
      <4>5. Head(calls) # "gone"
        <5>1. SUFFICES ASSUME Head(calls) = "gone" PROVE FALSE
          OBVIOUS
        <5>2. Await
          BY <1>5, <5>1 DEF StrokeStep, Stamp, PutBody, PutLate, SetTags, Describe, Untag, Tag, Authorize,
               Revoke, Relabel, Unroute, Route, Attach, Detach, Disassociate, Disable, Calling
        <5>3. ~Here
          BY <5>2, <5>1 DEF Await, Reached, Calling
        <5>4. Target(old) \subseteq {it} /\ Target(old) \subseteq Objects
          <6>1. Target(old) \subseteq {it}
            BY <2>3 DEF Destroying
          <6>2. Target(old) = IF old.st = "none" THEN {}
                          ELSE IF h.by = "tag" /\ old.id = 0 THEN Marked ELSE Held(old) \cap Objects
            BY <1>1, Targets
          <6> QED BY <6>1, <6>2 DEF Marked
        <5> QED BY <5>3, <5>4, <4>1, <3>1 DEF Here
      <4> QED BY <4>2, <4>3, <4>4, <4>5
    <3> QED BY <3>1, <2>1, <2>3, DestroyingShrunk
  <2> QED BY <2>2, <2>3
<1>6. CASE Delete
  <2>1. /\ Base' /\ Shrink /\ kind' = kind /\ want' = want /\ h' = h
        /\ old' = old /\ todo' = todo /\ it' = it
        /\ calls # <<>> /\ Head(calls) = "delete"
        /\ Within("destroy")
        /\ calls' = Tail(calls) /\ lost' = lost
    BY <1>6, BaseDelete
  <2>2. ASSUME (Target(old)' \cap Ours') \ lost' # {}
        PROVE  IF "gone" \in ToSet(h.delete) THEN "gone" \in Left' ELSE "delete" \in Left'
    <3>1. Target(old)' \subseteq Target(old) /\ Ours' \subseteq Ours /\ Target(old)' \subseteq Objects'
      BY <1>1, <2>1, Shrunk, Shrunk_old
    <3>2. /\ IF "gone" \in ToSet(h.delete) THEN "gone" \in Left ELSE "delete" \in Left
          /\ Target(old) \subseteq {it}
      BY <3>1, <2>2, <2>1 DEF Destroying
    <3>3. Left = {Head(calls)} \cup Left'
      BY <2>1, <1>1, Onward DEF Left
    <3>4. CASE "gone" \in ToSet(h.delete)
      BY <3>2, <3>3, <3>4, <2>1
    <3>5. CASE "gone" \notin ToSet(h.delete)
      <4>1. it \in Objects'
        BY <3>1, <3>2, <2>2
      <4>2. it \in Objects
        BY <4>1, <1>1, <2>1, Shrunk
      <4>3. cloud' = [cloud EXCEPT ![it] = Gone]
        BY <1>6, <4>2, <3>5 DEF Delete, Here
      <4>4. cloud'[it] = Gone
        BY <4>3, <4>2, <1>1 DEF Objects, Types
      <4> QED BY <4>1, <4>4 DEF Objects, Exists, Gone, Object
    <3> QED BY <3>4, <3>5
  <2> QED BY <2>1, <2>2, DestroyingShrunk
<1>7. CASE Background \/ EditConfig \/ EditByHand \/ Refresh
  <2>1. /\ Base' /\ Shrink /\ kind' = kind /\ h' = h
        /\ old' = old /\ todo' = todo /\ it' = it /\ calls' = calls /\ lost' = lost
    BY <1>7, BaseAround DEF run
  <2>2. CASE ~Within("destroy")
    <3>1. ~Within("destroy")'
      BY <2>1, <2>2 DEF Within, Doing
    <3> QED BY <3>1, DestroyingNone
  <2>3. CASE Within("destroy")
    <3>1. Target(old)' \subseteq Target(old) /\ Ours' \subseteq Ours /\ Left' = Left
      BY <1>1, <2>1, Shrunk, Shrunk_old DEF Left
    <3>2. (Target(old)' \cap Ours') \ lost' # {} =>
              IF "gone" \in ToSet(h.delete) THEN "gone" \in Left' ELSE "delete" \in Left'
      BY <3>1, <2>1, <2>3 DEF Destroying
    <3> QED BY <3>2, <2>1, <2>3, DestroyingShrunk
  <2> QED BY <2>2, <2>3
<1>8. CASE Lapse
  <2>1. calls' = <<>>
    BY <1>8, BaseLapse DEF run
  <2> QED BY <2>1, DestroyingNone DEF Within
<1> QED BY Moves, <1>2, <1>3, <1>4, <1>5, <1>6, <1>7, <1>8

\* What a step that only takes objects away leaves of the rows' objects.
LEMMA KeptOurs ==
    ASSUME Base, Shrink
    PROVE  /\ Ours' \subseteq Ours
           /\ row' = row => Target(row)' \subseteq Target(row) /\ Ours' \cap Target(row) \subseteq Target(row)'
           /\ comp' = comp => Target(comp)' \subseteq Target(comp) /\ Ours' \cap Target(comp) \subseteq Target(comp)'
           /\ old' = old => Target(old)' \subseteq Target(old) /\ Ours' \cap Target(old) \subseteq Target(old)'
           /\ row' = row => Ours' \cap Claims(row.in) \subseteq Claims(row.in)'
<1>1. Types /\ Stage /\ Ordered /\ Identified /\ Ids /\ Fits(kind, h)
  BY FitsBase
<1>2. Ours' \subseteq Ours /\ Ours' \subseteq Objects'
  BY <1>1, Shrunk DEF Ours
<1>3. row' = row => Ours' \cap Claims(row.in) \subseteq Claims(row.in)'
  <2>1. SUFFICES ASSUME row' = row, NEW i \in Ours', i \in Claims(row.in) PROVE i \in Claims(row.in)'
    OBVIOUS
  <2>2. PICK r : r = row
    OBVIOUS
  <2>3. i \in Claims(r.in)'
    BY <2>1, <2>2, <1>1, ClaimsKept
  <2> QED BY <2>1, <2>2, <2>3, SameRows
<1>4. row' = row => Target(row)' \subseteq Target(row) /\ Ours' \cap Target(row) \subseteq Target(row)'
  BY <1>1, <1>2, Shrunk_row
<1>5. comp' = comp => Target(comp)' \subseteq Target(comp) /\ Ours' \cap Target(comp) \subseteq Target(comp)'
  BY <1>1, <1>2, Shrunk_comp
<1>6. old' = old => Target(old)' \subseteq Target(old) /\ Ours' \cap Target(old) \subseteq Target(old)'
  BY <1>1, <1>2, Shrunk_old
<1> QED BY <1>2, <1>3, <1>4, <1>5, <1>6

\* ... and one that adds an object.
LEMMA GrownComp ==
    ASSUME Base, MakeNew
    PROVE  Target(comp) \subseteq Target(comp)' /\ it' \in Ours' /\ it' \in Claims(want)'
<1>1. Types /\ Stage /\ Ordered /\ Identified /\ Ids /\ Fits(kind, h)
  BY FitsBase
<1>2. /\ kind' = kind /\ want' = want /\ h' = h
      /\ comp' = comp
      /\ it' = Len(cloud) + 1 /\ it' \in Nat \ {0} /\ it' \notin DOMAIN cloud
      /\ DOMAIN cloud' = DOMAIN cloud \cup {it'}
      /\ (\A i \in DOMAIN cloud : cloud'[i] = cloud[i] /\ i # it') /\ cloud'[it'] = Made
      /\ Objects' = Objects \cup {it'} /\ Ours' = Ours \cup {it'}
      /\ Marked' = Marked \cup IF h.by \in ByMark \cup {"token"} THEN {it'} ELSE {}
  BY <1>1, Grown
<1>3. Target(comp) \subseteq Target(comp)'
  <2>1. SUFFICES ASSUME NEW i \in Target(comp) PROVE i \in Target(comp)'
    OBVIOUS
  <2>2. comp.st # "none" /\ i \in IF h.by = "tag" /\ comp.id = 0 THEN Marked ELSE Held(comp) \cap Objects
    BY <1>1, <2>1, Targets
  <2>3. i \in Objects /\ i \in Objects' /\ i \in DOMAIN cloud
    BY <2>2, <1>2 DEF Marked, Objects
  <2>4. Exists(i)'
    BY <2>3, <1>2 DEF Objects
  <2>5. CASE h.by = "tag" /\ comp.id = 0
    BY <2>2, <2>5, <1>2 DEF Target
  <2>6. CASE ~(h.by = "tag" /\ comp.id = 0)
    <3>1. i \in Held(comp)
      BY <2>2, <2>6
    <3>2. i \in Held(comp)'
      <4>1. CASE h.by = "name"
        <5>1. i \in SameName(comp.in.name)
          BY <3>1, <4>1 DEF Held
        <5>2. cloud[i].set.name = comp.in.name /\ cloud'[i].set.name = comp'.in.name
          BY <5>1, <2>3, <1>2 DEF SameName
        <5>3. i \in SameName(comp.in.name)'
          BY <5>2, <2>3 DEF SameName
        <5> QED BY <5>3, <4>1, <1>2 DEF Held
      <4>2. CASE h.by # "name"
        BY <3>1, <4>2, <1>2 DEF Held
      <4> QED BY <4>1, <4>2
    <3> QED BY <3>2, <2>2, <2>4, <2>6, <1>2 DEF Target
  <2> QED BY <2>5, <2>6
<1>4. it' \in Claims(want)'
  <2>0. Within("create") /\ h.by # "lookup"
    BY BaseMake, MakeEither
  <2>1. /\ \A f \in h.stamps : Made.set[f] = want[f]
    BY <1>1, MadeIs
  <2>2. CASE h.by \in ByMark
    BY <2>2, <1>2 DEF Claims, ByMark
  <2>3. CASE h.by \in ByName
    <3>1. "name" \in h.stamps
      BY <2>3, <1>1 DEF Fits, Shaped
    <3>2. cloud'[it']["set"]["name"] = want'["name"]
      BY <3>1, <2>1, <1>2
    <3>3. it' \in SameName(want.name)'
      BY <3>2, <1>2 DEF SameName
    <3> QED BY <3>3, <2>3, <1>2 DEF Claims, ByName
  <2>4. CASE h.by = "token"
    <3>1. "name" \in h.stamps /\ "imm" \in h.stamps
      BY <2>4, <1>1 DEF Fits, Shaped
    <3>2. it' \in Marked' /\ \A f \in {"name", "imm"} : cloud'[it'].set[f] = want'[f]
      BY <3>1, <2>1, <2>4, <1>2
    <3> QED BY <3>2, <2>4, <1>2 DEF Claims
  <2> QED BY <2>0, <2>2, <2>3, <2>4, <1>1 DEF Fits, Shaped
<1> QED BY <1>2, <1>3, <1>4

LEMMA DestroyedNext ==
    ASSUME Base, Destroying, Destroyed, Next
    PROVE  Destroyed'
<1>1. Types /\ Stage /\ Ordered /\ Identified /\ Ids /\ Fits(kind, h)
  BY FitsBase
<1>2. CASE todo' = todo /\ Shrink /\ row' = row /\ comp' = comp
  <2>1. /\ At("uncompanion", 1)' <=> At("uncompanion", 1)
        /\ At("forget", 1)' <=> At("forget", 1)
    BY <1>2 DEF At
  <2>2. /\ Ours' \subseteq Ours /\ Target(row)' \subseteq Target(row) /\ Target(comp)' \subseteq Target(comp)
        /\ lost \subseteq lost'
    BY <1>2, KeptOurs, LostGrows
  <2> QED BY <2>1, <2>2 DEF Destroyed
<1>3. CASE ~At("uncompanion", 1)' /\ ~At("forget", 1)'
  BY <1>3 DEF Destroyed
<1>4. CASE RowStep
  <2>1. CASE Plan
    BY <2>1, <1>3, PlanShape DEF Shape, At
  <2>2. CASE ~Plan
    <3>1. todo # <<>> /\ todo' = Tail(todo) /\ Head(todo) \in {"companion", "ahead", "persist", "forget", "uncompanion"}
      BY <1>4, <2>2 DEF RowStep, CopyToCompanion, WriteAhead, Persist, Forget, DropCompanion, Written
    <3>2. todo' = <<>> \/ Head(todo') \notin {"uncompanion", "forget"}
      BY <3>1, <1>1, Stations DEF Shape
    <3> QED BY <3>2, <1>3 DEF At
  <2> QED BY <2>1, <2>2
<1>5. CASE Abandoned
  <2>1. todo' = <<>>
    BY <1>5, BaseAbandoned
  <2> QED BY <2>1, <1>3 DEF At
<1>6. CASE Begin \/ Retry
  <2>1. todo' = todo /\ Shrink /\ row' = row /\ comp' = comp
    BY <1>6, BaseBegin
  <2> QED BY <2>1, <1>2
<1>7. CASE Make
  <2>1. Within("create")'
    BY <1>7, BaseMake
  <2> QED BY <2>1, <1>3 DEF At, Within, Doing
<1>8. CASE StrokeStep
  <2>1. todo' = todo /\ Shrink /\ row' = row /\ comp' = comp
    BY <1>8, BaseStroke
  <2> QED BY <2>1, <1>2
<1>9. CASE Delete
  <2>1. todo' = todo /\ Shrink /\ row' = row /\ comp' = comp
    BY <1>9, BaseDelete
  <2> QED BY <2>1, <1>2
<1>10. CASE Return
  <2>1. /\ Shrink /\ kind' = kind /\ h' = h /\ cloud' = cloud
        /\ row' = row /\ comp' = comp /\ old' = old /\ calls # <<>> /\ Head(calls) = "return"
        /\ calls' = <<>> /\ todo' = Tail(todo) /\ todo # <<>> /\ Head(todo) \in Operations
    BY <1>10, BaseReturn
  <2>2. CASE Head(todo) # "destroy"
    <3>1. Head(todo') \notin {"uncompanion", "forget"}
      BY <2>1, <2>2, <1>1, Stations DEF Shape, Operations
    <3> QED BY <3>1, <1>3 DEF At
  <2>3. CASE Head(todo) = "destroy"
    <3>1. Left = {"return"} /\ Within("destroy")
      BY <2>1, <2>3, <1>1, Onward DEF Within, Doing
    <3>2. Target(old) \cap Ours \subseteq lost
      <4>1. (Target(old) \cap Ours) \ lost # {} =>
              IF "gone" \in ToSet(h.delete) THEN "gone" \in Left ELSE "delete" \in Left
        BY <3>1 DEF Destroying
      <4> QED BY <3>1, <4>1
    <3>3. /\ Ours' \subseteq Ours /\ Target(row)' \subseteq Target(row) /\ Target(comp)' \subseteq Target(comp)
          /\ lost \subseteq lost'
      BY <2>1, KeptOurs, LostGrows
    <3>4. At("uncompanion", 1)' => Target(comp)' \cap Ours' \subseteq lost'
      <4>1. SUFFICES ASSUME At("uncompanion", 1)' PROVE Target(comp)' \cap Ours' \subseteq lost'
        OBVIOUS
      <4>2. Shape(todo, "destroy", 2, TRUE, FALSE)
        BY <4>1, <2>1, <2>3, <1>1, Stations DEF Shape, At
      <4>3. old = comp
        BY <4>2, <1>1 DEF Stage, Shape, Beside
      <4> QED BY <4>3, <3>2, <3>3
    <3>5. At("forget", 1)' => Target(row)' \cap Ours' \subseteq lost'
      <4>1. SUFFICES ASSUME At("forget", 1)' PROVE Target(row)' \cap Ours' \subseteq lost'
        OBVIOUS
      <4>2. Shape(todo, "destroy", 2, FALSE, TRUE)
        BY <4>1, <2>1, <2>3, <1>1, Stations DEF Shape, At
      <4>3. old = row
        BY <4>2, <1>1 DEF Stage, Shape, Removing
      <4> QED BY <4>3, <3>2, <3>3
    <3> QED BY <3>4, <3>5 DEF Destroyed
  <2> QED BY <2>2, <2>3
<1>11. CASE Background
  <2>1. todo' = todo /\ Shrink /\ row' = row /\ comp' = comp
    BY <1>11, BaseAround DEF Background, run, rows
  <2> QED BY <2>1, <1>2
<1>12. CASE EditConfig \/ EditByHand \/ Refresh \/ Lapse
  <2>1. todo' = <<>>
    BY <1>12, BaseAround, BaseLapse DEF EditConfig, EditByHand, Refresh, Between, run
  <2> QED BY <2>1, <1>3 DEF At
<1> QED BY Moves, <1>4, <1>5, <1>6, <1>7, <1>8, <1>9, <1>10, <1>11, <1>12

----------------------------------------------------------------------------
(* What leads to the objects made for the node.                            *)

LEMMA LedShrunk ==
    ASSUME Base, Led, Shrink, row' = row, comp' = comp, lost \subseteq lost',
           At("destroy", 3)' <=> At("destroy", 3), At("destroy", 3) => old' = old
    PROVE  Led'
<1>1. /\ Ours' \subseteq Ours
      /\ Ours' \cap Target(row) \subseteq Target(row)'
      /\ Ours' \cap Target(comp) \subseteq Target(comp)'
      /\ At("destroy", 3) => Ours' \cap Target(old) \subseteq Target(old)'
      /\ Ours' \cap Claims(row.in) \subseteq Claims(row.in)'
  BY KeptOurs
<1>2. Ours' \subseteq lost' \cup Target(comp)' \cup (Ours' \cap Leads)
  BY <1>1 DEF Led
<1>3. Ours' \cap Leads \subseteq Leads'
  BY <1>1 DEF Leads
<1> QED BY <1>2, <1>3 DEF Led

LEMMA LedPlan ==
    ASSUME Base, Led, Plan
    PROVE  Led'
<1>1. Base' /\ Shrink
  BY BaseRow DEF RowStep
<1>2. /\ row' = row /\ comp' = comp /\ lost' = lost /\ todo = <<>>
      /\ ~At("destroy", 3)'
  BY PlanShape DEF Shape, At
<1>3. ~At("destroy", 3)
  BY <1>2 DEF At
<1> QED BY <1>1, <1>2, <1>3, LedShrunk

LEMMA LedRow ==
    ASSUME Base, Led, Destroyed, LedNew, RowStep, ~Plan
    PROVE  Led'
<1>1. Types /\ Stage /\ Ordered /\ Identified /\ Ids /\ Fits(kind, h)
  BY FitsBase
<1>2. /\ Base' /\ Shrink /\ cloud' = cloud /\ kind' = kind /\ want' = want /\ h' = h /\ calls' = calls
      /\ calls = <<>>
  BY BaseRow
<1>3. /\ Ours' = Ours /\ (\A c : Claims(c)' = Claims(c)) /\ (\A r : Target(r)' = Target(r))
  BY <1>2, SameCloud
<1>4. PICK r, c, w : r = row /\ c = comp /\ w = want
  OBVIOUS
<1>5. CASE CopyToCompanion
  <2>1. /\ comp' = row /\ row' = row /\ lost' = lost /\ todo # <<>> /\ Head(todo) = "companion" /\ todo' = Tail(todo)
    BY <1>5 DEF CopyToCompanion, Written
  <2>2. At("companion", 6) /\ ~At("destroy", 3) /\ ~At("destroy", 3)'
    BY <2>1, <1>1, Stations DEF Shape, At
  <2>3. row.st = "created" /\ comp.st = "none"
    BY <2>2, <1>1 DEF Stage
  <2>4. Target(comp) = {}
    BY <2>3 DEF Target
  <2>5. Target(comp)' = Target(row)
    BY <1>4, <2>1, <1>3, SameRows
  <2>6. Ours \subseteq lost \cup Target(row)
    BY <2>3, <2>4 DEF Led, Leads
  <2> QED BY <2>1, <2>5, <2>6, <1>3 DEF Led
<1>6. CASE WriteAhead
  <2>1. /\ comp' = comp /\ row' = Row("creating", want, 0) /\ todo # <<>> /\ Head(todo) = "ahead" /\ todo' = Tail(todo)
        /\ lost' = IF Head(todo') = "create" THEN lost \cup Strays ELSE lost
        /\ old' = IF todo' = <<>> THEN NoRow ELSE old
    BY <1>6 DEF WriteAhead, Written
  <2>2. row'.st = "creating" /\ row'.in = want
    BY <2>1 DEF Row
  <2>3. Target(comp)' = Target(comp)
    BY <1>4, <2>1, <1>3, SameRows
  <2>4. CASE Head(todo') = "create"
    <3>1. ~At("destroy", 3)'
      BY <2>4 DEF At
    <3>2. Leads' = Claims(row.in)'
      BY <3>1, <2>2 DEF Leads
    <3>3. Claims(row.in)' = Claims(want)
      <4>1. PICK s : s = row'
        OBVIOUS
      <4>2. Claims(row.in)' = Claims(s.in)'
        BY <4>1, SameRows
      <4>3. s.in = w
        BY <4>1, <2>2, <1>4
      <4>4. Claims(w)' = Claims(w)
        BY <1>3
      <4> QED BY <4>2, <4>3, <4>4, <1>4
    <3>4. lost' = lost \cup (Ours \ (Claims(want) \cup Target(comp)))
      BY <2>1, <2>4, ConflictingIs DEF Strays
    <3> QED BY <3>2, <3>3, <3>4, <2>3, <1>3 DEF Led
  <2>5. CASE Head(todo') # "create"
    <3>1. At("ahead", 4) /\ At("destroy", 3)' /\ todo' # <<>> /\ ~At("destroy", 3)
      BY <2>5, <2>1, <1>1, Stations DEF Shape, At
    <3>2. row.st = "created" /\ old = row
      BY <3>1, <1>1 DEF Stage
    <3>3. Ours \subseteq lost \cup Target(comp) \cup Target(row)
      BY <3>2 DEF Led, Leads
    <3>4. Leads' = Target(old)'
      BY <3>1, <2>2 DEF Leads
    <3>5. old' = r
      BY <3>1, <3>2, <2>1, <1>4
    <3>6. Target(old)' = Target(row)
      BY <3>5, <1>3, <1>4, SameRows
    <3> QED BY <3>3, <3>4, <3>6, <2>1, <2>3, <2>5, <1>3 DEF Led
  <2> QED BY <2>4, <2>5
<1>7. CASE Persist
  <2>1. /\ comp' = comp /\ row' = Row("created", want, it) /\ todo # <<>> /\ Head(todo) = "persist" /\ todo' = Tail(todo)
        /\ lost' = lost
    BY <1>7 DEF Persist, Written
  <2>2. row'.st = "created" /\ row'.in = want /\ row'.id = it
    BY <2>1 DEF Row
  <2>3. Target(comp)' = Target(comp)
    BY <1>4, <2>1, <1>3, SameRows
  <2>4. Leads' = Target(row)'
    BY <2>2 DEF Leads
  <2>5. PICK s : s = row'
    OBVIOUS
  <2>6. Target(row)' = Target(s)
    BY <2>5, <1>3, SameRows
  <2>7. s.st = "created" /\ s.in = want /\ s.id = it /\ s \in Rows
    <3>1. row' \in Rows
      BY <1>2 DEF Base, Types
    <3> QED BY <2>2, <2>5, <3>1
  <2>8. h.by = "tag" => it # 0
    BY <1>1, <2>1 DEF Ids, Doing
  <2>9. CASE row.st = "creating"
    <3>1. Wrote
      BY <2>9, <2>1 DEF Wrote, Doing
    <3>2. Ours \subseteq lost \cup Target(comp) \cup {it}
      BY <3>1 DEF LedNew
    <3>3. it \in Ours => it \in Target(s)
      <4>1. SUFFICES ASSUME it \in Ours PROVE it \in Target(s)
        OBVIOUS
      <4>2. it \in Objects /\ it # 0 /\ Exists(it) /\ it \in Conflicting
        BY <4>1, <3>1, <1>1 DEF Ours, Objects, Types, Ids
      <4>3. it \in Held(s)
        <5>1. CASE h.by = "name"
          BY <5>1, <4>2, <2>7 DEF Held, Conflicting, Claims
        <5>2. CASE h.by # "name"
          BY <5>2, <4>2, <2>7 DEF Held
        <5> QED BY <5>1, <5>2
      <4> QED BY <4>2, <4>3, <2>7 DEF Target
    <3> QED BY <3>2, <3>3, <2>1, <2>3, <2>4, <2>6, <1>3 DEF Led
  <2>10. CASE row.st = "created"
    <3>1. At("persist", 1)
      <4>1. ~At("persist", 3)
        BY <2>10, <1>1 DEF Stage
      <4> QED BY <4>1, <2>1, <1>1, Stations DEF Shape, At
    <3>2. \A f \in h.fields \cap {"name", "imm"} : row.in[f] = want[f]
      BY <3>1, <2>10, <1>1 DEF Stage
    <3>3. Held(s) = Held(row)
      <4>1. CASE h.by = "name"
        <5>1. "name" \in h.fields
          BY <4>1, <1>1 DEF Fits, Shaped, ByName
        <5>2. row["in"]["name"] = want["name"]
          BY <5>1, <3>2
        <5> QED BY <5>2, <4>1, <2>7 DEF Held
      <4>2. CASE h.by # "name"
        <5>1. it = row.id
          BY <4>2, <2>1, <2>10, <1>1 DEF Ids, Doing
        <5> QED BY <5>1, <4>2, <2>7 DEF Held
      <4> QED BY <4>1, <4>2
    <3>4. Target(row) \subseteq Target(s)
      <4>1. Target(row) = IF h.by = "tag" /\ row.id = 0 THEN Marked ELSE Held(row) \cap Objects
        BY <1>1, <2>10, Targets
      <4>2. h.by = "tag" => row.id # 0
        <5>1. h.by = "lookup" <=> row.id = 0
          BY <1>1, <2>10 DEF Ids
        <5> QED BY <5>1
      <4> QED BY <4>1, <4>2, <2>7, <2>8, <3>3 DEF Target, Objects
    <3>5. Ours \subseteq lost \cup Target(comp) \cup Target(row)
      BY <2>10 DEF Led, Leads
    <3> QED BY <3>4, <3>5, <2>1, <2>3, <2>4, <2>6, <1>3 DEF Led
  <2>11. row.st \in {"creating", "created"}
    <3>1. row.st \in {"none", "creating", "created"}
      BY <1>1 DEF Types, Rows
    <3>2. At("persist", 1) \/ At("persist", 3)
      BY <2>1, <1>1, Stations DEF Shape, At
    <3>3. row.st # "none"
      BY <3>2, <1>1 DEF Stage
    <3> QED BY <3>1, <3>3
  <2> QED BY <2>9, <2>10, <2>11
<1>8. CASE Forget
  <2>1. /\ comp' = comp /\ row' = NoRow /\ todo # <<>> /\ Head(todo) = "forget" /\ todo' = Tail(todo)
        /\ lost' = IF KnownById THEN lost \cup (Ours \ Target(comp)) ELSE lost
    BY <1>8 DEF Forget, Written
  <2>2. At("forget", 1) /\ ~At("destroy", 3)
    BY <2>1, <1>1, Stations DEF Shape, At
  <2>3. Target(row) \cap Ours \subseteq lost
    BY <2>2 DEF Destroyed
  <2>4. Target(comp)' = Target(comp)
    BY <1>4, <2>1, <1>3, SameRows
  <2>5. CASE KnownById
    BY <2>5, <2>1, <2>4, <1>3 DEF Led
  <2>6. CASE ~KnownById
    <3>1. Leads \subseteq Target(row)
      <4>1. CASE row.st = "creating"
        <5>1. row.id = 0 /\ h.by \in {"name", "tag"}
          BY <4>1, <2>6, <1>1 DEF Stage, KnownById
        <5>2. Target(row) = IF h.by = "tag" /\ row.id = 0 THEN Marked ELSE Held(row) \cap Objects
          BY <1>1, <4>1, Targets
        <5>3. CASE h.by = "tag"
          BY <5>1, <5>2, <5>3, <4>1, <2>2 DEF Leads, Claims
        <5>4. CASE h.by = "name"
          <6>1. Leads = SameName(row.in.name)
            BY <5>4, <4>1, <2>2 DEF Leads, Claims
          <6> QED BY <6>1, <5>2, <5>4 DEF Held, SameName
        <5> QED BY <5>1, <5>3, <5>4
      <4>2. CASE row.st # "creating"
        BY <4>2, <2>2 DEF Leads
      <4> QED BY <4>1, <4>2
    <3> QED BY <3>1, <2>1, <2>3, <2>4, <2>6, <1>3 DEF Led
  <2> QED BY <2>5, <2>6
<1>9. CASE DropCompanion
  <2>1. /\ comp' = NoRow /\ row' = row /\ todo # <<>> /\ Head(todo) = "uncompanion" /\ todo' = Tail(todo)
        /\ lost' = lost
    BY <1>9 DEF DropCompanion, Written
  <2>2. At("uncompanion", 1) /\ todo' = <<>> /\ ~At("destroy", 3)
    BY <2>1, <1>1, Stations DEF Shape, At
  <2>3. Target(comp) \cap Ours \subseteq lost
    BY <2>2 DEF Destroyed
  <2>4. ~At("destroy", 3)'
    BY <2>2 DEF At
  <2>5. Target(row)' = Target(row) /\ Claims(row.in)' = Claims(row.in)
    BY <2>1, <1>3, <1>4, SameRows
  <2>6. Leads' = Leads
    BY <2>1, <2>2, <2>4, <2>5 DEF Leads
  <2> QED BY <2>1, <2>3, <2>6, <1>3 DEF Led
<1> QED BY <1>5, <1>6, <1>7, <1>8, <1>9 DEF RowStep

LEMMA LedMake ==
    ASSUME Base, Led, Make
    PROVE  Led' /\ LedNew'
<1>1. Types /\ Stage /\ Ordered /\ Identified /\ Ids /\ Fits(kind, h)
  BY FitsBase
<1>2. /\ Base' /\ kind' = kind /\ want' = want /\ h' = h
      /\ row' = row /\ comp' = comp /\ old' = old /\ todo' = todo /\ lost' = lost
      /\ Within("create") /\ calls # <<>> /\ Head(calls) = "make" /\ h.by # "lookup"
  BY BaseMake
<1>3. todo # <<>> /\ Head(todo) = "create" /\ row = Row("creating", want, 0) /\ ~At("destroy", 3) /\ ~At("destroy", 3)'
  <2>1. todo # <<>> /\ Head(todo) = "create"
    BY <1>2 DEF Within, Doing
  <2>2. At("create", 2) \/ At("create", 4)
    BY <2>1, <1>1, Stations DEF Shape, At
  <2>3. row = Row("creating", want, 0)
    BY <2>2, <1>1 DEF Stage
  <2> QED BY <2>1, <2>3, <1>2 DEF At
<1>4. row.st = "creating" /\ row.in = want
  BY <1>3 DEF Row
<1>5. Ours \subseteq lost \cup Target(comp) \cup Conflicting
  BY <1>3, <1>4, ConflictingIs DEF Led, Leads
<1>6. CASE MakeNew
  <2>1. Ours' = Ours \cup {it'} /\ Conflicting = {}
    BY <1>6, <1>1, Grown DEF MakeNew
  <2>2. Target(comp) \subseteq Target(comp)' /\ it' \in Claims(want)'
    BY <1>6, GrownComp
  <2>3. Leads' = Claims(want)'
    <3>1. row'.in = want'
      BY <1>4, <1>2
    <3>2. Leads' = Claims(row.in)'
      BY <1>2, <1>3, <1>4 DEF Leads
    <3> QED BY <3>1, <3>2 DEF Claims
  <2> QED BY <2>1, <2>2, <2>3, <1>2, <1>5 DEF Led, LedNew
<1>7. CASE MakeOld
  <2>1. cloud' = cloud /\ it' \in Conflicting /\ Shrink
    BY <1>7, <1>1, Adopted
  <2>2. Led'
    BY <2>1, <1>2, <1>3, LedShrunk
  <2>3. Conflicting \subseteq {it'}
    BY <2>1, ClaimOne, ConflictingIs
  <2>4. Ours' \subseteq Ours /\ Ours' \cap Target(comp) \subseteq Target(comp)'
    BY <2>1, <1>2, KeptOurs
  <2>5. LedNew'
    BY <2>3, <2>4, <1>2, <1>5 DEF LedNew
  <2> QED BY <2>2, <2>5
<1> QED BY <1>6, <1>7, MakeEither

\* A lapsed token loses what only a write-ahead row led to.
LEMMA LedLapse ==
    ASSUME Base, Led, Lapse
    PROVE  Led'
<1>1. Types /\ Stage /\ Ordered /\ Identified /\ Ids /\ Fits(kind, h)
  BY FitsBase
<1>2. /\ row' = row /\ comp' = comp /\ todo' = todo /\ todo = <<>> /\ h.by = "token" /\ h' = h
      /\ lost \subseteq lost'
  BY BaseLapse DEF run
<1>3. ~At("destroy", 3) /\ ~At("destroy", 3)'
  BY <1>2 DEF At
<1>4. PICK i \in Marked, x \in Things :
              /\ i \in DOMAIN cloud /\ cloud' = [cloud EXCEPT ![i] = x]
              /\ x.mark = FALSE /\ x.up = cloud[i].up /\ x.set = cloud[i].set /\ x.ours = cloud[i].ours
              /\ cloud[i].up # "gone"
              /\ lost' = IF (row.st = "created" /\ i \in Target(row)) \/ i \in Target(comp)
                         THEN lost ELSE lost \cup {i}
  <2>1. PICK i \in Marked : 
              /\ cloud' = [cloud EXCEPT ![i].mark = FALSE]
              /\ lost' = IF (row.st = "created" /\ i \in Target(row)) \/ i \in Target(comp)
                         THEN lost ELSE lost \cup {i}
    BY DEF Lapse
  <2>2. i \in DOMAIN cloud /\ cloud[i] \in Things /\ cloud[i].up # "gone"
    BY <1>1, <2>1 DEF Marked, Objects, Exists, Types
  <2> DEFINE x == [cloud[i] EXCEPT !.mark = FALSE]
  <2>3. /\ x \in Things
        /\ x.mark = FALSE /\ x.up = cloud[i].up /\ x.set = cloud[i].set /\ x.ours = cloud[i].ours
    BY <2>2 DEF Things
  <2>4. cloud' = [cloud EXCEPT ![i] = x]
    BY <2>1
  <2> QED BY <2>1, <2>2, <2>3, <2>4
<1>5. /\ DOMAIN cloud' = DOMAIN cloud /\ cloud'[i] = x
      /\ \A j \in DOMAIN cloud : j # i => cloud'[j] = cloud[j]
  BY <1>1, <1>4, Replaced
<1>6. Objects' = Objects /\ Ours' = Ours
  <2>1. \A j \in DOMAIN cloud : cloud'[j].up = cloud[j].up /\ cloud'[j].ours = cloud[j].ours
    BY <1>4, <1>5
  <2>2. kind' = kind
    BY BaseLapse
  <2>3. Objects' = Objects
    BY <2>1, <1>5 DEF Objects, Exists
  <2> QED BY <2>1, <2>2, <2>3 DEF Ours, Live, Exists, Objects
<1>7. /\ Ours' \cap Target(comp) \subseteq Target(comp)'
      /\ Ours' \cap Target(row) \subseteq Target(row)'
  <2>1. Ours' \subseteq Objects'
    BY DEF Ours
  <2> QED BY <2>1, <1>1, <1>2, Shrunk_comp, Shrunk_row
<1>8. CASE row.st = "creating"
  <2>1. Leads = Claims(row.in) /\ Leads' = Claims(row.in)'
    BY <1>2, <1>3, <1>8 DEF Leads
  <2>2. Claims(row.in) \subseteq Claims(row.in)' \cup {i}
    <3>1. SUFFICES ASSUME NEW j \in Claims(row.in), j # i PROVE j \in Claims(row.in)'
      OBVIOUS
    <3>2. j \in Marked /\ \A f \in {"name", "imm"} : cloud[j].set[f] = row.in[f]
      BY <3>1, <1>2 DEF Claims
    <3>3. j \in DOMAIN cloud /\ cloud'[j] = cloud[j]
      BY <3>1, <3>2, <1>5 DEF Marked, Objects
    <3>4. j \in Marked'
      <4>1. kind' = kind
        BY BaseLapse
      <4> QED BY <3>2, <3>3, <4>1, <1>6 DEF Marked, Live, Exists
    <3> QED BY <3>2, <3>3, <3>4, <1>2 DEF Claims
  <2>3. i \in lost' \/ i \in Target(comp)
    BY <1>4, <1>8
  <2> QED BY <2>1, <2>2, <2>3, <1>2, <1>6, <1>7 DEF Led
<1>9. CASE row.st # "creating"
  <2>1. Leads = (IF row.st = "created" THEN Target(row) ELSE {})
        /\ Leads' = (IF row.st = "created" THEN Target(row)' ELSE {})
    BY <1>2, <1>3, <1>9 DEF Leads
  <2> QED BY <2>1, <1>2, <1>6, <1>7 DEF Led
<1> QED BY <1>8, <1>9

LEMMA LedNext ==
    ASSUME Base, Led, Destroying, Destroyed, LedNew, Next
    PROVE  Led'
<1>1. Types /\ Stage /\ Ordered /\ Identified /\ Ids /\ Fits(kind, h)
  BY FitsBase
<1>2. CASE RowStep
  BY <1>2, LedPlan, LedRow
<1>3. CASE Make
  BY <1>3, LedMake
<1>4. CASE Begin \/ Retry \/ StrokeStep \/ Delete
  <2>1. Shrink /\ row' = row /\ comp' = comp /\ lost \subseteq lost' /\ todo' = todo /\ old' = old
    BY <1>4, BaseBegin, BaseStroke, BaseDelete
  <2>2. At("destroy", 3)' <=> At("destroy", 3)
    BY <2>1 DEF At
  <2> QED BY <2>1, <2>2, LedShrunk
<1>5. CASE Background
  <2>1. Shrink /\ row' = row /\ comp' = comp /\ lost' = lost /\ todo' = todo /\ old' = old
    BY <1>5, BaseAround DEF Background, rows, run
  <2>2. At("destroy", 3)' <=> At("destroy", 3)
    BY <2>1 DEF At
  <2> QED BY <2>1, <2>2, LedShrunk
<1>6. CASE EditConfig \/ EditByHand
  <2>1. Shrink /\ row' = row /\ comp' = comp /\ lost' = lost /\ todo' = todo /\ old' = old
    BY <1>6, BaseAround DEF EditConfig, EditByHand, run
  <2>2. At("destroy", 3)' <=> At("destroy", 3)
    BY <2>1 DEF At
  <2> QED BY <2>1, <2>2, LedShrunk
<1>7. CASE Return
  <2>1. /\ Shrink /\ row' = row /\ comp' = comp /\ old' = old /\ lost' = lost /\ cloud' = cloud /\ kind' = kind
        /\ todo' = Tail(todo) /\ todo # <<>> /\ Head(todo) \in Operations /\ calls # <<>> /\ Head(calls) = "return"
    BY <1>7, BaseReturn
  <2>2. ~At("destroy", 3)'
    BY <2>1, <1>1, Stations DEF Shape, At, Operations
  <2>3. CASE ~At("destroy", 3)
    BY <2>1, <2>2, <2>3, LedShrunk
  <2>4. CASE At("destroy", 3)
    <3>1. Left = {"return"} /\ Within("destroy")
      BY <2>1, <2>4, <1>1, Onward DEF Within, Doing, At
    <3>2. Target(old) \cap Ours \subseteq lost
      <4>1. (Target(old) \cap Ours) \ lost # {} =>
              IF "gone" \in ToSet(h.delete) THEN "gone" \in Left ELSE "delete" \in Left
        BY <3>1 DEF Destroying
      <4> QED BY <3>1, <4>1
    <3>3. row.st = "creating"
      BY <2>4, <1>1 DEF Stage, Row
    <3>4. Ours \subseteq lost \cup Target(comp)
      BY <2>4, <3>2, <3>3 DEF Led, Leads
    <3>5. Ours' \subseteq Ours /\ Ours' \cap Target(comp) \subseteq Target(comp)'
      BY <2>1, KeptOurs
    <3> QED BY <3>4, <3>5, <2>1 DEF Led
  <2> QED BY <2>3, <2>4
<1>8. CASE Abandoned
  <2>1. /\ Shrink /\ cloud' = cloud /\ kind' = kind /\ row' = row /\ comp' = comp
        /\ old' = NoRow /\ todo' = <<>>
    BY <1>8, BaseAbandoned
  <2>2. ~At("destroy", 3)'
    BY <2>1 DEF At
  <2>3. CASE CutShort = {"replaced"}
    <3>1. todo = <<"destroy", "create", "persist">>
      BY <2>3 DEF CutShort
    <3>2. todo # <<>>
      BY <3>1
    <3>3. At("destroy", 3)
      BY <3>1, <3>2, <1>1, Stations
    <3>4. row = Row("creating", want, 0)
      BY <3>3, <1>1 DEF Stage
    <3>5. row.st = "creating" /\ row.in = want
      BY <3>4 DEF Row
    <3>6. lost' = lost \cup (Ours \ (Claims(want) \cup Target(comp)))
      BY <1>8, <2>3, ConflictingIs DEF Abandoned, Strays
    <3>7. Leads' = Claims(row.in)'
      BY <3>5, <2>1, <2>2 DEF Leads
    <3>8. PICK r, c, w : r = row /\ c = comp /\ w = want
      OBVIOUS
    <3>9. Claims(row.in)' = Claims(row.in) /\ Target(comp)' = Target(comp) /\ Ours' = Ours
      BY <2>1, <3>8, SameCloud, SameRows
    <3> QED BY <3>5, <3>6, <3>7, <3>9 DEF Led
  <2>4. CASE CutShort # {"replaced"}
    <3>2. ~At("destroy", 3)
      <4>1. SUFFICES ASSUME At("destroy", 3) PROVE FALSE
        OBVIOUS
      <4>2. todo # <<>> /\ todo = <<"destroy", "create", "persist">> /\ Len(todo) # 5 /\ "forget" \notin ToSet(todo)
        BY <4>1, <1>1, Stations DEF At, Shape
      <4> QED BY <4>2, <2>4 DEF CutShort
    <3>3. lost' = lost
      BY <1>8, <2>4 DEF Abandoned
    <3> QED BY <3>2, <3>3, <2>1, <2>2, LedShrunk
  <2> QED BY <2>3, <2>4
<1>9. CASE Refresh
  <2>1. /\ Base' /\ Shrink /\ kind' = kind /\ h' = h /\ comp' = comp /\ todo' = todo /\ lost' = lost
        /\ todo = <<>> /\ cloud' = cloud /\ row.st = "created"
    BY <1>9, BaseAround DEF run, Refresh
  <2>2. ~At("destroy", 3)' /\ ~At("destroy", 3)
    BY <2>1 DEF At
  <2>3. PICK r, c : r = row /\ c = comp
    OBVIOUS
  <2>4. Target(comp)' = Target(comp) /\ Ours' = Ours
    BY <2>1, <2>3, SameCloud, SameRows
  <2>5. Ours \subseteq lost \cup Target(comp) \cup Target(row)
    BY <2>1 DEF Led, Leads
  <2>6. Target(row) = IF h.by = "tag" /\ row.id = 0 THEN Marked ELSE Held(row) \cap Objects
    BY <1>1, <2>1, Targets
  <2>7. h.by = "tag" => row.id # 0
    <3>1. h.by = "lookup" <=> row.id = 0
      BY <1>1, <2>1 DEF Ids
    <3> QED BY <3>1
  <2>8. CASE {i \in Held(row) : Exists(i) /\ Live(i)} = {}
    <3>1. Target(row) \cap Ours = {}
      BY <2>6, <2>7, <2>8 DEF Ours, Objects
    <3> QED BY <3>1, <2>1, <2>4, <2>5 DEF Led
  <2>9. CASE {i \in Held(row) : Exists(i) /\ Live(i)} # {}
    <3>1. PICK i \in Held(row) : Exists(i) /\ row' = [row EXCEPT !.in = [f \in Settings |-> IF f \in h.reads THEN cloud[i].set[f]
                                                               ELSE @[f]]]
      BY <1>9, <2>9 DEF Refresh
    <3>2. row \in Rows
      BY <1>1 DEF Types
    <3>3. PICK g : g = [f \in Settings |-> IF f \in h.reads THEN cloud[i].set[f] ELSE row.in[f]]
      OBVIOUS
    <3>4. row' = [row EXCEPT !.in = g]
      BY <3>1, <3>3
    <3>5. row'.st = row.st /\ row'.id = row.id /\ row'.in = g
      BY <3>2, <3>4 DEF Rows
    <3>6. g["name"] = row.in["name"]
      <4>1. "name" \notin h.reads /\ "name" \in Settings
        BY <1>1 DEF Fits, Shaped, Settings
      <4> QED BY <3>3, <4>1
    <3>7. PICK s : s = row'
      OBVIOUS
    <3>8. Target(s) = Target(row)
      BY <3>5, <3>6, <3>7 DEF Target, Held
    <3>9. Target(row)' = Target(row)
      BY <3>7, <3>8, <2>1, SameCloud, SameRows
    <3> QED BY <3>5, <3>9, <2>1, <2>4, <2>5 DEF Led, Leads
  <2> QED BY <2>8, <2>9
<1>10. CASE Lapse
  BY <1>10, LedLapse
<1> QED BY Moves, <1>2, <1>3, <1>4, <1>5, <1>6, <1>7, <1>8, <1>9, <1>10

LEMMA LedNewShrunk ==
    ASSUME Base, LedNew, Shrink, comp' = comp, it' = it, lost \subseteq lost',
           (Creating \/ Wrote)' => Creating \/ Wrote
    PROVE  LedNew'
<1>1. Ours' \subseteq Ours /\ Ours' \cap Target(comp) \subseteq Target(comp)'
  BY KeptOurs
<1>2. (Creating' \/ Wrote') => Ours \subseteq lost \cup Target(comp) \cup {it}
  BY DEF LedNew
<1> QED BY <1>1, <1>2 DEF LedNew

LEMMA LedNewNext ==
    ASSUME Base, Led, LedNew, Next
    PROVE  LedNew'
<1>1. Types /\ Stage /\ Ordered /\ Identified /\ Ids /\ Fits(kind, h)
  BY FitsBase
<1>0. ASSUME ~Creating', ~Wrote' PROVE LedNew'
  BY <1>0 DEF LedNew
<1>2. CASE RowStep
  <2>1. calls' = <<>>
    BY <1>2, BaseRow
  <2>2. ~Creating'
    BY <2>1 DEF Creating, Within
  <2>3. ~Wrote'
    <3>1. CASE Plan
      BY <3>1, PlanShape DEF Shape, Wrote, Doing
    <3>2. CASE ~Plan
      <4>1. todo # <<>> /\ todo' = Tail(todo) /\ Head(todo) \in {"companion", "ahead", "persist", "forget", "uncompanion"}
        BY <1>2, <3>2 DEF RowStep, CopyToCompanion, WriteAhead, Persist, Forget, DropCompanion, Written
      <4>2. todo' = <<>> \/ Head(todo') # "persist"
        BY <4>1, <1>1, Stations DEF Shape
      <4> QED BY <4>2 DEF Wrote, Doing
    <3> QED BY <3>1, <3>2
  <2> QED BY <2>2, <2>3, <1>0
<1>3. CASE Make
  BY <1>3, LedMake
<1>4. CASE Begin
  <2>1. todo' = todo /\ todo # <<>> /\ Head(todo) \in Operations
    BY <1>4, BaseBegin DEF Begin
  <2>2. ~Wrote'
    BY <2>1 DEF Wrote, Doing, Operations
  <2>3. ~Creating'
    <3>1. Head(todo) = "create" => it' = 0
      BY <1>4 DEF Begin
    <3> QED BY <3>1, <2>1 DEF Creating, Within, Doing
  <2> QED BY <2>2, <2>3, <1>0
<1>5. CASE Retry
  <2>1. Shrink /\ row' = row /\ comp' = comp /\ lost \subseteq lost' /\ todo' = todo
    BY <1>5, BaseBegin
  <2>2. it' = it /\ calls' = <<>>
    BY <1>5 DEF Retry
  <2>3. (Creating \/ Wrote)' => Creating \/ Wrote
    BY <2>1, <2>2 DEF Creating, Wrote, Within, Doing
  <2> QED BY <2>1, <2>2, <2>3, LedNewShrunk
<1>6. CASE StrokeStep \/ Delete
  <2>1. /\ Shrink /\ row' = row /\ comp' = comp /\ lost' = lost /\ todo' = todo /\ it' = it
        /\ \A op : Within(op)' => Within(op)
    BY <1>6, BaseStroke, BaseDelete
  <2>3. (Creating \/ Wrote)' => Creating \/ Wrote
    BY <2>1 DEF Creating, Wrote, Doing
  <2> QED BY <2>1, <2>3, LedNewShrunk
<1>7. CASE Return
  <2>1. /\ Shrink /\ row' = row /\ comp' = comp /\ it' = it /\ lost' = lost /\ calls # <<>> /\ Head(calls) = "return"
        /\ calls' = <<>> /\ todo' = Tail(todo) /\ todo # <<>> /\ Head(todo) \in Operations
    BY <1>7, BaseReturn
  <2>2. ~Creating'
    BY <2>1 DEF Creating, Within
  <2>3. CASE Head(todo) = "create" /\ it = 0
    <3>1. Within("create")
      BY <2>1, <2>3 DEF Within, Doing
    <3>2. calls = IF h.by = "lookup" THEN <<"return">> ELSE <<"make">>
      BY <3>1, <2>3, <1>1 DEF Ordered
    <3>3. h.by = "lookup"
      BY <3>2, <2>1
    <3>4. Ours = {} /\ Ours' \subseteq Ours
      BY <3>3, <2>1, NoneOurs, KeptOurs
    <3> QED BY <3>4 DEF LedNew
  <2>4. CASE Head(todo) = "create" /\ it # 0
    <3>1. Creating
      BY <2>1, <2>4 DEF Creating, Within, Doing
    <3> QED BY <3>1, <2>1, LedNewShrunk
  <2>5. CASE Head(todo) = "update"
    <3>1. At("update", 2)
      BY <2>1, <2>5, <1>1, Stations DEF Shape, At
    <3>2. row.st = "created"
      BY <3>1, <1>1 DEF Stage
    <3>3. ~Wrote'
      BY <3>2, <2>1 DEF Wrote
    <3> QED BY <3>3, <2>2, <1>0
  <2>6. CASE Head(todo) = "destroy"
    <3>1. Head(todo') # "persist"
      BY <2>1, <2>6, <1>1, Stations DEF Shape
    <3>2. ~Wrote'
      BY <3>1 DEF Wrote, Doing
    <3> QED BY <3>2, <2>2, <1>0
  <2> QED BY <2>1, <2>3, <2>4, <2>5, <2>6 DEF Operations
<1>8. CASE Abandoned \/ EditConfig \/ EditByHand \/ Refresh \/ Lapse
  <2>1. todo' = <<>>
    BY <1>8, BaseAbandoned, BaseAround, BaseLapse DEF EditConfig, EditByHand, Refresh, Between, run
  <2> QED BY <2>1, <1>0 DEF Creating, Wrote, Within, Doing
<1>9. CASE Background
  <2>1. Shrink /\ row' = row /\ comp' = comp /\ lost' = lost /\ todo' = todo /\ it' = it /\ calls' = calls
    BY <1>9, BaseAround DEF Background, rows, run
  <2>2. (Creating \/ Wrote)' => Creating \/ Wrote
    BY <2>1 DEF Creating, Wrote, Within, Doing
  <2> QED BY <2>1, <2>2, LedNewShrunk
<1> QED BY Moves, <1>2, <1>3, <1>4, <1>5, <1>6, <1>7, <1>8, <1>9

TrackedInv == Base /\ Destroying /\ Destroyed /\ Led /\ LedNew

LEMMA AtMostOne ==
    ASSUME NEW S, \A i, j \in S : i = j
    PROVE  \E x : S \subseteq {x}
<1>1. CASE S = {}
  BY <1>1
<1>2. CASE S # {}
  <2>1. PICK x : x \in S
    BY <1>2
  <2> QED BY <2>1
<1> QED BY <1>1, <1>2

LEMMA TrackedFollows ==
    ASSUME TrackedInv
    PROVE  Tracked
<1>1. Base /\ Types /\ Stage /\ Ordered /\ Identified /\ Ids /\ Fits(kind, h) /\ Led
  BY FitsBase DEF TrackedInv
<1> SUFFICES ASSUME todo = <<>> PROVE Tracked
  BY DEF Tracked
<1>2. ~At("destroy", 3)
  BY DEF At
<1> DEFINE X == CASE row.st = "created" -> Target(row)
                  [] row.st = "creating" -> Claims(row.in)
                  [] OTHER -> {}
<1>3. Leads \subseteq X
  BY <1>2 DEF Leads
<1>4. Ours \subseteq (Target(comp) \cup X) \cup lost
  BY <1>3, <1>1 DEF Led
<1>5. PICK a : Target(comp) \subseteq {a}
  BY <1>1, TargetOne, AtMostOne
<1>6. PICK b : Leads \subseteq {b}
  <2>1. \A i, j \in Leads : i = j
    BY <1>1, TargetOne, ClaimOne DEF Leads
  <2> QED BY <2>1, AtMostOne
<1>7. Ours \ lost \subseteq Target(comp) \cup {b}
  BY <1>1, <1>6 DEF Led
<1>8. Cardinality({b}) = 1 /\ IsFiniteSet({b})
  BY FS_Singleton
<1>9. Cardinality({a, b}) <= 2 /\ IsFiniteSet({a, b}) /\ Cardinality({a, b}) \in Nat
  <2>1. /\ Cardinality({b} \cup {a}) = IF a \in {b} THEN Cardinality({b}) ELSE Cardinality({b}) + 1
        /\ IsFiniteSet({b} \cup {a})
    BY <1>8, FS_AddElement
  <2>2. {b} \cup {a} = {a, b}
    OBVIOUS
  <2> QED BY <1>8, <2>1, <2>2
<1>10. Cardinality(Ours \ lost) <= IF comp.st = "none" THEN 1 ELSE 2
  <2>1. CASE comp.st = "none"
    <3>0. Target(comp) = {}
      BY <2>1 DEF Target
    <3>1. Ours \ lost \subseteq {b}
      BY <3>0, <1>7
    <3>2. Cardinality(Ours \ lost) <= 1
      BY <3>1, <1>8, FS_Subset
    <3> QED BY <2>1, <3>2
  <2>2. CASE comp.st # "none"
    <3>1. Ours \ lost \subseteq {a, b}
      BY <1>5, <1>7
    <3>2. Cardinality(Ours \ lost) <= Cardinality({a, b}) /\ Cardinality(Ours \ lost) \in Nat
      <4>1. IsFiniteSet(Ours \ lost) /\ Cardinality(Ours \ lost) <= Cardinality({a, b})
        BY <3>1, <1>9, FS_Subset
      <4> QED BY <4>1, FS_CardinalityType
    <3>3. Cardinality(Ours \ lost) <= 2
      BY <3>2, <1>9
    <3> QED BY <2>2, <3>3
  <2> QED BY <2>1, <2>2
<1> QED BY <1>4, <1>10 DEF Tracked

\* However often create_or_adopt is cut short between its create call and the row
\* that records it, retried, or run again under another config: what was made for the
\* node is led to by a row between runs, unless it was lost (a later write-ahead row
\* leads elsewhere; the write-ahead row of a type known only by its id is dropped; a
\* certificate's token lapsed before a row had its id; a subscription's delete passed
\* over it, pending); and there are at most two of it, the second behind the companion row.
THEOREM ResourcesTracked == Spec => []Tracked
<1>1. Init => TrackedInv
  <2> SUFFICES ASSUME Init PROVE TrackedInv
    OBVIOUS
  <2>1. Base
    BY BaseInit
  <2>2. todo = <<>> /\ calls = <<>>
    BY DEF Init
  <2>3. Ours = {}
    <3>1. \A i \in DOMAIN cloud : ~cloud[i].ours
      <4>1. PICK d : d = Object(First, FALSE, "active", FALSE)
        OBVIOUS
      <4>2. cloud = <<>> \/ cloud = <<d>>
        BY <4>1 DEF Init
      <4>3. ~d.ours
        BY <4>1 DEF Object
      <4> QED BY <4>2, <4>3
    <3> QED BY <3>1 DEF Ours, Objects
  <2> QED BY <2>1, <2>2, <2>3 DEF TrackedInv, Destroying, Destroyed, Led, LedNew, Creating, Wrote, Within, Doing, At
<1>2. TrackedInv /\ [Next]_vars => TrackedInv'
  <2> SUFFICES ASSUME TrackedInv, [Next]_vars PROVE TrackedInv'
    OBVIOUS
  <2>0. Base /\ Destroying /\ Destroyed /\ Led /\ LedNew
    BY DEF TrackedInv
  <2>1. Base'
    BY <2>0, BaseNext
  <2>2. CASE Next
    BY <2>0, <2>1, <2>2, DestroyingNext, DestroyedNext, LedNext, LedNewNext DEF TrackedInv
  <2>3. CASE UNCHANGED vars
    <3>1. /\ Shrink /\ cloud' = cloud /\ kind' = kind /\ want' = want /\ row' = row /\ comp' = comp /\ old' = old
          /\ todo' = todo /\ calls' = calls /\ it' = it /\ lost' = lost /\ h' = h
      <4>1. Types
        BY <2>0 DEF Base
      <4> QED BY <4>1, <2>3, ShrinkNone DEF vars, h
    <3>2. \A op, n : At(op, n)' <=> At(op, n)
      BY <3>1 DEF At
    <3>3. Led'
      BY <3>1, <3>2, <2>0, LedShrunk
    <3>4. LedNew'
      <4>1. (Creating \/ Wrote)' => Creating \/ Wrote
        BY <3>1 DEF Creating, Wrote, Within, Doing
      <4> QED BY <4>1, <3>1, <2>0, LedNewShrunk
    <3>5. Destroyed'
      BY <3>1, <3>2, <2>0, KeptOurs DEF Destroyed
    <3>6. Destroying'
      <4>1. Within("destroy")' <=> Within("destroy")
        BY <3>1 DEF Within, Doing
      <4>2. Target(old)' \cap Ours' \subseteq Target(old) \cap Ours /\ Left' = Left /\ lost' = lost
        BY <3>1, <2>0, KeptOurs DEF Left
      <4>3. CASE Within("destroy")
        <5>1. (Target(old)' \cap Ours') \ lost' # {} =>
              IF "gone" \in ToSet(h.delete) THEN "gone" \in Left' ELSE "delete" \in Left'
          BY <4>2, <4>3, <2>0 DEF Destroying
        <5> QED BY <5>1, <4>3, <3>1, <2>0, DestroyingShrunk
      <4> QED BY <4>1, <4>3, DestroyingNone
    <3> QED BY <2>1, <3>3, <3>4, <3>5, <3>6 DEF TrackedInv
  <2> QED BY <2>2, <2>3
<1>3. TrackedInv => Tracked
  BY TrackedFollows
<1> QED BY <1>1, <1>2, <1>3, PTL DEF Spec

----------------------------------------------------------------------------
(* What a call does to its object, and that the object is the row's.       *)

\* The facets a call changes.
Aims(call) ==
    CASE call \in {"stamp", "untag", "tag", "settags"} -> {"tags"}
      [] call \in {"authorize", "revoke", "relabel", "unroute", "route"} -> {"entries"}
      [] call = "attach" -> {"imm"}
      [] call = "disassociate" -> {"late"}
      [] call \in {"body", "late"} -> {call}
      [] OTHER -> {}

LEMMA Changes ==
    ASSUME Types, Here, NEW f \in Settings, NEW v, cloud' = [cloud EXCEPT ![it].set[f] = v]
    PROVE  /\ cloud'[it].set[f] = v /\ \A g \in Settings \ {f} : cloud'[it].set[g] = cloud[it].set[g]
           /\ \A j \in DOMAIN cloud \ {it} : cloud'[j] = cloud[j]
           /\ cloud'[it].up = cloud[it].up
<1>1. it \in DOMAIN cloud /\ cloud[it] \in Things /\ cloud[it].set \in Facets
  BY ItHere
<1> DEFINE s == [cloud[it].set EXCEPT ![f] = v]
           x == [cloud[it] EXCEPT !.set = s]
<1>2. cloud' = [cloud EXCEPT ![it] = x]
  OBVIOUS
<1>3. s[f] = v /\ \A g \in Settings \ {f} : s[g] = cloud[it].set[g]
  BY <1>1 DEF Facets, Settings
<1>4. x.set = s /\ x.up = cloud[it].up
  <2> HIDE DEF s
  <2> QED BY <1>1 DEF Things
<1>5. cloud'[it] = x /\ \A j \in DOMAIN cloud \ {it} : cloud'[j] = cloud[j]
  <2> HIDE DEF x
  <2> QED BY <1>1, <1>2
<1> HIDE DEF x, s
<1> QED BY <1>3, <1>4, <1>5

LEMMA ChangesTo ==
    ASSUME Types, Here, NEW f \in Settings, NEW v, Facet(f, v)
    PROVE  /\ cloud'[it].set[f] = v /\ \A g \in Settings \ {f} : cloud'[it].set[g] = cloud[it].set[g]
           /\ \A j \in DOMAIN cloud \ {it} : cloud'[j] = cloud[j]
           /\ cloud'[it].up = cloud[it].up
           /\ seen' = seen /\ calls' = Tail(calls)
  BY Changes DEF Facet, Changed, Done

LEMMA Effects ==
    ASSUME Types, Here, StrokeStep, NEW hd, hd = Head(calls), NEW c, c = cloud[it].set, NEW d, d = cloud'[it].set
    PROVE  /\ \A j \in DOMAIN cloud : j # it => cloud'[j] = cloud[j]
           /\ \A f \in Settings \ Aims(hd) : d[f] = c[f]
           /\ hd \in {"stamp", "tag"} => d.tags = c.tags \cup want.tags
           /\ hd = "untag" => d.tags = c.tags \ (seen.tags \ want.tags)
           /\ hd = "settags" => d.tags = want.tags
           /\ hd = "body" => d.body = want.body
           /\ hd = "late" => d.late = want.late
           /\ hd = "attach" => d.imm = want.imm
           /\ hd = "authorize" => \A k \in Keys : d.entries[k] = IF seen.entries[k] = 0 /\ want.entries[k] # 0
                                                               THEN want.entries[k] ELSE c.entries[k]
           /\ hd = "revoke" => \A k \in Keys : d.entries[k] = IF want.entries[k] = 0 THEN 0 ELSE c.entries[k]
           /\ hd = "relabel" => d.entries = want.entries
           /\ hd = "unroute" => \A k \in Keys : d.entries[k] = c.entries[k] \/ (d.entries[k] = 0 /\ want.entries[k] = 0)
           /\ hd = "route" => /\ \A k \in Keys : d.entries[k] = c.entries[k] \/ d.entries[k] = want.entries[k]
                              /\ calls' # calls => d.entries = want.entries
           /\ hd = "listed" => seen' = c
           /\ hd # "listed" => seen' = seen
           /\ hd \notin {"unroute", "route"} => calls' = Tail(calls)
           /\ hd = "body" \/ hd \notin Setting \/ hd = "attach" \/ cloud'[it].up = cloud[it].up
           /\ hd = "active" => cloud[it].up = "active"
<1>1. it \in DOMAIN cloud /\ cloud[it] \in Things /\ c \in Facets /\ want \in Facets /\ {"imm", "body", "late", "tags", "entries"} \subseteq Settings
  BY ItHere DEF Types, Settings
<1>2. CASE Stamp
  <2>1. hd = "stamp" /\ cloud' = [cloud EXCEPT ![it].set.tags = @ \cup want.tags, ![it].mark = TRUE] /\ seen' = seen /\ calls' = Tail(calls)
    BY <1>2 DEF Stamp, Calling, Done
  <2> DEFINE s == [cloud[it].set EXCEPT !["tags"] = cloud[it].set.tags \cup want.tags]
             y == [cloud[it] EXCEPT !.set = s]
             c1 == [cloud EXCEPT ![it] = y]
  <2>4. cloud' = [c1 EXCEPT ![it] = [c1[it] EXCEPT !.mark = TRUE]]
    BY <2>1
  <2>5. c1[it] = y /\ DOMAIN c1 = DOMAIN cloud /\ \A j \in DOMAIN cloud \ {it} : c1[j] = cloud[j]
    BY <1>1
  <2>6. y.set = s /\ y \in Things /\ y.up = cloud[it].up
    <3>1. c.tags \cup want.tags \in SUBSET Tags
      BY <1>1 DEF Facets
    <3>2. s \in Facets
      BY <3>1, <1>1 DEF Facets
    <3> HIDE DEF s
    <3> QED BY <1>1, <3>2 DEF Things
  <2>7. s["tags"] = c["tags"] \cup want["tags"] /\ \A g \in Settings \ {"tags"} : s[g] = c[g]
    BY <1>1 DEF Facets, Settings
  <2>8. cloud'[it].set = s /\ cloud'[it].up = cloud[it].up /\ \A j \in DOMAIN cloud \ {it} : cloud'[j] = cloud[j]
    <3> HIDE DEF y, s
    <3>1. PICK z : z = [y EXCEPT !.mark = TRUE]
      OBVIOUS
    <3>2. z.set = s /\ z.up = cloud[it].up
      BY <3>1, <2>6 DEF Things
    <3>3. cloud' = [c1 EXCEPT ![it] = z]
      BY <2>4, <2>5, <3>1
    <3> HIDE DEF c1
    <3> QED BY <2>5, <3>2, <3>3, <1>1
  <2> HIDE DEF s, y, c1
  <2> QED BY <2>1, <2>7, <2>8 DEF Aims
<1>3. CASE PutBody
  <2>1. hd = "body" /\ seen' = seen /\ calls' = Tail(calls)
        /\ cloud' = [cloud EXCEPT ![it].set.body = want.body,
                              ![it].up = CASE kind = "LambdaFunction" -> "pending"
                                           [] kind = "CloudFrontDistribution" -> "active"
                                           [] OTHER -> @]
    BY <1>3 DEF PutBody, Calling, Done
  <2> DEFINE s == [cloud[it].set EXCEPT !["body"] = want.body]
             y == [cloud[it] EXCEPT !.set = s]
             c1 == [cloud EXCEPT ![it] = y]
  <2>4. PICK u : cloud' = [c1 EXCEPT ![it] = [c1[it] EXCEPT !.up = u]]
    BY <2>1
  <2>5. c1[it] = y /\ DOMAIN c1 = DOMAIN cloud /\ \A j \in DOMAIN cloud \ {it} : c1[j] = cloud[j]
    BY <1>1
  <2>6. y.set = s /\ y \in Things
    <3>1. s \in Facets
      BY <1>1 DEF Facets
    <3> HIDE DEF s
    <3> QED BY <1>1, <3>1 DEF Things
  <2>7. s["body"] = want["body"] /\ \A g \in Settings \ {"body"} : s[g] = c[g]
    BY <1>1 DEF Facets, Settings
  <2>8. cloud'[it].set = s /\ \A j \in DOMAIN cloud \ {it} : cloud'[j] = cloud[j]
    <3> HIDE DEF y, s
    <3>1. PICK z : z = [y EXCEPT !.up = u]
      OBVIOUS
    <3>2. z.set = s
      BY <3>1, <2>6 DEF Things
    <3>3. cloud' = [c1 EXCEPT ![it] = z]
      BY <2>4, <2>5, <3>1
    <3> HIDE DEF c1
    <3> QED BY <2>5, <3>2, <3>3, <1>1
  <2> HIDE DEF s, y, c1
  <2> QED BY <2>1, <2>7, <2>8 DEF Aims
<1>4. CASE Attach
  <2>1. hd = "attach" /\ seen' = seen /\ calls' = Tail(calls)
        /\ cloud' = [cloud EXCEPT ![it].set.imm = want.imm, ![it].up = "attached"]
    BY <1>4 DEF Attach, Calling, Done
  <2> DEFINE s == [cloud[it].set EXCEPT !["imm"] = want.imm]
             y == [cloud[it] EXCEPT !.set = s]
             c1 == [cloud EXCEPT ![it] = y]
  <2>4. cloud' = [c1 EXCEPT ![it] = [c1[it] EXCEPT !.up = "attached"]]
    BY <2>1
  <2>5. c1[it] = y /\ DOMAIN c1 = DOMAIN cloud /\ \A j \in DOMAIN cloud \ {it} : c1[j] = cloud[j]
    BY <1>1
  <2>6. y.set = s /\ y \in Things
    <3>1. s \in Facets
      BY <1>1 DEF Facets
    <3> HIDE DEF s
    <3> QED BY <1>1, <3>1 DEF Things
  <2>7. s["imm"] = want["imm"] /\ \A g \in Settings \ {"imm"} : s[g] = c[g]
    BY <1>1 DEF Facets, Settings
  <2>8. cloud'[it].set = s /\ \A j \in DOMAIN cloud \ {it} : cloud'[j] = cloud[j]
    <3> HIDE DEF y, s
    <3>1. PICK z : z = [y EXCEPT !.up = "attached"]
      OBVIOUS
    <3>2. z.set = s
      BY <3>1, <2>6 DEF Things
    <3>3. cloud' = [c1 EXCEPT ![it] = z]
      BY <2>4, <2>5, <3>1
    <3> HIDE DEF c1
    <3> QED BY <2>5, <3>2, <3>3, <1>1
  <2> HIDE DEF s, y, c1
  <2> QED BY <2>1, <2>7, <2>8 DEF Aims
<1>5. CASE PutLate
  BY <1>5, <1>1, ChangesTo DEF PutLate, Calling, Aims
<1>6. CASE SetTags
  BY <1>6, <1>1, ChangesTo DEF SetTags, Calling, Aims
<1>7. CASE Untag
  BY <1>7, <1>1, ChangesTo DEF Untag, Calling, Aims
<1>8. CASE Tag
  BY <1>8, <1>1, ChangesTo DEF Tag, Calling, Aims
<1>9. CASE Authorize
  BY <1>9, <1>1, ChangesTo DEF Authorize, Entries, Calling, Aims
<1>10. CASE Revoke
  BY <1>10, <1>1, ChangesTo DEF Revoke, Entries, Calling, Aims
<1>11. CASE Relabel
  BY <1>11, <1>1, ChangesTo DEF Relabel, Calling, Aims
<1>12. CASE Describe
  <2>1. hd = "listed" /\ seen' = c /\ cloud' = cloud /\ calls' = Tail(calls)
    BY <1>12 DEF Describe, Calling, Done
  <2> QED BY <2>1 DEF Aims
<1>l. ASSUME NEW k \in Keys, NEW v, cloud' = [cloud EXCEPT ![it].set.entries[k] = v]
      PROVE  /\ \A f \in Settings \ {"entries"} : d[f] = c[f]
             /\ \A j \in DOMAIN cloud : j # it => cloud'[j] = cloud[j]
             /\ d.entries[k] = v /\ \A l \in Keys \ {k} : d.entries[l] = c.entries[l]
             /\ cloud'[it].up = cloud[it].up
  <2>1. PICK e : e = [c.entries EXCEPT ![k] = v]
    OBVIOUS
  <2>2. cloud' = [cloud EXCEPT ![it].set["entries"] = e]
    BY <2>1, <1>l
  <2>3. /\ cloud'[it].set["entries"] = e /\ \A g \in Settings \ {"entries"} : cloud'[it].set[g] = cloud[it].set[g]
        /\ \A j \in DOMAIN cloud \ {it} : cloud'[j] = cloud[j]
        /\ cloud'[it].up = cloud[it].up
    BY <2>2, <1>1, Changes
  <2>4. c.entries \in [Keys -> Nat]
    BY <1>1 DEF Facets
  <2> QED BY <2>1, <2>3, <2>4
<1>13. CASE Unroute
  <2>1. hd = "unroute" /\ Loop({k \in Differing : want.entries[k] = 0}, LAMBDA k : 0)
    BY <1>13 DEF Unroute, Calling
  <2>2. seen' = seen /\ \/ cloud' = cloud
                        \/ \E k \in {k \in Differing : want.entries[k] = 0} : cloud' = [cloud EXCEPT ![it].set.entries[k] = 0]
    BY <2>1 DEF Loop
  <2>3. CASE cloud' = cloud
    BY <2>1, <2>2, <2>3 DEF Aims
  <2>4. CASE \E k \in {k \in Differing : want.entries[k] = 0} : cloud' = [cloud EXCEPT ![it].set.entries[k] = 0]
    <3>1. PICK k \in Keys : want.entries[k] = 0 /\ cloud' = [cloud EXCEPT ![it].set.entries[k] = 0]
      BY <2>4 DEF Differing
    <3> QED BY <3>1, <1>l, <2>1, <2>2 DEF Aims
  <2> QED BY <2>2, <2>3, <2>4
<1>14. CASE Route
  <2>1. hd = "route" /\ Loop(Differing, LAMBDA k : want.entries[k])
    BY <1>14 DEF Route, Calling
  <2>2. seen' = seen /\ \/ Differing = {} /\ cloud' = cloud
                        \/ calls' = calls /\ \E k \in Differing : cloud' = [cloud EXCEPT ![it].set.entries[k] = want.entries[k]]
    BY <2>1 DEF Loop
  <2>3. CASE Differing = {} /\ cloud' = cloud
    <3>1. \A k \in Keys : c.entries[k] = want.entries[k]
      BY <2>3 DEF Differing
    <3>2. c.entries \in [Keys -> Nat] /\ want.entries \in [Keys -> Nat]
      BY <1>1 DEF Facets
    <3>3. c.entries = want.entries
      BY <3>1, <3>2
    <3> QED BY <3>3, <2>1, <2>2, <2>3 DEF Aims
  <2>4. CASE calls' = calls /\ \E k \in Differing : cloud' = [cloud EXCEPT ![it].set.entries[k] = want.entries[k]]
    <3>1. PICK k \in Keys : cloud' = [cloud EXCEPT ![it].set.entries[k] = want.entries[k]]
      BY <2>4 DEF Differing
    <3>2. /\ \A f \in Settings \ {"entries"} : d[f] = c[f]
          /\ \A j \in DOMAIN cloud : j # it => cloud'[j] = cloud[j]
          /\ \A l \in Keys : d.entries[l] = c.entries[l] \/ d.entries[l] = want.entries[l]
          /\ cloud'[it].up = cloud[it].up
      BY <3>1, <1>l
    <3> QED BY <3>2, <2>1, <2>2, <2>4 DEF Aims
  <2> QED BY <2>2, <2>3, <2>4
<1>15. CASE Detach \/ Disable
  <2>1. PICK u : hd \in {"detach", "disable"} /\ cloud' = [cloud EXCEPT ![it].up = u] /\ seen' = seen /\ calls' = Tail(calls)
    BY <1>15 DEF Detach, Disable, Turn, Calling, Done
  <2>2. PICK z : z = [cloud[it] EXCEPT !.up = u]
    OBVIOUS
  <2>3. z.set = c
    BY <2>2, <1>1 DEF Things
  <2>4. cloud'[it] = z /\ \A j \in DOMAIN cloud : j # it => cloud'[j] = cloud[j]
    BY <2>1, <2>2, <1>1
  <2> QED BY <2>1, <2>3, <2>4 DEF Aims, Setting
<1>16. CASE Await
  <2>1. hd \in Waits /\ cloud' = cloud /\ seen' = seen /\ calls' = Tail(calls) /\ (hd = "active" => cloud[it].up = "active")
    BY <1>16 DEF Await, Calling, Done, Reached, Waits
  <2> QED BY <2>1 DEF Aims, Waits
<1>17. CASE Disassociate
  BY <1>17, <1>1, ChangesTo DEF Disassociate, Calling, Aims, Setting
<1> QED BY <1>2, <1>3, <1>4, <1>5, <1>6, <1>7, <1>8, <1>9, <1>10, <1>11, <1>12, <1>13, <1>14, <1>15, <1>16,
          <1>17 DEF StrokeStep

\* A token that lapses changes nothing else of an object.
LEMMA LapseKept ==
    ASSUME Types, Lapse
    PROVE  /\ DOMAIN cloud' = DOMAIN cloud
           /\ \A i \in DOMAIN cloud :
                 /\ cloud'[i].set = cloud[i].set /\ cloud'[i].up = cloud[i].up /\ cloud'[i].ours = cloud[i].ours
                 /\ ~cloud[i].mark => cloud'[i] = cloud[i]
           /\ Objects' = Objects /\ Ours' = Ours /\ h' = h /\ kind' = kind
           /\ \A r : Held(r)' = Held(r)
<1>1. PICK i \in Marked, x \in Things :
              /\ i \in DOMAIN cloud /\ cloud' = [cloud EXCEPT ![i] = x]
              /\ x.up = cloud[i].up /\ x.set = cloud[i].set /\ x.ours = cloud[i].ours
  BY LapseOne
<1>2. kind' = kind /\ h' = h /\ h.by = "token"
  BY DEF Lapse, h
<1>3. /\ DOMAIN cloud' = DOMAIN cloud /\ cloud'[i] = x
      /\ \A j \in DOMAIN cloud : j # i => cloud'[j] = cloud[j]
  BY <1>1, Replaced
<1>4. cloud[i].mark
  BY DEF Marked
<1>5. \A j \in DOMAIN cloud :
        /\ cloud'[j].set = cloud[j].set /\ cloud'[j].up = cloud[j].up /\ cloud'[j].ours = cloud[j].ours
        /\ ~cloud[j].mark => cloud'[j] = cloud[j]
  BY <1>1, <1>3, <1>4
<1>6. Objects' = Objects
  BY <1>3, <1>5 DEF Objects, Exists
<1>7. Ours' = Ours
  BY <1>2, <1>5, <1>6 DEF Ours, Live, Exists, Objects
<1>8. \A r : Held(r)' = Held(r)
  BY <1>2 DEF Held
<1> QED BY <1>2, <1>3, <1>5, <1>6, <1>7, <1>8

Foreign == \A i \in Objects : ~cloud[i].ours => cloud[i].up = "active"

LEMMA ItOurs ==
    ASSUME Base, calls # <<>>, Here
    PROVE  cloud[it].ours
<1>1. Types /\ Stage /\ Ordered /\ Identified /\ Ids
  BY FitsBase
<1>2. it \in DOMAIN cloud /\ it # 0 /\ Exists(it)
  BY <1>1 DEF Here, Objects, Types
<1>3. todo # <<>> /\ Head(todo) \in Operations
  BY <1>1 DEF Stage, Ordered
<1>4. Leading(it)
  BY <1>1, <1>2, <1>3 DEF Ids, Creating, Within, Doing, Operations
<1> QED BY <1>2, <1>4 DEF Leading

LEMMA TargetOurs ==
    ASSUME Base, row.st = "created", NEW i \in Target(row)
    PROVE  cloud[i].ours /\ i \in Held(row) /\ i \in Objects /\ i \in DOMAIN cloud
<1>1. Types /\ Stage /\ Ordered /\ Identified /\ Ids
  BY FitsBase
<1>2. h.by = "tag" => row.id # 0
  <2>1. h.by = "lookup" <=> row.id = 0
    BY <1>1 DEF Ids
  <2> QED BY <2>1
<1>3. Target(row) = Held(row) \cap Objects
  BY <1>1, <1>2, Targets
<1>4. i \in Held(row) /\ i \in Objects
  BY <1>3
<1>5. i \in DOMAIN cloud /\ Exists(i) /\ i # 0
  BY <1>4, <1>1 DEF Objects, Types
<1>6. CASE h.by = "name"
  BY <1>1, <1>4, <1>5, <1>6 DEF Identified, ByName
<1>7. CASE h.by # "name"
  <2>1. i = row.id /\ Leading(row.id)
    BY <1>1, <1>4, <1>7 DEF Held, Ids
  <2> QED BY <2>1, <1>4, <1>5 DEF Leading
<1> QED BY <1>4, <1>5, <1>6, <1>7

\* What the background, or a person, does to an object.
LEMMA BackgroundOne ==
    ASSUME Types, Background
    PROVE  \E i \in Objects, x \in Things :
              /\ cloud' = [cloud EXCEPT ![i] = x] /\ i \in DOMAIN cloud
              /\ \/ x.up = "gone" /\ cloud[i].up = "dying" /\ x = Gone
                 \/ x.up = "active" /\ cloud[i].up = "pending"
                 \/ x.up = "failed" /\ cloud[i].up = "pending" /\ kind = "NatGateway"
                 \/ x.up = "disabled" /\ cloud[i].up = "disabling"
              /\ x.up # "gone" => x.set = cloud[i].set /\ x.mark = cloud[i].mark /\ x.ours = cloud[i].ours
<1>1. PICK i \in Objects : \E up \in Becomes(cloud[i].up) :
          cloud' = [cloud EXCEPT ![i] = IF up = "gone" THEN Gone ELSE [@ EXCEPT !.up = up]]
  BY DEF Background
<1>2. PICK up \in Becomes(cloud[i].up) :
          cloud' = [cloud EXCEPT ![i] = IF up = "gone" THEN Gone ELSE [@ EXCEPT !.up = up]]
  BY <1>1
<1>3. /\ up \in {"active", "failed", "gone", "disabled"}
      /\ up = "active" => cloud[i].up = "pending"
      /\ up = "failed" => cloud[i].up = "pending" /\ kind = "NatGateway"
      /\ up = "disabled" => cloud[i].up = "disabling"
      /\ up = "gone" => cloud[i].up = "dying"
      /\ i \in DOMAIN cloud /\ cloud[i] \in Things /\ cloud[i].up # "gone"
  BY <1>2 DEF Becomes, Objects, Exists, Types
<1> DEFINE x == IF up = "gone" THEN Gone ELSE [cloud[i] EXCEPT !.up = up]
<1>4. cloud' = [cloud EXCEPT ![i] = x]
  BY <1>2
<1>5. x \in Things /\ x.up = up /\ (up = "gone" => x = Gone)
      /\ (x.up # "gone" => x.set = cloud[i].set /\ x.mark = cloud[i].mark /\ x.ours = cloud[i].ours)
  BY <1>3, Given, Refaceted DEF Ups, Things, Gone, Object
<1> HIDE DEF x
<1> QED BY <1>3, <1>4, <1>5

\* A step leaves an object it is not about as it is.
LEMMA Elsewhere ==
    ASSUME Types, NEW i \in DOMAIN cloud, NEW x, cloud' = [cloud EXCEPT ![i] = x]
    PROVE  cloud'[i] = x /\ \A j \in DOMAIN cloud : j # i => cloud'[j] = cloud[j]
  OBVIOUS

LEMMA ForeignKept ==
    ASSUME Base, Foreign, Next, NEW i \in DOMAIN cloud, Exists(i), ~cloud[i].ours
    PROVE  cloud'[i] = cloud[i]
<1>1. Types /\ Stage /\ Ordered /\ Identified /\ Ids
  BY FitsBase
<1>2. CASE RowStep \/ Abandoned \/ Begin \/ Retry \/ Return
  BY <1>2, BaseRow, BaseAbandoned, BaseBegin, BaseReturn
<1>3. CASE Make
  BY <1>3, <1>1, MakeEither, Grown, Adopted
<1>4. CASE StrokeStep
  <2>1. calls # <<>> /\ \/ UNCHANGED cloud
                        \/ Here /\ \E x \in Things : Alike(cloud[it], x) /\ cloud' = [cloud EXCEPT ![it] = x]
    BY <1>4, BaseStroke DEF Stroke
  <2>2. CASE Here
    <3>1. i # it /\ it \in DOMAIN cloud
      BY <2>1, <2>2, ItOurs DEF Here, Objects
    <3> QED BY <3>1, <2>1, <1>1, Elsewhere
  <2> QED BY <2>1, <2>2
<1>5. CASE Delete
  <2>1. calls # <<>>
    BY <1>5, BaseDelete
  <2>2. CASE Here
    <3>1. i # it /\ it \in DOMAIN cloud
      BY <2>1, <2>2, ItOurs DEF Here, Objects
    <3> QED BY <3>1, <2>2, <1>5 DEF Delete
  <2> QED BY <2>2, <1>5 DEF Delete
<1>6. CASE Background
  <2>1. cloud[i].up = "active"
    BY DEF Foreign, Objects
  <2> QED BY <2>1, <1>1, <1>6, BackgroundOne
<1>7. CASE EditConfig \/ Refresh
  BY <1>7 DEF EditConfig, Refresh
<1>8. CASE EditByHand
  <2>1. row.st = "created"
    BY <1>8 DEF EditByHand
  <2>2. PICK j \in Target(row) : \E x : cloud' = [cloud EXCEPT ![j] = x]
    BY <1>1, <1>8, ByHand
  <2>3. i # j /\ j \in DOMAIN cloud
    BY <2>1, <2>2, TargetOurs
  <2> QED BY <2>2, <2>3, <1>1, Elsewhere
<1>9. CASE Lapse
  BY <1>1, <1>9, BaseLapse DEF Identified, Objects
<1> QED BY Moves, <1>2, <1>3, <1>4, <1>5, <1>6, <1>7, <1>8, <1>9

LEMMA SameOrMade ==
    ASSUME Base, Next
    PROVE  /\ DOMAIN cloud \subseteq DOMAIN cloud'
           /\ \A i \in DOMAIN cloud : Exists(i)' => Exists(i) /\ cloud'[i].ours = cloud[i].ours
           /\ \A i \in DOMAIN cloud' \ DOMAIN cloud : cloud'[i] = Made
<1>1. Types /\ Stage /\ Ordered /\ Identified /\ Ids
  BY FitsBase
<1>2. CASE MakeNew
  BY <1>1, <1>2, Grown DEF Exists
<1>3. CASE Shrink
  BY <1>3 DEF Shrink, Exists
<1>5. CASE Lapse
  BY <1>1, <1>5, LapseKept DEF Exists
<1>4. MakeNew \/ Shrink \/ Lapse
  <2>1. CASE Make
    BY <2>1, <1>1, Adopted, MakeEither
  <2>2. CASE RowStep \/ Abandoned \/ Begin \/ Retry \/ Return
    BY <2>2, BaseRow, BaseAbandoned, BaseBegin, BaseReturn
  <2>3. CASE StrokeStep \/ Delete \/ Background \/ EditConfig \/ EditByHand \/ Refresh
    BY <2>3, BaseStroke, BaseDelete, BaseAround
  <2> QED BY Moves, <2>1, <2>2, <2>3
<1> QED BY <1>2, <1>3, <1>4, <1>5

LEMMA ForeignNext ==
    ASSUME Base, Foreign, Next
    PROVE  Foreign'
<1>1. SUFFICES ASSUME NEW i \in Objects', ~cloud'[i].ours PROVE cloud'[i].up = "active"
  BY DEF Foreign
<1>2. i \in DOMAIN cloud' /\ Exists(i)'
  BY DEF Objects
<1>3. Made.ours = TRUE
  BY FitsBase, MadeIs
<1>4. i \in DOMAIN cloud /\ Exists(i) /\ ~cloud[i].ours
  BY <1>1, <1>2, <1>3, SameOrMade
<1>5. cloud'[i] = cloud[i]
  BY <1>4, ForeignKept
<1> QED BY <1>4, <1>5 DEF Foreign, Objects

LEMMA ForeignInit == Init => Foreign
<1> SUFFICES ASSUME Init PROVE Foreign
  OBVIOUS
<1>1. PICK d : d = Object(First, FALSE, "active", FALSE)
  OBVIOUS
<1>2. cloud = <<>> \/ cloud = <<d>>
  BY <1>1 DEF Init
<1>3. d.up = "active"
  BY <1>1 DEF Object
<1> QED BY <1>2, <1>3 DEF Foreign, Objects

\* Creates adopt by the node's own mark or by a name the create call refuses twice,
\* updates and deletes go by id, mark or that name (_find_tagged, _find_by_reference):
\* a resource made by someone else is never changed unless it bears the very
\* name the row holds.
THEOREM ForeignStands == Spec => ForeignUntouched
<1> DEFINE J == Base /\ Foreign
           Stands == \A i \in DOMAIN cloud : ~cloud[i].ours /\ Exists(i) /\ i \notin Held(row) => cloud'[i] = cloud[i]
<1>1. Init => J
  BY BaseInit, ForeignInit
<1>2. J /\ [Next]_vars => J'
  <2> SUFFICES ASSUME J, [Next]_vars PROVE J'
    OBVIOUS
  <2>1. Base'
    BY BaseNext
  <2>2. Foreign'
    <3>1. CASE UNCHANGED vars
      <4>1. cloud' = cloud
        BY <3>1 DEF vars
      <4> QED BY <4>1 DEF Foreign, Objects, Exists
    <3> QED BY <3>1, ForeignNext
  <2> QED BY <2>1, <2>2
<1>3. J /\ [Next]_vars => [Stands]_vars
  BY ForeignKept
<1>4. Spec => []J
  BY <1>1, <1>2, PTL DEF Spec
<1>5. Spec => [][Stands]_vars
  BY <1>3, <1>4, PTL DEF Spec
<1> QED BY <1>5 DEF ForeignUntouched

----------------------------------------------------------------------------
(* A sync goes by a listing that is still true.                            *)

LEMMA Deletes ==
    ASSUME Base, "gone" \in ToSet(h.delete)
    PROVE  /\ h.delete = <<"delete", "gone">>
           /\ kind # "SecurityGroup" /\ "entries" \notin h.stamps \cup h.fields
<1>1. Fits(kind, h)
  BY FitsBase
<1>2. h.delete \in {<<>>, <<"delete">>, <<"detach", "delete">>, <<"disassociate", "delete">>, <<"delete", "gone">>,
                     <<"disable", "deployed", "delete">>}
  BY <1>1 DEF Fits, Sequenced
<1>3. CASE h.delete = <<>>
  BY <1>3, Shapes
<1>4. CASE h.delete = <<"delete">>
  BY <1>4 DEF ToSet
<1>5. CASE h.delete = <<"detach", "delete">>
  BY <1>5 DEF ToSet
<1>6. CASE h.delete = <<"disable", "deployed", "delete">>
  BY <1>6 DEF ToSet
<1>8. CASE h.delete = <<"disassociate", "delete">>
  BY <1>8 DEF ToSet
<1>7. h.delete = <<"delete", "gone">>
  BY <1>2, <1>3, <1>4, <1>5, <1>6, <1>8
<1> QED BY <1>1, <1>7 DEF Fits, Particular

LEMMA DyingNext ==
    ASSUME Base, Dying, Next
    PROVE  Dying'
<1>1. Types /\ Stage /\ Ordered /\ Identified /\ Ids /\ Fits(kind, h)
  BY FitsBase
<1>0. h' = h
  BY Moves, BaseRow, BaseAbandoned, BaseBegin, BaseReturn, BaseStroke, BaseDelete, BaseAround, BaseMake,
     BaseLapse
<1> SUFFICES ASSUME NEW i \in Objects'
             PROVE  /\ cloud'[i].up = "dying" => "gone" \in ToSet(h.delete) /\ cloud'[i].ours
                    /\ "gone" \in ToSet(h.delete) /\ cloud'[i].ours => cloud'[i].set.entries = Blank.entries
  BY <1>0 DEF Dying
<1>2. i \in DOMAIN cloud' /\ cloud'[i].up # "gone"
  BY DEF Objects, Exists
<1>3. CASE i \notin DOMAIN cloud
  <2>1. cloud'[i] = Made
    BY <1>2, <1>3, SameOrMade
  <2>2. Made.up \in {"active", "pending"}
        /\ (kind # "SecurityGroup" /\ "entries" \notin h.stamps => Made.set.entries = Blank.entries)
    BY <1>1, MadeIs
  <2> QED BY <2>1, <2>2, Deletes
<1>4. CASE i \in DOMAIN cloud
  <2>1. Exists(i) /\ i \in Objects /\ cloud'[i].ours = cloud[i].ours
    BY <1>2, <1>4, SameOrMade DEF Objects, Exists
  <2>2. /\ cloud[i].up = "dying" => "gone" \in ToSet(h.delete) /\ cloud[i].ours
        /\ "gone" \in ToSet(h.delete) /\ cloud[i].ours => cloud[i].set.entries = Blank.entries
    BY <2>1 DEF Dying
  <2>3. CASE cloud'[i] = cloud[i]
    BY <2>2, <2>3
  <2>4. CASE ~cloud[i].ours
    <3>1. Foreign \/ ~Foreign
      OBVIOUS
    <3>2. cloud[i].up # "dying"
      BY <2>2, <2>4
    <3>3. cloud'[i].up # "dying"
      <4>1. CASE RowStep \/ Abandoned \/ Begin \/ Retry \/ Return
        BY <4>1, <3>2, BaseRow, BaseAbandoned, BaseBegin, BaseReturn
      <4>2. CASE Make
        BY <4>2, <3>2, <1>1, <1>4, MakeEither, Grown, Adopted
      <4>3. CASE StrokeStep \/ Delete
        <5>1. (calls # <<>> /\ i # it) \/ ~Here
          BY <4>3, <2>4, ItOurs, BaseStroke, BaseDelete
        <5>2. cloud' = cloud \/ \E x : Here /\ cloud' = [cloud EXCEPT ![it] = x]
          <6>1. CASE StrokeStep
            BY <6>1, BaseStroke DEF Stroke
          <6>2. CASE Delete
            BY <6>2 DEF Delete
          <6> QED BY <6>1, <6>2, <4>3
        <5> QED BY <5>1, <5>2, <3>2, <1>4
      <4>4. CASE Background
        <5>1. PICK j \in Objects, x \in Things : cloud' = [cloud EXCEPT ![j] = x] /\ j \in DOMAIN cloud /\ x.up # "dying"
          BY <4>4, <1>1, BackgroundOne
        <5> QED BY <5>1, <3>2, <1>4
      <4>5. CASE EditConfig \/ Refresh
        BY <4>5, <3>2 DEF EditConfig, Refresh
      <4>6. CASE EditByHand
        <5>1. PICK j \in Target(row) : \E x : cloud' = [cloud EXCEPT ![j] = x]
          BY <1>1, <4>6, ByHand
        <5>2. j \in DOMAIN cloud /\ j # i
          BY <4>6, <5>1, <2>4, TargetOurs DEF EditByHand
        <5> QED BY <5>1, <5>2, <3>2, <1>4
      <4>7. CASE Lapse
        BY <4>7, <3>2, <1>1, <1>4, LapseKept
      <4> QED BY Moves, <4>1, <4>2, <4>3, <4>4, <4>5, <4>6, <4>7
    <3> QED BY <3>3, <2>1, <2>4
  <2>5. CASE cloud[i].ours
    <3>1. CASE RowStep \/ Abandoned \/ Begin \/ Retry \/ Return \/ EditConfig \/ Refresh
      <4>1. cloud' = cloud
        BY <3>1, BaseRow, BaseAbandoned, BaseBegin, BaseReturn DEF EditConfig, Refresh
      <4> QED BY <4>1, <2>3
    <3>2. CASE Make
      BY <3>2, <2>3, <1>1, <1>4, MakeEither, Grown, Adopted
    <3>3. CASE StrokeStep
      <4>1. UNCHANGED cloud \/ (Here /\ \E x \in Things : Alike(cloud[it], x) /\ cloud' = [cloud EXCEPT ![it] = x])
        BY <3>3, BaseStroke DEF Stroke
      <4>2. CASE i = it /\ \E x \in Things : Alike(cloud[it], x) /\ cloud' = [cloud EXCEPT ![it] = x]
        <5>1. Alike(cloud[i], cloud'[i])
          BY <4>2, <1>4
        <5>2. /\ cloud'[i].up = "dying" => cloud[i].up = "dying"
              /\ h.delete = <<"delete", "gone">> => cloud'[i].set.entries = cloud[i].set.entries
          BY <5>1 DEF Alike
        <5> QED BY <5>2, <2>1, <2>2, Deletes
      <4>3. CASE i # it \/ UNCHANGED cloud
        <5>1. cloud'[i] = cloud[i]
          BY <4>1, <4>3, <1>4
        <5> QED BY <5>1, <2>3
      <4> QED BY <4>1, <4>2, <4>3
    <3>4. CASE Delete
      <4>1. cloud' = cloud \/ (Here /\ cloud' = [cloud EXCEPT ![it] = IF "gone" \in ToSet(h.delete)
                                           THEN [@ EXCEPT !.up = "dying"] ELSE Gone])
        BY <3>4 DEF Delete
      <4>2. CASE i = it /\ Here /\ "gone" \in ToSet(h.delete)
        <5>1. PICK x : x = [cloud[i] EXCEPT !.up = "dying"]
          OBVIOUS
        <5>2. cloud'[i] = x \/ cloud'[i] = cloud[i]
          BY <4>1, <4>2, <5>1, <1>4
        <5>3. cloud[i] \in Things
          BY <1>1, <1>4 DEF Types
        <5>4. x.set = cloud[i].set
          BY <5>1, <5>3 DEF Things
        <5> QED BY <5>2, <5>4, <2>1, <2>2, <2>5, <4>2
      <4>3. CASE i = it /\ Here /\ "gone" \notin ToSet(h.delete)
        <5>1. cloud'[i] = Gone \/ cloud' = cloud
          BY <4>1, <4>3, <1>4
        <5> QED BY <5>1, <1>2, <2>3 DEF Gone, Object
      <4>4. CASE i # it \/ ~Here
        <5>1. cloud'[i] = cloud[i]
          BY <4>1, <4>4, <1>4
        <5> QED BY <5>1, <2>3
      <4> QED BY <4>2, <4>3, <4>4
    <3>5. CASE Background
      <4>1. PICK j \in Objects, x \in Things :
              /\ cloud' = [cloud EXCEPT ![j] = x] /\ j \in DOMAIN cloud
              /\ x.up # "dying"
              /\ x.up # "gone" => x.set = cloud[j].set /\ x.mark = cloud[j].mark /\ x.ours = cloud[j].ours
        BY <3>5, <1>1, BackgroundOne
      <4>2. CASE i = j
        <5>1. cloud'[i] = x
          BY <4>1, <4>2
        <5> QED BY <5>1, <4>1, <4>2, <1>2, <2>2, <2>1
      <4>3. CASE i # j
        BY <4>1, <4>3, <2>3
      <4> QED BY <4>2, <4>3
    <3>6. CASE EditByHand
      <4>1. PICK j \in Target(row) : j \in DOMAIN cloud /\
              \/ \E f \in h.fields \ {"name", "imm"}, x \in Things :
                    /\ cloud' = [cloud EXCEPT ![j] = x]
                    /\ x.up = cloud[j].up
                    /\ \A g \in Settings \ {f} : x.set[g] = cloud[j].set[g]
              \/ cloud' = [cloud EXCEPT ![j] = Gone]
        BY <3>6, <1>1, ByHand
      <4>2. CASE i # j
        <5>1. cloud'[i] = cloud[i]
          BY <4>1, <4>2, <1>4
        <5> QED BY <5>1, <2>3
      <4>3. CASE i = j /\ cloud' = [cloud EXCEPT ![j] = Gone]
        <5>1. cloud'[i] = Gone
          BY <4>1, <4>3
        <5> QED BY <5>1, <1>2 DEF Gone, Object
      <4>4. CASE i = j /\ \E f \in h.fields \ {"name", "imm"}, x \in Things :
                    /\ cloud' = [cloud EXCEPT ![j] = x]
                    /\ x.up = cloud[j].up
                    /\ \A g \in Settings \ {f} : x.set[g] = cloud[j].set[g]
        <5>1. PICK f \in h.fields \ {"name", "imm"}, x \in Things :
                    /\ cloud' = [cloud EXCEPT ![j] = x]
                    /\ x.up = cloud[j].up
                    /\ \A g \in Settings \ {f} : x.set[g] = cloud[j].set[g]
          BY <4>4
        <5>2. cloud'[i] = x
          BY <4>1, <4>4, <5>1
        <5>3. f # "entries" => x["set"]["entries"] = cloud[i]["set"]["entries"]
          BY <5>1, <4>4 DEF Settings
        <5> QED BY <5>1, <5>2, <5>3, <4>4, <2>1, <2>2, Deletes
      <4> QED BY <4>1, <4>2, <4>3, <4>4
    <3>7. CASE Lapse
      BY <3>7, <2>1, <2>2, <1>1, <1>4, LapseKept
    <3> QED BY Moves, <3>1, <3>2, <3>3, <3>4, <3>5, <3>6, <3>7
  <2> QED BY <2>4, <2>5
<1> QED BY <1>3, <1>4

LEMMA ListedNone ==
    ASSUME calls' = <<>> \/ Head(calls') \notin {"untag", "tag", "authorize", "revoke"}
    PROVE  Listed'
  BY DEF Listed

LEMMA ListedNext ==
    ASSUME Base, Listed, Next
    PROVE  Listed'
<1>1. Types /\ Stage /\ Ordered /\ Identified /\ Ids /\ Fits(kind, h)
  BY FitsBase
<1>2. CASE RowStep \/ Abandoned \/ Return \/ Retry
  <2>1. calls' = <<>>
    BY <1>2, BaseRow, BaseAbandoned, BaseReturn DEF Retry
  <2> QED BY <2>1, ListedNone
<1>3. CASE Make
  <2>1. Opens(calls', Left' \ {"return"})
    BY <1>3, BaseMake
  <2> QED BY <2>1, ListedNone DEF Opens
<1>4. CASE Begin
  <2>1. calls' \in {<<"make">>, <<"return">>, Append(h.update, "return"), Append(h.delete, "return")}
    <3>1. Append(<<>>, "return") = <<"return">>
      OBVIOUS
    <3> QED BY <3>1, <1>4 DEF Begin
  <2>2. \A s \in {<<"return">>, Append(h.update, "return"), Append(h.delete, "return")} :
            Head(s) \notin {"untag", "tag", "authorize", "revoke"}
    BY <1>1, Openings DEF Opens
  <2>3. Head(calls') \notin {"untag", "tag", "authorize", "revoke"}
    <3>1. CASE calls' = <<"make">>
      BY <3>1
    <3> QED BY <3>1, <2>1, <2>2
  <2> QED BY <2>3, ListedNone
<1>5. CASE Delete
  <2>1. Head(calls') \in {"gone", "return"}
    BY <1>5, BaseDelete
  <2> QED BY <2>1, ListedNone
<1>6. CASE Background
  <2>1. calls' = calls /\ seen' = seen /\ it' = it /\ want' = want
    BY <1>6 DEF Background, run
  <2>2. Here' => Here /\ cloud'[it].set = cloud[it].set
    <3>1. SUFFICES ASSUME Here' PROVE Here /\ cloud'[it].set = cloud[it].set
      OBVIOUS
    <3>2. it \in Objects /\ it \in DOMAIN cloud /\ cloud'[it].up # "gone"
      BY <3>1, <2>1, <1>1, <1>6, BaseAround, Shrunk DEF Here, Objects
    <3>3. PICK j \in Objects, x \in Things :
              /\ cloud' = [cloud EXCEPT ![j] = x] /\ j \in DOMAIN cloud
              /\ x.up # "gone" => x.set = cloud[j].set /\ x.mark = cloud[j].mark /\ x.ours = cloud[j].ours
      BY <1>6, <1>1, BackgroundOne
    <3>4. CASE it = j
      <4>1. cloud'[it] = x
        BY <3>3, <3>4
      <4> QED BY <4>1, <3>2, <3>3, <3>4 DEF Here
    <3>5. CASE it # j
      BY <3>2, <3>3, <3>5 DEF Here
    <3> QED BY <3>4, <3>5
  <2> QED BY <2>1, <2>2 DEF Listed
<1>7. CASE EditConfig \/ EditByHand \/ Refresh \/ Lapse
  <2>1. calls' = <<>>
    <3>1. todo = <<>>
      BY <1>7 DEF EditConfig, EditByHand, Refresh, Between, Lapse
    <3> QED BY <3>1, <1>1, <1>7, BaseAround, BaseLapse DEF Stage, run
  <2> QED BY <2>1, ListedNone
<1>8. CASE StrokeStep
  <2>1. /\ Shrink /\ it' = it /\ want' = want /\ calls # <<>> /\ calls' \in {calls, Tail(calls)} /\ calls' # <<>> /\ h' = h
    BY <1>8, BaseStroke
  <2>2. /\ calls \in Seq(CallNames) /\ Orderly(calls) /\ calls[Len(calls)] \in {"make", "return"}
    BY <2>1, <1>1 DEF Types, Ordered
  <2>3. /\ Tail(calls) # <<>> =>
             /\ Head(Tail(calls)) \in {"untag", "authorize"} => Head(calls) = "listed"
             /\ Head(Tail(calls)) = "tag" <=> Head(calls) = "untag"
             /\ Head(Tail(calls)) = "revoke" => Head(calls) = "authorize"
    BY <2>1, <2>2, Advance
  <2>4. SUFFICES ASSUME Here' PROVE Listed'
    BY DEF Listed
  <2>5. Here
    BY <2>1, <2>4, <1>1, Shrunk DEF Here
  <2>6. PICK hd, c, d : hd = Head(calls) /\ c = cloud[it].set /\ d = cloud'[it].set
    OBVIOUS
  <2>7. /\ hd = "untag" => d.tags = c.tags \ (seen.tags \ want.tags)
        /\ hd = "authorize" => \A k \in Keys : d.entries[k] = IF seen.entries[k] = 0 /\ want.entries[k] # 0
                                                               THEN want.entries[k] ELSE c.entries[k]
        /\ hd = "listed" => seen' = c /\ d = c
        /\ hd \notin {"unroute", "route"} => calls' = Tail(calls)
    <3>1. hd = "listed" => seen' = c /\ cloud' = cloud
      <4>1. SUFFICES ASSUME hd = "listed" PROVE seen' = c /\ cloud' = cloud
        OBVIOUS
      <4>2. Describe
        BY <1>8, <4>1, <2>6 DEF StrokeStep, Stamp, PutBody, PutLate, SetTags, Untag, Tag, Authorize,
               Revoke, Relabel, Unroute, Route, Attach, Detach, Disassociate, Disable, Await, Waits, Calling
      <4> QED BY <4>2, <2>6 DEF Describe
    <3>2. /\ hd = "untag" => d.tags = c.tags \ (seen.tags \ want.tags)
          /\ hd = "authorize" => \A k \in Keys : d.entries[k] = IF seen.entries[k] = 0 /\ want.entries[k] # 0
                                                               THEN want.entries[k] ELSE c.entries[k]
          /\ hd \notin {"unroute", "route"} => calls' = Tail(calls)
      BY <2>5, <2>6, <1>1, <1>8, Effects
    <3> QED BY <3>1, <3>2, <2>6
  <2>8. CASE calls' = calls /\ calls' # Tail(calls)
    BY <2>6, <2>7, <2>8, ListedNone
  <2>9. CASE calls' = Tail(calls)
    <3>1. Head(calls') \in {"untag", "authorize"} => seen' = d
      BY <2>3, <2>6, <2>7, <2>9, <2>1
    <3>2. Head(calls') = "tag" => d.tags \subseteq want.tags
      <4>1. SUFFICES ASSUME Head(calls') = "tag" PROVE d.tags \subseteq want.tags
        OBVIOUS
      <4>2. hd = "untag"
        BY <4>1, <2>1, <2>3, <2>6, <2>9
      <4>3. seen = c
        BY <4>2, <2>1, <2>5, <2>6 DEF Listed
      <4> QED BY <4>2, <4>3, <2>7
    <3>3. Head(calls') = "revoke" => \A k \in Keys : want.entries[k] # 0 => d.entries[k] # 0
      <4>1. SUFFICES ASSUME Head(calls') = "revoke", NEW k \in Keys, want.entries[k] # 0 PROVE d.entries[k] # 0
        OBVIOUS
      <4>2. hd = "authorize"
        BY <4>1, <2>1, <2>3, <2>6, <2>9
      <4>3. seen = c
        BY <4>2, <2>1, <2>5, <2>6 DEF Listed
      <4> QED BY <4>1, <4>2, <4>3, <2>7
    <3> QED BY <3>1, <3>2, <3>3, <2>1, <2>6 DEF Listed
  <2> QED BY <2>1, <2>8, <2>9
<1> QED BY Moves, <1>2, <1>3, <1>4, <1>5, <1>6, <1>7, <1>8

Gapless(before, after) ==
    /\ \A k \in Keys : before[k] # 0 /\ want.entries[k] # 0 => after[k] # 0
    /\ kind = "SecurityGroup" /\ (\E k \in Keys : before[k] # 0)
          /\ (\E k \in Keys : want.entries[k] # 0) => \E k \in Keys : after[k] # 0
SyncInv == Base /\ Dying /\ Listed

LEMMA GaplessSame ==
    ASSUME NEW b, NEW a, a = b
    PROVE  Gapless(b, a)
  BY DEF Gapless

LEMMA GaplessNext ==
    ASSUME SyncInv, Next, NEW i \in DOMAIN cloud, calls # <<>>, Exists(i), Head(calls) # "delete"
    PROVE  Gapless(cloud[i].set.entries, cloud'[i].set.entries)
<1>1. Base /\ Dying /\ Listed /\ Types /\ Stage /\ Ordered /\ Identified /\ Ids /\ Fits(kind, h)
  BY FitsBase DEF SyncInv
<1>0. PICK b, a : b = cloud[i].set.entries /\ a = cloud'[i].set.entries
  OBVIOUS
<1> SUFFICES Gapless(b, a)
  BY <1>0
<1>s. a = b => Gapless(b, a)
  BY GaplessSame
<1>2. CASE RowStep \/ Abandoned \/ Begin \/ Retry \/ Return \/ EditConfig \/ Refresh
  <2>1. cloud' = cloud
    BY <1>1, <1>2, BaseRow, BaseAbandoned, BaseBegin, BaseReturn DEF EditConfig, Refresh
  <2> QED BY <2>1, <1>0, <1>s
<1>3. CASE Make
  <2>1. cloud'[i] = cloud[i]
    BY <1>3, <1>1, MakeEither, Grown, Adopted
  <2> QED BY <2>1, <1>0, <1>s
<1>4. CASE Delete
  BY <1>1, <1>4, BaseDelete
<1>5. CASE EditByHand
  <2>1. todo = <<>>
    BY <1>5 DEF EditByHand, Between
  <2> QED BY <2>1, <1>1 DEF Stage
<1>6. CASE Background
  <2>1. PICK j \in Objects, x \in Things :
              /\ cloud' = [cloud EXCEPT ![j] = x] /\ j \in DOMAIN cloud
              /\ x.up = "gone" => cloud[j].up = "dying"
              /\ x.up # "gone" => x.set = cloud[j].set /\ x.mark = cloud[j].mark /\ x.ours = cloud[j].ours
    BY <1>1, <1>6, BackgroundOne
  <2>2. CASE i # j \/ x.up # "gone"
    <3>1. cloud'[i].set = cloud[i].set
      BY <2>1, <2>2
    <3> QED BY <3>1, <1>0, <1>s
  <2>3. CASE i = j /\ x.up = "gone"
    <3>1. cloud[i].up = "dying" /\ i \in Objects
      BY <2>1, <2>3
    <3>2. "gone" \in ToSet(h.delete) /\ cloud[i].ours /\ b = Blank.entries
      BY <3>1, <1>0, <1>1 DEF Dying
    <3>3. \A k \in Keys : b[k] = 0
      BY <3>2 DEF Blank
    <3> QED BY <3>3 DEF Gapless
  <2> QED BY <2>2, <2>3
<1>7. CASE StrokeStep
  <2>1. CASE ~Here \/ i # it
    <3>1. UNCHANGED cloud \/ (Here /\ \E x \in Things : Alike(cloud[it], x) /\ cloud' = [cloud EXCEPT ![it] = x])
      BY <1>1, <1>7, BaseStroke DEF Stroke
    <3>2. cloud'[i] = cloud[i]
      BY <3>1, <2>1
    <3> QED BY <3>2, <1>0, <1>s
  <2>2. CASE Here /\ i = it
    <3>1. PICK hd, c, d : hd = Head(calls) /\ c = cloud[it].set /\ d = cloud'[it].set
      OBVIOUS
    <3>2. b = c.entries /\ a = d.entries /\ "entries" \in Settings
      BY <3>1, <2>2, <1>0 DEF Settings
    <3>3. /\ \A f \in Settings \ Aims(hd) : d[f] = c[f]
          /\ hd = "authorize" => \A k \in Keys : d.entries[k] = IF seen.entries[k] = 0 /\ want.entries[k] # 0
                                                               THEN want.entries[k] ELSE c.entries[k]
          /\ hd = "revoke" => \A k \in Keys : d.entries[k] = IF want.entries[k] = 0 THEN 0 ELSE c.entries[k]
          /\ hd = "relabel" => d.entries = want.entries
          /\ hd = "unroute" => \A k \in Keys : d.entries[k] = c.entries[k] \/ (d.entries[k] = 0 /\ want.entries[k] = 0)
          /\ hd = "route" => \A k \in Keys : d.entries[k] = c.entries[k] \/ d.entries[k] = want.entries[k]
      BY <1>1, <1>7, <2>2, <3>1, Effects
    <3>4. CASE hd \notin {"authorize", "revoke", "relabel", "unroute", "route"}
      <4>1. "entries" \notin Aims(hd)
        BY <3>4 DEF Aims
      <4>2. d["entries"] = c["entries"]
        BY <4>1, <3>2, <3>3
      <4> QED BY <4>2, <3>2, <1>s
    <3>5. CASE hd = "authorize"
      BY <3>5, <3>2, <3>3 DEF Gapless
    <3>6. CASE hd = "revoke"
      <4>1. \A k \in Keys : want.entries[k] # 0 => c.entries[k] # 0
        BY <3>6, <3>1, <2>2, <1>1 DEF Listed
      <4> QED BY <4>1, <3>2, <3>3, <3>6 DEF Gapless
    <3>7. CASE hd = "relabel"
      BY <3>7, <3>2, <3>3 DEF Gapless
    <3>8. CASE hd \in {"unroute", "route"}
      <4>1. kind # "SecurityGroup"
        <5>1. /\ hd \in Left /\ hd \in Setting
              /\ (Within("create") /\ it # 0) \/ Within("update")
              /\ Within("create") /\ it # 0 => Left \subseteq ToSet(h.adopt) \cup ToSet(h.after) \cup {"return"}
              /\ Within("update") => Left \subseteq ToSet(h.update) \cup {"return"}
          <6>1. hd \in Setting
            BY <3>8 DEF Setting
          <6> QED BY <6>1, <1>1, <3>1, Whose
        <5>2. hd \in ToSet(h.adopt) \cup ToSet(h.after) \cup ToSet(h.update)
          BY <5>1, <3>8
        <5>3. SUFFICES ASSUME kind = "SecurityGroup" PROVE FALSE
          OBVIOUS
        <5>4. h.adopt = <<>> /\ {"unroute", "route"} \cap (ToSet(h.after) \cup ToSet(h.update)) = {}
          BY <5>3, <1>1 DEF Fits, Particular
        <5>5. ToSet(h.adopt) = {}
          BY <5>4, Shapes
        <5> QED BY <5>2, <5>4, <5>5, <3>8
      <4>2. \A k \in Keys : b[k] # 0 /\ want.entries[k] # 0 => a[k] # 0
        BY <3>2, <3>3, <3>8
      <4> QED BY <4>1, <4>2 DEF Gapless
    <3> QED BY <3>4, <3>5, <3>6, <3>7, <3>8
  <2> QED BY <2>1, <2>2
<1>8. CASE Lapse
  <2>1. cloud'[i].set = cloud[i].set
    BY <1>1, <1>8, LapseKept
  <2> QED BY <2>1, <1>0, <1>s
<1> QED BY Moves, <1>2, <1>3, <1>4, <1>5, <1>6, <1>7, <1>8

LEMMA SyncInductive == (Init => SyncInv) /\ (SyncInv /\ [Next]_vars => SyncInv')
<1>1. Init => SyncInv
  <2> SUFFICES ASSUME Init PROVE SyncInv
    OBVIOUS
  <2>1. Base /\ Foreign /\ calls = <<>>
    BY BaseInit, ForeignInit DEF Init
  <2>2. Dying
    <3>1. \A i \in Objects : ~cloud[i].ours
      <4>1. PICK d : d = Object(First, FALSE, "active", FALSE)
        OBVIOUS
      <4>2. cloud = <<>> \/ cloud = <<d>>
        BY <4>1 DEF Init
      <4>3. ~d.ours
        BY <4>1 DEF Object
      <4> QED BY <4>2, <4>3 DEF Objects
    <3>2. \A i \in Objects : cloud[i].up = "active"
      BY <3>1, <2>1 DEF Foreign
    <3> QED BY <3>1, <3>2 DEF Dying
  <2> QED BY <2>1, <2>2 DEF SyncInv, Listed
<1>2. SyncInv /\ [Next]_vars => SyncInv'
  <2> SUFFICES ASSUME SyncInv, [Next]_vars PROVE SyncInv'
    OBVIOUS
  <2>1. Base /\ Dying /\ Listed /\ Base'
    BY BaseNext DEF SyncInv
  <2>2. CASE Next
    <3>1. Dying' /\ Listed'
      BY <2>1, <2>2, DyingNext, ListedNext
    <3> QED BY <3>1, <2>1 DEF SyncInv
  <2>3. CASE UNCHANGED vars
    <3>1. cloud' = cloud /\ kind' = kind /\ want' = want /\ calls' = calls /\ it' = it /\ seen' = seen
      BY <2>3 DEF vars
    <3>2. Objects' = Objects /\ h' = h /\ (Here' <=> Here)
      BY <3>1, SameCloud DEF Here
    <3>3. Dying' /\ Listed'
      BY <3>1, <3>2, <2>1 DEF Dying, Listed
    <3> QED BY <3>3, <2>1 DEF SyncInv
  <2> QED BY <2>2, <2>3
<1> QED BY <1>1, <1>2

\* _sync_rules and _sync: whatever the delta, and wherever a sync is cut short and
\* started over, no rule or route that is live and declared is away in between, and a
\* security group that lets something through and shall go on to never closes.
THEOREM SyncedWithoutGap == Spec => NoGap
<1> DEFINE Kept2 == \A i \in DOMAIN cloud : calls # <<>> /\ Exists(i) /\ Head(calls) # "delete" =>
          LET before == cloud[i].set.entries after == cloud'[i].set.entries IN
          /\ \A k \in Keys : before[k] # 0 /\ want.entries[k] # 0 => after[k] # 0
          /\ kind = "SecurityGroup" /\ (\E k \in Keys : before[k] # 0)
                /\ (\E k \in Keys : want.entries[k] # 0) => \E k \in Keys : after[k] # 0
<1>1. SyncInv /\ [Next]_vars => [Kept2]_vars
  BY GaplessNext DEF Gapless
<1>2. Spec => []SyncInv
  BY SyncInductive, PTL DEF Spec
<1>3. Spec => [][Kept2]_vars
  BY <1>1, <1>2, PTL DEF Spec
<1> QED BY <1>3 DEF NoGap

----------------------------------------------------------------------------
(* What the calls still to come will set.                                  *)

LEMMA SetByIs ==
    ASSUME NEW s
    PROVE  /\ SetBy(s) \subseteq {"body", "late", "tags", "entries", "imm"}
           /\ "gone" \notin SetBy(s) /\ "name" \notin SetBy(s)
           /\ "imm" \in SetBy(s) => "attach" \in ToSet(s)
           /\ \A f \in SetBy(s) : Pends(f, ToSet(s))
  BY DEF SetBy, Pends

LEMMA PendsMore ==
    ASSUME NEW f, NEW S, NEW T, S \subseteq T, Pends(f, S)
    PROVE  Pends(f, T)
  BY DEF Pends

\* A pending facet stays so past a call that aims at something else.
LEMMA PendsPast ==
    ASSUME NEW f, NEW S, NEW T, NEW call, S \subseteq {call} \cup T, Pends(f, S), f \notin Aims(call)
    PROVE  Pends(f, T)
  BY DEF Pends, Aims

\* No facet waits for nothing, or for the return.
LEMMA PendsNot == \A f : ~Pends(f, {}) /\ ~Pends(f, {"return"})
  BY DEF Pends

LEMMA StandingBack ==
    ASSUME Base, Next, ~Make, "gone" \notin astray', row'.st # "none" \/ row' = row
    PROVE  "gone" \notin astray
<1>1. CASE astray' = astray
  BY <1>1
<1>2. CASE RowStep \/ Return \/ StrokeStep \/ Delete \/ Retry \/ Background
  <2>1. astray' = astray
    <3>1. CASE RowStep
      BY <3>1 DEF RowStep, Plan, CopyToCompanion, WriteAhead, Persist, Forget, DropCompanion
    <3>2. CASE Return \/ StrokeStep \/ Delete
      BY <3>2, BaseReturn, BaseStroke, BaseDelete
    <3>3. CASE Retry \/ Background
      BY <3>3 DEF Retry, Background
    <3> QED BY <1>2, <3>1, <3>2, <3>3
  <2> QED BY <2>1, <1>1
<1>3. CASE Begin
  BY <1>3, SetByIs DEF Begin
<1>4. CASE Abandoned
  BY <1>4 DEF Abandoned
<1>5. CASE EditConfig
  BY <1>5 DEF EditConfig
<1>6. CASE EditByHand
  BY <1>6 DEF EditByHand
<1>7. CASE Refresh
  <2>1. row.st = "created"
    BY <1>7 DEF Refresh
  <2>2. row' # NoRow
    BY <2>1 DEF NoRow
  <2>3. astray' = astray \ h.reads
    BY <1>7, <2>2 DEF Refresh
  <2>4. "gone" \notin h.reads
    BY FitsBase DEF Fits, Shaped, Settings
  <2> QED BY <2>3, <2>4
<1>8. CASE Lapse
  BY <1>8, BaseLapse
<1> QED BY Moves, <1>2, <1>3, <1>4, <1>5, <1>6, <1>7, <1>8

LEMMA SavedNext ==
    ASSUME Base, Saved, Next
    PROVE  Saved'
<1>1. Types /\ Stage /\ Ordered /\ Identified /\ Ids
  BY FitsBase
<1>2. CASE calls' = <<>>
  BY <1>2 DEF Saved
<1>3. CASE RowStep \/ Abandoned \/ Return \/ Retry
  <2>1. calls' = <<>>
    BY <1>3, BaseRow, BaseAbandoned, BaseReturn DEF Retry
  <2> QED BY <2>1, <1>2
<1>4. CASE Make \/ StrokeStep \/ Delete
  <2>1. calls # <<>> /\ saved' = saved /\ todo' = todo
    BY <1>4, BaseMake, BaseStroke, BaseDelete
  <2> QED BY <2>1 DEF Saved, Beside
<1>5. CASE Begin
  BY <1>5 DEF Begin, Saved, Beside
<1>6. CASE Background
  BY <1>6 DEF Background, run, Saved, Beside
<1>7. CASE EditConfig \/ EditByHand \/ Refresh \/ Lapse
  <2>1. todo = <<>> /\ calls' = calls
    BY <1>7, BaseAround, BaseLapse DEF run, EditConfig, EditByHand, Refresh, Between
  <2>2. calls' = <<>>
    BY <2>1, <1>1 DEF Stage
  <2> QED BY <2>2, <1>2
<1> QED BY Moves, <1>3, <1>4, <1>5, <1>6, <1>7

\* What the row leads to once it is persisted.
LEMMA Persisted ==
    ASSUME Base, Persist
    PROVE  /\ row'.st = "created" /\ row'.in = want
           /\ (row.st = "creating" /\ Wrote) \/ (row.st = "created" /\ At("persist", 1))
           /\ h.by = "lookup" => Held(row)' \cap Objects = {}
           /\ h.by # "lookup" /\ Sound => it \in Held(row)'
           /\ h.by # "lookup" /\ Here => Held(row)' \cap Objects \subseteq {it}
           /\ row.st = "created" => Held(row)' \cap Objects = Held(row) \cap Objects
           /\ Objects' = Objects /\ Target(row)' \subseteq Held(row)' \cap Objects
<1>1. Types /\ Stage /\ Ordered /\ Identified /\ Ids /\ Fits(kind, h)
  BY FitsBase
<1>2. /\ Base' /\ cloud' = cloud /\ kind' = kind /\ h' = h /\ calls = <<>>
  BY BaseRow DEF RowStep
<1>3. /\ row' = Row("created", want, it) /\ todo # <<>> /\ Head(todo) = "persist"
  BY DEF Persist, Written
<1>4. row'.st = "created" /\ row'.in = want /\ row'.id = it
  BY <1>3 DEF Row
<1>5. PICK s : s = row'
  OBVIOUS
<1>6. Held(row)' = Held(s) /\ Target(row)' = Target(s) /\ Objects' = Objects
  BY <1>2, <1>5, SameCloud, SameRows
<1>7. s.st = "created" /\ s.in = want /\ s.id = it
  BY <1>4, <1>5
<1>8. (row.st = "creating" /\ Wrote) \/ (row.st = "created" /\ At("persist", 1))
  <2>1. row.st \in {"none", "creating", "created"}
    BY <1>1 DEF Types, Rows
  <2>2. At("persist", 1) \/ At("persist", 3)
    BY <1>3, <1>1, Stations DEF Shape, At
  <2> QED BY <2>1, <2>2, <1>1, <1>3 DEF Stage, Wrote, Doing
<1>9. row.st = "created" => Held(s) = Held(row)
  <2>1. SUFFICES ASSUME row.st = "created" PROVE Held(s) = Held(row)
    OBVIOUS
  <2>2. \A f \in h.fields \cap {"name", "imm"} : row.in[f] = want[f]
    BY <2>1, <1>8, <1>1 DEF Stage
  <2>3. CASE h.by = "name"
    <3>1. "name" \in h.fields
      BY <2>3, <1>1 DEF Fits, Shaped, ByName
    <3>2. row["in"]["name"] = want["name"]
      BY <3>1, <2>2
    <3> QED BY <3>2, <2>3, <1>7 DEF Held
  <2>4. CASE h.by # "name"
    <3>1. it = row.id
      BY <2>4, <2>1, <1>3, <1>1 DEF Ids, Doing
    <3> QED BY <3>1, <2>4, <1>7 DEF Held
  <2> QED BY <2>3, <2>4
<1>10. h.by = "lookup" => Held(s) \cap Objects = {}
  <2>1. SUFFICES ASSUME h.by = "lookup" PROVE Held(s) \cap Objects = {}
    OBVIOUS
  <2>2. it = 0
    <3>1. CASE row.st = "creating" /\ Wrote
      BY <3>1, <2>1, <1>1 DEF Ids
    <3>2. CASE row.st = "created" /\ At("persist", 1)
      BY <3>2, <2>1, <1>1, <1>3 DEF Ids, Doing
    <3> QED BY <1>8, <3>1, <3>2
  <2> QED BY <2>1, <2>2, <1>7 DEF Held
<1>11. ASSUME h.by # "lookup", Sound PROVE it \in Held(s)
  <2>0. it \in Objects /\ it # 0
    BY <1>11, <1>1 DEF Sound, Here, Objects, Types
  <2>1. CASE h.by = "name"
    <3>1. CASE row.st = "created"
      <4>1. it \in Held(row)
        BY <3>1, <2>0, <2>1, <1>1, <1>3 DEF Ids, Doing, Here
      <4> QED BY <4>1, <3>1, <1>9
    <3>2. CASE Wrote
      <4>1. Leading(it)
        BY <1>1, <1>3 DEF Ids, Doing
      <4>2. kind # "NatGateway"
        BY <2>1, <1>1 DEF Fits, Particular
      <4>3. it \in Ours
        BY <4>1, <4>2, <2>0 DEF Leading, Ours, Objects, Live
      <4>4. it \in Conflicting
        BY <4>3, <3>2, <1>1 DEF Ids
      <4> QED BY <4>4, <2>1, <1>7 DEF Conflicting, Claims, Held
    <3> QED BY <3>1, <3>2, <1>8
  <2>2. CASE h.by # "name"
    BY <2>0, <2>2, <1>7 DEF Held
  <2> QED BY <2>1, <2>2
<1>12. ASSUME h.by # "lookup", Here PROVE Held(s) \cap Objects \subseteq {it}
  <2>1. CASE h.by = "name"
    <3>1. it \in Held(s)
      <4>1. CASE row.st = "created"
        <5>1. it \in Held(row)
          BY <4>1, <1>12, <2>1, <1>1, <1>3 DEF Ids, Doing
        <5> QED BY <5>1, <4>1, <1>9
      <4>2. CASE Wrote
        <5>1. Leading(it) /\ it \in Objects /\ it # 0
          BY <1>1, <1>3, <1>12 DEF Ids, Doing, Here, Objects, Types
        <5>2. kind # "NatGateway"
          BY <2>1, <1>1 DEF Fits, Particular
        <5>3. it \in Ours
          BY <5>1, <5>2 DEF Leading, Ours, Objects, Live
        <5>4. it \in Conflicting
          BY <5>3, <4>2, <1>1 DEF Ids
        <5> QED BY <5>4, <2>1, <1>7 DEF Conflicting, Claims, Held
      <4> QED BY <4>1, <4>2, <1>8
    <3>2. SUFFICES ASSUME NEW j \in Held(s), j \in Objects PROVE j = it
      OBVIOUS
    <3>3. cloud[j].set.name = cloud[it].set.name /\ it \in Objects
      BY <3>1, <3>2, <2>1 DEF Held, SameName
    <3> QED BY <3>2, <3>3, <2>1, <1>1 DEF Identified, ByName
  <2>2. CASE h.by # "name"
    BY <2>2, <1>7 DEF Held
  <2> QED BY <2>1, <2>2
<1>13. Target(s) \subseteq Held(s) \cap Objects
  <2>1. h.by = "tag" => it # 0
    BY <1>1, <1>3 DEF Ids, Doing
  <2>2. \A i \in Held(s) : Exists(i) => i \in Objects
    <3>1. SUFFICES ASSUME NEW i \in Held(s), Exists(i) PROVE i \in Objects
      OBVIOUS
    <3>2. CASE h.by = "name"
      BY <3>1, <3>2 DEF Held, SameName
    <3>3. CASE h.by # "name"
      <4>1. i = it /\ it # 0
        BY <3>1, <3>3, <1>7 DEF Held
      <4>2. Leading(it)
        BY <1>1, <1>3 DEF Ids, Doing
      <4> QED BY <4>1, <4>2, <3>1 DEF Leading, Objects
    <3> QED BY <3>2, <3>3
  <2> QED BY <2>1, <2>2, <1>7 DEF Target
<1> QED BY <1>4, <1>6, <1>8, <1>9, <1>10, <1>11, <1>12, <1>13

----------------------------------------------------------------------------
(* The row and its object, step by step.                                   *)

\* What makes a row tell the truth.
LiveInv ==
    /\ Base /\ Destroying /\ Dying /\ Listed /\ Saved
    /\ Apart /\ Kept /\ Progress /\ RowIsLive

LEMMA ApartShrunk ==
    ASSUME Base, Apart, Shrink \/ Lapse, row' = row, comp' = comp, Standing,
           row.st = "created" /\ ~At("ahead", 5)' => ~At("ahead", 5),
           (Creating \/ Wrote)' => it' = 0 \/ (it' = it /\ (Creating \/ Wrote))
    PROVE  Apart'
<1>1. Types /\ Stage /\ Ordered /\ Identified /\ Ids
  BY FitsBase
<1>2. Target(comp)' \subseteq Target(comp) /\ Target(comp)' \subseteq Objects'
  BY <1>1, Shrunk_comp
<1>3. Held(row)' \cap Objects' = Held(row) \cap Objects'
  BY <1>1, Shrunk_row
<1>4. (row.st = "created" /\ ~At("ahead", 5))' => (Held(row) \cap Target(comp))' = {}
  BY <1>2, <1>3 DEF Apart
<1>5. (Creating \/ Wrote)' => (it \notin Target(comp))'
  <2>1. 0 \notin Objects'
    BY <1>1, Shrunk DEF Types
  <2> QED BY <2>1, <1>2 DEF Apart
<1> QED BY <1>4, <1>5 DEF Apart

LEMMA ApartRow ==
    ASSUME LiveInv, RowStep
    PROVE  Apart'
<1>1. Types /\ Stage /\ Ordered /\ Identified /\ Ids /\ Base
  BY FitsBase DEF LiveInv
<1>2. /\ Base' /\ Shrink /\ cloud' = cloud /\ kind' = kind /\ want' = want /\ h' = h /\ calls' = <<>>
  BY <1>1, BaseRow
<1> SUFFICES ASSUME Standing' PROVE Apart'
  BY DEF Apart
<1>3. Standing
  BY DEF Standing, RowStep, Plan, CopyToCompanion, WriteAhead, Persist, Forget, DropCompanion
<1>4. ~Creating'
  BY <1>2 DEF Creating, Within
<1>5. Target(comp) \subseteq Objects /\ Objects' = Objects
  BY <1>1, <1>2, Targets, SameCloud DEF Stage, Marked
<1>6. CASE Plan
  <2>1. row' = row /\ comp' = comp /\ todo = <<>> /\ ~Wrote'
    BY <1>6, PlanShape DEF Shape, Wrote, Doing
  <2>2. ~At("ahead", 5)
    BY <2>1 DEF At
  <2> QED BY <2>1, <2>2, <1>1, <1>2, <1>3, <1>4, ApartShrunk DEF LiveInv
<1>7. CASE CopyToCompanion \/ WriteAhead \/ Forget \/ DropCompanion
  <2>1. todo # <<>> /\ todo' = Tail(todo) /\ Head(todo) \in {"companion", "ahead", "forget", "uncompanion"}
    BY <1>7 DEF CopyToCompanion, WriteAhead, Forget, DropCompanion, Written
  <2>2. ~Wrote'
    BY <2>1, <1>1, Stations DEF Shape, Wrote, Doing
  <2>3. CASE CopyToCompanion
    <3>1. At("ahead", 5)'
      BY <2>1, <2>3, <1>1, Stations DEF Shape, At, CopyToCompanion, Written
    <3> QED BY <3>1, <2>2, <1>4 DEF Apart
  <2>4. CASE WriteAhead \/ Forget
    <3>1. row'.st # "created"
      BY <2>4 DEF WriteAhead, Forget, Row, NoRow
    <3> QED BY <3>1, <2>2, <1>4 DEF Apart
  <2>5. CASE DropCompanion
    <3>1. comp'.st = "none"
      BY <2>5 DEF DropCompanion, NoRow
    <3>2. Target(comp)' = {}
      BY <3>1 DEF Target
    <3> QED BY <3>2, <2>2, <1>4 DEF Apart
  <2> QED BY <1>7, <2>3, <2>4, <2>5
<1>8. CASE Persist
  <2>1. todo # <<>> /\ todo' = Tail(todo) /\ Head(todo) = "persist" /\ comp' = comp
    BY <1>8 DEF Persist, Written
  <2>2. row'.st = "created" /\ ~Wrote'
    BY <1>8, <1>1, Persisted DEF Wrote
  <2>3. PICK c : c = comp
    OBVIOUS
  <2>4. Target(comp)' = Target(comp)
    BY <2>1, <2>3, <1>2, SameRows, SameCloud
  <2>5. ~At("ahead", 5)
    BY <2>1 DEF At
  <2>6. Held(row)' \cap Target(comp) = {}
    <3>1. CASE h.by = "lookup"
      BY <3>1, <1>1, <1>8, <1>5, Persisted
    <3>2. CASE h.by # "lookup" /\ row.st = "creating" /\ Wrote
      <4>1. Doing("persist") /\ Working
        BY <3>2, <2>1 DEF Doing, Working
      <4>2. Sound
        BY <4>1, <1>3, <1>2, <1>1, BaseRow DEF LiveInv, Progress
      <4>3. Held(row)' \cap Objects \subseteq {it}
        BY <4>2, <3>2, <1>1, <1>8, Persisted DEF Sound
      <4>4. it \notin Target(comp)
        BY <3>2, <1>3 DEF LiveInv, Apart
      <4> QED BY <4>3, <4>4, <1>5
    <3>3. CASE row.st = "created"
      <4>1. Held(row)' \cap Objects = Held(row) \cap Objects
        BY <3>3, <1>1, <1>8, Persisted
      <4>2. Held(row) \cap Target(comp) = {}
        BY <3>3, <1>3, <2>5 DEF LiveInv, Apart
      <4> QED BY <4>1, <4>2, <1>5
    <3> QED BY <3>1, <3>2, <3>3, <1>1, <1>8, Persisted
  <2> QED BY <2>2, <2>4, <2>6, <1>4 DEF Apart
<1> QED BY <1>6, <1>7, <1>8 DEF RowStep

LEMMA ApartCut ==
    ASSUME LiveInv, Abandoned
    PROVE  Apart'
<1>1. Types /\ Stage /\ Ordered /\ Identified /\ Ids /\ Base
  BY FitsBase DEF LiveInv
<1>2. /\ Shrink /\ row' = row /\ comp' = comp /\ todo' = <<>> /\ calls' = <<>>
  BY <1>1, BaseAbandoned
<1> SUFFICES ASSUME Standing' PROVE Apart'
  BY DEF Apart
<1>3. Standing /\ "gone" \notin CutShort
  BY DEF Abandoned, Standing
<1>4. ~(Creating \/ Wrote)'
  BY <1>2 DEF Creating, Wrote, Within, Doing
<1>5. ~At("ahead", 5)
  <2> SUFFICES ASSUME At("ahead", 5) PROVE FALSE
    OBVIOUS
  <2>1. todo # <<>> /\ Head(todo) = "ahead" /\ Len(todo) = 5
    BY DEF At
  <2>2. ~("forget" \in ToSet(todo)) /\ ~At("destroy", 3)
    BY <2>1, <1>1, Stations DEF Shape, At
  <2>3. todo # <<"destroy", "create", "persist">>
    BY <2>1, <2>2, <1>1, Stations
  <2>4. CutShort = {"gone"}
    BY <2>1, <2>2, <2>3 DEF CutShort
  <2> QED BY <2>4, <1>3
<1> QED BY <1>1, <1>2, <1>3, <1>4, <1>5, ApartShrunk DEF LiveInv

LEMMA ApartNext ==
    ASSUME LiveInv, Next
    PROVE  Apart'
<1>1. Types /\ Stage /\ Ordered /\ Identified /\ Ids /\ Base /\ Apart
  BY FitsBase DEF LiveInv
<1> SUFFICES ASSUME Standing' PROVE Apart'
  BY DEF Apart
<1>2. ~Make /\ (row'.st # "none" \/ row' = row) => Standing
  BY <1>1, StandingBack DEF Standing
<1>3. CASE Begin \/ Retry
  <2>1. /\ Shrink /\ row' = row /\ comp' = comp /\ todo' = todo
    BY <1>3, <1>1, BaseBegin
  <2>2. ~Creating'
    BY <1>3, <2>1 DEF Begin, Retry, Creating, Within, Doing
  <2>3. Begin => Head(todo) # "persist"
    BY DEF Begin, Operations
  <2>4. Retry => Head(todo) # "persist"
    BY <1>1 DEF Retry, Ordered, Operations
  <2>5. ~Wrote'
    BY <1>3, <2>1, <2>3, <2>4 DEF Wrote, Doing
  <2>6. At("ahead", 5)' <=> At("ahead", 5)
    BY <2>1 DEF At
  <2>7. ~Make
    BY <1>3, <2>2, <1>1, BaseMake DEF Creating
  <2> QED BY <2>1, <2>2, <2>5, <2>6, <2>7, <1>1, <1>2, ApartShrunk
<1>4. CASE Make
  <2>1. row' = row /\ Within("create") /\ todo' = todo
    BY <1>4, <1>1, BaseMake
  <2>2. row'.st = "creating"
    <3>1. At("create", 2) \/ At("create", 4)
      BY <2>1, <1>1, Stations DEF Within, Doing, Shape, At
    <3> QED BY <3>1, <2>1, <1>1 DEF Stage, Row
  <2>3. "gone" \notin Doomed
    BY <1>4 DEF Make, Standing
  <2>4. (it \notin Target(comp))'
    BY <2>3 DEF Doomed
  <2> QED BY <2>2, <2>4 DEF Apart
<1>5. CASE StrokeStep \/ Delete
  <2>1. /\ Shrink /\ row' = row /\ comp' = comp /\ todo' = todo /\ it' = it /\ kind' = kind
        /\ (\A op : Within(op)' => Within(op)) /\ astray' = astray
    BY <1>5, <1>1, BaseStroke, BaseDelete
  <2>2. At("ahead", 5)' <=> At("ahead", 5)
    BY <2>1 DEF At
  <2>3. (Creating \/ Wrote)' => Creating \/ Wrote
    BY <2>1 DEF Creating, Wrote, Doing
  <2> QED BY <2>1, <2>2, <2>3, <1>1, ApartShrunk DEF Standing
<1>6. CASE Return
  <2>1. /\ Shrink /\ row' = row /\ comp' = comp /\ it' = it /\ calls' = <<>> /\ astray' = astray
        /\ calls # <<>> /\ todo' = Tail(todo) /\ todo # <<>> /\ Head(todo) \in Operations
    BY <1>6, <1>1, BaseReturn
  <2>2. ~At("ahead", 5)
    BY <2>1 DEF At, Operations
  <2>3. ASSUME (Creating \/ Wrote)' PROVE it' = 0 \/ (it' = it /\ Creating)
    <3>1. Wrote' /\ row.st = "creating"
      BY <2>1, <2>3 DEF Creating, Within, Wrote
    <3>2. Head(todo) = "create"
      <4>1. Head(todo) # "destroy"
        BY <2>1, <3>1, <1>1, Stations DEF Shape, Wrote, Doing
      <4>2. Head(todo) # "update"
        <5> SUFFICES ASSUME Head(todo) = "update" PROVE FALSE
          OBVIOUS
        <5>1. At("update", 2)
          BY <2>1, <1>1, Stations DEF Shape, At
        <5> QED BY <5>1, <3>1, <1>1 DEF Stage
      <4> QED BY <4>1, <4>2, <2>1 DEF Operations
    <3> QED BY <3>2, <2>1 DEF Creating, Within, Doing
  <2> QED BY <2>1, <2>2, <2>3, <1>1, ApartShrunk DEF Standing
<1>7. CASE Background \/ EditConfig \/ EditByHand
  <2>1. /\ Shrink /\ comp' = comp /\ UNCHANGED run /\ row' = row /\ ~Make
    <3>1. Shrink /\ comp' = comp /\ UNCHANGED run
      BY <1>7, <1>1, BaseAround
    <3>2. row' = row
      BY <1>7 DEF Background, rows, EditConfig, EditByHand
    <3>3. ~Make
      BY <3>1, <1>1, BaseMake DEF run
    <3> QED BY <3>1, <3>2, <3>3
  <2>2. At("ahead", 5)' <=> At("ahead", 5)
    BY <2>1 DEF At, run
  <2>3. it' = it /\ ((Creating \/ Wrote)' => Creating \/ Wrote)
    BY <2>1 DEF Creating, Wrote, Within, Doing, run
  <2> QED BY <2>1, <2>2, <2>3, <1>1, <1>2, ApartShrunk
<1>8. CASE Refresh
  <2>1. /\ Base' /\ comp' = comp /\ UNCHANGED run /\ todo = <<>> /\ cloud' = cloud /\ kind' = kind /\ h' = h /\ row.st = "created"
    BY <1>8, <1>1, BaseAround DEF Refresh
  <2>2. ~(Creating \/ Wrote)'
    BY <2>1 DEF Creating, Wrote, Within, Doing, run
  <2>3. CASE row' = NoRow
    BY <2>2, <2>3 DEF Apart, NoRow
  <2>4. CASE row' # NoRow
    <3>1. row' = [row EXCEPT !.in = [f \in Settings |-> IF f \in h.reads THEN row'.in[f] ELSE row.in[f]]]
          /\ row'.st = "created"
      BY <2>4, <1>8, <1>1 DEF Refresh, Types, Rows
    <3>2. row'.id = row.id /\ row'["in"]["name"] = row["in"]["name"]
      <4>1. "name" \notin h.reads
        BY <1>1, FitsBase DEF Fits, Shaped
      <4>2. row \in Rows
        BY <1>1 DEF Types
      <4> QED BY <3>1, <4>1, <4>2 DEF Rows, Settings
    <3>3. PICK r : r = row'
      OBVIOUS
    <3>4. Held(row)' = Held(r)
      BY <3>3, <2>1, SameRows, SameCloud
    <3>5. Held(r) = Held(row)
      BY <3>2, <3>3 DEF Held
    <3>6. PICK c : c = comp
      OBVIOUS
    <3>7. Target(comp)' = Target(comp)
      BY <2>1, <3>6, SameRows, SameCloud
    <3>8. ~At("ahead", 5)
      BY <2>1 DEF At
    <3>9. Standing
      <4>1. ~Make
        BY <1>1, <2>1, BaseMake DEF run, Stage
      <4> QED BY <4>1, <3>1, <1>2
    <3>10. Held(row) \cap Target(comp) = {}
      BY <3>8, <3>9, <2>1, <1>1 DEF Apart
    <3> QED BY <3>10, <3>4, <3>5, <3>7, <2>2 DEF Apart
  <2> QED BY <2>3, <2>4
<1>9. CASE RowStep \/ Abandoned
  BY <1>9, ApartRow, ApartCut
<1>10. CASE Lapse
  <2>1. /\ comp' = comp /\ row' = row /\ todo' = <<>> /\ calls' = <<>> /\ astray' = astray /\ todo = <<>>
    BY <1>10, <1>1, BaseLapse DEF run
  <2>2. ~At("ahead", 5) /\ ~At("ahead", 5)' /\ ~(Creating \/ Wrote)'
    BY <2>1 DEF At, Creating, Wrote, Within, Doing
  <2> QED BY <2>1, <2>2, <1>1, <1>10, ApartShrunk DEF Standing
<1> QED BY Moves, <1>3, <1>4, <1>5, <1>6, <1>7, <1>8, <1>9, <1>10

LEMMA OneStroke ==
    ASSUME Base, StrokeStep, NEW i \in DOMAIN cloud
    PROVE  cloud'[i] = cloud[i] \/ (i = it /\ Here /\ Alike(cloud[i], cloud'[i]))
<1>1. UNCHANGED cloud \/ (Here /\ \E x \in Things : Alike(cloud[it], x) /\ cloud' = [cloud EXCEPT ![it] = x])
  BY BaseStroke DEF Stroke
<1>2. ASSUME NEW x \in Things, Here, Alike(cloud[it], x), cloud' = [cloud EXCEPT ![it] = x]
      PROVE  cloud'[i] = cloud[i] \/ (i = it /\ Here /\ Alike(cloud[i], cloud'[i]))
  BY <1>2
<1> QED BY <1>1, <1>2

LEMMA OneDelete ==
    ASSUME Base, Delete, NEW i \in DOMAIN cloud
    PROVE  \/ cloud'[i] = cloud[i]
           \/ /\ i = it /\ Here
              /\ cloud'[i] = Gone \/ (cloud'[i].up = "dying" /\ cloud'[i].set = cloud[i].set)
<1>1. CASE ~Here
  BY <1>1 DEF Delete
<1>2. CASE Here
  <2>1. it \in DOMAIN cloud /\ cloud[it] \in Things
    BY <1>2, ItHere, FitsBase
  <2>2. PICK x : /\ cloud' = [cloud EXCEPT ![it] = x]
                 /\ x = Gone \/ x = [cloud[it] EXCEPT !.up = "dying"]
    BY <1>2 DEF Delete
  <2>3. x = Gone \/ (x.up = "dying" /\ x.set = cloud[it].set)
    BY <2>1, <2>2 DEF Things
  <2> QED BY <2>1, <2>2, <2>3, <1>2
<1> QED BY <1>1, <1>2

\* A refresh that keeps the row records in it what it read.
LEMMA Refreshed ==
    ASSUME Base, Refresh, row' # NoRow
    PROVE  /\ row'.st = "created" /\ row.st = "created" /\ row'.id = row.id
           /\ (\A f \in Settings \ h.reads : row'.in[f] = row.in[f])
           /\ Held(row)' = Held(row) /\ Target(row)' = Target(row) /\ Objects' = Objects
           /\ cloud' = cloud /\ h' = h /\ todo = <<>> /\ todo' = todo /\ saved' = saved
           /\ astray' = astray \ h.reads
           /\ {"name", "imm", "gone"} \cap h.reads = {}
           /\ \E i \in Held(row) : /\ Exists(i) /\ Live(i)
                                   /\ \A f \in h.reads : row'.in[f] = cloud[i].set[f]
<1>1. Types /\ Stage /\ Ordered /\ Identified /\ Ids /\ Fits(kind, h) /\ row \in Rows
  BY FitsBase DEF Types
<1>2. PICK i \in Held(row) :
         /\ Exists(i) /\ Live(i)
         /\ row' = [row EXCEPT !.in = [f \in Settings |-> IF f \in h.reads THEN cloud[i].set[f] ELSE row.in[f]]]
         /\ astray' = astray \ h.reads
  BY DEF Refresh
<1>3. row.st = "created" /\ todo = <<>> /\ cloud' = cloud /\ kind' = kind /\ todo' = todo /\ saved' = saved
  BY DEF Refresh, run
<1>4. h.reads \subseteq Settings /\ {"name", "imm", "gone"} \cap h.reads = {} /\ "name" \in Settings
  BY <1>1 DEF Fits, Shaped, Settings
<1> DEFINE n == [f \in Settings |-> IF f \in h.reads THEN cloud[i].set[f] ELSE row.in[f]]
<1>5. (\A f \in Settings \ h.reads : n[f] = row.in[f]) /\ (\A f \in h.reads : n[f] = cloud[i].set[f])
  BY <1>4
<1>6. row' = [row EXCEPT !.in = n]
  BY <1>2
<1> HIDE DEF n
<1>7. row'.st = "created" /\ row'.id = row.id /\ row'.in = n
  BY <1>6, <1>1, <1>3 DEF Rows
<1>8. PICK r : r = row'
  OBVIOUS
<1>9. h' = h /\ Held(row)' = Held(r) /\ Target(row)' = Target(r) /\ Objects' = Objects
  BY <1>8, <1>3, SameRows, SameCloud
<1>10. r["in"]["name"] = row["in"]["name"] /\ r.id = row.id /\ r.st = row.st
  BY <1>3, <1>4, <1>5, <1>7, <1>8
<1>11. Held(r) = Held(row)
  BY <1>10 DEF Held
<1>12. Target(r) = Target(row)
  BY <1>10, <1>11 DEF Target
<1> QED BY <1>2, <1>3, <1>4, <1>5, <1>7, <1>9, <1>11, <1>12

LEMMA KeptStill ==
    ASSUME Base, Kept, row' = row, h' = h, Target(row)' \subseteq Target(row), Standing,
           Removing => Removing',
           \A i \in Target(row)' :
              /\ \A f \in (h.fields \cap {"name", "imm"}) \ astray' : f \notin astray /\ cloud'[i].set[f] = cloud[i].set[f]
              /\ ~Removing' /\ cloud[i].up # "dying" => cloud'[i].up # "dying"
    PROVE  Kept'
<1> SUFFICES ASSUME row.st = "created", NEW i \in Target(row)'
             PROVE  /\ \A f \in (h.fields \cap {"name", "imm"}) \ astray' : cloud'[i].set[f] = row.in[f]
                    /\ ~Removing' => cloud'[i].up # "dying"
  BY DEF Kept
<1>1. /\ \A f \in (h.fields \cap {"name", "imm"}) \ astray : cloud[i].set[f] = row.in[f]
      /\ ~Removing => cloud[i].up # "dying"
  BY DEF Kept
<1> QED BY <1>1

LEMMA KeptRow ==
    ASSUME LiveInv, RowStep
    PROVE  Kept'
<1>1. Types /\ Stage /\ Ordered /\ Identified /\ Ids /\ Base /\ Kept
  BY FitsBase DEF LiveInv
<1>2. /\ cloud' = cloud /\ kind' = kind /\ want' = want /\ h' = h /\ calls = <<>>
  BY <1>1, BaseRow
<1> SUFFICES ASSUME Standing' PROVE Kept'
  BY DEF Kept
<1>3. astray' = astray
  BY DEF RowStep, Plan, CopyToCompanion, WriteAhead, Persist, Forget, DropCompanion
<1>4. Standing
  BY <1>3 DEF Standing
<1>5. CASE Plan \/ CopyToCompanion \/ DropCompanion
  <2>1. row' = row
    BY <1>5, PlanShape DEF CopyToCompanion, DropCompanion
  <2>2. PICK r : r = row
    OBVIOUS
  <2>3. Target(row)' = Target(row)
    BY <2>1, <2>2, <1>2, SameRows, SameCloud
  <2>4. Removing => Removing'
    <3>1. CASE Plan
      <4>1. "forget" \notin ToSet(<<>>)
        BY DEF ToSet
      <4> QED BY <3>1, <4>1, PlanShape DEF Removing
    <3>2. CASE CopyToCompanion \/ DropCompanion
      <4>1. todo # <<>> /\ Head(todo) \in {"companion", "uncompanion"}
        BY <3>2 DEF CopyToCompanion, DropCompanion, Written
      <4> QED BY <4>1, <1>1, Stations DEF Shape, Removing
    <3> QED BY <1>5, <3>1, <3>2
  <2> QED BY <2>1, <2>3, <2>4, <1>1, <1>2, <1>3, <1>4, KeptStill
<1>6. CASE WriteAhead \/ Forget
  <2>1. row'.st # "created"
    BY <1>6 DEF WriteAhead, Forget, Row, NoRow
  <2> QED BY <2>1 DEF Kept
<1>7. CASE Persist
  <2>1. CASE h.by = "lookup"
    <3>1. Target(row)' = {}
      BY <2>1, <1>7, <1>1, Persisted
    <3> QED BY <3>1 DEF Kept
  <2>2. CASE h.by # "lookup"
    <3>1. Doing("persist") /\ Working
      BY <2>2, <1>7 DEF Persist, Written, Doing, Working
    <3>2. Sound
      BY <3>1, <1>4, <1>2 DEF LiveInv, Progress
    <3>3. \A f \in h.fields \ astray : cloud[it].set[f] = want[f]
      <4>1. Left = {}
        BY <1>2 DEF Left, ToSet
      <4> QED BY <4>1, <3>1, <3>2, <1>4, PendsNot DEF LiveInv, Progress
    <3>4. Target(row)' \subseteq {it}
      BY <2>2, <3>2, <1>7, <1>1, Persisted DEF Sound
    <3>5. row'.in = want
      BY <1>7, <1>1, Persisted
    <3> QED BY <3>2, <3>3, <3>4, <3>5, <1>2, <1>3 DEF Kept, Sound
  <2> QED BY <2>1, <2>2
<1> QED BY <1>5, <1>6, <1>7 DEF RowStep

LEMMA KeptCut ==
    ASSUME LiveInv, Abandoned
    PROVE  Kept'
<1>1. Types /\ Stage /\ Ordered /\ Identified /\ Ids /\ Base /\ Kept
  BY FitsBase DEF LiveInv
<1>2. /\ cloud' = cloud /\ kind' = kind /\ h' = h /\ row' = row
  BY <1>1, BaseAbandoned
<1> SUFFICES ASSUME Standing' PROVE Kept'
  BY DEF Kept
<1>3. Standing /\ "gone" \notin CutShort /\ astray \subseteq astray'
  BY DEF Abandoned, Standing
<1>4. PICK r : r = row
  OBVIOUS
<1>5. Target(row)' = Target(row)
  BY <1>2, <1>4, SameRows, SameCloud
<1>6. CASE Removing
  <2>1. ~\A i \in Target(row) : cloud[i].up = "dying"
    <3> SUFFICES ASSUME \A i \in Target(row) : cloud[i].up = "dying" PROVE FALSE
      OBVIOUS
    <3>1. todo # <<>>
      BY <1>6 DEF Removing, ToSet
    <3>a. (Head(todo) = "destroy" /\ Len(todo) = 2) \/ (Head(todo) = "forget" /\ Len(todo) = 1)
      <4>1. Head(todo) \notin {"companion", "ahead", "create"}
        BY <3>1, <1>6, <1>1, Stations DEF Shape, Removing
      <4>2. Head(todo) \notin {"update", "persist", "uncompanion"}
        BY <3>1, <1>6, <1>1, Stations DEF Shape, Removing
      <4>3. Head(todo) = "destroy" => Len(todo) = 2
        BY <3>1, <1>6, <1>1, Stations DEF Shape, Removing
      <4>4. Head(todo) = "forget" => Len(todo) = 1
        BY <3>1, <1>6, <1>1, Stations DEF Shape, Removing
      <4>5. Head(todo) \in {"companion", "ahead", "create", "update", "persist", "destroy", "uncompanion", "forget"}
        BY <3>1, <1>1, Stations
      <4> QED BY <4>1, <4>2, <4>3, <4>4, <4>5
    <3>b. Len(todo) \in {1, 2}
      BY <3>a
    <3>c. \A n \in {1, 2} : n # 5 /\ n # 3
      OBVIOUS
    <3>2. Len(todo) # 5 /\ ~At("destroy", 3)
      BY <3>b, <3>c DEF At
    <3>3. todo # <<"destroy", "create", "persist">>
      BY <3>1, <3>2, <1>1, Stations
    <3>4. CutShort = {"gone"}
      BY <3>2, <3>3, <1>6 DEF CutShort, Removing
    <3> QED BY <3>4, <1>3
  <2>2. \A i \in Target(row) : cloud[i].up # "dying"
    BY <2>1, <1>1, TargetOne
  <2> SUFFICES ASSUME row.st = "created", NEW i \in Target(row)'
             PROVE  /\ \A f \in (h.fields \cap {"name", "imm"}) \ astray' : cloud'[i].set[f] = row.in[f]
                    /\ cloud'[i].up # "dying"
    BY <1>2 DEF Kept
  <2> QED BY <2>2, <1>2, <1>3, <1>5, <1>1 DEF Kept
<1>7. CASE ~Removing
  BY <1>7, <1>1, <1>2, <1>3, <1>5, KeptStill
<1> QED BY <1>6, <1>7

LEMMA KeptNext ==
    ASSUME LiveInv, Next
    PROVE  Kept'
<1>1. Types /\ Stage /\ Ordered /\ Identified /\ Ids /\ Base /\ Kept /\ Fits(kind, h)
  BY FitsBase DEF LiveInv
<1> SUFFICES ASSUME Standing', row'.st = "created" PROVE Kept'
  BY DEF Kept
<1>2. ~Make => Standing
  BY <1>1, StandingBack DEF Standing
<1>3. CASE Begin \/ Retry
  <2>1. /\ cloud' = cloud /\ kind' = kind /\ h' = h /\ row' = row /\ todo' = todo
    BY <1>3, <1>1, BaseBegin
  <2>2. PICK r : r = row
    OBVIOUS
  <2>3. Target(row)' = Target(row)
    BY <2>1, <2>2, SameRows, SameCloud
  <2>4. {"name", "imm"} \cap astray \subseteq astray'
    <3>1. "attach" \notin ToSet(h.update)
      BY <1>1 DEF Fits, Sequenced
    <3>2. "name" \notin SetBy(h.update) /\ "imm" \notin SetBy(h.update)
      BY <3>1, SetByIs
    <3>3. astray' = astray \/ astray' = astray \ SetBy(h.update)
      BY <1>3 DEF Begin, Retry
    <3> QED BY <3>2, <3>3
  <2>5. Removing => Removing'
    BY <2>1 DEF Removing
  <2>6. Standing
    <3>1. astray' = astray \/ astray' = astray \ SetBy(h.update)
      BY <1>3 DEF Begin, Retry
    <3> QED BY <3>1, SetByIs DEF Standing
  <2> QED BY <2>1, <2>3, <2>4, <2>5, <2>6, <1>1, KeptStill
<1>4. ASSUME Make PROVE FALSE
  <2>1. row' = row /\ Within("create")
    BY <1>4, <1>1, BaseMake
  <2>2. At("create", 2) \/ At("create", 4)
    BY <2>1, <1>1, Stations DEF Within, Doing, Shape, At
  <2> QED BY <2>1, <2>2, <1>1 DEF Stage, Row
<1>5. CASE StrokeStep
  <2>1. /\ Shrink /\ row' = row /\ todo' = todo /\ kind' = kind /\ h' = h /\ astray' = astray /\ calls # <<>>
    BY <1>5, <1>1, BaseStroke
  <2>2. Target(row)' \subseteq Target(row) /\ Target(row) \subseteq DOMAIN cloud
    BY <2>1, <1>1, Shrunk_row, Targets DEF Objects, Marked
  <2>3. Head(calls) # "attach"
    <3> SUFFICES ASSUME Head(calls) = "attach" PROVE FALSE
      OBVIOUS
    <3>1. CASE Within("create")
      <4>1. At("create", 2) \/ At("create", 4)
        BY <3>1, <1>1, Stations DEF Within, Doing, Shape, At
      <4> QED BY <4>1, <2>1, <1>1 DEF Stage, Row
    <3>2. CASE Within("update")
      <4>1. "attach" \in ToSet(h.update)
        BY <3>2, <2>1, <1>1, Whose
      <4> QED BY <4>1, <1>1 DEF Fits, Sequenced
    <3> QED BY <3>1, <3>2, <2>1, <1>1, Whose DEF Setting
  <2>4. ASSUME NEW i \in Target(row)', NEW f \in {"name", "imm"}
        PROVE  cloud'[i].set[f] = cloud[i].set[f]
    <3>1. CASE cloud'[i] = cloud[i]
      BY <3>1
    <3>2. CASE i = it /\ Here
      <4>1. f \in Settings \ Aims(Head(calls))
        BY <2>3 DEF Aims, Settings
      <4> QED BY <3>2, <4>1, <1>1, <1>5, Effects
    <3> QED BY <3>1, <3>2, <2>2, <1>1, <1>5, OneStroke
  <2>5. ASSUME NEW i \in Target(row)', cloud[i].up # "dying" PROVE cloud'[i].up # "dying"
    BY <2>2, <2>5, <1>1, <1>5, OneStroke DEF Alike
  <2>6. Removing => Removing'
    BY <2>1 DEF Removing
  <2> QED BY <2>1, <2>2, <2>4, <2>5, <2>6, <1>1, KeptStill DEF Standing
<1>6. CASE Delete
  <2>1. /\ Shrink /\ row' = row /\ todo' = todo /\ kind' = kind /\ h' = h /\ astray' = astray /\ Within("destroy")
    BY <1>6, <1>1, BaseDelete
  <2>2. /\ Target(row)' \subseteq Target(row) /\ Target(row)' \subseteq Objects'
        /\ Target(row) \subseteq DOMAIN cloud
    BY <2>1, <1>1, Shrunk_row, Targets DEF Objects, Marked
  <2>3. ASSUME NEW i \in Target(row)' PROVE cloud'[i].set = cloud[i].set
    <3>1. cloud'[i].up # "gone"
      BY <2>2 DEF Objects, Exists
    <3>2. cloud'[i] # Gone
      BY <3>1 DEF Gone, Object
    <3> QED BY <3>2, <2>2, <1>1, <1>6, OneDelete
  <2>4. ASSUME NEW i \in Target(row)', ~Removing, cloud[i].up # "dying" PROVE cloud'[i].up # "dying"
    <3>1. CASE cloud'[i] = cloud[i]
      BY <3>1, <2>4
    <3>2. CASE i = it /\ Here
      <4>1. row.st = "created"
        BY <2>1
      <4>2. Beside /\ todo # <<>> /\ Head(todo) = "destroy" /\ At("destroy", 2)
        <5>1. todo # <<>> /\ Head(todo) = "destroy"
          BY <2>1 DEF Within, Doing
        <5>2. ~At("destroy", 3)
          BY <4>1, <1>1 DEF Stage, Row
        <5> QED BY <5>1, <5>2, <2>4, <1>1, Stations DEF Shape, At, Removing, Beside
      <4>3. old = comp /\ comp.st = "created"
        BY <4>2, <1>1 DEF Stage, At
      <4>4. it \in Target(old)
        BY <3>2, <4>3, <2>1 DEF LiveInv, Destroying
      <4>5. Held(row) \cap Target(comp) = {}
        BY <4>1, <4>2, <2>1 DEF LiveInv, Apart, Standing, At
      <4>6. i \in Held(row)
        BY <4>1, <2>2, <1>1, TargetOurs
      <4> QED BY <3>2, <4>3, <4>4, <4>5, <4>6
    <3> QED BY <3>1, <3>2, <2>2, <1>1, <1>6, OneDelete
  <2>5. Removing <=> Removing'
    BY <2>1 DEF Removing
  <2> QED BY <2>1, <2>2, <2>3, <2>4, <2>5, <1>1, KeptStill DEF Standing
<1>7. CASE Return
  <2>1. /\ cloud' = cloud /\ row' = row /\ astray' = astray /\ kind' = kind /\ h' = h
        /\ todo' = Tail(todo) /\ todo # <<>> /\ Head(todo) \in Operations
    BY <1>7, <1>1, BaseReturn
  <2>2. PICK r : r = row
    OBVIOUS
  <2>3. Target(row)' = Target(row)
    BY <2>1, <2>2, SameRows, SameCloud
  <2>4. Removing => Removing'
    BY <2>1, <1>1, Stations DEF Shape, Removing, Operations
  <2> QED BY <2>1, <2>3, <2>4, <1>1, KeptStill DEF Standing
<1>8. CASE Background
  <2>1. /\ Shrink /\ row' = row /\ kind' = kind /\ h' = h /\ astray' = astray /\ todo' = todo
    BY <1>8, <1>1, BaseAround DEF Background, rows, run
  <2>2. Target(row)' \subseteq Target(row) /\ Target(row)' \subseteq Objects' /\ Target(row) \subseteq DOMAIN cloud
    BY <2>1, <1>1, Shrunk_row, Targets DEF Objects, Marked
  <2>3. PICK j \in Objects : \E x \in Things :
              /\ cloud' = [cloud EXCEPT ![j] = x] /\ j \in DOMAIN cloud
              /\ x.up # "dying" /\ (x.up # "gone" => x.set = cloud[j].set)
    BY <1>1, <1>8, BackgroundOne
  <2>4. ASSUME NEW i \in Target(row)'
        PROVE  cloud'[i].set = cloud[i].set /\ (cloud[i].up # "dying" => cloud'[i].up # "dying")
    <3>1. cloud'[i].up # "gone" /\ i \in DOMAIN cloud
      BY <2>2 DEF Objects, Exists
    <3> QED BY <3>1, <2>3
  <2>5. Removing => Removing'
    BY <2>1 DEF Removing
  <2> QED BY <2>1, <2>2, <2>4, <2>5, <1>1, KeptStill DEF Standing
<1>9. CASE EditConfig
  <2>1. /\ cloud' = cloud /\ row' = row /\ kind' = kind /\ h' = h /\ todo' = todo /\ astray \subseteq astray' /\ ~Make
    BY <1>9, <1>4, <1>1, BaseAround DEF EditConfig, Between, run
  <2>2. PICK r : r = row
    OBVIOUS
  <2>3. Target(row)' = Target(row)
    BY <2>1, <2>2, SameRows, SameCloud
  <2>5. Removing => Removing'
    BY <2>1 DEF Removing
  <2> QED BY <2>1, <2>3, <2>5, <1>1, <1>2, KeptStill
<1>10. CASE EditByHand
  <2>1. /\ Shrink /\ row' = row /\ kind' = kind /\ h' = h /\ todo' = todo /\ ~Make
    BY <1>10, <1>4, <1>1, BaseAround DEF EditByHand, run
  <2>2. Target(row)' \subseteq Target(row) /\ Target(row)' \subseteq Objects' /\ Target(row) \subseteq DOMAIN cloud
    BY <2>1, <1>1, Shrunk_row, Targets DEF Objects, Marked
  <2>3. "gone" \notin astray'
    BY DEF Standing
  <2>4. PICK j \in Target(row) : \E f \in h.fields \ {"name", "imm"}, x \in Things :
                    /\ cloud' = [cloud EXCEPT ![j] = x] /\ x.up = cloud[j].up
                    /\ \A g \in Settings \ {f} : x.set[g] = cloud[j].set[g]
                    /\ astray' = astray \cup {f}
    BY <1>1, <1>10, ByHand, <2>3
  <2>5. PICK f \in h.fields \ {"name", "imm"} : \E x \in Things :
                    /\ cloud' = [cloud EXCEPT ![j] = x] /\ x.up = cloud[j].up
                    /\ \A g \in Settings \ {f} : x.set[g] = cloud[j].set[g]
                    /\ astray' = astray \cup {f}
    BY <2>4
  <2>6. ASSUME NEW i \in Target(row)'
        PROVE  /\ \A g \in {"name", "imm"} : cloud'[i].set[g] = cloud[i].set[g]
               /\ cloud[i].up # "dying" => cloud'[i].up # "dying"
    <3>1. i \in DOMAIN cloud /\ {"name", "imm"} \subseteq Settings \ {f}
      BY <2>2, <2>5 DEF Settings
    <3> QED BY <3>1, <2>5
  <2>7. Removing => Removing'
    BY <2>1 DEF Removing
  <2>8. astray \subseteq astray'
    BY <2>5
  <2> QED BY <2>1, <2>2, <2>6, <2>7, <2>8, <1>1, <1>2, KeptStill
<1>11. CASE Refresh
  <2>1. row' # NoRow
    BY DEF NoRow
  <2> DEFINE same == /\ cloud' = cloud /\ h' = h /\ todo' = todo /\ Target(row)' = Target(row) /\ row.st = "created"
        /\ astray' = astray \ h.reads /\ {"name", "imm", "gone"} \cap h.reads = {}
        /\ \A f \in Settings \ h.reads : row'.in[f] = row.in[f]
  <2>2. same
    BY <2>1, <1>11, <1>1, Refreshed
  <2>3. Standing
    BY <2>2 DEF Standing
  <2>4. ASSUME NEW i \in Target(row)', NEW f \in (h.fields \cap {"name", "imm"}) \ astray'
        PROVE  cloud'[i].set[f] = row'.in[f]
    <3>1. f \in Settings \ h.reads /\ f \notin astray
      BY <2>2, <2>4 DEF Settings
    <3>2. cloud[i].set[f] = row.in[f]
      BY <3>1, <2>2, <2>3, <2>4, <1>1 DEF Kept
    <3> QED BY <3>1, <3>2, <2>2
  <2>5. Removing' <=> Removing
    BY <2>2 DEF Removing
  <2>6. ASSUME NEW i \in Target(row)', ~Removing' PROVE cloud'[i].up # "dying"
    BY <2>2, <2>3, <2>5, <2>6, <1>1 DEF Kept
  <2> QED BY <2>2, <2>4, <2>6 DEF Kept
<1>12. CASE RowStep \/ Abandoned
  BY <1>12, KeptRow, KeptCut
<1>13. CASE Lapse
  <2>1. /\ row' = row /\ h' = h /\ astray' = astray /\ todo' = todo
    BY <1>13, <1>1, BaseLapse DEF run
  <2>2. Target(row)' \subseteq Target(row) /\ Target(row) \subseteq DOMAIN cloud
    BY <2>1, <1>1, <1>13, Shrunk_row, Targets DEF Objects, Marked
  <2>3. \A i \in Target(row)' : cloud'[i].set = cloud[i].set /\ cloud'[i].up = cloud[i].up
    BY <2>2, <1>1, <1>13, LapseKept
  <2>4. Removing => Removing'
    BY <2>1 DEF Removing
  <2> QED BY <2>1, <2>2, <2>3, <2>4, <1>1, KeptStill DEF Standing
<1> QED BY Moves, <1>3, <1>4, <1>5, <1>6, <1>7, <1>8, <1>9, <1>10, <1>11, <1>12, <1>13

LEMMA ProgressIdle ==
    ASSUME ~Working'
    PROVE  Progress'
  BY DEF Progress

LEMMA ProgressBegin ==
    ASSUME LiveInv, Begin, Standing'
    PROVE  Progress'
<1>1. Types /\ Stage /\ Ordered /\ Identified /\ Ids /\ Base /\ Fits(kind, h)
  BY FitsBase DEF LiveInv
<1>2. /\ cloud' = cloud /\ kind' = kind /\ h' = h /\ row' = row /\ todo' = todo /\ want' = want
      /\ todo # <<>> /\ Head(todo) \in Operations
  BY <1>1, BaseBegin DEF Begin
<1>3. CASE Head(todo) # "update"
  <2>1. ~Working'
    BY <1>2, <1>3 DEF Begin, Working, Creating, Within, Doing, Operations
  <2> QED BY <2>1, ProgressIdle
<1>4. CASE Head(todo) = "update"
  <2>1. it' \in Target(row) /\ calls' = Append(h.update, "return") /\ astray' = astray \ SetBy(h.update)
    BY <1>4 DEF Begin
  <2>2. At("update", 2) /\ ~Removing
    BY <1>2, <1>4, <1>1, Stations DEF Shape, At, Removing
  <2>3. row.st = "created" /\ \A f \in h.fields \cap {"name", "imm"} : row.in[f] = want[f]
    BY <2>2, <1>1 DEF Stage
  <2>4. Standing
    BY <2>1, SetByIs DEF Standing
  <2>5. /\ \A f \in (h.fields \cap {"name", "imm"}) \ astray : cloud[it'].set[f] = want[f]
        /\ cloud[it'].up # "dying"
    BY <2>1, <2>2, <2>3, <2>4 DEF LiveInv, Kept
  <2>6. it' \in Objects
    BY <2>1, <2>3, <1>1, TargetOurs
  <2>7. Left' = ToSet(h.update) \cup {"return"} /\ Head(calls') \in Left'
    <3>1. Opens(calls', ToSet(h.update))
      BY <2>1, <1>1, Openings
    <3>2. Left' = ToSet(h.update) \cup {"return"}
      BY <3>1 DEF Opens, Left
    <3>3. calls' \in Seq(CallNames) /\ calls' # <<>>
      BY <3>1 DEF Opens
    <3>4. Head(calls') \in ToSet(calls')
      <4>1. PICK s \in Seq(CallNames) : s = calls'
        BY <3>3
      <4>2. Head(s) \in ToSet(s)
        BY <4>1, <3>3 DEF ToSet
      <4> QED BY <4>1, <4>2
    <3> QED BY <3>2, <3>4 DEF Left
  <2>8. Head(calls') # "stamp"
    BY <2>7, <1>1 DEF Fits, Sequenced
  <2>9. \A f \in h.fields \ astray' : cloud[it'].set[f] = want[f] \/ Pends(f, Left')
    <3> SUFFICES ASSUME NEW f \in h.fields, f \notin astray'
                 PROVE  cloud[it'].set[f] = want[f] \/ Pends(f, Left')
      OBVIOUS
    <3>1. CASE f \in SetBy(h.update)
      <4>1. Pends(f, ToSet(h.update))
        BY <3>1, SetByIs
      <4> QED BY <4>1, <2>7, PendsMore
    <3>2. CASE f \notin SetBy(h.update)
      <4>1. f \in {"name", "imm"} /\ f \notin astray
        BY <3>2, <2>1, <1>1 DEF Fits, Complete
      <4> QED BY <4>1, <2>5
    <3> QED BY <3>1, <3>2
  <2>10. Here'
    <3>1. Objects' = Objects
      BY <1>2, SameCloud
    <3> QED BY <3>1, <2>6 DEF Here
  <2>11. Sound'
    BY <2>10, <2>5, <1>2 DEF Sound
  <2> QED BY <2>8, <2>9, <2>11, <1>2 DEF Progress
<1> QED BY <1>3, <1>4

LEMMA ProgressNew ==
    ASSUME LiveInv, MakeNew
    PROVE  Progress'
<1>1. Types /\ Stage /\ Ordered /\ Identified /\ Ids /\ Base /\ Fits(kind, h)
  BY FitsBase DEF LiveInv
<1>2. /\ h' = h /\ want' = want /\ cloud'[it'] = Made /\ it' \in Objects'
  BY <1>1, Grown
<1>3. calls' = h.after \o <<"return">>
  BY DEF MakeNew
<1>4. Left' = ToSet(h.after) \cup {"return"} /\ calls' # <<>>
  BY <1>3, <1>1, Openings DEF Opens, Left
<1>5. /\ Made.up \in {"active", "pending"}
      /\ \A f \in h.stamps : Made.set[f] = want[f]
      /\ "tags" \notin h.stamps => Made.set.tags = {}
  BY <1>1, MadeIs
<1>6. Sound'
  BY <1>2, <1>5 DEF Sound, Here
<1>7. \A f \in h.fields : Made.set[f] = want[f] \/ Pends(f, Left')
  <2> SUFFICES ASSUME NEW f \in h.fields PROVE Made.set[f] = want[f] \/ Pends(f, Left')
    OBVIOUS
  <2>1. f \in h.stamps \/ Pends(f, ToSet(h.after))
    BY <1>1 DEF Fits, Complete
  <2> QED BY <2>1, <1>4, <1>5, PendsMore
<1>8. Head(calls') = "stamp" => Made.set.tags = {}
  <2>1. Head(calls') \in Left'
    <3>1. PICK s \in Seq(CallNames) : s = calls' /\ s # <<>>
      BY <1>3, <1>4, <1>1, Openings DEF Opens
    <3>2. Head(s) \in ToSet(s)
      BY <3>1 DEF ToSet
    <3> QED BY <3>1, <3>2 DEF Left
  <2> QED BY <2>1, <1>4, <1>5, <1>1 DEF Fits, Sequenced, Shaped
<1> QED BY <1>2, <1>6, <1>7, <1>8 DEF Progress

LEMMA ProgressOld ==
    ASSUME LiveInv, MakeOld, Standing'
    PROVE  Progress'
<1>1. Types /\ Stage /\ Ordered /\ Identified /\ Ids /\ Base /\ Fits(kind, h)
  BY FitsBase DEF LiveInv
<1> DEFINE u == h.adopt \o h.after
<1>2. /\ h' = h /\ kind' = kind /\ want' = want /\ cloud' = cloud /\ it' \in Objects /\ it' \in Adoptable /\ it' \in Conflicting
      /\ calls' = u \o <<"return">> /\ u \in Seq(CallNames) /\ InPlace(u)
      /\ ToSet(u) = ToSet(h.adopt) \cup ToSet(h.after)
  BY <1>1, Adopted
<1>3. h.fields \ (SetBy(u) \cup Same) \subseteq astray'
  <2>1. h.adopt \o h.after = u
    OBVIOUS
  <2> HIDE DEF u
  <2> QED BY <2>1 DEF MakeOld
<1>a. h.adopt = <<>> => u = h.after
  <2>1. h.after \in Seq(CallNames)
    BY <1>1 DEF Fits, Sequenced
  <2> QED BY <2>1
<1> HIDE DEF u
<1>4. Left' = ToSet(u) \cup {"return"} /\ calls' # <<>> /\ calls' \in Seq(CallNames)
  BY <1>2, Opening DEF Opens, Left
<1>5. it' \in Objects'
  BY <1>2, SameCloud
<1>6. Sound' \/ Head(calls') = "active"
  <2>1. CASE cloud[it'].up # "dying"
    BY <2>1, <1>2, <1>5 DEF Sound, Here
  <2>2. CASE cloud[it'].up = "dying"
    <3>1. "gone" \in ToSet(h.delete)
      BY <2>2, <1>2 DEF LiveInv, Dying
    <3>2. h.delete = <<"delete", "gone">>
      BY <3>1, <1>1, Deletes
    <3>3. kind # "NatGateway"
      <4> SUFFICES ASSUME kind = "NatGateway" PROVE FALSE
        OBVIOUS
      <4>1. it' \in Marked
        BY <1>2, <1>1 DEF Fits, Particular, Conflicting, Claims
      <4> QED BY <4>1, <2>2 DEF Marked, Live
    <3>4. h.adopt = <<>> /\ h.after = <<"active", "late">>
      BY <3>2, <3>3, <1>1 DEF Fits, Particular
    <3>5. calls' = <<"active", "late">> \o <<"return">>
      BY <3>4, <1>a, <1>2
    <3> QED BY <3>5
  <2> QED BY <2>1, <2>2
<1>7. \A f \in h.fields \ astray' : cloud[it'].set[f] = want[f] \/ Pends(f, Left')
  <2> SUFFICES ASSUME NEW f \in h.fields, f \notin astray'
               PROVE  cloud[it'].set[f] = want[f] \/ Pends(f, Left')
    OBVIOUS
  <2>1. f \in SetBy(u) \/ f \in Same
    BY <1>3
  <2>2. CASE f \in SetBy(u)
    <3>1. Pends(f, ToSet(u))
      BY <2>2, SetByIs
    <3> QED BY <3>1, <1>4, PendsMore
  <2>3. CASE f \in Same
    <3>1. f = "name" /\ h.by # "tag"
      BY <2>3 DEF Same
    <3>2. h.by # "reference"
      BY <3>1, <1>1 DEF Fits, Shaped
    <3>3. cloud[it'].set["name"] = want["name"]
      <4>1. CASE h.by = "token"
        BY <4>1, <1>2 DEF Conflicting, Claims
      <4>2. CASE h.by \in ByName
        BY <4>2, <1>2 DEF Conflicting, Claims, SameName, ByName
      <4>3. CASE h.by = "reference and name"
        BY <4>3, <1>2 DEF Adoptable, SameName
      <4>4. CASE h.by = "lookup"
        BY <4>4, <1>2 DEF Conflicting, Claims
      <4> QED BY <4>1, <4>2, <4>3, <4>4, <3>1, <3>2, <1>1 DEF Fits, Shaped, ByMark
    <3> QED BY <3>1, <3>3
  <2> QED BY <2>1, <2>2, <2>3
<1>8. ~(Head(calls') = "stamp" /\ "tags" \in h.fields \ astray')
  <2> SUFFICES ASSUME Head(calls') = "stamp", "tags" \in h.fields, "tags" \notin astray' PROVE FALSE
    OBVIOUS
  <2>1. Head(calls') \in Left'
    <3>1. PICK s \in Seq(CallNames) : s = calls' /\ s # <<>>
      BY <1>4
    <3>2. Head(s) \in ToSet(s)
      BY <3>1 DEF ToSet
    <3> QED BY <3>1, <3>2 DEF Left
  <2>2. "stamp" \in ToSet(h.after) /\ h.by = "tag" /\ h.adopt = <<>>
    BY <2>1, <1>4, <1>2, <1>1 DEF Fits, Sequenced
  <2>3. "tags" \notin SetBy(u)
    BY <2>2, <1>a, <1>1 DEF Fits, Complete
  <2>4. Same = {}
    BY <2>2 DEF Same
  <2> QED BY <2>3, <2>4, <1>3
<1> QED BY <1>2, <1>6, <1>7, <1>8 DEF Progress

LEMMA ProgressStroke ==
    ASSUME LiveInv, StrokeStep, Standing'
    PROVE  Progress'
<1>1. Types /\ Stage /\ Ordered /\ Identified /\ Ids /\ Base /\ Fits(kind, h)
  BY FitsBase DEF LiveInv
<1>2. /\ h' = h /\ kind' = kind /\ want' = want /\ todo' = todo /\ it' = it /\ astray' = astray /\ calls # <<>>
      /\ (\A op : Within(op)' => Within(op)) /\ calls' \in {calls, Tail(calls)} /\ calls' # <<>>
  BY <1>1, BaseStroke
<1> SUFFICES ASSUME Working' PROVE Progress'
  BY ProgressIdle
<1>3. Working /\ Standing
  <2>1. ~Doing("persist")
    BY <1>1, <1>2 DEF Ordered, Operations, Doing
  <2>2. ~Doing("persist")'
    BY <2>1, <1>2 DEF Doing
  <2> QED BY <2>2, <1>2 DEF Working, Creating, Standing
<1>4. Sound
  <2>1. CASE Head(calls) = "active"
    <3>1. Here /\ cloud[it].up = "active"
      BY <2>1 DEF StrokeStep, Stamp, PutBody, PutLate, SetTags, Describe, Untag, Tag, Authorize,
                  Revoke, Relabel, Unroute, Route, Attach, Detach, Disassociate, Disable, Await, Calling, Reached, Waits
    <3> QED BY <3>1 DEF Sound
  <2>2. CASE Head(calls) # "active"
    BY <2>2, <1>3 DEF LiveInv, Progress
  <2> QED BY <2>1, <2>2
<1>5. it \in DOMAIN cloud /\ cloud[it] \in Things /\ cloud[it].up # "dying" /\ cloud[it].up # "gone" /\ Here
  BY <1>4, <1>1, ItHere DEF Sound
<1>6. Sound'
  <2>1. cloud'[it].up # "dying" /\ cloud'[it].up # "gone"
    BY <1>5, <1>1, OneStroke DEF Alike
  <2>2. DOMAIN cloud' = DOMAIN cloud
    BY <1>1, BaseStroke DEF Shrink
  <2> QED BY <2>1, <2>2, <1>2, <1>5 DEF Sound, Here, Objects, Exists
<1> DEFINE hd == Head(calls)
           c == cloud[it].set
           d == cloud'[it].set
<1>7. /\ \A f \in Settings \ Aims(hd) : d[f] = c[f]
      /\ hd \in {"stamp", "tag"} => d.tags = c.tags \cup want.tags
      /\ hd = "settags" => d.tags = want.tags
      /\ hd = "body" => d.body = want.body
      /\ hd = "late" => d.late = want.late
      /\ hd = "attach" => d.imm = want.imm
      /\ hd = "relabel" => d.entries = want.entries
      /\ hd = "route" => (calls' # calls => d.entries = want.entries)
      /\ hd \notin {"unroute", "route"} => calls' = Tail(calls)
  BY <1>1, <1>5, Effects
<1>8. /\ Left = {hd} \cup ToSet(Tail(calls))
      /\ hd = "untag" => Head(Tail(calls)) = "tag" /\ "tag" \in ToSet(Tail(calls))
      /\ hd = "authorize" => Head(Tail(calls)) = "revoke" /\ "revoke" \in ToSet(Tail(calls))
      /\ hd = "revoke" => Head(Tail(calls)) = "relabel" /\ "relabel" \in ToSet(Tail(calls))
      /\ hd = "unroute" => Head(Tail(calls)) = "route" /\ "route" \in ToSet(Tail(calls))
      /\ Tail(calls) # <<>> => Head(Tail(calls)) # "stamp"
  <2>1. calls \in Seq(CallNames) /\ Orderly(calls) /\ calls[Len(calls)] \in {"make", "return"}
    BY <1>1, <1>2 DEF Types, Ordered
  <2>2. PICK s \in Seq(CallNames) : s = calls
    BY <2>1
  <2>3. /\ ToSet(s) = {Head(s)} \cup ToSet(Tail(s))
        /\ Head(s) \in {"make", "return"} <=> Tail(s) = <<>>
        /\ Tail(s) # <<>> => Head(Tail(s)) \in ToSet(Tail(s)) /\ Head(Tail(s)) # "stamp"
                             /\ (Head(Tail(s)) = "tag" <=> Head(s) = "untag")
        /\ Head(s) = "authorize" => Head(Tail(s)) = "revoke"
        /\ Head(s) = "revoke" => Head(Tail(s)) = "relabel"
        /\ Head(s) = "unroute" => Head(Tail(s)) = "route"
    BY <1>2, <2>1, <2>2, Advance
  <2> QED BY <2>2, <2>3 DEF Left
<1>9. ToSet(Tail(calls)) \subseteq Left'
  BY <1>2, <1>8 DEF Left
<1>10. h.fields \subseteq Settings
  BY <1>1 DEF Fits, Shaped
<1>11. \A f \in h.fields \ astray : c[f] = want[f] \/ Pends(f, Left)
  BY <1>3, <1>4 DEF LiveInv, Progress
<1>12. hd = "stamp" /\ "tags" \in h.fields \ astray => c.tags = {}
  BY <1>2, <1>3, <1>4 DEF LiveInv, Progress
<1>13. hd = "tag" => c.tags \subseteq want.tags
  BY <1>2, <1>5 DEF LiveInv, Listed
<1>14. hd \in {"unroute", "route"} \/ calls' = Tail(calls)
  BY <1>7
<1>15. ASSUME NEW f \in h.fields \ astray PROVE d[f] = want[f] \/ Pends(f, Left')
  <2>1. CASE f \notin Aims(hd)
    <3>1. d[f] = c[f]
      BY <2>1, <1>7, <1>10, <1>15
    <3>2. CASE c[f] = want[f]
      BY <3>1, <3>2
    <3>3. CASE Pends(f, Left)
      <4>1. Left \subseteq {hd} \cup Left'
        BY <1>8, <1>9
      <4> QED BY <3>3, <4>1, <2>1, PendsPast
    <3> QED BY <3>2, <3>3, <1>11, <1>15
  <2>2. CASE f \in Aims(hd)
    <3>1. CASE hd = "stamp"
      <4>1. f = "tags"
        BY <2>2, <3>1 DEF Aims
      <4> QED BY <3>1, <4>1, <1>7, <1>12, <1>15
    <3>2. CASE hd = "untag"
      <4>1. f = "tags" /\ "tag" \in Left'
        BY <2>2, <3>2, <1>8, <1>9 DEF Aims
      <4> QED BY <4>1 DEF Pends
    <3>3. CASE hd = "tag"
      <4>1. f = "tags" /\ d["tags"] = c["tags"] \cup want["tags"]
        BY <2>2, <3>3, <1>7 DEF Aims
      <4> QED BY <4>1, <3>3, <1>13
    <3>4. CASE hd = "settags"
      <4>1. f = "tags"
        BY <2>2, <3>4 DEF Aims
      <4> QED BY <3>4, <4>1, <1>7
    <3>5. CASE hd \in {"authorize", "revoke", "unroute"}
      <4>1. f = "entries" /\ Left' \cap {"revoke", "relabel", "route"} # {}
        BY <2>2, <3>5, <1>8, <1>9 DEF Aims
      <4> QED BY <4>1 DEF Pends
    <3>6. CASE hd = "relabel"
      <4>1. f = "entries"
        BY <2>2, <3>6 DEF Aims
      <4> QED BY <3>6, <4>1, <1>7
    <3>7. CASE hd = "route"
      <4>1. f = "entries"
        BY <2>2, <3>7 DEF Aims
      <4>2. CASE calls' = calls
        <5>1. "route" \in Left'
          BY <4>2, <3>7, <1>8 DEF Left
        <5> QED BY <5>1, <4>1 DEF Pends
      <4>3. CASE calls' # calls
        BY <4>1, <4>3, <3>7, <1>7
      <4> QED BY <4>2, <4>3
    <3>8. CASE hd = "attach"
      <4>1. f = "imm"
        BY <2>2, <3>8 DEF Aims
      <4> QED BY <3>8, <4>1, <1>7
    <3>9. CASE hd = "body"
      <4>1. f = "body"
        BY <2>2, <3>9 DEF Aims
      <4> QED BY <3>9, <4>1, <1>7
    <3>10. CASE hd = "late"
      <4>1. f = "late"
        BY <2>2, <3>10 DEF Aims
      <4> QED BY <3>10, <4>1, <1>7
    <3>11. hd # "disassociate"
      <4>1. ~Within("destroy")
        BY <1>2, <1>3, <1>1 DEF Working, Creating, Within, Doing, Ordered, Operations
      <4> QED BY <4>1, <1>1, <1>2, Whose
    <3> QED BY <2>2, <3>1, <3>2, <3>3, <3>4, <3>5, <3>6, <3>7, <3>8, <3>9, <3>10, <3>11 DEF Aims
  <2> QED BY <2>1, <2>2
<1>16. Head(calls') # "stamp"
  <2>1. CASE hd \in {"unroute", "route"} /\ calls' = calls
    BY <2>1
  <2>2. CASE calls' = Tail(calls)
    BY <2>2, <1>2, <1>8
  <2> QED BY <2>1, <2>2, <1>2, <1>14
<1> QED BY <1>2, <1>6, <1>15, <1>16 DEF Progress

LEMMA ProgressReturn ==
    ASSUME LiveInv, Return, Standing'
    PROVE  Progress'
<1>1. Types /\ Stage /\ Ordered /\ Identified /\ Ids /\ Base /\ Fits(kind, h)
  BY FitsBase DEF LiveInv
<1>2. /\ Base' /\ h' = h /\ kind' = kind /\ want' = want /\ cloud' = cloud /\ it' = it /\ astray' = astray
      /\ calls # <<>> /\ Head(calls) = "return" /\ calls' = <<>>
      /\ todo' = Tail(todo) /\ todo # <<>> /\ Head(todo) \in Operations
  BY <1>1, BaseReturn
<1> SUFFICES ASSUME Working' PROVE Progress'
  BY ProgressIdle
<1>3. Doing("persist")' /\ h.by # "lookup"
  BY <1>2 DEF Working, Creating, Within
<1>4. it # 0
  <2>1. Ids'
    BY <1>2 DEF Base
  <2>2. it' # 0
    BY <2>1, <1>2, <1>3 DEF Ids
  <2> QED BY <2>2, <1>2
<1>5. Head(todo) \in {"create", "update"}
  <2>1. Head(todo) # "destroy"
    BY <1>2, <1>3, <1>1, Stations DEF Shape, Doing
  <2> QED BY <2>1, <1>2 DEF Operations
<1>6. Working /\ Standing
  BY <1>2, <1>3, <1>4, <1>5 DEF Working, Creating, Within, Doing, Standing
<1>7. Sound
  BY <1>2, <1>6 DEF LiveInv, Progress
<1>8. \A f \in h.fields \ astray : cloud[it].set[f] = want[f]
  <2>1. Left = {"return"}
    BY <1>1, <1>2, Onward
  <2> QED BY <2>1, <1>6, <1>7, PendsNot DEF LiveInv, Progress
<1>9. Sound'
  BY <1>2, <1>7, SameCloud DEF Sound, Here
<1> QED BY <1>2, <1>8, <1>9 DEF Progress

LEMMA ProgressBackground ==
    ASSUME LiveInv, Background, Standing'
    PROVE  Progress'
<1>1. Types /\ Stage /\ Ordered /\ Identified /\ Ids /\ Base
  BY FitsBase DEF LiveInv
<1>2. /\ h' = h /\ kind' = kind /\ want' = want /\ todo' = todo /\ calls' = calls /\ it' = it /\ astray' = astray
      /\ DOMAIN cloud' = DOMAIN cloud
  BY <1>1, BaseAround DEF Background, run, Shrink
<1> SUFFICES ASSUME Working' PROVE Progress'
  BY ProgressIdle
<1>3. Working /\ Standing /\ Left' = Left
  BY <1>2 DEF Working, Creating, Within, Doing, Standing, Left
<1>4. PICK j \in Objects : \E x \in Things :
              /\ cloud' = [cloud EXCEPT ![j] = x] /\ j \in DOMAIN cloud
              /\ x.up # "dying" /\ (x.up = "gone" => cloud[j].up = "dying")
              /\ (x.up # "gone" => x.set = cloud[j].set /\ cloud[j].up # "dying")
  BY <1>1, BackgroundOne
<1>5. PICK x \in Things :
              /\ cloud' = [cloud EXCEPT ![j] = x] /\ j \in DOMAIN cloud
              /\ x.up # "dying" /\ (x.up = "gone" => cloud[j].up = "dying")
              /\ (x.up # "gone" => x.set = cloud[j].set /\ cloud[j].up # "dying")
  BY <1>4
<1>6. Sound' => Sound /\ cloud'[it].set = cloud[it].set
  <2> SUFFICES ASSUME Sound' PROVE Sound /\ cloud'[it].set = cloud[it].set
    OBVIOUS
  <2>1. it \in DOMAIN cloud /\ cloud'[it].up # "gone" /\ cloud'[it].up # "dying"
    BY <1>2 DEF Sound, Here, Objects, Exists
  <2>2. CASE it = j
    <3>1. cloud'[it] = x
      BY <2>2, <1>5
    <3> QED BY <3>1, <2>1, <2>2, <1>4, <1>5 DEF Sound, Here
  <2>3. CASE it # j
    <3>1. cloud'[it] = cloud[it]
      BY <2>1, <2>3, <1>5
    <3> QED BY <3>1, <2>1 DEF Sound, Here, Objects, Exists
  <2> QED BY <2>2, <2>3
<1>7. Sound => Sound'
  <2> SUFFICES ASSUME Sound PROVE Sound'
    OBVIOUS
  <2>1. it \in DOMAIN cloud /\ cloud[it].up # "gone" /\ cloud[it].up # "dying"
    BY DEF Sound, Here, Objects, Exists
  <2>2. cloud'[it].up # "gone" /\ cloud'[it].up # "dying"
    <3>1. CASE it = j
      BY <3>1, <2>1, <1>5
    <3>2. CASE it # j
      BY <3>2, <2>1, <1>5
    <3> QED BY <3>1, <3>2
  <2> QED BY <2>1, <2>2, <1>2 DEF Sound, Here, Objects, Exists
<1>8. /\ Sound \/ (calls # <<>> /\ Head(calls) = "active")
      /\ Sound => \A f \in h.fields \ astray : cloud[it].set[f] = want[f] \/ Pends(f, Left)
      /\ Sound /\ calls # <<>> /\ Head(calls) = "stamp" /\ "tags" \in h.fields \ astray => cloud[it].set.tags = {}
  BY <1>3 DEF LiveInv, Progress
<1>9. Sound' \/ (calls' # <<>> /\ Head(calls') = "active")
  BY <1>2, <1>7, <1>8
<1>10. Sound' => \A f \in h.fields \ astray : cloud'[it].set[f] = want[f] \/ Pends(f, Left)
  BY <1>6, <1>8
<1>11. Sound' /\ calls # <<>> /\ Head(calls) = "stamp" /\ "tags" \in h.fields \ astray => cloud'[it].set.tags = {}
  BY <1>6, <1>8
<1> QED BY <1>2, <1>3, <1>9, <1>10, <1>11 DEF Progress

LEMMA ProgressNext ==
    ASSUME LiveInv, Next
    PROVE  Progress'
<1>1. Types /\ Stage /\ Ordered /\ Identified /\ Ids /\ Base
  BY FitsBase DEF LiveInv
<1> SUFFICES ASSUME Standing' PROVE Progress'
  BY DEF Progress
<1>2. CASE RowStep
  <2>1. calls' = <<>>
    BY <1>1, <1>2, BaseRow
  <2>2. ~Doing("persist")'
    <3>1. CASE Plan
      BY <3>1, PlanShape DEF Shape, Doing
    <3>2. CASE ~Plan
      <4>1. todo # <<>> /\ todo' = Tail(todo) /\ Head(todo) \in {"companion", "ahead", "persist", "forget", "uncompanion"}
        BY <3>2, <1>2 DEF RowStep, CopyToCompanion, WriteAhead, Persist, Forget, DropCompanion, Written
      <4> QED BY <4>1, <1>1, Stations DEF Shape, Doing
    <3> QED BY <3>1, <3>2
  <2> QED BY <2>1, <2>2, ProgressIdle DEF Working, Creating, Within
<1>3. CASE Abandoned
  <2>1. todo' = <<>>
    BY <1>1, <1>3, BaseAbandoned
  <2> QED BY <2>1, ProgressIdle DEF Working, Creating, Within, Doing
<1>4. CASE Retry
  <2>1. calls' = <<>> /\ calls # <<>> /\ todo' = todo
    BY <1>4 DEF Retry
  <2>2. ~Doing("persist")'
    BY <2>1, <1>1 DEF Ordered, Operations, Doing
  <2> QED BY <2>1, <2>2, ProgressIdle DEF Working, Creating, Within
<1>5. CASE EditConfig \/ EditByHand \/ Refresh \/ Lapse
  <2>1. todo = <<>> /\ todo' = todo
    BY <1>5, <1>1, BaseAround, BaseLapse DEF run, EditConfig, EditByHand, Refresh, Between
  <2> QED BY <2>1, ProgressIdle DEF Working, Creating, Within, Doing
<1>6. CASE Delete
  <2>1. Within("destroy") /\ todo' = todo
    BY <1>1, <1>6, BaseDelete
  <2> QED BY <2>1, ProgressIdle DEF Working, Creating, Within, Doing
<1>7. CASE Make
  BY <1>7, MakeEither, ProgressNew, ProgressOld
<1>8. CASE Begin \/ StrokeStep \/ Return \/ Background
  BY <1>8, ProgressBegin, ProgressStroke, ProgressReturn, ProgressBackground
<1> QED BY Moves, <1>2, <1>3, <1>4, <1>5, <1>6, <1>7, <1>8

LEMMA LiveStill ==
    ASSUME RowIsLive, row' = row, h' = h, saved, Standing, Held(row)' \cap Objects' = Held(row) \cap Objects,
           \A i \in Held(row) \cap Objects :
              /\ cloud[i].up # "dying" => cloud'[i].up # "dying"
              /\ \A f \in h.fields \ astray' : f \notin astray /\ cloud'[i].set[f] = cloud[i].set[f]
    PROVE  RowIsLive'
<1> SUFFICES ASSUME row.st = "created"
             PROVE  /\ Held(row)' \cap Objects' # {} \/ h.by = "lookup"
                    /\ \A i \in Held(row)' \cap Objects' :
                          /\ cloud'[i].up # "dying"
                          /\ \A f \in h.fields \ astray' : cloud'[i].set[f] = row.in[f]
  BY DEF RowIsLive
<1>1. /\ Held(row) \cap Objects # {} \/ h.by = "lookup"
      /\ \A i \in Held(row) \cap Objects :
            /\ cloud[i].up # "dying"
            /\ \A f \in h.fields \ astray : cloud[i].set[f] = row.in[f]
  BY DEF RowIsLive, Standing
<1> QED BY <1>1

LEMMA LivePersist ==
    ASSUME LiveInv, Persist, Standing
    PROVE  RowIsLive'
<1>1. Base
  BY DEF LiveInv
<1>2. /\ cloud' = cloud /\ kind' = kind /\ want' = want /\ h' = h /\ calls = <<>>
  BY <1>1, BaseRow DEF RowStep
<1>3. row'.st = "created" /\ row'.in = want /\ astray' = astray /\ Objects' = Objects
  BY <1>1, Persisted DEF Persist
<1>4. CASE h.by = "lookup"
  <2>1. Held(row)' \cap Objects' = {}
    BY <1>1, <1>3, <1>4, Persisted
  <2> QED BY <2>1, <1>2, <1>4 DEF RowIsLive
<1>5. CASE h.by # "lookup"
  <2>1. Doing("persist") /\ Working
    BY <1>5 DEF Persist, Written, Doing, Working
  <2>2. Sound
    BY <2>1, <1>2 DEF LiveInv, Progress
  <2>3. Left = {}
    BY <1>2 DEF Left, ToSet
  <2>4. \A f \in h.fields \ astray : cloud[it].set[f] = want[f]
    BY <2>1, <2>2, <2>3, PendsNot DEF LiveInv, Progress
  <2>5. it \in Held(row)' \cap Objects'
    BY <2>2, <1>1, <1>3, <1>5, Persisted DEF Sound, Here
  <2>6. Held(row)' \cap Objects' \subseteq {it}
    BY <2>2, <1>1, <1>3, <1>5, Persisted DEF Sound
  <2>7. \A i \in Held(row)' \cap Objects' :
           cloud'[i].up # "dying" /\ \A f \in h.fields \ astray' : cloud'[i].set[f] = row'.in[f]
    BY <2>2, <2>4, <2>6, <1>2, <1>3 DEF Sound
  <2> QED BY <2>5, <2>7, <1>2 DEF RowIsLive
<1> QED BY <1>4, <1>5

LEMMA LiveNext ==
    ASSUME LiveInv, Next
    PROVE  RowIsLive'
<1>1. Types /\ Stage /\ Ordered /\ Identified /\ Ids /\ Base /\ Fits(kind, h) /\ RowIsLive
  BY FitsBase DEF LiveInv
<1> SUFFICES ASSUME row'.st = "created", saved', Standing' PROVE RowIsLive'
  BY DEF RowIsLive, Standing
<1>2. ~Make => Standing
  BY <1>1, StandingBack DEF Standing
<1>a. Objects \subseteq DOMAIN cloud
  BY DEF Objects
<1>3. CASE cloud' = cloud /\ kind' = kind /\ row' = row /\ saved /\ Standing /\ astray \subseteq astray'
  <2>1. PICK r : r = row
    OBVIOUS
  <2>2. Held(row)' = Held(row) /\ Objects' = Objects /\ h' = h
    BY <1>3, <2>1, SameRows, SameCloud
  <2> QED BY <2>2, <1>1, <1>3, LiveStill
<1>4. CASE RowStep
  <2>a. cloud' = cloud /\ kind' = kind /\ calls = <<>>
    BY <1>1, <1>4, BaseRow
  <2>b. ~Make
    BY <2>a DEF Make, Calling
  <2>1. cloud' = cloud /\ kind' = kind /\ ~Make
    BY <2>a, <2>b
  <2>2. CASE Persist
    BY <2>1, <2>2, <1>2, LivePersist
  <2>3. CASE WriteAhead \/ Forget
    <3>1. CASE WriteAhead
      <4>1. row' = [st |-> "creating", in |-> want, id |-> 0]
        BY <3>1 DEF WriteAhead, Row
      <4> QED BY <4>1
    <3>2. CASE Forget
      <4>1. row' = NoRow
        BY <3>2 DEF Forget
      <4> QED BY <4>1 DEF NoRow
    <3> QED BY <2>3, <3>1, <3>2
  <2>4. CASE Plan \/ CopyToCompanion \/ DropCompanion
    <3>1. row' = row /\ saved' = saved /\ astray' = astray
      BY <2>4 DEF Plan, CopyToCompanion, DropCompanion, rows
    <3> QED BY <3>1, <2>1, <1>2, <1>3
  <2> QED BY <2>2, <2>3, <2>4, <1>4 DEF RowStep
<1>5. CASE Begin
  <2>1. /\ cloud' = cloud /\ kind' = kind /\ row' = row
    BY <1>1, <1>5, BaseBegin
  <2>2. saved /\ Head(todo) = "destroy"
    BY <1>5 DEF Begin
  <2>3. astray' = astray
    BY <1>5, <2>2 DEF Begin
  <2>4. Standing
    BY <2>3 DEF Standing
  <2> QED BY <2>1, <2>2, <2>3, <2>4, <1>3
<1>6. CASE Retry
  <2>1. /\ cloud' = cloud /\ kind' = kind /\ row' = row /\ saved' = saved /\ astray' = astray
    BY <1>6 DEF Retry, rows
  <2> QED BY <2>1, <1>3 DEF Standing
<1>7. CASE Make
  <2>1. Within("create") /\ saved' = saved
    BY <1>1, <1>7, BaseMake
  <2> QED BY <2>1 DEF LiveInv, Saved, Within, Doing
<1>8. CASE StrokeStep \/ Delete
  <2>1. /\ Shrink /\ row' = row /\ todo' = todo /\ kind' = kind /\ h' = h /\ astray' = astray /\ calls # <<>> /\ saved' = saved
    BY <1>8, <1>1, BaseStroke, BaseDelete
  <2>2. Head(todo) = "destroy" /\ Beside
    BY <2>1 DEF LiveInv, Saved
  <2>3. todo # <<>> /\ Within("destroy") /\ ~Within("create") /\ ~Within("update")
    BY <2>1, <2>2, <1>1 DEF Stage, Within, Doing
  <2>4. \A i \in Held(row) \cap Objects : cloud'[i].up # "gone" /\ cloud'[i].set = cloud[i].set
                                         /\ (cloud[i].up # "dying" => cloud'[i].up # "dying")
    <3> SUFFICES ASSUME NEW i \in Held(row), i \in Objects
                 PROVE  cloud'[i].up # "gone" /\ cloud'[i].set = cloud[i].set
                        /\ (cloud[i].up # "dying" => cloud'[i].up # "dying")
      OBVIOUS
    <3>0. i \in DOMAIN cloud /\ cloud[i].up # "gone"
      BY DEF Objects, Exists
    <3>1. CASE cloud'[i] = cloud[i]
      BY <3>0, <3>1
    <3>3. CASE i = it /\ Here
      <4>1. At("destroy", 2)
        <5>1. ~At("destroy", 3)
          BY <2>1, <1>1 DEF Stage, Row
        <5> QED BY <5>1, <2>2, <2>3, <1>1, Stations DEF Shape, At
      <4>2. old = comp /\ comp.st = "created"
        BY <4>1, <2>2, <2>3, <1>1 DEF Stage, At
      <4>3. it \in Target(old)
        BY <3>3, <4>2, <2>3 DEF LiveInv, Destroying
      <4>4. Held(row) \cap Target(comp) = {}
        BY <4>1, <2>1 DEF LiveInv, Apart, Standing, At
      <4> QED BY <3>3, <4>2, <4>3, <4>4
    <3> QED BY <3>0, <3>1, <3>3, <1>1, <1>8, OneStroke, OneDelete
  <2>5. Held(row)' \cap Objects' = Held(row) \cap Objects
    <3>1. Held(row)' \cap Objects' = Held(row) \cap Objects'
      BY <2>1, <1>1, Shrunk_row
    <3>2. Objects' \subseteq Objects
      BY <2>1, <1>1, Shrunk
    <3>3. DOMAIN cloud' = DOMAIN cloud
      BY <2>1 DEF Shrink
    <3>4. Held(row) \cap Objects \subseteq Objects'
      BY <2>4, <3>3 DEF Objects, Exists
    <3> QED BY <3>1, <3>2, <3>4
  <2> QED BY <2>1, <2>4, <2>5, <1>1, LiveStill DEF Standing
<1>9. CASE Return
  <2>1. /\ cloud' = cloud /\ row' = row /\ astray' = astray /\ kind' = kind /\ saved' = saved
    BY <1>9, <1>1, BaseReturn
  <2> QED BY <2>1, <1>3 DEF Standing
<1>10. CASE Abandoned
  <2>1. /\ cloud' = cloud /\ row' = row /\ kind' = kind /\ saved' = saved /\ astray \subseteq astray'
    BY <1>10 DEF Abandoned, rows
  <2> QED BY <2>1, <1>3 DEF Standing
<1>11. CASE Background
  <2>1. /\ Shrink /\ row' = row /\ kind' = kind /\ h' = h /\ astray' = astray /\ saved' = saved
    BY <1>11, <1>1, BaseAround DEF Background, rows
  <2>2. PICK j \in Objects : \E x \in Things :
              /\ cloud' = [cloud EXCEPT ![j] = x] /\ j \in DOMAIN cloud
              /\ x.up # "dying" /\ (x.up = "gone" => cloud[j].up = "dying")
              /\ (x.up # "gone" => x.set = cloud[j].set)
    BY <1>1, <1>11, BackgroundOne
  <2>3. PICK x \in Things :
              /\ cloud' = [cloud EXCEPT ![j] = x] /\ j \in DOMAIN cloud
              /\ x.up # "dying" /\ (x.up = "gone" => cloud[j].up = "dying")
              /\ (x.up # "gone" => x.set = cloud[j].set)
    BY <2>2
  <2>4. \A i \in Held(row) \cap Objects : cloud[i].up # "dying"
    BY <2>1, <1>1 DEF RowIsLive, Standing
  <2>5. ASSUME NEW i \in Held(row) \cap Objects
        PROVE  cloud'[i].up # "gone" /\ cloud'[i].set = cloud[i].set /\ cloud'[i].up # "dying"
    <3>1. i \in DOMAIN cloud /\ cloud[i].up # "gone" /\ cloud[i].up # "dying"
      BY <2>4, <2>5 DEF Objects, Exists
    <3>2. CASE i = j
      <4>1. cloud'[i] = x
        BY <3>2, <2>3
      <4> QED BY <4>1, <3>1, <3>2, <2>3
    <3>3. CASE i # j
      <4>1. cloud'[i] = cloud[i]
        BY <3>1, <3>3, <2>3
      <4> QED BY <4>1, <3>1
    <3> QED BY <3>2, <3>3
  <2>6. Held(row)' \cap Objects' = Held(row) \cap Objects
    <3>1. Held(row)' \cap Objects' = Held(row) \cap Objects'
      BY <2>1, <1>1, Shrunk_row
    <3>2. Objects' \subseteq Objects
      BY <2>1, <1>1, Shrunk
    <3>3. DOMAIN cloud' = DOMAIN cloud
      BY <2>1 DEF Shrink
    <3>4. Held(row) \cap Objects \subseteq Objects'
      BY <2>5, <3>3 DEF Objects, Exists
    <3> QED BY <3>1, <3>2, <3>4
  <2> QED BY <2>1, <2>5, <2>6, <1>1, LiveStill DEF Standing
<1>12. CASE EditConfig
  <2>1. /\ cloud' = cloud /\ row' = row /\ kind' = kind /\ saved' = saved /\ astray \subseteq astray'
    BY <1>12 DEF EditConfig, Between
  <2> QED BY <2>1, <1>3 DEF Standing
<1>13. CASE EditByHand
  <2>1. /\ Shrink /\ row' = row /\ kind' = kind /\ h' = h /\ saved' = saved /\ row.st = "created"
    BY <1>13, <1>1, BaseAround DEF EditByHand
  <2>2. "gone" \notin astray'
    BY DEF Standing
  <2>3. PICK j \in Target(row) : \E f \in h.fields \ {"name", "imm"}, x \in Things :
                    /\ cloud' = [cloud EXCEPT ![j] = x] /\ x.up = cloud[j].up
                    /\ \A g \in Settings \ {f} : x.set[g] = cloud[j].set[g]
                    /\ astray' = astray \cup {f}
    BY <1>1, <1>13, ByHand, <2>2
  <2>4. PICK f \in h.fields \ {"name", "imm"} : \E x \in Things :
                    /\ cloud' = [cloud EXCEPT ![j] = x] /\ x.up = cloud[j].up
                    /\ \A g \in Settings \ {f} : x.set[g] = cloud[j].set[g]
                    /\ astray' = astray \cup {f}
    BY <2>3
  <2>5. ASSUME NEW i \in Held(row) \cap Objects
        PROVE  /\ \A g \in Settings \ {f} : cloud'[i].set[g] = cloud[i].set[g]
               /\ cloud'[i].up = cloud[i].up /\ i \in DOMAIN cloud /\ cloud[i].up # "gone"
    <3>1. i \in DOMAIN cloud /\ cloud[i].up # "gone"
      BY <2>5 DEF Objects, Exists
    <3> QED BY <3>1, <2>4
  <2>6. Held(row)' \cap Objects' = Held(row) \cap Objects
    <3>1. Held(row)' \cap Objects' = Held(row) \cap Objects'
      BY <2>1, <1>1, Shrunk_row
    <3>2. Objects' \subseteq Objects
      BY <2>1, <1>1, Shrunk
    <3>3. DOMAIN cloud' = DOMAIN cloud
      BY <2>1 DEF Shrink
    <3>4. Held(row) \cap Objects \subseteq Objects'
      BY <2>5, <3>3 DEF Objects, Exists
    <3> QED BY <3>1, <3>2, <3>4
  <2>7. h.fields \subseteq Settings /\ astray' = astray \cup {f}
    BY <2>4, <1>1 DEF Fits, Shaped
  <2>8. Standing
    BY <2>2, <2>7 DEF Standing
  <2> QED BY <2>1, <2>5, <2>6, <2>7, <2>8, <1>1, LiveStill
<1>14. CASE Refresh
  <2>1. row' # NoRow
    BY DEF NoRow
  <2> DEFINE same == /\ cloud' = cloud /\ h' = h /\ saved' = saved /\ Held(row)' = Held(row) /\ Objects' = Objects
        /\ row.st = "created" /\ astray' = astray \ h.reads /\ {"name", "imm", "gone"} \cap h.reads = {}
        /\ (\A f \in Settings \ h.reads : row'.in[f] = row.in[f])
        /\ \E i \in Held(row) : Exists(i) /\ \A f \in h.reads : row'.in[f] = cloud[i].set[f]
  <2>2. same
    BY <2>1, <1>14, <1>1, Refreshed
  <2>3. Standing
    BY <2>2 DEF Standing
  <2>4. /\ Held(row) \cap Objects # {} \/ h.by = "lookup"
        /\ \A i \in Held(row) \cap Objects :
              cloud[i].up # "dying" /\ \A f \in h.fields \ astray : cloud[i].set[f] = row.in[f]
    BY <2>2, <2>3, <1>1 DEF RowIsLive, Standing
  <2>5. PICK j \in Held(row) : Exists(j) /\ \A f \in h.reads : row'.in[f] = cloud[j].set[f]
    BY <2>2
  <2>6. \A i \in Held(row) \cap Objects : i = j
    <3>1. ~(h.by = "tag" /\ row.id = 0)
      BY <2>2, <1>1 DEF Ids
    <3>2. Held(row) \cap Objects \subseteq Target(row) /\ j \in Target(row)
      BY <2>2, <2>5, <3>1 DEF Target, Objects
    <3> QED BY <3>2, <1>1, TargetOne
  <2>7. ASSUME NEW i \in Held(row) \cap Objects, NEW f \in h.fields \ astray'
        PROVE  cloud[i].set[f] = row'.in[f]
    <3>1. CASE f \in h.reads
      BY <3>1, <2>5, <2>6, <2>7
    <3>2. CASE f \notin h.reads
      <4>1. f \in Settings \ h.reads /\ f \notin astray
        BY <3>2, <2>2, <2>7, <1>1 DEF Fits, Shaped
      <4> QED BY <4>1, <2>2, <2>4, <2>7
    <3> QED BY <3>1, <3>2
  <2> QED BY <2>2, <2>4, <2>7 DEF RowIsLive
<1>15. CASE Lapse
  <2>1. row' = row /\ saved' = saved /\ astray' = astray
    BY <1>1, <1>15, BaseLapse
  <2>2. /\ h' = h /\ Objects' = Objects /\ \A r : Held(r)' = Held(r)
        /\ \A i \in DOMAIN cloud : cloud'[i].set = cloud[i].set /\ cloud'[i].up = cloud[i].up
    BY <1>1, <1>15, LapseKept
  <2>3. PICK r : r = row
    OBVIOUS
  <2>4. Held(row)' = Held(row)
    <3>1. Held(row)' = Held(r)'
      BY <2>1, <2>3 DEF Held
    <3> QED BY <3>1, <2>2, <2>3
  <2> QED BY <2>1, <2>2, <2>4, <1>1, <1>a, LiveStill DEF Standing
<1> QED BY Moves, <1>4, <1>5, <1>6, <1>7, <1>8, <1>9, <1>10, <1>11, <1>12, <1>13, <1>14, <1>15

\* The row persisted after a create or an update is true: its object exists, is not
\* being deleted, and has every input the row records.  So each handler's calls, in the
\* order of its source, set all that its create call does not stamp, also when they are
\* retried from the start or begin with an object an earlier run left half configured;
\* and no destroy half takes the new object for the old one.
THEOREM RowsTellTruth == Spec => []RowIsLive
<1>1. Init => LiveInv
  <2> SUFFICES ASSUME Init PROVE LiveInv
    OBVIOUS
  <2>1. todo = <<>> /\ calls = <<>> /\ row = NoRow
    BY DEF Init
  <2>2. Base /\ Dying /\ Listed
    BY SyncInductive DEF SyncInv
  <2>3. row.st = "none"
    BY <2>1 DEF NoRow
  <2>4. Destroying /\ Saved
    BY <2>1 DEF Destroying, Saved, Within
  <2>5. Apart /\ Kept /\ Progress /\ RowIsLive
    BY <2>1, <2>3 DEF Apart, Kept, Progress, RowIsLive, Creating, Wrote, Working, Within, Doing
  <2> QED BY <2>2, <2>4, <2>5 DEF LiveInv
<1>2. LiveInv /\ [Next]_vars => LiveInv'
  <2> SUFFICES ASSUME LiveInv, [Next]_vars PROVE LiveInv'
    OBVIOUS
  <2>1. /\ Base /\ Destroying /\ Dying /\ Listed /\ Saved
        /\ Apart /\ Kept /\ Progress /\ RowIsLive
    BY DEF LiveInv
  <2>2. Base' /\ Dying' /\ Listed'
    BY <2>1, SyncInductive DEF SyncInv
  <2>3. CASE Next
    <3>1. Destroying' /\ Saved'
      BY <2>1, <2>3, DestroyingNext, SavedNext
    <3>2. Apart' /\ Kept' /\ Progress' /\ RowIsLive'
      BY <2>3, ApartNext, KeptNext, ProgressNext, LiveNext
    <3> QED BY <2>2, <3>1, <3>2 DEF LiveInv
  <2>4. CASE UNCHANGED vars
    <3>1. /\ cloud' = cloud /\ kind' = kind /\ want' = want /\ row' = row /\ comp' = comp /\ old' = old
          /\ todo' = todo /\ calls' = calls /\ it' = it /\ astray' = astray /\ saved' = saved /\ lost' = lost
      BY <2>4 DEF vars
    <3>2. /\ h' = h /\ Objects' = Objects /\ Ours' = Ours /\ Held(row)' = Held(row) /\ Target(row)' = Target(row)
          /\ Target(comp)' = Target(comp) /\ Target(old)' = Target(old)
      <4>1. PICK r, c, o : r = row /\ c = comp /\ o = old
        OBVIOUS
      <4> QED BY <3>1, <4>1, SameCloud, SameRows
    <3>3. /\ Left' = Left /\ (\A op : Doing(op)' <=> Doing(op)) /\ (\A op : Within(op)' <=> Within(op))
          /\ (\A op, n : At(op, n)' <=> At(op, n)) /\ (Beside' <=> Beside) /\ (Removing' <=> Removing)
          /\ (Standing' <=> Standing) /\ (Here' <=> Here)
      BY <3>1, <3>2 DEF Left, Doing, Within, At, Beside, Removing, Standing, Here
    <3>4. (Creating' <=> Creating) /\ (Wrote' <=> Wrote) /\ (Working' <=> Working) /\ (Sound' <=> Sound)
      BY <3>1, <3>2, <3>3 DEF Creating, Wrote, Working, Sound
    <3>5. \A i : Live(i)' <=> Live(i)
      BY <3>1 DEF Live, Exists
    <3>6. Destroying'
      BY <2>1, <3>1, <3>2, <3>3, <3>5 DEF Destroying
    <3>7. Saved'
      BY <2>1, <3>1, <3>3 DEF Saved
    <3>8. Apart'
      BY <2>1, <3>1, <3>2, <3>3, <3>4 DEF Apart
    <3>9. Kept'
      BY <2>1, <3>1, <3>2, <3>3 DEF Kept
    <3>10. Progress'
      BY <2>1, <3>1, <3>2, <3>3, <3>4 DEF Progress
    <3>11. RowIsLive'
      BY <2>1, <3>1, <3>2 DEF RowIsLive
    <3> QED BY <2>2, <3>6, <3>7, <3>8, <3>9, <3>10, <3>11 DEF LiveInv
  <2> QED BY <2>3, <2>4
<1>3. LiveInv => RowIsLive
  BY DEF LiveInv
<1> QED BY <1>1, <1>2, <1>3, PTL DEF Spec

----------------------------------------------------------------------------
(* The type invariant.                                                     *)

\* What Base leaves open of the types.
Loose ==
    /\ want \in Configs \cup {Undeclared}
    /\ it \in 0 .. Len(cloud)
    /\ astray \subseteq Settings \cup {"gone", "replaced"} /\ lost \subseteq DOMAIN cloud
    /\ faults \in 0 .. MaxFaults /\ edits \in 0 .. MaxEdits

LEMMA LooseNext ==
    ASSUME Base, Loose, Next
    PROVE  Loose'
<1>1. Types /\ Stage /\ Ordered /\ Identified /\ Ids /\ Fits(kind, h)
  BY FitsBase
<1>a. DOMAIN cloud = 1 .. Len(cloud) /\ Len(cloud) \in Nat /\ MaxFaults \in Nat /\ MaxEdits \in Nat
  BY <1>1, BoundsAssumption DEF Types
<1>2. want' \in Configs \cup {Undeclared}
  <2>1. CASE EditConfig
    BY <2>1 DEF EditConfig
  <2>2. CASE EditByHand \/ Background \/ Refresh
    BY <2>2 DEF EditByHand, Background, Refresh, Loose
  <2>3. CASE ~EditConfig /\ ~(EditByHand \/ Background \/ Refresh)
    <3>1. want' = want
      BY <2>3, Moves, BaseRow, BaseAbandoned, BaseBegin, BaseMake, BaseStroke, BaseDelete, BaseReturn, BaseLapse
    <3> QED BY <3>1 DEF Loose
  <2> QED BY <2>1, <2>2, <2>3
<1>3. Len(cloud) \in Nat /\ Len(cloud') \in Nat /\ Len(cloud) <= Len(cloud') /\ DOMAIN cloud \subseteq DOMAIN cloud'
      /\ DOMAIN cloud' = 1 .. Len(cloud')
  <2>1. DOMAIN cloud \subseteq DOMAIN cloud'
    BY SameOrMade
  <2>2. Types'
    BY BaseNext DEF Base
  <2>3. DOMAIN cloud' = 1 .. Len(cloud') /\ Len(cloud') \in Nat
    BY <2>2 DEF Types
  <2>4. Len(cloud) <= Len(cloud')
    <3>1. CASE Len(cloud) = 0
      BY <3>1, <2>3
    <3>2. CASE Len(cloud) # 0
      <4>1. Len(cloud) \in 1 .. Len(cloud')
        BY <3>2, <1>a, <2>1, <2>3
      <4> QED BY <4>1
    <3> QED BY <3>1, <3>2
  <2> QED BY <1>a, <2>1, <2>3, <2>4
<1>4. it' \in 0 .. Len(cloud')
  <2>1. CASE it' = it \/ it' = 0
    BY <2>1, <1>3 DEF Loose
  <2>2. CASE it' \in DOMAIN cloud'
    BY <2>2, <1>3
  <2>3. CASE Begin
    <3>1. it' \in Target(row) \cup Target(old) \/ it' = 0
      BY <2>3 DEF Begin
    <3>2. Target(row) \cup Target(old) \subseteq DOMAIN cloud
      BY <1>1, Targets DEF Objects, Marked
    <3> QED BY <3>1, <3>2, <2>1, <2>2, <1>3
  <2>4. CASE Make
    <3>1. it' \in DOMAIN cloud'
      BY <2>4, <1>1, MakeEither, Grown, Adopted
    <3> QED BY <3>1, <2>2
  <2>5. CASE RowStep
    <3>1. it' = it \/ it' = 0
      BY <2>5 DEF RowStep, Plan, CopyToCompanion, WriteAhead, Persist, Forget, DropCompanion, Written
    <3> QED BY <3>1, <2>1
  <2>6. CASE \/ Retry \/ StrokeStep \/ Delete \/ Return \/ Abandoned \/ Background \/ EditConfig \/ EditByHand
             \/ Refresh \/ Lapse
    <3>1. it' = it \/ it' = 0
      BY <2>6, BaseStroke, BaseDelete, BaseReturn, BaseAbandoned, BaseAround, BaseLapse DEF Retry, run
    <3> QED BY <3>1, <2>1
  <2> QED BY Moves, <2>3, <2>4, <2>5, <2>6
<1>5. astray' \subseteq Settings \cup {"gone", "replaced"}
  <2>1. h.fields \subseteq Settings
    BY <1>1 DEF Fits, Shaped
  <2>2. CASE Make
    <3>1. Doomed \subseteq {"gone"}
      BY DEF Doomed
    <3>2. astray' = Doomed \/ astray' \subseteq h.fields \cup {"replaced"} \cup Doomed
      BY <2>2 DEF Make
    <3> QED BY <2>1, <3>1, <3>2
  <2>3. CASE Abandoned
    <3>1. CutShort \subseteq {"gone", "replaced"}
      BY DEF CutShort
    <3> QED BY <2>3, <3>1 DEF Abandoned, Loose
  <2>4. CASE EditConfig \/ EditByHand
    BY <2>4, <2>1 DEF EditConfig, EditByHand, Loose
  <2>5. CASE Begin \/ Retry \/ Background \/ Refresh
    BY <2>5 DEF Begin, Retry, Background, Refresh, Loose
  <2>6. CASE RowStep
    BY <2>6 DEF RowStep, Plan, CopyToCompanion, WriteAhead, Persist, Forget, DropCompanion, Loose
  <2>7. CASE StrokeStep \/ Delete \/ Return
    <3>1. astray' = astray
      BY <2>7, BaseStroke, BaseDelete, BaseReturn
    <3> QED BY <3>1 DEF Loose
  <2>8. CASE Lapse
    BY <2>8, BaseLapse DEF Loose
  <2> QED BY Moves, <2>2, <2>3, <2>4, <2>5, <2>6, <2>7, <2>8
<1>6. lost' \subseteq DOMAIN cloud'
  <2>1. Objects \subseteq DOMAIN cloud /\ Ours \subseteq Objects
    BY DEF Ours, Objects
  <2>2. lost' \subseteq lost \cup Objects
    <3>1. CASE RowStep
      BY <3>1, <2>1 DEF RowStep, Plan, CopyToCompanion, WriteAhead, Persist, Forget, DropCompanion, Strays
    <3>2. CASE Abandoned
      BY <3>2, <2>1 DEF Abandoned, Strays
    <3>3. CASE Make \/ StrokeStep \/ Delete \/ Return
      BY <3>3, BaseMake, BaseStroke, BaseDelete, BaseReturn
    <3>4. CASE Background \/ EditConfig \/ EditByHand \/ Refresh
      BY <3>4, BaseAround
    <3>5. CASE Begin \/ Retry
      <4>1. Unconfirmed \subseteq Objects
        BY DEF Unconfirmed
      <4> QED BY <3>5, <4>1 DEF Begin, Retry
    <3>6. CASE Lapse
      BY <3>6 DEF Lapse, Marked
    <3> QED BY Moves, <3>1, <3>2, <3>3, <3>4, <3>5, <3>6
  <2> QED BY <2>1, <2>2, <1>3 DEF Loose
<1>7. faults' \in 0 .. MaxFaults
  <2>1. faults' = faults \/ (faults < MaxFaults /\ faults' = faults + 1)
    <3>1. CASE RowStep \/ Begin \/ Step
      <4>1. faults' = faults
        BY <3>1 DEF RowStep, Plan, CopyToCompanion, WriteAhead, Persist, Forget, DropCompanion, Written, Begin, bounds, Step,
             Make, Stamp, PutBody, PutLate, SetTags, Describe, Untag, Tag, Authorize, Revoke, Relabel, Unroute, Route,
             Attach, Detach, Disassociate, Disable, Await, Delete, Return, Calling
      <4> QED BY <4>1
    <3>2. CASE GiveUp \/ Retry \/ Stop \/ Background \/ Lapse \/ EditConfig \/ EditByHand \/ Refresh
      BY <3>2 DEF GiveUp, Retry, Stop, Background, Lapse, EditConfig, EditByHand, Refresh, Between, bounds
    <3> QED BY <3>1, <3>2 DEF Next, Work, RowStep
  <2> QED BY <2>1, <1>a DEF Loose
<1>8. edits' \in 0 .. MaxEdits
  <2>1. edits' = edits \/ (edits < MaxEdits /\ edits' = edits + 1)
    <3>1. CASE RowStep \/ Begin \/ Step
      <4>1. edits' = edits
        BY <3>1 DEF RowStep, Plan, CopyToCompanion, WriteAhead, Persist, Forget, DropCompanion, Written, Begin, bounds, Step,
             Make, Stamp, PutBody, PutLate, SetTags, Describe, Untag, Tag, Authorize, Revoke, Relabel, Unroute, Route,
             Attach, Detach, Disassociate, Disable, Await, Delete, Return, Calling
      <4> QED BY <4>1
    <3>2. CASE GiveUp \/ Retry \/ Stop \/ Background \/ Lapse \/ EditConfig \/ EditByHand \/ Refresh
      BY <3>2 DEF GiveUp, Retry, Stop, Abandoned, Background, Lapse, EditConfig, EditByHand, Refresh, Between, bounds
    <3> QED BY <3>1, <3>2 DEF Next, Work, RowStep
  <2> QED BY <2>1, <1>a DEF Loose
<1> QED BY <1>2, <1>4, <1>5, <1>6, <1>7, <1>8 DEF Loose

LEMMA TypesFollow ==
    ASSUME Base, Loose
    PROVE  TypeOK
<1>1. Types /\ Ids
  BY FitsBase
<1>2. \A f \in Facets : DOMAIN f = Settings
  BY DEF Facets, Settings
<1>3. ASSUME NEW r \in {row, comp, old}
      PROVE  r.st \in {"none", "creating", "created"} /\ DOMAIN r.in = Settings /\ r.id \in 0 .. Len(cloud)
  <2>1. r \in Rows /\ Leading(r.id)
    BY <1>1, <1>3 DEF Types, Ids
  <2>2. r.st \in {"none", "creating", "created"} /\ r.in \in Facets /\ r.id \in Nat
    BY <2>1 DEF Rows
  <2>3. r.id \in 0 .. Len(cloud)
    <3>1. r.id # 0 => r.id \in 1 .. Len(cloud)
      BY <2>1, <1>1 DEF Leading, Types
    <3>2. Len(cloud) \in Nat
      BY <1>1 DEF Types
    <3> QED BY <2>2, <3>1, <3>2
  <2> QED BY <2>2, <2>3, <1>2
<1>4. \A i \in DOMAIN cloud : DOMAIN cloud[i].set = Settings
  <2>1. \A i \in DOMAIN cloud : cloud[i].set \in Facets
    BY <1>1 DEF Types, Things
  <2> QED BY <2>1, <1>2
<1>5. kind \in Kinds
  BY <1>1 DEF Types
<1> QED BY <1>3, <1>4, <1>5 DEF TypeOK, Loose

\* Rows, objects and the handler's position keep their types; ids never pass the number
\* of objects made.
THEOREM TypeCorrect == Spec => []TypeOK
<1>1. Init => Base /\ Loose
  <2> SUFFICES ASSUME Init PROVE Base /\ Loose
    OBVIOUS
  <2>1. Base
    BY BaseInit
  <2>2. Len(cloud) \in Nat
    BY <2>1, FitsBase DEF Types
  <2>3. want = First /\ it = 0 /\ astray = {} /\ lost = {} /\ faults = 0 /\ edits = 0
    BY DEF Init
  <2> QED BY <2>1, <2>2, <2>3, ConfigsAssumption, BoundsAssumption DEF Loose
<1>2. (Base /\ Loose) /\ [Next]_vars => (Base /\ Loose)'
  <2> SUFFICES ASSUME Base, Loose, [Next]_vars PROVE Base' /\ Loose'
    OBVIOUS
  <2>1. Base'
    BY BaseNext
  <2>2. CASE Next
    BY <2>1, <2>2, LooseNext
  <2>3. CASE UNCHANGED vars
    BY <2>1, <2>3 DEF vars, Loose
  <2> QED BY <2>2, <2>3
<1>3. Base /\ Loose => TypeOK
  BY TypesFollow
<1> QED BY <1>1, <1>2, <1>3, PTL DEF Spec
=============================================================================
