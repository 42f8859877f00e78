--------------------------- MODULE S3JournalProofs ---------------------------
(***************************************************************************)
(* Theorems about S3Journal, for every set of items and processes, every   *)
(* setup and every bound.                                                  *)
(*                                                                         *)
(* The serial and the highest fence of a snapshot are a sum and a maximum  *)
(* over the items: nothing below depends on them, and they have no type    *)
(* here.                                                                   *)
(***************************************************************************)
EXTENDS S3Journal, TLAPS

(***************************************************************************)
(* Types.                                                                  *)
(***************************************************************************)
DocShape(d) == d.gen \in Nat /\ d.wm \in Seqs /\ d.val \in [Items -> Values]
CutShape(c) ==
    /\ DOMAIN c = {"doc", "listed", "page", "lists", "read", "unread", "heads", "fences",
                   "counter", "tries", "began"}
    /\ DocShape(c.doc)
    /\ c.listed \subseteq Entry
    /\ c.page \in Nat
    /\ c.read \subseteq Items
    /\ c.unread \subseteq Items
    /\ c.heads \in [Items -> Entry]
    /\ c.began \in Seqs
Shape ==
    /\ setup \in Setups
    /\ objects \subseteq Entry
    /\ head \in [Items -> Entry]
    /\ fence \in Seqs
    /\ counter \in 0..MaxFence
    /\ DocShape(snap)
    /\ lease \in [Procs -> 0..MaxFence]
    /\ view \in [Procs -> Seqs]
    /\ viewed \in [Procs -> BOOLEAN]
    /\ pc \in [Procs -> PCs]
    /\ goal \in [Procs -> {"read", "compact", "bulk"}]
    /\ op \in [Procs -> OpType]
    /\ DOMAIN cut = Procs
    /\ \A p \in Procs : CutShape(cut[p])
    /\ writes \in Values
    /\ since \in [Procs -> Seqs]

LEMMA FreshShapes == /\ Zero \in Seqs /\ \A i \in Items : NoEntry(i) \in Entry
                     /\ DocShape(FreshCut.doc) /\ CutShape(FreshCut) /\ FreshOp \in OpType
                     /\ 0 \in Values
<1>1. 0 \in Values
  BY BoundsAssumption DEF Values
<1>2. Zero \in Seqs
  BY DEF Zero, Seqs
<1>3. \A i \in Items : NoEntry(i) \in Entry
  BY <1>1, <1>2 DEF NoEntry, Entry
<1>4. DocShape(FreshCut.doc)
  BY <1>1, <1>2 DEF DocShape, FreshCut, Zero
<1>5. CutShape(FreshCut)
  BY <1>2, <1>3, <1>4 DEF CutShape, FreshCut
<1>6. FreshOp \in OpType
  BY <1>1, <1>2 DEF FreshOp, OpType
<1> QED
  BY <1>1, <1>2, <1>3, <1>4, <1>5, <1>6

LEMMA InitShape == Init => Shape
<1> SUFFICES ASSUME Init PROVE Shape
  OBVIOUS
<1>1. 0 \in 0..MaxFence
  BY BoundsAssumption
<1> QED
  BY <1>1, FreshShapes DEF Init, Shape, PCs

LEMMA LargerNat == \A a, b \in Nat : Larger(a, b) \in Nat /\ Larger(a, b) >= a /\ Larger(a, b) >= b
  BY DEF Larger

LEMMA HeadSeqsType == ASSUME head \in [Items -> Entry] PROVE HeadSeqs \in Seqs
  BY DEF HeadSeqs, Seqs, Entry

\* What a read has put together keeps its types when it is folded.
LEMMA FoldTypes ==
  ASSUME NEW c, CutShape(c)
  PROVE  /\ NewestSeqs(c) \in Seqs /\ Watermarks(c) \in Seqs /\ Nodes(c) \in [Items -> Values]
         /\ Effective(c) \subseteq Items
<1> USE DEF CutShape, DocShape
<1>1. \A i \in Items : c.heads[i].seq \in Nat /\ c.heads[i].val \in Values /\ c.doc.wm[i] \in Nat
                       /\ c.doc.val[i] \in Values
  BY DEF Entry, Seqs
<1>2. NewestSeqs(c) \in Seqs
  BY <1>1, LargerNat DEF NewestSeqs, Seqs
<1>3. Watermarks(c) \in Seqs
  BY <1>1 DEF Watermarks, Seqs
<1>4. Nodes(c) \in [Items -> Values]
  BY <1>1 DEF Nodes
<1> QED
  BY <1>2, <1>3, <1>4 DEF Effective

LEMMA FinishShape ==
  ASSUME Shape, NEW p \in Procs, Finish(p)
  PROVE  /\ pc' \in [Procs -> PCs] /\ op' \in [Procs -> OpType]
         /\ DOMAIN cut' = Procs /\ \A q \in Procs : CutShape(cut'[q])
  BY FreshShapes DEF Shape, Finish, PCs

LEMMA RestartShape ==
  ASSUME Shape, NEW p \in Procs, Restart(p)
  PROVE  /\ pc' \in [Procs -> PCs] /\ op' \in [Procs -> OpType]
         /\ DOMAIN cut' = Procs /\ \A q \in Procs : CutShape(cut'[q])
<1>1. CASE Finish(p)
  BY <1>1, FinishShape
<1>2. CASE /\ pc' = [pc EXCEPT ![p] = "snap"]
           /\ cut' = [cut EXCEPT ![p].tries = @ + 1]
           /\ UNCHANGED op
  BY <1>2 DEF Shape, PCs, CutShape, DocShape
<1> QED
  BY <1>1, <1>2 DEF Restart

LEMMA BulkRetryShape ==
  ASSUME Shape, NEW p \in Procs, BulkRetry(p)
  PROVE  /\ pc' \in [Procs -> PCs] /\ op' \in [Procs -> OpType]
         /\ DOMAIN cut' = Procs /\ \A q \in Procs : CutShape(cut'[q])
<1>1. CASE Finish(p)
  BY <1>1, FinishShape
<1>2. CASE /\ pc' = [pc EXCEPT ![p] = "snap"]
           /\ op' = [op EXCEPT ![p].tries = @ + 1]
           /\ cut' = [cut EXCEPT ![p] = [FreshCut EXCEPT !.began = HeadSeqs]]
  <2>0. [op[p] EXCEPT !.tries = @ + 1] \in OpType
    BY DEF Shape, OpType
  <2>1. op' \in [Procs -> OpType]
    BY <1>2, <2>0 DEF Shape
  <2>2. CutShape([FreshCut EXCEPT !.began = HeadSeqs])
    BY FreshShapes, HeadSeqsType DEF Shape, CutShape, DocShape
  <2> QED
    BY <1>2, <2>1, <2>2 DEF Shape, PCs
<1> QED
  BY <1>1, <1>2 DEF BulkRetry

LEMMA ReadingShape == ASSUME Shape, NEW p \in Procs, Reading(p), UNCHANGED setup PROVE Shape'
<1> USE DEF journal, locks, views
<1>1. ASSUME NEW g \in {"read", "compact"}, StartCut(p, g) PROVE Shape'
  BY <1>1, HeadSeqsType DEF Shape, StartCut, PCs, CutShape, DocShape
<1>2. CASE GetSnapshot(p)
  <2> DEFINE c == [FreshCut EXCEPT !.doc = snap, !.tries = cut[p].tries, !.began = cut[p].began]
  <2>1. CutShape(c)
    BY FreshShapes DEF Shape, CutShape, DocShape
  <2>2. cut' = [cut EXCEPT ![p] = c] /\ pc' = [pc EXCEPT ![p] = "list"]
    BY <1>2 DEF GetSnapshot
  <2>3. UNCHANGED <<setup, journal, locks, views, goal, op, writes, since>>
    BY <1>2 DEF GetSnapshot
  <2> HIDE DEF c
  <2> QED
    BY <2>1, <2>2, <2>3 DEF Shape, PCs
<1>3. CASE ListEntries(p)
  <2> DEFINE c == cut[p]
             seen == (IF c.page = 1 THEN {} ELSE c.listed)
                       \cup {e \in objects : e.item \in Pages[c.page]}
             more == [c EXCEPT !.listed = seen, !.page = c.page + 1]
             all == [c EXCEPT !.listed = seen, !.page = 1, !.lists = c.lists + 1,
                              !.unread = ItemsPastWatermark(c.doc, seen) \ c.read]
  <2>0. CutShape(c) /\ c = cut[p]
    BY DEF Shape
  <2>1. seen \subseteq Entry
    BY <2>0 DEF Shape, CutShape
  <2>2. CutShape(more)
    <3> HIDE DEF c, seen
    <3> QED
      BY <2>0, <2>1 DEF CutShape
  <2>3. CutShape(all) /\ NextRead(all) \in PCs
    <3> HIDE DEF c, seen
    <3> QED
      BY <2>0, <2>1 DEF CutShape, ItemsPastWatermark, NextRead, PCs
  <2>4. \/ cut' = [cut EXCEPT ![p] = more] /\ UNCHANGED pc
        \/ cut' = [cut EXCEPT ![p] = all] /\ pc' = [pc EXCEPT ![p] = NextRead(all)]
    BY <1>3 DEF ListEntries
  <2>5. UNCHANGED <<setup, journal, locks, views, goal, op, writes, since>>
    BY <1>3 DEF ListEntries
  <2> HIDE DEF c, more, all
  <2> QED
    BY <2>2, <2>3, <2>4, <2>5 DEF Shape
<1>4. ASSUME NEW i \in Items, ReadHead(p, i) PROVE Shape'
  <2> DEFINE c == [cut[p] EXCEPT !.heads[i] = head[i], !.fences[i] = fence[i],
                                 !.read = @ \cup {i}, !.unread = @ \ {i}]
  <2>1. CutShape(c) /\ NextRead(c) \in PCs
    BY DEF Shape, CutShape, DocShape, NextRead, PCs
  <2> QED
    BY <1>4, <2>1 DEF Shape, ReadHead
<1>5. CASE GetEntries(p)
  <2>1. CASE Restart(p)
    BY <1>5, <2>1, RestartShape DEF Shape, GetEntries
  <2>2. CASE pc' = [pc EXCEPT ![p] = "etag"] /\ UNCHANGED <<op, cut>>
    BY <1>5, <2>2 DEF Shape, GetEntries, PCs
  <2> QED
    BY <1>5, <2>1, <2>2 DEF GetEntries
<1>6. CASE CheckEtag(p)
  BY <1>6, RestartShape DEF Shape, CheckEtag
<1>7. CASE InstallView(p)
  <2>1. NewestSeqs(cut[p]) \in Seqs /\ cut[p].began \in Seqs
    BY FoldTypes DEF Shape, CutShape
  <2>2. view' \in [Procs -> Seqs] /\ viewed' \in [Procs -> BOOLEAN] /\ since' \in [Procs -> Seqs]
    BY <1>7, <2>1 DEF InstallView, Shape
  <2> QED
    BY <1>7, <2>2, FinishShape DEF Shape, InstallView
<1> QED
  BY <1>1, <1>2, <1>3, <1>4, <1>5, <1>6, <1>7 DEF Reading

LEMMA FoldingShape == ASSUME Shape, NEW p \in Procs, Folding(p), UNCHANGED setup PROVE Shape'
<1> USE DEF journal, locks, views
<1>1. CASE FoldCut(p)
  <2>1. CASE Finish(p)
    BY <1>1, <2>1, FinishShape DEF Shape, FoldCut
  <2>2. CASE pc' = [pc EXCEPT ![p] = "delete"] /\ UNCHANGED <<cut, op>>
    BY <1>1, <2>2 DEF Shape, FoldCut, PCs
  <2>3. CASE /\ pc' = [pc EXCEPT ![p] = "swap"]
             /\ cut' = [cut EXCEPT ![p] = [cut[p] EXCEPT !.counter = counter]]
             /\ UNCHANGED op
    <3>1. CutShape([cut[p] EXCEPT !.counter = counter])
      BY DEF Shape, CutShape, DocShape
    <3>2. UNCHANGED <<setup, journal, locks, views, goal, op, writes, since>>
      BY <1>1, <2>3 DEF FoldCut
    <3> QED
      BY <2>3, <3>1, <3>2 DEF Shape, PCs
  <2> QED
    BY <1>1, <2>1, <2>2, <2>3 DEF FoldCut
<1>2. ASSUME NEW S \in SUBSET Items, StartBulk(p, S) PROVE Shape'
  <2>1. writes + 1 \in Values
    BY <1>2, SetupsAssumption, BoundsAssumption DEF StartBulk, Shape, Values, SetupType
  <2>2. [FreshOp EXCEPT !.items = S, !.val = writes + 1] \in OpType
    BY <2>1, FreshShapes DEF OpType
  <2>3. CutShape([cut[p] EXCEPT !.began = HeadSeqs])
    BY HeadSeqsType DEF Shape, CutShape, DocShape
  <2>4. /\ writes' = writes + 1
        /\ op' = [op EXCEPT ![p] = [FreshOp EXCEPT !.items = S, !.val = writes + 1]]
        /\ goal' = [goal EXCEPT ![p] = "bulk"] /\ pc' = [pc EXCEPT ![p] = "snap"]
        /\ cut' = [cut EXCEPT ![p] = [cut[p] EXCEPT !.began = HeadSeqs]]
        /\ UNCHANGED <<setup, journal, locks, views, since>>
    BY <1>2 DEF StartBulk, Shape
  <2> QED
    BY <2>1, <2>2, <2>3, <2>4 DEF Shape, PCs
<1>3. CASE BulkCut(p)
  <2>1. CASE viewed' = [viewed EXCEPT ![p] = FALSE] /\ Finish(p)
    BY <1>3, <2>1, FinishShape DEF Shape, BulkCut
  <2>2. CASE /\ pc' = [pc EXCEPT ![p] = "check"]
             /\ cut' = [cut EXCEPT ![p].unread = op[p].items]
             /\ UNCHANGED <<op, viewed>>
    <3>1. op[p].items \subseteq Items
      BY DEF Shape, OpType
    <3>2. \A q \in Procs : CutShape(cut'[q])
      BY <2>2, <3>1 DEF Shape, CutShape, DocShape
    <3>3. UNCHANGED <<setup, journal, locks, view, goal, writes, since>>
      BY <1>3 DEF BulkCut
    <3> QED
      BY <2>2, <3>2, <3>3 DEF Shape, PCs
  <2> QED
    BY <1>3, <2>1, <2>2 DEF BulkCut
<1>4. ASSUME NEW i \in Items, HeadsUnmoved(p, i) PROVE Shape'
  <2>1. UNCHANGED <<setup, journal, locks, views, goal, writes, since>>
    BY <1>4 DEF HeadsUnmoved
  <2>2. CASE Finish(p) \/ BulkRetry(p)
    BY <2>1, <2>2, FinishShape, BulkRetryShape DEF Shape
  <2>3. CASE /\ cut' = [cut EXCEPT ![p].unread = @ \ {i}]
             /\ pc' = [pc EXCEPT ![p] = IF cut[p].unread = {i} THEN "swap" ELSE "check"]
             /\ UNCHANGED op
    BY <2>1, <2>3 DEF Shape, PCs, CutShape, DocShape
  <2> QED
    BY <1>4, <2>2, <2>3 DEF HeadsUnmoved
<1>5. ASSUME NEW answered \in BOOLEAN, PutSnapshot(p, answered) PROVE Shape'
  <2>1. DocShape(NewSnapshot(p))
    <3>1. CutShape(cut[p]) /\ cut[p].doc.gen + 1 \in Nat
      BY DEF Shape, CutShape, DocShape
    <3>2. op[p].val \in Values
      BY DEF Shape, OpType
    <3>3. Watermarks(cut[p]) \in Seqs /\ Nodes(cut[p]) \in [Items -> Values]
      BY <3>1, FoldTypes
    <3> QED
      BY <3>1, <3>2, <3>3 DEF NewSnapshot, Fold, DocShape
  <2>2. UNCHANGED <<setup, objects, head, locks, view, goal, writes, since>>
    BY <1>5 DEF PutSnapshot
  <2>3. CASE /\ pc' = [pc EXCEPT ![p] = "delete"]
             /\ viewed' = [viewed EXCEPT ![p] = @ /\ goal[p] = "compact"]
             /\ UNCHANGED <<op, cut>>
    BY <1>5, <2>1, <2>2, <2>3 DEF Shape, PutSnapshot, PCs
  <2>4. CASE (Finish(p) \/ BulkRetry(p)) /\ UNCHANGED viewed
    BY <1>5, <2>1, <2>2, <2>4, FinishShape, BulkRetryShape DEF Shape, PutSnapshot
  <2> QED
    BY <1>5, <2>3, <2>4 DEF PutSnapshot, SnapshotMoved
<1>6. CASE PutRefused(p)
  BY <1>6, FinishShape, BulkRetryShape DEF Shape, PutRefused, SnapshotMoved
<1>7. ASSUME NEW e \in objects, Delete(p, e) PROVE Shape'
  BY <1>7 DEF Shape, Delete, CutShape, DocShape
<1>8. CASE DeleteDone(p)
  BY <1>8, FinishShape DEF Shape, DeleteDone
<1> QED
  BY <1>1, <1>2, <1>3, <1>4, <1>5, <1>6, <1>7, <1>8 DEF Folding

LEMMA EntryOfType == ASSUME Shape, NEW p \in Procs, NEW i \in Items PROVE EntryOf(p, i) \in Entry
  BY DEF Shape, OpType, EntryOf, Entry

LEMMA WritingShape == ASSUME Shape, NEW p \in Procs, Writing(p), UNCHANGED setup PROVE Shape'
<1> USE DEF journal, locks, views
<1>1. ASSUME NEW i \in Items, StartWrite(p, i) PROVE Shape'
  <2> DEFINE new == [FreshOp EXCEPT !.items = {i}, !.val = writes + 1, !.after = HeadSeqs,
                        !.known = view[p][i], !.expect = view[p][i], !.seq = view[p][i] + 1]
  <2>1. writes + 1 \in Values
    BY <1>1, SetupsAssumption, BoundsAssumption DEF StartWrite, Shape, Values, SetupType
  <2>2. view[p][i] \in Nat /\ HeadSeqs \in Seqs
    BY HeadSeqsType DEF Shape, Seqs
  <2>3. new \in OpType
    <3>1. {i} \in SUBSET Items /\ view[p][i] + 1 \in Nat
      BY <2>2
    <3> QED
      BY <2>1, <2>2, <3>1 DEF OpType, FreshOp
  <2>4. /\ writes' = writes + 1
        /\ op' = [op EXCEPT ![p] = new]
        /\ pc' = [pc EXCEPT ![p] = "entry"]
        /\ UNCHANGED <<setup, journal, locks, views, goal, cut, since>>
    BY <1>1 DEF StartWrite
  <2> HIDE DEF new
  <2> QED
    BY <2>1, <2>3, <2>4 DEF Shape, PCs
<1>2. ASSUME NEW i \in Items, NEW answered \in BOOLEAN, PutEntry(p, i, answered) PROVE Shape'
  <2>1. objects' \subseteq Entry
    BY <1>2, EntryOfType DEF Shape, PutEntry
  <2>2. UNCHANGED <<setup, head, snap, locks, views, goal, writes, since>>
    BY <1>2 DEF PutEntry
  <2>3. CASE pc' = [pc EXCEPT ![p] = "commit"] /\ UNCHANGED <<op, cut>>
    BY <2>1, <2>2, <2>3 DEF Shape, PCs
  <2>4. CASE op' = [op EXCEPT ![p].nonce = @ + 1] /\ UNCHANGED <<pc, cut>>
    <3>1. [op[p] EXCEPT !.nonce = @ + 1] \in OpType
      BY DEF Shape, OpType
    <3> QED
      BY <2>1, <2>2, <2>4, <3>1 DEF Shape
  <2>5. CASE Finish(p)
    BY <2>1, <2>2, <2>5, FinishShape DEF Shape
  <2> QED
    BY <1>2, <2>3, <2>4, <2>5 DEF PutEntry
<1>r. ASSUME NEW i \in Items, Record(p, i)
      PROVE  /\ view' \in [Procs -> Seqs] /\ pc' \in [Procs -> PCs] /\ op' \in [Procs -> OpType]
             /\ DOMAIN cut' = Procs /\ \A q \in Procs : CutShape(cut'[q])
  <2>0. view[p][i] \in Nat /\ op[p].seq \in Nat
    BY DEF Shape, Seqs, OpType
  <2>1. Larger(view[p][i], op[p].seq) \in Nat
    BY <2>0, LargerNat
  <2>2. view' \in [Procs -> Seqs]
    BY <1>r, <2>1 DEF Record, Shape, Seqs
  <2> QED
    BY <1>r, <2>2, FinishShape DEF Record
<1>3. ASSUME NEW i \in Items, NEW answered \in BOOLEAN, Commit(p, i, answered) PROVE Shape'
  <2>1. head' \in [Items -> Entry]
    BY <1>3, EntryOfType DEF Shape, Commit
  <2>2. UNCHANGED <<setup, objects, snap, locks, viewed, goal, writes, since>>
    BY <1>3 DEF Commit
  <2> QED
    BY <1>3, <1>r, <2>1, <2>2 DEF Shape, Commit
<1>4. ASSUME NEW i \in Items, CommitRefused(p, i) PROVE Shape'
  <2>1. UNCHANGED <<setup, journal, locks, viewed, goal, writes, since>>
    BY <1>4 DEF CommitRefused
  <2>2. CASE Record(p, i)
    BY <1>r, <2>1, <2>2 DEF Shape
  <2>3. CASE Finish(p) /\ UNCHANGED view
    BY <2>1, <2>3, FinishShape DEF Shape
  <2>4. CASE /\ op' = [op EXCEPT ![p].expect = head[i].seq, ![p].tries = @ + 1,
                            ![p].seq = Larger(head[i].seq, op[p].known) + 1, ![p].nonce = 0]
             /\ pc' = [pc EXCEPT ![p] = "entry"]
             /\ UNCHANGED <<cut, view>>
    <3>1. head[i].seq \in Nat /\ op[p].known \in Nat /\ op[p].tries \in Nat
      BY DEF Shape, Entry, OpType
    <3>2. Larger(head[i].seq, op[p].known) + 1 \in Nat
      BY <3>1 DEF Larger
    <3>3. op' \in [Procs -> OpType]
      BY <2>4, <3>1, <3>2 DEF Shape, OpType
    <3> QED
      BY <2>1, <2>4, <3>3 DEF Shape, PCs
  <2> QED
    BY <1>4, <2>2, <2>3, <2>4 DEF CommitRefused
<1> QED
  BY <1>1, <1>2, <1>3, <1>4 DEF Writing

LEMMA StepShape == ASSUME Shape, NEW p \in Procs, Step(p), UNCHANGED setup PROVE Shape'
<1> USE DEF journal, locks, views
<1>1. CASE TakeLease(p)
  <2>1. counter + 1 \in 0..MaxFence
    BY <1>1, SetupsAssumption, BoundsAssumption DEF TakeLease, Shape, SetupType
  <2> QED
    BY <1>1, <2>1 DEF Shape, TakeLease, Seqs
<1>2. CASE EndRun(p)
  <2>1. 0 \in 0..MaxFence
    BY BoundsAssumption
  <2> QED
    BY <1>2, <2>1, FinishShape DEF Shape, EndRun
<1> QED
  BY <1>1, <1>2, ReadingShape, FoldingShape, WritingShape DEF Step

(***************************************************************************)
(* The invariant.  What a process has in hand is never newer than the      *)
(* journal, and nothing the journal still needs is ever removed.           *)
(***************************************************************************)
\* A process between calls has no write, and one that is not reading no cut.
Idle(p) == /\ pc[p] = "idle" => op[p].items = {}
           /\ pc[p] \in {"idle", "entry", "commit"} => cut[p] = FreshCut

\* A node write is of one item and goes after the head it expects.
Based(p) == pc[p] \in {"entry", "commit"} => /\ \E i \in Items : op[p].items = {i}
                                             /\ op[p].expect < op[p].seq

\* The snapshot of a cut is an earlier one or the one that stands.
DocKnown(c) == /\ c.doc.gen <= snap.gen
               /\ c.doc.gen = snap.gen => c.doc = snap

\* The heads of a cut were read after it began, and are heads still or older.
HeadsKnown(c) ==
    \A i \in Items :
        /\ c.heads[i].seq <= head[i].seq
        /\ c.began[i] <= head[i].seq
        /\ i \in c.read => /\ c.began[i] <= c.heads[i].seq
                           /\ c.heads[i].seq = head[i].seq => c.heads[i] = head[i]

\* A LIST has found every item committed, before the read began, past the read's
\* snapshot on the pages it has been through; a read that has its LIST reads the
\* heads of all of them.
Missing(c) == {i \in Items : c.began[i] > c.doc.wm[i]}
Listed(c) == \A k \in DOMAIN Pages : k < c.page =>
                \A i \in Pages[k] \cap Missing(c) :
                    \E e \in c.listed : e.item = i /\ e.seq > c.doc.wm[i]
Finding(c, at) ==
    /\ at = "list" => Listed(c)
    /\ at \in {"heads", "get", "etag"} => Missing(c) \subseteq c.read \cup c.unread
    /\ at = "heads" => c.page = 1
    /\ at \in {"get", "etag"} => c.unread = {}

\* The entry a commit names is there, unless a fold has passed it by.
Stored(p) ==
    pc[p] = "commit" =>
        \A i \in op[p].items : EntryOf(p, i) \in objects \/ op[p].seq <= snap.wm[i]

\* What is being deleted is covered by the snapshot.
Covered(p) == pc[p] = "delete" => \A i \in Items : Watermarks(cut[p])[i] <= snap.wm[i]

\* The read finds what it should as long as the snapshot it began with stands.
Local(p) == /\ Idle(p) /\ Based(p) /\ DocKnown(cut[p]) /\ HeadsKnown(cut[p])
            /\ cut[p].doc.gen = snap.gen => Finding(cut[p], pc[p])
            /\ Stored(p) /\ Covered(p)
Genesis == snap.gen = 0 => snap = FreshCut.doc
Named == \A i \in Items : head[i].item = i
WmBehind == \A i \in Items : snap.wm[i] <= head[i].seq
JournalInv ==
    Shape /\ (\A p \in Procs : Local(p)) /\ Genesis /\ Named /\ WmBehind /\ EntryKept

\* How the journal moves: heads and snapshots go forward only, and an entry removed
\* is one the snapshot covers.
Forward ==
    /\ \A i \in Items : head'[i] = head[i] \/ head[i].seq < head'[i].seq
    /\ \/ snap' = snap
       \/ snap.gen < snap'.gen /\ \A i \in Items : snap.wm[i] <= snap'.wm[i]
    /\ \A e \in objects \ objects' : e.seq <= snap.wm[e.item]

LEMMA InitInv == Init => JournalInv
<1> SUFFICES ASSUME Init PROVE JournalInv
  OBVIOUS
<1>1. Shape
  BY InitShape
<1>2. \A i \in Items : head[i].item = i /\ head[i].seq = 0 /\ snap.wm[i] = 0
  BY DEF Init, NoEntry, FreshCut, Zero
<1>3. ASSUME NEW p \in Procs PROVE Local(p)
  <2>1. pc[p] = "idle" /\ op[p] = FreshOp /\ cut[p] = FreshCut /\ snap = FreshCut.doc
    BY DEF Init
  <2>2. FreshOp.items = {} /\ FreshCut.doc.gen = 0 /\ FreshCut.read = {}
        /\ \A i \in Items : FreshCut.heads[i].seq = 0 /\ FreshCut.began[i] = 0
    BY DEF FreshOp, FreshCut, Zero, NoEntry
  <2> QED
    BY <1>2, <2>1, <2>2
    DEF Local, Idle, Based, DocKnown, HeadsKnown, Finding, Missing, Stored, Covered
<1> QED
  BY <1>1, <1>2, <1>3 DEF JournalInv, Genesis, Named, WmBehind, EntryKept, Init

\* Steps of one process leave the others' locals alone.
LEMMA Others ==
  ASSUME Shape, NEW p \in Procs, Step(p), NEW q \in Procs, q # p
  PROVE  /\ pc'[q] = pc[q] /\ op'[q] = op[q] /\ cut'[q] = cut[q]
         /\ goal'[q] = goal[q] /\ lease'[q] = lease[q]
         /\ view'[q] = view[q] /\ viewed'[q] = viewed[q] /\ since'[q] = since[q]
<1> USE DEF Shape, journal, locks, views, Finish, Restart, BulkRetry
<1>1. CASE Reading(p)
  BY <1>1 DEF Reading, StartCut, GetSnapshot, ListEntries, ReadHead, GetEntries, CheckEtag, InstallView
<1>2. CASE Folding(p)
  BY <1>2 DEF Folding, FoldCut, StartBulk, BulkCut, HeadsUnmoved, PutSnapshot, PutRefused,
              SnapshotMoved, Delete, DeleteDone
<1>3. CASE Writing(p)
  BY <1>3 DEF Writing, StartWrite, PutEntry, Commit, CommitRefused, Record
<1>4. CASE TakeLease(p) \/ EndRun(p)
  BY <1>4 DEF TakeLease, EndRun
<1> QED
  BY <1>1, <1>2, <1>3, <1>4 DEF Step

LEMMA StepForward == ASSUME JournalInv, NEW p \in Procs, Step(p) PROVE Forward
<1> USE DEF journal, locks, views
<1>s. Shape /\ Local(p) /\ CutShape(cut[p])
  BY DEF JournalInv, Shape
<1>1. CASE Reading(p)
  BY <1>1 DEF Forward, Reading, StartCut, GetSnapshot, ListEntries, ReadHead, GetEntries,
              CheckEtag, InstallView
<1>2. CASE Folding(p)
  <2>1. ASSUME NEW answered \in BOOLEAN, PutSnapshot(p, answered) PROVE Forward
    <3>1. cut[p].doc = snap /\ snap.gen \in Nat
      BY <1>s, <2>1 DEF PutSnapshot, Unmoved, Local, DocKnown, Shape, DocShape
    <3>2. snap' = NewSnapshot(p) /\ UNCHANGED <<head, objects>>
      BY <2>1 DEF PutSnapshot
    <3>3. NewSnapshot(p).gen = snap.gen + 1 /\ NewSnapshot(p).wm = Watermarks(cut[p])
      BY <3>1 DEF NewSnapshot, Fold
    <3>4. \A i \in Items : snap.wm[i] <= Watermarks(cut[p])[i]
      BY <1>s, <3>1 DEF Watermarks, Effective, Shape, DocShape, CutShape, Seqs, Entry
    <3> QED
      BY <3>1, <3>2, <3>3, <3>4 DEF Forward
  <2>2. ASSUME NEW e \in objects, Delete(p, e) PROVE Forward
    <3>1. e.seq <= Watermarks(cut[p])[e.item] /\ e.item \in Items /\ e.seq \in Nat
      BY <1>s, <2>2 DEF Delete, Garbage, Shape, Entry
    <3>2. Watermarks(cut[p])[e.item] <= snap.wm[e.item]
      BY <1>s, <2>2, <3>1 DEF Delete, Local, Covered
    <3>3. Watermarks(cut[p])[e.item] \in Nat /\ snap.wm[e.item] \in Nat
      BY <1>s, <3>1, FoldTypes DEF Shape, DocShape, Seqs
    <3>4. e.seq <= snap.wm[e.item]
      BY <3>1, <3>2, <3>3
    <3> QED
      BY <2>2, <3>4 DEF Delete, Forward
  <2>3. CASE UNCHANGED journal
    BY <2>3 DEF Forward
  <2> QED
    BY <1>2, <2>1, <2>2, <2>3
    DEF Folding, FoldCut, StartBulk, BulkCut, HeadsUnmoved, PutRefused, DeleteDone
<1>3. CASE Writing(p)
  <2>1. ASSUME NEW i \in Items, NEW answered \in BOOLEAN, Commit(p, i, answered) PROVE Forward
    <3>1. head[i].seq \in Nat /\ op[p].expect \in Nat /\ op[p].seq \in Nat
      BY <1>s DEF Shape, Entry, OpType
    <3>2. head[i].seq < op[p].seq
      BY <1>s, <2>1, <3>1 DEF Commit, CommitHolds, Local, Based
    <3>3. head' = [head EXCEPT ![i] = EntryOf(p, i)] /\ EntryOf(p, i).seq = op[p].seq
      BY <2>1 DEF Commit, EntryOf
    <3>4. UNCHANGED <<snap, objects>>
      BY <2>1 DEF Commit
    <3> QED
      BY <1>s, <3>2, <3>3, <3>4 DEF Forward, Shape
  <2>2. CASE UNCHANGED <<head, snap>> /\ objects \subseteq objects'
    BY <2>2 DEF Forward
  <2> QED
    BY <1>3, <2>1, <2>2 DEF Writing, StartWrite, PutEntry, CommitRefused
<1>4. CASE TakeLease(p) \/ EndRun(p)
  BY <1>4 DEF Forward, TakeLease, EndRun
<1> QED
  BY <1>1, <1>2, <1>3, <1>4 DEF Step

\* Whatever the others do, a process that takes no step keeps what it knows.
LEMMA LocalKept ==
  ASSUME JournalInv, Shape', Forward, UNCHANGED setup, NEW q \in Procs,
         pc'[q] = pc[q], op'[q] = op[q], cut'[q] = cut[q]
  PROVE  Local(q)'
<1>1. Local(q) /\ Shape /\ CutShape(cut[q])
  BY DEF JournalInv, Shape
<1>2. /\ snap.gen \in Nat /\ snap'.gen \in Nat /\ cut[q].doc.gen \in Nat
      /\ \A i \in Items : /\ head[i].seq \in Nat /\ head'[i].seq \in Nat
                          /\ snap.wm[i] \in Nat /\ snap'.wm[i] \in Nat
                          /\ cut[q].heads[i].seq \in Nat /\ cut[q].began[i] \in Nat
                          /\ Watermarks(cut[q])[i] \in Nat
  <2>1. Watermarks(cut[q]) \in Seqs
    BY <1>1, FoldTypes
  <2>2. /\ snap.gen \in Nat /\ cut[q].doc.gen \in Nat
        /\ \A i \in Items : /\ head[i].seq \in Nat /\ snap.wm[i] \in Nat
                            /\ cut[q].heads[i].seq \in Nat /\ cut[q].began[i] \in Nat
    BY <1>1 DEF Shape, DocShape, CutShape, Seqs, Entry
  <2>3. snap'.gen \in Nat /\ \A i \in Items : head'[i].seq \in Nat /\ snap'.wm[i] \in Nat
    BY DEF Shape, DocShape, Seqs, Entry
  <2> QED
    BY <2>1, <2>2, <2>3 DEF Seqs
<1>3. \A i \in Items : head[i].seq <= head'[i].seq /\ snap.wm[i] <= snap'.wm[i]
  BY <1>2 DEF Forward
<1>4. Idle(q)' /\ Based(q)'
  BY <1>1 DEF Local, Idle, Based
<1>5. DocKnown(cut[q])'
  BY <1>1, <1>2 DEF Local, DocKnown, Forward
<1>6. HeadsKnown(cut[q])'
  <2> SUFFICES ASSUME NEW i \in Items
               PROVE /\ cut[q].heads[i].seq <= head'[i].seq
                     /\ cut[q].began[i] <= head'[i].seq
                     /\ i \in cut[q].read =>
                          /\ cut[q].began[i] <= cut[q].heads[i].seq
                          /\ cut[q].heads[i].seq = head'[i].seq => cut[q].heads[i] = head'[i]
    BY DEF HeadsKnown
  <2>1. HeadsKnown(cut[q])
    BY <1>1 DEF Local
  <2> QED
    BY <1>2, <1>3, <2>1 DEF HeadsKnown, Forward
<1>7. cut'[q].doc.gen = snap'.gen => Finding(cut[q], pc[q])'
  <2>1. CASE snap' = snap
    BY <1>1, <2>1 DEF Local, Finding, Listed, Missing, Pages
  <2>2. CASE snap.gen < snap'.gen
    BY <1>1, <1>2, <2>2 DEF Local, DocKnown
  <2> QED
    BY <2>1, <2>2 DEF Forward
<1>8. Stored(q)'
  <2> SUFFICES ASSUME pc[q] = "commit", NEW i \in op[q].items
               PROVE EntryOf(q, i) \in objects' \/ op[q].seq <= snap'.wm[i]
    BY DEF Stored, EntryOf
  <2>0. i \in Items /\ op[q].seq \in Nat
    BY <1>1 DEF Shape, OpType
  <2>1. CASE EntryOf(q, i) \in objects
    <3>1. EntryOf(q, i).seq = op[q].seq /\ EntryOf(q, i).item = i
      BY DEF EntryOf
    <3>2. EntryOf(q, i) \in objects' \/ op[q].seq <= snap.wm[i]
      BY <2>1, <3>1 DEF Forward
    <3> QED
      BY <1>2, <1>3, <2>0, <3>2
  <2>2. CASE op[q].seq <= snap.wm[i]
    BY <1>2, <1>3, <2>0, <2>2
  <2> QED
    BY <1>1, <2>1, <2>2 DEF Local, Stored
<1>9. Covered(q)'
  BY <1>1, <1>2, <1>3 DEF Local, Covered, Watermarks, Effective
<1> QED
  BY <1>4, <1>5, <1>6, <1>7, <1>8, <1>9 DEF Local

LEMMA GenesisKept == ASSUME JournalInv, Shape', Forward PROVE Genesis'
<1>1. snap.gen \in Nat /\ snap'.gen \in Nat
  BY DEF JournalInv, Shape, DocShape
<1> QED
  BY <1>1 DEF JournalInv, Forward, Genesis

\* A call that has returned knows nothing.
LEMMA FinishLocal ==
  ASSUME JournalInv, Shape', Forward, NEW p \in Procs, Finish(p)
  PROVE  Local(p)'
<1>1. pc'[p] = "idle" /\ op'[p] = FreshOp /\ cut'[p] = FreshCut
  BY DEF Finish, JournalInv, Shape
<1>2. FreshOp.items = {} /\ FreshCut.doc.gen = 0 /\ FreshCut.read = {}
      /\ \A i \in Items : FreshCut.heads[i].seq = 0 /\ FreshCut.began[i] = 0
  BY DEF FreshOp, FreshCut, Zero, NoEntry
<1>3. snap'.gen \in Nat /\ \A i \in Items : head'[i].seq \in Nat
  BY DEF Shape, DocShape, Entry
<1>4. Idle(p)' /\ Based(p)' /\ Stored(p)' /\ Covered(p)' /\ Finding(cut[p], pc[p])'
  BY <1>1, <1>2 DEF Idle, Based, Stored, Covered, Finding
<1>5. DocKnown(cut[p])'
  BY <1>1, <1>2, <1>3, GenesisKept DEF DocKnown, Genesis
<1>6. HeadsKnown(cut[p])'
  BY <1>1, <1>2, <1>3 DEF HeadsKnown
<1> QED
  BY <1>4, <1>5, <1>6 DEF Local

\* A process that is at its snapshot, at its checks or about to swap knows what its
\* cut does.
LEMMA CutLocal ==
  ASSUME NEW p \in Procs, NEW c, NEW at, cut'[p] = c, pc'[p] = at,
         at \in PCs \ {"idle", "entry", "commit", "delete"},
         DocKnown(c)', HeadsKnown(c)', c.doc.gen = snap'.gen => Finding(c, at)'
  PROVE  Local(p)'
<1>1. Idle(p)' /\ Based(p)' /\ Stored(p)' /\ Covered(p)'
  BY DEF Idle, Based, Stored, Covered
<1>2. DocKnown(cut[p])' /\ HeadsKnown(cut[p])'
  BY DEF DocKnown, HeadsKnown
<1>3. (cut[p].doc.gen = snap.gen => Finding(cut[p], pc[p]))'
  BY DEF Finding, Missing, Listed, Pages
<1> QED
  BY <1>1, <1>2, <1>3 DEF Local

LEMMA RestartLocal ==
  ASSUME JournalInv, Shape', Forward, NEW p \in Procs, Restart(p), UNCHANGED journal
  PROVE  Local(p)'
<1>1. CASE Finish(p)
  BY <1>1, FinishLocal
<1>2. CASE /\ pc' = [pc EXCEPT ![p] = "snap"]
           /\ cut' = [cut EXCEPT ![p].tries = @ + 1]
  <2>0. PICK c : c = [cut[p] EXCEPT !.tries = @ + 1]
    OBVIOUS
  <2>1. cut'[p] = c /\ pc'[p] = "snap" /\ CutShape(cut[p])
    BY <1>2, <2>0 DEF JournalInv, Shape
  <2>2. c.doc = cut[p].doc /\ c.heads = cut[p].heads /\ c.read = cut[p].read
        /\ c.began = cut[p].began
    BY <2>0, <2>1 DEF CutShape
  <2>3. DocKnown(cut[p]) /\ HeadsKnown(cut[p]) /\ UNCHANGED <<head, snap>>
    BY DEF JournalInv, Local, journal
  <2>4. DocKnown(c)' /\ HeadsKnown(c)'
    BY <2>2, <2>3 DEF DocKnown, HeadsKnown
  <2>5. Finding(c, "snap")'
    BY DEF Finding
  <2> QED
    BY <2>1, <2>4, <2>5, CutLocal DEF PCs
<1> QED
  BY <1>1, <1>2 DEF Restart

LEMMA BulkRetryLocal ==
  ASSUME JournalInv, Shape', Forward, NEW p \in Procs, BulkRetry(p)
  PROVE  Local(p)'
<1>1. CASE Finish(p)
  BY <1>1, FinishLocal
<1>2. CASE /\ pc' = [pc EXCEPT ![p] = "snap"]
           /\ cut' = [cut EXCEPT ![p] = [FreshCut EXCEPT !.began = HeadSeqs]]
  <2>0. PICK c : c = [FreshCut EXCEPT !.began = HeadSeqs]
    OBVIOUS
  <2>1. cut'[p] = c /\ pc'[p] = "snap"
    BY <1>2, <2>0 DEF JournalInv, Shape
  <2>2. c.doc = FreshCut.doc /\ c.heads = FreshCut.heads /\ c.read = {} /\ c.began = HeadSeqs
    BY <2>0 DEF FreshCut
  <2>3. FreshCut.doc.gen = 0 /\ snap'.gen \in Nat
        /\ \A i \in Items : /\ FreshCut.heads[i].seq = 0 /\ HeadSeqs[i] = head[i].seq
                            /\ head[i].seq \in Nat /\ head'[i].seq \in Nat
    BY DEF FreshCut, NoEntry, HeadSeqs, JournalInv, Shape, DocShape, Entry
  <2>4. DocKnown(c)'
    BY <2>2, <2>3, GenesisKept DEF DocKnown, Genesis
  <2>5. HeadsKnown(c)'
    BY <2>2, <2>3 DEF HeadsKnown, Forward
  <2>6. Finding(c, "snap")'
    BY DEF Finding
  <2> QED
    BY <2>1, <2>4, <2>5, <2>6, CutLocal DEF PCs
<1> QED
  BY <1>1, <1>2 DEF BulkRetry

LEMMA PagesType ==
  ASSUME setup \in Setups
  PROVE  /\ Len(Pages) \in Nat /\ DOMAIN Pages = 1..Len(Pages)
         /\ \A i \in Items : \E k \in DOMAIN Pages : i \in Pages[k]
<1>1. Pages \in Seq(SUBSET Items) /\ UNION {Pages[k] : k \in DOMAIN Pages} = Items
  BY SetupsAssumption DEF SetupType, Pages
<1> QED
  BY <1>1

\* One page on, a LIST has found what it should: what was committed past the snapshot
\* when the read began is still an entry, as that snapshot stands.
LEMMA PageListed ==
  ASSUME JournalInv, NEW c, CutShape(c), DocKnown(c), HeadsKnown(c), c.doc.gen = snap.gen,
         Listed(c), NEW seen,
         seen = (IF c.page = 1 THEN {} ELSE c.listed) \cup {e \in objects : e.item \in Pages[c.page]},
         NEW k \in DOMAIN Pages, k <= c.page, NEW i \in Pages[k] \cap Missing(c)
  PROVE  \E e \in seen : e.item = i /\ e.seq > c.doc.wm[i]
<1>0. k \in Nat /\ k >= 1 /\ c.page \in Nat
  BY PagesType DEF JournalInv, Shape, CutShape
<1>1. CASE k < c.page
  <2>1. \E e \in c.listed : e.item = i /\ e.seq > c.doc.wm[i]
    BY <1>1 DEF Listed
  <2> QED
    BY <1>0, <1>1, <2>1
<1>2. CASE k = c.page
  <2>1. c.doc = snap /\ i \in Items
    BY DEF DocKnown, Missing
  <2>2. head[i].seq > snap.wm[i]
    <3>1. c.began[i] > snap.wm[i] /\ c.began[i] <= head[i].seq
      BY <2>1 DEF Missing, HeadsKnown
    <3>2. c.began[i] \in Nat /\ snap.wm[i] \in Nat /\ head[i].seq \in Nat
      BY <2>1 DEF CutShape, JournalInv, Shape, DocShape, Seqs, Entry
    <3> QED
      BY <3>1, <3>2
  <2>3. head[i] \in objects /\ head[i].item = i
    BY <2>1, <2>2 DEF JournalInv, EntryKept, Named
  <2> QED
    BY <1>2, <2>1, <2>2, <2>3
<1> QED
  BY <1>0, <1>1, <1>2

LEMMA ReadingLocal ==
  ASSUME JournalInv, Shape', Forward, UNCHANGED setup, NEW p \in Procs, Reading(p)
  PROVE  Local(p)'
<1>s. Shape /\ Local(p) /\ CutShape(cut[p]) /\ DOMAIN cut = Procs /\ DOMAIN pc = Procs
  BY DEF JournalInv, Shape
<1>u. UNCHANGED <<head, snap, objects, setup>>
  BY DEF Reading, StartCut, GetSnapshot, ListEntries, ReadHead, GetEntries, CheckEtag,
         InstallView, journal
<1>1. ASSUME NEW g \in {"read", "compact"}, StartCut(p, g) PROVE Local(p)'
  <2>0. PICK c : c = [cut[p] EXCEPT !.began = HeadSeqs]
    OBVIOUS
  <2>1. cut'[p] = c /\ pc'[p] = "snap" /\ cut[p] = FreshCut
    BY <1>s, <1>1, <2>0 DEF StartCut, Local, Idle
  <2>2. c.doc = cut[p].doc /\ c.heads = cut[p].heads /\ c.read = {} /\ c.began = HeadSeqs
    BY <2>0, <2>1 DEF FreshCut
  <2>3. \A i \in Items : HeadSeqs[i] = head[i].seq /\ head[i].seq \in Nat
    BY <1>s DEF HeadSeqs, Shape, Entry
  <2>4. DocKnown(c)' /\ HeadsKnown(c)'
    BY <1>s, <1>u, <2>2, <2>3 DEF Local, DocKnown, HeadsKnown
  <2>5. Finding(c, "snap")'
    BY DEF Finding
  <2> QED
    BY <2>1, <2>4, <2>5, CutLocal DEF PCs
<1>2. CASE GetSnapshot(p)
  <2>0. PICK c : c = [FreshCut EXCEPT !.doc = snap, !.tries = cut[p].tries, !.began = cut[p].began]
    OBVIOUS
  <2>1. cut'[p] = c /\ pc'[p] = "list"
    BY <1>s, <1>2, <2>0 DEF GetSnapshot
  <2>2. c.doc = snap /\ c.heads = FreshCut.heads /\ c.read = {} /\ c.began = cut[p].began
        /\ c.page = 1
    BY <2>0 DEF FreshCut
  <2>3. snap.gen \in Nat /\ \A i \in Items : FreshCut.heads[i].seq = 0 /\ head[i].seq \in Nat
    BY <1>s DEF FreshCut, NoEntry, Shape, DocShape, Entry
  <2>4. DocKnown(c)' /\ HeadsKnown(c)'
    BY <1>s, <1>u, <2>2, <2>3 DEF Local, DocKnown, HeadsKnown
  <2>5. Finding(c, "list")'
    <3>1. \A k \in DOMAIN Pages' : ~(k < 1)
      BY <1>s, <1>u, PagesType DEF Shape, Pages
    <3> QED
      BY <2>2, <3>1 DEF Finding, Listed
  <2> QED
    BY <2>1, <2>4, <2>5, CutLocal DEF PCs
<1>3. CASE ListEntries(p)
  <2>0. PICK seen : seen = (IF cut[p].page = 1 THEN {} ELSE cut[p].listed)
                             \cup {e \in objects : e.item \in Pages[cut[p].page]}
    OBVIOUS
  <2>k. DocKnown(cut[p]) /\ HeadsKnown(cut[p]) /\ cut[p].page \in Nat /\ pc[p] = "list"
    BY <1>s, <1>3 DEF Local, CutShape, ListEntries
  <2>l. cut[p].doc.gen = snap.gen =>
          \A k \in DOMAIN Pages : k <= cut[p].page =>
            \A i \in Pages[k] \cap Missing(cut[p]) :
               \E e \in seen : e.item = i /\ e.seq > cut[p].doc.wm[i]
    <3> SUFFICES ASSUME cut[p].doc.gen = snap.gen, NEW k \in DOMAIN Pages, k <= cut[p].page,
                        NEW i \in Pages[k] \cap Missing(cut[p])
                 PROVE  \E e \in seen : e.item = i /\ e.seq > cut[p].doc.wm[i]
      OBVIOUS
    <3>0. PICK c : c = cut[p]
      OBVIOUS
    <3>1. Listed(c) /\ CutShape(c) /\ DocKnown(c) /\ HeadsKnown(c)
      BY <1>s, <2>k, <3>0 DEF Local, Finding
    <3>2. \E e \in seen : e.item = i /\ e.seq > c.doc.wm[i]
      BY <2>0, <3>0, <3>1, PageListed
    <3> QED
      BY <3>0, <3>2
  <2>1. CASE /\ cut[p].page < Len(Pages)
             /\ cut' = [cut EXCEPT ![p] = [cut[p] EXCEPT !.listed = seen, !.page = cut[p].page + 1]]
             /\ UNCHANGED pc
    <3>0. PICK c : c = [cut[p] EXCEPT !.listed = seen, !.page = cut[p].page + 1]
      OBVIOUS
    <3>1. cut'[p] = c /\ pc'[p] = "list"
      BY <1>s, <2>k, <2>1, <3>0
    <3>2. c.doc = cut[p].doc /\ c.heads = cut[p].heads /\ c.read = cut[p].read
          /\ c.began = cut[p].began /\ c.page = cut[p].page + 1 /\ c.listed = seen
      BY <1>s, <3>0 DEF CutShape
    <3>3. DocKnown(c)' /\ HeadsKnown(c)'
      BY <1>u, <2>k, <3>2 DEF DocKnown, HeadsKnown
    <3>4. \A k \in DOMAIN Pages : k < c.page => k <= cut[p].page
      BY <1>s, <2>k, <3>2, PagesType DEF Shape
    <3>5. c.doc.gen = snap.gen => Finding(c, "list")
      BY <2>l, <3>2, <3>4 DEF Finding, Listed, Missing
    <3>6. c.doc.gen = snap'.gen => Finding(c, "list")'
      BY <1>u, <3>5 DEF Finding, Listed, Missing, Pages
    <3> QED
      BY <3>1, <3>3, <3>6, CutLocal DEF PCs
  <2>2. ASSUME NEW all,
               all = [cut[p] EXCEPT !.listed = seen, !.page = 1, !.lists = cut[p].lists + 1,
                         !.unread = ItemsPastWatermark(cut[p].doc, seen) \ cut[p].read],
               ~(cut[p].page < Len(Pages)),
               cut' = [cut EXCEPT ![p] = all],
               pc' = [pc EXCEPT ![p] = NextRead(all)]
        PROVE  Local(p)'
    <3>1. /\ all.doc = cut[p].doc /\ all.heads = cut[p].heads /\ all.read = cut[p].read
          /\ all.began = cut[p].began /\ all.page = 1
          /\ all.unread = ItemsPastWatermark(cut[p].doc, seen) \ cut[p].read
      BY <1>s, <2>2 DEF CutShape
    <3>2. PICK at : at = NextRead(all)
      OBVIOUS
    <3>3. at \in {"heads", "list", "get"} /\ (at = "get" => all.unread = {})
      BY <3>2 DEF NextRead
    <3>4. cut'[p] = all /\ pc'[p] = at
      BY <1>s, <2>2, <3>2
    <3>5. DocKnown(all)' /\ HeadsKnown(all)'
      BY <1>u, <2>k, <3>1 DEF DocKnown, HeadsKnown
    <3>6. \A k \in DOMAIN Pages : k <= cut[p].page /\ ~(k < 1)
      BY <1>s, <2>k, <2>2, PagesType DEF Shape
    <3>7. cut[p].doc.gen = snap.gen => Missing(all) \subseteq all.read \cup all.unread
      <4> SUFFICES ASSUME cut[p].doc.gen = snap.gen, NEW i \in Missing(all)
                   PROVE  i \in all.read \cup all.unread
        OBVIOUS
      <4>1. i \in Items /\ i \in Missing(cut[p])
        BY <3>1 DEF Missing
      <4>2. PICK k \in DOMAIN Pages : i \in Pages[k]
        BY <1>s, <4>1, PagesType DEF Shape
      <4>3. \E e \in seen : e.item = i /\ e.seq > cut[p].doc.wm[i]
        BY <2>l, <3>6, <4>1, <4>2
      <4> QED
        BY <3>1, <4>1, <4>3 DEF ItemsPastWatermark
    <3>8. all.doc.gen = snap'.gen => Finding(all, at)'
      BY <1>u, <3>1, <3>3, <3>6, <3>7 DEF Finding, Listed, Missing, Pages
    <3> QED
      BY <3>3, <3>4, <3>5, <3>8, CutLocal DEF PCs
  <2> QED
    BY <1>3, <2>0, <2>1, <2>2 DEF ListEntries
<1>4. ASSUME NEW i \in Items, ReadHead(p, i) PROVE Local(p)'
  <2>0. PICK c : c = [cut[p] EXCEPT !.heads[i] = head[i], !.fences[i] = fence[i],
                                    !.read = @ \cup {i}, !.unread = @ \ {i}]
    OBVIOUS
  <2>1. cut' = [cut EXCEPT ![p] = c] /\ pc' = [pc EXCEPT ![p] = NextRead(c)]
        /\ pc[p] = "heads" /\ i \in cut[p].unread
    BY <1>4, <2>0 DEF ReadHead
  <2>2. c.doc = cut[p].doc /\ c.heads = [cut[p].heads EXCEPT ![i] = head[i]]
        /\ c.read = cut[p].read \cup {i} /\ c.unread = cut[p].unread \ {i}
        /\ c.began = cut[p].began /\ c.page = cut[p].page
    BY <1>s, <2>0 DEF CutShape
  <2>3. DocKnown(c)'
    BY <1>s, <1>u, <2>2 DEF DocKnown, Local
  <2>4. HeadsKnown(c)'
    <3>1. \A j \in Items : c.heads[j] = IF j = i THEN head[i] ELSE cut[p].heads[j]
      BY <1>s, <2>2 DEF CutShape
    <3>2. HeadsKnown(cut[p]) /\ head[i].seq \in Nat
      BY <1>s DEF Local, Shape, Entry
    <3> QED
      BY <1>u, <2>2, <3>1, <3>2 DEF HeadsKnown
  <2>5. PICK at : at = NextRead(c)
    OBVIOUS
  <2>6. at \in {"heads", "list", "get"} /\ (at = "get" => c.unread = {})
    BY <2>5 DEF NextRead
  <2>7. c.doc.gen = snap'.gen => Finding(c, at)'
    <3>1. cut[p].doc.gen = snap.gen =>
            /\ Missing(cut[p]) \subseteq cut[p].read \cup cut[p].unread /\ cut[p].page = 1
      BY <1>s, <2>1 DEF Local, Finding
    <3>2. \A k \in DOMAIN Pages : ~(k < 1)
      BY <1>s, PagesType DEF Shape
    <3> QED
      BY <1>u, <2>2, <2>6, <3>1, <3>2 DEF Finding, Listed, Missing, Pages
  <2>8. cut'[p] = c /\ pc'[p] = at
    BY <1>s, <2>1, <2>5
  <2> QED
    BY <2>3, <2>4, <2>6, <2>7, <2>8, CutLocal DEF PCs
<1>5. CASE GetEntries(p)
  <2>1. CASE Restart(p)
    BY <1>u, <2>1, RestartLocal DEF journal
  <2>2. CASE pc' = [pc EXCEPT ![p] = "etag"] /\ UNCHANGED <<op, cut>>
    <3>0. PICK c : c = cut[p]
      OBVIOUS
    <3>1. cut'[p] = c /\ pc'[p] = "etag" /\ pc[p] = "get"
      BY <1>s, <1>5, <2>2, <3>0 DEF GetEntries
    <3>2. DocKnown(c)' /\ HeadsKnown(c)'
      BY <1>s, <1>u, <3>0 DEF DocKnown, HeadsKnown, Local
    <3>3. c.doc.gen = snap'.gen => Finding(c, "etag")'
      BY <1>s, <1>u, <3>0, <3>1 DEF Local, Finding, Missing
    <3> QED
      BY <3>1, <3>2, <3>3, CutLocal DEF PCs
  <2> QED
    BY <1>5, <2>1, <2>2 DEF GetEntries
<1>6. CASE CheckEtag(p)
  BY <1>6, RestartLocal DEF CheckEtag
<1>7. CASE InstallView(p)
  BY <1>7, FinishLocal DEF InstallView
<1> QED
  BY <1>1, <1>2, <1>3, <1>4, <1>5, <1>6, <1>7 DEF Reading

LEMMA FoldingLocal ==
  ASSUME JournalInv, Shape', Forward, UNCHANGED setup, NEW p \in Procs, Folding(p)
  PROVE  Local(p)'
<1>s. Shape /\ Local(p) /\ CutShape(cut[p]) /\ DOMAIN cut = Procs /\ DOMAIN pc = Procs
      /\ DOMAIN op = Procs
  BY DEF JournalInv, Shape
<1>k. DocKnown(cut[p]) /\ HeadsKnown(cut[p])
  BY <1>s DEF Local
<1>u. UNCHANGED head
  BY DEF Folding, FoldCut, StartBulk, BulkCut, HeadsUnmoved, PutSnapshot, PutRefused, Delete,
         DeleteDone, journal
\* A step that changes nothing the fold rests on.
<1>c. ASSUME UNCHANGED snap, NEW c, NEW at \in {"snap", "check", "swap"},
             cut'[p] = c, pc'[p] = at, c.doc = cut[p].doc, c.heads = cut[p].heads,
             c.read = cut[p].read, c.began = cut[p].began
      PROVE  Local(p)'
  <2>1. DocKnown(c)' /\ HeadsKnown(c)'
    BY <1>c, <1>k, <1>u DEF DocKnown, HeadsKnown
  <2>2. Finding(c, at)'
    BY DEF Finding
  <2> QED
    BY <1>c, <2>1, <2>2, CutLocal DEF PCs
<1>d. ASSUME pc'[p] = "delete", cut'[p].doc = cut[p].doc, cut'[p].heads = cut[p].heads,
             cut'[p].read = cut[p].read, cut'[p].began = cut[p].began,
             DocKnown(cut[p])', Covered(p)'
      PROVE  Local(p)'
  <2>1. Idle(p)' /\ Based(p)' /\ Stored(p)' /\ Finding(cut[p], pc[p])'
    BY <1>d DEF Idle, Based, Stored, Finding
  <2>2. HeadsKnown(cut[p])'
    BY <1>d, <1>k, <1>u DEF HeadsKnown
  <2> QED
    BY <1>d, <2>1, <2>2 DEF Local
<1>1. CASE FoldCut(p)
  <2>0. UNCHANGED snap /\ cut[p].doc = snap
    BY <1>1, <1>k DEF FoldCut, Unmoved, DocKnown, journal
  <2>1. CASE /\ pc' = [pc EXCEPT ![p] = "swap"]
             /\ cut' = [cut EXCEPT ![p] = [cut[p] EXCEPT !.counter = counter]]
    <3>0. PICK c : c = [cut[p] EXCEPT !.counter = counter]
      OBVIOUS
    <3>1. c.doc = cut[p].doc /\ c.heads = cut[p].heads /\ c.read = cut[p].read
          /\ c.began = cut[p].began
      BY <1>s, <3>0 DEF CutShape
    <3>2. cut'[p] = c /\ pc'[p] = "swap"
      BY <1>s, <2>1, <3>0
    <3> QED
      BY <1>c, <2>0, <3>1, <3>2
  <2>2. CASE /\ Effective([cut[p] EXCEPT !.counter = counter]) = {}
             /\ pc' = [pc EXCEPT ![p] = "delete"] /\ UNCHANGED cut
    <3>1. Effective(cut[p]) = {}
      BY <1>s, <2>2 DEF Effective, CutShape
    <3>2. \A i \in Items : Watermarks(cut[p])[i] = snap.wm[i]
      BY <2>0, <3>1 DEF Watermarks
    <3>3. Covered(p)'
      BY <1>s, <2>0, <2>2, <3>2 DEF Covered, Watermarks, Effective, Shape, DocShape, Seqs
    <3>4. DocKnown(cut[p])'
      BY <1>k, <2>0, <2>2 DEF DocKnown
    <3>5. pc'[p] = "delete" /\ cut'[p] = cut[p]
      BY <1>s, <2>2
    <3> QED
      BY <1>d, <3>3, <3>4, <3>5
  <2>3. CASE Finish(p)
    BY <2>3, FinishLocal
  <2> QED
    BY <1>1, <2>1, <2>2, <2>3 DEF FoldCut
<1>2. ASSUME NEW S \in SUBSET Items, StartBulk(p, S) PROVE Local(p)'
  <2>0. PICK c : c = [cut[p] EXCEPT !.began = HeadSeqs]
    OBVIOUS
  <2>1. cut'[p] = c /\ pc'[p] = "snap" /\ cut[p] = FreshCut /\ UNCHANGED snap
    BY <1>s, <1>2, <2>0 DEF StartBulk, Local, Idle, journal
  <2>2. c.doc = cut[p].doc /\ c.heads = cut[p].heads /\ c.read = {} /\ c.began = HeadSeqs
    BY <2>0, <2>1 DEF FreshCut
  <2>3. \A i \in Items : HeadSeqs[i] = head[i].seq /\ head[i].seq \in Nat
    BY <1>s DEF HeadSeqs, Shape, Entry
  <2>4. DocKnown(c)' /\ HeadsKnown(c)'
    BY <1>k, <1>u, <2>1, <2>2, <2>3 DEF DocKnown, HeadsKnown
  <2>5. Finding(c, "snap")'
    BY DEF Finding
  <2> QED
    BY <2>1, <2>4, <2>5, CutLocal DEF PCs
<1>3. CASE BulkCut(p)
  <2>1. CASE Finish(p)
    BY <2>1, FinishLocal
  <2>2. CASE pc' = [pc EXCEPT ![p] = "check"] /\ cut' = [cut EXCEPT ![p].unread = op[p].items]
    <3>0. PICK c : c = [cut[p] EXCEPT !.unread = op[p].items]
      OBVIOUS
    <3>1. c.doc = cut[p].doc /\ c.heads = cut[p].heads /\ c.read = cut[p].read
          /\ c.began = cut[p].began
      BY <1>s, <3>0 DEF CutShape
    <3>2. cut'[p] = c /\ pc'[p] = "check" /\ UNCHANGED snap
      BY <1>s, <1>3, <2>2, <3>0 DEF BulkCut, journal
    <3> QED
      BY <1>c, <3>1, <3>2
  <2> QED
    BY <1>3, <2>1, <2>2 DEF BulkCut
<1>4. ASSUME NEW i \in Items, HeadsUnmoved(p, i) PROVE Local(p)'
  <2>1. CASE Finish(p)
    BY <2>1, FinishLocal
  <2>2. CASE BulkRetry(p)
    BY <2>2, BulkRetryLocal
  <2>3. CASE /\ cut' = [cut EXCEPT ![p].unread = @ \ {i}]
             /\ pc' = [pc EXCEPT ![p] = IF cut[p].unread = {i} THEN "swap" ELSE "check"]
    <3>0. PICK c : c = [cut[p] EXCEPT !.unread = @ \ {i}]
      OBVIOUS
    <3>1. c.doc = cut[p].doc /\ c.heads = cut[p].heads /\ c.read = cut[p].read
          /\ c.began = cut[p].began
      BY <1>s, <3>0 DEF CutShape
    <3>2. PICK at \in {"swap", "check"} : pc'[p] = at
      BY <1>s, <2>3
    <3>3. cut'[p] = c /\ UNCHANGED snap
      BY <1>s, <1>4, <2>3, <3>0 DEF HeadsUnmoved, journal
    <3> QED
      BY <1>c, <3>1, <3>2, <3>3
  <2> QED
    BY <1>4, <2>1, <2>2, <2>3 DEF HeadsUnmoved
<1>5. ASSUME NEW answered \in BOOLEAN, PutSnapshot(p, answered) PROVE Local(p)'
  <2>1. CASE pc' = [pc EXCEPT ![p] = "delete"] /\ UNCHANGED cut
    <3>1. cut[p].doc.gen = snap.gen /\ snap' = NewSnapshot(p) /\ snap.gen \in Nat
      BY <1>s, <1>5 DEF PutSnapshot, Unmoved, Shape, DocShape
    <3>2. snap'.gen = snap.gen + 1 /\ snap'.wm = Watermarks(cut[p])
      BY <3>1 DEF NewSnapshot, Fold
    <3>3. Watermarks(cut[p]) \in Seqs
      BY <1>s, FoldTypes
    <3>4. Covered(p)'
      BY <2>1, <3>2, <3>3 DEF Covered, Seqs, Watermarks, Effective
    <3>5. DocKnown(cut[p])'
      BY <2>1, <3>1, <3>2 DEF DocKnown
    <3>6. pc'[p] = "delete" /\ cut'[p] = cut[p]
      BY <1>s, <2>1
    <3> QED
      BY <1>d, <3>4, <3>5, <3>6
  <2>2. CASE SnapshotMoved(p)
    BY <2>2, FinishLocal, BulkRetryLocal DEF SnapshotMoved
  <2> QED
    BY <1>5, <2>1, <2>2 DEF PutSnapshot
<1>6. CASE PutRefused(p)
  BY <1>6, FinishLocal, BulkRetryLocal DEF PutRefused, SnapshotMoved
<1>7. ASSUME NEW e \in objects, Delete(p, e) PROVE Local(p)'
  <2>1. cut'[p] = [cut[p] EXCEPT !.listed = @ \ {e}] /\ pc'[p] = "delete" /\ pc[p] = "delete"
        /\ UNCHANGED snap
    BY <1>s, <1>7 DEF Delete
  <2>2. cut'[p].doc = cut[p].doc /\ cut'[p].heads = cut[p].heads /\ cut'[p].read = cut[p].read
        /\ cut'[p].began = cut[p].began
    BY <1>s, <2>1 DEF CutShape
  <2>3. Watermarks(cut'[p]) = Watermarks(cut[p])
    BY <2>2 DEF Watermarks, Effective
  <2>4. Covered(p)'
    <3>1. \A i \in Items : Watermarks(cut[p])[i] <= snap.wm[i]
      BY <1>s, <2>1 DEF Local, Covered
    <3> QED
      BY <2>1, <2>2, <3>1 DEF Covered, Watermarks, Effective
  <2>5. DocKnown(cut[p])'
    BY <1>k, <2>1, <2>2 DEF DocKnown
  <2> QED
    BY <1>d, <2>1, <2>2, <2>4, <2>5
<1>8. CASE DeleteDone(p)
  BY <1>8, FinishLocal DEF DeleteDone
<1> QED
  BY <1>1, <1>2, <1>3, <1>4, <1>5, <1>6, <1>7, <1>8 DEF Folding

LEMMA WritingLocal ==
  ASSUME JournalInv, Shape', Forward, UNCHANGED setup, NEW p \in Procs, Writing(p)
  PROVE  Local(p)'
<1>s. Shape /\ Local(p) /\ CutShape(cut[p]) /\ DOMAIN cut = Procs /\ DOMAIN pc = Procs
      /\ DOMAIN op = Procs
  BY DEF JournalInv, Shape
<1>1. ASSUME NEW i \in Items, StartWrite(p, i) PROVE Local(p)'
  <2>1. pc'[p] = "entry" /\ cut'[p] = cut[p] /\ UNCHANGED <<head, snap>> /\ pc[p] = "idle"
    BY <1>s, <1>1 DEF StartWrite, journal
  <2>2. op'[p].items = {i} /\ op'[p].expect = view[p][i] /\ op'[p].seq = view[p][i] + 1
    BY <1>s, <1>1 DEF StartWrite, FreshOp
  <2>3. view[p][i] \in Nat
    BY <1>s DEF Shape, Seqs
  <2>4. Idle(p)' /\ Based(p)' /\ Stored(p)' /\ Covered(p)' /\ Finding(cut[p], pc[p])'
    BY <1>s, <2>1, <2>2, <2>3 DEF Local, Idle, Based, Stored, Covered, Finding
  <2>5. DocKnown(cut[p])' /\ HeadsKnown(cut[p])'
    BY <1>s, <2>1 DEF Local, DocKnown, HeadsKnown
  <2> QED
    BY <2>4, <2>5 DEF Local
<1>2. ASSUME NEW i \in Items, NEW answered \in BOOLEAN, PutEntry(p, i, answered) PROVE Local(p)'
  <2>0. UNCHANGED <<head, snap>> /\ pc[p] = "entry" /\ op[p].items = {i}
    <3>1. pc[p] = "entry" /\ i \in op[p].items /\ UNCHANGED <<head, snap>>
      BY <1>2 DEF PutEntry
    <3>2. \E j \in Items : op[p].items = {j}
      BY <1>s, <3>1 DEF Local, Based
    <3> QED
      BY <3>1, <3>2
  <2>1. CASE pc' = [pc EXCEPT ![p] = "commit"] /\ UNCHANGED <<op, cut>>
    <3>1. pc'[p] = "commit" /\ cut'[p] = cut[p] /\ op'[p] = op[p]
      BY <1>s, <2>1
    <3>2. EntryOf(p, i)' \in objects'
      BY <1>2, <2>1 DEF PutEntry, EntryOf
    <3>3. Stored(p)'
      BY <2>0, <3>1, <3>2 DEF Stored
    <3>4. Idle(p)' /\ Based(p)' /\ Covered(p)' /\ Finding(cut[p], pc[p])'
      BY <1>s, <2>0, <3>1 DEF Local, Idle, Based, Covered, Finding
    <3>5. DocKnown(cut[p])' /\ HeadsKnown(cut[p])'
      BY <1>s, <2>0, <3>1 DEF Local, DocKnown, HeadsKnown
    <3> QED
      BY <3>3, <3>4, <3>5 DEF Local
  <2>2. CASE op' = [op EXCEPT ![p].nonce = @ + 1] /\ UNCHANGED <<pc, cut>>
    <3>1. pc'[p] = "entry" /\ cut'[p] = cut[p] /\ op'[p].items = op[p].items
          /\ op'[p].expect = op[p].expect /\ op'[p].seq = op[p].seq
      BY <1>s, <2>0, <2>2 DEF Shape, OpType
    <3>2. Idle(p)' /\ Based(p)' /\ Stored(p)' /\ Covered(p)' /\ Finding(cut[p], pc[p])'
      BY <1>s, <2>0, <3>1 DEF Local, Idle, Based, Stored, Covered, Finding
    <3>3. DocKnown(cut[p])' /\ HeadsKnown(cut[p])'
      BY <1>s, <2>0, <3>1 DEF Local, DocKnown, HeadsKnown
    <3> QED
      BY <3>2, <3>3 DEF Local
  <2>3. CASE Finish(p)
    BY <2>3, FinishLocal
  <2> QED
    BY <1>2, <2>1, <2>2, <2>3 DEF PutEntry
<1>3. ASSUME NEW i \in Items, NEW answered \in BOOLEAN, Commit(p, i, answered) PROVE Local(p)'
  <2>1. CASE Record(p, i)
    BY <2>1, FinishLocal DEF Record
  <2>2. CASE UNCHANGED <<view, pc, op, cut>>
    BY <2>2, LocalKept
  <2> QED
    BY <1>3, <2>1, <2>2 DEF Commit
<1>4. ASSUME NEW i \in Items, CommitRefused(p, i) PROVE Local(p)'
  <2>0. UNCHANGED <<head, snap>> /\ pc[p] = "commit"
    BY <1>4 DEF CommitRefused, journal
  <2>1. CASE Finish(p) \/ Record(p, i)
    BY <2>1, FinishLocal DEF Record
  <2>2. CASE /\ op' = [op EXCEPT ![p].expect = head[i].seq, ![p].tries = @ + 1,
                            ![p].seq = Larger(head[i].seq, op[p].known) + 1, ![p].nonce = 0]
             /\ pc' = [pc EXCEPT ![p] = "entry"]
             /\ UNCHANGED cut
    <3>0. op[p] \in OpType /\ head[i].seq \in Nat /\ op[p].known \in Nat
      BY <1>s DEF Shape, OpType, Entry
    <3>1. pc'[p] = "entry" /\ cut'[p] = cut[p]
      BY <1>s, <2>2
    <3>2. op'[p].items = op[p].items /\ op'[p].expect = head[i].seq
          /\ op'[p].seq = Larger(head[i].seq, op[p].known) + 1
      BY <1>s, <2>2, <3>0 DEF OpType
    <3>3. head[i].seq < Larger(head[i].seq, op[p].known) + 1
      BY <3>0 DEF Larger
    <3>4. Idle(p)' /\ Based(p)' /\ Stored(p)' /\ Covered(p)' /\ Finding(cut[p], pc[p])'
      BY <1>s, <2>0, <3>1, <3>2, <3>3 DEF Local, Idle, Based, Stored, Covered, Finding
    <3>5. DocKnown(cut[p])' /\ HeadsKnown(cut[p])'
      BY <1>s, <2>0, <3>1 DEF Local, DocKnown, HeadsKnown
    <3> QED
      BY <3>4, <3>5 DEF Local
  <2> QED
    BY <1>4, <2>1, <2>2 DEF CommitRefused
<1> QED
  BY <1>1, <1>2, <1>3, <1>4 DEF Writing

\* What a fold has marked as folded, heads have passed.
LEMMA FoldBehind ==
  ASSUME NEW c, HeadsKnown(c), DocKnown(c), c.doc.gen = snap.gen, WmBehind, NEW i \in Items
  PROVE  Watermarks(c)[i] <= head[i].seq
  BY DEF HeadsKnown, DocKnown, WmBehind, Watermarks

\* Only a commit moves a head, and it stores its entry first.
LEMMA HeadMoved ==
  ASSUME JournalInv, NEW p \in Procs, Step(p), NEW i \in Items, head'[i] # head[i]
  PROVE  /\ \E answered \in BOOLEAN : Commit(p, i, answered)
         /\ head'[i] = EntryOf(p, i) /\ head[i].seq < op[p].seq
         /\ UNCHANGED <<snap, objects>>
<1> USE DEF journal, locks, views
<1>s. Shape /\ Local(p)
  BY DEF JournalInv
<1>1. ~(Reading(p) \/ Folding(p) \/ TakeLease(p) \/ EndRun(p))
  BY DEF Reading, StartCut, GetSnapshot, ListEntries, ReadHead, GetEntries, CheckEtag, InstallView,
         Folding, FoldCut, StartBulk, BulkCut, HeadsUnmoved, PutSnapshot, PutRefused, Delete,
         DeleteDone, TakeLease, EndRun
<1>2. PICK j \in Items, answered \in BOOLEAN : Commit(p, j, answered)
  BY <1>1 DEF Step, Writing, StartWrite, PutEntry, CommitRefused
<1>3. head' = [head EXCEPT ![j] = EntryOf(p, j)] /\ UNCHANGED <<snap, objects>>
  BY <1>2 DEF Commit
<1>4. j = i
  BY <1>3
<1>5. head'[i] = EntryOf(p, i)
  BY <1>s, <1>3, <1>4 DEF Shape
<1>6. head[i].seq \in Nat /\ op[p].expect \in Nat /\ op[p].seq \in Nat
  BY <1>s DEF Shape, Entry, OpType
<1>7. head[i].seq < op[p].seq
  BY <1>s, <1>2, <1>4, <1>6 DEF Commit, CommitHolds, Local, Based
<1> QED
  BY <1>2, <1>3, <1>4, <1>5, <1>7

\* Only a swap replaces the snapshot.
LEMMA SnapMoved ==
  ASSUME JournalInv, NEW p \in Procs, Step(p), snap' # snap
  PROVE  /\ \E answered \in BOOLEAN : PutSnapshot(p, answered)
         /\ cut[p].doc = snap /\ snap' = NewSnapshot(p) /\ snap'.wm = Watermarks(cut[p])
         /\ UNCHANGED <<head, objects>>
<1> USE DEF journal, locks, views
<1>1. PICK answered \in BOOLEAN : PutSnapshot(p, answered)
  BY DEF Step, Reading, StartCut, GetSnapshot, ListEntries, ReadHead, GetEntries, CheckEtag,
         InstallView, Folding, FoldCut, StartBulk, BulkCut, HeadsUnmoved, PutRefused, Delete,
         DeleteDone, Writing, StartWrite, PutEntry, Commit, CommitRefused, TakeLease, EndRun
<1>2. cut[p].doc = snap
  BY <1>1 DEF JournalInv, Local, DocKnown, PutSnapshot, Unmoved
<1>3. NewSnapshot(p).wm = Watermarks(cut[p])
  BY DEF NewSnapshot, Fold
<1> QED
  BY <1>1, <1>2, <1>3 DEF PutSnapshot

LEMMA StepInv == ASSUME JournalInv, NEW p \in Procs, Step(p), UNCHANGED setup PROVE JournalInv'
<1>s. Shape /\ Local(p) /\ Shape' /\ Forward
  BY StepShape, StepForward DEF JournalInv
<1>t. /\ \A i \in Items : /\ head[i].seq \in Nat /\ head'[i].seq \in Nat
                          /\ snap.wm[i] \in Nat /\ snap'.wm[i] \in Nat
  <2>1. \A i \in Items : head[i].seq \in Nat /\ snap.wm[i] \in Nat
    BY <1>s DEF Shape, DocShape, Seqs, Entry
  <2>2. \A i \in Items : head'[i].seq \in Nat /\ snap'.wm[i] \in Nat
    BY <1>s DEF Shape, DocShape, Seqs, Entry
  <2> QED
    BY <2>1, <2>2
<1>1. \A q \in Procs : Local(q)'
  <2>1. Local(p)'
    <3>1. CASE TakeLease(p)
      BY <1>s, <3>1, LocalKept DEF TakeLease
    <3>2. CASE EndRun(p)
      BY <1>s, <3>2, FinishLocal DEF EndRun
    <3> QED
      BY <1>s, <3>1, <3>2, ReadingLocal, FoldingLocal, WritingLocal DEF Step
  <2>2. ASSUME NEW q \in Procs, q # p PROVE Local(q)'
    BY <1>s, <2>2, Others, LocalKept
  <2> QED
    BY <2>1, <2>2
<1>2. Genesis'
  BY <1>s, GenesisKept
<1>3. Named'
  <2> SUFFICES ASSUME NEW i \in Items PROVE head'[i].item = i
    BY DEF Named
  <2>1. EntryOf(p, i).item = i
    BY DEF EntryOf
  <2> QED
    BY <2>1, HeadMoved DEF JournalInv, Named
<1>4. WmBehind'
  <2> SUFFICES ASSUME NEW i \in Items PROVE snap'.wm[i] <= head'[i].seq
    BY DEF WmBehind
  <2>1. CASE snap' = snap
    BY <1>s, <1>t, <2>1 DEF Forward, JournalInv, WmBehind
  <2>2. CASE snap' # snap
    <3>1. snap'.wm = Watermarks(cut[p]) /\ UNCHANGED head /\ cut[p].doc = snap
      BY <2>2, SnapMoved
    <3>2. PICK c : c = cut[p]
      OBVIOUS
    <3>3. HeadsKnown(c) /\ DocKnown(c) /\ c.doc.gen = snap.gen
      BY <1>s, <3>1, <3>2 DEF Local
    <3>4. Watermarks(c)[i] <= head[i].seq
      BY <3>3, FoldBehind DEF JournalInv
    <3> QED
      BY <3>1, <3>2, <3>4
  <2> QED
    BY <2>1, <2>2
<1>5. EntryKept'
  <2> SUFFICES ASSUME NEW i \in Items, head'[i].seq > snap'.wm[i] PROVE head'[i] \in objects'
    BY DEF EntryKept
  <2>1. CASE head'[i] = head[i]
    <3>1. head[i].seq > snap.wm[i]
      BY <1>s, <1>t, <2>1 DEF Forward
    <3>2. head[i] \in objects /\ head[i].item = i
      BY <3>1 DEF JournalInv, EntryKept, Named
    <3>3. ~(head[i].seq <= snap.wm[i])
      BY <1>t, <3>1
    <3> QED
      BY <1>s, <2>1, <3>2, <3>3 DEF Forward
  <2>2. CASE head'[i] # head[i]
    <3>1. PICK answered \in BOOLEAN : Commit(p, i, answered)
      BY <2>2, HeadMoved
    <3>2. head'[i] = EntryOf(p, i) /\ UNCHANGED <<snap, objects>>
      BY <2>2, HeadMoved
    <3>3. EntryOf(p, i).seq = op[p].seq /\ pc[p] = "commit" /\ i \in op[p].items
      BY <3>1 DEF EntryOf, Commit
    <3>4. EntryOf(p, i) \in objects \/ op[p].seq <= snap.wm[i]
      BY <1>s, <3>3 DEF Local, Stored
    <3> QED
      BY <1>t, <3>2, <3>3, <3>4
  <2> QED
    BY <2>1, <2>2
<1> QED
  BY <1>s, <1>1, <1>2, <1>3, <1>4, <1>5 DEF JournalInv

LEMMA StutterInv == ASSUME JournalInv, UNCHANGED vars PROVE JournalInv'
  BY DEF vars, journal, locks, views, JournalInv, Shape, Local, Idle, Based, DocKnown, HeadsKnown,
         Finding, Listed, Missing, Stored, Covered, Watermarks, Effective, EntryOf, Pages, Genesis,
         Named, WmBehind, EntryKept

LEMMA Invariance == Spec => []JournalInv
<1>1. JournalInv /\ [Next]_vars => JournalInv'
  <2> SUFFICES ASSUME JournalInv, [Next]_vars PROVE JournalInv'
    OBVIOUS
  <2>1. CASE Next
    BY <2>1, StepInv DEF Next
  <2>2. CASE UNCHANGED vars
    BY <2>2, StutterInv
  <2> QED
    BY <2>1, <2>2
<1> QED
  BY <1>1, InitInv, PTL DEF Spec

(***************************************************************************)
(* The entries, the commits and the views.                                 *)
(***************************************************************************)
\* No committed entry past the snapshot is ever collected (maintenance.py, _delete over
\* Cut.garbage), whatever reads, folds and retries are under way.
THEOREM EntriesAreKept == Spec => []EntryKept
<1>1. JournalInv => EntryKept
  BY DEF JournalInv
<1> QED
  BY <1>1, Invariance, PTL

\* A commit is visible the moment its head moves (writes.py, commit), as no snapshot has
\* marked as folded what it has not seen.
THEOREM CommitsAreVisible == Spec => CommitVisible
<1> DEFINE Shows == \A i \in Items : head'[i] # head[i] => Visible'[i] = head'[i].val
<1>1. JournalInv /\ [Next]_vars => [Shows]_vars
  <2> SUFFICES ASSUME JournalInv, Next, NEW i \in Items, head'[i] # head[i]
               PROVE  Visible'[i] = head'[i].val
    OBVIOUS
  <2>1. PICK p \in Procs : Step(p)
    BY DEF Next
  <2>2. head'[i] = EntryOf(p, i) /\ head[i].seq < op[p].seq /\ UNCHANGED snap
    BY <2>1, HeadMoved
  <2>3. EntryOf(p, i).seq = op[p].seq
    BY DEF EntryOf
  <2>4. snap.wm[i] <= head[i].seq /\ snap.wm[i] \in Nat /\ head[i].seq \in Nat /\ op[p].seq \in Nat
    BY DEF JournalInv, WmBehind, Shape, DocShape, Seqs, Entry, OpType
  <2>5. head'[i].seq > snap'.wm[i]
    BY <2>2, <2>3, <2>4
  <2> QED
    BY <2>5 DEF Visible
<1> QED
  BY <1>1, Invariance, PTL DEF Spec, CommitVisible

\* What a complete read returns has everything committed before it began.
LEMMA ReadWhole ==
  ASSUME NEW c, CutShape(c), HeadsKnown(c), Missing(c) \subseteq c.read \cup c.unread,
         c.unread = {}, NEW i \in Items
  PROVE  NewestSeqs(c)[i] >= c.began[i]
<1>1. c.heads[i].seq \in Nat /\ c.doc.wm[i] \in Nat /\ c.began[i] \in Nat
  BY DEF CutShape, DocShape, Seqs, Entry
<1>2. CASE i \in c.read
  <2>1. c.began[i] <= c.heads[i].seq
    BY <1>2 DEF HeadsKnown
  <2>2. NewestSeqs(c)[i] = Larger(c.heads[i].seq, c.doc.wm[i])
    BY <1>2 DEF NewestSeqs
  <2> QED
    BY <1>1, <2>1, <2>2 DEF Larger
<1>3. CASE i \notin c.read
  <2>1. c.began[i] <= c.doc.wm[i]
    BY <1>1, <1>3 DEF Missing
  <2> QED
    BY <1>1, <1>3, <2>1 DEF NewestSeqs
<1> QED
  BY <1>2, <1>3

\* What a read installs as a view, and what it knows of the read.
LEMMA Installed ==
  ASSUME JournalInv, NEW p \in Procs, InstallView(p)
  PROVE  /\ view'[p] = NewestSeqs(cut[p]) /\ since'[p] = cut[p].began
         /\ \A i \in Items : NewestSeqs(cut[p])[i] >= cut[p].began[i]
<1>1. view'[p] = NewestSeqs(cut[p]) /\ since'[p] = cut[p].began
  BY DEF InstallView, JournalInv, Shape
<1>2. PICK c : c = cut[p]
  OBVIOUS
<1>3. CutShape(c) /\ HeadsKnown(c) /\ Missing(c) \subseteq c.read \cup c.unread /\ c.unread = {}
  BY <1>2 DEF InstallView, Unmoved, JournalInv, Shape, Local, Finding
<1>4. \A i \in Items : NewestSeqs(c)[i] >= c.began[i]
  BY <1>3, ReadWhole
<1> QED
  BY <1>1, <1>2, <1>4

\* Views come from reads and grow by the process's own commits only.
LEMMA ViewMoved ==
  ASSUME Shape, NEW p \in Procs, Step(p)
  PROVE  \/ InstallView(p)
         \/ /\ viewed'[p] => viewed[p]
            /\ since'[p] = since[p]
            /\ \/ view'[p] = view[p]
               \/ \E i \in Items : pc[p] = "commit" /\ i \in op[p].items /\ Record(p, i)
<1> USE DEF Shape, journal, locks, views
<1>1. CASE Reading(p)
  BY <1>1 DEF Reading, StartCut, GetSnapshot, ListEntries, ReadHead, GetEntries, CheckEtag
<1>2. CASE Folding(p)
  BY <1>2 DEF Folding, FoldCut, StartBulk, BulkCut, HeadsUnmoved, PutSnapshot, PutRefused, Delete,
              DeleteDone
<1>3. CASE Writing(p)
  BY <1>3 DEF Writing, StartWrite, PutEntry, Commit, CommitRefused
<1>4. CASE TakeLease(p) \/ EndRun(p)
  BY <1>4 DEF TakeLease, EndRun
<1> QED
  BY <1>1, <1>2, <1>3, <1>4 DEF Step

\* A commit is recorded in the view.
LEMMA Recorded ==
  ASSUME Shape, NEW p \in Procs, NEW i \in Items, Record(p, i)
  PROVE  /\ view'[p][i] >= op[p].seq /\ \A j \in Items : view'[p][j] >= view[p][j]
         /\ pc'[p] = "idle"
<1>1. view[p] \in [Items -> Nat] /\ op[p].seq \in Nat
  BY DEF Shape, Seqs, OpType
<1>2. view'[p] = [view[p] EXCEPT ![i] = Larger(view[p][i], op[p].seq)] /\ pc'[p] = "idle"
  BY DEF Record, Finish, Shape
<1> QED
  BY <1>1, <1>2 DEF Larger

\* A view has whatever was committed before its read began (view.py, ViewCache.ensure),
\* although folds may have moved it to the snapshot and deleted it meanwhile.
THEOREM ReadsAreFresh == Spec => []ReadFresh
<1>1. Init => ReadFresh
  BY DEF Init, ReadFresh
<1>2. ASSUME JournalInv, ReadFresh, NEW p \in Procs, Step(p), UNCHANGED setup PROVE ReadFresh'
  <2> SUFFICES ASSUME NEW q \in Procs, viewed'[q], NEW i \in Items
               PROVE  view'[q][i] >= since'[q][i]
    BY DEF ReadFresh
  <2>s. Shape /\ view[q][i] \in Nat /\ since[q][i] \in Nat
    BY <1>2 DEF JournalInv, Shape, Seqs
  <2>1. CASE q # p
    BY <1>2, <2>s, <2>1, Others DEF ReadFresh
  <2>2. CASE q = p
    <3>1. CASE InstallView(p)
      BY <1>2, <2>2, <3>1, Installed
    <3>2. CASE viewed[p] /\ since'[p] = since[p] /\ view'[p] = view[p]
      BY <1>2, <2>2, <3>2 DEF ReadFresh
    <3>3. ASSUME viewed[p], since'[p] = since[p], NEW j \in Items, Record(p, j)
          PROVE  view'[q][i] >= since'[q][i]
      <4>1. view[p][i] >= since[p][i]
        BY <1>2, <3>3 DEF ReadFresh
      <4>2. view'[p][i] >= view[p][i] /\ view'[p][i] \in Nat
        <5>1. view'[p][i] \in Nat
          BY <1>2, StepShape DEF JournalInv, Shape, Seqs
        <5> QED
          BY <2>s, <3>3, <5>1, Recorded
      <4> QED
        BY <2>s, <2>2, <3>3, <4>1, <4>2
    <3> QED
      BY <1>2, <2>s, <2>2, <3>1, <3>2, <3>3, ViewMoved
  <2> QED
    BY <2>1, <2>2
<1>3. JournalInv /\ ReadFresh /\ [Next]_vars => ReadFresh'
  <2> SUFFICES ASSUME JournalInv, ReadFresh, [Next]_vars PROVE ReadFresh'
    OBVIOUS
  <2>1. CASE Next
    BY <1>2, <2>1 DEF Next
  <2>2. CASE UNCHANGED vars
    BY <2>2 DEF vars, views, ReadFresh
  <2> QED
    BY <2>1, <2>2
<1> QED
  BY <1>1, <1>3, Invariance, PTL DEF Spec

(***************************************************************************)
(* The journal implements the abstract store.                              *)
(***************************************************************************)
\* The write a process is making.
Making(p) == [items |-> op[p].items, val |-> op[p].val]

\* A fold takes over the values of the cut it read, which no commit has changed
\* unless it also moved the head past what was folded.
LEMMA FoldKeepsVisible ==
  ASSUME NEW c, CutShape(c), HeadsKnown(c), c.doc = snap, WmBehind, Shape, NEW i \in Items
  PROVE  Visible[i] = IF head[i].seq > Watermarks(c)[i] THEN head[i].val ELSE Nodes(c)[i]
<1>1. c.heads[i].seq \in Nat /\ head[i].seq \in Nat /\ snap.wm[i] \in Nat
  BY DEF CutShape, Shape, DocShape, Seqs, Entry
<1>2. Visible[i] = IF head[i].seq > snap.wm[i] THEN head[i].val ELSE snap.val[i]
  BY DEF Visible
<1>3. CASE i \in Effective(c)
  <2>1. c.heads[i].seq > snap.wm[i] /\ i \in c.read
    BY <1>3 DEF Effective
  <2>2. c.heads[i].seq <= head[i].seq /\ (c.heads[i].seq = head[i].seq => c.heads[i] = head[i])
    BY <2>1 DEF HeadsKnown
  <2>3. Watermarks(c)[i] = c.heads[i].seq /\ Nodes(c)[i] = c.heads[i].val
    BY <1>3 DEF Watermarks, Nodes
  <2> QED
    BY <1>1, <1>2, <2>1, <2>2, <2>3
<1>4. CASE i \notin Effective(c)
  BY <1>2, <1>4 DEF Watermarks, Nodes
<1> QED
  BY <1>3, <1>4

LEMMA VisibleMoved ==
  ASSUME JournalInv, NEW p \in Procs, Step(p), UNCHANGED setup
  PROVE  \E S \in SUBSET op[p].items :
           Visible' = [i \in Items |-> IF i \in S THEN op[p].val ELSE Visible[i]]
<1>1. CASE snap' = snap /\ head' = head
  <2>1. Visible' = [i \in Items |-> IF i \in {} THEN op[p].val ELSE Visible[i]]
    BY <1>1 DEF Visible
  <2> WITNESS {} \in SUBSET op[p].items
  <2> QED
    BY <2>1
<1>2. CASE snap' # snap
  <2>1. snap' = NewSnapshot(p) /\ snap'.wm = Watermarks(cut[p]) /\ UNCHANGED head /\ cut[p].doc = snap
    BY <1>2, SnapMoved
  <2>2. PICK c : c = cut[p]
    OBVIOUS
  <2>3. \A i \in Items : Visible[i] = IF head[i].seq > Watermarks(c)[i] THEN head[i].val ELSE Nodes(c)[i]
    <3>1. CutShape(c) /\ HeadsKnown(c) /\ c.doc = snap
      BY <2>1, <2>2 DEF JournalInv, Local, Shape
    <3> QED
      BY <3>1, FoldKeepsVisible DEF JournalInv
  <2>4. Visible' = [i \in Items |-> IF head[i].seq > Watermarks(c)[i] THEN head[i].val ELSE snap'.val[i]]
    BY <2>1, <2>2 DEF Visible
  <2>5. CASE goal[p] = "compact"
    <3>1. snap'.val = Nodes(c)
      BY <2>1, <2>2, <2>5 DEF NewSnapshot, Fold
    <3>2. Visible' = [i \in Items |-> IF i \in {} THEN op[p].val ELSE Visible[i]]
      BY <2>3, <2>4, <3>1
    <3> WITNESS {} \in SUBSET op[p].items
    <3> QED
      BY <3>2
  <2>6. CASE goal[p] # "compact"
    <3>1. snap'.val = [i \in Items |-> IF i \in op[p].items THEN op[p].val ELSE Nodes(c)[i]]
      BY <2>1, <2>2, <2>6 DEF NewSnapshot, Fold
    <3> DEFINE S == {i \in op[p].items : i \in Items /\ ~(head[i].seq > Watermarks(c)[i])}
    <3>2. Visible' = [i \in Items |-> IF i \in S THEN op[p].val ELSE Visible[i]]
      BY <2>3, <2>4, <3>1
    <3>3. S \in SUBSET op[p].items
      OBVIOUS
    <3> QED
      BY <3>2, <3>3
  <2> QED
    BY <2>5, <2>6
<1>3. CASE snap' = snap /\ head' # head
  <2>1. head \in [Items -> Entry] /\ head' \in [Items -> Entry]
    BY StepShape DEF JournalInv, Shape
  <2>2. PICK i \in Items : head'[i] # head[i]
    BY <1>3, <2>1
  <2>3. PICK answered \in BOOLEAN : Commit(p, i, answered)
    BY <2>2, HeadMoved
  <2>4. head' = [head EXCEPT ![i] = EntryOf(p, i)] /\ i \in op[p].items /\ EntryOf(p, i).val = op[p].val
        /\ EntryOf(p, i).seq = op[p].seq /\ head[i].seq < op[p].seq
    BY <2>2, <2>3, HeadMoved DEF Commit, EntryOf
  <2>5. snap.wm[i] <= head[i].seq /\ snap.wm[i] \in Nat /\ head[i].seq \in Nat /\ op[p].seq \in Nat
    BY DEF JournalInv, WmBehind, Shape, DocShape, Seqs, Entry, OpType
  <2>6. op[p].seq > snap.wm[i]
    BY <2>4, <2>5
  <2>7. Visible' = [j \in Items |-> IF j \in {i} THEN op[p].val ELSE Visible[j]]
    BY <1>3, <2>1, <2>4, <2>6 DEF Visible
  <2> QED
    BY <2>4, <2>7
<1> QED
  BY <1>1, <1>2, <1>3

\* A write is made from its call to its return.
LEMMA MakingMoved ==
  ASSUME JournalInv, NEW p \in Procs, Step(p)
  PROVE  \/ Making(p)' = Making(p)
         \/ op'[p].items = {}
         \/ op[p].items = {}
<1> USE DEF Making, journal, locks, views
<1>s. op \in [Procs -> OpType] /\ FreshOp.items = {}
  BY DEF JournalInv, Shape, FreshOp
<1>f. Finish(p) => op'[p].items = {}
  BY <1>s DEF Finish
<1>1. CASE Reading(p)
  BY <1>s, <1>f, <1>1 DEF Reading, StartCut, GetSnapshot, ListEntries, ReadHead, GetEntries, CheckEtag,
                          InstallView, Restart
<1>r. BulkRetry(p) => Making(p)' = Making(p) \/ op'[p].items = {}
  BY <1>s, <1>f DEF BulkRetry, OpType
<1>2. CASE Folding(p)
  <2>1. ASSUME NEW S \in SUBSET Items, StartBulk(p, S) PROVE op[p].items = {}
    BY <2>1 DEF StartBulk, JournalInv, Local, Idle
  <2> QED
    BY <1>s, <1>f, <1>r, <1>2, <2>1
    DEF Folding, FoldCut, BulkCut, HeadsUnmoved, PutSnapshot, PutRefused, SnapshotMoved, Delete, DeleteDone
<1>3. CASE Writing(p)
  <2>1. ASSUME NEW i \in Items, StartWrite(p, i) PROVE op[p].items = {}
    BY <2>1 DEF StartWrite, JournalInv, Local, Idle
  <2>2. ASSUME NEW i \in Items, NEW answered \in BOOLEAN, PutEntry(p, i, answered)
        PROVE Making(p)' = Making(p) \/ op'[p].items = {}
    BY <1>s, <1>f, <2>2 DEF PutEntry, OpType
  <2>3. ASSUME NEW i \in Items, NEW answered \in BOOLEAN, Commit(p, i, answered)
        PROVE Making(p)' = Making(p) \/ op'[p].items = {}
    BY <1>s, <1>f, <2>3 DEF Commit, Record
  <2>4. ASSUME NEW i \in Items, CommitRefused(p, i)
        PROVE Making(p)' = Making(p) \/ op'[p].items = {}
    BY <1>s, <1>f, <2>4 DEF CommitRefused, Record, OpType
  <2> QED
    BY <1>3, <2>1, <2>2, <2>3, <2>4 DEF Writing
<1>4. CASE TakeLease(p) \/ EndRun(p)
  BY <1>f, <1>4 DEF TakeLease, EndRun
<1> QED
  BY <1>1, <1>2, <1>3, <1>4 DEF Step

LEMMA OpenMoved ==
  ASSUME JournalInv, NEW p \in Procs, Step(p)
  PROVE  /\ Making(p)' = Making(p) => OpenWrites' = OpenWrites
         /\ op'[p].items = {} => /\ op[p].items = {} => OpenWrites' = OpenWrites
                                 /\ OpenWrites' \in {OpenWrites, OpenWrites \ {Making(p)}}
         /\ op[p].items = {} /\ op'[p].items # {} => OpenWrites' = OpenWrites \cup {Making(p)'}
<1>1. OpenWrites = {Making(q) : q \in {r \in Procs : op[r].items # {}}}
  BY DEF OpenWrites, Making
<1>2. OpenWrites' = {Making(q)' : q \in {r \in Procs : op'[r].items # {}}}
  BY DEF OpenWrites, Making
<1>3. \A q \in Procs : q # p => op'[q].items = op[q].items /\ Making(q)' = Making(q)
  BY Others DEF Making, JournalInv
<1>4. ASSUME Making(p)' = Making(p) PROVE OpenWrites' = OpenWrites
  <2>1. op'[p].items = op[p].items
    BY <1>4 DEF Making
  <2> QED
    BY <1>1, <1>2, <1>3, <1>4, <2>1
<1>5. ASSUME op'[p].items = {}
      PROVE  /\ op[p].items = {} => OpenWrites' = OpenWrites
             /\ OpenWrites' \in {OpenWrites, OpenWrites \ {Making(p)}}
  <2>1. OpenWrites' = {Making(q) : q \in {r \in Procs \ {p} : op[r].items # {}}}
    BY <1>2, <1>3, <1>5
  <2> QED
    BY <1>1, <2>1
<1>6. ASSUME op[p].items = {}, op'[p].items # {}
      PROVE  OpenWrites' = OpenWrites \cup {Making(p)'}
  BY <1>1, <1>2, <1>3, <1>6
<1> QED
  BY <1>4, <1>5, <1>6

\* The journal implements the abstract store (backend.py, StateBackend.put, put_many and
\* the rest): a value changes only when a write still being made lands, whatever folds,
\* deletions, restarts, retries and crashes go on.
THEOREM JournalImplementsStore == Spec => ImplementsStore
<1>1. Init => Store!Init
  <2> SUFFICES ASSUME Init PROVE Store!Init
    OBVIOUS
  <2>1. \A i \in Items : head[i].seq = 0 /\ snap.wm[i] = 0 /\ snap.val[i] = 0
    BY DEF Init, NoEntry, FreshCut, Zero
  <2>2. Visible = [i \in Items |-> 0]
    BY <2>1 DEF Visible
  <2>3. OpenWrites = {}
    BY DEF OpenWrites, Init, FreshOp
  <2> QED
    BY <2>2, <2>3 DEF Store!Init
<1>2. ASSUME JournalInv, NEW p \in Procs, Step(p), UNCHANGED setup
      PROVE  [Store!Next]_<<Visible, OpenWrites>>
  <2>1. PICK S \in SUBSET op[p].items :
           Visible' = [i \in Items |-> IF i \in S THEN op[p].val ELSE Visible[i]]
    BY <1>2, VisibleMoved
  <2>2. ASSUME op[p].items = {} PROVE Visible' = Visible
    BY <2>1, <2>2 DEF Visible
  <2>3. ASSUME op[p].items # {} PROVE Making(p) \in OpenWrites
    BY <2>3 DEF OpenWrites, Making
  <2>4. ASSUME op[p].items # {}, OpenWrites' \in {OpenWrites, OpenWrites \ {Making(p)}}
        PROVE  Store!Next
    <3>1. Making(p).items = op[p].items /\ Making(p).val = op[p].val
      BY DEF Making
    <3>2. Store!Land(Making(p), S)
      BY <2>1, <2>4, <3>1 DEF Store!Land
    <3> QED
      BY <2>3, <2>4, <3>1, <3>2 DEF Store!Next
  <2>5. CASE Making(p)' = Making(p) \/ op'[p].items = {}
    BY <1>2, <2>2, <2>4, <2>5, OpenMoved
  <2>6. CASE op[p].items = {} /\ op'[p].items # {}
    <3>1. Making(p)' \in Store!Write
      BY <1>2, StepShape DEF JournalInv, Shape, OpType, Making, Store!Write
    <3>2. Store!Begin(Making(p)')
      BY <1>2, <2>2, <2>6, OpenMoved DEF Store!Begin
    <3> QED
      BY <3>1, <3>2 DEF Store!Next
  <2> QED
    BY <1>2, <2>5, <2>6, MakingMoved
<1>3. JournalInv /\ [Next]_vars => [Store!Next]_<<Visible, OpenWrites>>
  <2> SUFFICES ASSUME JournalInv, [Next]_vars PROVE [Store!Next]_<<Visible, OpenWrites>>
    OBVIOUS
  <2>1. CASE Next
    BY <1>2, <2>1 DEF Next
  <2>2. CASE UNCHANGED vars
    BY <2>2 DEF vars, journal, Visible, OpenWrites
  <2> QED
    BY <2>1, <2>2
<1> QED
  BY <1>1, <1>3, Invariance, PTL DEF Spec, ImplementsStore, Store!Spec

(***************************************************************************)
(* Leases.                                                                 *)
(***************************************************************************)
\* Where leases are taken, nobody writes a node without one.
OnlyLeased == \A s \in Setups : s.fences > 0 => s.unfenced \cap s.writers = {}

AtRead == {"snap", "list", "heads", "get", "etag"}
Current(p) == lease[p] = counter /\ counter > 0

\* A process writes on a view, and under a lease where leases are taken.
Bound(p) == pc[p] \in {"entry", "commit"} => viewed[p] /\ (lease[p] # 0 \/ setup.fences = 0)

\* As long as its lease is the last one taken, the heads are those a process read when
\* its read began, or in its view, but for a commit of its own it has no answer for.
LeasedRead(p) ==
    Current(p) /\ pc[p] \in AtRead /\ goal[p] = "read" =>
        \A i \in Items : head[i].seq <= cut[p].began[i]
LeasedView(p) ==
    Current(p) /\ viewed[p] =>
        \A i \in Items : \/ head[i].seq <= view[p][i]
                         \/ pc[p] = "commit" /\ i \in op[p].items /\ head[i] = EntryOf(p, i)

\* Every write brings a value of its own.
OwnValue(p) ==
    op[p].items # {} =>
        /\ op[p].val <= writes
        /\ \A q \in Procs \ {p} : op[q].items # {} => op[q].val # op[p].val

LeaseInv ==
    /\ counter <= setup.fences
    /\ \A i \in Items : fence[i] = counter
    /\ \A p \in Procs : lease[p] <= counter
    /\ \A p, q \in Procs : lease[p] = lease[q] /\ lease[p] # 0 => p = q
    /\ \A p \in Procs : Bound(p) /\ LeasedRead(p) /\ LeasedView(p) /\ OwnValue(p)

LEMMA InitLease == Init => LeaseInv
<1> SUFFICES ASSUME Init PROVE LeaseInv
  OBVIOUS
<1>1. counter = 0 /\ setup.fences >= 0 /\ \A i \in Items : fence[i] = 0
  BY SetupsAssumption, BoundsAssumption DEF Init, SetupType, Zero
<1>2. \A p \in Procs : lease[p] = 0 /\ pc[p] = "idle" /\ op[p].items = {}
  BY DEF Init, FreshOp
<1> QED
  BY <1>1, <1>2 DEF LeaseInv, Bound, LeasedRead, LeasedView, OwnValue, Current

\* Under a current lease nobody else commits.
LEMMA OwnCommit ==
  ASSUME Shape, OnlyLeased, LeaseInv, NEW p \in Procs, Current(p), NEW q \in Procs, NEW i \in Items,
         NEW answered \in BOOLEAN, Commit(q, i, answered)
  PROVE  q = p
<1>1. pc[q] = "commit" /\ CommitHolds(q, i)
  BY DEF Commit
<1>2. counter \in Nat /\ setup.fences \in Nat
  BY SetupsAssumption, BoundsAssumption DEF Shape, SetupType
<1>3. lease[q] # 0
  BY <1>1, <1>2 DEF LeaseInv, Bound, Current
<1>4. lease[q] = counter
  BY <1>1, <1>3 DEF CommitHolds, LeaseInv
<1> QED
  BY <1>2, <1>4 DEF LeaseInv, Current

\* The lock table changes only as a lease is taken, or given up by the process that
\* then has no call open.
LEMMA LocksMoved ==
  ASSUME Shape, NEW p \in Procs, Step(p)
  PROVE  \/ UNCHANGED <<fence, counter, lease>>
         \/ /\ counter' = counter + 1 /\ counter < setup.fences /\ fence' = [i \in Items |-> counter']
            /\ lease' = [lease EXCEPT ![p] = counter'] /\ pc'[p] = "idle" /\ ~viewed'[p]
            /\ UNCHANGED <<op, writes>>
         \/ /\ UNCHANGED <<fence, counter, writes>>
            /\ lease' = [lease EXCEPT ![p] = 0] /\ pc'[p] = "idle" /\ ~viewed'[p]
<1> USE DEF Shape, locks
<1>1. CASE Reading(p)
  BY <1>1 DEF Reading, StartCut, GetSnapshot, ListEntries, ReadHead, GetEntries, CheckEtag, InstallView
<1>2. CASE Folding(p)
  BY <1>2 DEF Folding, FoldCut, StartBulk, BulkCut, HeadsUnmoved, PutSnapshot, PutRefused, Delete,
              DeleteDone
<1>3. CASE Writing(p)
  BY <1>3 DEF Writing, StartWrite, PutEntry, Commit, CommitRefused
<1>4. CASE TakeLease(p)
  BY <1>4 DEF TakeLease
<1>5. CASE EndRun(p)
  BY <1>5 DEF EndRun, Finish
<1> QED
  BY <1>1, <1>2, <1>3, <1>4, <1>5 DEF Step

\* Where a process that is reading now has its heads from.
LEMMA BeganMoved ==
  ASSUME JournalInv, NEW p \in Procs, Step(p), pc'[p] \in AtRead, goal'[p] = "read"
  PROVE  /\ head' = head
         /\ \/ cut'[p].began = HeadSeqs
            \/ pc[p] \in AtRead /\ goal[p] = "read" /\ cut'[p].began = cut[p].began
<1> USE DEF AtRead, journal
<1>s. pc \in [Procs -> PCs] /\ goal \in [Procs -> {"read", "compact", "bulk"}] /\ DOMAIN cut = Procs
      /\ CutShape(cut[p])
  BY DEF JournalInv, Shape
<1>f. ~Finish(p)
  BY <1>s DEF Finish
<1>r. BulkRetry(p) => cut'[p].began = HeadSeqs
  BY <1>s, <1>f DEF BulkRetry, FreshCut
<1>1. CASE Reading(p)
  <2>1. ASSUME NEW g \in {"read", "compact"}, StartCut(p, g)
        PROVE head' = head /\ cut'[p].began = HeadSeqs
    BY <1>s, <2>1 DEF StartCut, CutShape
  <2>2. CASE GetSnapshot(p)
    BY <1>s, <2>2 DEF GetSnapshot, FreshCut
  <2>3. CASE ListEntries(p)
    <3> DEFINE c == cut[p]
               seen == (IF c.page = 1 THEN {} ELSE c.listed)
                         \cup {e \in objects : e.item \in Pages[c.page]}
               more == [c EXCEPT !.listed = seen, !.page = c.page + 1]
               all == [c EXCEPT !.listed = seen, !.page = 1, !.lists = c.lists + 1,
                                !.unread = ItemsPastWatermark(c.doc, seen) \ c.read]
    <3>1. cut' = [cut EXCEPT ![p] = more] \/ cut' = [cut EXCEPT ![p] = all]
      BY <2>3 DEF ListEntries
    <3>2. more.began = c.began /\ all.began = c.began
      BY <1>s DEF CutShape
    <3> HIDE DEF more, all
    <3>3. cut'[p].began = cut[p].began
      BY <1>s, <3>1, <3>2
    <3> QED
      BY <2>3, <3>3 DEF ListEntries
  <2>4. ASSUME NEW i \in Items, ReadHead(p, i)
        PROVE head' = head /\ goal[p] = "read" /\ cut'[p].began = cut[p].began /\ pc[p] \in AtRead
    BY <1>s, <2>4 DEF ReadHead, CutShape
  <2>5. CASE GetEntries(p) \/ CheckEtag(p)
    BY <1>s, <1>f, <2>5 DEF GetEntries, CheckEtag, Restart, CutShape
  <2>6. CASE InstallView(p)
    BY <1>f, <2>6 DEF InstallView
  <2> QED
    BY <1>1, <2>1, <2>2, <2>3, <2>4, <2>5, <2>6 DEF Reading
<1>2. CASE Folding(p)
  <2>1. ASSUME NEW S \in SUBSET Items, StartBulk(p, S) PROVE FALSE
    BY <1>s, <2>1 DEF StartBulk
  <2>2. CASE FoldCut(p) \/ BulkCut(p)
    BY <1>s, <1>f, <2>2 DEF FoldCut, BulkCut
  <2>3. ASSUME NEW i \in Items, HeadsUnmoved(p, i) PROVE head' = head /\ cut'[p].began = HeadSeqs
    BY <1>s, <1>f, <1>r, <2>3 DEF HeadsUnmoved
  <2>4. ASSUME NEW answered \in BOOLEAN, PutSnapshot(p, answered)
        PROVE head' = head /\ cut'[p].began = HeadSeqs
    BY <1>s, <1>f, <1>r, <2>4 DEF PutSnapshot, SnapshotMoved
  <2>5. CASE PutRefused(p)
    BY <1>s, <1>f, <1>r, <2>5 DEF PutRefused, SnapshotMoved
  <2>6. ASSUME NEW e \in objects, Delete(p, e) PROVE FALSE
    BY <1>s, <2>6 DEF Delete
  <2>7. CASE DeleteDone(p)
    BY <1>f, <2>7 DEF DeleteDone
  <2> QED
    BY <1>2, <2>1, <2>2, <2>3, <2>4, <2>5, <2>6, <2>7 DEF Folding
<1>3. CASE Writing(p)
  BY <1>s, <1>f, <1>3 DEF Writing, StartWrite, PutEntry, Commit, CommitRefused, Record
<1>4. CASE TakeLease(p) \/ EndRun(p)
  BY <1>s, <1>f, <1>4 DEF TakeLease, EndRun
<1> QED
  BY <1>1, <1>2, <1>3, <1>4 DEF Step

\* A process that is writing keeps its lease and its view.
LEMMA BoundMoved ==
  ASSUME Shape, NEW p \in Procs, Step(p), pc'[p] \in {"entry", "commit"}
  PROVE  /\ UNCHANGED <<lease, viewed>>
         /\ \/ pc[p] \in {"entry", "commit"}
            \/ viewed[p] /\ p \in Writers /\ (p \in Unfenced \/ lease[p] # 0)
<1> USE DEF Shape, locks, views
<1>f. ~Finish(p)
  BY DEF Finish
<1>1. CASE Reading(p)
  BY <1>f, <1>1 DEF Reading, StartCut, GetSnapshot, ListEntries, ReadHead, GetEntries, CheckEtag, InstallView,
                    Restart, NextRead
<1>2. CASE Folding(p)
  BY <1>f, <1>2 DEF Folding, FoldCut, StartBulk, BulkCut, HeadsUnmoved, PutSnapshot, PutRefused, Delete,
                    DeleteDone, SnapshotMoved, BulkRetry
<1>3. CASE Writing(p)
  BY <1>f, <1>3 DEF Writing, StartWrite, PutEntry, Commit, CommitRefused
<1>4. CASE TakeLease(p) \/ EndRun(p)
  BY <1>f, <1>4 DEF TakeLease, EndRun
<1> QED
  BY <1>1, <1>2, <1>3, <1>4 DEF Step

\* A process whose commit has landed unanswered learns so, or ends.
LEMMA OwnHead ==
  ASSUME JournalInv, NEW p \in Procs, Step(p), pc[p] = "commit", NEW i \in op[p].items,
         head[i] = EntryOf(p, i)
  PROVE  EndRun(p) \/ Record(p, i)
<1>1. op[p].items = {i} /\ i \in Items /\ op[p].expect < op[p].seq
  BY DEF JournalInv, Local, Based
<1>2. op[p].expect \in Nat /\ op[p].seq \in Nat /\ head[i].seq = op[p].seq
  BY DEF JournalInv, Shape, OpType, EntryOf
<1>3. ASSUME NEW j \in Items, NEW answered \in BOOLEAN, Commit(p, j, answered) PROVE FALSE
  BY <1>1, <1>2, <1>3 DEF Commit, CommitHolds
<1>4. ASSUME NEW j \in Items, CommitRefused(p, j) PROVE Record(p, i)
  BY <1>1, <1>4 DEF CommitRefused
<1>5. EndRun(p) \/ Writing(p)
  BY DEF Step, Reading, StartCut, GetSnapshot, ListEntries, ReadHead, GetEntries, CheckEtag, InstallView,
         Folding, FoldCut, StartBulk, BulkCut, HeadsUnmoved, PutSnapshot, PutRefused, Delete, DeleteDone,
         TakeLease
<1> QED
  BY <1>3, <1>4, <1>5 DEF Writing, StartWrite, PutEntry

\* A write has a value no earlier write had.
LEMMA ValueMoved ==
  ASSUME JournalInv, NEW p \in Procs, Step(p)
  PROVE  \/ op'[p].items = {} /\ writes' = writes
         \/ op'[p].items = op[p].items /\ op'[p].val = op[p].val /\ writes' = writes
         \/ op'[p].val = writes + 1 /\ writes' = writes + 1
<1>s. op \in [Procs -> OpType] /\ FreshOp.items = {}
  BY DEF JournalInv, Shape, FreshOp
<1>f. Finish(p) => op'[p].items = {}
  BY <1>s DEF Finish
<1>r. BulkRetry(p) => op'[p].items = {} \/ (op'[p].items = op[p].items /\ op'[p].val = op[p].val)
  BY <1>s, <1>f DEF BulkRetry, OpType
<1>1. CASE Reading(p)
  BY <1>s, <1>f, <1>1 DEF Reading, StartCut, GetSnapshot, ListEntries, ReadHead, GetEntries, CheckEtag,
                          InstallView, Restart
<1>2. CASE Folding(p)
  <2>1. ASSUME NEW S \in SUBSET Items, StartBulk(p, S)
        PROVE op'[p].val = writes + 1 /\ writes' = writes + 1
    BY <1>s, <2>1 DEF StartBulk, FreshOp
  <2> QED
    BY <1>s, <1>f, <1>r, <1>2, <2>1
    DEF Folding, FoldCut, BulkCut, HeadsUnmoved, PutSnapshot, PutRefused, SnapshotMoved, Delete, DeleteDone
<1>3. CASE Writing(p)
  <2>1. ASSUME NEW i \in Items, StartWrite(p, i)
        PROVE op'[p].val = writes + 1 /\ writes' = writes + 1
    BY <1>s, <2>1 DEF StartWrite, FreshOp
  <2>2. ASSUME NEW i \in Items, NEW answered \in BOOLEAN, PutEntry(p, i, answered)
        PROVE /\ writes' = writes
              /\ op'[p].items = {} \/ (op'[p].items = op[p].items /\ op'[p].val = op[p].val)
    BY <1>s, <1>f, <2>2 DEF PutEntry, OpType
  <2>3. ASSUME NEW i \in Items, NEW answered \in BOOLEAN, Commit(p, i, answered)
        PROVE /\ writes' = writes
              /\ op'[p].items = {} \/ (op'[p].items = op[p].items /\ op'[p].val = op[p].val)
    BY <1>s, <1>f, <2>3 DEF Commit, Record
  <2>4. ASSUME NEW i \in Items, CommitRefused(p, i)
        PROVE /\ writes' = writes
              /\ op'[p].items = {} \/ (op'[p].items = op[p].items /\ op'[p].val = op[p].val)
    BY <1>s, <1>f, <2>4 DEF CommitRefused, Record, OpType
  <2> QED
    BY <1>3, <2>1, <2>2, <2>3, <2>4 DEF Writing
<1>4. CASE TakeLease(p) \/ EndRun(p)
  BY <1>f, <1>4 DEF TakeLease, EndRun
<1> QED
  BY <1>1, <1>2, <1>3, <1>4 DEF Step

LEMMA StepLease ==
  ASSUME OnlyLeased, JournalInv, LeaseInv, NEW p \in Procs, Step(p), UNCHANGED setup
  PROVE  LeaseInv'
<1>s. Shape /\ Local(p) /\ Shape' /\ Forward
  BY StepShape, StepForward DEF JournalInv
<1>t. /\ counter \in Nat /\ counter' \in Nat /\ setup.fences \in Nat /\ setup \in Setups
      /\ writes \in Nat /\ lease \in [Procs -> Nat]
      /\ \A i \in Items : head[i].seq \in Nat /\ head'[i].seq \in Nat
  <2>1. counter \in Nat /\ writes \in Nat /\ lease \in [Procs -> Nat] /\ setup.fences \in Nat
        /\ setup \in Setups /\ \A i \in Items : head[i].seq \in Nat
    BY <1>s, SetupsAssumption, BoundsAssumption DEF Shape, SetupType, Values, Entry
  <2>2. counter' \in Nat /\ \A i \in Items : head'[i].seq \in Nat
    BY <1>s, BoundsAssumption DEF Shape, Entry
  <2> QED
    BY <2>1, <2>2
<1>1. /\ counter' <= setup'.fences
      /\ \A i \in Items : fence'[i] = counter'
      /\ \A q \in Procs : lease'[q] <= counter'
      /\ \A q, r \in Procs : lease'[q] = lease'[r] /\ lease'[q] # 0 => q = r
  <2>1. CASE UNCHANGED <<fence, counter, lease>>
    BY <2>1 DEF LeaseInv
  <2>2. CASE /\ counter' = counter + 1 /\ counter < setup.fences /\ fence' = [i \in Items |-> counter']
             /\ lease' = [lease EXCEPT ![p] = counter']
    BY <1>t, <2>2 DEF LeaseInv
  <2>3. CASE UNCHANGED <<fence, counter>> /\ lease' = [lease EXCEPT ![p] = 0]
    BY <1>t, <2>3 DEF LeaseInv
  <2> QED
    BY <1>s, <2>1, <2>2, <2>3, LocksMoved
\* A lease that is the last one now, of a process that has a view or is reading, was
\* so before.
<1>2. ASSUME NEW q \in Procs, Current(q)', q # p \/ viewed'[p] \/ pc'[p] # "idle"
      PROVE  Current(q) /\ UNCHANGED <<counter, setup>>
  <2>1. CASE UNCHANGED <<fence, counter, lease>>
    BY <1>2, <2>1 DEF Current
  <2>2. CASE counter' = counter + 1 /\ pc'[p] = "idle" /\ ~viewed'[p]
    <3>1. q # p /\ lease'[q] = lease[q]
      BY <1>s, <1>2, <2>2, Others
    <3>2. lease[q] <= counter /\ lease[q] = counter + 1
      BY <1>2, <2>2, <3>1 DEF Current, LeaseInv
    <3> QED
      BY <1>t, <3>2
  <2>3. CASE UNCHANGED counter /\ pc'[p] = "idle" /\ ~viewed'[p]
    <3>1. q # p /\ lease'[q] = lease[q]
      BY <1>s, <1>2, <2>3, Others
    <3> QED
      BY <1>2, <2>3, <3>1 DEF Current
  <2> QED
    BY <1>s, <2>1, <2>2, <2>3, LocksMoved
\* The others' heads are where they were, then.
<1>3. ASSUME NEW q \in Procs, q # p, Current(q), NEW i \in Items PROVE head'[i] = head[i]
  <2> SUFFICES ASSUME head'[i] # head[i] PROVE FALSE
    OBVIOUS
  <2>1. PICK answered \in BOOLEAN : Commit(p, i, answered)
    BY HeadMoved
  <2> QED
    BY <1>s, <1>3, <2>1, OwnCommit
<1>4. ASSUME NEW q \in Procs PROVE Bound(q)'
  <2>1. CASE q # p
    BY <1>s, <2>1, Others DEF LeaseInv, Bound
  <2>2. CASE q = p
    <3> SUFFICES ASSUME pc'[p] \in {"entry", "commit"}
                 PROVE  viewed'[p] /\ (lease'[p] # 0 \/ setup'.fences = 0)
      BY <2>2 DEF Bound
    <3>1. UNCHANGED <<lease, viewed, setup>>
      BY <1>s, BoundMoved
    <3>2. CASE pc[p] \in {"entry", "commit"}
      BY <3>1, <3>2 DEF LeaseInv, Bound
    <3>3. CASE viewed[p] /\ p \in Writers /\ p \in Unfenced
      BY <1>t, <3>1, <3>3 DEF OnlyLeased, Writers, Unfenced
    <3>4. CASE viewed[p] /\ lease[p] # 0
      BY <3>1, <3>4
    <3> QED
      BY <1>s, <3>2, <3>3, <3>4, BoundMoved
  <2> QED
    BY <2>1, <2>2
<1>5. ASSUME NEW q \in Procs PROVE LeasedRead(q)'
  <2> SUFFICES ASSUME Current(q)', pc'[q] \in AtRead, goal'[q] = "read", NEW i \in Items
               PROVE  head'[i].seq <= cut'[q].began[i]
    BY DEF LeasedRead
  <2>0. Current(q)
    BY <1>2 DEF AtRead
  <2>1. CASE q # p
    BY <1>s, <1>3, <2>0, <2>1, Others DEF LeaseInv, LeasedRead
  <2>2. CASE q = p
    <3>1. head' = head /\ HeadSeqs[i] = head[i].seq
      BY <2>2, BeganMoved DEF HeadSeqs
    <3> QED
      BY <1>t, <2>0, <2>2, <3>1, BeganMoved DEF LeaseInv, LeasedRead
  <2> QED
    BY <2>1, <2>2
<1>6. ASSUME NEW q \in Procs PROVE LeasedView(q)'
  <2> SUFFICES ASSUME Current(q)', viewed'[q], NEW i \in Items
               PROVE  \/ head'[i].seq <= view'[q][i]
                      \/ pc'[q] = "commit" /\ i \in op'[q].items /\ head'[i] = EntryOf(q, i)'
    BY DEF LeasedView
  <2>0. Current(q)
    BY <1>2
  <2>1. CASE q # p
    <3>1. head'[i] = head[i] /\ EntryOf(q, i)' = EntryOf(q, i)
      BY <1>s, <1>3, <2>0, <2>1, Others DEF EntryOf
    <3> QED
      BY <1>s, <2>0, <2>1, <3>1, Others DEF LeaseInv, LeasedView
  <2>2. CASE q = p
    <3>v. view'[p][i] \in Nat /\ view[p][i] \in Nat /\ op[p].seq \in Nat
      <4>1. view'[p][i] \in Nat
        BY <1>s DEF Shape, Seqs
      <4> QED
        BY <1>s, <4>1 DEF Shape, Seqs, OpType
    <3>1. CASE InstallView(p)
      <4>1. head[i].seq <= cut[p].began[i] /\ head'[i] = head[i]
        BY <2>0, <2>2, <3>1 DEF LeaseInv, LeasedRead, InstallView, AtRead, journal
      <4>2. view'[p][i] >= cut[p].began[i]
        BY <3>1, Installed
      <4>3. cut[p].began[i] \in Nat
        BY <1>s DEF Shape, CutShape, Seqs
      <4> QED
        BY <1>t, <2>2, <3>v, <4>1, <4>2, <4>3
    <3>2. ASSUME viewed[p], view'[p][i] >= view[p][i]
          PROVE  \/ head'[i].seq <= view'[q][i]
                 \/ pc'[q] = "commit" /\ i \in op'[q].items /\ head'[i] = EntryOf(q, i)'
      <4>1. CASE head'[i] # head[i]
        <5>1. PICK answered \in BOOLEAN : Commit(p, i, answered)
          BY <4>1, HeadMoved
        <5>2. head'[i] = EntryOf(p, i) /\ EntryOf(p, i).seq = op[p].seq
          BY <4>1, HeadMoved DEF EntryOf
        <5>3. CASE Record(p, i)
          BY <1>s, <2>2, <3>v, <5>2, <5>3, Recorded
        <5>4. CASE UNCHANGED <<view, pc, op, cut>>
          BY <2>2, <5>1, <5>2, <5>4 DEF Commit, EntryOf
        <5> QED
          BY <5>1, <5>3, <5>4 DEF Commit
      <4>2. CASE head'[i] = head[i] /\ head[i].seq <= view[p][i]
        BY <1>t, <2>2, <3>v, <3>2, <4>2
      <4>3. CASE head'[i] = head[i] /\ pc[p] = "commit" /\ i \in op[p].items /\ head[i] = EntryOf(p, i)
        <5>1. ~EndRun(p)
          BY <1>s, <2>2 DEF EndRun, Shape
        <5>2. Record(p, i) /\ head[i].seq = op[p].seq
          BY <4>3, <5>1, OwnHead DEF EntryOf
        <5> QED
          BY <1>s, <2>2, <3>v, <4>3, <5>2, Recorded
      <4> QED
        BY <2>0, <2>2, <3>2, <4>1, <4>2, <4>3 DEF LeaseInv, LeasedView
    <3>3. CASE ~InstallView(p)
      <4>1. viewed[p]
        BY <1>s, <2>2, <3>3, ViewMoved
      <4>2. view'[p][i] >= view[p][i]
        BY <1>s, <3>v, <3>3, ViewMoved, Recorded
      <4> QED
        BY <3>2, <4>1, <4>2
    <3> QED
      BY <3>1, <3>3
  <2> QED
    BY <2>1, <2>2
<1>7. ASSUME NEW q \in Procs PROVE OwnValue(q)'
  <2>0. \A r \in Procs : op[r].val \in Nat /\ (op[r].items # {} => op[r].val <= writes)
    BY <1>s DEF Shape, OpType, Values, LeaseInv, OwnValue
  <2>1. \A r \in Procs \ {p} : op'[r].items = op[r].items /\ op'[r].val = op[r].val
    BY <1>s, Others
  <2>2. CASE op'[p].items = {} /\ writes' = writes
    BY <2>1, <2>2 DEF LeaseInv, OwnValue
  <2>3. CASE op'[p].items = op[p].items /\ op'[p].val = op[p].val /\ writes' = writes
    BY <2>1, <2>3 DEF LeaseInv, OwnValue
  <2>4. CASE op'[p].val = writes + 1 /\ writes' = writes + 1
    BY <1>t, <2>0, <2>1, <2>4 DEF LeaseInv, OwnValue
  <2> QED
    BY <2>2, <2>3, <2>4, ValueMoved
<1> QED
  BY <1>1, <1>4, <1>5, <1>6, <1>7 DEF LeaseInv

\* A leased write only replaces a commit its run has read (lock_table.py, take_scope, and
\* writes.py, commit, under view.py, ViewCache): however leases lapse and are superseded
\* and answers are lost, no update is lost.  Without the hypothesis it is: a write that
\* rebases under a lease rebases over an unfenced one too.
THEOREM NoUpdateLost == ASSUME OnlyLeased PROVE Spec => NoBlindOverwrite
<1> DEFINE Read == \A p \in Procs, i \in Items :
                      /\ pc[p] = "commit" /\ lease[p] # 0
                      /\ head'[i] # head[i] /\ head'[i] = EntryOf(p, i)
                      => head[i].seq <= view[p][i]
<1>1. JournalInv /\ LeaseInv /\ [Next]_vars => LeaseInv'
  <2> SUFFICES ASSUME JournalInv, LeaseInv, [Next]_vars PROVE LeaseInv'
    OBVIOUS
  <2>1. CASE Next
    BY <2>1, StepLease DEF Next
  <2>2. CASE UNCHANGED vars
    BY <2>2 DEF vars, journal, locks, views, LeaseInv, Bound, LeasedRead, LeasedView, OwnValue, Current,
                EntryOf
  <2> QED
    BY <2>1, <2>2
<1>2. JournalInv /\ LeaseInv /\ [Next]_vars => [Read]_vars
  <2> SUFFICES ASSUME JournalInv, LeaseInv, Next, NEW p \in Procs, NEW i \in Items,
                      pc[p] = "commit", lease[p] # 0, head'[i] # head[i], head'[i] = EntryOf(p, i)
               PROVE  head[i].seq <= view[p][i]
    OBVIOUS
  <2>1. PICK q \in Procs : Step(q)
    BY DEF Next
  <2>2. PICK answered \in BOOLEAN : Commit(q, i, answered)
    BY <2>1, HeadMoved
  <2>3. head'[i] = EntryOf(q, i) /\ i \in op[q].items
    BY <2>1, <2>2, HeadMoved DEF Commit
  <2>4. q = p
    <3>1. op[p].items # {}
      BY DEF JournalInv, Local, Based
    <3>2. op[q].val = op[p].val
      BY <2>3 DEF EntryOf
    <3> QED
      BY <2>3, <3>1, <3>2 DEF LeaseInv, OwnValue
  <2>5. fence[i] = lease[p] /\ viewed[p]
    BY <2>2, <2>4 DEF Commit, CommitHolds, LeaseInv, Bound
  <2>6. Current(p)
    <3>1. lease[p] = counter /\ lease[p] \in Nat
      BY <2>5, BoundsAssumption DEF LeaseInv, JournalInv, Shape
    <3> QED
      BY <3>1 DEF Current
  <2> QED
    BY <2>5, <2>6 DEF LeaseInv, LeasedView
<1> QED
  BY <1>1, <1>2, InitLease, Invariance, PTL DEF Spec, NoBlindOverwrite
=============================================================================
