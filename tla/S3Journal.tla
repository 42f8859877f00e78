------------------------------ MODULE S3Journal ------------------------------
(***************************************************************************)
(* The journal of the S3/DynamoDB state backend.  A write stores an entry  *)
(* object and then commits it by moving the item's head; a read folds the  *)
(* snapshot, a LIST of the entries, the heads and the entries they name; a *)
(* compaction folds such a read into a new snapshot under a compare-and-   *)
(* swap and deletes what the snapshot now covers; a bulk write does the    *)
(* same with its own values added.                                         *)
(*                                                                         *)
(* Sources: atlantide/state/s3/{writes,reads,journal,maintenance,view,     *)
(* snapshots}.py.                                                          *)
(*                                                                         *)
(* A process is one thread of one run.  Each request to S3 or DynamoDB is  *)
(* an atomic step, and any step of any process may come between two        *)
(* requests.  An entry's key (kind, name, seq, fence, nonce) is the entry  *)
(* itself, as keys are never reused.  A value stands for a record or for   *)
(* an item's absence, and every write brings a value of its own: a write   *)
(* of what is already stored sends nothing (writes.py:82-87).              *)
(***************************************************************************)
EXTENDS Integers, Sequences, FiniteSets, FiniteSetsExt

CONSTANTS
    Items,         \* node ids: what has a head and a watermark
    Procs,         \* threads of runs
    Setups,        \* the casts of processes and the limits a run may have (SetupType)
    MaxWrites,     \* bound: how many writes start, in any setup
    MaxFence,      \* bound: how many leases are taken, in any setup
    MaxEnds        \* bound: how many runs end or die, in any setup

\* readers load the state, writers write single nodes, bulkers several at once, and
\* compactors fold the journal (a background thread, a checkpoint); unfenced ones have
\* no lease bound.  pages is a LIST as it is paginated, cas, reads and relists are
\* limits.CAS_ATTEMPTS, READ_ATTEMPTS and RELIST_ATTEMPTS, and the rest are the bounds.
SetupType ==
    [readers: SUBSET Procs, writers: SUBSET Procs, bulkers: SUBSET Procs,
     compactors: SUBSET Procs, unfenced: SUBSET Procs, pages: Seq(SUBSET Items),
     cas: Nat, reads: Nat, relists: Nat, writes: 0..MaxWrites, fences: 0..MaxFence,
     ends: 0..MaxEnds]

ASSUME SetupsAssumption ==
    \A s \in Setups :
        /\ s \in SetupType
        /\ UNION {s.pages[k] : k \in DOMAIN s.pages} = Items
ASSUME BoundsAssumption == {MaxWrites, MaxFence, MaxEnds} \subseteq Nat

VARIABLES
    setup,     \* the setup the processes work in
    objects,   \* S3: the journal entries stored under the epoch's prefix
    head,      \* DynamoDB: per item, the entry its head names (seq 0: none yet)
    fence,     \* DynamoDB: per item, the fence on its head (0: none)
    counter,   \* DynamoDB: the fence counter
    snap,      \* S3: the snapshot object
    lease,     \* per process, the fence of its bound lease (0: none bound)
    view,      \* per process, View.node_seq: the seqs its cached view holds
    viewed,    \* per process, whether it has a cached view
    pc,        \* per process, its next request
    goal,      \* per process, what its cut is for
    op,        \* per process, the write it is making
    cut,       \* per process, the read it is making
    writes,    \* how many writes started: the last fresh value
    ends,      \* how many runs ended or died
    since      \* history: per process, the heads when the read behind its view began

journal == <<objects, head, snap>>
locks == <<fence, counter, lease>>
views == <<view, viewed>>
vars == <<setup, journal, locks, views, pc, goal, op, cut, writes, ends, since>>

Readers == setup.readers
Writers == setup.writers
Bulkers == setup.bulkers
Compactors == setup.compactors
Unfenced == setup.unfenced
Pages == setup.pages

Values == 0..MaxWrites
Seqs == [Items -> Nat]
Entry == [item: Items, seq: Nat, val: Values, nonce: Nat, after: Seqs]
Snapshot == [gen: Nat, serial: Nat, val: [Items -> Values], wm: Seqs,
             fences: Seqs, maxFence: Nat]
Zero == [i \in Items |-> 0]
NoEntry(i) == [item |-> i, seq |-> 0, val |-> 0, nonce |-> 0, after |-> Zero]
HeadSeqs == [i \in Items |-> head[i].seq]

\* The values of a read in progress (Reads.cut's and Reads.read_journal's locals).
CutType == [doc: Snapshot, listed: SUBSET Entry, page: Nat, lists: Nat,
            read: SUBSET Items, unread: SUBSET Items, heads: [Items -> Entry],
            fences: Seqs, counter: Nat, tries: Nat, began: Seqs]
FreshCut ==
    [doc |-> [gen |-> 0, serial |-> 0, val |-> Zero, wm |-> Zero, fences |-> Zero,
              maxFence |-> 0],
     listed |-> {}, page |-> 1, lists |-> 0, read |-> {}, unread |-> {},
     heads |-> [i \in Items |-> NoEntry(i)], fences |-> Zero, counter |-> 0,
     tries |-> 1, began |-> Zero]

\* The values of a write in progress (Writes.write_node's and Writes.bulk's locals).
OpType == [items: SUBSET Items, val: Values, after: Seqs, known: Nat, expect: Nat,
           seq: Nat, nonce: Nat, tries: Nat]
FreshOp == [items |-> {}, val |-> 0, after |-> Zero, known |-> 0, expect |-> 0,
            seq |-> 0, nonce |-> 0, tries |-> 1]

PCs == {"idle", "entry", "commit", "snap", "list", "heads", "get", "etag", "check",
        "swap", "delete"}

\* State and locals keep their types through every interleaving.
TypeOK ==
    /\ setup \in Setups
    /\ objects \subseteq Entry
    /\ head \in [Items -> Entry]
    /\ fence \in Seqs
    /\ counter \in 0..MaxFence
    /\ snap \in Snapshot
    /\ lease \in [Procs -> 0..MaxFence]
    /\ view \in [Procs -> Seqs]
    /\ viewed \in [Procs -> BOOLEAN]
    /\ pc \in [Procs -> PCs]
    /\ goal \in [Procs -> {"read", "compact", "bulk"}]
    /\ op \in [Procs -> OpType]
    /\ cut \in [Procs -> CutType]
    /\ writes \in Values
    /\ ends \in 0..MaxEnds
    /\ since \in [Procs -> Seqs]

Init ==
    /\ setup \in Setups
    /\ objects = {}
    /\ head = [i \in Items |-> NoEntry(i)]
    /\ fence = Zero
    /\ counter = 0
    /\ snap = FreshCut.doc
    /\ lease = [p \in Procs |-> 0]
    /\ view = [p \in Procs |-> Zero]
    /\ viewed = [p \in Procs |-> FALSE]
    /\ pc = [p \in Procs |-> "idle"]
    /\ goal = [p \in Procs |-> "read"]
    /\ op = [p \in Procs |-> FreshOp]
    /\ cut = [p \in Procs |-> FreshCut]
    /\ writes = 0
    /\ ends = 0
    /\ since = [p \in Procs |-> Zero]

Larger(a, b) == IF a > b THEN a ELSE b

\* A call returns or raises: its locals are gone.
Finish(p) ==
    /\ pc' = [pc EXCEPT ![p] = "idle"]
    /\ op' = [op EXCEPT ![p] = FreshOp]
    /\ cut' = [cut EXCEPT ![p] = FreshCut]

-----------------------------------------------------------------------------
(***************************************************************************)
(* The cut a read has put together so far (journal.py, Cut).               *)
(***************************************************************************)
ItemsPastWatermark(doc, listed) == {i \in Items : \E e \in listed : e.item = i /\ e.seq > doc.wm[i]}
Effective(c) == {i \in c.read : c.heads[i].seq > c.doc.wm[i]}
UnlistedRefs(c) == {i \in Effective(c) : c.heads[i] \notin c.listed}
NodesUnfolded(c) == c.doc.val
Nodes(c) == [i \in Items |-> IF i \in Effective(c) THEN c.heads[i].val ELSE c.doc.val[i]]
Serial(c) == c.doc.serial + MapThenSumSet(LAMBDA i : c.heads[i].seq - c.doc.wm[i], Effective(c))
NewestSeqs(c) == [i \in Items |-> IF i \in c.read THEN Larger(c.heads[i].seq, c.doc.wm[i])
                                                ELSE c.doc.wm[i]]
Watermarks(c) == [i \in Items |-> IF i \in Effective(c) THEN c.heads[i].seq ELSE c.doc.wm[i]]
Fences(c) == [i \in Items |-> Larger(c.doc.fences[i], c.fences[i])]
Fold(c) ==
    [gen |-> c.doc.gen + 1, serial |-> Serial(c), val |-> Nodes(c), wm |-> Watermarks(c),
     fences |-> Fences(c),
     maxFence |-> Max({c.doc.maxFence, c.counter} \cup {Fences(c)[i] : i \in Items})]
Garbage(c) == {e \in c.listed : e.seq <= Watermarks(c)[e.item]}

\* What read_journal does once a LIST or a batch of heads is in.
NextRead(c) ==
    IF c.unread # {} THEN "heads"
    ELSE IF UnlistedRefs(c) # {} /\ c.lists <= setup.relists THEN "list" ELSE "get"

-----------------------------------------------------------------------------
(***************************************************************************)
(* Reads (reads.py, Reads.cut and Reads.read_journal).                     *)
(***************************************************************************)
\* ViewCache.ensure with no view cached, Maintenance.compact, or a bulk's cut.
StartCut(p, g) ==
    /\ pc[p] = "idle"
    /\ \/ g = "read" /\ p \in Readers /\ ~viewed[p]
       \/ g = "compact" /\ p \in Compactors
    /\ pc' = [pc EXCEPT ![p] = "snap"]
    /\ goal' = [goal EXCEPT ![p] = g]
    /\ cut' = [cut EXCEPT ![p].began = HeadSeqs]
    /\ UNCHANGED <<journal, locks, views, op, writes, ends, since>>

GetSnapshot(p) ==
    /\ pc[p] = "snap"
    /\ pc' = [pc EXCEPT ![p] = "list"]
    /\ cut' = [cut EXCEPT ![p] = [FreshCut EXCEPT !.doc = snap, !.tries = cut[p].tries,
                                                  !.began = cut[p].began]]
    /\ UNCHANGED <<journal, locks, views, goal, op, writes, ends, since>>

\* One page of the LIST; after the last, the items whose heads are to be read.
ListEntries(p) ==
    LET c == cut[p]
        seen == (IF c.page = 1 THEN {} ELSE c.listed)
                   \cup {e \in objects : e.item \in Pages[c.page]}
        more == [c EXCEPT !.listed = seen, !.page = c.page + 1]
        all == [c EXCEPT !.listed = seen, !.page = 1, !.lists = c.lists + 1,
                         !.unread = ItemsPastWatermark(c.doc, seen) \ c.read]
    IN /\ pc[p] = "list"
       /\ IF c.page < Len(Pages)
          THEN /\ cut' = [cut EXCEPT ![p] = more]
               /\ UNCHANGED pc
          ELSE /\ cut' = [cut EXCEPT ![p] = all]
               /\ pc' = [pc EXCEPT ![p] = NextRead(all)]
       /\ UNCHANGED <<journal, locks, views, goal, op, writes, ends, since>>

\* BatchGetItem answers item by item, each consistently; it is not a transaction.
ReadHead(p, i) ==
    LET c == [cut[p] EXCEPT !.heads[i] = head[i], !.fences[i] = fence[i],
                            !.read = @ \cup {i}, !.unread = @ \ {i}]
    IN /\ pc[p] = "heads"
       /\ i \in cut[p].unread
       /\ cut' = [cut EXCEPT ![p] = c]
       /\ pc' = [pc EXCEPT ![p] = NextRead(c)]
       /\ UNCHANGED <<journal, locks, views, goal, op, writes, ends, since>>

\* The read starts over, or has been restarted too often and raises.
Restart(p) ==
    IF cut[p].tries < setup.reads
    THEN /\ pc' = [pc EXCEPT ![p] = "snap"]
         /\ cut' = [cut EXCEPT ![p].tries = @ + 1]
         /\ UNCHANGED op
    ELSE Finish(p)

\* The parallel GETs of the effective entries: one not there raises EntryVanished.
GetEntries(p) ==
    /\ pc[p] = "get"
    /\ IF {cut[p].heads[i] : i \in Effective(cut[p])} \subseteq objects
       THEN /\ pc' = [pc EXCEPT ![p] = "etag"]
            /\ UNCHANGED <<op, cut>>
       ELSE Restart(p)
    /\ UNCHANGED <<journal, locks, views, goal, writes, ends, since>>

\* The final HEAD of the snapshot: replaced meanwhile, the read restarts.
Unmoved(p) == snap.gen = cut[p].doc.gen

CheckEtag(p) ==
    /\ pc[p] = "etag"
    /\ ~Unmoved(p)
    /\ Restart(p)
    /\ UNCHANGED <<journal, locks, views, goal, writes, ends, since>>

InstallViewUnchecked(p) ==
    /\ pc[p] = "etag" /\ goal[p] = "read"
    /\ view' = [view EXCEPT ![p] = NewestSeqs(cut[p])]
    /\ viewed' = [viewed EXCEPT ![p] = TRUE]
    /\ since' = [since EXCEPT ![p] = cut[p].began]
    /\ Finish(p)
    /\ UNCHANGED <<journal, locks, goal, writes, ends>>

\* ViewCache.ensure installs View.of(cut).
InstallView(p) ==
    /\ pc[p] = "etag" /\ goal[p] = "read"
    /\ Unmoved(p)
    /\ view' = [view EXCEPT ![p] = NewestSeqs(cut[p])]
    /\ viewed' = [viewed EXCEPT ![p] = TRUE]
    /\ since' = [since EXCEPT ![p] = cut[p].began]
    /\ Finish(p)
    /\ UNCHANGED <<journal, locks, goal, writes, ends>>

-----------------------------------------------------------------------------
(***************************************************************************)
(* Compaction (maintenance.py, Maintenance.compact) and bulk writes        *)
(* (writes.py, Writes.bulk).                                               *)
(***************************************************************************)
\* The fold, once its cut is read.  Nothing folded: only garbage is collected.
FoldCut(p) ==
    LET c == [cut[p] EXCEPT !.counter = counter]
        new == Fold(c)
        changed == \/ Effective(c) # {}
                   \/ new.maxFence # c.doc.maxFence
                   \/ new.fences # c.doc.fences
    IN /\ pc[p] = "etag" /\ goal[p] = "compact"
       /\ Unmoved(p)
       /\ \/ /\ changed
             /\ pc' = [pc EXCEPT ![p] = "swap"]
             /\ cut' = [cut EXCEPT ![p] = c]
             /\ UNCHANGED op
          \/ /\ ~changed /\ Garbage(c) # {}
             /\ pc' = [pc EXCEPT ![p] = "delete"]
             /\ UNCHANGED <<cut, op>>
          \/ /\ ~changed /\ Garbage(c) = {}
             /\ Finish(p)
       /\ UNCHANGED <<journal, locks, views, goal, writes, ends, since>>

\* put_many or replace_many of several items; one item goes through write_node.
StartBulk(p, S) ==
    /\ p \in Bulkers /\ pc[p] = "idle" /\ viewed[p]
    /\ p \in Unfenced \/ lease[p] # 0
    /\ writes < setup.writes
    /\ writes' = writes + 1
    /\ op' = [op EXCEPT ![p] = [FreshOp EXCEPT !.items = S, !.val = writes + 1]]
    /\ goal' = [goal EXCEPT ![p] = "bulk"]
    /\ pc' = [pc EXCEPT ![p] = "snap"]
    /\ cut' = [cut EXCEPT ![p].began = HeadSeqs]
    /\ UNCHANGED <<journal, locks, views, ends, since>>

\* The bulk's loop goes round again, or has been round too often and raises.
BulkRetry(p) ==
    IF op[p].tries < setup.cas
    THEN /\ pc' = [pc EXCEPT ![p] = "snap"]
         /\ op' = [op EXCEPT ![p].tries = @ + 1]
         /\ cut' = [cut EXCEPT ![p] = [FreshCut EXCEPT !.began = HeadSeqs]]
    ELSE Finish(p)

\* The cut is read.  Values all in place already (this bulk's own PUT landed and
\* its answer was lost): the view is dropped, nothing is written.
BulkCut(p) ==
    /\ pc[p] = "etag" /\ goal[p] = "bulk"
    /\ Unmoved(p)
    /\ IF \A i \in op[p].items : Nodes(cut[p])[i] = op[p].val
       THEN /\ viewed' = [viewed EXCEPT ![p] = FALSE]
            /\ Finish(p)
       ELSE /\ pc' = [pc EXCEPT ![p] = "check"]
            /\ cut' = [cut EXCEPT ![p].unread = op[p].items]
            /\ UNCHANGED <<op, viewed>>
    /\ UNCHANGED <<journal, locks, view, goal, writes, ends, since>>

\* heads_unmoved: the pre-check of the touched heads, one head.
HeadsUnmoved(p, i) ==
    /\ pc[p] = "check"
    /\ i \in cut[p].unread
    /\ \/ /\ lease[p] # 0 /\ fence[i] # lease[p]
          /\ Finish(p)
       \/ /\ lease[p] = 0 \/ fence[i] = lease[p]
          /\ head[i].seq > Watermarks(cut[p])[i]
          /\ BulkRetry(p)
       \/ /\ lease[p] = 0 \/ fence[i] = lease[p]
          /\ head[i].seq <= Watermarks(cut[p])[i]
          /\ cut' = [cut EXCEPT ![p].unread = @ \ {i}]
          /\ pc' = [pc EXCEPT ![p] = IF cut[p].unread = {i} THEN "swap" ELSE "check"]
          /\ UNCHANGED op
    /\ UNCHANGED <<journal, locks, views, goal, writes, ends, since>>

NewSnapshot(p) ==
    LET new == Fold(cut[p])
    IN IF goal[p] = "compact" THEN new
       ELSE [new EXCEPT !.serial = @ + 1,
                        !.val = [i \in Items |-> IF i \in op[p].items THEN op[p].val ELSE @[i]]]

\* A refused swap: a fold gives up, a bulk goes round again.
SnapshotMoved(p) == IF goal[p] = "compact" THEN Finish(p) ELSE BulkRetry(p)

\* Snapshots.put under If-Match.  When the answer is lost the client sends it
\* again, and that one is refused.
PutSnapshot(p, answered) ==
    /\ pc[p] = "swap"
    /\ Unmoved(p)
    /\ snap' = NewSnapshot(p)
    /\ IF answered
       THEN /\ pc' = [pc EXCEPT ![p] = "delete"]
            /\ viewed' = [viewed EXCEPT ![p] = @ /\ goal[p] = "compact"]
            /\ UNCHANGED <<op, cut>>
       ELSE /\ SnapshotMoved(p)
            /\ UNCHANGED viewed
    /\ UNCHANGED <<objects, head, locks, view, goal, writes, ends, since>>

PutRefused(p) ==
    /\ pc[p] = "swap"
    /\ ~Unmoved(p)
    /\ SnapshotMoved(p)
    /\ UNCHANGED <<journal, locks, views, goal, writes, ends, since>>

\* delete_objects over the garbage; a failed batch leaves the rest in place.
Delete(p, e) ==
    /\ pc[p] = "delete"
    /\ e \in Garbage(cut[p])
    /\ objects' = objects \ {e}
    /\ cut' = [cut EXCEPT ![p].listed = @ \ {e}]
    /\ UNCHANGED <<head, snap, locks, views, pc, goal, op, writes, ends, since>>

DeleteDone(p) ==
    /\ pc[p] = "delete"
    /\ Finish(p)
    /\ UNCHANGED <<journal, locks, views, goal, writes, ends, since>>

-----------------------------------------------------------------------------
(***************************************************************************)
(* Node writes (writes.py, Writes.write_node).                             *)
(***************************************************************************)
StartWrite(p, i) ==
    /\ p \in Writers /\ pc[p] = "idle" /\ viewed[p]
    /\ p \in Unfenced \/ lease[p] # 0
    /\ writes < setup.writes
    /\ writes' = writes + 1
    /\ op' = [op EXCEPT ![p] = [FreshOp EXCEPT !.items = {i}, !.val = writes + 1,
                  !.after = HeadSeqs, !.known = view[p][i], !.expect = view[p][i],
                  !.seq = view[p][i] + 1]]
    /\ pc' = [pc EXCEPT ![p] = "entry"]
    /\ UNCHANGED <<journal, locks, views, goal, cut, ends, since>>

EntryOf(p, i) == [item |-> i, seq |-> op[p].seq, val |-> op[p].val, nonce |-> op[p].nonce,
                  after |-> op[p].after]

\* A PUT under a fresh key.  Its answer lost, the client's retry is refused as
\* existing and the entry is stored again under another key.
PutEntry(p, i, answered) ==
    /\ pc[p] = "entry"
    /\ i \in op[p].items
    /\ objects' = objects \cup {EntryOf(p, i)}
    /\ \/ /\ answered
          /\ pc' = [pc EXCEPT ![p] = "commit"]
          /\ UNCHANGED <<op, cut>>
       \/ /\ ~answered
          /\ IF op[p].nonce + 1 < setup.cas
             THEN /\ op' = [op EXCEPT ![p].nonce = @ + 1]
                  /\ UNCHANGED <<pc, cut>>
             ELSE Finish(p)
    /\ UNCHANGED <<head, snap, locks, views, goal, writes, ends, since>>

\* head_update's condition: the head where this write is based, or never written,
\* and under a lease still at the lease's fence.
CommitHolds(p, i) ==
    /\ head[i].seq = op[p].expect \/ head[i].seq = 0
    /\ lease[p] = 0 \/ fence[i] = lease[p]

\* ViewCache.record: the view absorbs the commit unless it has it already.
Record(p, i) ==
    /\ view' = [view EXCEPT ![p][i] = Larger(@, op[p].seq)]
    /\ Finish(p)

\* The conditional UpdateItem lands.  Its answer lost, the client sends it again.
Commit(p, i, answered) ==
    /\ pc[p] = "commit"
    /\ i \in op[p].items
    /\ CommitHolds(p, i)
    /\ head' = [head EXCEPT ![i] = EntryOf(p, i)]
    /\ IF answered THEN Record(p, i) ELSE UNCHANGED <<view, pc, op, cut>>
    /\ UNCHANGED <<objects, snap, locks, viewed, goal, writes, ends, since>>

\* The condition fails: this write is the head already (a retried call that had
\* landed), the fence moved (FencedWriteError), or the write rebases on the head.
CommitRefused(p, i) ==
    LET moved == head[i].seq
        fenced == lease[p] # 0 /\ fence[i] # lease[p]
    IN /\ pc[p] = "commit"
       /\ i \in op[p].items
       /\ ~CommitHolds(p, i)
       /\ \/ head[i] = EntryOf(p, i) /\ Record(p, i)
          \/ head[i] # EntryOf(p, i) /\ fenced /\ Finish(p) /\ UNCHANGED view
          \/ /\ head[i] # EntryOf(p, i) /\ ~fenced
             /\ IF op[p].tries < setup.cas
                THEN /\ op' = [op EXCEPT ![p].expect = moved, ![p].tries = @ + 1,
                               ![p].seq = Larger(moved, op[p].known) + 1, ![p].nonce = 0]
                     /\ pc' = [pc EXCEPT ![p] = "entry"]
                     /\ UNCHANGED cut
                ELSE Finish(p)
             /\ UNCHANGED view
       /\ UNCHANGED <<journal, locks, viewed, goal, writes, ends, since>>

-----------------------------------------------------------------------------
(***************************************************************************)
(* A process acquires a lease over the items (lock_table.py, take_scope;   *)
(* the protocol is S3Locks): the heads are raised to its fence and its     *)
(* view is dropped.  The lease it supersedes has lapsed, whatever its      *)
(* holder still has in flight.                                             *)
(***************************************************************************)
TakeLeaseViewKept(p) ==
    /\ p \in (Writers \cup Bulkers) \ Unfenced /\ pc[p] = "idle"
    /\ counter < setup.fences
    /\ counter' = counter + 1
    /\ fence' = [i \in Items |-> counter + 1]
    /\ lease' = [lease EXCEPT ![p] = counter + 1]
    /\ UNCHANGED <<journal, views, pc, goal, op, cut, writes, ends, since>>

TakeLease(p) ==
    /\ p \in (Writers \cup Bulkers) \ Unfenced /\ pc[p] = "idle"
    /\ counter < setup.fences
    /\ counter' = counter + 1
    /\ fence' = [i \in Items |-> counter + 1]
    /\ lease' = [lease EXCEPT ![p] = counter + 1]
    /\ viewed' = [viewed EXCEPT ![p] = FALSE]
    /\ UNCHANGED <<journal, view, pc, goal, op, cut, writes, ends, since>>

\* A run ends, or dies with a request out; its place is taken by a new one.
EndRun(p) ==
    /\ ends < setup.ends
    /\ ends' = ends + 1
    /\ lease' = [lease EXCEPT ![p] = 0]
    /\ viewed' = [viewed EXCEPT ![p] = FALSE]
    /\ Finish(p)
    /\ UNCHANGED <<journal, fence, counter, view, goal, writes, since>>

Reading(p) ==
    \/ \E g \in {"read", "compact"} : StartCut(p, g)
    \/ GetSnapshot(p)
    \/ ListEntries(p)
    \/ \E i \in Items : ReadHead(p, i)
    \/ GetEntries(p)
    \/ CheckEtag(p)
    \/ InstallView(p)

Folding(p) ==
    \/ FoldCut(p)
    \/ \E S \in SUBSET Items : Cardinality(S) > 1 /\ StartBulk(p, S)
    \/ BulkCut(p)
    \/ \E i \in Items : HeadsUnmoved(p, i)
    \/ \E answered \in BOOLEAN : PutSnapshot(p, answered)
    \/ PutRefused(p)
    \/ \E e \in objects : Delete(p, e)
    \/ DeleteDone(p)

Writing(p) ==
    \/ \E i \in Items : StartWrite(p, i)
    \/ \E i \in Items, answered \in BOOLEAN : PutEntry(p, i, answered)
    \/ \E i \in Items, answered \in BOOLEAN : Commit(p, i, answered)
    \/ \E i \in Items : CommitRefused(p, i)

Step(p) ==
    \/ Reading(p)
    \/ Folding(p)
    \/ Writing(p)
    \/ TakeLease(p)
    \/ EndRun(p)

Next == /\ \E p \in Procs : Step(p)
        /\ UNCHANGED setup

Spec == Init /\ [][Next]_vars

-----------------------------------------------------------------------------
(***************************************************************************)
(* Properties.                                                             *)
(***************************************************************************)
\* What a consistent read would return now.
Visible == [i \in Items |-> IF head[i].seq > snap.wm[i] THEN head[i].val ELSE snap.val[i]]
StateSerial ==
    snap.serial + MapThenSumSet(LAMBDA i : Larger(head[i].seq - snap.wm[i], 0), Items)

\* The journal implements the abstract store: a value changes only when a write still
\* being made lands, whatever folds, deletions, restarts, retries and crashes go on
\* (writes.py, commit: "The durability point of a write").
OpenWrites == {[items |-> op[p].items, val |-> op[p].val] : p \in {q \in Procs : op[q].items # {}}}
Store == INSTANCE StateStore WITH value <- Visible, open <- OpenWrites, Initial <- 0
ImplementsStore == Store!Spec

\* A commit is visible the moment its head moves, whichever folds were built before
\* and whatever they marked as folded (Cut.fold's watermarks).
CommitVisible ==
    [][\A i \in Items : head'[i] # head[i] => Visible'[i] = head'[i].val]_vars

\* No committed entry past the snapshot is ever collected: neither a fold built on
\* an old read nor a bulk deletes what a head still names (Cut.garbage).
EntryKept == \A i \in Items : head[i].seq > snap.wm[i] => head[i] \in objects

\* Whatever was committed before a read began is in the view it installs, even if
\* folds moved it into the snapshot and deleted it while the read was under way
\* (Reads.cut, ViewCache.ensure: "a run reads what was committed when its lease was
\* taken").
ReadFresh == \A p \in Procs : viewed[p] => \A i \in Items : view[p][i] >= since[p][i]

\* A leased write only replaces a commit its run has read: supersession, the dropped
\* view and the fenced commit leave no gap for a lost update.
NoBlindOverwrite ==
    [][\A p \in Procs, i \in Items :
          /\ pc[p] = "commit" /\ lease[p] # 0
          /\ head'[i] # head[i] /\ head'[i] = EntryOf(p, i)
          => head[i].seq <= view[p][i]]_vars

\* The serial counts writes: every step that changes a visible value adds exactly
\* one, and no step takes it back or skips (Cut.serial, Cut.fold).
SerialCounts ==
    [][/\ StateSerial' \in {StateSerial, StateSerial + 1}
       /\ Visible' # Visible => StateSerial' = StateSerial + 1]_vars

\* A read that is about to be returned, and whose re-LISTs did not run out.
Returning(p) ==
    /\ pc[p] = "etag" /\ Unmoved(p)
    /\ UnlistedRefs(cut[p]) = {} \/ cut[p].lists <= setup.relists

\* A read is causal: with a write it returns every commit made before that write
\* began (tests/state/s3/test_reads.py: "a dependent is never visible without its
\* dependency").
CausalRead ==
    \A p \in Procs : Returning(p) =>
        \A j \in Effective(cut[p]), i \in Items :
            cut[p].heads[j].after[i] <= NewestSeqs(cut[p])[i]
=============================================================================
