----------------------------- MODULE S3Recovery -----------------------------
(***************************************************************************)
(* What the S3 state backend recovers after DynamoDB tables were lost and  *)
(* recreated: the fence counter that starts again past every fence a       *)
(* paused run may hold, and `state fsck`, which finds the heads that were  *)
(* lost and, with --rebuild-heads, points them at their newest entries,    *)
(* while runs acquire, write, die and fold the journal.                    *)
(*                                                                         *)
(* Sources: atlantide/state/s3/{fences,maintenance,lock_table,lease_items, *)
(* dynamo}.py, atlantide/cli/commands/state/journal.py.                    *)
(*                                                                         *)
(* Here a read of the journal and a fold are one step each and the claim   *)
(* of a scope is one transaction: S3Journal and S3Locks take them apart.   *)
(* An entry stands for its key (name, seq, fence, nonce) and its content;  *)
(* `put` numbers the writes and tells any two entries apart.  A lease no   *)
(* longer holds once it is in `gone`: released, reaped or revoked.         *)
(***************************************************************************)
EXTENDS Integers, FiniteSets, FiniteSetsExt

CONSTANTS
    Items,       \* node ids
    Runs,        \* runs that lock and write
    Gap,         \* limits.RESEED_GAP
    Setups,      \* the bounds of a behaviour (SetupType)
    MaxPuts      \* bound: entries put, in any setup

\* How many leases are granted, entries put, folds made and tables lost at most, and
\* whether anyone runs fsck.
SetupType == [leases: Nat, puts: 0..MaxPuts, folds: Nat, losses: Nat, checks: BOOLEAN]

ASSUME BoundsAssumption == Gap \in Nat /\ MaxPuts \in Nat /\ Setups \subseteq SetupType

VARIABLES
    setup,      \* the bounds this behaviour keeps to
    heads,      \* journal table: per item, its fence (0: none) and committed entry (seq 0: none)
    counter,    \* lock table: the fence counter (0: missing)
    rows,       \* lock table: per item, the lease its row points at (0: no row)
    gone,       \* the leases that hold nothing any more
    leases,     \* how many leases were granted: lease ids
    snap,       \* S3: the snapshot: generation, highest fence, and per item the entry folded in
    objects,    \* S3: the entries stored
    garbage,    \* entries a fold superseded and has yet to delete
    puts,       \* how many entries were put
    run,        \* per run, its locals
    fsck,       \* the check being made
    lost,       \* history: losses, puts and leases by then, the least fence to seed from
    last,       \* history: per item, the entry committed last
    newest      \* history: per item, the lease that claimed it last

table == <<heads, counter, rows, gone, leases>>
store == <<snap, objects, garbage>>
history == <<setup, lost, last, newest>>
vars == <<table, store, puts, run, fsck, history>>

Entry == [item: Items, seq: Nat, fence: Nat, put: 0..MaxPuts]
NoEntry(i) == [item |-> i, seq |-> 0, fence |-> 0, put |-> 0]
Bare == [i \in Items |-> NoEntry(i)]
NoHeads == [i \in Items |-> [fence |-> 0, entry |-> NoEntry(i)]]

Idle == [at |-> "idle", above |-> 0, fence |-> 0, lease |-> 0, scope |-> {},
         seqs |-> [i \in Items |-> 0], expect |-> 0, entry |-> {}]
NotChecking == [at |-> "idle", rebuild |-> FALSE, snap |-> 0, listed |-> {}, keys |-> {},
                heads |-> NoHeads, todo |-> {}, missing |-> {}, headless |-> {}, rebuilt |-> {}]

Init ==
    /\ setup \in Setups
    /\ heads = NoHeads
    /\ counter = 0
    /\ rows = [i \in Items |-> 0]
    /\ gone = {}
    /\ leases = 0
    /\ snap = [gen |-> 0, maxFence |-> 0, at |-> Bare]
    /\ objects = {}
    /\ garbage = {}
    /\ puts = 0
    /\ run = [r \in Runs |-> Idle]
    /\ fsck = NotChecking
    /\ lost = [times |-> 0, puts |-> 0, leases |-> 0, above |-> 0]
    /\ last = Bare
    /\ newest = [i \in Items |-> 0]

Larger(a, b) == IF a > b THEN a ELSE b

-----------------------------------------------------------------------------
(***************************************************************************)
(* A run takes a lease (LockTable.take_scope).                             *)
(***************************************************************************)
\* Snapshots.ensure: the highest fence the snapshot records.
Asks(r, S) ==
    /\ run[r].at = "idle"
    /\ run' = [run EXCEPT ![r] = [Idle EXCEPT !.at = "mint", !.above = snap.maxFence, !.scope = S]]
    /\ UNCHANGED <<table, store, puts, fsck, history>>

\* Mutant: a missing counter restarts right past the snapshot, without the gap.
BumpedNoGap(above) == (IF counter = 0 THEN above ELSE counter) + 1

\* The counter after bump_fence(1): a missing one is seeded past the snapshot first.
Bumped(above) == (IF counter = 0 /\ above > 0 THEN above + Gap ELSE counter) + 1

\* Fences.next_fence: a counter still behind the snapshot is raised past it.
NextFence(above) == IF Bumped(above) <= above THEN above + 1 ELSE Bumped(above)

Mint(r) ==
    /\ run[r].at = "mint"
    /\ leases < setup.leases
    /\ leases' = leases + 1
    /\ counter' = NextFence(run[r].above)
    /\ run' = [run EXCEPT ![r].at = "claim", ![r].lease = leases + 1,
                          ![r].fence = NextFence(run[r].above)]
    /\ UNCHANGED <<heads, rows, gone, store, puts, fsck, history>>

\* put_lease, then the transaction over the rows and the heads: the rows are free or
\* point at dead leases, and no head bears a newer fence.
Claim(r) ==
    LET S == run[r].scope
    IN /\ run[r].at = "claim"
       /\ \A i \in S : rows[i] \in gone \cup {0} /\ heads[i].fence <= run[r].fence
       /\ rows' = [i \in Items |-> IF i \in S THEN run[r].lease ELSE rows[i]]
       /\ heads' = [i \in Items |-> IF i \in S THEN [heads[i] EXCEPT !.fence = run[r].fence]
                                    ELSE heads[i]]
       /\ newest' = [i \in Items |-> IF i \in S THEN run[r].lease ELSE newest[i]]
       /\ run' = [run EXCEPT ![r].at = "load"]
       /\ UNCHANGED <<counter, gone, leases, store, puts, fsck, setup, lost, last>>

\* A row held by a live lease, or a newer fence on a head.
ClaimRefused(r) ==
    /\ run[r].at = "claim"
    /\ \E i \in run[r].scope : rows[i] \notin gone \cup {0} \/ heads[i].fence > run[r].fence
    /\ run' = [run EXCEPT ![r] = Idle]
    /\ gone' = gone \cup {run[r].lease}
    /\ UNCHANGED <<heads, counter, rows, leases, store, puts, fsck, history>>

\* A lease lapses and is revoked; its run is not told and goes on.
Lapse(r) ==
    /\ run[r].at \in {"load", "holds", "commit"} /\ run[r].lease \notin gone
    /\ gone' = gone \cup {run[r].lease}
    /\ UNCHANGED <<heads, counter, rows, leases, store, puts, run, fsck, history>>

\* A run ends and releases, or dies between any two requests and its lease lapses.
End(r) ==
    /\ run[r].at # "idle"
    /\ gone' = gone \cup ({run[r].lease} \ {0})
    /\ run' = [run EXCEPT ![r] = Idle]
    /\ UNCHANGED <<heads, counter, rows, leases, store, puts, fsck, history>>

-----------------------------------------------------------------------------
(***************************************************************************)
(* Reads, writes and folds.                                                *)
(***************************************************************************)
SeqOf(i) == Larger(snap.at[i].seq, heads[i].entry.seq)
Visible(i) == IF heads[i].entry.seq > snap.at[i].seq THEN heads[i].entry ELSE snap.at[i]
Readable == \A i \in Items : heads[i].entry.seq > snap.at[i].seq => heads[i].entry \in objects

LoadView(r) ==
    /\ run[r].at = "load"
    /\ Readable
    /\ run' = [run EXCEPT ![r].at = "holds", ![r].seqs = [i \in Items |-> SeqOf(i)]]
    /\ UNCHANGED <<table, store, puts, fsck, history>>

\* put_entry, for a write based on `expect`, at the next seq after it and the view.
PutEntry(r, i, expect) ==
    LET e == [item |-> i, seq |-> Larger(expect, run[r].seqs[i]) + 1, fence |-> run[r].fence,
              put |-> puts + 1]
    IN /\ puts < setup.puts
       /\ puts' = puts + 1
       /\ objects' = objects \cup {e}
       /\ run' = [run EXCEPT ![r].at = "commit", ![r].expect = expect, ![r].entry = {e}]
       /\ UNCHANGED <<table, snap, garbage, fsck, history>>

Write(r, i) ==
    /\ run[r].at = "holds"
    /\ i \in run[r].scope
    /\ PutEntry(r, i, run[r].seqs[i])

\* head_update's condition: the head where the write is based or without a seq, and
\* at the lease's own fence.
CommitHolds(r, e) ==
    /\ heads[e.item].entry.seq \in {0, run[r].expect}
    /\ heads[e.item].fence = run[r].fence

Commit(r) ==
    \E e \in run[r].entry :
        /\ run[r].at = "commit"
        /\ CommitHolds(r, e)
        /\ heads' = [heads EXCEPT ![e.item].entry = e]
        /\ last' = [last EXCEPT ![e.item] = e]
        /\ run' = [run EXCEPT ![r].at = "holds", ![r].seqs[e.item] = e.seq, ![r].entry = {},
                              ![r].expect = 0]
        /\ UNCHANGED <<counter, rows, gone, leases, store, puts, fsck, setup, lost, newest>>

\* Fenced off, which ends the run, or rebased on the head it met.
CommitRefused(r) ==
    \E e \in run[r].entry :
        /\ run[r].at = "commit"
        /\ ~CommitHolds(r, e)
        /\ \/ /\ heads[e.item].fence # run[r].fence
              /\ run' = [run EXCEPT ![r].at = "over", ![r].entry = {}]
              /\ UNCHANGED <<table, store, puts, fsck, history>>
           \/ /\ heads[e.item].fence = run[r].fence
              /\ PutEntry(r, e.item, heads[e.item].entry.seq)

\* Maintenance.compact: the heads of the items with entries past their watermarks are
\* folded in, the highest fence known is recorded, and the rest listed is garbage.
PastWatermark == {i \in Items : \E e \in objects : e.item = i /\ e.seq > snap.at[i].seq}

Fold ==
    LET effective == {i \in PastWatermark : heads[i].entry.seq > snap.at[i].seq}
        at == [i \in Items |-> IF i \in effective THEN heads[i].entry ELSE snap.at[i]]
        fence == Max({snap.maxFence, counter} \cup {heads[i].fence : i \in PastWatermark})
        superseded == {e \in objects : e.seq <= at[e.item].seq}
    IN /\ snap.gen < setup.folds
       /\ {heads[i].entry : i \in effective} \subseteq objects
       /\ at # snap.at \/ fence # snap.maxFence
       /\ snap' = [gen |-> snap.gen + 1, maxFence |-> fence, at |-> at]
       /\ garbage' = garbage \cup superseded
       /\ UNCHANGED <<table, objects, puts, run, fsck, history>>

Collect ==
    /\ garbage # {}
    /\ objects' = objects \ garbage
    /\ garbage' = {}
    /\ UNCHANGED <<table, snap, puts, run, fsck, history>>

\* The lock table, the journal table, or the one table that is both, is recreated; a
\* check under way when the table goes fails on it and is not followed further.
Lose(locks, journal) ==
    /\ locks \/ journal
    /\ fsck.at \in {"idle", "snap"}
    /\ lost.times < setup.losses
    /\ lost' = [times |-> lost.times + 1, puts |-> puts, leases |-> leases,
                above |-> Min({snap.maxFence} \cup {run[r].above : r \in {q \in Runs : run[q].at = "mint"}})]
    /\ IF locks
       THEN /\ counter' = 0
            /\ rows' = [i \in Items |-> 0]
            /\ gone' = 1..leases
       ELSE UNCHANGED <<counter, rows, gone>>
    /\ heads' = IF journal THEN NoHeads ELSE heads
    /\ UNCHANGED <<leases, store, puts, run, fsck, setup, last, newest>>

-----------------------------------------------------------------------------
(***************************************************************************)
(* fsck (cli/commands/state/journal.py, fsck; Maintenance.fsck and check). *)
(***************************************************************************)
LiveHolds == {i \in Items : rows[i] \notin gone \cup {0}}

\* --rebuild-heads is refused while a run holds a lock; the prompt comes after that.
FsckStarts(rebuild) ==
    /\ setup.checks /\ fsck.at = "idle"
    /\ rebuild => LiveHolds = {}
    /\ fsck' = [NotChecking EXCEPT !.at = "snap", !.rebuild = rebuild]
    /\ UNCHANGED <<table, store, puts, run, history>>

FsckReads ==
    /\ fsck.at = "snap"
    /\ fsck' = [fsck EXCEPT !.at = "list", !.snap = snap]
    /\ UNCHANGED <<table, store, puts, run, history>>

FsckLists ==
    /\ fsck.at = "list"
    /\ fsck' = [fsck EXCEPT !.at = "scan", !.listed = objects, !.keys = objects]
    /\ UNCHANGED <<table, store, puts, run, history>>

\* Maintenance.unlisted: heads past the snapshot whose entries are not among the keys.
Unlisted(c) ==
    {i \in Items : c.heads[i].entry.seq > c.snap.at[i].seq /\ c.heads[i].entry \notin c.keys}

\* Mutant: no second LIST for what was committed after the first.
FsckScansOnce ==
    /\ fsck.at = "scan"
    /\ fsck' = [fsck EXCEPT !.at = "etag", !.heads = heads]
    /\ UNCHANGED <<table, store, puts, run, history>>

FsckScans ==
    LET c == [fsck EXCEPT !.heads = heads]
    IN /\ fsck.at = "scan"
       /\ fsck' = [c EXCEPT !.at = IF Unlisted(c) # {} THEN "relist" ELSE "etag"]
       /\ UNCHANGED <<table, store, puts, run, history>>

FsckRelists ==
    /\ fsck.at = "relist"
    /\ fsck' = [fsck EXCEPT !.at = "etag", !.keys = @ \cup objects]
    /\ UNCHANGED <<table, store, puts, run, history>>

\* An item's highest entry: on a seq tie, that of the higher fence.
Found(c, i) == {e \in c.listed : e.item = i}
IsTop(c, i, t) ==
    /\ t \in Found(c, i)
    /\ \A e \in Found(c, i) : e.seq < t.seq \/ (e.seq = t.seq /\ e.fence <= t.fence)

\* Written under the head's own fence: pending, not lost.
Pending(c, t) == c.heads[t.item].fence # 0 /\ t.fence = c.heads[t.item].fence

\* Mutant: every head with a fence and no seq is taken for a pending write.
LostHeadsUnfenced(c) ==
    {t \in c.listed : /\ IsTop(c, t.item, t)
                      /\ c.heads[t.item].entry.seq = 0 /\ t.seq > c.snap.at[t.item].seq
                      /\ c.heads[t.item].fence = 0}

\* The top entries past the snapshot of items whose head has no seq.
LostHeads(c) ==
    {t \in c.listed : /\ IsTop(c, t.item, t)
                      /\ c.heads[t.item].entry.seq = 0 /\ t.seq > c.snap.at[t.item].seq
                      /\ ~Pending(c, t)}

\* The snapshot was replaced meanwhile: the check starts over.
FsckRestarts ==
    /\ fsck.at = "etag"
    /\ snap.gen # fsck.snap.gen
    /\ fsck' = [NotChecking EXCEPT !.at = "snap", !.rebuild = fsck.rebuild]
    /\ UNCHANGED <<table, store, puts, run, history>>

FsckChecks ==
    /\ fsck.at = "etag"
    /\ snap.gen = fsck.snap.gen
    /\ \E top \in SUBSET LostHeads(fsck) :
          /\ {t.item : t \in top} = {t.item : t \in LostHeads(fsck)}
          /\ \A t, u \in top : t.item = u.item => t = u
          /\ fsck' = [fsck EXCEPT !.at = "rebuild", !.missing = Unlisted(fsck),
                         !.headless = {t.item : t \in top},
                         !.todo = IF fsck.rebuild THEN top ELSE {}]
    /\ UNCHANGED <<table, store, puts, run, history>>

\* Mutant: the head is pointed at the entry whatever it holds by now.
FsckRebuildsBlindly(t) ==
    /\ fsck.at = "rebuild"
    /\ t \in objects
    /\ heads' = [heads EXCEPT ![t.item].entry = t,
                              ![t.item].fence = IF @ = 0 THEN t.fence ELSE @]
    /\ fsck' = [fsck EXCEPT !.todo = @ \ {t}, !.rebuilt = @ \cup {t.item}]
    /\ UNCHANGED <<counter, rows, gone, leases, store, puts, run, history>>

\* rebuild_head: only a head still without a seq, keeping any fence it has.
FsckRebuilds(t) ==
    /\ fsck.at = "rebuild"
    /\ t \in objects /\ heads[t.item].entry.seq = 0
    /\ heads' = [heads EXCEPT ![t.item].entry = t,
                              ![t.item].fence = IF @ = 0 THEN t.fence ELSE @]
    /\ fsck' = [fsck EXCEPT !.todo = @ \ {t}, !.rebuilt = @ \cup {t.item}]
    /\ UNCHANGED <<counter, rows, gone, leases, store, puts, run, history>>

\* The entry vanished, or a commit came first: not lost.
FsckSkips(t) ==
    /\ fsck.at = "rebuild"
    /\ t \notin objects \/ heads[t.item].entry.seq # 0
    /\ fsck' = [fsck EXCEPT !.todo = @ \ {t}]
    /\ UNCHANGED <<table, store, puts, run, history>>

\* The report goes out.
Reported == fsck.at = "rebuild" /\ fsck.todo = {}

FsckReports ==
    /\ Reported
    /\ fsck' = NotChecking
    /\ UNCHANGED <<table, store, puts, run, history>>

Running(r) ==
    \/ \E S \in SUBSET Items \ {{}} : Asks(r, S)
    \/ Mint(r)
    \/ Claim(r)
    \/ ClaimRefused(r)
    \/ Lapse(r)
    \/ End(r)
    \/ LoadView(r)
    \/ \E i \in Items : Write(r, i)
    \/ Commit(r)
    \/ CommitRefused(r)

Checking ==
    \/ \E rebuild \in BOOLEAN : FsckStarts(rebuild)
    \/ FsckReads
    \/ FsckLists
    \/ FsckScans
    \/ FsckRelists
    \/ FsckRestarts
    \/ FsckChecks
    \/ \E t \in fsck.todo : FsckRebuilds(t)
    \/ \E t \in fsck.todo : FsckSkips(t)
    \/ FsckReports

Next ==
    \/ \E r \in Runs : Running(r)
    \/ Checking
    \/ Fold
    \/ Collect
    \/ \E locks, journal \in BOOLEAN : Lose(locks, journal)

Spec == Init /\ [][Next]_vars

-----------------------------------------------------------------------------
(***************************************************************************)
(* Properties.                                                             *)
(***************************************************************************)
\* A fence minted after a loss cannot match one a paused run holds, as a fold had
\* recorded some fence before it (fences.py, next_fence).
Seeded == lost.times = 0 \/ lost.above > 0
GrantedAnew(i) == lost.times = 0 \/ newest[i] > lost.leases

\* After tables are lost and recreated, a run paused since before still commits
\* nothing to an item that was granted anew: only the lease that claimed it last does
\* (fences.py: "one of them may still be held by a paused run whose commits must keep
\* failing").
NewestHolderCommits ==
    [][\A r \in Runs, i \in Items :
          (/\ Seeded /\ GrantedAnew(i) /\ run[r].at = "commit" /\ run'[r].at = "holds"
           /\ heads'[i].entry # heads[i].entry)
          => run[r].lease = newest[i]]_vars

\* A commit's entry put since the loss by a run that has yet to commit it.
InDoubt(i) == \E e \in objects : e.item = i /\ e.put > Larger(lost.puts, last[i].put)

\* When fsck calls a state healthy, no commit is lost: each item's last one is in the
\* snapshot, under its head, or replaced, unless a write made since the loss leaves
\* it in doubt (FsckReport.healthy: "Nothing is left broken: no missing entry, and
\* every lost head rebuilt").
HealthyMeansWhole ==
    (/\ Reported /\ Seeded
     /\ fsck.missing = {} /\ fsck.headless \subseteq fsck.rebuilt)
    => \A i \in Items : InDoubt(i) \/ last[i].seq <= SeqOf(i)

\* fsck never calls a committed entry missing because a commit, a fold or a deletion
\* came between its requests (maintenance.py, fsck: "re-LIST, as a read does, before
\* calling any of them missing").
NoFalseAlarm == fsck.missing = {}

\* Short of a loss nothing ever takes a commit back, a rebuild that races the runs'
\* commits and folds included (maintenance.py, rebuild_head: "committed
\* concurrently: not lost").
NothingTakenBack ==
    [][lost' = lost => \A i \in Items : SeqOf(i)' >= SeqOf(i)]_vars

\* The same of every item, granted anew or not (the same comment).
PausedRunsStayOut ==
    [][\A r \in Runs, i \in Items :
          (/\ Seeded /\ run[r].at = "commit" /\ run'[r].at = "holds"
           /\ heads'[i].entry # heads[i].entry)
          => run[r].lease = newest[i]]_vars

\* While no table was lost, --rebuild-heads commits nothing
\* (tests/state/s3/test_journal_races.py: "must not commit what never was").
NothingResurrected == lost.times = 0 => fsck.rebuilt = {}
=============================================================================
