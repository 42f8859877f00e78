--------------------------- MODULE S3RecoveryProofs ---------------------------
(***************************************************************************)
(* What fsck and the recovery keep for any items, runs, gap and setups:    *)
(* no false alarm, and nothing taken back short of a loss; and after one   *)
(* loss, that a paused run stays out of what was granted anew and that     *)
(* fsck finds every commit the loss took.                                  *)
(***************************************************************************)
EXTENDS S3Recovery, WellFoundedInduction, TLAPS

\* A value where a head's entry, a snapshot's or a put one is expected.
IsEntry(e) == e.item \in Items /\ e.seq \in Nat
IsHeads(hs) ==
    /\ DOMAIN hs = Items
    /\ \A i \in Items : /\ DOMAIN hs[i] = {"fence", "entry"}
                        /\ hs[i].entry.item = i /\ hs[i].entry.seq \in Nat

RunFields == {"at", "above", "fence", "lease", "scope", "seqs", "expect", "entry"}
FsckFields == {"at", "rebuild", "snap", "listed", "keys", "heads", "todo", "missing", "headless",
               "rebuilt"}

\* Nothing is said of the fences here: FenceInv does.
Shape ==
    /\ IsHeads(heads)
    /\ snap.gen \in Nat /\ \A i \in Items : snap.at[i].seq \in Nat
    /\ \A e \in objects : IsEntry(e)
    /\ DOMAIN run = Runs
    /\ \A r \in Runs : /\ DOMAIN run[r] = RunFields
                       /\ run[r].seqs \in [Items -> Nat] /\ run[r].expect \in Nat
                       /\ \A e \in run[r].entry : IsEntry(e)
    /\ DOMAIN fsck = FsckFields /\ IsHeads(fsck.heads)
    /\ \A e \in fsck.listed \cup fsck.todo : IsEntry(e)

\* An entry under a head, or about to be, is stored for as long as no snapshot has it.
Stored ==
    /\ \A i \in Items : heads[i].entry.seq > snap.at[i].seq => heads[i].entry \in objects
    /\ \A r \in Runs : \A e \in run[r].entry : e.seq > snap.at[e.item].seq => e \in objects

\* What a fold superseded is behind the snapshot.
Superseded == \A e \in garbage : IsEntry(e) /\ e.seq <= snap.at[e.item].seq

\* A put goes past what its write is based on.
PutsPast == \A r \in Runs : \A e \in run[r].entry : e.seq > run[r].expect

\* While the snapshot fsck read stands, each head it read past that snapshot has its
\* entry stored, and among the keys once the second LIST is in.
Current == fsck.at \in {"list", "scan", "relist", "etag"} /\ fsck.snap.gen = snap.gen
Checked ==
    /\ fsck.at \in {"list", "scan", "relist", "etag"} =>
          fsck.snap.gen \in Nat /\ fsck.snap.gen <= snap.gen
    /\ Current => fsck.snap = snap
    /\ Current /\ fsck.at = "relist" =>
          \A i \in Items : fsck.heads[i].entry.seq > snap.at[i].seq
                               => fsck.heads[i].entry \in objects
    /\ Current /\ fsck.at = "etag" => Unlisted(fsck) = {}
    /\ fsck.missing = {}

RecoveryInv == Shape /\ Stored /\ Superseded /\ PutsPast /\ Checked


LEMMA RecoveryInit == Init => RecoveryInv
<1> SUFFICES ASSUME Init PROVE RecoveryInv
  OBVIOUS
<1>1. Shape
  BY DEF Init, Shape, IsHeads, NoHeads, NoEntry, Bare, Idle, RunFields, NotChecking, FsckFields
<1>2. Stored /\ Superseded /\ PutsPast
  BY DEF Init, Stored, Superseded, PutsPast, NoHeads, NoEntry, Bare, Idle
<1>3. Checked
  BY DEF Init, Checked, Current, NotChecking
<1> QED
  BY <1>1, <1>2, <1>3 DEF RecoveryInv

LEMMA CheckKept ==
  ASSUME Checked, UNCHANGED <<snap, fsck>>, objects \subseteq objects'
  PROVE  Checked'
  BY DEF Checked, Current, Unlisted

\* A step of a run that stores nothing and commits nothing.
LEMMA RunMoves ==
  ASSUME RecoveryInv, UNCHANGED <<store, fsck>>, IsHeads(heads'), DOMAIN run' = Runs,
         \A i \in Items : heads'[i].entry = heads[i].entry,
         NEW r \in Runs, \A q \in Runs \ {r} : run'[q] = run[q],
         DOMAIN run'[r] = RunFields, run'[r].seqs \in [Items -> Nat],
         \/ run'[r].entry = {} /\ run'[r].expect \in Nat
         \/ run'[r].entry = run[r].entry /\ run'[r].expect = run[r].expect
  PROVE  RecoveryInv'
<1> USE DEF store
<1>1. \A q \in Runs : \/ run'[q].entry = {} /\ run'[q].expect \in Nat
                      \/ run'[q].entry = run[q].entry /\ run'[q].expect = run[q].expect
  OBVIOUS
<1>2. Shape'
  BY <1>1 DEF RecoveryInv, Shape
<1>3. Stored' /\ Superseded' /\ PutsPast'
  BY <1>1 DEF RecoveryInv, Stored, Superseded, PutsPast
<1>4. Checked'
  BY CheckKept DEF RecoveryInv
<1> QED
  BY <1>2, <1>3, <1>4 DEF RecoveryInv

\* Granting, losing and giving back leases leaves the journal as it is.
LEMMA Locking ==
  ASSUME RecoveryInv, NEW r \in Runs,
         \/ \E S \in SUBSET Items \ {{}} : Asks(r, S)
         \/ Mint(r) \/ Claim(r) \/ ClaimRefused(r) \/ Lapse(r) \/ End(r) \/ LoadView(r)
  PROVE  RecoveryInv'
<1> USE DEF table
<1>s. /\ IsHeads(heads) /\ DOMAIN run = Runs /\ DOMAIN run[r] = RunFields
      /\ run[r].seqs \in [Items -> Nat] /\ run[r].expect \in Nat
      /\ \A i \in Items : snap.at[i].seq \in Nat /\ heads[i].entry.seq \in Nat
  BY DEF RecoveryInv, Shape, IsHeads
<1>i. DOMAIN Idle = RunFields /\ Idle.seqs \in [Items -> Nat] /\ Idle.expect \in Nat /\ Idle.entry = {}
  BY DEF Idle, RunFields
<1>1. ASSUME NEW S, Asks(r, S) PROVE RecoveryInv'
  BY <1>1, <1>s, <1>i, RunMoves DEF Asks, RunFields
<1>2. CASE Mint(r)
  BY <1>2, <1>s, RunMoves DEF Mint, RunFields
<1>3. CASE Claim(r)
  <2>1. IsHeads(heads') /\ \A i \in Items : heads'[i].entry = heads[i].entry
    BY <1>3, <1>s DEF Claim, IsHeads
  <2> QED
    BY <1>3, <1>s, <2>1, RunMoves DEF Claim, RunFields
<1>4. CASE ClaimRefused(r)
  BY <1>4, <1>s, <1>i, RunMoves DEF ClaimRefused
<1>5. CASE Lapse(r)
  BY <1>5, <1>s, RunMoves DEF Lapse
<1>6. CASE End(r)
  BY <1>6, <1>s, <1>i, RunMoves DEF End
<1>7. CASE LoadView(r)
  <2>1. [i \in Items |-> SeqOf(i)] \in [Items -> Nat]
    BY <1>s DEF SeqOf, Larger
  <2> QED
    BY <1>7, <1>s, <2>1, RunMoves DEF LoadView, RunFields
<1> QED
  BY <1>1, <1>2, <1>3, <1>4, <1>5, <1>6, <1>7

LEMMA Putting ==
  ASSUME RecoveryInv, NEW r \in Runs, NEW i \in Items, NEW expect \in Nat, PutEntry(r, i, expect)
  PROVE  RecoveryInv'
<1> DEFINE e == [item |-> i, seq |-> Larger(expect, run[r].seqs[i]) + 1, fence |-> run[r].fence,
                 put |-> puts + 1]
<1>s. DOMAIN run = Runs /\ DOMAIN run[r] = RunFields /\ run[r].seqs \in [Items -> Nat]
  BY DEF RecoveryInv, Shape
<1>1. IsEntry(e) /\ e.seq > expect
  BY <1>s DEF IsEntry, Larger
<1>2. objects' = objects \cup {e} /\ UNCHANGED <<heads, snap, garbage, fsck>>
      /\ run' = [run EXCEPT ![r].at = "commit", ![r].expect = expect, ![r].entry = {e}]
  BY DEF PutEntry, table
<1> HIDE DEF e
<1>3. /\ DOMAIN run' = Runs /\ DOMAIN run'[r] = RunFields
      /\ run'[r].seqs = run[r].seqs /\ run'[r].expect = expect /\ run'[r].entry = {e}
      /\ \A q \in Runs \ {r} : run'[q] = run[q]
  BY <1>2, <1>s DEF RunFields
<1>4. Shape'
  BY <1>1, <1>2, <1>3 DEF RecoveryInv, Shape
<1>5. Stored' /\ Superseded' /\ PutsPast'
  BY <1>1, <1>2, <1>3 DEF RecoveryInv, Stored, Superseded, PutsPast
<1>6. Checked'
  BY <1>2, CheckKept DEF RecoveryInv
<1> QED
  BY <1>4, <1>5, <1>6 DEF RecoveryInv

LEMMA Writing ==
  ASSUME RecoveryInv, NEW r \in Runs,
         (\E i \in Items : Write(r, i)) \/ Commit(r) \/ CommitRefused(r)
  PROVE  RecoveryInv'
<1>s. /\ IsHeads(heads) /\ DOMAIN run = Runs /\ DOMAIN run[r] = RunFields
      /\ run[r].seqs \in [Items -> Nat] /\ run[r].expect \in Nat
      /\ \A e \in run[r].entry : IsEntry(e)
  BY DEF RecoveryInv, Shape
<1>1. ASSUME NEW i \in Items, Write(r, i) PROVE RecoveryInv'
  BY <1>1, <1>s, Putting DEF Write
<1>2. CASE CommitRefused(r)
  <2>1. PICK e \in run[r].entry :
          \/ /\ run' = [run EXCEPT ![r].at = "over", ![r].entry = {}]
             /\ UNCHANGED <<table, store, puts, fsck, history>>
          \/ PutEntry(r, e.item, heads[e.item].entry.seq)
    BY <1>2 DEF CommitRefused
  <2>2. e.item \in Items /\ heads[e.item].entry.seq \in Nat
    BY <1>s DEF IsEntry, IsHeads
  <2>3. CASE run' = [run EXCEPT ![r].at = "over", ![r].entry = {}]
             /\ UNCHANGED <<table, store, puts, fsck, history>>
    BY <1>s, <2>3, RunMoves DEF table, RunFields
  <2> QED
    BY <2>1, <2>2, <2>3, Putting
<1>3. CASE Commit(r)
  <2>1. PICK e \in run[r].entry :
          /\ heads' = [heads EXCEPT ![e.item].entry = e]
          /\ run' = [run EXCEPT ![r].at = "holds", ![r].seqs[e.item] = e.seq, ![r].entry = {},
                                ![r].expect = 0]
          /\ UNCHANGED <<store, fsck>>
    BY <1>3 DEF Commit
  <2>2. e.item \in Items /\ e.seq \in Nat /\ (e.seq > snap.at[e.item].seq => e \in objects)
    BY <1>s DEF IsEntry, RecoveryInv, Stored
  <2>3. IsHeads(heads') /\ heads'[e.item].entry = e
        /\ \A i \in Items \ {e.item} : heads'[i].entry = heads[i].entry
    BY <1>s, <2>1, <2>2 DEF IsHeads
  <2>4. /\ DOMAIN run' = Runs /\ DOMAIN run'[r] = RunFields
        /\ run'[r].seqs \in [Items -> Nat] /\ run'[r].expect = 0 /\ run'[r].entry = {}
        /\ \A q \in Runs \ {r} : run'[q] = run[q]
    BY <1>s, <2>1, <2>2 DEF RunFields
  <2>5. Shape'
    BY <2>1, <2>3, <2>4 DEF RecoveryInv, Shape, store
  <2>6. Stored'
    <3>1. \A i \in Items : heads'[i].entry.seq > snap.at[i].seq => heads'[i].entry \in objects
      BY <2>2, <2>3 DEF RecoveryInv, Stored
    <3>2. \A q \in Runs : \A d \in run'[q].entry : d.seq > snap.at[d.item].seq => d \in objects
      BY <2>4 DEF RecoveryInv, Stored
    <3> QED
      BY <2>1, <3>1, <3>2 DEF Stored, store
  <2>7. Superseded' /\ PutsPast'
    BY <2>1, <2>4 DEF RecoveryInv, Superseded, PutsPast, store
  <2>8. Checked'
    BY <2>1, CheckKept DEF RecoveryInv, store
  <2> QED
    BY <2>5, <2>6, <2>7, <2>8 DEF RecoveryInv
<1> QED
  BY <1>1, <1>2, <1>3


LEMMA Folding == ASSUME RecoveryInv, Fold PROVE RecoveryInv'
<1> DEFINE effective == {i \in PastWatermark : heads[i].entry.seq > snap.at[i].seq}
<1>1. /\ snap'.gen = snap.gen + 1
      /\ \A i \in Items : snap'.at[i] = IF i \in effective THEN heads[i].entry ELSE snap.at[i]
      /\ garbage' = garbage \cup {e \in objects : e.seq <= snap'.at[e.item].seq}
      /\ UNCHANGED <<table, objects, puts, run, fsck>>
  <2>1. garbage' = garbage \cup {e \in objects :
           e.seq <= [i \in Items |-> IF i \in effective THEN heads[i].entry ELSE snap.at[i]][e.item].seq}
    BY DEF Fold
  <2>2. snap'.at = [i \in Items |-> IF i \in effective THEN heads[i].entry ELSE snap.at[i]]
        /\ snap'.gen = snap.gen + 1
    BY DEF Fold
  <2>3. UNCHANGED <<table, objects, puts, run, fsck>>
    BY DEF Fold
  <2> QED
    BY <2>1, <2>2, <2>3
<1>2. \A i \in Items : /\ snap'.at[i].seq \in Nat /\ snap'.at[i].seq >= snap.at[i].seq
                       /\ snap.at[i].seq \in Nat /\ heads[i].entry.seq \in Nat
  BY <1>1 DEF RecoveryInv, Shape, IsHeads
<1>3. Shape'
  BY <1>1, <1>2 DEF RecoveryInv, Shape, table
<1>4. Stored'
  <2>1. \A i \in Items : heads[i].entry.seq > snap'.at[i].seq => heads[i].entry \in objects
    BY <1>2 DEF RecoveryInv, Stored
  <2>2. ASSUME NEW r \in Runs, NEW e \in run[r].entry, e.seq > snap'.at[e.item].seq
        PROVE  e \in objects
    <3>1. e.item \in Items /\ e.seq \in Nat
      BY DEF RecoveryInv, Shape, IsEntry
    <3>2. e.seq > snap.at[e.item].seq
      BY <1>2, <2>2, <3>1
    <3> QED
      BY <3>2 DEF RecoveryInv, Stored
  <2> QED
    BY <1>1, <2>1, <2>2 DEF Stored, table
<1>5. Superseded'
  <2> SUFFICES ASSUME NEW e \in garbage' PROVE IsEntry(e) /\ e.seq <= snap'.at[e.item].seq
    BY <1>1 DEF Superseded
  <2>1. CASE e \in garbage
    <3>1. IsEntry(e) /\ e.seq <= snap.at[e.item].seq
      BY <2>1 DEF RecoveryInv, Superseded
    <3> QED
      BY <1>2, <3>1 DEF IsEntry
  <2>2. CASE e \in objects /\ e.seq <= snap'.at[e.item].seq
    BY <2>2 DEF RecoveryInv, Shape
  <2> QED
    BY <1>1, <2>1, <2>2
<1>6. PutsPast'
  BY <1>1 DEF RecoveryInv, PutsPast
<1>7. Checked'
  <2>1. snap.gen \in Nat
    BY DEF RecoveryInv, Shape
  <2> QED
    BY <1>1, <2>1 DEF RecoveryInv, Checked, Current
<1> QED
  BY <1>3, <1>4, <1>5, <1>6, <1>7 DEF RecoveryInv

LEMMA Collecting == ASSUME RecoveryInv, Collect PROVE RecoveryInv'
<1>1. objects' = objects \ garbage /\ garbage' = {} /\ UNCHANGED <<heads, snap, run, fsck>>
  BY DEF Collect, table
<1>2. \A e : e.item \in Items /\ e.seq \in Nat /\ e.seq > snap.at[e.item].seq => e \notin garbage
  BY DEF RecoveryInv, Superseded, IsEntry, Shape
<1>3. Shape' /\ Superseded' /\ PutsPast'
  BY <1>1 DEF RecoveryInv, Shape, Superseded, PutsPast
<1>4. Stored'
  BY <1>1, <1>2 DEF RecoveryInv, Stored, Shape, IsHeads, IsEntry
<1>5. Checked'
  <2>1. IsHeads(fsck.heads)
    BY DEF RecoveryInv, Shape
  <2>2. Current /\ fsck.at = "relist" =>
          \A i \in Items : fsck.heads[i].entry.seq > snap.at[i].seq
                               => fsck.heads[i].entry \in objects'
    BY <1>1, <1>2, <2>1 DEF RecoveryInv, Checked, IsHeads
  <2> QED
    BY <1>1, <2>2 DEF RecoveryInv, Checked, Current, Unlisted
<1> QED
  BY <1>3, <1>4, <1>5 DEF RecoveryInv

LEMMA Losing == ASSUME RecoveryInv, NEW l, NEW j, Lose(l, j) PROVE RecoveryInv'
<1>1. /\ heads' = (IF j THEN NoHeads ELSE heads) /\ fsck.at \in {"idle", "snap"}
      /\ UNCHANGED <<snap, objects, garbage, run, fsck>>
  BY DEF Lose, store
<1>2. IsHeads(NoHeads) /\ \A i \in Items : NoHeads[i].entry.seq = 0
  BY DEF IsHeads, NoHeads, NoEntry
<1>3. Shape'
  BY <1>1, <1>2 DEF RecoveryInv, Shape
<1>4. Stored'
  <2>1. \A i \in Items : snap.at[i].seq \in Nat
    BY DEF RecoveryInv, Shape
  <2> QED
    BY <1>1, <1>2, <2>1 DEF RecoveryInv, Stored
<1>5. Superseded' /\ PutsPast' /\ Checked'
  BY <1>1 DEF RecoveryInv, Superseded, PutsPast, Checked, Current
<1> QED
  BY <1>3, <1>4, <1>5 DEF RecoveryInv

\* A step of fsck that writes nothing.
LEMMA CheckMoves ==
  ASSUME RecoveryInv, UNCHANGED <<table, store, run>>, DOMAIN fsck' = FsckFields,
         IsHeads(fsck'.heads), \A e \in fsck'.listed \cup fsck'.todo : IsEntry(e), Checked'
  PROVE  RecoveryInv'
<1> USE DEF table, store
<1>1. Shape'
  BY DEF RecoveryInv, Shape
<1>2. Stored' /\ Superseded' /\ PutsPast'
  BY DEF RecoveryInv, Stored, Superseded, PutsPast
<1> QED
  BY <1>1, <1>2 DEF RecoveryInv

LEMMA CheckingKeeps == ASSUME RecoveryInv, Checking PROVE RecoveryInv'
<1>s. /\ IsHeads(heads) /\ IsHeads(fsck.heads) /\ DOMAIN fsck = FsckFields /\ snap.gen \in Nat
      /\ \A e \in fsck.listed \cup fsck.todo : IsEntry(e)
      /\ \A e \in objects : IsEntry(e)
      /\ Checked /\ Stored
  BY DEF RecoveryInv, Shape
<1>i. /\ DOMAIN NotChecking = FsckFields /\ IsHeads(NotChecking.heads) /\ NotChecking.missing = {}
      /\ NotChecking.listed = {} /\ NotChecking.todo = {}
  BY DEF NotChecking, FsckFields, IsHeads, NoHeads, NoEntry
<1>u. Checking => UNCHANGED snap
  BY DEF Checking, FsckStarts, FsckReads, FsckLists, FsckScans, FsckRelists, FsckRestarts, FsckChecks,
     FsckRebuilds, FsckSkips, FsckReports, store
<1> USE DEF FsckFields
<1>1. ASSUME NEW rebuild, FsckStarts(rebuild) PROVE RecoveryInv'
  <2>1. fsck' = [NotChecking EXCEPT !.at = "snap", !.rebuild = rebuild]
        /\ UNCHANGED <<table, store, run>>
    BY <1>1 DEF FsckStarts
  <2>2. Checked'
    BY <1>i, <2>1 DEF Checked, Current
  <2> QED
    BY <1>i, <2>1, <2>2, CheckMoves
<1>2. CASE FsckReads
  <2>1. fsck' = [fsck EXCEPT !.at = "list", !.snap = snap] /\ UNCHANGED <<table, store, run>>
    BY <1>2 DEF FsckReads
  <2>2. Checked'
    BY <1>s, <1>u, <2>1 DEF Checked, Current, store
  <2> QED
    BY <1>s, <2>1, <2>2, CheckMoves
<1>3. CASE FsckLists
  <2>1. fsck' = [fsck EXCEPT !.at = "scan", !.listed = objects, !.keys = objects]
        /\ fsck.at = "list" /\ UNCHANGED <<table, store, run>>
    BY <1>3 DEF FsckLists
  <2>2. Checked'
    BY <1>s, <2>1 DEF Checked, Current, store
  <2> QED
    BY <1>s, <2>1, <2>2, CheckMoves
<1>4. CASE FsckScans
  <2> DEFINE c == [fsck EXCEPT !.heads = heads]
  <2>1. /\ fsck.at = "scan" /\ UNCHANGED <<table, store, run>>
        /\ fsck' = [c EXCEPT !.at = IF Unlisted(c) # {} THEN "relist" ELSE "etag"]
    BY <1>4 DEF FsckScans
  <2>2. /\ DOMAIN fsck' = FsckFields /\ fsck'.heads = heads /\ fsck'.at \in {"relist", "etag"}
        /\ fsck'.snap = fsck.snap /\ fsck'.keys = fsck.keys /\ fsck'.listed = fsck.listed
        /\ fsck'.todo = fsck.todo /\ fsck'.missing = fsck.missing
        /\ fsck'.at = "etag" => Unlisted(c) = {}
    BY <1>s, <2>1
  <2>3. Unlisted(fsck)' = Unlisted(c)
    BY <1>s, <2>2 DEF Unlisted
  <2>4. \A i \in Items : heads[i].entry.seq > snap.at[i].seq => heads[i].entry \in objects
    BY <1>s DEF Stored
  <2> HIDE DEF c
  <2>5. Checked'
    BY <1>s, <2>1, <2>2, <2>3, <2>4 DEF Checked, Current, store
  <2> QED
    BY <1>s, <2>1, <2>2, <2>5, CheckMoves
<1>5. CASE FsckRelists
  <2>1. fsck' = [fsck EXCEPT !.at = "etag", !.keys = @ \cup objects]
        /\ fsck.at = "relist" /\ UNCHANGED <<table, store, run>>
    BY <1>5 DEF FsckRelists
  <2>2. Current => Unlisted(fsck)' = {}
    <3> SUFFICES ASSUME Current, NEW i \in Items, fsck.heads[i].entry.seq > fsck.snap.at[i].seq
                 PROVE  fsck.heads[i].entry \in fsck.keys \cup objects
      BY <1>s, <2>1 DEF Unlisted
    <3> QED
      BY <1>s, <2>1 DEF Checked
  <2>3. Checked'
    BY <1>s, <2>1, <2>2 DEF Checked, Current, store
  <2> QED
    BY <1>s, <2>1, <2>3, CheckMoves
<1>6. CASE FsckRestarts
  <2>1. fsck' = [NotChecking EXCEPT !.at = "snap", !.rebuild = fsck.rebuild]
        /\ UNCHANGED <<table, store, run>>
    BY <1>6 DEF FsckRestarts
  <2>2. Checked'
    BY <1>i, <2>1 DEF Checked, Current
  <2> QED
    BY <1>i, <2>1, <2>2, CheckMoves
<1>7. CASE FsckChecks
  <2>1. PICK top \in SUBSET LostHeads(fsck) :
          fsck' = [fsck EXCEPT !.at = "rebuild", !.missing = Unlisted(fsck),
                         !.headless = {t.item : t \in top},
                         !.todo = IF fsck.rebuild THEN top ELSE {}]
    BY <1>7 DEF FsckChecks
  <2>2. fsck.at = "etag" /\ snap.gen = fsck.snap.gen /\ UNCHANGED <<table, store, run>>
    BY <1>7 DEF FsckChecks
  <2>3. Unlisted(fsck) = {}
    BY <1>s, <2>2 DEF Checked, Current
  <2>4. Checked'
    BY <1>s, <2>1, <2>2, <2>3 DEF Checked, Current
  <2>5. top \subseteq fsck.listed
    BY DEF LostHeads
  <2> QED
    BY <1>s, <2>1, <2>2, <2>4, <2>5, CheckMoves
<1>8. ASSUME NEW t \in fsck.todo, FsckRebuilds(t) PROVE RecoveryInv'
  <2>1. /\ t \in objects /\ fsck.at = "rebuild" /\ UNCHANGED <<store, run>>
        /\ heads' = [heads EXCEPT ![t.item].entry = t,
                                  ![t.item].fence = IF @ = 0 THEN t.fence ELSE @]
        /\ fsck' = [fsck EXCEPT !.todo = @ \ {t}, !.rebuilt = @ \cup {t.item}]
    BY <1>8 DEF FsckRebuilds
  <2>2. t.item \in Items /\ t.seq \in Nat
    BY <1>s DEF IsEntry
  <2>3. IsHeads(heads') /\ heads'[t.item].entry = t
        /\ \A i \in Items \ {t.item} : heads'[i].entry = heads[i].entry
    BY <1>s, <2>1, <2>2 DEF IsHeads
  <2>4. /\ DOMAIN fsck' = FsckFields /\ fsck'.heads = fsck.heads /\ fsck'.at = "rebuild"
        /\ fsck'.listed = fsck.listed /\ fsck'.todo \subseteq fsck.todo
        /\ fsck'.missing = fsck.missing
    BY <1>s, <2>1
  <2>5. Shape'
    BY <2>1, <2>3, <2>4 DEF RecoveryInv, Shape, store
  <2>6. Stored'
    <3>1. \A i \in Items : heads'[i].entry.seq > snap.at[i].seq => heads'[i].entry \in objects
      BY <2>1, <2>3 DEF RecoveryInv, Stored
    <3> QED
      BY <1>s, <2>1, <3>1 DEF Stored, store
  <2>7. Superseded' /\ PutsPast'
    BY <2>1 DEF RecoveryInv, Superseded, PutsPast, store
  <2>8. Checked'
    BY <1>s, <2>1, <2>4 DEF Checked, Current
  <2> QED
    BY <2>5, <2>6, <2>7, <2>8 DEF RecoveryInv
<1>9. ASSUME NEW t \in fsck.todo, FsckSkips(t) PROVE RecoveryInv'
  <2>1. fsck.at = "rebuild" /\ fsck' = [fsck EXCEPT !.todo = @ \ {t}]
        /\ UNCHANGED <<table, store, run>>
    BY <1>9 DEF FsckSkips
  <2>2. Checked'
    BY <1>s, <2>1 DEF Checked, Current
  <2> QED
    BY <1>s, <2>1, <2>2, CheckMoves
<1>10. CASE FsckReports
  <2>1. fsck' = NotChecking /\ UNCHANGED <<table, store, run>>
    BY <1>10 DEF FsckReports
  <2>2. Checked'
    BY <1>i, <2>1 DEF Checked, Current, NotChecking
  <2> QED
    BY <1>i, <2>1, <2>2, CheckMoves
<1> QED
  BY <1>1, <1>2, <1>3, <1>4, <1>5, <1>6, <1>7, <1>8, <1>9, <1>10 DEF Checking


LEMMA RecoveryInvariance == Spec => []RecoveryInv
<1>1. RecoveryInv /\ [Next]_vars => RecoveryInv'
  <2> SUFFICES ASSUME RecoveryInv, [Next]_vars PROVE RecoveryInv'
    OBVIOUS
  <2>1. CASE UNCHANGED vars
    BY <2>1 DEF vars, table, store, RecoveryInv, Shape, Stored, Superseded, PutsPast, Checked, Current,
       Unlisted
  <2>2. ASSUME NEW r \in Runs, Running(r) PROVE RecoveryInv'
    BY <2>2, Locking, Writing DEF Running
  <2> QED
    BY <2>1, <2>2, CheckingKeeps, Folding, Collecting, Losing DEF Next
<1> QED
  BY <1>1, RecoveryInit, PTL DEF Spec

LossesTyped == lost.times \in Nat

LEMMA LossesCounted == Spec => []LossesTyped
<1>1. Init => LossesTyped
  BY DEF Init, LossesTyped
<1>2. LossesTyped /\ [Next]_vars => LossesTyped'
  <2> USE DEF LossesTyped
  <2> SUFFICES ASSUME lost.times \in Nat, [Next]_vars PROVE lost'.times \in Nat
    OBVIOUS
  <2>1. ASSUME NEW l, NEW j, Lose(l, j) PROVE lost'.times \in Nat
    BY <2>1 DEF Lose
  <2>2. ASSUME NEW r \in Runs, Running(r) PROVE UNCHANGED lost
    <3>1. CASE Mint(r) \/ Claim(r) \/ ClaimRefused(r) \/ Lapse(r) \/ End(r) \/ LoadView(r)
      BY <3>1 DEF Mint, Claim, ClaimRefused, Lapse, End, LoadView, history
    <3>2. CASE \E S \in SUBSET Items \ {{}} : Asks(r, S)
      BY <3>2 DEF Asks, history
    <3>3. CASE (\E i \in Items : Write(r, i)) \/ Commit(r) \/ CommitRefused(r)
      BY <3>3 DEF Write, PutEntry, Commit, CommitRefused, history
    <3> QED
      BY <2>2, <3>1, <3>2, <3>3 DEF Running
  <2>3. CASE Checking
    BY <2>3 DEF Checking, FsckStarts, FsckReads, FsckLists, FsckScans, FsckRelists, FsckRestarts,
       FsckChecks, FsckRebuilds, FsckSkips, FsckReports, history
  <2>4. CASE Fold \/ Collect \/ UNCHANGED vars
    BY <2>4 DEF Fold, Collect, vars, history
  <2> QED
    BY <2>1, <2>2, <2>3, <2>4 DEF Next
<1> QED
  BY <1>1, <1>2, PTL DEF Spec

\* Maintenance.fsck lists again before it calls an entry missing, and starts over when a
\* fold replaced the snapshot: for any number of runs and folds under way, and whatever was
\* lost before it began, it never calls missing an entry that is stored.
THEOREM FsckRaisesNoFalseAlarm == Spec => []NoFalseAlarm
<1>1. RecoveryInv => NoFalseAlarm
  BY DEF RecoveryInv, Checked, NoFalseAlarm
<1> QED
  BY <1>1, RecoveryInvariance, PTL

LEMMA SeqOfGrows ==
  ASSUME NEW i \in Items, heads[i].entry.seq \in Nat, snap.at[i].seq \in Nat,
         heads'[i].entry.seq \in Nat, snap'.at[i].seq \in Nat,
         heads'[i].entry.seq >= heads[i].entry.seq, snap'.at[i].seq >= snap.at[i].seq
  PROVE  SeqOf(i)' >= SeqOf(i)
  BY DEF SeqOf, Larger

\* The journal's head_update, rebuild_head and compact each only move an item on.
LEMMA ItemsMoveOn ==
  ASSUME RecoveryInv, RecoveryInv', LossesTyped, Next, lost' = lost, NEW i \in Items
  PROVE  SeqOf(i)' >= SeqOf(i)
<1>t. /\ heads[i].entry.seq \in Nat /\ snap.at[i].seq \in Nat
      /\ heads'[i].entry.seq \in Nat /\ snap'.at[i].seq \in Nat
  BY DEF RecoveryInv, Shape, IsHeads
<1>s. DOMAIN heads = Items /\ DOMAIN heads[i] = {"fence", "entry"}
  BY DEF RecoveryInv, Shape, IsHeads
<1>n. heads'[i].entry = heads[i].entry /\ snap' = snap => SeqOf(i)' >= SeqOf(i)
  BY <1>t, SeqOfGrows
<1>1. ASSUME NEW r \in Runs, Commit(r) PROVE SeqOf(i)' >= SeqOf(i)
  <2>1. PICK e \in run[r].entry : /\ heads[e.item].entry.seq \in {0, run[r].expect}
                                  /\ heads' = [heads EXCEPT ![e.item].entry = e]
                                  /\ UNCHANGED snap
    BY <1>1 DEF Commit, CommitHolds, store
  <2>2. e.seq \in Nat /\ e.seq > run[r].expect /\ run[r].expect \in Nat
    BY DEF RecoveryInv, Shape, IsEntry, PutsPast
  <2>3. heads'[i].entry.seq >= heads[i].entry.seq
    BY <1>s, <1>t, <2>1, <2>2
  <2> QED
    BY <1>t, <2>1, <2>3, SeqOfGrows
<1>2. ASSUME NEW t \in fsck.todo, FsckRebuilds(t) PROVE SeqOf(i)' >= SeqOf(i)
  <2>1. /\ heads[t.item].entry.seq = 0 /\ UNCHANGED snap
        /\ heads' = [heads EXCEPT ![t.item].entry = t,
                                  ![t.item].fence = IF @ = 0 THEN t.fence ELSE @]
    BY <1>2 DEF FsckRebuilds, store
  <2>2. t.seq \in Nat
    BY DEF RecoveryInv, Shape, IsEntry
  <2>3. heads'[i].entry.seq >= heads[i].entry.seq
    BY <1>s, <1>t, <2>1, <2>2
  <2>4. UNCHANGED snap
    BY <2>1
  <2> QED
    BY <1>t, <2>3, <2>4, SeqOfGrows
<1>3. ASSUME NEW r \in Runs, Claim(r) PROVE SeqOf(i)' >= SeqOf(i)
  <2>1. heads'[i] = (IF i \in run[r].scope THEN [heads[i] EXCEPT !.fence = run[r].fence]
                     ELSE heads[i])
    BY <1>3 DEF Claim
  <2>s. UNCHANGED snap
    BY <1>3 DEF Claim, store
  <2>2. heads'[i].entry = heads[i].entry
    BY <1>s, <2>1
  <2> QED
    BY <1>n, <2>s, <2>2
<1>4. CASE Fold
  <2>1. \/ snap'.at[i] = heads[i].entry /\ heads[i].entry.seq > snap.at[i].seq
        \/ snap'.at[i] = snap.at[i]
    BY <1>4 DEF Fold
  <2>2. heads' = heads
    BY <1>4 DEF Fold, table
  <2> QED
    BY <1>t, <2>1, <2>2, SeqOfGrows
<1>5. ASSUME NEW l, NEW j, Lose(l, j) PROVE FALSE
  BY <1>5 DEF Lose, LossesTyped
<1>6. CASE heads' = heads /\ snap' = snap
  BY <1>6, <1>n
<1>7. ASSUME NEW r \in Runs, Running(r), ~Commit(r), ~Claim(r) PROVE heads' = heads /\ snap' = snap
  BY <1>7 DEF Running, Asks, Mint, ClaimRefused, Lapse, End, LoadView, Write, PutEntry,
     CommitRefused, table, store
<1>8. ASSUME Checking, ~(\E t \in fsck.todo : FsckRebuilds(t)) PROVE heads' = heads /\ snap' = snap
  BY <1>8 DEF Checking, FsckStarts, FsckReads, FsckLists, FsckScans, FsckRelists, FsckRestarts,
     FsckChecks, FsckSkips, FsckReports, table, store
<1>9. CASE Collect
  BY <1>9, <1>6 DEF Collect, table
<1> QED
  BY <1>1, <1>2, <1>3, <1>4, <1>5, <1>6, <1>7, <1>8, <1>9 DEF Next

\* The journal's head_update, rebuild_head and compact each only move an item on; so no
\* commit is ever taken back, by a rebuild that races the runs' commits and folds either.
THEOREM CommitsStand == Spec => NothingTakenBack
<1>1. RecoveryInv /\ RecoveryInv' /\ LossesTyped /\ [Next]_vars
        => [lost' = lost => \A i \in Items : SeqOf(i)' >= SeqOf(i)]_vars
  BY ItemsMoveOn
<1> QED
  BY <1>1, RecoveryInvariance, LossesCounted, PTL DEF Spec, NothingTakenBack

-----------------------------------------------------------------------------
(***************************************************************************)
(* The fences.  A snapshot records the greatest of a set of them, a loss   *)
(* the least: that there is one follows from the order of the naturals     *)
(* being well founded.                                                     *)
(***************************************************************************)
Below == {p \in Nat \X Nat : p[1] < p[2]}

LEMMA LeastOf ==
  ASSUME NEW T, T \subseteq Nat, T # {}
  PROVE  \E x \in T : \A y \in T : x <= y
<1>1. IsWellFoundedOn(Below, Nat)
  BY NatLessThanWellFounded DEF OpToRel, Below
<1>2. PICK x \in T : \A y \in T : <<y, x>> \notin Below
  BY <1>1, WFMin
<1>3. ASSUME NEW y \in T PROVE x <= y
  <2>1. x \in Nat /\ y \in Nat /\ (y < x => <<y, x>> \in Below)
    BY DEF Below
  <2> QED
    BY <1>2, <2>1
<1> QED
  BY <1>3

LEMMA MinOf ==
  ASSUME NEW T, T \subseteq Nat, T # {}
  PROVE  Min(T) \in T /\ \A y \in T : Min(T) <= y
  BY LeastOf DEF Min

LEMMA GreatestOf ==
  ASSUME NEW B \in Nat, NEW T, T \subseteq 0..B, T # {}
  PROVE  \E x \in T : \A y \in T : x >= y
<1> DEFINE D == {B - t : t \in T}
<1>1. PICK d \in D : \A y \in D : d <= y
  <2>1. \A t \in T : B - t \in Nat
    OBVIOUS
  <2>2. D \subseteq Nat /\ D # {}
    BY <2>1
  <2> HIDE DEF D
  <2> QED
    BY <2>2, LeastOf
<1>2. PICK t \in T : d = B - t
  OBVIOUS
<1>3. ASSUME NEW u \in T PROVE t >= u
  <2>1. B - u \in D /\ u \in 0..B /\ t \in 0..B
    OBVIOUS
  <2>2. B - t <= B - u
    BY <1>1, <1>2, <2>1
  <2> QED
    BY <2>1, <2>2
<1> QED
  BY <1>3

LEMMA MaxOf ==
  ASSUME NEW B \in Nat, NEW T, T \subseteq 0..B, T # {}
  PROVE  Max(T) \in T /\ \A y \in T : Max(T) >= y
  BY GreatestOf DEF Max


\* One loss of tables, and no more leases than the gap has room for: the fences granted
\* before it are then below those granted after it.
FewLosses == \A s \in Setups : s.losses <= 1 /\ s.leases <= Gap

\* No fence is higher.
Bound == IF counter = 0 THEN lost.leases ELSE counter
Leased(r) == run[r].at \in {"claim", "load", "holds", "commit", "over"}
Entries == objects \cup fsck.listed \cup fsck.todo \cup UNION {run[r].entry : r \in Runs}

Counted ==
    /\ setup \in Setups /\ lost.times \in 0..setup.losses
    /\ leases \in 0..setup.leases /\ lost.leases \in 0..leases /\ lost.above \in Nat
    /\ newest \in [Items -> 0..leases]
    /\ \A r \in Runs : Leased(r) => run[r].lease \in 1..leases

\* What a run writes to was claimed.
HasClaim(r) ==
    /\ run[r].at \in {"load", "holds", "commit"} => \A i \in run[r].scope : newest[i] # 0
    /\ run[r].scope \subseteq Items
    /\ run[r].at = "commit" \/ run[r].entry = {}
    /\ \A e \in run[r].entry : e.item \in run[r].scope
Claimed == \A r \in Runs : HasClaim(r)

\* Fences are known, and those of what holds a lease differ.
Fenced ==
    /\ counter \in Nat
    /\ lost.times = 0 => counter <= leases /\ lost.leases = 0
    /\ snap.maxFence \in 0..Bound
    /\ \A i \in Items : heads[i].fence \in 0..Bound
    /\ \A e \in Entries : e.fence \in 1..Bound
    /\ \A r \in Runs : Leased(r) => run[r].fence \in 1..Bound
    /\ \A q, r \in Runs : q # r /\ Leased(q) /\ Leased(r) => run[q].fence # run[r].fence
    /\ \A r \in Runs : run[r].at = "mint" => run[r].above \in 0..Bound

\* The snapshot's fence, and what was read of it, is no lower than at the loss.
Kept ==
    lost.times # 0 =>
       /\ lost.above <= snap.maxFence
       /\ \A r \in Runs : run[r].at = "mint" => lost.above <= run[r].above

\* The head of an item granted anew is at the fence of its newest lease.
Newest ==
    \A i \in Items : GrantedAnew(i) =>
       /\ \A r \in Runs : Leased(r) /\ heads[i].fence = run[r].fence => run[r].lease = newest[i]
       /\ heads[i].fence # 0 \/ (newest[i] = 0 /\ \A e \in Entries : e.item # i)

FenceInv == Counted /\ Claimed /\ (Seeded => Fenced /\ Kept /\ Newest)

LEMMA FenceInit == Init => FenceInv
<1> SUFFICES ASSUME Init PROVE FenceInv
  OBVIOUS
<1>1. \A r \in Runs : run[r] = Idle
  BY DEF Init
<1>2. \A r \in Runs : ~Leased(r) /\ run[r].at # "mint" /\ run[r].entry = {} /\ run[r].scope = {}
                      /\ run[r].at # "commit"
  BY <1>1 DEF Leased, Idle
<1>3. setup \in SetupType
  BY BoundsAssumption DEF Init
<1>4. Counted
  BY <1>2, <1>3 DEF Init, Counted, SetupType
<1>5. Claimed
  BY <1>2 DEF Claimed, HasClaim
<1>6. Entries = {}
  BY <1>2 DEF Init, Entries, NotChecking
<1>7. Fenced
  BY <1>2, <1>6 DEF Init, Fenced, Bound, NoHeads
<1>8. Kept /\ Newest
  BY <1>2, <1>6 DEF Init, Kept, Newest, NoHeads
<1> QED
  BY <1>4, <1>5, <1>7, <1>8 DEF FenceInv

\* A step that grants no lease and loses nothing.
LEMMA FencesStand ==
  ASSUME FenceInv, Claimed', UNCHANGED <<setup, lost, newest, leases, counter>>,
         \A i \in Items : \/ heads'[i].fence = heads[i].fence
                          \/ /\ heads[i].fence = 0
                             /\ \E e \in Entries : e.item = i /\ e.fence = heads'[i].fence,
         Seeded => snap'.maxFence \in snap.maxFence..Bound,
         \A e \in Entries' : \/ e \in Entries
                             \/ \E r \in Runs : /\ Leased(r) /\ e.fence = run[r].fence
                                                /\ e.item \in Items /\ newest[e.item] # 0,
         \A r \in Runs : Leased(r)' => Leased(r) /\ run'[r].fence = run[r].fence
                                       /\ run'[r].lease = run[r].lease,
         \A r \in Runs : run'[r].at = "mint" => \/ run'[r].above = snap.maxFence
                                                \/ run[r].at = "mint" /\ run'[r].above = run[r].above
  PROVE  FenceInv'
<1>1. Counted'
  BY DEF FenceInv, Counted
<1>2. ASSUME Seeded PROVE Fenced' /\ Kept' /\ Newest'
  <2>f. Fenced /\ Kept /\ Newest /\ Bound' = Bound
    BY <1>2 DEF FenceInv, Bound
  <2>b. counter \in Nat /\ Bound \in Nat /\ snap.maxFence \in 0..Bound
        /\ snap'.maxFence \in snap.maxFence..Bound
    BY <1>2, <2>f DEF FenceInv, Fenced, Counted, Bound
  <2>e. \A e \in Entries' : e.fence \in 1..Bound
    BY <2>f DEF Fenced
  <2>h. \A i \in Items : heads'[i].fence \in 0..Bound
    <3> SUFFICES ASSUME NEW i \in Items PROVE heads'[i].fence \in 0..Bound
      OBVIOUS
    <3>1. CASE heads'[i].fence = heads[i].fence
      BY <2>f, <3>1 DEF Fenced
    <3>2. CASE \E e \in Entries : e.item = i /\ e.fence = heads'[i].fence
      <4>1. PICK e \in Entries : e.fence = heads'[i].fence
        BY <3>2
      <4>2. e.fence \in 1..Bound
        BY <2>f DEF Fenced
      <4> QED
        BY <4>1, <4>2, <2>b
    <3> QED
      BY <3>1, <3>2
  <2>1. \A r \in Runs : run'[r].at = "mint" => run'[r].above \in 0..Bound
    BY <2>f, <2>b DEF Fenced
  <2>2. \A r \in Runs : Leased(r)' => run'[r].fence \in 1..Bound
    BY <2>f DEF Fenced
  <2>3. \A q, r \in Runs : q # r /\ Leased(q)' /\ Leased(r)' => run'[q].fence # run'[r].fence
    BY <2>f DEF Fenced
  <2>4. Fenced'
    <3>1. lost.times = 0 => counter <= leases /\ lost.leases = 0
      BY <2>f DEF Fenced
    <3>2. snap'.maxFence \in 0..Bound
      BY <2>b
    <3> QED
      BY <2>f, <2>b, <2>e, <2>h, <2>1, <2>2, <2>3, <3>1, <3>2 DEF Fenced
  <2>5. Kept'
    <3> SUFFICES ASSUME lost.times # 0
                 PROVE  /\ lost.above <= snap'.maxFence
                        /\ \A r \in Runs : run'[r].at = "mint" => lost.above <= run'[r].above
      BY DEF Kept
    <3>1. lost.above \in Nat
      BY DEF FenceInv, Counted
    <3> QED
      BY <2>f, <2>b, <3>1 DEF Kept
  <2>6. Newest'
    <3> SUFFICES ASSUME NEW i \in Items, GrantedAnew(i)
                 PROVE  /\ \A r \in Runs : Leased(r)' /\ heads'[i].fence = run'[r].fence
                                               => run'[r].lease = newest[i]
                        /\ heads'[i].fence # 0 \/ (newest[i] = 0 /\ \A e \in Entries' : e.item # i)
      BY DEF Newest, GrantedAnew
    <3>1. /\ \A r \in Runs : Leased(r) /\ heads[i].fence = run[r].fence => run[r].lease = newest[i]
          /\ heads[i].fence # 0 \/ (newest[i] = 0 /\ \A e \in Entries : e.item # i)
      BY <2>f DEF Newest
    <3>2. heads'[i].fence = heads[i].fence
      BY <3>1
    <3> QED
      BY <3>1, <3>2
  <2> QED
    BY <2>4, <2>5, <2>6
<1> QED
  BY <1>1, <1>2 DEF FenceInv, Seeded


LEMMA ClaimsKept ==
  ASSUME Claimed, NEW r \in Runs, \A q \in Runs \ {r} : run'[q] = run[q],
         \A i \in Items : newest[i] # 0 => newest'[i] # 0, HasClaim(r)'
  PROVE  Claimed'
<1> SUFFICES ASSUME NEW q \in Runs, q # r PROVE HasClaim(q)'
  BY DEF Claimed
<1> QED
  BY DEF Claimed, HasClaim

LEMMA ClaimsMove == ASSUME RecoveryInv, FenceInv, NEW r \in Runs, Running(r) PROVE Claimed'
<1>s. /\ DOMAIN run = Runs /\ DOMAIN run[r] = RunFields /\ Claimed /\ HasClaim(r)
      /\ newest \in [Items -> 0..leases] /\ leases \in Nat
      /\ Leased(r) => run[r].lease \in 1..leases
  <2>1. setup \in SetupType
    BY BoundsAssumption DEF FenceInv, Counted
  <2> QED
    BY <2>1 DEF RecoveryInv, Shape, FenceInv, Claimed, Counted, SetupType
<1>i. DOMAIN Idle = RunFields /\ Idle.at = "idle" /\ Idle.entry = {} /\ Idle.scope = {}
  BY DEF Idle, RunFields
<1> USE DEF RunFields
<1>1. ASSUME NEW S \in SUBSET Items \ {{}}, Asks(r, S) PROVE Claimed'
  <2>1. run' = [run EXCEPT ![r] = [Idle EXCEPT !.at = "mint", !.above = snap.maxFence, !.scope = S]]
        /\ UNCHANGED newest
    BY <1>1 DEF Asks, history
  <2>2. HasClaim(r)'
    BY <1>s, <1>i, <2>1 DEF HasClaim
  <2> QED
    BY <1>s, <2>1, <2>2, ClaimsKept
<1>2. CASE Mint(r)
  <2>1. run' = [run EXCEPT ![r].at = "claim", ![r].lease = leases + 1,
                          ![r].fence = NextFence(run[r].above)]
        /\ run[r].at = "mint" /\ UNCHANGED newest
    BY <1>2 DEF Mint, history
  <2>2. HasClaim(r)'
    BY <1>s, <2>1 DEF HasClaim
  <2> QED
    BY <1>s, <2>1, <2>2, ClaimsKept
<1>3. CASE Claim(r)
  <2>1. /\ run' = [run EXCEPT ![r].at = "load"] /\ run[r].at = "claim"
        /\ newest' = [i \in Items |-> IF i \in run[r].scope THEN run[r].lease ELSE newest[i]]
    BY <1>3 DEF Claim
  <2>2. run[r].lease # 0
    BY <1>s, <2>1 DEF Leased
  <2>3. HasClaim(r)'
    BY <1>s, <2>1, <2>2 DEF HasClaim
  <2> QED
    BY <1>s, <2>1, <2>2, <2>3, ClaimsKept
<1>4. CASE ClaimRefused(r) \/ End(r)
  <2>1. run' = [run EXCEPT ![r] = Idle] /\ UNCHANGED newest
    BY <1>4 DEF ClaimRefused, End, history
  <2>2. HasClaim(r)'
    BY <1>s, <1>i, <2>1 DEF HasClaim
  <2> QED
    BY <1>s, <2>1, <2>2, ClaimsKept
<1>5. CASE Lapse(r)
  BY <1>5, <1>s DEF Lapse, history, Claimed, HasClaim
<1>6. CASE LoadView(r)
  <2>1. run' = [run EXCEPT ![r].at = "holds", ![r].seqs = [i \in Items |-> SeqOf(i)]]
        /\ run[r].at = "load" /\ UNCHANGED newest
    BY <1>6 DEF LoadView, history
  <2>2. HasClaim(r)'
    BY <1>s, <2>1 DEF HasClaim
  <2> QED
    BY <1>s, <2>1, <2>2, ClaimsKept
<1>7. ASSUME NEW i \in run[r].scope, NEW expect, PutEntry(r, i, expect),
             run[r].at \in {"holds", "commit"}
      PROVE  Claimed'
  <2> DEFINE e == [item |-> i, seq |-> Larger(expect, run[r].seqs[i]) + 1, fence |-> run[r].fence,
                   put |-> puts + 1]
  <2>1. run' = [run EXCEPT ![r].at = "commit", ![r].expect = expect, ![r].entry = {e}]
        /\ UNCHANGED newest
    BY <1>7 DEF PutEntry, history
  <2>2. HasClaim(r)'
    <3>1. e.item = i
      OBVIOUS
    <3> HIDE DEF e
    <3> QED
      BY <1>s, <1>7, <2>1, <3>1 DEF HasClaim
  <2> QED
    BY <1>s, <2>1, <2>2, ClaimsKept
<1>8. ASSUME NEW i \in Items, Write(r, i) PROVE Claimed'
  BY <1>7, <1>8 DEF Write
<1>9. CASE Commit(r)
  <2>1. PICK e \in run[r].entry :
          /\ run[r].at = "commit" /\ UNCHANGED newest
          /\ run' = [run EXCEPT ![r].at = "holds", ![r].seqs[e.item] = e.seq, ![r].entry = {},
                                ![r].expect = 0]
    BY <1>9 DEF Commit
  <2>2. HasClaim(r)'
    BY <1>s, <2>1 DEF HasClaim
  <2> QED
    BY <1>s, <2>1, <2>2, ClaimsKept
<1>10. CASE CommitRefused(r)
  <2>1. PICK e \in run[r].entry :
          /\ run[r].at = "commit"
          /\ \/ run' = [run EXCEPT ![r].at = "over", ![r].entry = {}] /\ UNCHANGED newest
             \/ PutEntry(r, e.item, heads[e.item].entry.seq)
    BY <1>10 DEF CommitRefused, history
  <2>2. CASE run' = [run EXCEPT ![r].at = "over", ![r].entry = {}] /\ UNCHANGED newest
    <3>1. HasClaim(r)'
      BY <1>s, <2>2 DEF HasClaim
    <3> QED
      BY <1>s, <2>2, <3>1, ClaimsKept
  <2>3. e.item \in run[r].scope
    BY <1>s DEF HasClaim
  <2> QED
    BY <1>7, <2>1, <2>2, <2>3
<1> QED
  BY <1>1, <1>2, <1>3, <1>4, <1>5, <1>6, <1>8, <1>9, <1>10 DEF Running


\* A step of a run that grants no lease.
LEMMA RunStands ==
  ASSUME FenceInv, Claimed', UNCHANGED <<setup, lost, newest, leases, counter, snap, fsck>>,
         \A i \in Items : heads'[i].fence = heads[i].fence,
         NEW r \in Runs, \A q \in Runs \ {r} : run'[q] = run[q],
         \A e \in objects' \cup run'[r].entry :
            \/ e \in objects \cup run[r].entry
            \/ Leased(r) /\ e.fence = run[r].fence /\ e.item \in Items /\ newest[e.item] # 0,
         Leased(r)' => Leased(r) /\ run'[r].fence = run[r].fence /\ run'[r].lease = run[r].lease,
         run'[r].at = "mint" => \/ run'[r].above = snap.maxFence
                                \/ run[r].at = "mint" /\ run'[r].above = run[r].above
  PROVE  FenceInv'
<1>1. \A e \in Entries' : e \in Entries \/ e \in objects' \cup run'[r].entry
  BY DEF Entries
<1>d. objects \cup run[r].entry \subseteq Entries
  BY DEF Entries
<1>2. \A q \in Runs : Leased(q)' => Leased(q) /\ run'[q].fence = run[q].fence
                                    /\ run'[q].lease = run[q].lease
  BY DEF Leased
<1>3. \A q \in Runs : run'[q].at = "mint" => \/ run'[q].above = snap.maxFence
                                             \/ run[q].at = "mint" /\ run'[q].above = run[q].above
  OBVIOUS
<1>4. ASSUME Seeded PROVE snap'.maxFence \in snap.maxFence..Bound
  <2>1. Bound \in Nat /\ snap.maxFence \in 0..Bound
    BY <1>4 DEF FenceInv, Fenced, Counted, Bound
  <2> QED
    BY <2>1
<1>5. \A e \in Entries' : \/ e \in Entries
                          \/ \E q \in Runs : /\ Leased(q) /\ e.fence = run[q].fence
                                             /\ e.item \in Items /\ newest[e.item] # 0
  BY <1>1, <1>d
<1> QED
  BY <1>2, <1>3, <1>4, <1>5, FencesStand

LEMMA FencesMove ==
  ASSUME RecoveryInv, FenceInv, NEW r \in Runs, Running(r), ~Mint(r), ~Claim(r)
  PROVE  FenceInv'
<1>s. /\ DOMAIN run = Runs /\ DOMAIN run[r] = RunFields /\ Claimed' /\ HasClaim(r)
      /\ \A e \in run[r].entry : IsEntry(e)
      /\ DOMAIN heads = Items /\ \A i \in Items : DOMAIN heads[i] = {"fence", "entry"}
  BY ClaimsMove DEF RecoveryInv, Shape, IsHeads, FenceInv, Claimed
<1>i. DOMAIN Idle = RunFields /\ Idle.at = "idle" /\ Idle.entry = {} /\ Idle.above = 0
  BY DEF Idle, RunFields
<1> USE DEF RunFields, table, store, history
<1>1. ASSUME NEW S \in SUBSET Items \ {{}}, Asks(r, S) PROVE FenceInv'
  <2>1. run' = [run EXCEPT ![r] = [Idle EXCEPT !.at = "mint", !.above = snap.maxFence, !.scope = S]]
        /\ UNCHANGED <<table, store, fsck, history>>
    BY <1>1 DEF Asks
  <2>2. run'[r].entry = {} /\ run'[r].at = "mint" /\ run'[r].above = snap.maxFence
        /\ \A q \in Runs \ {r} : run'[q] = run[q]
    BY <1>s, <1>i, <2>1
  <2>3. ~Leased(r)'
    BY <2>2 DEF Leased
  <2> QED
    BY <1>s, <2>1, <2>2, <2>3, RunStands
<1>2. CASE ClaimRefused(r) \/ End(r)
  <2>1. run' = [run EXCEPT ![r] = Idle]
        /\ UNCHANGED <<heads, counter, leases, store, fsck, history>>
    BY <1>2 DEF ClaimRefused, End
  <2>2. run'[r].entry = {} /\ run'[r].at = "idle" /\ \A q \in Runs \ {r} : run'[q] = run[q]
    BY <1>s, <1>i, <2>1
  <2>3. ~Leased(r)'
    BY <2>2 DEF Leased
  <2> QED
    BY <1>s, <2>1, <2>2, <2>3, RunStands
<1>3. CASE Lapse(r)
  <2>1. UNCHANGED <<heads, counter, leases, store, run, fsck, history>>
    BY <1>3 DEF Lapse
  <2>2. Leased(r)' = Leased(r) /\ run'[r].entry = run[r].entry
    BY <2>1 DEF Leased
  <2> QED
    BY <1>s, <2>1, <2>2, RunStands
<1>4. CASE LoadView(r)
  <2>1. run' = [run EXCEPT ![r].at = "holds", ![r].seqs = [i \in Items |-> SeqOf(i)]]
        /\ run[r].at = "load" /\ UNCHANGED <<table, store, fsck, history>>
    BY <1>4 DEF LoadView
  <2>2. /\ run'[r].entry = run[r].entry
        /\ run'[r].at = "holds" /\ run'[r].fence = run[r].fence
        /\ run'[r].lease = run[r].lease /\ \A q \in Runs \ {r} : run'[q] = run[q]
    BY <1>s, <2>1
  <2>3. Leased(r)
    BY <2>1 DEF Leased
  <2> QED
    BY <1>s, <2>1, <2>2, <2>3, RunStands
<1>5. ASSUME NEW i \in run[r].scope, NEW expect, PutEntry(r, i, expect),
             run[r].at \in {"holds", "commit"}
      PROVE  FenceInv'
  <2> DEFINE e == [item |-> i, seq |-> Larger(expect, run[r].seqs[i]) + 1, fence |-> run[r].fence,
                   put |-> puts + 1]
  <2>1. run' = [run EXCEPT ![r].at = "commit", ![r].expect = expect, ![r].entry = {e}]
        /\ objects' = objects \cup {e} /\ UNCHANGED <<table, snap, garbage, fsck, history>>
    BY <1>5 DEF PutEntry
  <2>2. e.item = i /\ e.fence = run[r].fence
    OBVIOUS
  <2> HIDE DEF e
  <2>3. /\ run'[r].entry = {e} /\ run'[r].at = "commit" /\ run'[r].fence = run[r].fence
        /\ run'[r].lease = run[r].lease /\ \A q \in Runs \ {r} : run'[q] = run[q]
    BY <1>s, <2>1
  <2>4. Leased(r) /\ i \in Items /\ newest[i] # 0
    BY <1>s, <1>5 DEF Leased, HasClaim
  <2> QED
    BY <1>s, <2>1, <2>2, <2>3, <2>4, RunStands
<1>6. ASSUME NEW i \in Items, Write(r, i) PROVE FenceInv'
  BY <1>5, <1>6 DEF Write
<1>7. CASE Commit(r)
  <2>1. PICK e \in run[r].entry :
          /\ run[r].at = "commit" /\ heads' = [heads EXCEPT ![e.item].entry = e]
          /\ run' = [run EXCEPT ![r].at = "holds", ![r].seqs[e.item] = e.seq, ![r].entry = {},
                                ![r].expect = 0]
          /\ UNCHANGED <<setup, lost, newest, leases, counter, store, fsck>>
    BY <1>7 DEF Commit
  <2>2. \A i \in Items : heads'[i].fence = heads[i].fence
    BY <1>s, <2>1
  <2>3. /\ run'[r].entry = {} /\ run'[r].at = "holds" /\ run'[r].fence = run[r].fence
        /\ run'[r].lease = run[r].lease /\ \A q \in Runs \ {r} : run'[q] = run[q]
    BY <1>s, <2>1
  <2>4. Leased(r)
    BY <2>1 DEF Leased
  <2> QED
    BY <1>s, <2>1, <2>2, <2>3, <2>4, RunStands
<1>8. CASE CommitRefused(r)
  <2>1. PICK e \in run[r].entry :
          /\ run[r].at = "commit"
          /\ \/ /\ run' = [run EXCEPT ![r].at = "over", ![r].entry = {}]
                /\ UNCHANGED <<table, store, fsck, history>>
             \/ PutEntry(r, e.item, heads[e.item].entry.seq)
    BY <1>8 DEF CommitRefused
  <2>2. CASE run' = [run EXCEPT ![r].at = "over", ![r].entry = {}]
             /\ UNCHANGED <<table, store, fsck, history>>
    <3>1. /\ run'[r].entry = {} /\ run'[r].at = "over" /\ run'[r].fence = run[r].fence
          /\ run'[r].lease = run[r].lease /\ \A q \in Runs \ {r} : run'[q] = run[q]
      BY <1>s, <2>2
    <3>2. Leased(r)
      BY <2>1 DEF Leased
    <3> QED
      BY <1>s, <2>2, <3>1, <3>2, RunStands
  <2>3. e.item \in run[r].scope
    BY <1>s DEF HasClaim
  <2> QED
    BY <1>5, <2>1, <2>2, <2>3
<1> QED
  BY <1>1, <1>2, <1>3, <1>4, <1>6, <1>7, <1>8 DEF Running


\* bump_fence and next_fence go past every fence granted, the ones a lost counter had
\* granted included.
LEMMA FenceIsNew ==
  ASSUME FewLosses, FenceInv, Seeded, NEW r \in Runs, run[r].at = "mint"
  PROVE  /\ NextFence(run[r].above) \in Nat /\ NextFence(run[r].above) > Bound
         /\ lost.times = 0 => NextFence(run[r].above) = counter + 1
<1> DEFINE a == run[r].above
<1>1. /\ counter \in Nat /\ Bound \in Nat /\ a \in 0..Bound
      /\ lost.times = 0 => lost.leases = 0
      /\ lost.times # 0 => lost.above <= a
      /\ lost.times # 0 => lost.above > 0
      /\ lost.leases \in Nat /\ lost.above \in Nat
  BY DEF FenceInv, Fenced, Kept, Counted, Bound, Seeded
<1>2. lost.leases <= Gap /\ Gap \in Nat
  <2>1. setup \in SetupType /\ setup.leases <= Gap
    BY BoundsAssumption DEF FenceInv, Counted, FewLosses
  <2> QED
    BY <1>1, <2>1, BoundsAssumption DEF FenceInv, Counted, SetupType
<1>3. CASE counter # 0
  BY <1>1, <1>3 DEF NextFence, Bumped, Bound
<1>4. CASE counter = 0 /\ lost.times = 0
  BY <1>1, <1>4 DEF NextFence, Bumped, Bound
<1>5. CASE counter = 0 /\ lost.times # 0
  BY <1>1, <1>2, <1>5 DEF NextFence, Bumped, Bound
<1> QED
  BY <1>3, <1>4, <1>5

LEMMA FencesMinted ==
  ASSUME FewLosses, RecoveryInv, FenceInv, NEW r \in Runs, Mint(r)
  PROVE  FenceInv'
<1> DEFINE f == NextFence(run[r].above)
<1>1. /\ leases < setup.leases /\ leases' = leases + 1 /\ counter' = f /\ run[r].at = "mint"
      /\ run' = [run EXCEPT ![r].at = "claim", ![r].lease = leases + 1, ![r].fence = f]
      /\ UNCHANGED <<setup, lost, newest, heads, snap, objects, fsck>>
  BY DEF Mint, store, history
<1>2. ASSUME Seeded
      PROVE  f \in Nat /\ f > Bound /\ (lost.times = 0 => f = counter + 1)
  BY <1>1, <1>2, FenceIsNew
<1> HIDE DEF f
<1>3. /\ run'[r].at = "claim" /\ run'[r].lease = leases + 1 /\ run'[r].fence = f
      /\ run'[r].entry = run[r].entry /\ \A q \in Runs \ {r} : run'[q] = run[q]
  BY <1>1 DEF RecoveryInv, Shape, RunFields
<1>4. Claimed'
  BY ClaimsMove DEF Running
<1>5. Counted'
  <2>1. setup \in SetupType
    BY BoundsAssumption DEF FenceInv, Counted
  <2>2. leases \in Nat /\ setup.leases \in Nat /\ leases' \in 0..setup.leases
    BY <1>1, <2>1 DEF FenceInv, Counted, SetupType
  <2>3. 0..leases \subseteq 0..leases'
    BY <1>1, <2>2
  <2>4. newest' \in [Items -> 0..leases'] /\ lost'.leases \in 0..leases'
    BY <1>1, <2>2, <2>3 DEF FenceInv, Counted
  <2>5. \A q \in Runs : Leased(q)' => run'[q].lease \in 1..leases'
    <3> SUFFICES ASSUME NEW q \in Runs, Leased(q)' PROVE run'[q].lease \in 1..leases'
      OBVIOUS
    <3>1. CASE q = r
      BY <1>1, <1>3, <2>2, <3>1
    <3>2. CASE q # r
      <4>1. Leased(q) /\ run'[q].lease = run[q].lease
        BY <1>3, <3>2 DEF Leased
      <4>2. run[q].lease \in 1..leases
        BY <4>1 DEF FenceInv, Counted
      <4> QED
        BY <1>1, <2>2, <4>1, <4>2
    <3> QED
      BY <3>1, <3>2
  <2> QED
    BY <1>1, <2>2, <2>4, <2>5 DEF FenceInv, Counted
<1>6. Entries' = Entries
  <2>1. \A q \in Runs : run'[q].entry = run[q].entry
    BY <1>3
  <2> QED
    BY <1>1, <2>1 DEF Entries
<1>7. ASSUME Seeded PROVE Fenced' /\ Kept' /\ Newest'
  <2>1. /\ Fenced /\ Kept /\ Newest /\ Bound \in Nat /\ counter \in Nat /\ leases \in Nat
        /\ Bound' = f /\ f \in Nat /\ f > Bound
        /\ lost.times = 0 => f = counter + 1
    BY <1>1, <1>2, <1>7 DEF FenceInv, Fenced, Counted, Bound
  <2>2. 0..Bound \subseteq 0..f /\ 1..Bound \subseteq 1..f /\ f \in 1..f /\ \A b \in 0..Bound : b # f
    BY <2>1
  <2>3. \A q \in Runs : Leased(q)' => \/ q = r /\ run'[q].fence = f
                                      \/ q # r /\ Leased(q) /\ run'[q] = run[q]
    BY <1>3 DEF Leased
  <2>4. \A q \in Runs : run'[q].at = "mint" => run[q].at = "mint" /\ run'[q].above = run[q].above
    BY <1>3
  <2>5. \A q \in Runs : Leased(q) => run[q].fence \in 1..Bound /\ run[q].fence # f
    BY <2>1, <2>2 DEF Fenced
  <2>6. Fenced'
    <3>1. counter' \in Nat /\ (lost'.times = 0 => counter' <= leases' /\ lost'.leases = 0)
      BY <1>1, <2>1 DEF Fenced
    <3>2. snap'.maxFence \in 0..Bound' /\ (\A i \in Items : heads'[i].fence \in 0..Bound')
          /\ \A e \in Entries' : e.fence \in 1..Bound'
      BY <1>1, <1>6, <2>1, <2>2 DEF Fenced
    <3>3. \A q \in Runs : Leased(q)' => run'[q].fence \in 1..Bound'
      BY <2>1, <2>2, <2>3, <2>5
    <3>4. \A p, q \in Runs : p # q /\ Leased(p)' /\ Leased(q)' => run'[p].fence # run'[q].fence
      BY <2>1, <2>3, <2>5 DEF Fenced
    <3>5. \A q \in Runs : run'[q].at = "mint" => run'[q].above \in 0..Bound'
      BY <2>1, <2>2, <2>4 DEF Fenced
    <3> QED
      BY <3>1, <3>2, <3>3, <3>4, <3>5 DEF Fenced
  <2>7. Kept'
    BY <1>1, <2>1, <2>4 DEF Kept
  <2>8. Newest'
    <3>1. \A i \in Items : GrantedAnew(i)' = GrantedAnew(i) /\ heads'[i].fence # f
      BY <1>1, <2>1, <2>2 DEF GrantedAnew, Fenced
    <3> SUFFICES ASSUME NEW i \in Items, GrantedAnew(i)
                 PROVE  /\ \A q \in Runs : Leased(q)' /\ heads'[i].fence = run'[q].fence
                                               => run'[q].lease = newest[i]
                        /\ heads'[i].fence # 0 \/ (newest[i] = 0 /\ \A e \in Entries : e.item # i)
      BY <1>1, <1>6, <3>1 DEF Newest
    <3>2. heads'[i].fence = heads[i].fence
      BY <1>1
    <3> QED
      BY <2>1, <2>3, <3>1, <3>2 DEF Newest
  <2> QED
    BY <2>6, <2>7, <2>8
<1> QED
  BY <1>1, <1>4, <1>5, <1>7 DEF FenceInv, Seeded

LEMMA FencesClaimed ==
  ASSUME RecoveryInv, FenceInv, NEW r \in Runs, Claim(r)
  PROVE  FenceInv'
<1>1. /\ run[r].at = "claim" /\ run' = [run EXCEPT ![r].at = "load"]
      /\ heads' = [i \in Items |-> IF i \in run[r].scope
                                   THEN [heads[i] EXCEPT !.fence = run[r].fence] ELSE heads[i]]
      /\ newest' = [i \in Items |-> IF i \in run[r].scope THEN run[r].lease ELSE newest[i]]
      /\ UNCHANGED <<setup, lost, leases, counter, snap, objects, fsck>>
  BY DEF Claim, store
<1>2. Claimed'
  BY ClaimsMove DEF Running
<1>3. \A q \in Runs : /\ Leased(q)' = Leased(q) /\ run'[q].fence = run[q].fence
                      /\ run'[q].lease = run[q].lease /\ run'[q].entry = run[q].entry
                      /\ run'[q].at = "mint" <=> run[q].at = "mint"
                      /\ run'[q].above = run[q].above
  BY <1>1 DEF RecoveryInv, Shape, RunFields, Leased
<1>4. Entries' = Entries
  BY <1>1, <1>3 DEF Entries
<1>5. Leased(r) /\ run[r].lease \in 1..leases
  BY <1>1 DEF Leased, FenceInv, Counted
<1>6. Counted'
  <2>1. setup \in SetupType
    BY BoundsAssumption DEF FenceInv, Counted
  <2>2. leases \in Nat /\ run[r].lease \in 0..leases /\ newest \in [Items -> 0..leases]
    BY <1>5, <2>1 DEF FenceInv, Counted, SetupType
  <2>3. newest' \in [Items -> 0..leases]
    BY <1>1, <2>2
  <2> QED
    BY <1>1, <1>3, <2>3 DEF FenceInv, Counted
<1>7. \A i \in Items : heads'[i].fence = IF i \in run[r].scope THEN run[r].fence ELSE heads[i].fence
  BY <1>1 DEF RecoveryInv, Shape, IsHeads
<1>8. ASSUME Seeded PROVE Fenced' /\ Kept' /\ Newest'
  <2>1. Fenced /\ Kept /\ Newest /\ Bound' = Bound /\ Bound \in Nat /\ run[r].fence \in 1..Bound
    BY <1>1, <1>5, <1>8 DEF FenceInv, Fenced, Counted, Bound
  <2>2. Fenced'
    <3>1. \A i \in Items : heads'[i].fence \in 0..Bound
      BY <1>7, <2>1 DEF Fenced
    <3> QED
      BY <1>1, <1>3, <1>4, <2>1, <3>1 DEF Fenced
  <2>3. Kept'
    BY <1>1, <1>3, <2>1 DEF Kept
  <2>4. Newest'
    <3> SUFFICES ASSUME NEW i \in Items, GrantedAnew(i)'
                 PROVE  /\ \A q \in Runs : Leased(q) /\ heads'[i].fence = run[q].fence
                                               => run[q].lease = newest'[i]
                        /\ heads'[i].fence # 0 \/ (newest'[i] = 0 /\ \A e \in Entries : e.item # i)
      BY <1>3, <1>4 DEF Newest
    <3>1. CASE i \in run[r].scope
      <4>1. heads'[i].fence = run[r].fence /\ newest'[i] = run[r].lease /\ run[r].fence # 0
        BY <1>1, <1>7, <2>1, <3>1
      <4>2. \A q \in Runs : Leased(q) /\ run[q].fence = run[r].fence => q = r
        BY <1>5, <2>1 DEF Fenced
      <4> QED
        BY <4>1, <4>2
    <3>2. CASE i \notin run[r].scope
      <4>1. heads'[i].fence = heads[i].fence /\ newest'[i] = newest[i]
        BY <1>1, <1>7, <3>2
      <4>2. GrantedAnew(i)
        BY <1>1, <4>1 DEF GrantedAnew
      <4> QED
        BY <2>1, <4>1, <4>2 DEF Newest
    <3> QED
      BY <3>1, <3>2
  <2> QED
    BY <2>2, <2>3, <2>4
<1> QED
  BY <1>1, <1>2, <1>6, <1>8 DEF FenceInv, Seeded


\* A step of fsck, of a fold or of the collection of garbage.
LEMMA OthersStand ==
  ASSUME FenceInv, UNCHANGED <<setup, lost, newest, leases, counter, run>>,
         \A i \in Items : \/ heads'[i].fence = heads[i].fence
                          \/ /\ heads[i].fence = 0
                             /\ \E e \in Entries : e.item = i /\ e.fence = heads'[i].fence,
         snap'.maxFence = snap.maxFence \/ (Seeded => snap'.maxFence \in snap.maxFence..Bound),
         objects' \subseteq objects,
         fsck'.listed \cup fsck'.todo \subseteq Entries
  PROVE  FenceInv'
<1>1. Claimed'
  BY DEF FenceInv, Claimed, HasClaim
<1>2. ASSUME Seeded PROVE snap'.maxFence \in snap.maxFence..Bound
  <2>1. Bound \in Nat /\ snap.maxFence \in 0..Bound
    BY <1>2 DEF FenceInv, Fenced, Counted, Bound
  <2> QED
    BY <1>2, <2>1
<1>3. Entries' \subseteq Entries
  BY DEF Entries
<1>4. \A r \in Runs : Leased(r)' = Leased(r)
  BY DEF Leased
<1> QED
  BY <1>1, <1>2, <1>3, <1>4, FencesStand

LEMMA FencesFolded == ASSUME RecoveryInv, FenceInv, Fold PROVE FenceInv'
<1> DEFINE F == {snap.maxFence, counter} \cup {heads[i].fence : i \in PastWatermark}
<1>1. snap'.maxFence = Max(F) /\ UNCHANGED <<table, history, objects, run, fsck>>
  BY DEF Fold
<1>2. ASSUME Seeded PROVE snap'.maxFence \in snap.maxFence..Bound
  <2>1. Bound \in Nat /\ counter \in 0..Bound /\ snap.maxFence \in 0..Bound
    BY <1>2 DEF FenceInv, Fenced, Counted, Bound
  <2>2. \A i \in PastWatermark : heads[i].fence \in 0..Bound
    BY <1>2 DEF FenceInv, Fenced, PastWatermark
  <2>3. F \subseteq 0..Bound /\ F # {} /\ snap.maxFence \in F
    BY <2>1, <2>2
  <2> HIDE DEF F
  <2>4. Max(F) \in F /\ Max(F) >= snap.maxFence
    BY <2>1, <2>3, MaxOf
  <2>5. snap'.maxFence \in F /\ snap'.maxFence >= snap.maxFence
    BY <1>1, <2>4
  <2>6. snap'.maxFence \in 0..Bound
    BY <2>3, <2>5
  <2> QED
    BY <2>1, <2>5, <2>6
<1>3. fsck.listed \cup fsck.todo \subseteq Entries
  BY DEF Entries
<1> QED
  BY <1>1, <1>2, <1>3, OthersStand DEF table, history

LEMMA FencesCollected == ASSUME RecoveryInv, FenceInv, Collect PROVE FenceInv'
<1>1. fsck.listed \cup fsck.todo \subseteq Entries
  BY DEF Entries
<1> QED
  BY <1>1, OthersStand DEF Collect, table, history

LEMMA FencesChecked == ASSUME RecoveryInv, FenceInv, Checking PROVE FenceInv'
<1> USE DEF table, store, history
<1>s. /\ DOMAIN fsck = FsckFields /\ fsck.listed \cup fsck.todo \cup objects \subseteq Entries
      /\ DOMAIN heads = Items /\ \A i \in Items : DOMAIN heads[i] = {"fence", "entry"}
      /\ \A e \in fsck.todo : IsEntry(e)
  BY DEF RecoveryInv, Shape, Entries, IsHeads
<1>i. DOMAIN NotChecking = FsckFields /\ NotChecking.listed = {} /\ NotChecking.todo = {}
  BY DEF NotChecking, FsckFields
<1> USE DEF FsckFields
<1>1. CASE \E rebuild \in BOOLEAN : FsckStarts(rebuild)
  <2>1. PICK rebuild \in BOOLEAN : FsckStarts(rebuild)
    BY <1>1
  <2>2. fsck'.listed = {} /\ fsck'.todo = {}
    BY <2>1, <1>i DEF FsckStarts
  <2> QED
    BY <2>1, <2>2, OthersStand DEF FsckStarts
<1>2. CASE FsckReads \/ FsckScans \/ FsckRelists
  <2>1. fsck'.listed = fsck.listed /\ fsck'.todo = fsck.todo
    BY <1>2, <1>s DEF FsckReads, FsckScans, FsckRelists
  <2>2. UNCHANGED <<table, store, run, history>>
    BY <1>2 DEF FsckReads, FsckScans, FsckRelists
  <2> QED
    BY <1>s, <2>1, <2>2, OthersStand
<1>3. CASE FsckLists
  <2>1. fsck'.listed = objects /\ fsck'.todo = fsck.todo
    BY <1>3, <1>s DEF FsckLists
  <2> QED
    BY <1>s, <1>3, <2>1, OthersStand DEF FsckLists
<1>4. CASE FsckRestarts \/ FsckReports
  <2>1. fsck'.listed = {} /\ fsck'.todo = {}
    BY <1>4, <1>i DEF FsckRestarts, FsckReports
  <2>2. UNCHANGED <<table, store, run, history>>
    BY <1>4 DEF FsckRestarts, FsckReports
  <2> QED
    BY <2>1, <2>2, OthersStand
<1>5. CASE FsckChecks
  <2>1. fsck'.listed = fsck.listed /\ fsck'.todo \subseteq fsck.listed
    BY <1>5, <1>s DEF FsckChecks, LostHeads
  <2> QED
    BY <1>s, <1>5, <2>1, OthersStand DEF FsckChecks
<1>6. ASSUME NEW t \in fsck.todo, FsckRebuilds(t) PROVE FenceInv'
  <2>1. /\ heads' = [heads EXCEPT ![t.item].entry = t,
                                  ![t.item].fence = IF @ = 0 THEN t.fence ELSE @]
        /\ fsck' = [fsck EXCEPT !.todo = @ \ {t}, !.rebuilt = @ \cup {t.item}]
        /\ UNCHANGED <<setup, lost, newest, leases, counter, snap, objects, run>>
    BY <1>6 DEF FsckRebuilds
  <2>2. fsck'.listed = fsck.listed /\ fsck'.todo \subseteq fsck.todo
    BY <1>s, <2>1
  <2>3. t \in Entries /\ t.item \in Items
    BY <1>s DEF IsEntry
  <2>4. \A i \in Items : \/ heads'[i].fence = heads[i].fence
                         \/ heads[i].fence = 0 /\ t.item = i /\ t.fence = heads'[i].fence
    BY <1>s, <2>1, <2>3
  <2> QED
    BY <1>s, <2>1, <2>2, <2>3, <2>4, OthersStand
<1>7. ASSUME NEW t \in fsck.todo, FsckSkips(t) PROVE FenceInv'
  <2>1. fsck'.listed = fsck.listed /\ fsck'.todo \subseteq fsck.todo
    BY <1>s, <1>7 DEF FsckSkips
  <2> QED
    BY <1>s, <1>7, <2>1, OthersStand DEF FsckSkips
<1> QED
  BY <1>1, <1>2, <1>3, <1>4, <1>5, <1>6, <1>7 DEF Checking

LEMMA FencesLost ==
  ASSUME FewLosses, RecoveryInv, FenceInv, NEW l \in BOOLEAN, NEW j \in BOOLEAN, Lose(l, j)
  PROVE  FenceInv'
<1> DEFINE A == {snap.maxFence} \cup {run[r].above : r \in {q \in Runs : run[q].at = "mint"}}
<1>1. /\ lost.times < setup.losses
      /\ lost' = [times |-> lost.times + 1, puts |-> puts, leases |-> leases, above |-> Min(A)]
      /\ counter' = IF l THEN 0 ELSE counter
      /\ heads' = IF j THEN NoHeads ELSE heads
      /\ UNCHANGED <<leases, snap, objects, run, fsck, setup, newest>>
  BY DEF Lose, store
<1>2. setup.losses <= 1 /\ setup.losses \in Nat /\ setup.leases \in Nat /\ leases \in Nat
      /\ lost.times \in Nat
  <2>1. setup \in SetupType /\ setup.losses <= 1
    BY BoundsAssumption DEF FenceInv, Counted, FewLosses
  <2> QED
    BY <2>1 DEF FenceInv, Counted, SetupType
<1>3. lost.times = 0 /\ setup.losses = 1
  BY <1>1, <1>2
<1>4. /\ Fenced /\ Newest /\ counter \in Nat /\ counter <= leases /\ lost.leases = 0
      /\ Bound \in Nat
  BY <1>2, <1>3 DEF FenceInv, Fenced, Seeded, Bound, Counted
<1>5. A \subseteq Nat /\ A # {} /\ snap.maxFence \in A
      /\ \A r \in Runs : run[r].at = "mint" => run[r].above \in A
  BY <1>4 DEF Fenced
<1> HIDE DEF A
<1>6. Min(A) \in Nat /\ \A a \in A : Min(A) <= a
  BY <1>5, MinOf
<1>7. Entries' = Entries
  BY <1>1 DEF Entries
<1>8. Bound' \in Nat /\ Bound <= Bound'
  BY <1>1, <1>2, <1>4 DEF Bound
<1>9. Counted' /\ Claimed'
  <2>1. \A r \in Runs : Leased(r)' = Leased(r)
    BY <1>1 DEF Leased
  <2> QED
    BY <1>1, <1>2, <1>3, <1>6, <2>1 DEF FenceInv, Counted, Claimed, HasClaim
<1>10. Fenced'
  <2>1. 0..Bound \subseteq 0..Bound' /\ 1..Bound \subseteq 1..Bound' /\ 0 \in 0..Bound'
    BY <1>4, <1>8
  <2>2. counter' \in Nat /\ lost'.times # 0
    BY <1>1, <1>2, <1>4
  <2>3. \A i \in Items : heads'[i].fence \in 0..Bound'
    BY <1>1, <1>4, <2>1 DEF Fenced, NoHeads
  <2>4. \A r \in Runs : Leased(r)' = Leased(r)
    BY <1>1 DEF Leased
  <2> QED
    BY <1>1, <1>4, <1>7, <2>1, <2>2, <2>3, <2>4 DEF Fenced
<1>11. Kept'
  BY <1>1, <1>5, <1>6 DEF Kept
<1>12. Newest'
  <2>1. \A i \in Items : newest[i] \in 0..leases
    BY DEF FenceInv, Counted
  <2>2. \A i \in Items : ~GrantedAnew(i)'
    BY <1>1, <1>2, <1>3, <2>1 DEF GrantedAnew
  <2> QED
    BY <2>2 DEF Newest
<1> QED
  BY <1>9, <1>10, <1>11, <1>12 DEF FenceInv

LEMMA FenceInvariance == ASSUME FewLosses PROVE Spec => []FenceInv
<1>1. RecoveryInv /\ FenceInv /\ [Next]_vars => FenceInv'
  <2> SUFFICES ASSUME RecoveryInv, FenceInv, [Next]_vars PROVE FenceInv'
    OBVIOUS
  <2>1. CASE UNCHANGED vars
    BY <2>1 DEF vars, table, store, history, FenceInv, Counted, Claimed, HasClaim, Fenced, Kept, Newest,
       Seeded, GrantedAnew, Entries, Leased, Bound
  <2>2. ASSUME NEW r \in Runs, Running(r) PROVE FenceInv'
    BY <2>2, FencesMove, FencesMinted, FencesClaimed
  <2> QED
    BY <2>1, <2>2, FencesChecked, FencesFolded, FencesCollected, FencesLost DEF Next
<1> QED
  BY <1>1, FenceInit, RecoveryInvariance, PTL DEF Spec

\* After a table is lost the counter starts past every fence a paused run may hold
\* (Fences.next_fence: the snapshot's highest and RESEED_GAP), and folds and rebuilds of heads
\* leave it there: what was granted anew is committed to by
\* the lease that claimed it last, and by no other.
THEOREM NewestCommits == ASSUME FewLosses PROVE Spec => NewestHolderCommits
<1>1. RecoveryInv /\ FenceInv /\ [Next]_vars =>
        [\A r \in Runs, i \in Items :
           (/\ Seeded /\ GrantedAnew(i) /\ run[r].at = "commit" /\ run'[r].at = "holds"
            /\ heads'[i].entry # heads[i].entry)
           => run[r].lease = newest[i]]_vars
  <2> SUFFICES ASSUME RecoveryInv, FenceInv, Next, NEW r \in Runs, NEW i \in Items,
                      Seeded, GrantedAnew(i), run[r].at = "commit", run'[r].at = "holds",
                      heads'[i].entry # heads[i].entry
               PROVE  run[r].lease = newest[i]
    OBVIOUS
  <2>s. /\ DOMAIN run = Runs /\ DOMAIN run[r] = RunFields
        /\ DOMAIN heads = Items /\ \A k \in Items : DOMAIN heads[k] = {"fence", "entry"}
    BY DEF RecoveryInv, Shape, IsHeads
  <2>1. Commit(r)
    <3>1. ASSUME NEW q \in Runs, Running(q), q # r PROVE FALSE
      BY <2>s, <3>1 DEF Running, Asks, Mint, Claim, ClaimRefused, Lapse, End, LoadView, Write, PutEntry,
         Commit, CommitRefused
    <3>2. ASSUME Checking \/ Fold \/ Collect \/ \E l, j \in BOOLEAN : Lose(l, j) PROVE FALSE
      <4>1. UNCHANGED run
        BY <3>2 DEF Checking, FsckStarts, FsckReads, FsckLists, FsckScans, FsckRelists, FsckRestarts,
           FsckChecks, FsckRebuilds, FsckSkips, FsckReports, Fold, Collect, Lose
      <4> QED
        BY <4>1
    <3>3. ASSUME Running(r), ~Commit(r) PROVE FALSE
      <4>1. run'[r].at # "holds" \/ UNCHANGED heads
        BY <2>s, <3>3 DEF Running, Asks, Mint, Claim, ClaimRefused, Lapse, End, LoadView, Write,
           PutEntry, CommitRefused, table, RunFields, Idle
      <4> QED
        BY <4>1
    <3> QED
      BY <3>1, <3>2, <3>3 DEF Next
  <2>2. PICK e \in run[r].entry : /\ heads[e.item].fence = run[r].fence
                                  /\ heads' = [heads EXCEPT ![e.item].entry = e]
    BY <2>1 DEF Commit, CommitHolds
  <2>3. e.item = i
    BY <2>s, <2>2
  <2>4. Leased(r)
    BY DEF Leased
  <2> QED
    BY <2>2, <2>3, <2>4 DEF FenceInv, Newest
<1> QED
  BY <1>1, FenceInvariance, RecoveryInvariance, PTL DEF Spec, NewestHolderCommits


-----------------------------------------------------------------------------
(***************************************************************************)
(* What a loss leaves of the commits, and what fsck makes of it.           *)
(***************************************************************************)
\* A commit stays an entry under its item's head, in the snapshot, or replaced; but for
\* a loss.
Whole(i) == last[i].seq <= SeqOf(i)

Limited(S) == \E b \in Nat : \A e \in S : e.seq <= b

Put ==
    /\ puts \in Nat /\ lost.puts \in 0..puts
    /\ \A e \in Entries : e.put \in 0..puts
    /\ DOMAIN last = Items
    /\ \A i \in Items : last[i].put \in 0..puts /\ last[i].seq \in Nat /\ last[i].item = i
    /\ \A i \in Items : last[i].seq > snap.at[i].seq => last[i] \in objects
    /\ \A e \in fsck.listed : e.seq > snap.at[e.item].seq => e \in objects
    /\ Limited(objects) /\ Limited(fsck.listed)
    /\ fsck.at # "rebuild" => fsck.rebuilt = {}

LEMMA PutInit == Init => Put
<1> SUFFICES ASSUME Init PROVE Put
  OBVIOUS
<1>1. \A r \in Runs : run[r].entry = {}
  BY DEF Init, Idle
<1>2. Entries = {}
  BY <1>1 DEF Init, Entries, NotChecking
<1>3. Limited({})
  BY DEF Limited
<1> QED
  BY <1>2, <1>3 DEF Init, Put, Bare, NoEntry, NotChecking

LEMMA PutStands ==
  ASSUME RecoveryInv, Put, UNCHANGED <<puts, lost, last>>, Entries' \subseteq Entries,
         \A i \in Items : snap'.at[i].seq \in Nat /\ snap'.at[i].seq >= snap.at[i].seq,
         objects' \subseteq objects,
         \A e \in objects \ objects' : e.seq <= snap'.at[e.item].seq,
         fsck'.listed \subseteq fsck.listed \cup objects,
         fsck'.at # "rebuild" => fsck'.rebuilt = {}
  PROVE  Put'
<1>1. \A i \in Items : snap.at[i].seq \in Nat
  BY DEF RecoveryInv, Shape
<1>2. \A e \in objects \cup fsck.listed : e.item \in Items /\ e.seq \in Nat
  BY DEF RecoveryInv, Shape, IsEntry
<1>3. \A e \in objects : e.seq > snap'.at[e.item].seq => e \in objects'
  BY <1>2
<1>4. \A e \in fsck'.listed : e.seq > snap'.at[e.item].seq => e \in objects'
  <2> SUFFICES ASSUME NEW e \in fsck'.listed, e.seq > snap'.at[e.item].seq PROVE e \in objects
    BY <1>3
  <2>1. e.item \in Items /\ e.seq \in Nat
    BY <1>2
  <2>2. e.seq > snap.at[e.item].seq
    BY <1>1, <2>1
  <2> QED
    BY <2>2 DEF Put
<1>5. \A i \in Items : last[i].seq > snap'.at[i].seq => last[i] \in objects'
  <2> SUFFICES ASSUME NEW i \in Items, last[i].seq > snap'.at[i].seq PROVE last[i] \in objects
    BY <1>3 DEF Put
  <2>1. last[i].seq > snap.at[i].seq
    BY <1>1 DEF Put
  <2> QED
    BY <2>1 DEF Put
<1>6. Limited(objects') /\ Limited(fsck'.listed)
  <2>1. PICK a \in Nat : \A e \in objects : e.seq <= a
    BY DEF Put, Limited
  <2>2. PICK b \in Nat : \A e \in fsck.listed : e.seq <= b
    BY DEF Put, Limited
  <2>3. a + b \in Nat /\ \A e \in objects \cup fsck.listed : e.seq <= a + b
    BY <1>2, <2>1, <2>2
  <2> QED
    BY <2>3 DEF Limited
<1> QED
  BY <1>4, <1>5, <1>6 DEF Put

\* Where a step's entries come from.
LEMMA EntriesComeFromPuts ==
  ASSUME RecoveryInv, Next
  PROVE  /\ \A e \in Entries' :
               \/ e \in Entries
               \/ /\ e.put = puts + 1 /\ puts' = puts + 1
                  /\ \E r \in Runs : run[r].at \in {"holds", "commit"} /\ e.fence = run[r].fence
         /\ puts' = puts \/ puts' = puts + 1
<1>s. DOMAIN run = Runs /\ \A r \in Runs : DOMAIN run[r] = RunFields
  BY DEF RecoveryInv, Shape
<1>f. DOMAIN fsck = FsckFields
  BY DEF RecoveryInv, Shape
<1> USE DEF table, store, history, RunFields, FsckFields
<1>1. ASSUME NEW r \in Runs, NEW i, NEW expect, PutEntry(r, i, expect),
             run[r].at \in {"holds", "commit"}
      PROVE  /\ \A e \in Entries' :
                   \/ e \in Entries
                   \/ /\ e.put = puts + 1
                      /\ \E q \in Runs : run[q].at \in {"holds", "commit"} /\ e.fence = run[q].fence
             /\ puts' = puts + 1
  <2> DEFINE d == [item |-> i, seq |-> Larger(expect, run[r].seqs[i]) + 1, fence |-> run[r].fence,
                   put |-> puts + 1]
  <2>1. /\ run' = [run EXCEPT ![r].at = "commit", ![r].expect = expect, ![r].entry = {d}]
        /\ objects' = objects \cup {d} /\ fsck' = fsck /\ puts' = puts + 1
    BY <1>1 DEF PutEntry
  <2>2. d.put = puts + 1 /\ d.fence = run[r].fence
    OBVIOUS
  <2> HIDE DEF d
  <2>3. \A q \in Runs : run'[q].entry = run[q].entry \/ run'[q].entry = {d}
    BY <1>s, <2>1
  <2>4. ASSUME NEW e \in Entries' PROVE e \in Entries \/ e = d
    <3>1. CASE e \in objects' \cup fsck'.listed \cup fsck'.todo
      BY <2>1, <3>1 DEF Entries
    <3>2. CASE \E q \in Runs : e \in run'[q].entry
      <4>1. PICK q \in Runs : e \in run'[q].entry
        BY <3>2
      <4>2. CASE run'[q].entry = run[q].entry
        BY <4>1, <4>2 DEF Entries
      <4> QED
        BY <2>3, <4>1, <4>2
    <3> QED
      BY <3>1, <3>2 DEF Entries
  <2>5. puts' = puts + 1
    BY <2>1
  <2> SUFFICES ASSUME NEW e \in Entries', e \notin Entries
               PROVE  /\ e.put = puts + 1
                      /\ \E q \in Runs : run[q].at \in {"holds", "commit"} /\ e.fence = run[q].fence
    BY <2>5
  <2>6. e = d
    BY <2>4
  <2> QED
    BY <1>1, <2>2, <2>6
<1>2. ASSUME NEW r \in Runs, Running(r), ~(\E i \in Items : Write(r, i)), ~CommitRefused(r)
      PROVE  objects' = objects /\ fsck' = fsck /\ puts' = puts
             /\ \A q \in Runs : run'[q].entry \in {run[q].entry, {}}
  <2>1. UNCHANGED <<objects, fsck, puts>>
    BY <1>2 DEF Running, Asks, Mint, Claim, ClaimRefused, Lapse, End, LoadView, Commit
  <2>2. ASSUME Mint(r) \/ Claim(r) \/ Lapse(r) \/ LoadView(r)
        PROVE  \A q \in Runs : run'[q].entry = run[q].entry
    BY <1>s, <2>2 DEF Mint, Claim, Lapse, LoadView
  <2>3. ASSUME ClaimRefused(r) \/ End(r) \/ \E S \in SUBSET Items \ {{}} : Asks(r, S)
        PROVE  run'[r].entry = {} /\ \A q \in Runs \ {r} : run'[q] = run[q]
    <3>1. Idle.entry = {} /\ DOMAIN Idle = RunFields
      BY DEF Idle
    <3>2. CASE ClaimRefused(r) \/ End(r)
      BY <1>s, <3>1, <3>2 DEF ClaimRefused, End
    <3>3. CASE \E S \in SUBSET Items \ {{}} : Asks(r, S)
      <4>1. PICK S : run' = [run EXCEPT ![r] = [Idle EXCEPT !.at = "mint", !.above = snap.maxFence,
                                                            !.scope = S]]
        BY <3>3 DEF Asks
      <4> QED
        BY <1>s, <3>1, <4>1
    <3> QED
      BY <2>3, <3>2, <3>3
  <2>4. ASSUME Commit(r)
        PROVE  run'[r].entry = {} /\ \A q \in Runs \ {r} : run'[q] = run[q]
    BY <1>s, <2>4 DEF Commit
  <2> QED
    BY <1>2, <2>1, <2>2, <2>3, <2>4 DEF Running
<1>3. ASSUME NEW r \in Runs, CommitRefused(r)
      PROVE  \/ /\ objects' = objects /\ fsck' = fsck /\ puts' = puts
                /\ \A q \in Runs : run'[q].entry \in {run[q].entry, {}}
             \/ \E i, expect : PutEntry(r, i, expect) /\ run[r].at = "commit"
  <2>1. PICK e \in run[r].entry :
          /\ run[r].at = "commit"
          /\ \/ /\ run' = [run EXCEPT ![r].at = "over", ![r].entry = {}]
                /\ UNCHANGED <<table, store, puts, fsck, history>>
             \/ PutEntry(r, e.item, heads[e.item].entry.seq)
    BY <1>3 DEF CommitRefused
  <2>2. CASE run' = [run EXCEPT ![r].at = "over", ![r].entry = {}]
             /\ UNCHANGED <<table, store, puts, fsck, history>>
    BY <1>s, <2>2
  <2> QED
    BY <2>1, <2>2
<1>4. ASSUME Checking PROVE objects' = objects /\ puts' = puts /\ run' = run
  BY <1>4 DEF Checking, FsckStarts, FsckReads, FsckLists, FsckScans, FsckRelists, FsckRestarts,
     FsckChecks, FsckRebuilds, FsckSkips, FsckReports
<1>5. ASSUME Checking PROVE fsck'.listed \cup fsck'.todo \subseteq objects \cup fsck.listed \cup fsck.todo
  <2>1. NotChecking.listed = {} /\ NotChecking.todo = {} /\ DOMAIN NotChecking = FsckFields
    BY DEF NotChecking
  <2>2. ASSUME \/ \E rebuild \in BOOLEAN : FsckStarts(rebuild)
               \/ FsckRestarts \/ FsckReports
        PROVE  fsck'.listed = {} /\ fsck'.todo = {}
    BY <2>1, <2>2 DEF FsckStarts, FsckRestarts, FsckReports
  <2>3. ASSUME FsckReads \/ FsckScans \/ FsckRelists \/ FsckLists
        PROVE  fsck'.listed \subseteq objects \cup fsck.listed /\ fsck'.todo = fsck.todo
    BY <1>f, <2>3 DEF FsckReads, FsckScans, FsckRelists, FsckLists
  <2>4. ASSUME \E t \in fsck.todo : FsckRebuilds(t) \/ FsckSkips(t)
        PROVE  fsck'.listed = fsck.listed /\ fsck'.todo \subseteq fsck.todo
    BY <1>f, <2>4 DEF FsckRebuilds, FsckSkips
  <2>5. ASSUME FsckChecks
        PROVE  fsck'.listed = fsck.listed /\ fsck'.todo \subseteq fsck.listed
    BY <1>f, <2>5 DEF FsckChecks, LostHeads
  <2> QED
    BY <1>5, <2>2, <2>3, <2>4, <2>5 DEF Checking
<1>6. ASSUME Fold \/ Collect \/ \E l, j \in BOOLEAN : Lose(l, j)
      PROVE  objects' \subseteq objects /\ puts' = puts /\ run' = run /\ fsck' = fsck
  BY <1>6 DEF Fold, Collect, Lose
<1>7. ASSUME objects' \subseteq objects, puts' = puts,
             fsck'.listed \cup fsck'.todo \subseteq objects \cup fsck.listed \cup fsck.todo,
             \A q \in Runs : run'[q].entry \in {run[q].entry, {}}
      PROVE  Entries' \subseteq Entries
  BY <1>7 DEF Entries
<1>8. ASSUME NEW r \in Runs, NEW i \in Items, Write(r, i)
      PROVE  run[r].at = "holds" /\ PutEntry(r, i, run[r].seqs[i])
  BY <1>8 DEF Write
<1>9. CASE \E r \in Runs : Running(r)
  BY <1>9, <1>1, <1>2, <1>3, <1>7, <1>8
<1> QED
  BY <1>4, <1>5, <1>6, <1>7, <1>9 DEF Next


\* A step of fsck writes nothing but heads.
LEMMA CheckWrites ==
  ASSUME Checking
  PROVE  /\ UNCHANGED <<counter, rows, gone, leases, store, puts, run, history>>
         /\ heads' = heads \/ \E t \in fsck.todo : FsckRebuilds(t)
  BY DEF Checking, FsckStarts, FsckReads, FsckLists, FsckScans, FsckRelists, FsckRestarts,
     FsckChecks, FsckRebuilds, FsckSkips, FsckReports, table, store, history

LEMMA CheckLists ==
  ASSUME RecoveryInv, Put, Checking
  PROVE  /\ fsck'.listed \subseteq fsck.listed \cup objects
         /\ fsck'.at # "rebuild" => fsck'.rebuilt = {}
<1>f. DOMAIN fsck = FsckFields
  BY DEF RecoveryInv, Shape
<1>p. fsck.at # "rebuild" => fsck.rebuilt = {}
  BY DEF Put
<1> USE DEF FsckFields
<1>1. NotChecking.listed = {} /\ NotChecking.rebuilt = {} /\ DOMAIN NotChecking = FsckFields
  BY DEF NotChecking
<1>2. ASSUME NEW b, FsckStarts(b) PROVE fsck'.listed = {} /\ fsck'.rebuilt = {}
  BY <1>1, <1>2 DEF FsckStarts
<1>3. ASSUME FsckRestarts \/ FsckReports PROVE fsck'.listed = {} /\ fsck'.rebuilt = {}
  BY <1>1, <1>3 DEF FsckRestarts, FsckReports
<1>4. ASSUME FsckReads \/ FsckLists \/ FsckScans \/ FsckRelists
      PROVE  fsck'.listed \in {fsck.listed, objects} /\ fsck'.rebuilt = fsck.rebuilt
             /\ fsck.at # "rebuild"
  BY <1>f, <1>4 DEF FsckReads, FsckLists, FsckScans, FsckRelists
<1>5. ASSUME FsckChecks \/ \E t \in fsck.todo : FsckRebuilds(t) \/ FsckSkips(t)
      PROVE  fsck'.listed = fsck.listed /\ fsck'.at = "rebuild"
  BY <1>f, <1>5 DEF FsckChecks, FsckRebuilds, FsckSkips
<1> QED
  BY <1>p, <1>2, <1>3, <1>4, <1>5 DEF Checking

LEMMA PutStep == ASSUME RecoveryInv, RecoveryInv', Put, Next PROVE Put'
<1> USE DEF table, store, history
<1>s. /\ \A i \in Items : snap.at[i].seq \in Nat /\ snap'.at[i].seq \in Nat
      /\ DOMAIN run = Runs /\ \A r \in Runs : DOMAIN run[r] = RunFields
      /\ \A e \in objects' : IsEntry(e)
      /\ \A r \in Runs : \A e \in run[r].entry : IsEntry(e)
  BY DEF RecoveryInv, Shape
<1>p. fsck.at # "rebuild" => fsck.rebuilt = {}
  BY DEF Put
<1>1. ASSUME UNCHANGED <<puts, lost, last, snap, objects, fsck>>, Entries' \subseteq Entries
      PROVE  Put'
  BY <1>s, <1>1, <1>p, PutStands
<1>2. ASSUME NEW r \in Runs, NEW i, NEW expect, PutEntry(r, i, expect)
      PROVE  Put'
  <2>1. UNCHANGED <<lost, last, snap, fsck>> /\ puts' = puts + 1 /\ objects \subseteq objects'
    BY <1>2 DEF PutEntry
  <2>2. PICK e : objects' = objects \cup {e}
    BY <1>2 DEF PutEntry
  <2>3. e.seq \in Nat
    BY <1>s, <2>2 DEF IsEntry
  <2>4. Limited(objects')
    <3>1. PICK b \in Nat : \A x \in objects : x.seq <= b
      BY DEF Put, Limited
    <3>2. \A x \in objects : x.seq \in Nat
      BY DEF RecoveryInv, Shape, IsEntry
    <3>3. b + e.seq \in Nat /\ \A x \in objects' : x.seq <= b + e.seq
      BY <2>2, <2>3, <3>1, <3>2
    <3> QED
      BY <3>3 DEF Limited
  <2>5. puts' \in Nat /\ 0..puts \subseteq 0..puts' /\ puts + 1 \in 0..puts'
    BY <2>1 DEF Put
  <2>6. \A x \in Entries' : x.put \in 0..puts'
    BY <2>5, EntriesComeFromPuts DEF Put
  <2> QED
    BY <2>1, <2>4, <2>5, <2>6 DEF Put, Limited
<1>3. ASSUME NEW r \in Runs, Commit(r) PROVE Put'
  <2>1. PICK e \in run[r].entry : last' = [last EXCEPT ![e.item] = e]
    BY <1>3 DEF Commit
  <2>2. UNCHANGED <<lost, snap, objects, puts, fsck>>
    BY <1>3 DEF Commit
  <2>3. IsEntry(e) /\ (e.seq > snap.at[e.item].seq => e \in objects) /\ e \in Entries
    BY <1>s DEF RecoveryInv, Stored, Entries
  <2>4. \A x \in Entries' : x.put \in 0..puts
    BY <2>2, EntriesComeFromPuts DEF Put
  <2>5. \A i \in Items : (last'[i] = e /\ e.item = i) \/ last'[i] = last[i]
    BY <2>1, <2>3 DEF Put
  <2>6. \A i \in Items : last'[i].put \in 0..puts /\ last'[i].seq \in Nat /\ last'[i].item = i
                         /\ (last'[i].seq > snap.at[i].seq => last'[i] \in objects)
    BY <2>3, <2>5 DEF Put, IsEntry
  <2> QED
    BY <2>1, <2>2, <2>4, <2>6 DEF Put, Limited
<1>4. ASSUME NEW r \in Runs, Running(r), ~(\E i \in Items : Write(r, i)), ~Commit(r), ~CommitRefused(r)
      PROVE  UNCHANGED <<puts, lost, last, snap, objects, fsck>>
  BY <1>4 DEF Running, Asks, Mint, Claim, ClaimRefused, Lapse, End, LoadView
<1>5. ASSUME NEW r \in Runs, CommitRefused(r)
      PROVE  \/ UNCHANGED <<puts, lost, last, snap, objects, fsck>>
             \/ \E i, expect : PutEntry(r, i, expect)
  BY <1>5 DEF CommitRefused
<1>6. ASSUME puts' = puts PROVE Entries' \subseteq Entries
  <2>1. puts \in Nat
    BY DEF Put
  <2>2. puts' # puts + 1
    BY <1>6, <2>1
  <2> QED
    BY <2>2, EntriesComeFromPuts
<1>7. ASSUME NEW r \in Runs, Running(r) PROVE Put'
  BY <1>1, <1>2, <1>3, <1>4, <1>5, <1>6, <1>7 DEF Write
<1>8. ASSUME Checking PROVE Put'
  <2>1. UNCHANGED <<puts, lost, last, snap, objects>>
    BY <1>8, CheckWrites
  <2> QED
    BY <1>s, <1>6, <1>8, <2>1, CheckLists, PutStands
<1>9. CASE Fold
  <2>1. UNCHANGED <<puts, lost, last, objects, fsck>>
    BY <1>9 DEF Fold
  <2>2. \A i \in Items : \/ snap'.at[i] = heads[i].entry /\ heads[i].entry.seq > snap.at[i].seq
                         \/ snap'.at[i] = snap.at[i]
    BY <1>9 DEF Fold
  <2>3. \A i \in Items : snap'.at[i].seq >= snap.at[i].seq
    BY <1>s, <2>2
  <2> QED
    BY <1>s, <1>p, <1>6, <2>1, <2>3, PutStands
<1>10. CASE Collect
  <2>1. UNCHANGED <<puts, lost, last, snap, fsck>> /\ objects' = objects \ garbage
    BY <1>10 DEF Collect
  <2>2. \A e \in objects \ objects' : e.seq <= snap'.at[e.item].seq
    BY <2>1 DEF RecoveryInv, Superseded
  <2> QED
    BY <1>s, <1>p, <1>6, <2>1, <2>2, PutStands
<1>11. ASSUME NEW l \in BOOLEAN, NEW j \in BOOLEAN, Lose(l, j) PROVE Put'
  <2>1. UNCHANGED <<puts, last, snap, objects, fsck, run>> /\ lost'.puts = puts
    BY <1>11 DEF Lose
  <2>2. Entries' \subseteq Entries /\ lost'.puts \in 0..puts
    BY <1>6, <2>1 DEF Put
  <2> QED
    BY <2>1, <2>2 DEF Put, Limited
<1> QED
  BY <1>7, <1>8, <1>9, <1>10, <1>11 DEF Next


LEMMA PutInvariance == Spec => []Put
<1>1. RecoveryInv /\ RecoveryInv' /\ Put /\ [Next]_vars => Put'
  <2> SUFFICES ASSUME RecoveryInv, RecoveryInv', Put, [Next]_vars PROVE Put'
    OBVIOUS
  <2>1. CASE UNCHANGED vars
    BY <2>1 DEF vars, table, store, history, Put, Entries, Limited
  <2> QED
    BY <2>1, PutStep
<1> QED
  BY <1>1, PutInit, RecoveryInvariance, PTL DEF Spec

\* What a loss leaves of an item whose last commit it took: no entry under the head, and
\* none at the head's fence but from since the loss.
Bereft(i) ==
    /\ lost.times # 0 /\ heads[i].entry.seq = 0 /\ last[i].put <= lost.puts
    /\ heads[i].fence # 0 => \A e \in Entries : e.fence = heads[i].fence => e.put > lost.puts

\* Nothing is put yet under a lease that has yet to claim.
Fresh == \A r \in Runs : run[r].at = "claim" => \A e \in Entries : e.fence # run[r].fence

\* The check under way has listed that commit, has seen the head without it, and
\* makes a lost head of it, unless a write since the loss leaves it in doubt.
Doubted(i) == \E e \in objects : /\ e.item = i /\ e.seq >= last[i].seq
                                 /\ e.put > lost.puts /\ e.put > last[i].put
Sighted(i) ==
    /\ fsck.at \in {"scan", "relist", "etag"} => last[i] \in fsck.listed
    /\ fsck.at \in {"relist", "etag"} =>
          /\ fsck.heads[i].entry.seq = 0
          /\ fsck.heads[i].fence # 0 =>
                \A e \in fsck.listed : e.fence = fsck.heads[i].fence => e.put > lost.puts
    /\ fsck.at = "rebuild" =>
          /\ Doubted(i) \/ i \in fsck.headless \ fsck.rebuilt
          /\ \A e \in fsck.todo : e.item = i => e.seq >= last[i].seq

WholeInv == Seeded => Fresh /\ \A i \in Items : Whole(i) \/ (Bereft(i) /\ Sighted(i))

LEMMA WholeInit == Init => WholeInv
<1> SUFFICES ASSUME Init PROVE WholeInv
  OBVIOUS
<1>1. Fresh
  BY DEF Init, Fresh, Idle
<1>2. \A i \in Items : Whole(i)
  BY DEF Init, Whole, SeqOf, Larger, Bare, NoEntry, NoHeads
<1> QED
  BY <1>1, <1>2 DEF WholeInv


\* What a step does to an item's head and last commit, short of a loss.
LEMMA HeadMoves ==
  ASSUME RecoveryInv, Put, Next, lost.times \in Nat, lost' = lost, NEW i \in Items
  PROVE  \/ last'[i] = last[i] /\ heads'[i] = heads[i]
         \/ /\ last'[i] = last[i] /\ heads'[i].entry = heads[i].entry /\ fsck' = fsck
            /\ \E r \in Runs : run[r].at = "claim" /\ heads'[i].fence = run[r].fence
         \/ last'[i] = heads'[i].entry
         \/ /\ last'[i] = last[i] /\ fsck.at = "rebuild"
            /\ heads'[i].entry \in fsck.todo /\ heads'[i].entry.item = i
<1> USE DEF table, history
<1>s. /\ DOMAIN heads = Items /\ \A k \in Items : DOMAIN heads[k] = {"fence", "entry"}
      /\ \A r \in Runs : \A e \in run[r].entry : e.item \in Items
      /\ \A t \in fsck.todo : t.item \in Items
      /\ DOMAIN last = Items
  BY DEF RecoveryInv, Shape, IsHeads, IsEntry, Put
<1>1. ASSUME NEW r \in Runs, Commit(r)
      PROVE  last'[i] = heads'[i].entry \/ (last'[i] = last[i] /\ heads'[i] = heads[i])
  <2>1. PICK e \in run[r].entry : /\ heads' = [heads EXCEPT ![e.item].entry = e]
                                  /\ last' = [last EXCEPT ![e.item] = e]
    BY <1>1 DEF Commit
  <2>2. CASE e.item = i
    BY <1>s, <2>1, <2>2
  <2>3. CASE e.item # i
    BY <1>s, <2>1, <2>3
  <2> QED
    BY <2>2, <2>3
<1>2. ASSUME NEW r \in Runs, Claim(r)
      PROVE  /\ last' = last /\ heads'[i].entry = heads[i].entry /\ fsck' = fsck
             /\ heads'[i] = heads[i] \/ (run[r].at = "claim" /\ heads'[i].fence = run[r].fence)
  <2>1. /\ run[r].at = "claim" /\ last' = last /\ fsck' = fsck
        /\ heads'[i] = IF i \in run[r].scope THEN [heads[i] EXCEPT !.fence = run[r].fence]
                       ELSE heads[i]
    BY <1>2 DEF Claim
  <2> QED
    BY <1>s, <2>1
<1>3. ASSUME NEW r \in Runs, Running(r), ~Commit(r), ~Claim(r) PROVE UNCHANGED <<heads, last>>
  BY <1>3 DEF Running, Asks, Mint, ClaimRefused, Lapse, End, LoadView, Write, PutEntry, CommitRefused
<1>4. ASSUME NEW t \in fsck.todo, FsckRebuilds(t)
      PROVE  /\ last' = last /\ fsck.at = "rebuild"
             /\ heads'[i] = heads[i] \/ (heads'[i].entry = t /\ t.item = i)
  <2>1. /\ last' = last /\ fsck.at = "rebuild"
        /\ heads' = [heads EXCEPT ![t.item].entry = t,
                                  ![t.item].fence = IF @ = 0 THEN t.fence ELSE @]
    BY <1>4 DEF FsckRebuilds
  <2>2. CASE t.item = i
    BY <1>s, <2>1, <2>2
  <2>3. CASE t.item # i
    BY <1>s, <2>1, <2>3
  <2> QED
    BY <2>1, <2>2, <2>3
<1>5. ASSUME Fold \/ Collect PROVE UNCHANGED <<heads, last>>
  BY <1>5 DEF Fold, Collect
<1>6. ASSUME NEW l \in BOOLEAN, NEW j \in BOOLEAN, Lose(l, j) PROVE FALSE
  <2>1. lost'.times = lost.times + 1
    BY <1>6 DEF Lose
  <2> QED
    BY <2>1
<1>7. ASSUME NEW r \in Runs, Running(r)
      PROVE  \/ last'[i] = last[i] /\ heads'[i] = heads[i]
             \/ /\ last'[i] = last[i] /\ heads'[i].entry = heads[i].entry /\ fsck' = fsck
                /\ run[r].at = "claim" /\ heads'[i].fence = run[r].fence
             \/ last'[i] = heads'[i].entry
  BY <1>1, <1>2, <1>3, <1>7
<1>8. ASSUME Checking
      PROVE  \/ last'[i] = last[i] /\ heads'[i] = heads[i]
             \/ /\ last'[i] = last[i] /\ fsck.at = "rebuild"
                /\ heads'[i].entry \in fsck.todo /\ heads'[i].entry.item = i
  BY <1>4, <1>8, CheckWrites
<1> QED
  BY <1>5, <1>6, <1>7, <1>8 DEF Next

\* Only a loss takes a commit; and as long as it is not back, its item's head has no entry.
LEMMA OnlyLossTakes ==
  ASSUME RecoveryInv, RecoveryInv', FenceInv, Put, Put', WholeInv, Next, Seeded, lost' = lost,
         NEW i \in Items, ~Whole(i)'
  PROVE  /\ ~Whole(i) /\ Bereft(i) /\ Sighted(i) /\ last'[i] = last[i]
         /\ heads'[i].entry.seq = 0
         /\ \/ heads'[i].fence = heads[i].fence
            \/ /\ fsck' = fsck
               /\ \E r \in Runs : run[r].at = "claim" /\ heads'[i].fence = run[r].fence
<1>1. lost.times \in Nat
  BY BoundsAssumption DEF FenceInv, Counted, SetupType
<1>2. /\ heads[i].entry.seq \in Nat /\ snap.at[i].seq \in Nat /\ last[i].seq \in Nat
      /\ heads'[i].entry.seq \in Nat /\ snap'.at[i].seq \in Nat /\ last'[i].seq \in Nat
  BY DEF RecoveryInv, Shape, IsHeads, Put
<1>3. SeqOf(i)' >= SeqOf(i)
  BY <1>1, ItemsMoveOn DEF LossesTyped
<1>4. SeqOf(i)' >= heads'[i].entry.seq /\ SeqOf(i)' \in Nat /\ SeqOf(i) \in Nat
      /\ SeqOf(i)' < last'[i].seq
  BY <1>2 DEF SeqOf, Larger, Whole
<1>5. last'[i] = last[i]
  BY <1>1, <1>2, <1>4, HeadMoves
<1>6. ~Whole(i)
  BY <1>2, <1>3, <1>4, <1>5 DEF Whole
<1>7. Bereft(i) /\ Sighted(i)
  BY <1>6 DEF WholeInv
<1>8. ~(fsck.at = "rebuild" /\ heads'[i].entry \in fsck.todo /\ heads'[i].entry.item = i)
  BY <1>2, <1>4, <1>5, <1>7 DEF Sighted
<1>9. \/ heads'[i] = heads[i]
      \/ /\ heads'[i].entry = heads[i].entry /\ fsck' = fsck
         /\ \E r \in Runs : run[r].at = "claim" /\ heads'[i].fence = run[r].fence
  BY <1>1, <1>2, <1>4, <1>8, HeadMoves
<1> QED
  BY <1>5, <1>6, <1>7, <1>9 DEF Bereft


\* A fence is put under by the one run that holds it.
LEMMA PutsOfOthers ==
  ASSUME FenceInv, Seeded, NEW q \in Runs, NEW r \in Runs,
         run[q].at \in {"holds", "commit"}, run[r].at = "claim"
  PROVE  run[q].fence # run[r].fence
<1>1. q # r /\ Leased(q) /\ Leased(r)
  BY DEF Leased
<1> QED
  BY <1>1 DEF FenceInv, Fenced

LEMMA FreshStays ==
  ASSUME FewLosses, RecoveryInv, FenceInv, Put, WholeInv, Next, Seeded
  PROVE  Fresh'
<1>s. DOMAIN run = Runs /\ \A r \in Runs : DOMAIN run[r] = RunFields
  BY DEF RecoveryInv, Shape
<1> SUFFICES ASSUME NEW r \in Runs, run'[r].at = "claim", NEW e \in Entries' PROVE e.fence # run'[r].fence
  BY DEF Fresh
<1>1. CASE run[r].at = "claim" /\ run'[r].fence = run[r].fence
  <2>1. CASE e \in Entries
    BY <1>1, <2>1 DEF WholeInv, Fresh
  <2>2. CASE e \notin Entries
    <3>1. PICK q \in Runs : run[q].at \in {"holds", "commit"} /\ e.fence = run[q].fence
      BY <2>2, EntriesComeFromPuts
    <3> QED
      BY <1>1, <3>1, PutsOfOthers
  <2> QED
    BY <2>1, <2>2
<1>2. CASE Mint(r)
  <2>1. /\ run[r].at = "mint" /\ UNCHANGED <<objects, fsck, puts>>
        /\ run' = [run EXCEPT ![r].at = "claim", ![r].lease = leases + 1,
                              ![r].fence = NextFence(run[r].above)]
    BY <1>2 DEF Mint, store
  <2>2. run'[r].fence = NextFence(run[r].above)
    BY <1>s, <2>1 DEF RunFields
  <2>3. NextFence(run[r].above) \in Nat /\ NextFence(run[r].above) > Bound
    BY <2>1, FenceIsNew
  <2>4. e \in Entries
    <3>1. puts \in Nat
      BY DEF Put
    <3>2. puts' # puts + 1
      BY <2>1, <3>1
    <3> QED
      BY <3>2, EntriesComeFromPuts
  <2>5. e.fence \in 1..Bound /\ Bound \in Nat
    BY <2>4 DEF FenceInv, Fenced, Bound, Counted
  <2> QED
    BY <2>2, <2>3, <2>5
<1>3. ASSUME NEW q \in Runs, Running(q), q # r PROVE run'[r] = run[r]
  BY <1>s, <1>3 DEF Running, Asks, Mint, Claim, ClaimRefused, Lapse, End, LoadView, Write, PutEntry, Commit,
     CommitRefused
<1>4. ASSUME Running(r), ~Mint(r) PROVE run' = run
  <2>1. CASE Lapse(r) \/ UNCHANGED run
    BY <2>1 DEF Lapse
  <2>2. Idle.at = "idle" /\ DOMAIN Idle = RunFields
    BY DEF Idle, RunFields
  <2>3. CASE ClaimRefused(r) \/ End(r)
    BY <1>s, <2>2, <2>3 DEF ClaimRefused, End
  <2>4. CASE \E S \in SUBSET Items \ {{}} : Asks(r, S)
    <3>1. PICK S : run' = [run EXCEPT ![r] = [Idle EXCEPT !.at = "mint", !.above = snap.maxFence,
                                                          !.scope = S]]
      BY <2>4 DEF Asks
    <3> DEFINE new == [Idle EXCEPT !.at = "mint", !.above = snap.maxFence, !.scope = S]
    <3>2. new.at = "mint"
      BY <2>2 DEF RunFields
    <3>3. run'[r] = new
      BY <1>s, <3>1
    <3> QED
      BY <3>2, <3>3
  <2>5. CASE Claim(r) \/ LoadView(r) \/ Commit(r)
    <3>1. CASE Claim(r)
      BY <1>s, <3>1 DEF Claim, RunFields
    <3>2. CASE LoadView(r)
      BY <1>s, <3>2 DEF LoadView, RunFields
    <3>3. CASE Commit(r)
      BY <1>s, <3>3 DEF Commit, RunFields
    <3> QED
      BY <2>5, <3>1, <3>2, <3>3
  <2>6. ASSUME NEW i, NEW expect, PutEntry(r, i, expect) PROVE FALSE
    BY <1>s, <2>6 DEF PutEntry, RunFields
  <2>7. CASE (\E i \in Items : Write(r, i)) \/ CommitRefused(r)
    <3>1. run' = [run EXCEPT ![r].at = "over", ![r].entry = {}]
      BY <2>6, <2>7 DEF Write, CommitRefused
    <3> QED
      BY <1>s, <3>1 DEF RunFields
  <2> QED
    BY <1>4, <2>1, <2>3, <2>4, <2>5, <2>7 DEF Running
<1>5. ASSUME Checking \/ Fold \/ Collect \/ \E l, j \in BOOLEAN : Lose(l, j) PROVE run' = run
  BY <1>5, CheckWrites DEF Fold, Collect, Lose
<1>6. Mint(r) \/ run'[r] = run[r]
  BY <1>3, <1>4, <1>5 DEF Next
<1> QED
  BY <1>1, <1>2, <1>6

LEMMA BereftStays ==
  ASSUME RecoveryInv, RecoveryInv', FenceInv, Put, Put', WholeInv, Next, Seeded, lost' = lost,
         NEW i \in Items, ~Whole(i)'
  PROVE  Bereft(i)'
<1>1. /\ Bereft(i) /\ last'[i] = last[i] /\ heads'[i].entry.seq = 0
      /\ \/ heads'[i].fence = heads[i].fence
         \/ \E r \in Runs : run[r].at = "claim" /\ heads'[i].fence = run[r].fence
  BY OnlyLossTakes
<1>2. ASSUME heads'[i].fence # 0, NEW e \in Entries', e.fence = heads'[i].fence
      PROVE  e.put > lost.puts
  <2>1. CASE e \in Entries
    <3>1. CASE heads'[i].fence = heads[i].fence
      BY <1>1, <1>2, <2>1, <3>1 DEF Bereft
    <3>2. CASE \E r \in Runs : run[r].at = "claim" /\ heads'[i].fence = run[r].fence
      BY <1>2, <2>1, <3>2 DEF WholeInv, Fresh
    <3> QED
      BY <1>1, <3>1, <3>2
  <2>2. CASE e.put = puts + 1
    BY <2>2 DEF Put
  <2> QED
    BY <2>1, <2>2, EntriesComeFromPuts
<1> QED
  BY <1>1, <1>2 DEF Bereft

\* What is doubted stays so while the commit is not back: it is no garbage.
LEMMA DoubtStays ==
  ASSUME RecoveryInv, Put, Next, lost' = lost, NEW i \in Items, ~Whole(i), last'[i] = last[i], Doubted(i)
  PROVE  Doubted(i)'
<1>1. PICK e \in objects : e.item = i /\ e.seq >= last[i].seq /\ e.put > lost.puts /\ e.put > last[i].put
  BY DEF Doubted
<1>2. objects \subseteq objects' \/ objects' = objects \ garbage
  <2>1. ASSUME NEW r \in Runs, Running(r) PROVE objects \subseteq objects'
    BY <2>1 DEF Running, Asks, Mint, Claim, ClaimRefused, Lapse, End, LoadView, Write, PutEntry, Commit,
       CommitRefused, store
  <2> QED
    BY <2>1, CheckWrites DEF Next, Fold, Collect, Lose, store
<1>3. e \notin garbage
  <2>1. /\ last[i].seq \in Nat /\ snap.at[i].seq \in Nat /\ heads[i].entry.seq \in Nat
        /\ e.seq \in Nat
    BY <1>1 DEF RecoveryInv, Shape, IsHeads, IsEntry, Put
  <2>2. e.seq > snap.at[e.item].seq
    BY <1>1, <2>1 DEF Whole, SeqOf, Larger
  <2> QED
    BY <1>1, <2>1, <2>2 DEF RecoveryInv, Superseded
<1> QED
  BY <1>1, <1>2, <1>3 DEF Doubted

\* Of the entries listed of an item one is on top.
LEMMA TopExists ==
  ASSUME RecoveryInv, FenceInv, Put, Seeded, NEW i \in Items, Found(fsck, i) # {}
  PROVE  \E t : IsTop(fsck, i, t)
<1> DEFINE F == Found(fsck, i)
           seqs == {e.seq : e \in F}
<1>1. /\ Bound \in Nat
      /\ \A e \in F : e.seq \in Nat /\ e.fence \in 0..Bound
  <2>1. F \subseteq Entries /\ F \subseteq fsck.listed
    BY DEF Found, Entries
  <2>2. Bound \in Nat
    BY DEF FenceInv, Fenced, Bound, Counted
  <2>3. \A e \in F : e.fence \in 1..Bound
    BY <2>1 DEF FenceInv, Fenced
  <2> QED
    BY <2>1, <2>2, <2>3 DEF RecoveryInv, Shape, IsEntry
<1>2. PICK b \in Nat : \A e \in F : e.seq <= b
  BY DEF Put, Limited, Found
<1>3. PICK m \in seqs : \A s \in seqs : m >= s
  <2>1. seqs \subseteq 0..b /\ seqs # {}
    BY <1>1, <1>2
  <2> HIDE DEF seqs
  <2> QED
    BY <2>1, GreatestOf
<1> DEFINE tops == {e \in F : e.seq = m}
           fences == {e.fence : e \in tops}
<1>4. PICK f \in fences : \A g \in fences : f >= g
  <2>1. fences \subseteq 0..Bound /\ fences # {}
    BY <1>1, <1>3
  <2> HIDE DEF fences
  <2> QED
    BY <1>1, <2>1, GreatestOf
<1>5. PICK t \in tops : t.fence = f
  BY <1>4
<1>6. ASSUME NEW e \in F PROVE e.seq < t.seq \/ (e.seq = t.seq /\ e.fence <= t.fence)
  <2>1. e.seq \in Nat /\ m \in Nat /\ m >= e.seq /\ t.seq = m
    BY <1>1, <1>3, <1>5
  <2>2. CASE e.seq = m
    <3>1. e.fence \in fences /\ e.fence \in 0..Bound /\ t.fence \in 0..Bound
      BY <1>1, <1>5, <2>2
    <3>2. f >= e.fence
      BY <1>4, <3>1
    <3> QED
      BY <1>1, <1>5, <2>1, <2>2, <3>1, <3>2
  <2> QED
    BY <2>1, <2>2
<1> QED
  BY <1>5, <1>6 DEF IsTop


\* The check finds the top entry of an item whose commit was lost: at the fence of the
\* head it may be a write that has yet to commit, put since the loss; else the head is lost.
LEMMA LossSighted ==
  ASSUME RecoveryInv, FenceInv, Put, Seeded, FsckChecks,
         NEW i \in Items, ~Whole(i), Bereft(i), Sighted(i), UNCHANGED <<objects, lost, last>>
  PROVE  Sighted(i)'
<1>1. /\ fsck.at = "etag" /\ snap.gen = fsck.snap.gen
  BY DEF FsckChecks
<1>2. PICK top \in SUBSET LostHeads(fsck) :
         /\ {t.item : t \in top} = {t.item : t \in LostHeads(fsck)}
         /\ fsck' = [fsck EXCEPT !.at = "rebuild", !.missing = Unlisted(fsck),
                        !.headless = {t.item : t \in top},
                        !.todo = IF fsck.rebuild THEN top ELSE {}]
  BY DEF FsckChecks
<1>3. /\ fsck'.at = "rebuild" /\ fsck'.headless = {t.item : t \in LostHeads(fsck)}
      /\ fsck'.todo \subseteq top /\ fsck'.rebuilt = {}
  BY <1>1, <1>2 DEF RecoveryInv, Shape, FsckFields, Put
<1>4. /\ fsck.snap = snap /\ last[i] \in fsck.listed /\ fsck.heads[i].entry.seq = 0
      /\ \A e \in fsck.listed : e.fence = fsck.heads[i].fence /\ e.fence # 0 => e.put > lost.puts
  BY <1>1 DEF RecoveryInv, Checked, Current, Sighted
<1>5. /\ last[i].seq \in Nat /\ snap.at[i].seq \in Nat /\ last[i].item = i
      /\ last[i].seq > snap.at[i].seq
      /\ \A e \in fsck.listed : e.seq \in Nat
      /\ last[i].put \in Nat /\ lost.puts \in Nat /\ last[i].put <= lost.puts
  <2>1. last[i].put \in Nat /\ lost.puts \in Nat /\ last[i].seq \in Nat /\ last[i].item = i
    BY DEF Put
  <2>2. snap.at[i].seq \in Nat /\ heads[i].entry.seq \in Nat /\ \A e \in fsck.listed : e.seq \in Nat
    BY DEF RecoveryInv, Shape, IsHeads, IsEntry
  <2> QED
    BY <2>1, <2>2 DEF Whole, SeqOf, Larger, Bereft
<1>6. \A t : IsTop(fsck, i, t) => t \in fsck.listed /\ t.item = i /\ t.seq >= last[i].seq
  BY <1>4, <1>5 DEF IsTop, Found
<1>7. \A t \in LostHeads(fsck) : t.item = i => t.seq >= last[i].seq
  BY <1>6 DEF LostHeads
<1>8. Doubted(i) \/ i \in fsck'.headless
  <2>1. last[i] \in Found(fsck, i)
    BY <1>4, <1>5 DEF Found
  <2>2. PICK t : IsTop(fsck, i, t)
    BY <2>1, TopExists
  <2>3. t \in fsck.listed /\ t.item = i /\ t.seq >= last[i].seq /\ t.seq \in Nat
        /\ t.seq > snap.at[i].seq
    BY <1>5, <1>6, <2>2
  <2>4. CASE Pending(fsck, t)
    <3>1. t.put > lost.puts /\ t \in objects
      BY <1>4, <2>3, <2>4 DEF Pending, Put
    <3>2. t.put \in Nat
      <4>1. t \in Entries
        BY <2>3 DEF Entries
      <4> QED
        BY <4>1 DEF Put
    <3> QED
      BY <1>5, <2>3, <3>1, <3>2 DEF Doubted
  <2>5. CASE ~Pending(fsck, t)
    <3>1. t \in LostHeads(fsck)
      BY <1>4, <2>2, <2>3, <2>5 DEF LostHeads
    <3> QED
      BY <1>3, <2>3, <3>1
  <2> QED
    BY <2>4, <2>5
<1>9. Doubted(i)' = Doubted(i) /\ last'[i] = last[i]
  BY DEF Doubted
<1> QED
  BY <1>2, <1>3, <1>7, <1>8, <1>9 DEF Sighted

LEMMA SightedStays ==
  ASSUME RecoveryInv, RecoveryInv', FenceInv, Put, Put', WholeInv, Next, Seeded, lost' = lost,
         NEW i \in Items, ~Whole(i)'
  PROVE  Sighted(i)'
<1>1. /\ ~Whole(i) /\ Bereft(i) /\ Sighted(i) /\ last'[i] = last[i]
      /\ heads'[i].entry.seq = 0
  BY OnlyLossTakes
<1>2. Doubted(i) => Doubted(i)'
  BY <1>1, DoubtStays
<1>3. CASE fsck' = fsck
  BY <1>1, <1>2, <1>3 DEF Sighted
<1>4. CASE Checking
  <2> USE DEF FsckFields, table, store, history
  <2>f. DOMAIN fsck = FsckFields
    BY DEF RecoveryInv, Shape
  <2>u. UNCHANGED <<objects, snap, lost, last>>
    BY <1>4, CheckWrites
  <2>q. last[i].seq \in Nat /\ last[i].seq > 0 /\ last[i].seq > snap.at[i].seq
    <3>1. last[i].seq \in Nat /\ snap.at[i].seq \in Nat /\ heads[i].entry.seq \in Nat
      BY DEF RecoveryInv, Shape, IsHeads, Put
    <3> QED
      BY <1>1, <3>1 DEF Whole, SeqOf, Larger
  <2>1. CASE (\E b \in BOOLEAN : FsckStarts(b)) \/ FsckReads \/ FsckRestarts \/ FsckReports
    <3>1. DOMAIN NotChecking = FsckFields /\ NotChecking.at = "idle"
      BY DEF NotChecking
    <3>2. fsck'.at \in {"snap", "list", "idle"}
      BY <2>f, <2>1, <3>1 DEF FsckStarts, FsckReads, FsckRestarts, FsckReports
    <3> QED
      BY <3>2 DEF Sighted
  <2>2. CASE FsckLists
    <3>1. fsck'.at = "scan" /\ fsck'.listed = objects
      BY <2>f, <2>2 DEF FsckLists
    <3>2. last[i] \in objects
      BY <2>q DEF Put
    <3> QED
      BY <1>1, <3>1, <3>2 DEF Sighted
  <2>3. CASE FsckScans
    <3>1. /\ fsck.at = "scan" /\ fsck'.at \in {"relist", "etag"} /\ fsck'.heads = heads
          /\ fsck'.listed = fsck.listed
      BY <2>f, <2>3 DEF FsckScans
    <3>2. fsck.listed \subseteq Entries
      BY DEF Entries
    <3> QED
      BY <1>1, <2>u, <3>1, <3>2 DEF Sighted, Bereft
  <2>4. CASE FsckRelists
    <3>1. /\ fsck.at = "relist" /\ fsck'.at = "etag" /\ fsck'.heads = fsck.heads
          /\ fsck'.listed = fsck.listed
      BY <2>f, <2>4 DEF FsckRelists
    <3> QED
      BY <1>1, <2>u, <3>1 DEF Sighted
  <2>5. CASE FsckChecks
    BY <1>1, <2>5, <2>u, LossSighted
  <2>6. ASSUME NEW t \in fsck.todo, FsckRebuilds(t) PROVE Sighted(i)'
    <3>1. /\ fsck.at = "rebuild"
          /\ heads' = [heads EXCEPT ![t.item].entry = t,
                                    ![t.item].fence = IF @ = 0 THEN t.fence ELSE @]
          /\ fsck' = [fsck EXCEPT !.todo = @ \ {t}, !.rebuilt = @ \cup {t.item}]
      BY <2>6 DEF FsckRebuilds
    <3>2. t.item # i
      <4> SUFFICES ASSUME t.item = i PROVE FALSE
        OBVIOUS
      <4>1. t.seq >= last[i].seq /\ t.seq \in Nat
        BY <1>1, <3>1 DEF Sighted, RecoveryInv, Shape, IsEntry
      <4>2. heads'[i].entry = t
        BY <3>1 DEF RecoveryInv, Shape, IsHeads
      <4> QED
        BY <1>1, <2>q, <4>1, <4>2
    <3>3. /\ fsck'.at = "rebuild" /\ fsck'.headless = fsck.headless
          /\ fsck'.rebuilt = fsck.rebuilt \cup {t.item} /\ fsck'.todo \subseteq fsck.todo
      BY <2>f, <3>1
    <3> QED
      BY <1>1, <1>2, <3>1, <3>2, <3>3 DEF Sighted
  <2>7. ASSUME NEW t \in fsck.todo, FsckSkips(t) PROVE Sighted(i)'
    <3>1. /\ fsck.at = "rebuild" /\ fsck'.at = "rebuild" /\ fsck'.headless = fsck.headless
          /\ fsck'.rebuilt = fsck.rebuilt /\ fsck'.todo \subseteq fsck.todo
      BY <2>f, <2>7 DEF FsckSkips
    <3> QED
      BY <1>1, <1>2, <3>1 DEF Sighted
  <2> QED
    BY <1>4, <2>1, <2>2, <2>3, <2>4, <2>5, <2>6, <2>7 DEF Checking
<1>5. ASSUME NEW r \in Runs, Running(r) PROVE fsck' = fsck
  BY <1>5 DEF Running, Asks, Mint, Claim, ClaimRefused, Lapse, End, LoadView, Write, PutEntry, Commit,
     CommitRefused
<1>6. ASSUME Fold \/ Collect \/ \E l, j \in BOOLEAN : Lose(l, j) PROVE fsck' = fsck
  BY <1>6 DEF Fold, Collect, Lose
<1> QED
  BY <1>3, <1>4, <1>5, <1>6 DEF Next

\* Tables are lost while no request of a check is out, and every commit is whole till then.
LEMMA WholeLost ==
  ASSUME FewLosses, RecoveryInv, FenceInv, Put, WholeInv, NEW l \in BOOLEAN, NEW j \in BOOLEAN,
         Lose(l, j)
  PROVE  WholeInv'
<1>1. /\ lost.times < setup.losses /\ fsck.at \in {"idle", "snap"}
      /\ lost'.times = lost.times + 1 /\ lost'.puts = puts
      /\ heads' = IF j THEN NoHeads ELSE heads
      /\ UNCHANGED <<snap, objects, run, fsck, last>>
  BY DEF Lose, store
<1>2. lost.times = 0
  <2>1. setup \in SetupType /\ setup.losses <= 1
    BY BoundsAssumption DEF FenceInv, Counted, FewLosses
  <2> QED
    BY <1>1, <2>1 DEF FenceInv, Counted, SetupType
<1>3. Fresh /\ \A i \in Items : Whole(i)
  BY <1>2 DEF WholeInv, Seeded, Bereft
<1>4. Entries' = Entries
  BY <1>1 DEF Entries
<1>5. Fresh'
  BY <1>1, <1>3, <1>4 DEF Fresh
<1>6. ASSUME NEW i \in Items, ~Whole(i)' PROVE Bereft(i)' /\ Sighted(i)'
  <2>1. heads' = NoHeads
    BY <1>1, <1>3, <1>6 DEF Whole, SeqOf
  <2>2. heads'[i].fence = 0 /\ heads'[i].entry.seq = 0
    BY <2>1 DEF NoHeads, NoEntry
  <2>3. last[i].put <= puts
    BY DEF Put
  <2> QED
    BY <1>1, <1>2, <2>2, <2>3 DEF Bereft, Sighted
<1> QED
  BY <1>5, <1>6 DEF WholeInv

LEMMA WholeInvariance == ASSUME FewLosses PROVE Spec => []WholeInv
<1>1. RecoveryInv /\ RecoveryInv' /\ FenceInv /\ Put /\ Put' /\ WholeInv /\ [Next]_vars => WholeInv'
  <2> SUFFICES ASSUME RecoveryInv, RecoveryInv', FenceInv, Put, Put', WholeInv, [Next]_vars
               PROVE  WholeInv'
    OBVIOUS
  <2>1. CASE UNCHANGED vars
    BY <2>1 DEF vars, table, store, history, WholeInv, Seeded, Fresh, Whole, SeqOf, Bereft, Sighted,
       Doubted, Entries
  <2>2. CASE Next /\ lost' = lost
    <3> SUFFICES ASSUME Seeded PROVE Fresh' /\ \A i \in Items : Whole(i)' \/ (Bereft(i)' /\ Sighted(i)')
      BY <2>2 DEF WholeInv, Seeded
    <3> QED
      BY <2>2, FreshStays, BereftStays, SightedStays
  <2>3. ASSUME NEW r \in Runs, Running(r) PROVE lost' = lost
    BY <2>3 DEF Running, Asks, Mint, Claim, ClaimRefused, Lapse, End, LoadView, Write, PutEntry, Commit,
       CommitRefused, history
  <2>4. ASSUME Checking \/ Fold \/ Collect PROVE lost' = lost
    BY <2>4, CheckWrites DEF Fold, Collect, history
  <2> QED
    BY <2>1, <2>2, <2>3, <2>4, WholeLost DEF Next
<1> QED
  BY <1>1, WholeInit, RecoveryInvariance, FenceInvariance, PutInvariance, PTL DEF Spec

\* When Maintenance.fsck reports a state healthy, every commit a loss of tables took is back
\* under its head, with the entry itself or a later one, or a write put since the loss may
\* have replaced it; whatever runs, folds and deletions came between its requests.
THEOREM HealthyIsWhole == ASSUME FewLosses PROVE Spec => []HealthyMeansWhole
<1>1. WholeInv /\ Put => HealthyMeansWhole
  <2> SUFFICES ASSUME WholeInv, Put, Reported, Seeded, fsck.headless \subseteq fsck.rebuilt,
                      NEW i \in Items, ~Whole(i)
               PROVE  InDoubt(i)
    BY DEF HealthyMeansWhole, Whole
  <2>1. Doubted(i)
    BY DEF WholeInv, Sighted, Reported
  <2> QED
    BY <2>1 DEF Doubted, InDoubt, Larger
<1> QED
  BY <1>1, WholeInvariance, PutInvariance, PTL
=============================================================================
