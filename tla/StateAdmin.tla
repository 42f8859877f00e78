----------------------------- MODULE StateAdmin -----------------------------
(***************************************************************************)
(* The `state` commands (backup, restore, migrate, rm, unlock) beside the   *)
(* runs that write state (apply, import), on two stores: the local sqlite   *)
(* database and a remote one, postgres or the S3 journal.                   *)
(*                                                                          *)
(* Each call of a command to a store is a step; its lease is not renewed.   *)
(* A row is the number of the command that wrote it; the outputs of a       *)
(* store are one value.  An acquire takes its whole scope or nothing, a     *)
(* bulk write is one step: S3Locks, SqlLocks and S3Journal look inside.     *)
(***************************************************************************)
EXTENDS Naturals, Sequences, FiniteSets, SequencesExt

CONSTANTS
    Operators,    \* processes, each at one command at a time
    Nodes,
    Commands,     \* the commands they may give
    Remotes,      \* the kinds the remote store may be of: "postgres", "journal"
    Stored,       \* what the stores may hold at first: [local, remote], sets of nodes
    MaxCommands, MaxFaults

Stores == {"local", "remote"}
Labels == <<"local", "remote">>     \* the stores in the order of their labels
None == 0                           \* no row, no outputs, no lease
Old == MaxCommands + 1              \* written before the first command

VARIABLES
    kind,    \* kind[s]: "sqlite", "postgres" or "journal"
    rows,    \* rows[s][n]
    outs,    \* outs[s]
    serial,  \* serial[s]
    holder,  \* holder[s][n]: the lease in the lock row of n
    fence,   \* fence[s][n]: the newest lease n was granted to, as a journal head keeps it
    spent,   \* the leases that ran out or were broken
    epoch,   \* leases minted
    docs,    \* the snapshot files: [store, rows, outs, serial]
    op,      \* op[p]: where the command of p stands
    begun,   \* commands given
    faults

held == <<holder, fence, epoch>>
contents == <<rows, outs, serial>>
vars == <<kind, contents, held, spent, docs, op, begun, faults>>

Tracked(rs) == {n \in Nodes : rs[n] # None}
Blank == [n \in Nodes |-> None]
NoView == [rows |-> Blank, outs |-> None, serial |-> None, cached |-> FALSE]

Idle == [at |-> "idle", cmd |-> [kind |-> "none"], id |-> None, copied |-> FALSE,
         view |-> [s \in Stores |-> NoView], want |-> <<>>,
         scope |-> [s \in Stores |-> {}], lease |-> [s \in Stores |-> None],
         shown |-> Blank, mark |-> None, read |-> Blank, took |-> None,
         obsolete |-> {}, todo |-> {}, wrote |-> FALSE]

Init ==
    /\ \E k \in Remotes : kind = [local |-> "sqlite", remote |-> k]
    /\ \E st \in Stored :
          rows = [s \in Stores |-> [n \in Nodes |-> IF n \in st[s] THEN Old ELSE None]]
    /\ outs = [s \in Stores |-> None]
    /\ serial = [s \in Stores |-> Cardinality(Tracked(rows[s]))]
    /\ holder = [s \in Stores |-> Blank] /\ fence = [s \in Stores |-> Blank]
    /\ spent = {} /\ epoch = 0 /\ docs = {}
    /\ op = [p \in Operators |-> Idle]
    /\ begun = 0 /\ faults = 0

-----------------------------------------------------------------------------
(***************************************************************************)
(* What a command sees of a store, and may do to it.                        *)
(***************************************************************************)
\* ViewCache.ensure, and the queries of the SQL stores: the journal is read once, then
\* from the view.
Seen(p, s) ==
    IF op[p].view[s].cached THEN op[p].view[s]
    ELSE [rows |-> rows[s], outs |-> outs[s], serial |-> serial[s], cached |-> kind[s] = "journal"]
Keeping(p, s) == [op[p].view EXCEPT ![s] = IF Seen(p, s).cached THEN Seen(p, s) ELSE NoView]

\* check_scope and the head's fence on the journal; fence_violation on the SQL stores,
\* where a node nobody holds may be written by a lease that covers it.
MayWrite(p, s, S) ==
    LET l == op[p].lease[s] IN
    IF kind[s] = "journal"
    THEN S \subseteq op[p].scope[s] /\ \A n \in S : fence[s][n] = l
    ELSE \A n \in S : IF holder[s][n] = None THEN n \in op[p].scope[s]
                      ELSE holder[s][n] = l /\ l \notin spent

\* _unbind_and_release, on every store the command has a lease of.
Released(p) == [s \in Stores |-> [n \in Nodes |->
    IF holder[s][n] # None /\ holder[s][n] = op[p].lease[s] THEN None ELSE holder[s][n]]]
Stop(p) == op' = [op EXCEPT ![p] = Idle] /\ holder' = Released(p)

\* A command reads store s and goes on to its next step.
Goes(p, s, next) == op' = [op EXCEPT ![p] = [next EXCEPT !.view = Keeping(p, s)]]
Reads == UNCHANGED <<kind, contents, fence, epoch, spent, docs, begun, faults>>

Begins(p, c) == /\ op[p].at = "idle" /\ begun < MaxCommands
                /\ c \in Commands
                /\ begun' = begun + 1
Began(c) == [Idle EXCEPT !.cmd = c, !.id = begun + 1]
At(p, k, place) == op[p].cmd.kind = k /\ op[p].at = place
Given(p, c, next) ==
    /\ op' = [op EXCEPT ![p] = next]
    /\ UNCHANGED <<kind, contents, held, spent, docs, faults>>
WithView(p, s, next) == [next EXCEPT !.view[s] = Keeping(p, s)[s]]

\* with_lock, held_lock: the scope on the next store, or the command ends.  An acquire of
\* anything drops the journal's view.
Acquire(p) ==
    /\ op[p].at = "locks"
    /\ LET s == Head(op[p].want)
           scope == op[p].scope[s]
           blocked == \E n \in scope : holder[s][n] # None /\ holder[s][n] \notin spent
           claimed(f) == [f EXCEPT ![s] = [n \in Nodes |-> IF n \in scope THEN epoch + 1
                                                           ELSE @[n]]]
       IN IF blocked THEN Stop(p) /\ UNCHANGED <<fence, epoch>>
          ELSE /\ holder' = claimed(holder) /\ fence' = claimed(fence)
               /\ epoch' = epoch + 1
               /\ op' = [op EXCEPT ![p] =
                     [@ EXCEPT !.want = Tail(@), !.lease[s] = epoch + 1,
                               !.view[s] = IF scope = {} THEN @ ELSE NoView,
                               !.at = IF Len(op[p].want) > 1 THEN "locks" ELSE "held"]]
    /\ UNCHANGED <<kind, contents, spent, docs, begun, faults>>

-----------------------------------------------------------------------------
(***************************************************************************)
(* Runs.                                                                    *)
(***************************************************************************)
\* An apply locks what it declares and every row, an import the node it adopts.
RunPlans(p) ==
    \E c \in Commands :
       /\ c.kind \in {"apply", "import"} /\ Begins(p, c)
       /\ LET all == c.nodes \cup (IF c.kind = "apply" THEN Tracked(rows[c.store]) ELSE {})
          IN Given(p, c, [Began(c) EXCEPT !.at = "locks", !.want = <<c.store>>,
                                          !.scope[c.store] = all])

\* require_no_new_nodes, in an apply; an import leaves a tracked node alone.
RunLoads(p) ==
    /\ op[p].cmd.kind \in {"apply", "import"} /\ op[p].at = "held"
    /\ LET c == op[p].cmd
           tracked == Tracked(Seen(p, c.store).rows)
       IN IF IF c.kind = "apply" THEN ~(tracked \subseteq op[p].scope[c.store])
             ELSE c.nodes \subseteq tracked
          THEN Stop(p)
          ELSE /\ Goes(p, c.store, [op[p] EXCEPT !.at = "works", !.todo = op[p].scope[c.store]])
               /\ UNCHANGED holder
    /\ Reads

\* One row of a run: written, or dropped when the apply does not declare it.
RunWrites(p, n) ==
    /\ op[p].at = "works" /\ n \in op[p].todo
    /\ LET s == op[p].cmd.store
           row == IF n \in op[p].cmd.nodes THEN op[p].id ELSE None
       IN IF MayWrite(p, s, {n})
          THEN /\ rows' = [rows EXCEPT ![s][n] = row]
               /\ serial' = [serial EXCEPT ![s] = @ + 1]
               /\ op' = [op EXCEPT ![p] = [@ EXCEPT !.todo = @ \ {n}, !.wrote = TRUE]]
               /\ UNCHANGED holder
          ELSE Stop(p) /\ UNCHANGED <<rows, serial>>
    /\ UNCHANGED <<kind, outs, fence, epoch, spent, docs, begun, faults>>

\* set_outputs: fenced except by sqlite; a commit of its own in the journal's serial.
OutputsLand(p, s, value) ==
    LET lands == (kind[s] = "sqlite" \/ MayWrite(p, s, op[p].scope[s])) /\ outs[s] # value
    IN /\ outs' = [outs EXCEPT ![s] = IF lands THEN value ELSE @]
       /\ serial' = [serial EXCEPT ![s] = IF lands /\ kind[s] = "journal" THEN @ + 1 ELSE @]

RunPublishes(p) ==
    /\ op[p].at = "works" /\ op[p].todo = {}
    /\ IF op[p].cmd.kind = "apply" THEN OutputsLand(p, op[p].cmd.store, op[p].id)
       ELSE UNCHANGED <<outs, serial>>
    /\ Stop(p)
    /\ UNCHANGED <<kind, rows, fence, epoch, spent, docs, begun, faults>>

-----------------------------------------------------------------------------
(***************************************************************************)
(* backup and rm.                                                           *)
(***************************************************************************)
\* rm, its scope: all of state when it takes a backup first.
RmScope(c, tracked) == IF c.backup THEN tracked ELSE c.nodes

\* backup: the rows name the scope.
BackupPreviews(p) ==
    \E c \in Commands :
       /\ c.kind = "backup" /\ Begins(p, c)
       /\ Given(p, c, WithView(p, c.store,
             [Began(c) EXCEPT !.at = "locks", !.want = <<c.store>>,
                              !.scope[c.store] = Tracked(rows[c.store])]))

\* remove_nodes, up to its prompt: _check_removable over an unlocked read.
RmPreviews(p) ==
    \E c \in Commands :
       /\ c.kind = "rm" /\ Begins(p, c)
       /\ Given(p, c, WithView(p, c.store,
             IF ~(c.nodes \subseteq Tracked(rows[c.store])) THEN Idle
             ELSE [Began(c) EXCEPT !.at = "locks", !.want = <<c.store>>, !.shown = rows[c.store],
                                   !.scope[c.store] = RmScope(c, Tracked(rows[c.store]))]))

\* Mutant: rows that came while the lock was awaited are in the snapshot as they are.
NewNodesTaken(tracked, scope) == TRUE
\* require_no_new_nodes
NoNewNodes(tracked, scope) == tracked \subseteq scope

\* The read under the lease, and what it must agree with.
BackupLoads(p) ==
    /\ op[p].cmd.kind \in {"backup", "rm"} /\ op[p].at = "held"
    /\ LET c == op[p].cmd
           rs == Seen(p, c.store).rows
           whole == (c.kind = "rm" /\ ~c.backup) \/ NoNewNodes(Tracked(rs), op[p].scope[c.store])
           there == c.kind = "rm" => c.nodes \subseteq Tracked(rs)
       IN IF ~(whole /\ there) THEN Stop(p)
          ELSE /\ Goes(p, c.store, [op[p] EXCEPT !.read = rs,
                       !.at = IF c.kind = "rm" /\ ~c.backup THEN "forgets" ELSE "counts"])
               /\ UNCHANGED holder
    /\ Reads

\* snapshot_document: the serial, then the outputs, each a read of its own.
BackupCounts(p) ==
    /\ op[p].at = "counts"
    /\ Goes(p, op[p].cmd.store, [op[p] EXCEPT !.at = "writes",
                                              !.mark = Seen(p, op[p].cmd.store).serial])
    /\ UNCHANGED holder /\ Reads

\* Mutant: rm saves what it showed.
RmSavesPreview(p) == IF op[p].cmd.kind = "rm" THEN op[p].shown ELSE op[p].read
\* _backup_before_forget: of the state as read under the lease.
Saved(p) == op[p].read

\* write_snapshot.  A backup lets go of its lease first; nobody else sees the file between.
BackupWrites(p) ==
    /\ op[p].at = "writes"
    /\ LET s == op[p].cmd.store
       IN docs' = docs \cup {[store |-> s, rows |-> Saved(p), outs |-> Seen(p, s).outs,
                              serial |-> op[p].mark]}
    /\ IF op[p].cmd.kind = "backup" THEN Stop(p)
       ELSE /\ Goes(p, op[p].cmd.store, [op[p] EXCEPT !.at = "forgets", !.read = Saved(p)])
            /\ UNCHANGED holder
    /\ UNCHANGED <<kind, contents, fence, epoch, spent, begun, faults>>

\* replace_many: the deletes and upserts of one write, or a refusal.
Replaced(s, drop, put) ==
    [n \in Nodes |-> IF put[n] # None THEN put[n] ELSE IF n \in drop THEN None ELSE rows[s][n]]
Counted(s, drop, put) ==
    LET after == Replaced(s, drop, put)
        changed == {n \in Nodes : after[n] # rows[s][n]}
    IN CASE kind[s] = "journal" /\ Cardinality(changed) > 0 -> 1
         [] kind[s] # "journal" /\ drop \cup Tracked(put) # {} -> 1
         [] OTHER -> 0
ReplaceMany(p, s, drop, put) ==
    /\ rows' = [rows EXCEPT ![s] = Replaced(s, drop, put)]
    /\ serial' = [serial EXCEPT ![s] = @ + Counted(s, drop, put)]
Allowed(p, s, drop, put) == Counted(s, drop, put) = 0 \/ MayWrite(p, s, drop \cup Tracked(put))

RmForgets(p) ==
    /\ op[p].at = "forgets"
    /\ LET c == op[p].cmd
       IN IF Allowed(p, c.store, c.nodes, Blank)
          THEN ReplaceMany(p, c.store, c.nodes, Blank) /\ Stop(p)
          ELSE UNCHANGED <<rows, serial>> /\ Stop(p)
    /\ UNCHANGED <<kind, outs, fence, epoch, spent, docs, begun, faults>>

-----------------------------------------------------------------------------
(***************************************************************************)
(* restore                                                                  *)
(***************************************************************************)
\* _check_restorable
Restorable(doc, count, force) == count = doc.serial \/ force

\* restore, its unlocked preview: the serial, then the rows it shows.
RestoreChecks(p) ==
    \E c \in Commands, doc \in docs :
       /\ c.kind = "restore" /\ doc.store = c.store /\ Begins(p, c)
       /\ Given(p, c, WithView(p, c.store,
             IF ~Restorable(doc, serial[c.store], c.force) THEN Idle
             ELSE [Began(c) EXCEPT !.at = "shows", !.mark = serial[c.store],
                                   !.read = doc.rows, !.took = doc.outs]))

RestorePreviews(p) ==
    /\ At(p, "restore", "shows")
    /\ LET s == op[p].cmd.store
           rs == Seen(p, s).rows
       IN Goes(p, s, [op[p] EXCEPT !.at = "locks", !.want = <<s>>, !.shown = rs,
                                   !.scope[s] = Tracked(rs) \cup Tracked(op[p].read)])
    /\ UNCHANGED holder /\ Reads

\* Mutant: the serial is not looked at again.
SerialTrusted(p, s) == TRUE
SerialStands(p, s) == Seen(p, s).serial = op[p].mark

RestoreRechecks(p) ==
    /\ At(p, "restore", "held")
    /\ LET s == op[p].cmd.store
       IN IF ~SerialStands(p, s) THEN Stop(p)
          ELSE Goes(p, s, [op[p] EXCEPT !.at = "lists"]) /\ UNCHANGED holder
    /\ Reads

-----------------------------------------------------------------------------
(***************************************************************************)
(* migrate                                                                  *)
(***************************************************************************)
Target(c) == IF c.kind = "migrate" THEN c.to ELSE c.store

\* _run: what would be copied, and _refuse_occupied, before the prompt.
MigrateReads(p) ==
    \E c \in Commands :
       /\ c.kind = "migrate" /\ Begins(p, c)
       /\ Given(p, c, WithView(p, c.store,
             [Began(c) EXCEPT !.at = "looks", !.scope[c.store] = Tracked(rows[c.store])]))
MigrateLooks(p) ==
    /\ At(p, "migrate", "looks")
    /\ LET c == op[p].cmd
           occupied == Tracked(Seen(p, c.to).rows) # {}
       IN IF occupied /\ ~c.force THEN Stop(p)
          ELSE Goes(p, c.to, [op[p] EXCEPT !.at = "scopes"]) /\ UNCHANGED holder
    /\ Reads

\* _lock_order: the rows that arrive and those there, in the order of the labels.
MigrateScopes(p) ==
    /\ At(p, "migrate", "scopes")
    /\ LET c == op[p].cmd
           incoming == op[p].scope[c.store]
       IN Goes(p, c.to, [op[p] EXCEPT !.at = "locks", !.want = Labels,
                             !.scope[c.to] = incoming \cup Tracked(Seen(p, c.to).rows)])
    /\ UNCHANGED holder /\ Reads

\* _copy_under_lock: the source's serial, its rows, its outputs.
MigrateMarks(p) ==
    /\ At(p, "migrate", "held")
    /\ LET s == op[p].cmd.store
       IN Goes(p, s, [op[p] EXCEPT !.at = "copies", !.mark = Seen(p, s).serial])
    /\ UNCHANGED holder /\ Reads
MigrateCopies(p) ==
    /\ At(p, "migrate", "copies")
    /\ LET s == op[p].cmd.store
       IN Goes(p, s, [op[p] EXCEPT !.at = "takes", !.read = Seen(p, s).rows])
    /\ UNCHANGED holder /\ Reads
\* Mutant: the serial to compare with is read after the rows.
MigrateTakesAndMarks(p) ==
    /\ At(p, "migrate", "takes")
    /\ LET s == op[p].cmd.store
       IN Goes(p, s, [op[p] EXCEPT !.at = "lists", !.took = Seen(p, s).outs, !.mark = Seen(p, s).serial])
    /\ UNCHANGED holder /\ Reads
MigrateTakes(p) ==
    /\ At(p, "migrate", "takes")
    /\ LET s == op[p].cmd.store
       IN Goes(p, s, [op[p] EXCEPT !.at = "lists", !.took = Seen(p, s).outs])
    /\ UNCHANGED holder /\ Reads

\* replace_contents: what only the target holds goes, in one write with what comes; then
\* the outputs.
Lists(p) ==
    /\ op[p].at = "lists"
    /\ LET s == Target(op[p].cmd)
       IN Goes(p, s, [op[p] EXCEPT !.at = "replaces",
                          !.obsolete = Tracked(Seen(p, s).rows) \ Tracked(op[p].read)])
    /\ UNCHANGED holder /\ Reads
Replaces(p) ==
    /\ op[p].at = "replaces"
    /\ LET s == Target(op[p].cmd)
       IN IF Allowed(p, s, op[p].obsolete, op[p].read)
          THEN /\ ReplaceMany(p, s, op[p].obsolete, op[p].read)
               /\ op' = [op EXCEPT ![p] = [@ EXCEPT !.at = "settles", !.view[s] = NoView]]
               /\ UNCHANGED holder
          ELSE Stop(p) /\ UNCHANGED <<rows, serial>>
    /\ UNCHANGED <<kind, outs, fence, epoch, spent, docs, begun, faults>>
Settles(p) ==
    /\ op[p].at = "settles"
    /\ OutputsLand(p, Target(op[p].cmd), op[p].took)
    /\ IF op[p].cmd.kind = "restore" THEN Stop(p)
       ELSE /\ op' = [op EXCEPT ![p] = [@ EXCEPT !.at = "compares"]]
            /\ UNCHANGED holder
    /\ UNCHANGED <<kind, rows, fence, epoch, spent, docs, begun, faults>>

\* The serial of the source must be the one it was copied at.
MigrateCompares(p) ==
    /\ At(p, "migrate", "compares")
    /\ op' = [op EXCEPT ![p] = [Idle EXCEPT !.copied = SerialStands(p, op[p].cmd.store)]]
    /\ holder' = Released(p) /\ Reads

-----------------------------------------------------------------------------
(***************************************************************************)
(* unlock, crashes, time.                                                   *)
(***************************************************************************)
Alive(l) == \E p \in Operators, s \in Stores : op[p].lease[s] = l

\* unlock --owner: the operator picks the holds of a run that is gone, and is asked.
UnlockShows(p) ==
    \E c \in Commands :
       /\ c.kind = "unlock" /\ Begins(p, c)
       /\ \E l \in {holder[c.store][n] : n \in Nodes} \ {None} :
             /\ ~Alive(l)
             /\ Given(p, c, [Began(c) EXCEPT !.at = "breaks",
                                !.todo = {n \in Nodes : holder[c.store][n] = l}])

\* force_unlock: the holds on those nodes, whoever has them by now.
UnlockBreaks(p) ==
    /\ op[p].at = "breaks"
    /\ LET s == op[p].cmd.store
           broken == {holder[s][n] : n \in op[p].todo} \ {None}
       IN /\ spent' = spent \cup broken
          /\ holder' = [holder EXCEPT ![s] =
                [n \in Nodes |-> IF n \in op[p].todo THEN None ELSE @[n]]]
          /\ op' = [op EXCEPT ![p] = Idle]
    /\ UNCHANGED <<kind, contents, fence, epoch, docs, begun, faults>>

\* A command is killed and its holds stay, or it is interrupted, or refused by its store,
\* and lets go of them.
Ends(p) ==
    /\ op[p].at # "idle" /\ faults < MaxFaults
    /\ faults' = faults + 1
    /\ \/ op' = [op EXCEPT ![p] = Idle] /\ UNCHANGED holder
       \/ Stop(p)
    /\ UNCHANGED <<kind, contents, fence, epoch, spent, docs, begun>>

\* A lease runs out: the state commands do not renew theirs.
Lapse ==
    /\ faults < MaxFaults
    /\ \E l \in (1..epoch) \ spent :
          /\ \E s \in Stores, n \in Nodes : holder[s][n] = l
          /\ spent' = spent \cup {l}
    /\ faults' = faults + 1
    /\ UNCHANGED <<kind, contents, held, docs, op, begun>>

Next ==
    \/ \E p \in Operators :
          \/ RunPlans(p) \/ BackupPreviews(p) \/ RmPreviews(p) \/ RestoreChecks(p)
          \/ MigrateReads(p) \/ UnlockShows(p)
          \/ Acquire(p)
          \/ RunLoads(p) \/ RunPublishes(p) \/ \E n \in Nodes : RunWrites(p, n)
          \/ BackupLoads(p) \/ BackupCounts(p) \/ BackupWrites(p) \/ RmForgets(p)
          \/ RestorePreviews(p) \/ RestoreRechecks(p)
          \/ MigrateLooks(p) \/ MigrateScopes(p) \/ MigrateMarks(p) \/ MigrateCopies(p)
          \/ MigrateTakes(p) \/ Lists(p) \/ Replaces(p) \/ Settles(p) \/ MigrateCompares(p)
          \/ UnlockBreaks(p) \/ Ends(p)
    \/ Lapse

Spec == Init /\ [][Next]_vars

-----------------------------------------------------------------------------
(***************************************************************************)
(* Properties.                                                              *)
(***************************************************************************)
\* Rows, holds, files and commands keep their types.
TypeOK ==
    /\ rows \in [Stores -> [Nodes -> 0..Old]]
    /\ outs \in [Stores -> 0..MaxCommands]
    /\ serial \in [Stores -> Nat]
    /\ holder \in [Stores -> [Nodes -> 0..epoch]] /\ fence \in [Stores -> [Nodes -> 0..epoch]]
    /\ spent \subseteq 1..epoch
    /\ \A d \in docs : d.store \in Stores /\ d.rows \in [Nodes -> 0..Old]
    /\ \A p \in Operators : op[p].scope \in [Stores -> SUBSET Nodes]

\* No lease of the command ran out or was broken: nothing renews it.
Undisturbed(p) == \A s \in Stores : op[p].lease[s] \notin spent
Midway(q, s) == /\ op[q].at = "works" /\ op[q].cmd.kind = "apply" /\ op[q].cmd.store = s
                /\ op[q].wrote /\ op[q].todo # {} /\ Undisturbed(q)

\* snapshot.py, backup: a snapshot is not taken of an apply that has written some of its
\* rows and not the others, while the leases of both last and nobody breaks them.
SnapshotsWhole ==
    [][\A p, q \in Operators :
          op[p].at = "held" /\ op'[p].at = "counts" /\ Undisturbed(p)
              => ~Midway(q, op[p].cmd.store) \/ \A n \in Nodes : op'[p].read[n] # op[q].id]_vars

Puts(p) == op[p].at = "replaces" /\ op'[p].at = "settles"

\* snapshot.py, restore: what a restore overwrites or removes is what its operator was
\* shown, however long the prompt and the lock took; unless its lease ran out or was
\* broken before the write (on a SQL store another may have been in and gone again).
ReplacedAsShown ==
    [][\A p \in Operators :
          Puts(p) /\ op[p].cmd.kind = "restore" /\ Undisturbed(p) =>
              LET s == op[p].cmd.store
              IN \A n \in Nodes : rows'[s][n] # rows[s][n] => op[p].shown[n] = rows[s][n]]_vars

\* snapshot.py, _check_restorable: on the journal a restore that was not forced puts back
\* only what is there already, so nothing written since the snapshot is forgotten.
UnforcedKeepsNewer ==
    [][\A p \in Operators :
          Puts(p) /\ op[p].cmd.kind = "restore" /\ ~op[p].cmd.force
              /\ kind[op[p].cmd.store] = "journal"
              => rows'[op[p].cmd.store] = rows[op[p].cmd.store]]_vars

\* nodes.py, remove_nodes: a row that rm forgets after a backup is in that backup as it
\* was when it was forgotten; on the journal even when the lease ran out in between.
RmBackedUp ==
    [][\A p \in Operators :
          op[p].at = "forgets" /\ op'[p].at = "idle" /\ op[p].cmd.backup
              /\ (kind[op[p].cmd.store] = "journal" \/ Undisturbed(p)) =>
              LET s == op[p].cmd.store
              IN \A n \in Nodes : rows'[s][n] # rows[s][n] =>
                    \E d \in docs : d.store = s /\ d.rows[n] = rows[s][n]]_vars

\* migrate.py, _copy_under_lock: a migration that reports success from a SQL store has
\* copied every row its source holds at that moment, if its leases lasted until then.
MigratedWhole ==
    [][\A p \in Operators :
          op[p].at = "compares" /\ op'[p].copied
              /\ kind[op[p].cmd.store] # "journal" /\ Undisturbed(p) =>
              LET c == op[p].cmd
              IN \A n \in Tracked(rows[c.store]) : rows[c.to][n] = rows[c.store][n]]_vars

\* snapshot.py, _check_restorable: the same of the SQL stores.
UnforcedKeepsNewerInSql ==
    [][\A p \in Operators :
          Puts(p) /\ op[p].cmd.kind = "restore" /\ ~op[p].cmd.force /\ Undisturbed(p)
              => rows'[op[p].cmd.store] = rows[op[p].cmd.store]]_vars

\* migrate.py, _copy_under_lock: the same of the journal.
MigratedWholeFromJournal ==
    [][\A p \in Operators :
          op[p].at = "compares" /\ op'[p].copied /\ Undisturbed(p) =>
              LET c == op[p].cmd
              IN \A n \in Tracked(rows[c.store]) : rows[c.to][n] = rows[c.store][n]]_vars

\* locks.py, unlock: the holds that are broken are those the operator was shown, of a run
\* that is gone.
BrokenAsShown ==
    [][\A p \in Operators : op[p].at = "breaks" /\ op'[p].at = "idle" =>
          \A n \in op[p].todo : holder'[op[p].cmd.store][n] # holder[op[p].cmd.store][n]
              => ~Alive(holder[op[p].cmd.store][n])]_vars
=============================================================================
