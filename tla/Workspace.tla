----------------------------- MODULE Workspace -----------------------------
(***************************************************************************)
(* The workspace store of crates/atlas-storage: one SQLite file shared by  *)
(* the threads of several processes, guarded by two lock files beside it.  *)
(*                                                                         *)
(*   .access.lock   shared by product sessions and startup checks,         *)
(*                  exclusive for publication, maintenance and migration   *)
(*   .update.lock   exclusive for the one source/config/model publisher,   *)
(*                  shared by a snapshot                                   *)
(*                                                                         *)
(* An actor is a thread that has at most one handle in use: a read or      *)
(* write session, an UpdateOwner and what it is doing, a migration, a      *)
(* snapshot or an initialization.  Each function of the crate is cut at    *)
(* every lock, connection, transaction and file operation, so that the     *)
(* steps of other actors and the death of a process fall between them.     *)
(*                                                                         *)
(* SQLite and the operating system are external.  SQLite gives a deferred  *)
(* transaction the committed image at its first read, admits one immediate *)
(* transaction at a time, and commits or rolls back a whole image, also    *)
(* when the process dies.  The system releases the file locks of a dead    *)
(* process.                                                                *)
(***************************************************************************)
EXTENDS Integers, FiniteSets

CONSTANTS
  Actors,            \* threads
  Processes,
  ProcessOf,         \* the process of each actor
  Version,           \* the schema version the executable of a process knows
  Workload,          \* what each actor may call
  Starts,            \* the files a run may begin with
  MaxMappedReaders,  \* mapped read sessions of one process
  MaxRevision,       \* bounds of the model: publications,
  MaxContent,        \*   changes of the reference rows,
  MaxSaved           \*   edits of saved state

\* What a thread can ask of a Workspace, and of the UpdateOwner it holds.
Calls == {"read", "write", "update", "snapshot", "initialize", "migrate"}
OwnerJobs == {"publish", "maintain", "recover", "reclaim"}
Tasks == Calls \cup OwnerJobs \cup {"check", "probe", "return", "none"}

Modes == {"none", "shared", "exclusive"}

\* A committed image of the database.  schema 0 is a file without the Atlas
\* header; content stands for the reference rows, saved counts the edits of
\* saved state it holds; complete is false while the reference rows are the
\* half of an update that spans transactions.
Image == [schema : Nat, revision : Nat, content : Nat, saved : Nat,
          complete : BOOLEAN, maintenance : BOOLEAN]

Empty == [schema |-> 0, revision |-> 0, content |-> 0, saved |-> 0,
          complete |-> TRUE, maintenance |-> FALSE]

Start == [file : BOOLEAN, db : Image, seed : Image]

Reference(image) == <<image.schema, image.revision, image.content>>

\* Product sessions are admitted to an open image; what is not marked is whole.
Open(image) == image.schema > 0 /\ ~image.maintenance
Sound(image) == ~image.maintenance => image.complete

ASSUME ProcessAssumption ==
  /\ ProcessOf \in [Actors -> Processes]
  /\ Version \in [Processes -> Nat \ {0}]

ASSUME BoundAssumption ==
  MaxMappedReaders \in Nat /\ MaxRevision \in Nat
    /\ MaxContent \in Nat /\ MaxSaved \in Nat

ASSUME StartAssumption ==
  /\ Workload \in [Actors -> SUBSET (Calls \cup OwnerJobs)]
  /\ Starts \subseteq Start
  /\ \A start \in Starts :
       /\ Sound(start.db) /\ Sound(start.seed) /\ ~start.seed.maintenance
       /\ ~start.file => start.db = Empty

VARIABLES
  file,         \* the database file exists
  db,           \* its committed image
  backup,       \* the .upgrade-backup.sqlite beside it
  seed,         \* the seed that snapshot_to writes and install copies
  access,       \* how each actor holds .access.lock
  update,       \* how each actor holds .update.lock
  pc,           \* where each actor is
  task,         \* in which function
  connection,   \* its SQLite connection: none, plain or mapped
  lease,        \* its MappingLease
  active,       \* READ_MAPPINGS of each process
  transaction,  \* its SQLite transaction: none, read or write
  view,         \* the image that transaction reads or works on
  acked,        \* history: edits whose commit returned
  observed      \* history: the reference the last product session was shown

files == <<file, db, backup, seed>>
locks == <<access, update>>
control == <<pc, task>>
handles == <<connection, lease, active, transaction, view>>
history == <<acked, observed>>
vars == <<files, locks, control, handles, history>>

Locations ==
  {"idle", "locking", "owning", "admitting", "admitted", "connected",
   "validated", "reading", "writing", "copying", "reserved", "applying",
   "maintaining", "rebuilding", "recovering", "reclaiming", "saving",
   "upgrading", "migrating", "installed", "closing", "returning", "releasing", "unlocking"}

SchemaOf(a) == Version[ProcessOf[a]]

TypeOK ==
  /\ file \in BOOLEAN /\ db \in Image /\ backup \in Image /\ seed \in Image
  /\ access \in [Actors -> Modes] /\ update \in [Actors -> Modes]
  /\ pc \in [Actors -> Locations] /\ task \in [Actors -> Tasks]
  /\ connection \in [Actors -> {"none", "plain", "mapped"}]
  /\ lease \in [Actors -> BOOLEAN] /\ active \in [Processes -> Int]
  /\ transaction \in [Actors -> {"none", "read", "write"}]
  /\ view \in [Actors -> Image]
  /\ acked \in Nat /\ observed \in Nat \X Nat \X Nat

Init ==
  /\ \E start \in Starts :
       file = start.file /\ db = start.db /\ seed = start.seed
  /\ backup = Empty
  /\ access = [a \in Actors |-> "none"] /\ update = [a \in Actors |-> "none"]
  /\ pc = [a \in Actors |-> "idle"] /\ task = [a \in Actors |-> "none"]
  /\ connection = [a \in Actors |-> "none"]
  /\ lease = [a \in Actors |-> FALSE] /\ active = [p \in Processes |-> 0]
  /\ transaction = [a \in Actors |-> "none"]
  /\ view = [a \in Actors |-> Empty]
  /\ acked = db.saved /\ observed = Reference(Empty)

-----------------------------------------------------------------------------
(* Control: where an actor goes next, and what is left when a call ends.   *)

At(a, where, what) == pc[a] = where /\ task[a] = what

Goto(a, where) == pc' = [pc EXCEPT ![a] = where] /\ UNCHANGED task

Run(a, what, where) ==
  pc' = [pc EXCEPT ![a] = where] /\ task' = [task EXCEPT ![a] = what]

\* A job of an UpdateOwner returns to the owner, anything else to the caller.
Finished(what) ==
  IF what \in OwnerJobs \cup {"probe", "update"} THEN "update" ELSE "return"

Finish(a) == Run(a, Finished(task[a]), "closing")

-----------------------------------------------------------------------------
(* Locks: acquire(path, suffix, exclusive) retries try_lock for 250 ms and *)
(* then returns Busy.                                                      *)

UpdateMode(what) == IF what = "snapshot" THEN "shared" ELSE "exclusive"

AccessMode(what) ==
  IF what \in {"read", "write", "snapshot", "check", "probe"}
    THEN "shared" ELSE "exclusive"

\* Mutant: an exclusive request overtakes shared holders.
OvertakingGrant(lock, a, mode) == \A b \in Actors \ {a} : lock[b] # "exclusive"

Grantable(lock, a, mode) ==
  \A b \in Actors \ {a} :
    lock[b] = "none" \/ (mode = "shared" /\ lock[b] = "shared")

Lock(a) ==
  /\ pc[a] = "locking" /\ Grantable(update, a, UpdateMode(task[a]))
  /\ update' = [update EXCEPT ![a] = UpdateMode(task[a])]
  /\ Goto(a, IF task[a] = "update" THEN "owning" ELSE "admitting")
  /\ UNCHANGED <<files, access, handles, history>>

\* Mutant: the lock is waited for without a bound.
NeverBusy(a) == FALSE

\* The lock is held for too long, or the system reports an error.
LockBusy(a) ==
  /\ pc[a] = "locking"
  /\ Run(a, "none", "idle")
  /\ UNCHANGED <<files, locks, handles, history>>

Admit(a) ==
  /\ pc[a] = "admitting" /\ Grantable(access, a, AccessMode(task[a]))
  /\ access' = [access EXCEPT ![a] = AccessMode(task[a])]
  /\ Goto(a, "admitted")
  /\ UNCHANGED <<files, update, handles, history>>

AdmitBusy(a) ==
  /\ pc[a] = "admitting"
  /\ Run(a, Finished(task[a]), "releasing")
  /\ UNCHANGED <<files, locks, handles, history>>

-----------------------------------------------------------------------------
(* Connections, mappings and transactions.                                 *)

\* Mutant: one mapping too many.
MayMapOneMore(a) ==
  task[a] \in {"read", "probe"} /\ active[ProcessOf[a]] <= MaxMappedReaders

\* A read session of a file that is not empty takes a lease when there is
\* capacity, never waits for one, and maps the file under it.  The file of
\* schema 0 is empty until a migration first writes its header page.
MayMap(a) ==
  task[a] \in {"read", "probe"} /\ active[ProcessOf[a]] < MaxMappedReaders

Connect(a) ==
  /\ pc[a] = "admitted" /\ task[a] # "initialize"
  /\ file \/ task[a] = "migrate"
  /\ file' = TRUE
  /\ \E mapped \in BOOLEAN :
       /\ mapped => MayMap(a)
       /\ ~mapped => ~MayMap(a) \/ db.schema = 0
       /\ connection' = [connection EXCEPT ![a] = IF mapped THEN "mapped" ELSE "plain"]
       /\ lease' = [lease EXCEPT ![a] = mapped]
       /\ active' = [active EXCEPT ![ProcessOf[a]] = IF mapped THEN @ + 1 ELSE @]
  /\ Goto(a, "connected")
  /\ UNCHANGED <<db, backup, seed, locks, transaction, view, history>>

\* Mutant: the schema of the file is not compared.
ValidAnySchema(a, image, maintenance) ==
  image.schema > 0 /\ (maintenance \/ ~image.maintenance)

\* validate(connection, schema, maintenance)
Valid(a, image, maintenance) ==
  image.schema = SchemaOf(a) /\ (maintenance \/ ~image.maintenance)

BeginDeferred(a) ==
  /\ transaction' = [transaction EXCEPT ![a] = "read"]
  /\ view' = [view EXCEPT ![a] = db]
  /\ UNCHANGED <<connection, lease, active>>

BeginImmediate(a) ==
  /\ \A b \in Actors : transaction[b] # "write"
  /\ transaction' = [transaction EXCEPT ![a] = "write"]
  /\ view' = [view EXCEPT ![a] = db]
  /\ UNCHANGED <<connection, lease, active>>

Commit(a, image) ==
  /\ db' = image
  /\ transaction' = [transaction EXCEPT ![a] = "none"]
  /\ view' = [view EXCEPT ![a] = Empty]
  /\ UNCHANGED <<file, backup, seed, connection, lease, active>>

\* One statement outside a transaction; it waits for a writer, then fails.
Autocommit(image) ==
  /\ \A b \in Actors : transaction[b] # "write"
  /\ db' = image
  /\ UNCHANGED <<file, backup, seed, handles>>

-----------------------------------------------------------------------------
(* Calls of an idle actor.                                                 *)

Call(a) ==
  /\ pc[a] = "idle"
  /\ \E what \in Workload[a] \cap Calls :
       CASE what \in {"read", "write"} -> Run(a, what, "admitting")
         [] what = "migrate" ->
              IF file THEN Run(a, "check", "admitting")
                      ELSE Run(a, "migrate", "locking")
         [] OTHER -> Run(a, what, "locking")
  /\ UNCHANGED <<files, locks, handles, history>>

\* An UpdateOwner starts a job or is dropped.
OwnerCall(a) ==
  /\ pc[a] = "owning"
  /\ \E what \in Workload[a] \cap OwnerJobs :
       Run(a, IF what = "reclaim" THEN "probe" ELSE what, "admitting")
  /\ UNCHANGED <<files, locks, handles, history>>

DropOwner(a) ==
  /\ pc[a] = "owning"
  /\ Run(a, "return", "unlocking")
  /\ UNCHANGED <<files, locks, handles, history>>

-----------------------------------------------------------------------------
(* Product sessions.                                                       *)

BeginRead(a) ==
  /\ pc[a] = "connected" /\ task[a] \in {"read", "probe"}
  /\ Valid(a, db, FALSE)
  /\ BeginDeferred(a)
  /\ Goto(a, "reading")
  /\ observed' = Reference(db)
  /\ UNCHANGED <<files, locks, acked>>

\* Mutant: the admission is given back before the connection is closed.
EndReadUnclosed(a) ==
  /\ pc[a] = "reading"
  /\ transaction' = [transaction EXCEPT ![a] = "none"]
  /\ view' = [view EXCEPT ![a] = Empty]
  /\ Run(a, Finished(task[a]), "releasing")
  /\ UNCHANGED <<files, locks, connection, lease, active, history>>

\* The caller drops its session.  ROLLBACK comes first, with the session's own
\* connection still open.
EndRead(a) ==
  /\ pc[a] = "reading"
  /\ transaction' = [transaction EXCEPT ![a] = "none"]
  /\ view' = [view EXCEPT ![a] = Empty]
  /\ Finish(a)
  /\ UNCHANGED <<files, locks, connection, lease, active, history>>

\* Mutant: BEGIN DEFERRED for a write session.
BeginWriteDeferred(a) ==
  /\ At(a, "connected", "write")
  /\ Valid(a, db, FALSE)
  /\ BeginDeferred(a)
  /\ Goto(a, "writing")
  /\ observed' = Reference(db)
  /\ UNCHANGED <<files, locks, acked>>

BeginWrite(a) ==
  /\ At(a, "connected", "write")
  /\ Valid(a, db, FALSE)
  /\ BeginImmediate(a)
  /\ Goto(a, "writing")
  /\ observed' = Reference(db)
  /\ UNCHANGED <<files, locks, acked>>

\* Mutant: the edit is counted the wrong way.
CommitWriteDown(a) ==
  /\ pc[a] = "writing" /\ db.saved < MaxSaved
  /\ Commit(a, [view[a] EXCEPT !.saved = @ - 1])
  /\ acked' = acked + 1
  /\ Finish(a)
  /\ UNCHANGED <<locks, observed>>

CommitWrite(a) ==
  /\ pc[a] = "writing" /\ db.saved < MaxSaved
  /\ Commit(a, [view[a] EXCEPT !.saved = @ + 1])
  /\ acked' = acked + 1
  /\ Finish(a)
  /\ UNCHANGED <<locks, observed>>

-----------------------------------------------------------------------------
(* Jobs of an UpdateOwner.                                                 *)

\* Mutant: publication admits a marked workspace, as maintenance does.
ValidateMarked(a) ==
  /\ pc[a] = "connected" /\ task[a] \in OwnerJobs
  /\ Valid(a, db, TRUE)
  /\ Goto(a, "validated")
  /\ UNCHANGED <<files, locks, handles, history>>

\* Publication refuses a marked workspace, the other jobs admit it.
ValidateJob(a) ==
  /\ pc[a] = "connected" /\ task[a] \in OwnerJobs
  /\ Valid(a, db, task[a] # "publish")
  /\ Goto(a, "validated")
  /\ UNCHANGED <<files, locks, handles, history>>

BeginPublish(a) ==
  /\ At(a, "validated", "publish")
  /\ BeginImmediate(a)
  /\ Goto(a, "applying")
  /\ UNCHANGED <<files, locks, history>>

CommitPublish(a) ==
  /\ pc[a] = "applying" /\ view[a].revision < MaxRevision /\ view[a].content < MaxContent
  /\ Commit(a, [view[a] EXCEPT !.revision = @ + 1, !.content = @ + 1])
  /\ Finish(a)
  /\ UNCHANGED <<locks, history>>

\* The durable marker of maintenance(schema, reason) comes before the work.
Mark(a) ==
  /\ pc[a] = "validated" /\ task[a] \in {"maintain", "reclaim"}
  /\ Autocommit([db EXCEPT !.maintenance = TRUE])
  /\ Goto(a, IF task[a] = "maintain" THEN "maintaining" ELSE "reclaiming")
  /\ UNCHANGED <<locks, history>>

\* Preparatory results written through MaintenanceSession::connection.
Checkpoint(a) ==
  /\ pc[a] = "maintaining" /\ db.content < MaxContent
  /\ Autocommit([db EXCEPT !.content = @ + 1, !.complete = FALSE])
  /\ UNCHANGED <<locks, control, history>>

BeginRebuild(a) ==
  /\ pc[a] = "maintaining"
  /\ BeginImmediate(a)
  /\ Goto(a, "rebuilding")
  /\ UNCHANGED <<files, locks, history>>

\* Mutant: maintenance ends without a new revision.
CommitSameRevision(a) ==
  /\ pc[a] = "rebuilding" /\ view[a].content < MaxContent
  /\ Commit(a, [view[a] EXCEPT !.content = @ + 1,
                               !.complete = TRUE, !.maintenance = FALSE])
  /\ Finish(a)
  /\ UNCHANGED <<locks, history>>

CommitRebuild(a) ==
  /\ pc[a] = "rebuilding" /\ view[a].revision < MaxRevision /\ view[a].content < MaxContent
  /\ Commit(a, [view[a] EXCEPT !.revision = @ + 1, !.content = @ + 1,
                               !.complete = TRUE, !.maintenance = FALSE])
  /\ Finish(a)
  /\ UNCHANGED <<locks, history>>

BeginRecovery(a) ==
  /\ At(a, "validated", "recover")
  /\ BeginImmediate(a)
  /\ Goto(a, "recovering")
  /\ UNCHANGED <<files, locks, history>>

\* Mutant: recovery without validate_committed.
CommitUnvalidated(a) ==
  /\ pc[a] = "recovering" /\ view[a].maintenance
  /\ Commit(a, [view[a] EXCEPT !.maintenance = FALSE])
  /\ Finish(a)
  /\ UNCHANGED <<locks, history>>

\* Only a marked image that validate_committed accepts is opened again.
CommitRecovery(a) ==
  /\ pc[a] = "recovering" /\ view[a].maintenance /\ view[a].complete
  /\ Commit(a, [view[a] EXCEPT !.maintenance = FALSE])
  /\ Finish(a)
  /\ UNCHANGED <<locks, history>>

\* The probe found enough free pages and disk space: the read session is
\* dropped, and maintenance is entered without giving up the ownership.
ProbePasses(a) ==
  /\ At(a, "reading", "probe")
  /\ transaction' = [transaction EXCEPT ![a] = "none"]
  /\ view' = [view EXCEPT ![a] = Empty]
  /\ Run(a, "reclaim", "closing")
  /\ UNCHANGED <<files, locks, connection, lease, active, history>>

\* VACUUM changes no row; when it fails the marker stays.
FinishReclaim(a) ==
  /\ pc[a] = "reclaiming"
  /\ Autocommit([db EXCEPT !.maintenance = FALSE])
  /\ Run(a, "update", "closing")
  /\ UNCHANGED <<locks, history>>

-----------------------------------------------------------------------------
(* Migration: a check under shared admission, and when a step is pending   *)
(* the upgrade under both exclusive locks, which inspects again.           *)

CheckCurrent(a) ==
  /\ At(a, "connected", "check") /\ db.schema = SchemaOf(a)
  /\ Finish(a)
  /\ UNCHANGED <<files, locks, handles, history>>

CheckPending(a) ==
  /\ At(a, "connected", "check") /\ db.schema < SchemaOf(a)
  /\ Run(a, "migrate", "closing")
  /\ UNCHANGED <<files, locks, handles, history>>

\* Another process upgraded it meanwhile, and its update was interrupted.
LeaveMarked(a) ==
  /\ At(a, "connected", "migrate") /\ db.schema = SchemaOf(a) /\ db.maintenance
  /\ Finish(a)
  /\ UNCHANGED <<files, locks, handles, history>>

\* Mutant: no backup of a workspace whose maintenance was interrupted.
InspectMarked(a) ==
  /\ At(a, "connected", "migrate")
  /\ db.schema <= SchemaOf(a) /\ (db.schema = SchemaOf(a) => ~db.maintenance)
  /\ Goto(a, IF 0 < db.schema /\ db.schema < SchemaOf(a) /\ ~db.maintenance
               THEN "saving" ELSE "upgrading")
  /\ UNCHANGED <<files, locks, handles, history>>

Inspect(a) ==
  /\ At(a, "connected", "migrate")
  /\ db.schema <= SchemaOf(a) /\ (db.schema = SchemaOf(a) => ~db.maintenance)
  /\ Goto(a, IF 0 < db.schema /\ db.schema < SchemaOf(a) THEN "saving" ELSE "upgrading")
  /\ UNCHANGED <<files, locks, handles, history>>

SaveBackup(a) ==
  /\ pc[a] = "saving"
  /\ backup' = db
  /\ Goto(a, "upgrading")
  /\ UNCHANGED <<file, db, seed, locks, handles, history>>

BeginUpgrade(a) ==
  /\ pc[a] = "upgrading"
  /\ BeginImmediate(a)
  /\ Goto(a, "migrating")
  /\ UNCHANGED <<files, locks, history>>

\* The pending migrations may rewrite reference rows; the marker is retained.
CommitUpgrade(a) ==
  /\ pc[a] = "migrating"
  /\ \E change \in IF view[a].schema = SchemaOf(a) THEN {0} ELSE {0, 1} :
       /\ view[a].content + change <= MaxContent
       /\ Commit(a, [view[a] EXCEPT !.schema = SchemaOf(a), !.content = @ + change])
  /\ Finish(a)
  /\ UNCHANGED <<locks, history>>

-----------------------------------------------------------------------------
(* Snapshot and initialization.                                            *)

BeginSnapshot(a) ==
  /\ At(a, "connected", "snapshot") /\ Open(db)
  /\ BeginDeferred(a)
  /\ Goto(a, "copying")
  /\ UNCHANGED <<files, locks, history>>

\* persist_noclobber: an existing destination is kept.
PersistSnapshot(a) ==
  /\ pc[a] = "copying" /\ seed.schema = 0
  /\ seed' = view[a]
  /\ transaction' = [transaction EXCEPT ![a] = "none"]
  /\ view' = [view EXCEPT ![a] = Empty]
  /\ Finish(a)
  /\ UNCHANGED <<file, db, backup, locks, connection, lease, active, history>>

Reserve(a) ==
  /\ At(a, "admitted", "initialize") /\ ~file
  /\ Goto(a, "reserved")
  /\ UNCHANGED <<files, locks, handles, history>>

\* hard_link refuses an existing name.
Install(a) ==
  /\ pc[a] = "reserved" /\ ~file /\ seed.schema > 0
  /\ file' = TRUE /\ db' = seed
  /\ acked' = acked + seed.saved
  /\ Goto(a, "installed")
  /\ UNCHANGED <<backup, seed, locks, handles, observed>>

-----------------------------------------------------------------------------
(* The ends of a call: an error return, the drops, the death of a process. *)

Fallible == {"admitted", "connected", "validated", "writing", "copying",
             "reserved", "applying", "maintaining", "rebuilding", "recovering",
             "reclaiming", "saving", "upgrading", "migrating"}

\* An early return or an error of any step that holds an admission: a refused
\* validation, a busy database, a closure that fails, an absent file, or a
\* session dropped without commit.  Transactions are rolled back by the drops.
Fail(a) ==
  /\ pc[a] \in Fallible
  /\ transaction' = [transaction EXCEPT ![a] = "none"]
  /\ view' = [view EXCEPT ![a] = Empty]
  /\ IF pc[a] = "reserved" THEN Goto(a, "installed") ELSE Finish(a)
  /\ UNCHANGED <<files, locks, connection, lease, active, history>>

\* Fields and locals drop in order: the connection, the mapping lease, the
\* admission, and last the update lock.
Close(a) ==
  /\ pc[a] = "closing"
  /\ connection' = [connection EXCEPT ![a] = "none"]
  /\ Goto(a, IF lease[a] THEN "returning" ELSE "releasing")
  /\ UNCHANGED <<files, locks, lease, active, transaction, view, history>>

ReturnLease(a) ==
  /\ pc[a] = "returning"
  /\ lease' = [lease EXCEPT ![a] = FALSE]
  /\ active' = [active EXCEPT ![ProcessOf[a]] = @ - 1]
  /\ Goto(a, "releasing")
  /\ UNCHANGED <<files, locks, connection, transaction, view, history>>

\* Mutant: a pending migration does not become the update owner.
ReleaseUnowned(a) ==
  /\ pc[a] = "releasing"
  /\ access' = [access EXCEPT ![a] = "none"]
  /\ Goto(a, CASE task[a] = "update" -> "owning"
               [] task[a] \in {"migrate", "reclaim"} -> "admitting"
               [] OTHER -> "unlocking")
  /\ UNCHANGED <<files, update, handles, history>>

Release(a) ==
  /\ pc[a] = "releasing"
  /\ access' = [access EXCEPT ![a] = "none"]
  /\ Goto(a, CASE task[a] = "update" -> "owning"
               [] task[a] = "migrate" -> "locking"
               [] task[a] = "reclaim" -> "admitting"
               [] OTHER -> "unlocking")
  /\ UNCHANGED <<files, update, handles, history>>

\* A WorkspaceInitialization drops its update lock before its admission.
Unlock(a) ==
  /\ pc[a] \in {"unlocking", "installed"}
  /\ update' = [update EXCEPT ![a] = "none"]
  /\ IF pc[a] = "installed" THEN Run(a, "return", "releasing") ELSE Run(a, "none", "idle")
  /\ UNCHANGED <<files, access, handles, history>>

\* What a process held in memory is gone, what was committed stays.
Crash(p) ==
  LET Reset(f, value) == [a \in Actors |-> IF ProcessOf[a] = p THEN value ELSE f[a]]
  IN  /\ \E a \in Actors : ProcessOf[a] = p /\ pc[a] # "idle"
      /\ access' = Reset(access, "none") /\ update' = Reset(update, "none")
      /\ pc' = Reset(pc, "idle") /\ task' = Reset(task, "none")
      /\ connection' = Reset(connection, "none")
      /\ lease' = Reset(lease, FALSE) /\ active' = [active EXCEPT ![p] = 0]
      /\ transaction' = Reset(transaction, "none") /\ view' = Reset(view, Empty)
      /\ UNCHANGED <<files, history>>

-----------------------------------------------------------------------------
SessionStep(a) ==
  BeginRead(a) \/ EndRead(a) \/ BeginWrite(a) \/ CommitWrite(a)

OwnerStep(a) ==
  \/ ValidateJob(a) \/ BeginPublish(a) \/ CommitPublish(a)
  \/ Mark(a) \/ Checkpoint(a) \/ BeginRebuild(a) \/ CommitRebuild(a)
  \/ BeginRecovery(a) \/ CommitRecovery(a) \/ ProbePasses(a) \/ FinishReclaim(a)

UpgradeStep(a) ==
  \/ CheckCurrent(a) \/ CheckPending(a) \/ LeaveMarked(a) \/ Inspect(a)
  \/ SaveBackup(a) \/ BeginUpgrade(a) \/ CommitUpgrade(a)

SeedStep(a) ==
  BeginSnapshot(a) \/ PersistSnapshot(a) \/ Reserve(a) \/ Install(a)

LockStep(a) == Lock(a) \/ LockBusy(a) \/ Admit(a) \/ AdmitBusy(a)

DropStep(a) ==
  Fail(a) \/ Close(a) \/ ReturnLease(a) \/ Release(a) \/ Unlock(a)

\* What the thread of a call does once it is made.
Step(a) ==
  \/ LockStep(a) \/ Connect(a) \/ SessionStep(a) \/ OwnerStep(a)
  \/ UpgradeStep(a) \/ SeedStep(a) \/ DropStep(a)

Next ==
  \/ \E a \in Actors : Call(a) \/ OwnerCall(a) \/ DropOwner(a) \/ Step(a)
  \/ \E p \in Processes : Crash(p)

Spec == Init /\ [][Next]_vars

\* A thread that is in a call goes on; nobody has to call.
FairSpec == Spec /\ \A a \in Actors : WF_vars(Step(a))

-----------------------------------------------------------------------------
(* Safety.                                                                 *)

\* While one actor has exclusive admission, no other actor has a connection
\* to the file: handles are closed before their admission is given back
\* (session.rs:9), so maintenance can truncate and VACUUM the file.
ExclusiveMeansAlone ==
  \A a, b \in Actors :
    a # b /\ access[a] = "exclusive" => connection[b] = "none"

\* A product session that is open shows the current, whole reference of an
\* open workspace, with the schema its executable knows, however long the
\* session lasts and whatever publishers, upgrades and crashes come between.
SessionsAreCurrent ==
  \A a \in Actors : pc[a] \in {"reading", "writing"} =>
    /\ file /\ Open(db) /\ db.complete /\ db.schema = SchemaOf(a)
    /\ Reference(view[a]) = Reference(db)

\* A half-updated reference is never open: neither in the workspace after any
\* crash or failed job, nor in a seed taken from it.
NothingPartialIsOpen == Sound(db) /\ Sound(seed) /\ ~seed.maintenance

\* Every edit of saved state whose commit returned is in the database,
\* across publications, upgrades, snapshots and crashes: nothing commits a
\* working copy older than the last edit.
NoEditIsLost == db.saved = acked

\* A process never has more mapped connections than its budget, and the budget
\* is given back: the counter is the number of leases that are out.
MappingsWithinBudget ==
  \A p \in Processes :
    LET mapped == {a \in Actors : ProcessOf[a] = p /\ connection[a] = "mapped"}
        leased == {a \in Actors : ProcessOf[a] = p /\ lease[a]}
    IN  Cardinality(mapped) <= MaxMappedReaders /\ active[p] = Cardinality(leased)

\* A reference revision names one reference: of two sessions of one schema
\* shown the same revision, however far apart, the later is shown the rows the
\* earlier was.  Reuse of results by revision (atlas-search, neighbor_reuse.rs)
\* relies on it.
RevisionNamesReference ==
  [][observed'[1] = observed[1] /\ observed'[2] = observed[2]
       => observed'[3] = observed[3]]_vars

\* The step that upgrades an existing database leaves beside it a backup of
\* exactly the image it replaces.
UpgradesAreBackedUp ==
  [][0 < db.schema /\ db.schema < db'.schema => backup' = db]_vars

\* From the moment an actor owns the update lock, only its own steps change
\* the reference, the schema or the marker: what it prepared from them over
\* many sessions is still valid when it publishes.
OwnerAloneUpdates ==
  [][\A a \in Actors :
       update[a] = "exclusive" /\ pc'[a] = pc[a] /\ pc[a] # "maintaining" =>
         Reference(db') = Reference(db) /\ db'.maintenance = db.maintenance]_vars

\* A snapshot is not torn by an owner: while the shared update lock is held
\* for it, the reference it copies stays the current one.
SnapshotsAreCurrent ==
  \A a \in Actors : pc[a] = "copying" => Reference(view[a]) = Reference(db)

-----------------------------------------------------------------------------
(* The inductive invariant behind them.                                    *)

\* Where an actor is admitted, where it is connected, where it writes, and
\* where it may change more than saved state.
Admitted == Fallible \cup {"reading"}
Connected == Admitted \ {"admitted", "reserved"}
Writing == {"writing", "applying", "rebuilding", "recovering", "migrating"}
Exclusive ==
  {"validated", "reserved", "applying", "maintaining", "rebuilding",
   "recovering", "reclaiming", "saving", "upgrading", "migrating"}
Dropping == {"closing", "returning", "releasing"}

\* The functions an actor can be in at each location.
TasksAt(where) ==
  CASE where = "idle" -> {"none"}
    [] where = "locking" -> {"update", "snapshot", "initialize", "migrate"}
    [] where = "owning" -> {"update"}
    [] where \in {"admitting", "admitted", "connected"} ->
         (Calls \ {"update"}) \cup OwnerJobs \cup {"check", "probe"}
    [] where = "validated" -> OwnerJobs
    [] where = "reading" -> {"read", "probe"}
    [] where = "writing" -> {"write"}
    [] where = "copying" -> {"snapshot"}
    [] where \in {"reserved", "installed"} -> {"initialize"}
    [] where = "applying" -> {"publish"}
    [] where \in {"maintaining", "rebuilding"} -> {"maintain"}
    [] where = "recovering" -> {"recover"}
    [] where = "reclaiming" -> {"reclaim"}
    [] where \in {"saving", "upgrading", "migrating"} -> {"migrate"}
    [] where = "unlocking" -> {"return"}
    [] OTHER -> {"update", "migrate", "reclaim", "return"}

Located == \A a \in Actors : task[a] \in TasksAt(pc[a])

Exclusion(lock) ==
  \A a, b \in Actors : a # b /\ lock[a] = "exclusive" => lock[b] = "none"

\* An admitted actor holds the access lock as its function asks for, and a
\* connection is only open while it does.
AccessHeld ==
  /\ Exclusion(access)
  /\ \A a \in Actors :
       /\ pc[a] \in Admitted => access[a] = AccessMode(task[a])
       /\ pc[a] \in {"closing", "returning"} => access[a] # "none"
       /\ connection[a] # "none" => pc[a] \in Connected \cup {"closing"}
       /\ pc[a] \in Connected => file

\* An owner keeps the update lock between its jobs and within them.
Owned(a) ==
  \/ task[a] \in OwnerJobs \cup {"probe"}
  \/ task[a] = "update" /\ pc[a] # "locking"
  \/ task[a] \in {"migrate", "initialize"} /\ pc[a] \in Admitted \cup {"admitting"}

UpdateHeld ==
  /\ Exclusion(update)
  /\ \A a \in Actors : Owned(a) => update[a] = "exclusive"

\* A writer is alone and works on the committed image; a session reads the
\* reference of the committed image, which is open and whole.
Transacting ==
  /\ \A a \in Actors : transaction[a] = "write" <=> pc[a] \in Writing
  /\ \A a, b \in Actors :
       transaction[a] = "write" /\ transaction[b] = "write" => a = b
  /\ \A a \in Actors : pc[a] \in Writing => view[a] = db
  /\ \A a \in Actors : pc[a] \in {"reading", "writing", "copying"} =>
       /\ Open(db) /\ db.complete /\ Reference(view[a]) = Reference(db)
       /\ Open(view[a]) /\ view[a].complete
       /\ pc[a] # "copying" => db.schema = SchemaOf(a)

\* What the jobs of an owner and an upgrade know of the image they work on.
Working ==
  /\ Sound(db) /\ Sound(seed) /\ ~seed.maintenance
  /\ ~file => db = Empty
  /\ db.saved = acked
  /\ \A a \in Actors :
       /\ task[a] = "reclaim" => db.complete
       /\ At(a, "validated", "publish") \/ pc[a] = "applying" => Open(db)
       /\ pc[a] \in {"validated", "maintaining", "rebuilding", "recovering", "reclaiming"} =>
            db.schema > 0
       /\ pc[a] \in {"maintaining", "rebuilding", "reclaiming"} => db.maintenance
       /\ pc[a] \in {"saving", "upgrading", "migrating"} => db.schema <= SchemaOf(a)
       /\ pc[a] \in {"upgrading", "migrating"} /\ 0 < db.schema /\ db.schema < SchemaOf(a) =>
            backup = db

IndInv == TypeOK /\ Located /\ AccessHeld /\ UpdateHeld /\ Transacting /\ Working

-----------------------------------------------------------------------------
(* Liveness and refinement.                                                *)

\* Every call returns, to the caller or to the owner it was made on: lock
\* waits are bounded, so no call starves behind sessions that keep coming.
CallsReturn ==
  \A a \in Actors : pc[a] \notin {"idle", "owning"} ~> pc[a] \in {"idle", "owning"}

\* Product sessions as the code above sees them.
HeldReference ==
  [a \in Actors |-> IF pc[a] \in {"reading", "writing"} THEN Reference(view[a]) ELSE <<>>]

Store == INSTANCE AdmittedStore
           WITH held <- HeldReference, Origins <- Starts,
                Schemas <- {Version[p] : p \in Processes}

\* The store with its locks, connections and transactions does nothing that
\* the atomic store of AdmittedStore does not allow.
ImplementsStore == Store!Spec
=============================================================================
