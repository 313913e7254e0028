--------------------------- MODULE WorkspaceSteps ---------------------------
(***************************************************************************)
(* Proofs about the steps of Workspace: what an owner, an upgrade and the  *)
(* sessions can rely on from one step to the next; that the counter of     *)
(* mapped connections moves with their leases; and that Workspace          *)
(* implements AdmittedStore: with the session of an actor mapped to the    *)
(* reference it reads, every step of the locks, connections and            *)
(* transactions is a step of the atomic store or none.                     *)
(***************************************************************************)
EXTENDS WorkspaceProofs, FiniteSetTheorems

\* The nine actions that change the committed image.
Changes(a) ==
  \/ CommitWrite(a) \/ CommitPublish(a) \/ Mark(a) \/ Checkpoint(a)
  \/ CommitRebuild(a) \/ CommitRecovery(a) \/ FinishReclaim(a)
  \/ CommitUpgrade(a) \/ Install(a)

\* Every other step leaves the image alone.
LEMMA OnlyChanges ==
  ASSUME NEW a \in Actors, Call(a) \/ OwnerCall(a) \/ DropOwner(a) \/ Step(a), ~Changes(a)
  PROVE  db' = db
<1> USE DEF files
<1>1. CASE Call(a) \/ OwnerCall(a) \/ DropOwner(a)
  BY <1>1 DEF Call, OwnerCall, DropOwner
<1>2. CASE LockStep(a) \/ DropStep(a)
  BY <1>2 DEF LockStep, DropStep, Lock, LockBusy, Admit, AdmitBusy, Fail, Close, ReturnLease,
              Release, Unlock
<1>3. CASE Connect(a)
  BY <1>3 DEF Connect
<1>4. CASE SessionStep(a)
  BY <1>4 DEF SessionStep, Changes, BeginRead, EndRead, BeginWrite
<1>5. CASE OwnerStep(a)
  BY <1>5
     DEF OwnerStep, Changes, ValidateJob, BeginPublish, BeginRebuild, BeginRecovery, ProbePasses
<1>6. CASE UpgradeStep(a)
  BY <1>6
     DEF UpgradeStep, Changes, CheckCurrent, CheckPending, LeaveMarked, Inspect, SaveBackup,
              BeginUpgrade
<1>7. CASE SeedStep(a)
  BY <1>7 DEF SeedStep, Changes, BeginSnapshot, PersistSnapshot, Reserve
<1>8. QED
  BY <1>1, <1>2, <1>3, <1>4, <1>5, <1>6, <1>7 DEF Step

\* What each of the nine makes of the image.
LEMMA Changed ==
  ASSUME IndInv, NEW a \in Actors
  PROVE  /\ CommitWrite(a) => db' = [db EXCEPT !.saved = @ + 1]
         /\ CommitPublish(a) => db' = [db EXCEPT !.revision = @ + 1, !.content = @ + 1]
         /\ Mark(a) => db' = [db EXCEPT !.maintenance = TRUE]
         /\ Checkpoint(a) => db' = [db EXCEPT !.content = @ + 1, !.complete = FALSE]
         /\ CommitRebuild(a) => db' = [db EXCEPT !.revision = @ + 1, !.content = @ + 1,
                                                 !.complete = TRUE, !.maintenance = FALSE]
         /\ CommitRecovery(a) => /\ db.complete /\ db.maintenance
                                 /\ db' = [db EXCEPT !.maintenance = FALSE]
         /\ FinishReclaim(a) => db' = [db EXCEPT !.maintenance = FALSE]
         /\ CommitUpgrade(a) => \E change \in {0, 1} :
              /\ db' = [db EXCEPT !.schema = SchemaOf(a), !.content = @ + change]
              /\ db.schema = SchemaOf(a) => change = 0
         /\ Install(a) => db' = seed /\ db = Empty /\ seed.schema > 0
<1> USE DEF IndInv
<1>1. pc[a] \in Writing => view[a] = db
  BY DEF Transacting
<1>2. CommitWrite(a) => db' = [db EXCEPT !.saved = @ + 1]
  BY <1>1 DEF CommitWrite, Commit, Writing
<1>3. CommitPublish(a) => db' = [db EXCEPT !.revision = @ + 1, !.content = @ + 1]
  BY <1>1 DEF CommitPublish, Commit, Writing
<1>4. CommitRebuild(a) => db' = [db EXCEPT !.revision = @ + 1, !.content = @ + 1,
                                           !.complete = TRUE, !.maintenance = FALSE]
  BY <1>1 DEF CommitRebuild, Commit, Writing
<1>5. CommitRecovery(a) =>
        db.complete /\ db.maintenance /\ db' = [db EXCEPT !.maintenance = FALSE]
  BY <1>1 DEF CommitRecovery, Commit, Writing
<1>6. ASSUME CommitUpgrade(a)
      PROVE  \E change \in {0, 1} :
               /\ db' = [db EXCEPT !.schema = SchemaOf(a), !.content = @ + change]
               /\ db.schema = SchemaOf(a) => change = 0
  <2>1. view[a] = db
    BY <1>1, <1>6 DEF CommitUpgrade, Writing
  <2>2. PICK change \in IF view[a].schema = SchemaOf(a) THEN {0} ELSE {0, 1} :
          Commit(a, [view[a] EXCEPT !.schema = SchemaOf(a), !.content = @ + change])
    BY <1>6 DEF CommitUpgrade
  <2>3. /\ change \in {0, 1} /\ (db.schema = SchemaOf(a) => change = 0)
        /\ db' = [db EXCEPT !.schema = SchemaOf(a), !.content = @ + change]
    BY <2>1, <2>2 DEF Commit
  <2>4. QED
    BY <2>3
<1>7. /\ Mark(a) => db' = [db EXCEPT !.maintenance = TRUE]
      /\ Checkpoint(a) => db' = [db EXCEPT !.content = @ + 1, !.complete = FALSE]
      /\ FinishReclaim(a) => db' = [db EXCEPT !.maintenance = FALSE]
  BY DEF Mark, Checkpoint, FinishReclaim, Autocommit
<1>8. Install(a) => db' = seed /\ db = Empty /\ seed.schema > 0
  BY DEF Install, Working
<1>9. QED
  BY <1>2, <1>3, <1>4, <1>5, <1>6, <1>7, <1>8

\* Whoever changes the reference or the marker owns the update lock, and goes
\* on in its call except for a checkpoint.
LEMMA ChangersOwn ==
  ASSUME IndInv, NEW a \in Actors, Changes(a), ~CommitWrite(a)
  PROVE  update[a] = "exclusive" /\ (pc'[a] # pc[a] \/ pc[a] = "maintaining")
<1> USE DEF IndInv, TypeOK
<1>1. pc[a] \in {"applying", "rebuilding", "recovering", "reclaiming", "migrating", "reserved",
                 "maintaining"} \/ Mark(a)
  BY DEF Changes, CommitPublish, Checkpoint, CommitRebuild, CommitRecovery, FinishReclaim,
         CommitUpgrade, Install
<1>2. update[a] = "exclusive"
  BY <1>1 DEF Mark, Located, TasksAt, UpdateHeld, Owned, Admitted, Fallible, OwnerJobs
<1>3. pc'[a] # pc[a] \/ pc[a] = "maintaining"
  BY DEF Changes, CommitPublish, Mark, Checkpoint, CommitRebuild, CommitRecovery, FinishReclaim,
         CommitUpgrade, Install, Finish, Run, Goto
<1>4. QED
  BY <1>2, <1>3

\* Only an upgrade moves the schema of a file that has one.
LEMMA SchemaKept ==
  ASSUME IndInv, NEW a \in Actors, Changes(a), ~CommitUpgrade(a), db.schema > 0
  PROVE  db'.schema = db.schema
<1> USE DEF IndInv, TypeOK, Image
<1>1. CASE CommitWrite(a) \/ CommitPublish(a) \/ CommitRebuild(a) \/ CommitRecovery(a)
  BY <1>1, Changed
<1>2. CASE Mark(a) \/ Checkpoint(a) \/ FinishReclaim(a)
  BY <1>2, Changed
<1>3. ~Install(a)
  BY DEF Install, Working, Empty
<1>4. QED
  BY <1>1, <1>2, <1>3 DEF Changes

\* While an actor owns the update lock, only its own steps change the
\* reference or the marker: what a publisher prepared stays valid.
THEOREM OwnersUpdateAlone == Spec => OwnerAloneUpdates
<1> DEFINE Alone ==
      \A a \in Actors :
        update[a] = "exclusive" /\ pc'[a] = pc[a] /\ pc[a] # "maintaining" =>
          Reference(db') = Reference(db) /\ db'.maintenance = db.maintenance
<1>1. ASSUME IndInv, [Next]_vars, NEW a \in Actors,
             update[a] = "exclusive", pc'[a] = pc[a], pc[a] # "maintaining"
      PROVE  Reference(db') = Reference(db) /\ db'.maintenance = db.maintenance
  <2>1. CASE db' = db
    BY <2>1
  <2>2. ASSUME NEW b \in Actors, Changes(b)
        PROVE  Reference(db') = Reference(db) /\ db'.maintenance = db.maintenance
    <3>1. CASE CommitWrite(b)
      <4>1. db' = [db EXCEPT !.saved = @ + 1]
        BY <1>1, <3>1 DEF CommitWrite, Commit, IndInv, Transacting, Writing
      <4>2. QED
        BY <1>1, <4>1 DEF Reference, IndInv, TypeOK, Image
    <3>2. CASE ~CommitWrite(b)
      <4>1. update[b] = "exclusive" /\ (pc'[b] # pc[b] \/ pc[b] = "maintaining")
        BY <1>1, <2>2, <3>2, ChangersOwn
      <4>2. a = b
        BY <1>1, <4>1 DEF IndInv, UpdateHeld, Exclusion
      <4>3. QED
        BY <1>1, <4>1, <4>2
    <3>3. QED
      BY <3>1, <3>2
  <2>3. ASSUME NEW p \in Processes, Crash(p) PROVE db' = db
    BY <2>3 DEF Crash, files
  <2>4. QED
    BY <1>1, <2>1, <2>2, <2>3, OnlyChanges DEF Next, vars, files
<1>2. IndInv /\ [Next]_vars => [Alone]_vars
  BY <1>1
<1>3. QED
  BY <1>2, Inductive, PTL DEF Spec, OwnerAloneUpdates

\* An upgrade never replaces an image that is not saved beside it.
THEOREM UpgradesKeepABackup == Spec => UpgradesAreBackedUp
<1>1. ASSUME IndInv, [Next]_vars, 0 < db.schema, db.schema < db'.schema PROVE backup' = db
  <2>1. ASSUME NEW a \in Actors, Changes(a) PROVE backup' = db
    <3>1. CommitUpgrade(a)
      BY <1>1, <2>1, SchemaKept DEF IndInv, TypeOK, Image
    <3>2. db'.schema = SchemaOf(a)
      <4>1. PICK change : Commit(a, [view[a] EXCEPT !.schema = SchemaOf(a), !.content = @ + change])
        BY <3>1 DEF CommitUpgrade
      <4>2. QED
        BY <1>1, <4>1 DEF Commit, IndInv, TypeOK, Image
    <3>3. backup = db /\ backup' = backup
      BY <1>1, <3>1, <3>2 DEF CommitUpgrade, Commit, IndInv, Working
    <3>4. QED
      BY <3>3
  <2>2. ASSUME NEW p \in Processes, Crash(p) PROVE db' = db
    BY <2>2 DEF Crash, files
  <2>3. db' # db
    BY <1>1 DEF IndInv, TypeOK, Image
  <2>4. QED
    BY <1>1, <2>1, <2>2, <2>3, OnlyChanges DEF Next, vars, files
<1>2. IndInv /\ [Next]_vars => [0 < db.schema /\ db.schema < db'.schema => backup' = db]_vars
  BY <1>1
<1>3. QED
  BY <1>2, Inductive, PTL DEF Spec, UpgradesAreBackedUp

-----------------------------------------------------------------------------
\* What the last session was shown lies behind the image, and is the image's
\* reference if they have the same schema and revision and it is whole.
ShownIsBehind ==
  /\ observed[1] <= db.schema
  /\ observed[1] = db.schema => observed[2] <= db.revision
  /\ 0 < observed[1] /\ observed[1] = db.schema /\ observed[2] = db.revision /\ db.complete =>
       observed[3] = db.content

\* Only the two session openings show a reference.
LEMMA ShownMoves ==
  ASSUME [Next]_vars
  PROVE  observed' = observed \/ \E a \in Actors : BeginRead(a) \/ BeginWrite(a)
<1> USE DEF history
<1>1. ASSUME NEW a \in Actors, Call(a) \/ OwnerCall(a) \/ DropOwner(a) \/ Step(a)
      PROVE  observed' = observed \/ BeginRead(a) \/ BeginWrite(a)
  <2>1. CASE Call(a) \/ OwnerCall(a) \/ DropOwner(a) \/ Connect(a)
    BY <2>1 DEF Call, OwnerCall, DropOwner, Connect
  <2>2. CASE LockStep(a) \/ DropStep(a)
    BY <2>2 DEF LockStep, DropStep, Lock, LockBusy, Admit, AdmitBusy, Fail, Close, ReturnLease,
                Release, Unlock
  <2>3. CASE SessionStep(a)
    BY <2>3 DEF SessionStep, EndRead, CommitWrite
  <2>4. CASE OwnerStep(a)
    BY <2>4 DEF OwnerStep, ValidateJob, BeginPublish, CommitPublish, Mark, Checkpoint,
                BeginRebuild, CommitRebuild, BeginRecovery, CommitRecovery, ProbePasses,
                FinishReclaim
  <2>5. CASE UpgradeStep(a)
    BY <2>5 DEF UpgradeStep, CheckCurrent, CheckPending, LeaveMarked, Inspect, SaveBackup,
                BeginUpgrade, CommitUpgrade
  <2>6. CASE SeedStep(a)
    BY <2>6 DEF SeedStep, BeginSnapshot, PersistSnapshot, Reserve, Install
  <2>7. QED
    BY <1>1, <2>1, <2>2, <2>3, <2>4, <2>5, <2>6 DEF Step
<1>2. ASSUME NEW p \in Processes, Crash(p) PROVE observed' = observed
  BY <1>2 DEF Crash
<1>3. QED
  BY <1>1, <1>2 DEF Next, vars

\* What a session was last shown is never ahead of the database
\* (revisions and rows only grow within a schema).
LEMMA ShownStep ==
  ASSUME IndInv, ShownIsBehind, [Next]_vars PROVE ShownIsBehind'
<1> USE DEF ShownIsBehind, IndInv, TypeOK, Image
<1>1. ASSUME db' = db, observed' = observed PROVE ShownIsBehind'
  BY <1>1
<1>2. ASSUME NEW a \in Actors, BeginRead(a) \/ BeginWrite(a) PROVE ShownIsBehind'
  <2>1. observed' = <<db.schema, db.revision, db.content>> /\ db' = db
    BY <1>2 DEF BeginRead, BeginWrite, Reference, files
  <2>2. QED
    BY <2>1
<1>3. ASSUME NEW a \in Actors, Changes(a) PROVE ShownIsBehind'
  <2>1. observed' = observed
    BY <1>3 DEF Changes, CommitWrite, CommitPublish, Mark, Checkpoint, CommitRebuild,
                CommitRecovery, FinishReclaim, CommitUpgrade, Install, history
  <2>2. CASE CommitWrite(a) \/ Mark(a) \/ CommitRecovery(a) \/ FinishReclaim(a)
    <3>1. /\ db'.schema = db.schema /\ db'.revision = db.revision
          /\ db'.content = db.content /\ db'.complete = db.complete
      BY <2>2, Changed
    <3>2. QED
      BY <2>1, <3>1
  <2>3. CASE CommitPublish(a) \/ CommitRebuild(a)
    <3>1. db'.schema = db.schema /\ db'.revision = db.revision + 1
      BY <2>3, Changed
    <3>2. QED
      BY <2>1, <3>1
  <2>4. CASE Checkpoint(a)
    <3>1. db'.schema = db.schema /\ db'.revision = db.revision /\ ~db'.complete
      BY <2>4, Changed
    <3>2. QED
      BY <2>1, <3>1
  <2>5. CASE CommitUpgrade(a)
    <3>1. PICK change \in {0, 1} :
            /\ db' = [db EXCEPT !.schema = SchemaOf(a), !.content = @ + change]
            /\ db.schema = SchemaOf(a) => change = 0
      BY <2>5, Changed
    <3>2. /\ db'.schema = SchemaOf(a) /\ db'.revision = db.revision
          /\ db'.content = db.content + change /\ db'.complete = db.complete
      BY <3>1
    <3>3. db.schema <= SchemaOf(a) /\ SchemaOf(a) \in Nat
      BY <2>5, ProcessAssumption DEF CommitUpgrade, Working, SchemaOf
    <3>4. QED
      BY <2>1, <3>1, <3>2, <3>3
  <2>6. CASE Install(a)
    <3>1. db' = seed /\ db = Empty /\ seed.schema > 0
      BY <2>6, Changed
    <3>2. db.schema = 0
      BY <3>1 DEF Empty
    <3>3. QED
      BY <2>1, <3>1, <3>2
  <2>7. QED
    BY <1>3, <2>2, <2>3, <2>4, <2>5, <2>6 DEF Changes
<1>4. CASE \A a \in Actors : ~Changes(a)
  <2>1. db' = db
    BY <1>4, OnlyChanges DEF Next, Crash, vars, files
  <2>2. QED
    BY <1>1, <1>2, <2>1, ShownMoves
<1>5. QED
  BY <1>3, <1>4

\* Before any session nothing has been shown.
LEMMA InitShown == Init => ShownIsBehind
<1> SUFFICES ASSUME Init PROVE ShownIsBehind
  OBVIOUS
<1>1. observed = <<0, 0, 0>>
  BY DEF Init, Reference, Empty
<1>2. db \in Image
  BY StartAssumption DEF Init, Start
<1>3. QED
  BY <1>1, <1>2 DEF ShownIsBehind, Image

\* A revision of a schema is shown with the same rows every time, whatever
\* publications, cut-off maintenance, recoveries and upgrades come between.
THEOREM RevisionsNameReferences == Spec => RevisionNamesReference
<1> DEFINE Same ==
      observed'[1] = observed[1] /\ observed'[2] = observed[2] => observed'[3] = observed[3]
<1>1. ASSUME IndInv, ShownIsBehind, [Next]_vars PROVE Same
  <2>1. CASE observed' = observed
    BY <2>1
  <2>2. ASSUME NEW a \in Actors, BeginRead(a) \/ BeginWrite(a) PROVE Same
    <3>1. observed' = <<db.schema, db.revision, db.content>> /\ db.complete /\ 0 < db.schema
      BY <1>1, <2>2, ProcessAssumption
         DEF BeginRead, BeginWrite, Reference, Valid, IndInv, Working, Sound, SchemaOf
    <3>2. QED
      BY <1>1, <3>1 DEF ShownIsBehind, IndInv, TypeOK
  <2>3. QED
    BY <1>1, <2>1, <2>2, ShownMoves
<1>2. IndInv /\ ShownIsBehind /\ [Next]_vars => [Same]_vars
  BY <1>1
<1>3. IndInv /\ ShownIsBehind /\ [Next]_vars => ShownIsBehind'
  BY ShownStep
<1>4. QED
  BY <1>2, <1>3, InitShown, Inductive, PTL DEF Spec, RevisionNamesReference

-----------------------------------------------------------------------------
(* Mapped connections: what READ_MAPPINGS counts.                          *)

\* The threads of a process that hold a MappingLease.
Leased(p) == {a \in Actors : ProcessOf[a] = p /\ lease[a]}

\* Where a thread may hold one.
Leasing == Connected \cup {"closing", "returning"}

\* A mapped connection is open under a lease; a lease is taken where there is
\* capacity and held until it is returned.
Budgeted ==
  /\ \A a \in Actors :
       /\ connection[a] = "mapped" => lease[a]
       /\ lease[a] => pc[a] \in Leasing
       /\ pc[a] = "returning" => lease[a]
  /\ \A p \in Processes :
       /\ IsFiniteSet(Leased(p)) /\ active[p] = Cardinality(Leased(p))
       /\ active[p] <= MaxMappedReaders

\* Every other step of a thread leaves the leases alone, and a thread that has
\* one goes on to where it is given back.
LEMMA OtherStepsKeepLeases ==
  ASSUME IndInv, NEW a \in Actors, Call(a) \/ OwnerCall(a) \/ DropOwner(a) \/ Step(a),
         ~Connect(a), ~Close(a), ~ReturnLease(a)
  PROVE  /\ UNCHANGED <<connection, lease, active>>
         /\ \A b \in Actors \ {a} : pc'[b] = pc[b]
         /\ pc[a] \in Leasing => pc'[a] \in Leasing
         /\ pc'[a] # "returning"
<1> USE DEF IndInv, TypeOK, handles, Leasing, Connected, Admitted, Fallible
<1>1. CASE Call(a) \/ OwnerCall(a) \/ DropOwner(a)
  BY <1>1 DEF Call, OwnerCall, DropOwner, Run
<1>2. CASE LockStep(a)
  BY <1>2 DEF LockStep, Lock, LockBusy, Admit, AdmitBusy, Run, Goto
<1>3. CASE SessionStep(a)
  BY <1>3 DEF SessionStep, BeginRead, EndRead, BeginWrite, CommitWrite, BeginDeferred,
              BeginImmediate, Commit, Goto, Finish, Run, At
<1>4. CASE ValidateJob(a) \/ BeginPublish(a) \/ CommitPublish(a)
  BY <1>4 DEF ValidateJob, BeginPublish, CommitPublish, BeginImmediate, Commit, Goto, Finish,
              Run, At
<1>5. CASE Mark(a) \/ Checkpoint(a) \/ ProbePasses(a) \/ FinishReclaim(a)
  BY <1>5 DEF Mark, Checkpoint, ProbePasses, FinishReclaim, Autocommit, Goto, Run, At,
              control
<1>6. CASE BeginRebuild(a) \/ CommitRebuild(a) \/ BeginRecovery(a) \/ CommitRecovery(a)
  BY <1>6 DEF BeginRebuild, CommitRebuild, BeginRecovery, CommitRecovery, BeginImmediate,
              Commit, Goto, Finish, Run, At
<1>7. CASE CheckCurrent(a) \/ CheckPending(a) \/ LeaveMarked(a) \/ Inspect(a)
  BY <1>7 DEF CheckCurrent, CheckPending, LeaveMarked, Inspect, Goto, Finish, Run, At
<1>8. CASE SaveBackup(a) \/ BeginUpgrade(a) \/ CommitUpgrade(a)
  <2>1. CASE CommitUpgrade(a)
    BY <2>1 DEF CommitUpgrade, Commit, Finish, Run
  <2>2. QED
    BY <1>8, <2>1 DEF SaveBackup, BeginUpgrade, BeginImmediate, Goto
<1>9. CASE SeedStep(a)
  BY <1>9 DEF SeedStep, BeginSnapshot, PersistSnapshot, Reserve, Install, BeginDeferred,
              Goto, Finish, Run, At
<1>10. CASE Fail(a) \/ Release(a) \/ Unlock(a)
  BY <1>10 DEF Fail, Release, Unlock, Goto, Finish, Run
<1>11. QED
  BY <1>1, <1>2, <1>3, <1>4, <1>5, <1>6, <1>7, <1>8, <1>9, <1>10
     DEF Step, OwnerStep, UpgradeStep, DropStep

\* The counter moves with the leases, and never above the budget.
LEMMA BudgetStep == ASSUME IndInv, Budgeted, [Next]_vars PROVE Budgeted'
<1>1. CASE UNCHANGED vars
  BY <1>1 DEF vars, control, handles, Budgeted, Leased
<1>2. ASSUME NEW a \in Actors, Call(a) \/ OwnerCall(a) \/ DropOwner(a) \/ Step(a)
      PROVE  Budgeted'
  <2>1. CASE Connect(a)
    <3>1. PICK mapped \in BOOLEAN :
            /\ mapped => MayMap(a)
            /\ connection' = [connection EXCEPT ![a] = IF mapped THEN "mapped" ELSE "plain"]
            /\ lease' = [lease EXCEPT ![a] = mapped]
            /\ active' = [active EXCEPT ![ProcessOf[a]] = IF mapped THEN @ + 1 ELSE @]
      BY <2>1 DEF Connect
    <3>2. pc[a] = "admitted" /\ pc' = [pc EXCEPT ![a] = "connected"]
      BY <2>1 DEF Connect, Goto
    <3>3. ~lease[a] /\ ProcessOf[a] \in Processes
      BY <3>2, ProcessAssumption DEF Budgeted, Leasing, Connected
    <3>4. \A b \in Actors :
            /\ connection'[b] = "mapped" => lease'[b]
            /\ lease'[b] => pc'[b] \in Leasing
            /\ pc'[b] = "returning" => lease'[b]
      BY <3>1, <3>2 DEF IndInv, TypeOK, Budgeted, Leasing, Connected, Admitted, Fallible
    <3>5. ASSUME NEW p \in Processes
          PROVE  /\ IsFiniteSet(Leased(p)') /\ active'[p] = Cardinality(Leased(p)')
                 /\ active'[p] <= MaxMappedReaders
      <4>1. IsFiniteSet(Leased(p)) /\ active[p] = Cardinality(Leased(p))
              /\ active[p] <= MaxMappedReaders
        BY DEF Budgeted
      <4>2. CASE mapped /\ p = ProcessOf[a]
        <5>1. Leased(p)' = Leased(p) \cup {a} /\ a \notin Leased(p)
          BY <3>1, <3>3, <4>2 DEF IndInv, TypeOK, Leased
        <5>2. active'[p] = active[p] + 1 /\ active[p] < MaxMappedReaders
          BY <3>1, <4>2 DEF IndInv, TypeOK, MayMap
        <5>3. /\ IsFiniteSet(Leased(p) \cup {a})
              /\ Cardinality(Leased(p) \cup {a}) = Cardinality(Leased(p)) + 1
          BY <4>1, <5>1, FS_AddElement
        <5>4. QED
          BY <4>1, <5>1, <5>2, <5>3, BoundAssumption DEF IndInv, TypeOK
      <4>3. CASE ~(mapped /\ p = ProcessOf[a])
        <5>1. Leased(p)' = Leased(p)
          BY <3>1, <3>3, <4>3 DEF IndInv, TypeOK, Leased
        <5>2. active'[p] = active[p]
          BY <3>1, <4>3 DEF IndInv, TypeOK
        <5>3. QED
          BY <4>1, <5>1, <5>2
      <4>4. QED
        BY <4>2, <4>3
    <3>6. QED
      BY <3>4, <3>5 DEF Budgeted
  <2>2. CASE Close(a)
    <3>1. /\ lease' = lease /\ active' = active
          /\ connection' = [connection EXCEPT ![a] = "none"]
          /\ pc' = [pc EXCEPT ![a] = IF lease[a] THEN "returning" ELSE "releasing"]
      BY <2>2 DEF Close, Goto
    <3>2. QED
      BY <3>1 DEF IndInv, TypeOK, Budgeted, Leased, Leasing
  <2>3. CASE ReturnLease(a)
    <3>1. /\ pc[a] = "returning" /\ connection' = connection
          /\ lease' = [lease EXCEPT ![a] = FALSE]
          /\ active' = [active EXCEPT ![ProcessOf[a]] = @ - 1]
          /\ pc' = [pc EXCEPT ![a] = "releasing"]
      BY <2>3 DEF ReturnLease, Goto
    <3>2. lease[a] /\ connection[a] = "none" /\ ProcessOf[a] \in Processes
      BY <3>1, ProcessAssumption
         DEF IndInv, Budgeted, AccessHeld, Connected, Admitted, Fallible
    <3>3. \A b \in Actors :
            /\ connection'[b] = "mapped" => lease'[b]
            /\ lease'[b] => pc'[b] \in Leasing
            /\ pc'[b] = "returning" => lease'[b]
      BY <3>1, <3>2 DEF IndInv, TypeOK, Budgeted
    <3>4. ASSUME NEW p \in Processes
          PROVE  /\ IsFiniteSet(Leased(p)') /\ active'[p] = Cardinality(Leased(p)')
                 /\ active'[p] <= MaxMappedReaders
      <4>1. IsFiniteSet(Leased(p)) /\ active[p] = Cardinality(Leased(p))
              /\ active[p] <= MaxMappedReaders /\ active[p] \in Int
        BY DEF Budgeted, IndInv, TypeOK
      <4>2. CASE p = ProcessOf[a]
        <5>1. Leased(p)' = Leased(p) \ {a} /\ a \in Leased(p)
          BY <3>1, <3>2, <4>2 DEF IndInv, TypeOK, Leased
        <5>2. active'[p] = active[p] - 1
          BY <3>1, <4>2 DEF IndInv, TypeOK
        <5>3. /\ IsFiniteSet(Leased(p) \ {a})
              /\ Cardinality(Leased(p) \ {a}) = Cardinality(Leased(p)) - 1
          BY <4>1, <5>1, FS_RemoveElement
        <5>4. QED
          BY <4>1, <5>1, <5>2, <5>3, BoundAssumption
      <4>3. CASE p # ProcessOf[a]
        <5>1. Leased(p)' = Leased(p)
          BY <3>1, <4>3 DEF IndInv, TypeOK, Leased
        <5>2. active'[p] = active[p]
          BY <3>1, <4>3 DEF IndInv, TypeOK
        <5>3. QED
          BY <4>1, <5>1, <5>2
      <4>4. QED
        BY <4>2, <4>3
    <3>5. QED
      BY <3>3, <3>4 DEF Budgeted
  <2>4. CASE ~Connect(a) /\ ~Close(a) /\ ~ReturnLease(a)
    <3>1. /\ UNCHANGED <<connection, lease, active>>
          /\ \A b \in Actors \ {a} : pc'[b] = pc[b]
          /\ pc[a] \in Leasing => pc'[a] \in Leasing
          /\ pc'[a] # "returning"
      BY <1>2, <2>4, OtherStepsKeepLeases
    <3>2. QED
      BY <3>1 DEF Budgeted, Leased
  <2>5. QED
    BY <2>1, <2>2, <2>3, <2>4
<1>3. ASSUME NEW q \in Processes, Crash(q) PROVE Budgeted'
  <2>1. /\ \A a \in Actors : ProcessOf[a] = q =>
             pc'[a] = "idle" /\ connection'[a] = "none" /\ lease'[a] = FALSE
        /\ \A a \in Actors : ProcessOf[a] # q =>
             pc'[a] = pc[a] /\ connection'[a] = connection[a] /\ lease'[a] = lease[a]
        /\ active' = [active EXCEPT ![q] = 0]
    BY <1>3 DEF Crash
  <2>2. Leased(q)' = {} /\ \A p \in Processes \ {q} : Leased(p)' = Leased(p)
    BY <2>1 DEF Leased
  <2>3. IsFiniteSet({}) /\ Cardinality({}) = 0
    BY FS_EmptySet
  <2>4. \A a \in Actors :
          /\ connection'[a] = "mapped" => lease'[a]
          /\ lease'[a] => pc'[a] \in Leasing
          /\ pc'[a] = "returning" => lease'[a]
    BY <2>1 DEF Budgeted
  <2>5. ASSUME NEW p \in Processes
        PROVE  /\ IsFiniteSet(Leased(p)') /\ active'[p] = Cardinality(Leased(p)')
               /\ active'[p] <= MaxMappedReaders
    <3>1. CASE p = q
      <4>1. Leased(p)' = {} /\ active'[p] = 0
        BY <2>1, <2>2, <3>1 DEF IndInv, TypeOK
      <4>2. QED
        BY <2>3, <4>1, BoundAssumption
    <3>2. CASE p # q
      <4>1. Leased(p)' = Leased(p) /\ active'[p] = active[p]
        BY <2>1, <2>2, <3>2 DEF IndInv, TypeOK
      <4>2. QED
        BY <4>1 DEF Budgeted
    <3>3. QED
      BY <3>1, <3>2
  <2>6. QED
    BY <2>4, <2>5 DEF Budgeted
<1>4. QED
  BY <1>1, <1>2, <1>3 DEF Next

\* Mapped read sessions of a process stay within its budget, and every lease is
\* given back, whatever fails and whichever process dies (MappingLease, Drop).
THEOREM MappingsStayWithinBudget == Spec => []MappingsWithinBudget
<1>1. Init => IndInv /\ Budgeted
  <2> SUFFICES ASSUME Init PROVE IndInv /\ Budgeted
    OBVIOUS
  <2>1. \A p \in Processes : Leased(p) = {}
    BY DEF Init, Leased
  <2>2. IsFiniteSet({}) /\ Cardinality({}) = 0
    BY FS_EmptySet
  <2>3. ASSUME NEW p \in Processes
        PROVE  /\ IsFiniteSet(Leased(p)) /\ active[p] = Cardinality(Leased(p))
               /\ active[p] <= MaxMappedReaders
    <3>1. active[p] = 0 /\ Leased(p) = {}
      BY <2>1 DEF Init
    <3>2. QED
      BY <2>2, <3>1, BoundAssumption
  <2>4. Budgeted
    BY <2>3 DEF Init, Budgeted
  <2>5. QED
    BY <2>4, InitInd
<1>2. IndInv /\ Budgeted /\ [Next]_vars => IndInv' /\ Budgeted'
  BY IndStep, BudgetStep
<1>3. IndInv /\ Budgeted => MappingsWithinBudget
  <2> SUFFICES ASSUME Budgeted, NEW p \in Processes
               PROVE  /\ Cardinality({a \in Actors : ProcessOf[a] = p /\ connection[a] = "mapped"})
                           <= MaxMappedReaders
                      /\ active[p] = Cardinality(Leased(p))
    BY DEF MappingsWithinBudget, Leased
  <2> DEFINE mapped == {a \in Actors : ProcessOf[a] = p /\ connection[a] = "mapped"}
  <2>1. mapped \subseteq Leased(p)
    BY DEF Budgeted, Leased
  <2>2. /\ IsFiniteSet(Leased(p)) /\ active[p] = Cardinality(Leased(p))
        /\ active[p] <= MaxMappedReaders
    BY DEF Budgeted
  <2> HIDE DEF mapped
  <2>3. IsFiniteSet(mapped) /\ Cardinality(mapped) <= Cardinality(Leased(p))
    BY <2>1, <2>2, FS_Subset
  <2>4. Cardinality(mapped) \in Nat /\ Cardinality(Leased(p)) \in Nat
    BY <2>2, <2>3, FS_CardinalityType
  <2>5. QED
    BY <2>2, <2>3, <2>4, BoundAssumption DEF mapped
<1>4. QED
  BY <1>1, <1>2, <1>3, PTL DEF Spec

-----------------------------------------------------------------------------
(* The refinement of AdmittedStore.                                         *)

\* A step moves one actor; the location and the image of the others stay.
LEMMA OthersStay ==
  ASSUME TypeOK, NEW a \in Actors, Call(a) \/ OwnerCall(a) \/ DropOwner(a) \/ Step(a),
         NEW b \in Actors, b # a
  PROVE  pc'[b] = pc[b] /\ view'[b] = view[b]
<1> USE DEF TypeOK, Goto, Run, Finish, handles, control
<1>1. CASE Call(a)
  <2>1. \E what, where : Run(a, what, where)
    BY <1>1 DEF Call
  <2>2. QED
    BY <1>1, <2>1 DEF Call
<1>2. CASE OwnerCall(a) \/ DropOwner(a) \/ Connect(a)
  BY <1>2 DEF OwnerCall, DropOwner, Connect
<1>3. CASE LockStep(a)
  BY <1>3 DEF LockStep, Lock, LockBusy, Admit, AdmitBusy
<1>4. CASE DropStep(a)
  BY <1>4 DEF DropStep, Fail, Close, ReturnLease, Release, Unlock
<1>5. CASE SessionStep(a)
  BY <1>5 DEF SessionStep, BeginRead, BeginDeferred, EndRead, BeginWrite, BeginImmediate,
              CommitWrite, Commit
<1>6. CASE OwnerStep(a)
  BY <1>6 DEF OwnerStep, ValidateJob, BeginPublish, CommitPublish, Mark, Checkpoint,
              BeginRebuild, CommitRebuild, BeginRecovery, CommitRecovery, ProbePasses,
              FinishReclaim, BeginImmediate, Commit, Autocommit
<1>7. CASE UpgradeStep(a)
  BY <1>7 DEF UpgradeStep, CheckCurrent, CheckPending, LeaveMarked, Inspect, SaveBackup,
              BeginUpgrade, CommitUpgrade, BeginImmediate, Commit
<1>8. CASE SeedStep(a)
  BY <1>8 DEF SeedStep, BeginSnapshot, BeginDeferred, PersistSnapshot, Reserve, Install
<1>9. QED
  BY <1>1, <1>2, <1>3, <1>4, <1>5, <1>6, <1>7, <1>8 DEF Step

\* An actor comes to hold a session only by the two openings, and does not
\* change what it holds.
LEMMA HeldMoves ==
  ASSUME TypeOK, NEW a \in Actors, Call(a) \/ OwnerCall(a) \/ DropOwner(a) \/ Step(a),
         ~BeginRead(a), ~BeginWrite(a)
  PROVE  pc'[a] \notin {"reading", "writing"}
<1> USE DEF TypeOK, Goto, Run, Finish, control
<1>1. CASE Call(a)
  <2>1. \E what, where : Run(a, what, where) /\ where \in {"admitting", "locking"}
    BY <1>1 DEF Call
  <2>2. QED
    BY <2>1
<1>2. CASE OwnerCall(a) \/ DropOwner(a) \/ Connect(a)
  BY <1>2 DEF OwnerCall, DropOwner, Connect
<1>3. CASE LockStep(a)
  BY <1>3 DEF LockStep, Lock, LockBusy, Admit, AdmitBusy
<1>4. CASE DropStep(a)
  BY <1>4 DEF DropStep, Fail, Close, ReturnLease, Release, Unlock
<1>5. CASE SessionStep(a)
  BY <1>5 DEF SessionStep, EndRead, CommitWrite
<1>6. CASE OwnerStep(a)
  BY <1>6 DEF OwnerStep, ValidateJob, BeginPublish, CommitPublish, Mark, Checkpoint,
              BeginRebuild, CommitRebuild, BeginRecovery, CommitRecovery, ProbePasses,
              FinishReclaim
<1>7. CASE UpgradeStep(a)
  BY <1>7 DEF UpgradeStep, CheckCurrent, CheckPending, LeaveMarked, Inspect, SaveBackup,
              BeginUpgrade, CommitUpgrade
<1>8. CASE SeedStep(a)
  BY <1>8 DEF SeedStep, BeginSnapshot, PersistSnapshot, Reserve, Install
<1>9. QED
  BY <1>1, <1>2, <1>3, <1>4, <1>5, <1>6, <1>7, <1>8 DEF Step

\* The file appears when a migration opens it or a seed is installed.
LEMMA FileMoves ==
  ASSUME NEW a \in Actors, Call(a) \/ OwnerCall(a) \/ DropOwner(a) \/ Step(a),
         ~Install(a), ~Connect(a)
  PROVE  file' = file
<1> USE DEF files
<1>1. CASE Call(a) \/ OwnerCall(a) \/ DropOwner(a)
  BY <1>1 DEF Call, OwnerCall, DropOwner
<1>2. CASE LockStep(a) \/ DropStep(a)
  BY <1>2 DEF LockStep, DropStep, Lock, LockBusy, Admit, AdmitBusy, Fail, Close, ReturnLease,
              Release, Unlock
<1>3. CASE SessionStep(a)
  BY <1>3 DEF SessionStep, BeginRead, EndRead, BeginWrite, CommitWrite, Commit
<1>4. CASE OwnerStep(a)
  BY <1>4 DEF OwnerStep, ValidateJob, BeginPublish, CommitPublish, Mark, Checkpoint,
              BeginRebuild, CommitRebuild, BeginRecovery, CommitRecovery, ProbePasses,
              FinishReclaim, Commit, Autocommit
<1>5. CASE UpgradeStep(a)
  BY <1>5 DEF UpgradeStep, CheckCurrent, CheckPending, LeaveMarked, Inspect, SaveBackup,
              BeginUpgrade, CommitUpgrade, Commit
<1>6. CASE SeedStep(a)
  BY <1>6 DEF SeedStep, BeginSnapshot, PersistSnapshot, Reserve
<1>7. QED
  BY <1>1, <1>2, <1>3, <1>4, <1>5, <1>6, Zenon DEF Step

-----------------------------------------------------------------------------
\* Under an exclusive commit no session is held, before or after.
LEMMA ExclusiveIsDrained ==
  ASSUME IndInv, NEW a \in Actors, Changes(a), ~CommitWrite(a)
  PROVE  /\ HeldReference = [b \in Actors |-> <<>>] /\ HeldReference' = HeldReference
         /\ ~Install(a) => file /\ file'
<1> USE DEF IndInv
<1>1. pc[a] \in Exclusive
  BY DEF Changes, CommitPublish, Mark, Checkpoint, CommitRebuild, CommitRecovery,
         FinishReclaim, CommitUpgrade, Install, Exclusive
<1>2. Call(a) \/ OwnerCall(a) \/ DropOwner(a) \/ Step(a)
  BY DEF Changes, Step, OwnerStep, UpgradeStep, SeedStep
<1>3. \A b \in Actors : b # a => pc[b] \notin {"reading", "writing"} /\ pc'[b] = pc[b]
  BY <1>1, <1>2, ExclusiveIsAlone, OthersStay DEF Admitted, Fallible
<1>4. pc[a] \notin {"reading", "writing"}
  BY <1>1 DEF Exclusive
<1>5. ~BeginRead(a) /\ ~BeginWrite(a)
  BY <1>1 DEF BeginRead, BeginWrite, At, Exclusive
<1>6. pc'[a] \notin {"reading", "writing"}
  BY <1>2, <1>5, HeldMoves
<1>7. HeldReference = [b \in Actors |-> <<>>] /\ HeldReference' = [b \in Actors |-> <<>>]
  BY <1>3, <1>4, <1>6 DEF HeldReference
<1>8. ~Install(a) => file /\ file'
  <2>1. ~Install(a) => pc[a] \in Connected
    BY DEF Changes, CommitPublish, Mark, Checkpoint, CommitRebuild, CommitRecovery,
           FinishReclaim, CommitUpgrade, Connected, Admitted, Fallible
  <2>2. ~Install(a) => file
    BY <2>1 DEF AccessHeld
  <2>3. ~Connect(a)
    BY <1>1 DEF Connect, Exclusive
  <2>4. ~Install(a) => file' = file
    BY <1>2, <2>3, FileMoves
  <2>5. QED
    BY <2>2, <2>4
<1>9. QED
  BY <1>7, <1>8

\* An upgrade from the schema it upgrades to, without a change, is no change.
LEMMA NoUpgrade ==
  ASSUME NEW image \in Image
  PROVE  [image EXCEPT !.schema = image.schema, !.content = @ + 0] = image
<1>1. image.content + 0 = image.content
  BY DEF Image
<1>2. [image EXCEPT !.schema = image.schema, !.content = image.content] = image
  BY DEF Image
<1>3. QED
  BY <1>1, <1>2

\* What publication, maintenance, upgrades and installation commit is one
\* step of the atomic store (session.rs, migration.rs, snapshot.rs).
LEMMA ExclusiveRefines ==
  ASSUME IndInv, NEW a \in Actors, Changes(a), ~CommitWrite(a)
  PROVE  Store!Next \/ UNCHANGED Store!vars
<1> USE DEF IndInv
<1>1. /\ HeldReference = [b \in Actors |-> <<>>] /\ HeldReference' = HeldReference
      /\ ~Install(a) => file /\ file'
  BY ExclusiveIsDrained
<1>2. ~Install(a) => Store!Drained /\ file' = file
  BY <1>1 DEF Store!Drained, Store!NotHeld, TypeOK
<1>3. CASE CommitPublish(a)
  <2>1. Open(db) /\ db.complete /\ db' = [db EXCEPT !.revision = @ + 1, !.content = @ + 1]
    BY <1>3, Changed DEF CommitPublish, Working, Sound, Open
  <2>2. db' = [db EXCEPT !.revision = @ + 1, !.content = @ + 1,
                         !.complete = TRUE, !.maintenance = FALSE]
    BY <2>1 DEF Open, TypeOK, Image
  <2>3. ~Install(a)
    BY <1>3 DEF CommitPublish, Install
  <2>4. QED
    BY <1>1, <1>2, <2>1, <2>2, <2>3 DEF Store!Next, Store!Publish, Open
<1>4. CASE CommitRebuild(a)
  <2>1. db.schema > 0 /\ db.maintenance /\ ~Install(a)
    BY <1>4 DEF CommitRebuild, Working, Install
  <2>2. QED
    BY <1>1, <1>2, <1>4, <2>1, Changed DEF Store!Next, Store!Publish
<1>5. CASE Mark(a)
  <2>1. db.schema > 0 /\ ~Install(a)
    BY <1>5 DEF Mark, Working, Install
  <2>2. QED
    BY <1>1, <1>2, <1>5, <2>1, Changed DEF Store!Next, Store!Mark
<1>6. CASE Checkpoint(a)
  <2>1. db.maintenance /\ ~Install(a)
    BY <1>6 DEF Checkpoint, Working, Install
  <2>2. QED
    BY <1>1, <1>2, <1>6, <2>1, Changed DEF Store!Next, Store!Checkpoint
<1>7. CASE CommitRecovery(a) \/ FinishReclaim(a)
  <2>1. db.maintenance /\ db.complete /\ ~Install(a)
    BY <1>7, Changed DEF CommitRecovery, FinishReclaim, Located, TasksAt, Working, Install
  <2>2. QED
    BY <1>1, <1>2, <1>7, <2>1, Changed DEF Store!Next, Store!Reopen
<1>8. CASE CommitUpgrade(a)
  <2>1. PICK change \in {0, 1} :
          /\ db' = [db EXCEPT !.schema = SchemaOf(a), !.content = @ + change]
          /\ db.schema = SchemaOf(a) => change = 0
    BY <1>8, Changed
  <2>2. ~Install(a) /\ db.schema <= SchemaOf(a)
    BY <1>8 DEF CommitUpgrade, Install, Working
  <2>3. SchemaOf(a) \in {Version[p] : p \in Processes} /\ SchemaOf(a) \in Nat
    BY ProcessAssumption DEF SchemaOf
  <2>4. CASE db.schema = SchemaOf(a)
    <3>1. db' = [db EXCEPT !.schema = db.schema, !.content = @ + 0]
      BY <2>1, <2>4
    <3>2. db' = db
      BY <3>1, NoUpgrade DEF TypeOK
    <3>3. QED
      BY <1>1, <1>2, <2>2, <3>2 DEF Store!vars
  <2>5. CASE db.schema < SchemaOf(a)
    BY <1>1, <1>2, <2>1, <2>2, <2>3, <2>5 DEF Store!Next, Store!Upgrade
  <2>6. db.schema \in Nat
    BY DEF TypeOK, Image
  <2>7. db.schema = SchemaOf(a) \/ db.schema < SchemaOf(a)
    BY <2>2, <2>3, <2>6
  <2>8. QED
    BY <2>4, <2>5, <2>7, Zenon
<1>9. CASE Install(a)
  <2>1. db' = seed /\ seed.schema > 0 /\ ~file /\ file' = TRUE
    BY <1>9, Changed DEF Install
  <2>2. Open(seed) /\ seed.complete
    BY <2>1 DEF Working, Sound, Open
  <2>3. QED
    BY <1>1, <2>1, <2>2 DEF Store!Next, Store!Install, Store!Open, Open
<1>10. QED
  BY <1>3, <1>4, <1>5, <1>6, <1>7, <1>8, <1>9 DEF Changes

\* A committed edit ends the session that made it; the other sessions stay.
LEMMA EditRefines ==
  ASSUME IndInv, NEW a \in Actors, CommitWrite(a)
  PROVE  Store!Next
<1> USE DEF IndInv
<1>1. Step(a)
  BY DEF Step, SessionStep
<1>2. pc[a] = "writing" /\ view[a] = db /\ file' = file
  BY DEF CommitWrite, Transacting, Writing, Commit
<1>3. pc'[a] \notin {"reading", "writing"}
  BY <1>1, <1>2, HeldMoves DEF BeginRead, BeginWrite, At
<1>4. HeldReference[a] = Reference(db)
  BY <1>2 DEF HeldReference
<1>5. HeldReference' = [HeldReference EXCEPT ![a] = <<>>]
  BY <1>1, <1>3, OthersStay DEF HeldReference
<1>6. Store!Edit(a)
  BY <1>2, <1>4, <1>5, Changed DEF Store!Edit, Store!Reference, Store!NotHeld, Reference
<1>7. QED
  BY <1>6 DEF Store!Next

\* The other steps open a session, end some, or change nothing a caller sees.
LEMMA QuietRefines ==
  ASSUME IndInv, NEW a \in Actors, Call(a) \/ OwnerCall(a) \/ DropOwner(a) \/ Step(a), ~Changes(a)
  PROVE  Store!Next \/ UNCHANGED Store!vars
<1> USE DEF IndInv
<1>1. db' = db
  BY OnlyChanges
<1>2. \A b \in Actors : b # a => HeldReference'[b] = HeldReference[b]
  BY OthersStay DEF HeldReference
<1>3. CASE BeginRead(a) \/ BeginWrite(a)
  <2>1. /\ pc[a] = "connected" /\ view'[a] = db /\ pc'[a] \in {"reading", "writing"}
        /\ db.schema = SchemaOf(a) /\ ~db.maintenance /\ file' = file
    BY <1>3
       DEF BeginRead, BeginWrite, At, Valid, BeginDeferred, BeginImmediate, Goto, TypeOK, files
  <2>2. file /\ Open(db) /\ db.complete
    BY <2>1, ProcessAssumption
       DEF AccessHeld, Connected, Admitted, Fallible, Open, Working, Sound, SchemaOf
  <2>3. HeldReference[a] = <<>> /\ HeldReference'[a] = Reference(db)
    BY <2>1 DEF HeldReference
  <2>4. HeldReference' = [HeldReference EXCEPT ![a] = Reference(db)]
    BY <1>2, <2>3 DEF HeldReference
  <2>5. Store!Hold(a)
    BY <1>1, <2>1, <2>2, <2>3, <2>4
       DEF Store!Hold, Store!Open, Open, Store!NotHeld, Store!Reference, Reference
  <2>6. QED
    BY <2>5 DEF Store!Next
<1>4. CASE ~BeginRead(a) /\ ~BeginWrite(a)
  <2>1. HeldReference'[a] = <<>>
    BY <1>4, HeldMoves DEF HeldReference
  <2>2. HeldReference' = [b \in Actors |-> IF b \in {a} THEN <<>> ELSE HeldReference[b]]
    BY <1>2, <2>1 DEF HeldReference
  <2>3. CASE file' = file
    BY <1>1, <2>2, <2>3 DEF Store!Next, Store!Drop, Store!NotHeld
  <2>4. CASE file' # file
    <3>1. ~Install(a)
      BY DEF Changes
    <3>2. Connect(a) /\ file'
      BY <2>4, <3>1, FileMoves DEF Connect
    <3>3. HeldReference[a] = <<>>
      BY <3>2 DEF Connect, HeldReference
    <3>4. HeldReference' = HeldReference
      BY <1>2, <2>1, <3>3 DEF HeldReference
    <3>5. QED
      BY <1>1, <2>4, <3>2, <3>4 DEF Store!Next, Store!Create, TypeOK, Connect
  <2>5. QED
    BY <2>3, <2>4
<1>5. QED
  BY <1>3, <1>4

\* The death of a process is, to the callers above, the end of its sessions.
LEMMA CrashRefines ==
  ASSUME IndInv, NEW p \in Processes, Crash(p)
  PROVE  Store!Next
<1> DEFINE gone == {a \in Actors : ProcessOf[a] = p}
<1>1. db' = db /\ file' = file
  BY DEF Crash, files
<1>2. pc' = [a \in Actors |-> IF ProcessOf[a] = p THEN "idle" ELSE pc[a]]
  BY DEF Crash
<1>3. view' = [a \in Actors |-> IF ProcessOf[a] = p THEN Empty ELSE view[a]]
  BY DEF Crash
<1>4. HeldReference' = [a \in Actors |-> IF a \in gone THEN <<>> ELSE HeldReference[a]]
  BY <1>2, <1>3 DEF HeldReference
<1>5. gone \in SUBSET Actors
  OBVIOUS
<1>6. Store!Drop
  BY <1>1, <1>4, <1>5 DEF Store!Drop, Store!NotHeld
<1>7. QED
  BY <1>6 DEF Store!Next

\* The files a program may find are the origins of the atomic store.
LEMMA InitRefines == Init => Store!Init
BY DEF Init, Store!Init, HeldReference, Store!NotHeld

\* What the code above the crate is promised is what the crate does.
THEOREM Implementation == Spec => ImplementsStore
<1>1. IndInv /\ [Next]_vars => [Store!Next]_(Store!vars)
  <2> SUFFICES ASSUME IndInv, [Next]_vars PROVE Store!Next \/ UNCHANGED Store!vars
    OBVIOUS
  <2>1. CASE UNCHANGED vars
    BY <2>1 DEF vars, files, control, handles, Store!vars, HeldReference
  <2>2. ASSUME NEW a \in Actors, Call(a) \/ OwnerCall(a) \/ DropOwner(a) \/ Step(a)
        PROVE  Store!Next \/ UNCHANGED Store!vars
    BY <2>2, ExclusiveRefines, EditRefines, QuietRefines
  <2>3. ASSUME NEW p \in Processes, Crash(p) PROVE Store!Next
    BY <2>3, CrashRefines
  <2>4. QED
    BY <2>1, <2>2, <2>3 DEF Next
<1>2. QED
  BY <1>1, InitRefines, Inductive, PTL DEF Spec, ImplementsStore, Store!Spec
=============================================================================
