-------------------------- MODULE WorkspaceProofs --------------------------
(***************************************************************************)
(* Proofs about Workspace, for every number of threads and processes, all  *)
(* workloads and bounds: the inductive invariant IndInv, the safety        *)
(* invariants and action properties it implies.                            *)
(*                                                                         *)
(* IndInv is needed because no safety invariant is inductive alone: that a *)
(* session is current rests on the locks, the locks on the location of     *)
(* every actor, and the image a job commits on what it saw before.  Each   *)
(* part has a lemma with one step for every action.                        *)
(***************************************************************************)
EXTENDS Workspace, TLAPS

\* What the commits make of an image is an image.
LEMMA ImageUpdates ==
  ASSUME NEW image \in Image
  PROVE  /\ [image EXCEPT !.saved = @ + 1] \in Image
         /\ [image EXCEPT !.revision = @ + 1, !.content = @ + 1] \in Image
         /\ [image EXCEPT !.content = @ + 1, !.complete = FALSE] \in Image
         /\ [image EXCEPT !.revision = @ + 1, !.content = @ + 1,
                           !.complete = TRUE, !.maintenance = FALSE] \in Image
         /\ [image EXCEPT !.maintenance = TRUE] \in Image
         /\ [image EXCEPT !.maintenance = FALSE] \in Image
         /\ \A schema \in Nat, change \in {0, 1} :
              [image EXCEPT !.schema = schema, !.content = @ + change] \in Image
<1> DEFINE r == image.revision + 1
           c == image.content + 1
<1>1. image.saved + 1 \in Nat /\ r \in Nat /\ c \in Nat
  BY DEF Image
<1>2. [image EXCEPT !.saved = @ + 1] \in Image
  BY DEF Image
<1>3. [image EXCEPT !.revision = @ + 1, !.content = @ + 1] \in Image
  <2>1. [image EXCEPT !.revision = @ + 1, !.content = @ + 1]
          = [image EXCEPT !.revision = r, !.content = c]
    BY DEF Image
  <2>2. QED
    BY <1>1, <2>1 DEF Image
<1>4. [image EXCEPT !.content = @ + 1, !.complete = FALSE] \in Image
  <2>1. [image EXCEPT !.content = @ + 1, !.complete = FALSE]
          = [image EXCEPT !.content = c, !.complete = FALSE]
    BY DEF Image
  <2>2. QED
    BY <1>1, <2>1 DEF Image
<1>5. [image EXCEPT !.revision = @ + 1, !.content = @ + 1,
                    !.complete = TRUE, !.maintenance = FALSE] \in Image
  <2>1. [image EXCEPT !.revision = @ + 1, !.content = @ + 1,
                      !.complete = TRUE, !.maintenance = FALSE]
          = [image EXCEPT !.revision = r, !.content = c,
                          !.complete = TRUE, !.maintenance = FALSE]
    BY DEF Image
  <2>2. QED
    BY <1>1, <2>1 DEF Image
<1>6. /\ [image EXCEPT !.maintenance = TRUE] \in Image
      /\ [image EXCEPT !.maintenance = FALSE] \in Image
  BY DEF Image
<1>7. ASSUME NEW schema \in Nat, NEW change \in {0, 1}
      PROVE  [image EXCEPT !.schema = schema, !.content = @ + change] \in Image
  <2>1. image.content + change \in Nat
    BY DEF Image
  <2>2. [image EXCEPT !.schema = schema, !.content = @ + change]
          = [image EXCEPT !.schema = schema, !.content = image.content + change]
    BY DEF Image
  <2>3. QED
    BY <2>1, <2>2 DEF Image
<1>8. QED
  BY <1>2, <1>3, <1>4, <1>5, <1>6, <1>7

\* Every step of every actor, and the death of a process, keeps the types.
LEMMA TypeStep == ASSUME TypeOK, [Next]_vars PROVE TypeOK'
<1>1. CASE UNCHANGED vars
  BY <1>1 DEF TypeOK, vars, files, locks, control, handles, history
<1>2. ASSUME NEW a \in Actors, Call(a) \/ OwnerCall(a) \/ DropOwner(a) \/ Step(a)
      PROVE  TypeOK'
  <2> USE ProcessAssumption, StartAssumption
      DEF TypeOK, files, locks, control, handles, history, Empty, Modes, Locations, Tasks,
          Calls, OwnerJobs, SchemaOf
  <2>1. CASE Call(a)
    <3>1. PICK what \in Calls, where \in Locations :
            Run(a, what, where) \/ Run(a, "check", where)
      BY <2>1 DEF Call
    <3>2. QED
      BY <2>1, <3>1 DEF Run, Call
  <2>2. CASE OwnerCall(a)
    BY <2>2 DEF Image, OwnerCall, Run, OwnerJobs
  <2>3. CASE DropOwner(a)
    BY <2>3 DEF Image, DropOwner, Run
  <2>4. CASE Lock(a)
    BY <2>4 DEF Image, Lock, Goto, UpdateMode
  <2>5. CASE LockBusy(a)
    BY <2>5 DEF Image, LockBusy, Run
  <2>6. CASE Admit(a)
    BY <2>6 DEF Image, Admit, Goto, AccessMode
  <2>7. CASE AdmitBusy(a)
    BY <2>7 DEF Image, AdmitBusy, Run, Finished
  <2>8. CASE Connect(a)
    BY <2>8 DEF Image, Connect, Goto
  <2>9. CASE BeginRead(a)
    BY <2>9 DEF Image, BeginRead, BeginDeferred, Goto, Reference
  <2>10. CASE EndRead(a)
    BY <2>10 DEF Image, EndRead, Finish, Finished, Run
  <2>11. CASE BeginWrite(a)
    BY <2>11 DEF Image, BeginWrite, At, BeginImmediate, Goto, Reference
  <2>12. CASE CommitWrite(a)
    <3>1. [view[a] EXCEPT !.saved = @ + 1] \in Image
      BY ImageUpdates DEF TypeOK
    <3>2. db' \in Image
      BY <2>12, <3>1 DEF CommitWrite, Commit, Autocommit
    <3>3. QED
      BY <2>12, <3>2 DEF Image, CommitWrite, Commit, Finish, Finished, Run
  <2>13. CASE ValidateJob(a)
    BY <2>13 DEF Image, ValidateJob, Goto
  <2>14. CASE BeginPublish(a)
    BY <2>14 DEF Image, BeginPublish, At, BeginImmediate, Goto
  <2>15. CASE CommitPublish(a)
    <3>1. [view[a] EXCEPT !.revision = @ + 1, !.content = @ + 1] \in Image
      BY ImageUpdates DEF TypeOK
    <3>2. db' \in Image
      BY <2>15, <3>1 DEF CommitPublish, Commit, Autocommit
    <3>3. QED
      BY <2>15, <3>2 DEF Image, CommitPublish, Commit, Finish, Finished, Run
  <2>16. CASE Mark(a)
    BY <2>16 DEF Image, Mark, Autocommit, Goto
  <2>17. CASE Checkpoint(a)
    <3>1. [db EXCEPT !.content = @ + 1, !.complete = FALSE] \in Image
      BY ImageUpdates DEF TypeOK
    <3>2. db' \in Image
      BY <2>17, <3>1 DEF Checkpoint, Commit, Autocommit
    <3>3. QED
      BY <2>17, <3>2 DEF Image, Checkpoint, Autocommit
  <2>18. CASE BeginRebuild(a)
    BY <2>18 DEF Image, BeginRebuild, BeginImmediate, Goto
  <2>19. CASE CommitRebuild(a)
    <3>1. [view[a] EXCEPT !.revision = @ + 1, !.content = @ + 1,
                               !.complete = TRUE, !.maintenance = FALSE] \in Image
      BY ImageUpdates DEF TypeOK
    <3>2. db' \in Image
      BY <2>19, <3>1 DEF CommitRebuild, Commit, Autocommit
    <3>3. QED
      BY <2>19, <3>2 DEF Image, CommitRebuild, Commit, Finish, Finished, Run
  <2>20. CASE BeginRecovery(a)
    BY <2>20 DEF Image, BeginRecovery, At, BeginImmediate, Goto
  <2>21. CASE CommitRecovery(a)
    <3>1. [view[a] EXCEPT !.maintenance = FALSE] \in Image
      BY ImageUpdates DEF TypeOK
    <3>2. db' \in Image
      BY <2>21, <3>1 DEF CommitRecovery, Commit, Autocommit
    <3>3. QED
      BY <2>21, <3>2 DEF Image, CommitRecovery, Commit, Finish, Finished, Run
  <2>22. CASE ProbePasses(a)
    BY <2>22 DEF Image, ProbePasses, At, Run
  <2>23. CASE FinishReclaim(a)
    BY <2>23 DEF Image, FinishReclaim, Autocommit, Run
  <2>24. CASE CheckCurrent(a)
    BY <2>24 DEF Image, CheckCurrent, At, Finish, Finished, Run
  <2>25. CASE CheckPending(a)
    BY <2>25 DEF Image, CheckPending, At, Run
  <2>26. CASE LeaveMarked(a)
    BY <2>26 DEF Image, LeaveMarked, At, Finish, Finished, Run
  <2>27. CASE Inspect(a)
    BY <2>27 DEF Image, Inspect, At, Goto
  <2>28. CASE SaveBackup(a)
    BY <2>28 DEF Image, SaveBackup, Goto
  <2>29. CASE BeginUpgrade(a)
    BY <2>29 DEF Image, BeginUpgrade, BeginImmediate, Goto
  <2>30. CASE CommitUpgrade(a)
    <3>1. PICK change \in {0, 1} :
            Commit(a, [view[a] EXCEPT !.schema = SchemaOf(a), !.content = @ + change])
      BY <2>30 DEF CommitUpgrade
    <3>2. [view[a] EXCEPT !.schema = SchemaOf(a), !.content = @ + change] \in Image
      BY ImageUpdates, ProcessAssumption DEF TypeOK, SchemaOf
    <3>3. db' \in Image
      BY <3>1, <3>2 DEF Commit
    <3>4. QED
      BY <2>30, <3>1, <3>3 DEF Image, CommitUpgrade, Commit, Finish, Finished, Run
  <2>31. CASE BeginSnapshot(a)
    BY <2>31 DEF Image, BeginSnapshot, At, BeginDeferred, Goto
  <2>32. CASE PersistSnapshot(a)
    BY <2>32 DEF Image, PersistSnapshot, Finish, Finished, Run
  <2>33. CASE Reserve(a)
    BY <2>33 DEF Image, Reserve, At, Goto
  <2>34. CASE Install(a)
    BY <2>34 DEF Image, Install, Goto
  <2>35. CASE Fail(a)
    <3>1. /\ pc' \in [Actors -> Locations] /\ task' \in [Actors -> Tasks]
          /\ transaction' = [transaction EXCEPT ![a] = "none"]
          /\ view' = [view EXCEPT ![a] = Empty]
      BY <2>35 DEF Fail, Goto, Finish, Finished, Run
    <3>2. view' \in [Actors -> Image]
      BY <3>1 DEF Image
    <3>3. QED
      BY <2>35, <3>1, <3>2 DEF Fail
  <2>36. CASE Close(a)
    BY <2>36 DEF Image, Close, Goto
  <2>37. CASE ReturnLease(a)
    BY <2>37 DEF Image, ReturnLease, Goto
  <2>38. CASE Release(a)
    BY <2>38 DEF Image, Release, Goto
  <2>39. CASE Unlock(a)
    <3>1. pc' \in [Actors -> Locations] /\ task' \in [Actors -> Tasks]
      BY <2>39 DEF Unlock, Run
    <3>2. update' \in [Actors -> Modes]
      BY <2>39 DEF Unlock
    <3>3. QED
      BY <2>39, <3>1, <3>2 DEF Unlock
  <2>40. QED
    BY <1>2, <2>1, <2>2, <2>3, <2>4, <2>5, <2>6, <2>7, <2>8, <2>9, <2>10, <2>11, <2>12, <2>13,
       <2>14, <2>15, <2>16, <2>17, <2>18, <2>19, <2>20, <2>21, <2>22, <2>23, <2>24, <2>25,
       <2>26, <2>27, <2>28, <2>29, <2>30, <2>31, <2>32, <2>33, <2>34, <2>35, <2>36, <2>37,
       <2>38, <2>39
       DEF Step, SessionStep, OwnerStep, UpgradeStep, SeedStep, LockStep, DropStep
<1>3. ASSUME NEW p \in Processes, Crash(p) PROVE TypeOK'
  <2> USE DEF TypeOK, files, history, Image, Empty
  <2>1. access' \in [Actors -> Modes] /\ update' \in [Actors -> Modes]
    BY <1>3 DEF Crash, Modes
  <2>2. pc' \in [Actors -> Locations] /\ task' \in [Actors -> Tasks]
    BY <1>3 DEF Crash, Locations, Tasks
  <2>3. connection' \in [Actors -> {"none", "plain", "mapped"}] /\ lease' \in [Actors -> BOOLEAN]
    BY <1>3 DEF Crash
  <2>4. active' \in [Processes -> Int] /\ transaction' \in [Actors -> {"none", "read", "write"}]
    BY <1>3 DEF Crash
  <2>5. view' \in [Actors -> Image]
    BY <1>3 DEF Crash
  <2>6. QED
    BY <1>3, <2>1, <2>2, <2>3, <2>4, <2>5 DEF Crash
<1>4. QED
  BY <1>1, <1>2, <1>3 DEF Next

\* Every step leaves each actor in a function that passes its location
\* (the call structure of workspace.rs, session.rs and migration.rs).
LEMMA LocatedStep == ASSUME TypeOK, Located, [Next]_vars PROVE Located'
<1> USE DEF TypeOK, Located, TasksAt, Calls, OwnerJobs
<1>1. CASE UNCHANGED vars
  BY <1>1 DEF vars, files, locks, control, handles, history
<1>2. ASSUME NEW a \in Actors, Call(a) \/ OwnerCall(a) \/ DropOwner(a) \/ Step(a)
      PROVE  Located'
  <2> USE DEF files, locks, control, handles, history
  <2>1. CASE Call(a)
    BY <2>1 DEF Call, Run, Calls
  <2>2. CASE OwnerCall(a)
    BY <2>2 DEF OwnerCall, Run, OwnerJobs
  <2>3. CASE DropOwner(a)
    BY <2>3 DEF DropOwner, Run
  <2>4. CASE Lock(a)
    BY <2>4 DEF Lock, Goto, UpdateMode
  <2>5. CASE LockBusy(a)
    BY <2>5 DEF LockBusy, Run
  <2>6. CASE Admit(a)
    BY <2>6 DEF Admit, Goto, AccessMode
  <2>7. CASE AdmitBusy(a)
    BY <2>7 DEF AdmitBusy, Run, Finished
  <2>8. CASE Connect(a)
    BY <2>8 DEF Connect, Goto
  <2>9. CASE BeginRead(a)
    BY <2>9 DEF BeginRead, BeginDeferred, Goto, Reference
  <2>10. CASE EndRead(a)
    BY <2>10 DEF EndRead, Finish, Finished, Run
  <2>11. CASE BeginWrite(a)
    BY <2>11 DEF BeginWrite, At, BeginImmediate, Goto, Reference
  <2>12. CASE CommitWrite(a)
    BY <2>12 DEF CommitWrite, Commit, Finish, Finished, Run
  <2>13. CASE ValidateJob(a)
    BY <2>13 DEF ValidateJob, Goto
  <2>14. CASE BeginPublish(a)
    BY <2>14 DEF BeginPublish, At, BeginImmediate, Goto
  <2>15. CASE CommitPublish(a)
    BY <2>15 DEF CommitPublish, Commit, Finish, Finished, Run
  <2>16. CASE Mark(a)
    BY <2>16 DEF Mark, Autocommit, Goto
  <2>17. CASE Checkpoint(a)
    BY <2>17 DEF Checkpoint, Autocommit
  <2>18. CASE BeginRebuild(a)
    BY <2>18 DEF BeginRebuild, BeginImmediate, Goto
  <2>19. CASE CommitRebuild(a)
    BY <2>19 DEF CommitRebuild, Commit, Finish, Finished, Run
  <2>20. CASE BeginRecovery(a)
    BY <2>20 DEF BeginRecovery, At, BeginImmediate, Goto
  <2>21. CASE CommitRecovery(a)
    BY <2>21 DEF CommitRecovery, Commit, Finish, Finished, Run
  <2>22. CASE ProbePasses(a)
    BY <2>22 DEF ProbePasses, At, Run
  <2>23. CASE FinishReclaim(a)
    BY <2>23 DEF FinishReclaim, Autocommit, Run
  <2>24. CASE CheckCurrent(a)
    BY <2>24 DEF CheckCurrent, At, Finish, Finished, Run
  <2>25. CASE CheckPending(a)
    BY <2>25 DEF CheckPending, At, Run
  <2>26. CASE LeaveMarked(a)
    BY <2>26 DEF LeaveMarked, At, Finish, Finished, Run
  <2>27. CASE Inspect(a)
    BY <2>27 DEF Inspect, At, Goto
  <2>28. CASE SaveBackup(a)
    BY <2>28 DEF SaveBackup, Goto
  <2>29. CASE BeginUpgrade(a)
    BY <2>29 DEF BeginUpgrade, BeginImmediate, Goto
  <2>30. CASE CommitUpgrade(a)
    BY <2>30 DEF CommitUpgrade, Commit, Finish, Finished, Run
  <2>31. CASE BeginSnapshot(a)
    BY <2>31 DEF BeginSnapshot, At, BeginDeferred, Goto
  <2>32. CASE PersistSnapshot(a)
    BY <2>32 DEF PersistSnapshot, Finish, Finished, Run
  <2>33. CASE Reserve(a)
    BY <2>33 DEF Reserve, At, Goto
  <2>34. CASE Install(a)
    BY <2>34 DEF Install, Goto
  <2>35. CASE Fail(a)
    BY <2>35 DEF Fail, Goto, Finish, Finished, Run
  <2>36. CASE Close(a)
    BY <2>36 DEF Close, Goto
  <2>37. CASE ReturnLease(a)
    BY <2>37 DEF ReturnLease, Goto
  <2>38. CASE Release(a)
    BY <2>38 DEF Release, Goto
  <2>39. CASE Unlock(a)
    BY <2>39 DEF Unlock, Run
  <2>40. QED
    BY <1>2, <2>1, <2>2, <2>3, <2>4, <2>5, <2>6, <2>7, <2>8, <2>9, <2>10, <2>11, <2>12, <2>13,
       <2>14, <2>15, <2>16, <2>17, <2>18, <2>19, <2>20, <2>21, <2>22, <2>23, <2>24, <2>25,
       <2>26, <2>27, <2>28, <2>29, <2>30, <2>31, <2>32, <2>33, <2>34, <2>35, <2>36, <2>37,
       <2>38, <2>39
       DEF Step, SessionStep, OwnerStep, UpgradeStep, SeedStep, LockStep, DropStep
<1>3. ASSUME NEW p \in Processes, Crash(p) PROVE Located'
  BY <1>3 DEF Crash, files, history
<1>4. QED
  BY <1>1, <1>2, <1>3 DEF Next

\* Every step keeps the access lock exclusive where it is held so, and
\* connections within admissions (the drop order of session.rs).
LEMMA AccessStep == ASSUME TypeOK, Located, AccessHeld, [Next]_vars PROVE AccessHeld'
<1> USE DEF TypeOK, Located, TasksAt, Calls, OwnerJobs, AccessHeld, Admitted, Connected,
            Fallible, AccessMode, Exclusion
<1>1. CASE UNCHANGED vars
  BY <1>1 DEF vars, files, locks, control, handles, history
<1>2. ASSUME NEW a \in Actors, Call(a) \/ OwnerCall(a) \/ DropOwner(a) \/ Step(a)
      PROVE  AccessHeld'
  <2> USE DEF files, locks, control, handles, history
  <2>1. CASE Call(a)
    BY <2>1 DEF Call, Run, Calls
  <2>2. CASE OwnerCall(a)
    BY <2>2 DEF OwnerCall, Run, OwnerJobs
  <2>3. CASE DropOwner(a)
    BY <2>3 DEF DropOwner, Run
  <2>4. CASE Lock(a)
    BY <2>4 DEF Lock, Goto, UpdateMode
  <2>5. CASE LockBusy(a)
    BY <2>5 DEF LockBusy, Run
  <2>6. CASE Admit(a)
    BY <2>6 DEF Admit, Goto, AccessMode, Grantable
  <2>7. CASE AdmitBusy(a)
    BY <2>7 DEF AdmitBusy, Run, Finished
  <2>8. CASE Connect(a)
    BY <2>8 DEF Connect, Goto
  <2>9. CASE BeginRead(a)
    BY <2>9 DEF BeginRead, BeginDeferred, Goto, Reference
  <2>10. CASE EndRead(a)
    BY <2>10 DEF EndRead, Finish, Finished, Run
  <2>11. CASE BeginWrite(a)
    BY <2>11 DEF BeginWrite, At, BeginImmediate, Goto, Reference
  <2>12. CASE CommitWrite(a)
    BY <2>12 DEF CommitWrite, Commit, Finish, Finished, Run
  <2>13. CASE ValidateJob(a)
    BY <2>13 DEF ValidateJob, Goto
  <2>14. CASE BeginPublish(a)
    BY <2>14 DEF BeginPublish, At, BeginImmediate, Goto
  <2>15. CASE CommitPublish(a)
    BY <2>15 DEF CommitPublish, Commit, Finish, Finished, Run
  <2>16. CASE Mark(a)
    BY <2>16 DEF Mark, Autocommit, Goto
  <2>17. CASE Checkpoint(a)
    BY <2>17 DEF Checkpoint, Autocommit
  <2>18. CASE BeginRebuild(a)
    BY <2>18 DEF BeginRebuild, BeginImmediate, Goto
  <2>19. CASE CommitRebuild(a)
    BY <2>19 DEF CommitRebuild, Commit, Finish, Finished, Run
  <2>20. CASE BeginRecovery(a)
    BY <2>20 DEF BeginRecovery, At, BeginImmediate, Goto
  <2>21. CASE CommitRecovery(a)
    BY <2>21 DEF CommitRecovery, Commit, Finish, Finished, Run
  <2>22. CASE ProbePasses(a)
    BY <2>22 DEF ProbePasses, At, Run
  <2>23. CASE FinishReclaim(a)
    BY <2>23 DEF FinishReclaim, Autocommit, Run
  <2>24. CASE CheckCurrent(a)
    BY <2>24 DEF CheckCurrent, At, Finish, Finished, Run
  <2>25. CASE CheckPending(a)
    BY <2>25 DEF CheckPending, At, Run
  <2>26. CASE LeaveMarked(a)
    BY <2>26 DEF LeaveMarked, At, Finish, Finished, Run
  <2>27. CASE Inspect(a)
    BY <2>27 DEF Inspect, At, Goto
  <2>28. CASE SaveBackup(a)
    BY <2>28 DEF SaveBackup, Goto
  <2>29. CASE BeginUpgrade(a)
    BY <2>29 DEF BeginUpgrade, BeginImmediate, Goto
  <2>30. CASE CommitUpgrade(a)
    BY <2>30 DEF CommitUpgrade, Commit, Finish, Finished, Run
  <2>31. CASE BeginSnapshot(a)
    BY <2>31 DEF BeginSnapshot, At, BeginDeferred, Goto
  <2>32. CASE PersistSnapshot(a)
    BY <2>32 DEF PersistSnapshot, Finish, Finished, Run
  <2>33. CASE Reserve(a)
    BY <2>33 DEF Reserve, At, Goto
  <2>34. CASE Install(a)
    BY <2>34 DEF Install, Goto
  <2>35. CASE Fail(a)
    BY <2>35 DEF Fail, Goto, Finish, Finished, Run
  <2>36. CASE Close(a)
    BY <2>36 DEF Close, Goto
  <2>37. CASE ReturnLease(a)
    BY <2>37 DEF ReturnLease, Goto
  <2>38. CASE Release(a)
    BY <2>38 DEF Release, Goto
  <2>39. CASE Unlock(a)
    BY <2>39 DEF Unlock, Run
  <2>40. QED
    BY <1>2, <2>1, <2>2, <2>3, <2>4, <2>5, <2>6, <2>7, <2>8, <2>9, <2>10, <2>11, <2>12, <2>13,
       <2>14, <2>15, <2>16, <2>17, <2>18, <2>19, <2>20, <2>21, <2>22, <2>23, <2>24, <2>25,
       <2>26, <2>27, <2>28, <2>29, <2>30, <2>31, <2>32, <2>33, <2>34, <2>35, <2>36, <2>37,
       <2>38, <2>39
       DEF Step, SessionStep, OwnerStep, UpgradeStep, SeedStep, LockStep, DropStep
<1>3. ASSUME NEW p \in Processes, Crash(p) PROVE AccessHeld'
  BY <1>3 DEF Crash, files, history
<1>4. QED
  BY <1>1, <1>2, <1>3 DEF Next

\* Every step keeps the one owner of the update lock, whose jobs run only
\* while it is held (session.rs, UpdateOwner).
LEMMA UpdateStep == ASSUME TypeOK, Located, UpdateHeld, [Next]_vars PROVE UpdateHeld'
<1> USE DEF TypeOK, Located, TasksAt, Calls, OwnerJobs, UpdateHeld, Admitted, Fallible,
            UpdateMode, Exclusion, Owned
<1>1. CASE UNCHANGED vars
  BY <1>1 DEF vars, files, locks, control, handles, history
<1>2. ASSUME NEW a \in Actors, Call(a) \/ OwnerCall(a) \/ DropOwner(a) \/ Step(a)
      PROVE  UpdateHeld'
  <2> USE DEF files, locks, control, handles, history
  <2>1. CASE Call(a)
    BY <2>1 DEF Call, Run, Calls
  <2>2. CASE OwnerCall(a)
    BY <2>2 DEF OwnerCall, Run, OwnerJobs
  <2>3. CASE DropOwner(a)
    BY <2>3 DEF DropOwner, Run
  <2>4. CASE Lock(a)
    BY <2>4 DEF Lock, Goto, UpdateMode, Grantable
  <2>5. CASE LockBusy(a)
    BY <2>5 DEF LockBusy, Run
  <2>6. CASE Admit(a)
    BY <2>6 DEF Admit, Goto, AccessMode
  <2>7. CASE AdmitBusy(a)
    BY <2>7 DEF AdmitBusy, Run, Finished
  <2>8. CASE Connect(a)
    BY <2>8 DEF Connect, Goto
  <2>9. CASE BeginRead(a)
    BY <2>9 DEF BeginRead, BeginDeferred, Goto, Reference
  <2>10. CASE EndRead(a)
    BY <2>10 DEF EndRead, Finish, Finished, Run
  <2>11. CASE BeginWrite(a)
    BY <2>11 DEF BeginWrite, At, BeginImmediate, Goto, Reference
  <2>12. CASE CommitWrite(a)
    BY <2>12 DEF CommitWrite, Commit, Finish, Finished, Run
  <2>13. CASE ValidateJob(a)
    BY <2>13 DEF ValidateJob, Goto
  <2>14. CASE BeginPublish(a)
    BY <2>14 DEF BeginPublish, At, BeginImmediate, Goto
  <2>15. CASE CommitPublish(a)
    BY <2>15 DEF CommitPublish, Commit, Finish, Finished, Run
  <2>16. CASE Mark(a)
    BY <2>16 DEF Mark, Autocommit, Goto
  <2>17. CASE Checkpoint(a)
    BY <2>17 DEF Checkpoint, Autocommit
  <2>18. CASE BeginRebuild(a)
    BY <2>18 DEF BeginRebuild, BeginImmediate, Goto
  <2>19. CASE CommitRebuild(a)
    BY <2>19 DEF CommitRebuild, Commit, Finish, Finished, Run
  <2>20. CASE BeginRecovery(a)
    BY <2>20 DEF BeginRecovery, At, BeginImmediate, Goto
  <2>21. CASE CommitRecovery(a)
    BY <2>21 DEF CommitRecovery, Commit, Finish, Finished, Run
  <2>22. CASE ProbePasses(a)
    BY <2>22 DEF ProbePasses, At, Run
  <2>23. CASE FinishReclaim(a)
    BY <2>23 DEF FinishReclaim, Autocommit, Run
  <2>24. CASE CheckCurrent(a)
    BY <2>24 DEF CheckCurrent, At, Finish, Finished, Run
  <2>25. CASE CheckPending(a)
    BY <2>25 DEF CheckPending, At, Run
  <2>26. CASE LeaveMarked(a)
    BY <2>26 DEF LeaveMarked, At, Finish, Finished, Run
  <2>27. CASE Inspect(a)
    BY <2>27 DEF Inspect, At, Goto
  <2>28. CASE SaveBackup(a)
    BY <2>28 DEF SaveBackup, Goto
  <2>29. CASE BeginUpgrade(a)
    BY <2>29 DEF BeginUpgrade, BeginImmediate, Goto
  <2>30. CASE CommitUpgrade(a)
    BY <2>30 DEF CommitUpgrade, Commit, Finish, Finished, Run
  <2>31. CASE BeginSnapshot(a)
    BY <2>31 DEF BeginSnapshot, At, BeginDeferred, Goto
  <2>32. CASE PersistSnapshot(a)
    BY <2>32 DEF PersistSnapshot, Finish, Finished, Run
  <2>33. CASE Reserve(a)
    BY <2>33 DEF Reserve, At, Goto
  <2>34. CASE Install(a)
    BY <2>34 DEF Install, Goto
  <2>35. CASE Fail(a)
    BY <2>35 DEF Fail, Goto, Finish, Finished, Run
  <2>36. CASE Close(a)
    BY <2>36 DEF Close, Goto
  <2>37. CASE ReturnLease(a)
    BY <2>37 DEF ReturnLease, Goto
  <2>38. CASE Release(a)
    BY <2>38 DEF Release, Goto
  <2>39. CASE Unlock(a)
    BY <2>39 DEF Unlock, Run
  <2>40. QED
    BY <1>2, <2>1, <2>2, <2>3, <2>4, <2>5, <2>6, <2>7, <2>8, <2>9, <2>10, <2>11, <2>12, <2>13,
       <2>14, <2>15, <2>16, <2>17, <2>18, <2>19, <2>20, <2>21, <2>22, <2>23, <2>24, <2>25,
       <2>26, <2>27, <2>28, <2>29, <2>30, <2>31, <2>32, <2>33, <2>34, <2>35, <2>36, <2>37,
       <2>38, <2>39
       DEF Step, SessionStep, OwnerStep, UpgradeStep, SeedStep, LockStep, DropStep
<1>3. ASSUME NEW p \in Processes, Crash(p) PROVE UpdateHeld'
  BY <1>3 DEF Crash, files, history
<1>4. QED
  BY <1>1, <1>2, <1>3 DEF Next

\* An actor at an exclusive location is the only one admitted.
LEMMA ExclusiveIsAlone ==
  ASSUME TypeOK, Located, AccessHeld, NEW a \in Actors, pc[a] \in Exclusive
  PROVE  /\ access[a] = "exclusive" /\ pc[a] \in Admitted
         /\ \A b \in Actors : b # a => pc[b] \notin Admitted
<1> USE DEF Located, TasksAt, AccessHeld, Exclusion, AccessMode, Exclusive, Admitted, Fallible,
            Calls, OwnerJobs
<1>1. access[a] = "exclusive" /\ pc[a] \in Admitted
  OBVIOUS
<1>2. ASSUME NEW b \in Actors, b # a, pc[b] \in Admitted PROVE FALSE
  BY <1>1, <1>2
<1>3. QED
  BY <1>1, <1>2

\* A commit under exclusive admission that ends its job leaves every other
\* actor where it was, outside, and keeps Working when the image is sound.
LEMMA ExclusiveCommit ==
  ASSUME TypeOK, Located, AccessHeld, Working,
         NEW a \in Actors, pc[a] \in Exclusive, file,
         NEW what \in Tasks \ {"reclaim"},
         pc' = [pc EXCEPT ![a] = "closing"], task' = [task EXCEPT ![a] = what],
         file' = file, seed' = seed, db'.saved = acked', Sound(db'),
         db.complete => db'.complete
  PROVE  Working'
<1>1. \A b \in Actors : b # a => pc[b] \notin Admitted
  BY ExclusiveIsAlone
<1>2. \A b \in Actors : pc'[b] \notin Admitted
  BY <1>1 DEF TypeOK, Admitted, Fallible
<1>3. \A b \in Actors : task'[b] = "reclaim" => db'.complete
  BY DEF TypeOK, Working
<1>4. Sound(seed') /\ ~seed'.maintenance /\ file'
  BY DEF Working
<1>5. QED
  BY <1>2, <1>3, <1>4 DEF Working, Admitted, Fallible, At, Sound

\* Every step keeps one writer working on the committed image, and
\* sessions on the current reference (workspace.rs, read and write).
LEMMA TransactStep ==
  ASSUME TypeOK, Located, AccessHeld, Working, Transacting, [Next]_vars
  PROVE  Transacting'
<1> USE DEF TypeOK, Located, TasksAt, Calls, OwnerJobs, Admitted, Connected, Fallible,
            AccessMode, Exclusion, AccessHeld, Transacting, Working, Open, Sound, Reference,
            SchemaOf, Writing, Image
<1>1. CASE UNCHANGED vars
  BY <1>1 DEF vars, files, locks, control, handles, history
<1>2. ASSUME NEW a \in Actors, Call(a) \/ OwnerCall(a) \/ DropOwner(a) \/ Step(a)
      PROVE  Transacting'
  <2> USE DEF files, locks, control, handles, history
  <2>1. CASE Call(a)
    BY <2>1 DEF Call, Run, Calls
  <2>2. CASE OwnerCall(a)
    BY <2>2 DEF OwnerCall, Run, OwnerJobs
  <2>3. CASE DropOwner(a)
    BY <2>3 DEF DropOwner, Run
  <2>4. CASE Lock(a)
    BY <2>4 DEF Lock, Goto, UpdateMode
  <2>5. CASE LockBusy(a)
    BY <2>5 DEF LockBusy, Run
  <2>6. CASE Admit(a)
    BY <2>6 DEF Admit, Goto, AccessMode
  <2>7. CASE AdmitBusy(a)
    BY <2>7 DEF AdmitBusy, Run, Finished
  <2>8. CASE Connect(a)
    BY <2>8 DEF Connect, Goto
  <2>9. CASE BeginRead(a)
    <3>1. db.schema = SchemaOf(a) /\ db.schema > 0
      BY <2>9, ProcessAssumption DEF BeginRead, Valid
    <3>2. QED
      BY <2>9, <3>1 DEF BeginRead, BeginDeferred, Goto, Reference, Valid
  <2>10. CASE EndRead(a)
    BY <2>10 DEF EndRead, Finish, Finished, Run
  <2>11. CASE BeginWrite(a)
    <3>1. db.schema = SchemaOf(a) /\ db.schema > 0
      BY <2>11, ProcessAssumption DEF BeginWrite, Valid
    <3>2. QED
      BY <2>11, <3>1 DEF BeginWrite, At, BeginImmediate, Goto, Reference, Valid
  <2>12. CASE CommitWrite(a)
    BY <2>12 DEF CommitWrite, Commit, Finish, Finished, Run
  <2>13. CASE ValidateJob(a)
    BY <2>13 DEF ValidateJob, Goto, Valid
  <2>14. CASE BeginPublish(a)
    BY <2>14 DEF BeginPublish, At, BeginImmediate, Goto
  <2>15. CASE CommitPublish(a)
    <3>1. \A b \in Actors : b # a => pc[b] \notin Admitted
      BY <2>15, ExclusiveIsAlone DEF CommitPublish, Exclusive
    <3>2. \A b \in Actors : b # a => pc'[b] = pc[b] /\ transaction'[b] = transaction[b]
      BY <2>15 DEF CommitPublish, Commit, Finish, Finished, Run
    <3>3. pc'[a] \notin Writing \cup {"reading", "copying"} /\ transaction'[a] # "write"
      BY <2>15 DEF CommitPublish, Commit, Finish, Finished, Run
    <3>4. \A b \in Actors :
            pc'[b] \notin Writing \cup {"reading", "copying"} /\ transaction'[b] # "write"
      BY <3>1, <3>2, <3>3
    <3>5. QED
      BY <3>4
  <2>16. CASE Mark(a)
    <3>1. \A b \in Actors : b # a => pc[b] \notin Admitted
      BY <2>16, ExclusiveIsAlone DEF Mark, Exclusive
    <3>2. \A b \in Actors : b # a => pc'[b] = pc[b] /\ transaction'[b] = transaction[b]
      BY <2>16 DEF Mark, Autocommit, Goto
    <3>3. pc'[a] \notin Writing \cup {"reading", "copying"} /\ transaction'[a] # "write"
      BY <2>16 DEF Mark, Autocommit, Goto
    <3>4. \A b \in Actors :
            pc'[b] \notin Writing \cup {"reading", "copying"} /\ transaction'[b] # "write"
      BY <3>1, <3>2, <3>3
    <3>5. QED
      BY <3>4
  <2>17. CASE Checkpoint(a)
    BY <2>17 DEF Checkpoint, Autocommit
  <2>18. CASE BeginRebuild(a)
    BY <2>18 DEF BeginRebuild, BeginImmediate, Goto
  <2>19. CASE CommitRebuild(a)
    <3>1. \A b \in Actors : b # a => pc[b] \notin Admitted
      BY <2>19, ExclusiveIsAlone DEF CommitRebuild, Exclusive
    <3>2. \A b \in Actors : b # a => pc'[b] = pc[b] /\ transaction'[b] = transaction[b]
      BY <2>19 DEF CommitRebuild, Commit, Finish, Finished, Run
    <3>3. pc'[a] \notin Writing \cup {"reading", "copying"} /\ transaction'[a] # "write"
      BY <2>19 DEF CommitRebuild, Commit, Finish, Finished, Run
    <3>4. \A b \in Actors :
            pc'[b] \notin Writing \cup {"reading", "copying"} /\ transaction'[b] # "write"
      BY <3>1, <3>2, <3>3
    <3>5. QED
      BY <3>4
  <2>20. CASE BeginRecovery(a)
    BY <2>20 DEF BeginRecovery, At, BeginImmediate, Goto
  <2>21. CASE CommitRecovery(a)
    <3>1. \A b \in Actors : b # a => pc[b] \notin Admitted
      BY <2>21, ExclusiveIsAlone DEF CommitRecovery, Exclusive
    <3>2. \A b \in Actors : b # a => pc'[b] = pc[b] /\ transaction'[b] = transaction[b]
      BY <2>21 DEF CommitRecovery, Commit, Finish, Finished, Run
    <3>3. pc'[a] \notin Writing \cup {"reading", "copying"} /\ transaction'[a] # "write"
      BY <2>21 DEF CommitRecovery, Commit, Finish, Finished, Run
    <3>4. \A b \in Actors :
            pc'[b] \notin Writing \cup {"reading", "copying"} /\ transaction'[b] # "write"
      BY <3>1, <3>2, <3>3
    <3>5. QED
      BY <3>4
  <2>22. CASE ProbePasses(a)
    BY <2>22 DEF ProbePasses, At, Run
  <2>23. CASE FinishReclaim(a)
    BY <2>23 DEF FinishReclaim, Autocommit, Run
  <2>24. CASE CheckCurrent(a)
    BY <2>24 DEF CheckCurrent, At, Finish, Finished, Run
  <2>25. CASE CheckPending(a)
    BY <2>25 DEF CheckPending, At, Run
  <2>26. CASE LeaveMarked(a)
    BY <2>26 DEF LeaveMarked, At, Finish, Finished, Run
  <2>27. CASE Inspect(a)
    BY <2>27 DEF Inspect, At, Goto
  <2>28. CASE SaveBackup(a)
    BY <2>28 DEF SaveBackup, Goto
  <2>29. CASE BeginUpgrade(a)
    BY <2>29 DEF BeginUpgrade, BeginImmediate, Goto
  <2>30. CASE CommitUpgrade(a)
    <3>1. \A b \in Actors : b # a => pc[b] \notin Admitted
      BY <2>30, ExclusiveIsAlone DEF CommitUpgrade, Exclusive
    <3>2. \A b \in Actors : b # a => pc'[b] = pc[b] /\ transaction'[b] = transaction[b]
      BY <2>30 DEF CommitUpgrade, Commit, Finish, Finished, Run
    <3>3. pc'[a] \notin Writing \cup {"reading", "copying"} /\ transaction'[a] # "write"
      BY <2>30 DEF CommitUpgrade, Commit, Finish, Finished, Run
    <3>4. \A b \in Actors :
            pc'[b] \notin Writing \cup {"reading", "copying"} /\ transaction'[b] # "write"
      BY <3>1, <3>2, <3>3
    <3>5. QED
      BY <3>4
  <2>31. CASE BeginSnapshot(a)
    BY <2>31 DEF BeginSnapshot, At, BeginDeferred, Goto
  <2>32. CASE PersistSnapshot(a)
    BY <2>32 DEF PersistSnapshot, Finish, Finished, Run
  <2>33. CASE Reserve(a)
    BY <2>33 DEF Reserve, At, Goto
  <2>34. CASE Install(a)
    BY <2>34 DEF Install, Goto
  <2>35. CASE Fail(a)
    BY <2>35 DEF Fail, Goto, Finish, Finished, Run
  <2>36. CASE Close(a)
    BY <2>36 DEF Close, Goto
  <2>37. CASE ReturnLease(a)
    BY <2>37 DEF ReturnLease, Goto
  <2>38. CASE Release(a)
    BY <2>38 DEF Release, Goto
  <2>39. CASE Unlock(a)
    BY <2>39 DEF Unlock, Run
  <2>40. QED
    BY <1>2, <2>1, <2>2, <2>3, <2>4, <2>5, <2>6, <2>7, <2>8, <2>9, <2>10, <2>11, <2>12, <2>13,
       <2>14, <2>15, <2>16, <2>17, <2>18, <2>19, <2>20, <2>21, <2>22, <2>23, <2>24, <2>25,
       <2>26, <2>27, <2>28, <2>29, <2>30, <2>31, <2>32, <2>33, <2>34, <2>35, <2>36, <2>37,
       <2>38, <2>39
       DEF Step, SessionStep, OwnerStep, UpgradeStep, SeedStep, LockStep, DropStep
<1>3. ASSUME NEW p \in Processes, Crash(p) PROVE Transacting'
  BY <1>3 DEF Crash, files, history
<1>4. QED
  BY <1>1, <1>2, <1>3 DEF Next

\* Every step keeps what is not marked whole and every acknowledged edit,
\* and what a job or an upgrade has found out about its image still true.
LEMMA WorkStep ==
  ASSUME TypeOK, Located, AccessHeld, UpdateHeld, Transacting, Working, [Next]_vars
  PROVE  Working'
<1> USE DEF TypeOK, Located, TasksAt, Calls, OwnerJobs, Admitted, Connected, Fallible,
            AccessMode, Exclusion, AccessHeld, UpdateHeld, Owned, Transacting, Working, Open,
            Sound, Reference, SchemaOf, Writing, Image, At, Empty
<1>1. CASE UNCHANGED vars
  BY <1>1 DEF vars, files, locks, control, handles, history
<1>2. ASSUME NEW a \in Actors, Call(a) \/ OwnerCall(a) \/ DropOwner(a) \/ Step(a)
      PROVE  Working'
  <2> USE DEF files, locks, control, handles, history
  <2>1. CASE Call(a)
    BY <2>1 DEF Call, Run, Calls
  <2>2. CASE OwnerCall(a)
    BY <2>2 DEF OwnerCall, Run, OwnerJobs
  <2>3. CASE DropOwner(a)
    BY <2>3 DEF DropOwner, Run
  <2>4. CASE Lock(a)
    BY <2>4 DEF Lock, Goto, UpdateMode
  <2>5. CASE LockBusy(a)
    BY <2>5 DEF LockBusy, Run
  <2>6. CASE Admit(a)
    BY <2>6 DEF Admit, Goto, AccessMode
  <2>7. CASE AdmitBusy(a)
    BY <2>7 DEF AdmitBusy, Run, Finished
  <2>8. CASE Connect(a)
    BY <2>8 DEF Connect, Goto
  <2>9. CASE BeginRead(a)
    BY <2>9 DEF BeginRead, BeginDeferred, Goto, Reference, Valid
  <2>10. CASE EndRead(a)
    BY <2>10 DEF EndRead, Finish, Finished, Run
  <2>11. CASE BeginWrite(a)
    BY <2>11 DEF BeginWrite, At, BeginImmediate, Goto, Reference, Valid
  <2>12. CASE CommitWrite(a)
    <3>1. view[a] = db /\ access[a] = "shared" /\ file
      BY <2>12 DEF CommitWrite
    <3>2. db' = [db EXCEPT !.saved = @ + 1]
      BY <2>12, <3>1 DEF CommitWrite, Commit
    <3>3. /\ db'.schema = db.schema /\ db'.maintenance = db.maintenance
          /\ db'.complete = db.complete /\ db'.saved = acked'
      BY <2>12, <3>2 DEF CommitWrite
    <3>4. pc' = [pc EXCEPT ![a] = "closing"] /\ task' = [task EXCEPT ![a] = "return"]
      BY <2>12 DEF CommitWrite, Finish, Finished, Run
    <3>5. file' = file /\ seed' = seed
      BY <2>12 DEF CommitWrite, Commit
    <3>6. \A b \in Actors : pc[b] \notin {"saving", "upgrading", "migrating"}
      BY <3>1, ExclusiveIsAlone DEF Exclusive
    <3>7. QED
      BY <3>1, <3>3, <3>4, <3>5, <3>6
  <2>13. CASE ValidateJob(a)
    <3>1. db.schema = SchemaOf(a) /\ db.schema > 0
      BY <2>13, ProcessAssumption DEF ValidateJob, Valid
    <3>2. QED
      BY <2>13, <3>1 DEF ValidateJob, Goto, Valid
  <2>14. CASE BeginPublish(a)
    BY <2>14 DEF BeginPublish, At, BeginImmediate, Goto
  <2>15. CASE CommitPublish(a)
    <3>1. view[a] = db /\ pc[a] \in Exclusive /\ file
      BY <2>15 DEF CommitPublish, Exclusive
    <3>2. db' = [db EXCEPT !.revision = @ + 1, !.content = @ + 1]
      BY <2>15, <3>1 DEF CommitPublish, Commit
    <3>3. /\ Sound(db') /\ db'.saved = acked'
          /\ db.complete => db'.complete
      BY <2>15, <3>1, <3>2 DEF CommitPublish
    <3>4. /\ pc' = [pc EXCEPT ![a] = "closing"] /\ task' = [task EXCEPT ![a] = "update"]
          /\ file' = file /\ seed' = seed
      BY <2>15 DEF CommitPublish, Commit, Finish, Finished, Run
    <3>5. QED
      BY <3>1, <3>3, <3>4, ExclusiveCommit DEF Tasks
  <2>16. CASE Mark(a)
    BY <2>16 DEF Mark, Autocommit, Goto
  <2>17. CASE Checkpoint(a)
    <3>1. db' = [db EXCEPT !.content = @ + 1, !.complete = FALSE]
      BY <2>17 DEF Checkpoint, Autocommit
    <3>2. /\ db'.schema = db.schema /\ db'.maintenance = db.maintenance
          /\ db'.complete = FALSE /\ db'.saved = db.saved
      BY <3>1
    <3>3. /\ file' = file /\ seed' = seed /\ backup' = backup /\ acked' = acked
          /\ pc' = pc /\ task' = task /\ access' = access /\ update' = update
      BY <2>17 DEF Checkpoint, Autocommit
    <3>4. pc[a] = "maintaining"
      BY <2>17 DEF Checkpoint
    <3>5. \A b \in Actors : task[b] # "reclaim"
      <4>1. update[a] = "exclusive" /\ task[a] # "reclaim"
        BY <3>4
      <4>2. \A b \in Actors : b # a => update[b] = "none"
        BY <4>1
      <4>3. \A b \in Actors : task[b] = "reclaim" => update[b] = "exclusive"
        OBVIOUS
      <4>4. QED
        BY <4>1, <4>2, <4>3
    <3>6. \A b \in Actors : b # a => pc[b] \notin Admitted
      BY <3>4, ExclusiveIsAlone DEF Exclusive
    <3>7. \A b \in Actors : pc'[b] \notin {"saving", "upgrading", "migrating"}
      BY <3>3, <3>4, <3>6
    <3>8. Sound(db') /\ (Open(db) => Open(db')) /\ file
      BY <3>2, <3>4
    <3>9. QED
      BY <3>2, <3>3, <3>5, <3>7, <3>8
  <2>18. CASE BeginRebuild(a)
    BY <2>18 DEF BeginRebuild, BeginImmediate, Goto
  <2>19. CASE CommitRebuild(a)
    <3>1. view[a] = db /\ pc[a] \in Exclusive /\ file
      BY <2>19 DEF CommitRebuild, Exclusive
    <3>2. db' = [db EXCEPT !.revision = @ + 1, !.content = @ + 1,
                           !.complete = TRUE, !.maintenance = FALSE]
      BY <2>19, <3>1 DEF CommitRebuild, Commit
    <3>3. /\ Sound(db') /\ db'.saved = acked'
          /\ db.complete => db'.complete
      BY <2>19, <3>1, <3>2 DEF CommitRebuild
    <3>4. /\ pc' = [pc EXCEPT ![a] = "closing"] /\ task' = [task EXCEPT ![a] = "update"]
          /\ file' = file /\ seed' = seed
      BY <2>19 DEF CommitRebuild, Commit, Finish, Finished, Run
    <3>5. QED
      BY <3>1, <3>3, <3>4, ExclusiveCommit DEF Tasks
  <2>20. CASE BeginRecovery(a)
    BY <2>20 DEF BeginRecovery, At, BeginImmediate, Goto
  <2>21. CASE CommitRecovery(a)
    <3>1. view[a] = db /\ pc[a] \in Exclusive /\ file
      BY <2>21 DEF CommitRecovery, Exclusive
    <3>2. db' = [db EXCEPT !.maintenance = FALSE] /\ db.complete
      BY <2>21, <3>1 DEF CommitRecovery, Commit
    <3>3. /\ Sound(db') /\ db'.saved = acked'
          /\ db.complete => db'.complete
      BY <2>21, <3>1, <3>2 DEF CommitRecovery
    <3>4. /\ pc' = [pc EXCEPT ![a] = "closing"] /\ task' = [task EXCEPT ![a] = "update"]
          /\ file' = file /\ seed' = seed
      BY <2>21 DEF CommitRecovery, Commit, Finish, Finished, Run
    <3>5. QED
      BY <3>1, <3>3, <3>4, ExclusiveCommit DEF Tasks
  <2>22. CASE ProbePasses(a)
    BY <2>22 DEF ProbePasses, At, Run
  <2>23. CASE FinishReclaim(a)
    BY <2>23 DEF FinishReclaim, Autocommit, Run
  <2>24. CASE CheckCurrent(a)
    BY <2>24 DEF CheckCurrent, At, Finish, Finished, Run
  <2>25. CASE CheckPending(a)
    BY <2>25 DEF CheckPending, At, Run
  <2>26. CASE LeaveMarked(a)
    BY <2>26 DEF LeaveMarked, At, Finish, Finished, Run
  <2>27. CASE Inspect(a)
    BY <2>27 DEF Inspect, At, Goto
  <2>28. CASE SaveBackup(a)
    BY <2>28 DEF SaveBackup, Goto
  <2>29. CASE BeginUpgrade(a)
    BY <2>29 DEF BeginUpgrade, BeginImmediate, Goto
  <2>30. CASE CommitUpgrade(a)
    <3>1. view[a] = db /\ pc[a] \in Exclusive /\ file
      BY <2>30 DEF CommitUpgrade, Exclusive
    <3>2. PICK change \in {0, 1} :
            Commit(a, [view[a] EXCEPT !.schema = SchemaOf(a), !.content = @ + change])
      BY <2>30 DEF CommitUpgrade
    <3>3. /\ Sound(db') /\ db'.saved = acked'
          /\ db.complete => db'.complete
      BY <2>30, <3>1, <3>2 DEF CommitUpgrade, Commit
    <3>4. /\ pc' = [pc EXCEPT ![a] = "closing"] /\ task' = [task EXCEPT ![a] = "return"]
          /\ file' = file /\ seed' = seed
      BY <2>30 DEF CommitUpgrade, Commit, Finish, Finished, Run
    <3>5. QED
      BY <3>1, <3>3, <3>4, ExclusiveCommit DEF Tasks
  <2>31. CASE BeginSnapshot(a)
    BY <2>31 DEF BeginSnapshot, At, BeginDeferred, Goto
  <2>32. CASE PersistSnapshot(a)
    BY <2>32 DEF PersistSnapshot, Finish, Finished, Run
  <2>33. CASE Reserve(a)
    BY <2>33 DEF Reserve, At, Goto
  <2>34. CASE Install(a)
    BY <2>34 DEF Install, Goto
  <2>35. CASE Fail(a)
    BY <2>35 DEF Fail, Goto, Finish, Finished, Run
  <2>36. CASE Close(a)
    BY <2>36 DEF Close, Goto
  <2>37. CASE ReturnLease(a)
    BY <2>37 DEF ReturnLease, Goto
  <2>38. CASE Release(a)
    BY <2>38 DEF Release, Goto
  <2>39. CASE Unlock(a)
    BY <2>39 DEF Unlock, Run
  <2>40. QED
    BY <1>2, <2>1, <2>2, <2>3, <2>4, <2>5, <2>6, <2>7, <2>8, <2>9, <2>10, <2>11, <2>12, <2>13,
       <2>14, <2>15, <2>16, <2>17, <2>18, <2>19, <2>20, <2>21, <2>22, <2>23, <2>24, <2>25,
       <2>26, <2>27, <2>28, <2>29, <2>30, <2>31, <2>32, <2>33, <2>34, <2>35, <2>36, <2>37,
       <2>38, <2>39
       DEF Step, SessionStep, OwnerStep, UpgradeStep, SeedStep, LockStep, DropStep
<1>3. ASSUME NEW p \in Processes, Crash(p) PROVE Working'
  BY <1>3 DEF Crash, files, history
<1>4. QED
  BY <1>1, <1>2, <1>3 DEF Next

-----------------------------------------------------------------------------
\* A file an earlier program may have left satisfies the invariant.
LEMMA InitInd == Init => IndInv
<1> SUFFICES ASSUME Init PROVE IndInv
  OBVIOUS
<1> USE DEF Init
<1>1. PICK start \in Starts : file = start.file /\ db = start.db /\ seed = start.seed
  OBVIOUS
<1>2. /\ start \in Start /\ Sound(start.db) /\ Sound(start.seed) /\ ~start.seed.maintenance
      /\ ~start.file => start.db = Empty
  BY StartAssumption
<1>3. file \in BOOLEAN /\ db \in Image /\ seed \in Image /\ Empty \in Image /\ db.saved \in Nat
  BY <1>1, <1>2 DEF Start, Image, Empty
<1>4. TypeOK
  BY <1>3 DEF TypeOK, Modes, Locations, Tasks, Reference, Empty
<1>5. Located
  BY DEF Located, TasksAt
<1>6. AccessHeld /\ UpdateHeld
  BY DEF AccessHeld, UpdateHeld, Exclusion, Admitted, Connected, Fallible, Owned, OwnerJobs
<1>7. Transacting
  BY DEF Transacting, Writing
<1>8. Working
  BY <1>1, <1>2 DEF Working, At
<1>9. QED
  BY <1>4, <1>5, <1>6, <1>7, <1>8 DEF IndInv

\* The invariant is inductive.
LEMMA IndStep == IndInv /\ [Next]_vars => IndInv'
BY TypeStep, LocatedStep, AccessStep, UpdateStep, TransactStep, WorkStep DEF IndInv

\* The inductive invariant holds in every reachable state of every instance.
THEOREM Inductive == Spec => []IndInv
<1>1. Init => IndInv
  BY InitInd
<1>2. IndInv /\ [Next]_vars => IndInv'
  BY IndStep
<1>3. QED
  BY <1>1, <1>2, PTL DEF Spec

\* Every variable keeps its type: no call leaves an image, a lock or a
\* location outside what the other calls expect.
THEOREM TypeCorrect == Spec => []TypeOK
<1>1. IndInv => TypeOK
  BY DEF IndInv
<1>2. QED
  BY <1>1, Inductive, PTL

\* No actor is connected to the file while another holds it exclusively.
THEOREM ExclusiveIsAloneAlways == Spec => []ExclusiveMeansAlone
<1>1. IndInv => ExclusiveMeansAlone
  BY DEF IndInv, TypeOK, Located, TasksAt, AccessHeld, Exclusion, AccessMode, Connected,
         Admitted, Fallible, ExclusiveMeansAlone, Calls, OwnerJobs
<1>2. QED
  BY <1>1, Inductive, PTL

\* Sessions of every process show the current, whole reference throughout.
THEOREM SessionsStayCurrent == Spec => []SessionsAreCurrent
<1>1. IndInv => SessionsAreCurrent
  BY DEF IndInv, AccessHeld, Transacting, SessionsAreCurrent, Connected, Admitted, Fallible
<1>2. QED
  BY <1>1, Inductive, PTL

\* What a snapshot copies is the current reference until it is written.
THEOREM SnapshotsStayCurrent == Spec => []SnapshotsAreCurrent
<1>1. IndInv => SnapshotsAreCurrent
  BY DEF IndInv, Transacting, SnapshotsAreCurrent
<1>2. QED
  BY <1>1, Inductive, PTL

\* Neither the workspace nor a seed is ever open with half an update.
THEOREM PartialIsNeverOpen == Spec => []NothingPartialIsOpen
<1>1. IndInv => NothingPartialIsOpen
  BY DEF IndInv, Working, NothingPartialIsOpen
<1>2. QED
  BY <1>1, Inductive, PTL

\* Acknowledged edits of saved state survive everything that can happen.
THEOREM EditsAreKept == Spec => []NoEditIsLost
<1>1. IndInv => NoEditIsLost
  BY DEF IndInv, Working, NoEditIsLost
<1>2. QED
  BY <1>1, Inductive, PTL

=============================================================================
