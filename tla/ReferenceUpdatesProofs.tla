----------------------- MODULE ReferenceUpdatesProofs -----------------------
(***************************************************************************)
(* What holds of the updates of module ReferenceUpdates, for any number of *)
(* processes, executables, files, profiles and edits.                      *)
(*                                                                         *)
(* The inductive invariant says of each process                            *)
(*   - where its job can be, that whoever is where the update lock is held *)
(*     is the only holder, and what the plan of its build is (Control);    *)
(*   - that a capture never has more than the checkout, and that a commit  *)
(*     which survives its confirmation is every file's (Captures);         *)
(*   - that the checkout once was a tree t between what the build captured *)
(*     and what the checkout is now: it is chosen when the build is bound, *)
(*     and a file that is read again and found as captured leaves no room  *)
(*     between the two (Consumes);                                         *)
(*   - that what a setup judged stays published (Fresh), and so do the     *)
(*     values a selection leaves in place (Keeping);                       *)
(*   - that the recovery cache is counted (Counted);                       *)
(* and of the reference what its publication found (Published).            *)
(*                                                                         *)
(* The lock gives the argument its shape: a step of another process leaves *)
(* the workspace as the owner of the lock saw it (OwnersAlone).  What is   *)
(* known without the lock is stable because versions only grow.            *)
(***************************************************************************)
EXTENDS ReferenceUpdates, FiniteSetTheorems, WellFoundedInduction, TLAPS

\* The steps of a process.
Acts(p) == Call(p) \/ Step(p) \/ Stop(p)

\* The locations of a capture, of a selection, and of a build that is bound.
Gathering == {"capturing", "resolving", "reading", "comparing", "confirming"}
Selecting == {"evicting", "selecting", "inferring", "remembering", "publishing"}
Building == Selecting \cup {"preparing"}

\* Where each job of a call can be.
Located(p) ==
  /\ pc[p] \in {"judging", "opening", "reopening"} => task[p] = "setup"
  /\ pc[p] \in Gathering \cup {"judging"} /\ task[p] = "setup" => job[p] = "configure"
  /\ pc[p] = "looking" => task[p] \in {"setup", "start"} /\ job[p] = "configure"
  /\ job[p] \in {"upgrade", "reclaim"} =>
       pc[p] \in {"idle", "locking", "recovering", "marking", "planning", "converting",
                  "opening", "reopening", "reclaiming", "vacuuming"}
  /\ pc[p] \in {"marking", "planning", "converting"} => job[p] = "upgrade"
  /\ Rebuilds(p) /\ pc[p] # "idle" => job[p] = "build"

\* Who is where the update lock is held holds it alone.
Owned(p) == Owning(p) => owner = {p}

\* What a build is for, and what the stored request says.
Planned(p) ==
  /\ pc[p] = "saving" => request \subseteq build[p].plan
  /\ pc[p] \in Building \cup {"binding"} \/ (pc[p] \in Gathering /\ task[p] # "setup")
       => build[p].plan = request

\* What an upgrade saw under the lock.
Planning(p) == pc[p] = "converting" => Class(p) = "projections"

Control(p) == Located(p) /\ Owned(p) /\ Planned(p) /\ Planning(p)

\* Versions only grow.
Versions ==
  /\ source \in existed
  /\ \A f \in Files : source[f] >= 1 /\ reference.source[f] <= source[f]

\* A capture and its commit.
Committed(p) == build[p].commit # 0 => \A f \in Files : build[p].capture[f] = build[p].commit

\* While files are read: the commit before the capture is not newer than a file of it.
Around(p) ==
  build[p].commit # 0 =>
    \A f \in Files :
      /\ build[p].commit <= source[f]
      /\ build[p].capture[f] # 0 => build[p].commit <= build[p].capture[f]

\* From the confirmation on no file lies between the capture and the checkout.
Captures(p) ==
  /\ \A f \in Files : build[p].capture[f] <= source[f]
  /\ pc[p] = "resolving" => build[p].capture = Unread
  /\ pc[p] \in {"reading", "comparing", "confirming"} => Around(p)
  /\ pc[p] \in {"comparing", "confirming"} => Captured(p)
  /\ pc[p] = "confirming" =>
       \E x \in 0..MaxVersion : \A f \in Files : build[p].capture[f] <= x /\ x <= source[f]
  /\ pc[p] \notin {"reading", "comparing", "confirming"} => Committed(p)

\* The checkout when the build was bound.
Between(p, t) ==
  \A f \in Packs :
    /\ build[p].capture[f] <= t[f] /\ t[f] <= source[f] /\ reference.source[f] <= t[f]
    /\ f \in build[p].verified => t[f] = build[p].capture[f]

\* A bound build has such a tree, and one that selects has found every pack in it.
Consumes(p) ==
  /\ pc[p] \in Building => \E t \in existed : Between(p, t)
  /\ pc[p] \in Selecting => build[p].verified = Packs

\* SetupsAreFresh and SelectionsAreKept of one process, with what they rest on.
Fresh(p) ==
  (/\ task[p] = "setup"
   /\ pc[p] \in {"looking", "opening", "reopening"} \/ job[p] \in {"upgrade", "reclaim"})
    => \A f \in Packs : reference.source[f] >= build[p].capture[f]

Keeping(p) ==
  IF pc[p] \in Selecting THEN Keeps(p)
    ELSE pc[p] \in {"reclaiming", "vacuuming"} \/ build[p].kept = {}

\* CacheAccounted of one process.
Counted(p) ==
  ~Rebuilds(p) =>
    /\ pc[p] \in Selecting => build[p].cache = Cardinality(pending)
    /\ pc[p] \in {"selecting", "inferring", "publishing"} => Cardinality(pending) <= CacheLimit

\* Before the first publication there is no reference.
Published ==
  /\ revision = 0 => reference = Absent
  /\ PublishedSourceExisted /\ RecordedRevisionIsPublished

\* The inductive invariant.
IndInv ==
  /\ TypeOK /\ Versions /\ Published
  /\ \A p \in Processes :
       Control(p) /\ Captures(p) /\ Consumes(p) /\ Fresh(p) /\ Keeping(p) /\ Counted(p)

-----------------------------------------------------------------------------
(* The actions of a job, by part.                                          *)

\* The actions by part: calls and the lock, errors, the request, the capture, the
\* judgement of a setup, upgrades, preparation, selection, publication.
Enters(p) == Call(p) \/ Lock(p) \/ LockBusy(p)
Leaves(p) == Refuse(p) \/ Stop(p)
Configures(p) == Recover(p) \/ Ask(p) \/ CheckRequest(p) \/ SaveRequest(p)
Gathers(p) == Capture(p) \/ Resolve(p) \/ Read(p) \/ EndRead(p) \/ Compare(p) \/
       Confirm(p)
Judges(p) == Judge(p) \/ Open(p) \/ Look(p)
Upgrades(p) == Mark(p) \/ Plan(p) \/ Convert(p)
Prepares(p) == Bind(p) \/ Verify(p) \/ Stage(p)
Selects(p) == Evict(p) \/ Select(p) \/ Checkpoint(p) \/ Remember(p) \/ Covered(p)
Publishes(p) == Publish(p) \/ Reclaim(p) \/ Vacuum(p)

\* Each step of a process belongs to one part.
LEMMA ByPart ==
  ASSUME NEW p, Acts(p)
  PROVE  \/ Enters(p) \/ Leaves(p) \/ Configures(p) \/ Gathers(p) \/ Judges(p) \/ Upgrades(p)
         \/ Prepares(p) \/ Selects(p) \/ Publishes(p)
BY DEF Acts, Step, Enters, Leaves, Configures, Gathers, Judges, Upgrades, Prepares, Selects,
       Publishes

\* Steps of the cache count what it holds and leave the rest of the build.
LEMMA CacheSteps ==
  ASSUME TypeOK, NEW p \in Processes, Stage(p) \/ Evict(p) \/ Checkpoint(p)
  PROVE  \E c : build' = [build EXCEPT ![p] = [build[p] EXCEPT !.cache = c]]
<1>0. build \in [Processes -> Builds]
  BY DEF TypeOK
<1>1. build = [build EXCEPT ![p] = [build[p] EXCEPT !.cache = build[p].cache]]
  BY <1>0 DEF Builds
<1>2. CASE Stage(p)
  BY <1>0, <1>2 DEF Stage
<1>3. CASE Evict(p)
  <2>1. build' = build \/ \E gone \in SUBSET pending : build' = [build EXCEPT ![p].cache =
                    IF pending = {} THEN 0 ELSE build[p].cache - Cardinality(gone)]
    BY <1>0, <1>3 DEF Evict
  <2>2. QED
    BY <1>1, <2>1
<1>4. CASE Checkpoint(p)
  <2> DEFINE c == build[p].cache + Cardinality(build[p].missing \ pending)
  <2>1. build' = build \/ build' = [build EXCEPT ![p] = [build[p] EXCEPT !.cache = c]]
    BY <1>0, <1>4 DEF Checkpoint
  <2> HIDE DEF c
  <2>2. QED
    BY <1>1, <2>1
<1>5. QED
  BY <1>2, <1>3, <1>4

\* So every other field of the build stays.
LEMMA CacheOnly ==
  ASSUME TypeOK, NEW p \in Processes, Stage(p) \/ Evict(p) \/ Checkpoint(p)
  PROVE  /\ build'[p].plan = build[p].plan /\ build'[p].capture = build[p].capture
         /\ build'[p].commit = build[p].commit /\ build'[p].verified = build[p].verified
         /\ build'[p].bound = build[p].bound /\ build'[p].staged = build[p].staged
         /\ build'[p].kept = build[p].kept /\ build'[p].missing = build[p].missing
<1>1. PICK c : build' = [build EXCEPT ![p] = [build[p] EXCEPT !.cache = c]]
  BY CacheSteps
<1>2. QED
  BY <1>1 DEF TypeOK, Builds

\* A step writes the variables of its own process only.
LEMMA OthersStay ==
  ASSUME TypeOK, NEW p \in Processes, Acts(p), NEW q \in Processes, q # p
  PROVE  pc'[q] = pc[q] /\ task'[q] = task[q] /\ job'[q] = job[q] /\ build'[q] = build[q]
<1> USE DEF TypeOK, Goto, LockFor, End, EndUpgrade, AfterCapture
<1>1. CASE Enters(p)
  BY <1>1 DEF Enters, Call, Lock, LockBusy
<1>2. CASE Leaves(p)
  BY <1>2 DEF Leaves, Refuse, Stop
<1>3. CASE Configures(p)
  BY <1>3 DEF Configures, Recover, Ask, CheckRequest, SaveRequest
<1>4. CASE Gathers(p)
  BY <1>4 DEF Gathers, Capture, Resolve, Read, EndRead, Compare, Confirm
<1>5. CASE Judges(p)
  BY <1>5 DEF Judges, Judge, Open, Look
<1>6. CASE Upgrades(p)
  BY <1>6 DEF Upgrades, Mark, Plan, Convert
<1>7. CASE Prepares(p)
  BY <1>7 DEF Prepares, Bind, Verify, Stage
<1>8. CASE Selects(p)
  BY <1>8 DEF Selects, Evict, Select, Checkpoint, Remember, Covered
<1>9. CASE Publishes(p)
  BY <1>9 DEF Publishes, Publish, Reclaim, Vacuum
<1>10. QED
  BY <1>1, <1>2, <1>3, <1>4, <1>5, <1>6, <1>7, <1>8, <1>9, ByPart

\* The types of the control state.
LEMMA ControlTyped ==
  ASSUME TypeOK, NEW p \in Processes, Acts(p)
  PROVE  /\ pc' \in [Processes -> Locations] /\ task' \in [Processes -> Tasks]
         /\ job' \in [Processes -> {"configure", "build", "upgrade", "reclaim"}]
         /\ owner' \subseteq Processes /\ calls' \in Nat /\ stops' \in Nat
<1> USE ProcessAssumption
<1> USE DEF TypeOK, bounds, Tasks, Locations, Goto, LockFor, End, EndUpgrade, AfterCapture
<1>1. CASE Enters(p)
  BY <1>1 DEF Enters, Call, Lock, LockBusy
<1>2. CASE Leaves(p)
  BY <1>2 DEF Leaves, Refuse, Stop
<1>3. CASE Configures(p)
  BY <1>3 DEF Configures, Recover, Ask, CheckRequest, SaveRequest
<1>4. CASE Gathers(p)
  BY <1>4 DEF Gathers, Capture, Resolve, Read, EndRead, Compare, Confirm
<1>5. CASE Judges(p)
  BY <1>5 DEF Judges, Judge, Open, Look
<1>6. CASE Upgrades(p)
  BY <1>6 DEF Upgrades, Mark, Plan, Convert
<1>7. CASE Prepares(p)
  BY <1>7 DEF Prepares, Bind, Verify, Stage
<1>8. CASE Selects(p)
  BY <1>8 DEF Selects, Evict, Select, Checkpoint, Remember, Covered
<1>9. CASE Publishes(p)
  BY <1>9 DEF Publishes, Publish, Reclaim, Vacuum
<1>10. QED
  BY <1>1, <1>2, <1>3, <1>4, <1>5, <1>6, <1>7, <1>8, <1>9, ByPart

\* Where a job goes on, and with the lock it needs there.
LEMMA WhereItGoes ==
  ASSUME TypeOK, TypeOK', NEW p \in Processes, Acts(p), Control(p)
  PROVE  Located(p)' /\ Owned(p)'
<1> USE DEF TypeOK, Goto, LockFor, End, EndUpgrade, AfterCapture, Control, Located, Owned, Owning,
            Rebuilds, Gathering
<1>1. CASE Enters(p)
  BY <1>1 DEF Enters, Call, Lock, LockBusy
<1>2. CASE Leaves(p)
  BY <1>2 DEF Leaves, Refuse, Stop
<1>3. CASE Configures(p)
  BY <1>3 DEF Configures, Recover, Ask, CheckRequest, SaveRequest
<1>4. CASE Gathers(p)
  BY <1>4 DEF Gathers, Capture, Resolve, Read, EndRead, Compare, Confirm
<1>5. CASE Judges(p)
  BY <1>5 DEF Judges, Judge, Open, Look
<1>6. CASE Upgrades(p)
  BY <1>6 DEF Upgrades, Mark, Plan, Convert
<1>7. CASE Prepares(p)
  BY <1>7 DEF Prepares, Bind, Verify, Stage
<1>8. CASE Selects(p)
  BY <1>8 DEF Selects, Evict, Select, Checkpoint, Remember, Covered
<1>9. CASE Publishes(p)
  BY <1>9 DEF Publishes, Publish, Reclaim, Vacuum
<1>10. QED
  BY <1>1, <1>2, <1>3, <1>4, <1>5, <1>6, <1>7, <1>8, <1>9, ByPart

\* A selection adds the window to what is staged, kept and missing.
LEMMA SelectSteps ==
  ASSUME TypeOK, NEW p \in Processes, Select(p)
  PROVE  \E w \in Windows(p), there \in SUBSET values :
           /\ there \subseteq w
           /\ build' = [build EXCEPT ![p] = [build[p] EXCEPT
                !.staged = build[p].staged \cup (w \cap Cached(p)),
                !.kept = build[p].kept \cup there,
                !.missing = w \ (Cached(p) \cup there)]]
<1>1. PICK w \in Windows(p), reuse \in Reuse(p) :
        build' = [build EXCEPT
          ![p].staged = @ \cup (w \cap Cached(p)),
          ![p].kept = @ \cup (IF reuse THEN (w \ Cached(p)) \cap values ELSE {}),
          ![p].missing = w \ (Cached(p) \cup (IF reuse THEN (w \ Cached(p)) \cap values ELSE {}))]
  BY DEF Select
<1> DEFINE there == IF reuse THEN (w \ Cached(p)) \cap values ELSE {}
<1>2. there \in SUBSET values /\ there \subseteq w
  OBVIOUS
<1>3. build' = [build EXCEPT ![p].staged = @ \cup (w \cap Cached(p)), ![p].kept = @ \cup there,
                             ![p].missing = w \ (Cached(p) \cup there)]
  BY <1>1
<1> HIDE DEF there
<1>4. build' = [build EXCEPT ![p] = [build[p] EXCEPT
        !.staged = build[p].staged \cup (w \cap Cached(p)),
        !.kept = build[p].kept \cup there,
        !.missing = w \ (Cached(p) \cup there)]]
  BY <1>3 DEF TypeOK, Builds
<1>5. QED
  BY <1>2, <1>4

\* Which action writes which field of a build.
LEMMA Fields ==
  ASSUME TypeOK, NEW p \in Processes, Acts(p)
  PROVE  \/ build'[p] = Nothing /\ pc'[p] = "idle"
         \/ /\ ~Ask(p) => build'[p].plan = build[p].plan
            /\ ~(Capture(p) \/ Read(p)) => build'[p].capture = build[p].capture
            /\ ~(Capture(p) \/ Resolve(p) \/ Compare(p) \/ Confirm(p))
                 => build'[p].commit = build[p].commit
            /\ ~(Bind(p) \/ Verify(p)) => build'[p].verified = build[p].verified
            /\ ~Bind(p) => build'[p].bound = build[p].bound
            /\ ~Select(p) => build'[p].kept = build[p].kept
<1>0. build \in [Processes -> Builds]
  BY DEF TypeOK
<1>1. CASE build' = build
  BY <1>1
<1>2. CASE build' = [build EXCEPT ![p] = Nothing] /\ pc' = [pc EXCEPT ![p] = "idle"]
  BY <1>0, <1>2 DEF TypeOK
<1>3. CASE Ask(p)
  BY <1>0, <1>3 DEF Ask, Builds
<1>4. CASE Capture(p)
  BY <1>0, <1>4 DEF Capture, Builds
<1>5. CASE Resolve(p) \/ Confirm(p)
  BY <1>0, <1>5 DEF Resolve, Confirm, Builds
<1>6. CASE Read(p)
  BY <1>0, <1>6 DEF Read, Builds
<1>7. CASE Compare(p) /\ build' # build
  BY <1>0, <1>7 DEF Compare, Builds
<1>8. CASE Bind(p)
  BY <1>0, <1>8 DEF Bind, Builds
<1>9. CASE Verify(p)
  BY <1>0, <1>9 DEF Verify, Builds
<1>10. CASE Stage(p) \/ Evict(p) \/ Checkpoint(p)
  BY <1>10, CacheOnly
<1>11. CASE Select(p)
  <2>1. PICK w \in Windows(p), there \in SUBSET values :
           build' = [build EXCEPT ![p] = [build[p] EXCEPT
             !.staged = build[p].staged \cup (w \cap Cached(p)),
             !.kept = build[p].kept \cup there,
             !.missing = w \ (Cached(p) \cup there)]]
    BY <1>11, SelectSteps
  <2>2. build'[p] = [build[p] EXCEPT
             !.staged = build[p].staged \cup (w \cap Cached(p)),
             !.kept = build[p].kept \cup there,
             !.missing = w \ (Cached(p) \cup there)]
    BY <1>0, <2>1
  <2>3. QED
    BY <1>0, <1>11, <2>2 DEF Builds
<1>12. CASE Remember(p)
  BY <1>0, <1>12 DEF Remember, Builds
<1>13. QED
  BY <1>1, <1>2, <1>3, <1>4, <1>5, <1>6, <1>7, <1>8, <1>9, <1>10, <1>11, <1>12
     DEF Acts, Step, Call, Lock, LockBusy, Recover, CheckRequest, SaveRequest, EndRead, Compare,
         Judge, Open, Look, Mark, Plan, Convert, Covered, Publish, Reclaim, Vacuum, Refuse, Stop,
         EndUpgrade, End, Goto

\* The plan of a build is the stored request from its configuration on.
LEMMA PlanOfActor ==
  ASSUME TypeOK, TypeOK', NEW p \in Processes, Acts(p), Control(p)
  PROVE  Planned(p)'
<1>0. build'[p].plan = build[p].plan \/ pc'[p] = "idle" \/ Ask(p)
  BY Fields
<1> USE DEF TypeOK, Goto, LockFor, End, EndUpgrade, AfterCapture, Control, Planned, Gathering,
            Building, Selecting, Rebuilds, Located
<1>1. CASE Enters(p)
  BY <1>1, <1>0 DEF Enters, Call, Lock, LockBusy, workspace, Ask
<1>2. CASE Leaves(p)
  BY <1>2, <1>0 DEF Leaves, Refuse, Stop, workspace, Ask
<1>3. CASE Configures(p)
  <2>1. CASE Ask(p)
    <3>1. build'[p].plan = Requested(p) /\ request' = request /\ pc[p] = "asking"
      BY <2>1 DEF Ask, Builds, workspace
    <3>2. request \subseteq Requested(p) /\ (Rebuilds(p) => Requested(p) = request)
      BY DEF Requested
    <3>3. pc'[p] = IF Rebuilds(p) THEN "capturing" ELSE "saving"
      BY <2>1 DEF Ask
    <3>4. QED
      BY <3>1, <3>2, <3>3
  <2>2. CASE Recover(p) \/ CheckRequest(p) \/ SaveRequest(p)
    BY <1>0, <2>2 DEF Recover, CheckRequest, SaveRequest, Unchanged, Ask, workspace
  <2>3. QED
    BY <1>3, <2>1, <2>2 DEF Configures
<1>4. CASE Gathers(p)
  BY <1>4, <1>0 DEF Gathers, Capture, Resolve, Read, EndRead, Compare, Confirm,
         workspace, Ask
<1>5. CASE Judges(p)
  BY <1>5, <1>0 DEF Judges, Judge, Open, Look, workspace, Ask
<1>6. CASE Upgrades(p)
  BY <1>6, <1>0 DEF Upgrades, Mark, Plan, Convert, workspace, Ask
<1>7. CASE Prepares(p)
  BY <1>7, <1>0 DEF Prepares, Bind, Verify, Stage, workspace, Ask
<1>8. CASE Selects(p)
  BY <1>8, <1>0 DEF Selects, Evict, Select, Checkpoint, Remember, Covered, workspace,
         Ask
<1>9. CASE Publishes(p)
  BY <1>9, <1>0 DEF Publishes, Publish, Reclaim, Vacuum, workspace, Ask
<1>10. QED
  BY <1>1, <1>2, <1>3, <1>4, <1>5, <1>6, <1>7, <1>8, <1>9, ByPart

-----------------------------------------------------------------------------
(* Types.                                                                  *)

\* There are finitely many native inputs: the cardinalities of the cache are numbers.
LEMMA InputsFinite == IsFiniteSet(Inputs)
<1> DEFINE Pairs == (Profiles \X Packs) \X (0..MaxVersion)
           g == [x \in Pairs |-> <<x[1][1], x[1][2], x[2]>>]
<1>1. IsFiniteSet(Profiles) /\ IsFiniteSet(Packs)
  BY SourceAssumption, FS_Difference DEF Packs
<1>2. IsFiniteSet(0..MaxVersion)
  BY BoundAssumption, FS_Interval
<1>3. IsFiniteSet(Profiles \X Packs)
  BY <1>1, FS_Product
<1>4. IsFiniteSet(Pairs)
  BY <1>2, <1>3, FS_Product
<1>5. g \in Surjection(Pairs, Inputs)
  <2>1. \A x \in Pairs : g[x] \in Inputs
    BY DEF Inputs
  <2>2. ASSUME NEW i \in Inputs
        PROVE  \E x \in Pairs : g[x] = i
    <3>1. PICK m \in Profiles, f \in Packs, v \in 0..MaxVersion : i = <<m, f, v>>
      BY DEF Inputs
    <3>2. <<<<m, f>>, v>> \in Pairs /\ g[<<<<m, f>>, v>>] = i
      BY <3>1
    <3> HIDE DEF g, Pairs
    <3>3. QED
      BY <3>2
  <2>3. g \in [Pairs -> Inputs]
    BY <2>1
  <2> HIDE DEF g, Pairs
  <2>4. QED
    BY <2>2, <2>3 DEF Surjection
<1> HIDE DEF g, Pairs
<1>6. QED
  BY <1>4, <1>5, FS_Surjection

\* The clean commit is the lowest version of a file of the checkout.
LEMMA HeadIs ==
  ASSUME TypeOK, Versions
  PROVE  /\ Head \in 1..MaxVersion
         /\ \A f \in Files : Head <= source[f]
         /\ \E f \in Files : Head = source[f]
<1> DEFINE T == {source[f] : f \in Files}
<1>1. \A f \in Files : source[f] \in 1..MaxVersion
  BY BoundAssumption DEF TypeOK, Trees, Versions
<1>2. T \subseteq Nat /\ T # {}
  BY <1>1, SourceAssumption, BoundAssumption
<1>3. PICK v \in T : \A y \in T : <<y, v>> \notin OpToRel(<, Nat)
  <2> HIDE DEF T
  <2>1. QED
    BY <1>2, NatLessThanWellFounded, WFMin
<1>4. ASSUME NEW f \in Files
      PROVE  v <= source[f]
  <2>1. source[f] \in Nat /\ v \in Nat
    BY <1>2
  <2>2. ~ (source[f] < v)
    <3>1. <<source[f], v>> \notin OpToRel(<, Nat)
      BY <1>3
    <3>2. QED
      BY <2>1, <3>1 DEF OpToRel
  <2>3. QED
    BY <2>1, <2>2
<1>5. v \in 1..MaxVersion /\ \E f \in Files : v = source[f]
  BY <1>1
<1>6. QED
  BY <1>4, <1>5 DEF Head

\* A process without a build.
LEMMA NoBuild == Nothing \in Builds
<1>1. 0 \in 0..MaxVersion
  BY BoundAssumption
<1>2. QED
  BY <1>1 DEF Nothing, Builds, Unread, Trees

\* A window is of inputs the build needs.
LEMMA WindowInputs ==
  ASSUME TypeOK, NEW p \in Processes, NEW w \in Windows(p)
  PROVE  w \subseteq Inputs /\ w \cap Selected(p) = {}
<1>1. Needed(p) \subseteq Inputs
  <2>1. build[p] \in Builds
    BY DEF TypeOK
  <2>2. \A f \in Packs : build[p].capture[f] \in 0..MaxVersion
    BY <2>1 DEF Builds, Trees, Packs
  <2>3. build[p].plan \subseteq Profiles
    BY <2>1 DEF Builds
  <2>4. QED
    BY <2>2, <2>3 DEF Needed, InputsOf, Inputs
<1>2. \E m \in build[p].plan : w \subseteq {i \in Needed(p) : i[1] = m} \ Selected(p)
  BY DEF Windows
<1>3. QED
  BY <1>1, <1>2

\* The shared state.
LEMMA SharedKept ==
  ASSUME TypeOK, NEW p \in Processes, Acts(p)
  PROVE  /\ source' \in Trees /\ existed' \subseteq Trees /\ revision' \in Nat
         /\ reference' \in References /\ values' \subseteq Inputs /\ pending' \subseteq Inputs
         /\ request' \subseteq Profiles /\ marker' \in BOOLEAN
<1> USE DEF TypeOK, workspace, tree
<1>1. CASE UNCHANGED workspace /\ UNCHANGED tree
  BY <1>1
<1>2. CASE Recover(p)
  BY <1>2 DEF Recover, RecoveredMarker
<1>3. CASE SaveRequest(p)
  BY <1>3 DEF SaveRequest, Builds
<1>4. CASE Mark(p)
  BY <1>4 DEF Mark
<1>5. CASE Convert(p)
  <2>1. Derived[p] \in Nat
    BY ProcessAssumption
  <2>2. [reference EXCEPT !.derived = Derived[p]] \in References
    BY <2>1 DEF References
  <2>3. reference' = [reference EXCEPT !.derived = Derived[p]] /\ revision' = revision + 1
    BY <1>5 DEF Convert
  <2>4. source' = source /\ existed' = existed /\ values' = values /\ pending' = pending
        /\ request' = request /\ marker' = FALSE
    BY <1>5 DEF Convert
  <2>5. revision' \in Nat
    BY <2>3
  <2>6. QED
    BY <2>2, <2>3, <2>4, <2>5
<1>6. CASE Evict(p)
  BY <1>6 DEF Evict
<1>7. CASE Checkpoint(p)
  BY <1>7 DEF Checkpoint, Builds
<1>8. CASE Publish(p)
  <2>1. build[p] \in Builds /\ Prep[p] \in Nat /\ Derived[p] \in Nat
    BY ProcessAssumption
  <2>2. reference' \in References
    BY <1>8, <2>1 DEF Publish, References, Builds
  <2>3. values' \subseteq Inputs /\ pending' \subseteq Inputs
    BY <1>8, <2>1 DEF Publish, Selected, Builds
  <2>4. QED
    BY <1>8, <2>2, <2>3 DEF Publish
<1>9. CASE Reclaim(p) \/ Vacuum(p)
  BY <1>9 DEF Reclaim, Vacuum
<1>10. QED
  BY <1>1, <1>2, <1>3, <1>4, <1>5, <1>6, <1>7, <1>8, <1>9
     DEF Acts, Step, Call, Lock, LockBusy, Ask, CheckRequest, Capture, Resolve, Read, EndRead,
         Compare, Confirm, Judge, Open, Look, Plan, Bind, Verify, Stage, Select, Remember,
         Covered, Refuse, Stop

\* What each process knows of its build.
LEMMA BuildKept ==
  ASSUME TypeOK, Versions, NEW p \in Processes, Acts(p)
  PROVE  build' \in [Processes -> Builds]
<1> USE DEF TypeOK
<1>0. build[p] \in Builds /\ 0 \in 0..MaxVersion /\ \A f \in Files : source[f] \in 0..MaxVersion
  BY BoundAssumption DEF Trees
<1>a. \A b \in Builds : [build EXCEPT ![p] = b] \in [Processes -> Builds]
  OBVIOUS
<1>1. CASE build' = build
  BY <1>1
<1>2. CASE build' = [build EXCEPT ![p] = Nothing]
  BY <1>2, <1>a, NoBuild
<1>3. CASE Ask(p)
  <2>1. build' = [build EXCEPT ![p] = [build[p] EXCEPT !.plan = Requested(p)]]
    BY <1>3 DEF Ask
  <2>2. Requested(p) \in SUBSET Profiles
    BY ProcessAssumption DEF Requested
  <2>3. QED
    BY <1>0, <1>a, <2>1, <2>2 DEF Builds
<1>4. CASE Capture(p)
  <2>1. build' = [build EXCEPT ![p] = [build[p] EXCEPT !.capture = Unread, !.commit = 0]]
    BY <1>4, <1>0 DEF Capture
  <2>2. Unread \in Trees
    BY <1>0 DEF Unread, Trees
  <2>3. QED
    BY <1>0, <1>a, <2>1, <2>2 DEF Builds
<1>5. CASE Resolve(p) \/ (Compare(p) /\ build' # build) \/ Confirm(p)
  <2>1. Head \in 0..MaxVersion
    BY HeadIs
  <2>2. PICK c \in 0..MaxVersion : build' = [build EXCEPT ![p] = [build[p] EXCEPT !.commit = c]]
    BY <1>0, <1>5, <2>1 DEF Resolve, Compare, Confirm, CommitAround
  <2>3. QED
    BY <1>0, <1>a, <2>2 DEF Builds
<1>6. CASE Read(p)
  <2>1. PICK f \in Files : build' = [build EXCEPT ![p] = [build[p] EXCEPT
                             !.capture = [@ EXCEPT ![f] = source[f]]]]
    BY <1>6 DEF Read
  <2>2. [build[p].capture EXCEPT ![f] = source[f]] \in Trees
    BY <1>0 DEF Builds, Trees
  <2>3. QED
    BY <1>0, <1>a, <2>1, <2>2 DEF Builds
<1>7. CASE Bind(p)
  <2>1. build' = [build EXCEPT ![p] = [build[p] EXCEPT !.bound = revision, !.verified = {}]]
    BY <1>7, <1>0 DEF Bind
  <2>2. QED
    BY <1>0, <1>a, <2>1 DEF Builds
<1>8. CASE Verify(p)
  <2>1. PICK f \in Packs : build' = [build EXCEPT ![p] = [build[p] EXCEPT !.verified = @ \cup {f}]]
    BY <1>8 DEF Verify
  <2>2. build[p].verified \cup {f} \in SUBSET Files
    BY <1>0 DEF Builds, Packs
  <2>3. QED
    BY <1>0, <1>a, <2>1, <2>2 DEF Builds
<1>9. CASE (Stage(p) \/ Evict(p) \/ Checkpoint(p)) /\ build' # build
  <2>1. IsFiniteSet(pending) /\ IsFiniteSet(build[p].missing)
    BY <1>0, FS_Subset, InputsFinite DEF Builds
  <2>2. \A s \in SUBSET pending : Cardinality(s) \in Nat
    BY <2>1, FS_Subset, FS_CardinalityType
  <2>3. Cardinality(build[p].missing \ pending) \in Nat
    BY <2>1, FS_Difference, FS_CardinalityType
  <2>4. Cardinality(pending) \in Nat
    BY <2>1, FS_CardinalityType
  <2>5. build[p].cache \in Int
    BY <1>0 DEF Builds
  <2>6. PICK c \in Int : build' = [build EXCEPT ![p] = [build[p] EXCEPT !.cache = c]]
    <3>1. CASE Stage(p)
      <4> DEFINE c == CachedBefore(p)
      <4>1. c \in Int
        BY <2>4 DEF CachedBefore
      <4>2. build' = [build EXCEPT ![p] = [build[p] EXCEPT !.cache = c]]
        BY <3>1 DEF Stage
      <4>3. QED
        BY <4>1, <4>2
    <3>2. CASE Evict(p)
      <4>1. PICK s \in SUBSET pending :
              build' = [build EXCEPT ![p].cache =
                          IF pending = {} THEN 0 ELSE build[p].cache - Cardinality(s)]
        BY <1>9, <3>2 DEF Evict
      <4>2. build' = [build EXCEPT ![p] = [build[p] EXCEPT !.cache =
                        IF pending = {} THEN 0 ELSE build[p].cache - Cardinality(s)]]
        BY <4>1
      <4>3. (IF pending = {} THEN 0 ELSE build[p].cache - Cardinality(s)) \in Int
        BY <2>2, <2>5
      <4>4. QED
        BY <4>2, <4>3
    <3>3. CASE Checkpoint(p)
      <4> DEFINE c == build[p].cache + Cardinality(build[p].missing \ pending)
      <4>1. c \in Int
        BY <2>3, <2>5
      <4>2. build' = [build EXCEPT ![p] = [build[p] EXCEPT !.cache = c]]
        BY <1>9, <3>3 DEF Checkpoint
      <4> HIDE DEF c
      <4>3. QED
        BY <4>1, <4>2
    <3>4. QED
      BY <1>9, <3>1, <3>2, <3>3
  <2>7. QED
    BY <1>0, <1>a, <2>6 DEF Builds
<1>10. CASE Select(p)
  <2>1. PICK w \in Windows(p) : \E there \in SUBSET w :
          build' = [build EXCEPT ![p].staged = @ \cup (w \cap Cached(p)),
                                 ![p].kept = @ \cup there,
                                 ![p].missing = w \ (Cached(p) \cup there)]
    BY <1>10 DEF Select
  <2>5. PICK there \in SUBSET w :
          build' = [build EXCEPT ![p].staged = @ \cup (w \cap Cached(p)),
                                 ![p].kept = @ \cup there,
                                 ![p].missing = w \ (Cached(p) \cup there)]
    BY <2>1
  <2>2. w \subseteq Inputs
    BY WindowInputs
  <2>3. build' = [build EXCEPT ![p] = [build[p] EXCEPT
            !.staged = build[p].staged \cup (w \cap Cached(p)), !.kept = build[p].kept \cup there,
            !.missing = w \ (Cached(p) \cup there)]]
    BY <1>0, <2>5
  <2>4. QED
    BY <1>0, <1>a, <2>2, <2>3 DEF Builds
<1>11. CASE Remember(p)
  <2>1. build' = [build EXCEPT ![p] = [build[p] EXCEPT
            !.staged = build[p].staged \cup build[p].missing, !.missing = {}]]
    BY <1>0, <1>11 DEF Remember
  <2>2. QED
    BY <1>0, <1>a, <2>1 DEF Builds
<1>12. QED
  BY <1>1, <1>2, <1>3, <1>4, <1>5, <1>6, <1>7, <1>8, <1>9, <1>10, <1>11
     DEF Acts, Step, Call, Lock, LockBusy, Recover, CheckRequest, SaveRequest, EndRead,
         Judge, Open, Look, Mark, Plan, Convert, Stage, Evict, Checkpoint, Covered, Compare,
         Publish, Reclaim, Vacuum, Refuse, Stop, EndUpgrade, End

\* A step of a process keeps the types.
LEMMA ActsTyped ==
  ASSUME TypeOK, Versions, NEW p \in Processes, Acts(p)
  PROVE  TypeOK'
BY ControlTyped, SharedKept, BuildKept DEF TypeOK

\* So does an edit of the checkout.
LEMMA EditTyped ==
  ASSUME TypeOK, NEW f \in Files, Edit(f)
  PROVE  TypeOK'
<1>1. source' \in Trees
  <2>1. source[f] \in 0..MaxVersion /\ source[f] + 1 \in 0..MaxVersion
    BY BoundAssumption DEF TypeOK, Trees, Edit
  <2>2. source' = [source EXCEPT ![f] = source[f] + 1]
    BY DEF Edit
  <2>3. QED
    BY <2>1, <2>2 DEF TypeOK, Trees
<1>2. existed' \subseteq Trees
  BY <1>1 DEF TypeOK, Edit
<1>3. QED
  BY <1>1, <1>2 DEF TypeOK, Edit, workspace, bounds

-----------------------------------------------------------------------------
(* Who writes what.                                                        *)

\* The actions of a job that write the workspace; none writes the checkout.
LEMMA WorkspaceSteps ==
  ASSUME NEW p, Acts(p)
  PROVE  /\ UNCHANGED <<source, existed>>
         /\ \/ UNCHANGED workspace
            \/ Recover(p) \/ SaveRequest(p) \/ Mark(p) \/ Convert(p) \/ Evict(p)
            \/ Checkpoint(p) \/ Publish(p) \/ Reclaim(p) \/ Vacuum(p)
<1> USE DEF tree, Goto, LockFor, End, EndUpgrade, AfterCapture
<1>1. CASE Enters(p)
  BY <1>1 DEF Enters, Call, Lock, LockBusy
<1>2. CASE Leaves(p)
  BY <1>2 DEF Leaves, Refuse, Stop
<1>3. CASE Configures(p)
  BY <1>3 DEF Configures, Recover, Ask, CheckRequest, SaveRequest
<1>4. CASE Gathers(p)
  BY <1>4 DEF Gathers, Capture, Resolve, Read, EndRead, Compare, Confirm
<1>5. CASE Judges(p)
  BY <1>5 DEF Judges, Judge, Open, Look
<1>6. CASE Upgrades(p)
  BY <1>6 DEF Upgrades, Mark, Plan, Convert
<1>7. CASE Prepares(p)
  BY <1>7 DEF Prepares, Bind, Verify, Stage
<1>8. CASE Selects(p)
  BY <1>8 DEF Selects, Evict, Select, Checkpoint, Remember, Covered
<1>9. CASE Publishes(p)
  BY <1>9 DEF Publishes, Publish, Reclaim, Vacuum
<1>10. QED
  BY <1>1, <1>2, <1>3, <1>4, <1>5, <1>6, <1>7, <1>8, <1>9, ByPart

\* The reference and its revision are written by publications and conversions only.
LEMMA ReferenceSteps ==
  ASSUME NEW p, Acts(p)
  PROVE  UNCHANGED <<revision, reference>> \/ Publish(p) \/ Convert(p)
BY WorkspaceSteps DEF workspace, Recover, SaveRequest, Mark, Evict, Checkpoint, Reclaim, Vacuum

\* The owner of the update lock is disturbed by no other job.
LEMMA OwnersAlone ==
  ASSUME TypeOK, NEW p \in Processes, Acts(p), Owned(p),
         NEW q \in Processes, q # p, Owning(q), Owned(q)
  PROVE  UNCHANGED workspace /\ owner' = {q}
<1>1. owner = {q} /\ ~Owning(p)
  BY DEF Owned
<1>2. UNCHANGED workspace
  BY <1>1, WorkspaceSteps
     DEF Owning, Recover, SaveRequest, Mark, Convert, Evict, Checkpoint, Publish, Reclaim, Vacuum
<1>3. owner' = owner \/ owner' = owner \ {p}
  <2> USE <1>1 DEF Free, Owning, Goto, LockFor, End, EndUpgrade, AfterCapture
  <2>1. CASE Enters(p)
    BY <2>1 DEF Enters, Call, Lock, LockBusy
  <2>2. CASE Leaves(p)
    BY <2>2 DEF Leaves, Refuse, Stop
  <2>3. CASE Configures(p)
    BY <2>3 DEF Configures, Recover, Ask, CheckRequest, SaveRequest
  <2>4. CASE Gathers(p)
    BY <2>4 DEF Gathers, Capture, Resolve, Read, EndRead, Compare, Confirm
  <2>5. CASE Judges(p)
    BY <2>5 DEF Judges, Judge, Open, Look
  <2>6. CASE Upgrades(p)
    BY <2>6 DEF Upgrades, Mark, Plan, Convert
  <2>7. CASE Prepares(p)
    BY <2>7 DEF Prepares, Bind, Verify, Stage
  <2>8. CASE Selects(p)
    BY <2>8 DEF Selects, Evict, Select, Checkpoint, Remember, Covered
  <2>9. CASE Publishes(p)
    BY <2>9 DEF Publishes, Publish, Reclaim, Vacuum
  <2>10. QED
    BY <2>1, <2>2, <2>3, <2>4, <2>5, <2>6, <2>7, <2>8, <2>9, ByPart

<1>4. QED
  BY <1>1, <1>2, <1>3

\* What a job knows by its place and its lock survives the steps of others.
LEMMA ControlOfOthers ==
  ASSUME TypeOK, NEW p \in Processes, Acts(p), Control(p),
         NEW q \in Processes, q # p, Control(q)
  PROVE  Control(q)'
<1>1. pc'[q] = pc[q] /\ task'[q] = task[q] /\ job'[q] = job[q] /\ build'[q] = build[q]
  BY OthersStay
<1>2. Owning(q)' <=> Owning(q)
  BY <1>1 DEF Owning
<1>3. Located(q)'
  BY <1>1 DEF Control, Located, Rebuilds
<1>4. Owning(q) => UNCHANGED workspace /\ owner' = {q}
  BY OwnersAlone DEF Control
<1>5. Owned(q)'
  BY <1>2, <1>4 DEF Owned
<1>6. Planned(q)'
  <2>1. CASE Owning(q)
    BY <1>1, <1>4, <2>1 DEF Control, Planned, workspace
  <2>2. CASE ~Owning(q)
    BY <1>1, <2>2 DEF Planned, Owning, Building, Selecting, Gathering
  <2>3. QED
    BY <2>1, <2>2
<1>7. Planning(q)'
  <2>1. CASE pc[q] = "converting"
    <3>1. UNCHANGED workspace
      BY <1>4, <2>1 DEF Owning
    <3>2. QED
      BY <2>1, <3>1 DEF Control, Planning, Class, workspace
  <2>2. CASE pc[q] # "converting"
    BY <1>1, <2>2 DEF Planning
  <2>3. QED
    BY <2>1, <2>2
<1>8. QED
  BY <1>3, <1>5, <1>6, <1>7 DEF Control

\* It survives the steps of the job itself.
LEMMA ControlOfActor ==
  ASSUME TypeOK, TypeOK', NEW p \in Processes, Acts(p), Control(p)
  PROVE  Control(p)'
<1>1. Planning(p)'
  <2> USE DEF TypeOK, Goto, LockFor, End, EndUpgrade, AfterCapture, Planning
  <2>1. CASE Enters(p)
    BY <2>1 DEF Enters, Call, Lock, LockBusy
  <2>2. CASE Leaves(p)
    BY <2>2 DEF Leaves, Refuse, Stop
  <2>3. CASE Configures(p)
    BY <2>3 DEF Configures, Recover, Ask, CheckRequest, SaveRequest
  <2>4. CASE Gathers(p)
    BY <2>4 DEF Gathers, Capture, Resolve, Read, EndRead, Compare, Confirm
  <2>5. CASE Judges(p)
    BY <2>5 DEF Judges, Judge, Open, Look
  <2>6. CASE Upgrades(p)
    <3>1. CASE Plan(p)
      <4>1. UNCHANGED workspace /\ (pc'[p] = "converting" => Class(p) = "projections")
        BY <3>1 DEF Plan
      <4>2. QED
        BY <4>1 DEF Class, workspace
    <3>2. CASE Mark(p) \/ Convert(p)
      BY <3>2 DEF Mark, Convert
    <3>3. QED
      BY <2>6, <3>1, <3>2 DEF Upgrades
  <2>7. CASE Prepares(p)
    BY <2>7 DEF Prepares, Bind, Verify, Stage
  <2>8. CASE Selects(p)
    BY <2>8 DEF Selects, Evict, Select, Checkpoint, Remember, Covered
  <2>9. CASE Publishes(p)
    BY <2>9 DEF Publishes, Publish, Reclaim, Vacuum
  <2>10. QED
    BY <2>1, <2>2, <2>3, <2>4, <2>5, <2>6, <2>7, <2>8, <2>9, ByPart

<1>2. QED
  BY <1>1, WhereItGoes, PlanOfActor DEF Control

-----------------------------------------------------------------------------
(* Captures and their commits.                                             *)

\* A job outside its capture keeps what it captured, or forgets its build.
LEMMA OutsideCaptures ==
  ASSUME TypeOK, NEW p \in Processes, Acts(p), ~Gathers(p)
  PROVE  /\ pc'[p] \notin {"resolving", "reading", "comparing", "confirming"}
         /\ \/ build'[p] = Nothing /\ pc'[p] = "idle"
            \/ /\ pc[p] \notin {"resolving", "reading", "comparing", "confirming"}
               /\ build'[p].capture = build[p].capture /\ build'[p].commit = build[p].commit
<1>1. \/ build'[p] = Nothing /\ pc'[p] = "idle"
      \/ build'[p].capture = build[p].capture /\ build'[p].commit = build[p].commit
  BY Fields DEF Gathers
<1>2. /\ pc'[p] \notin {"resolving", "reading", "comparing", "confirming"}
      /\ pc[p] \in {"resolving", "reading", "comparing", "confirming"}
           => build'[p] = Nothing /\ pc'[p] = "idle"
  <2> USE DEF TypeOK, Goto, LockFor, End, EndUpgrade, AfterCapture
  <2>1. CASE Enters(p)
    BY <2>1 DEF Enters, Call, Lock, LockBusy
  <2>2. CASE Leaves(p)
    BY <2>2 DEF Leaves, Refuse, Stop
  <2>3. CASE Configures(p)
    BY <2>3 DEF Configures, Recover, Ask, CheckRequest, SaveRequest
  <2>4. CASE Gathers(p)
    BY <2>4
  <2>5. CASE Judges(p)
    BY <2>5 DEF Judges, Judge, Open, Look
  <2>6. CASE Upgrades(p)
    BY <2>6 DEF Upgrades, Mark, Plan, Convert
  <2>7. CASE Prepares(p)
    BY <2>7 DEF Prepares, Bind, Verify, Stage
  <2>8. CASE Selects(p)
    BY <2>8 DEF Selects, Evict, Select, Checkpoint, Remember, Covered
  <2>9. CASE Publishes(p)
    BY <2>9 DEF Publishes, Publish, Reclaim, Vacuum
  <2>10. QED
    BY <2>1, <2>2, <2>3, <2>4, <2>5, <2>6, <2>7, <2>8, <2>9, ByPart

<1>3. QED
  BY <1>1, <1>2

\* What holds of a capture goes on to hold while the checkout gets new versions.
LEMMA CapturesStay ==
  ASSUME TypeOK, TypeOK', NEW q \in Processes, Captures(q),
         pc'[q] = pc[q], build'[q] = build[q], \A f \in Files : source[f] <= source'[f]
  PROVE  Captures(q)'
<1>1. \A f \in Files : source[f] \in Nat /\ source'[f] \in Nat
  BY BoundAssumption DEF TypeOK, Trees
<1>2. \A f \in Files : build[q].capture[f] \in Nat
  BY BoundAssumption DEF TypeOK, Builds, Trees
<1>3. build[q].commit \in Nat
  BY BoundAssumption DEF TypeOK, Builds
<1>4. \A f \in Files : build[q].capture[f] <= source'[f]
  BY <1>1, <1>2 DEF Captures
<1>5. pc[q] \in {"reading", "comparing", "confirming"} => Around(q)'
  BY <1>1, <1>3 DEF Captures, Around
<1>6. ASSUME pc[q] = "confirming"
      PROVE  \E x \in 0..MaxVersion :
                \A f \in Files : build[q].capture[f] <= x /\ x <= source'[f]
  <2>1. PICK x \in 0..MaxVersion : \A f \in Files : build[q].capture[f] <= x /\ x <= source[f]
    BY <1>6 DEF Captures
  <2>2. x \in Nat
    BY BoundAssumption
  <2>3. QED
    BY <1>1, <2>1, <2>2
<1>7. QED
  BY <1>4, <1>5, <1>6 DEF Captures, Committed, Captured

\* A capture that is confirmed squeezes each file between the commit before and after.
LEMMA CapturesOfActor ==
  ASSUME TypeOK, TypeOK', Versions, NEW p \in Processes, Acts(p), Captures(p)
  PROVE  Captures(p)'
<1>1. UNCHANGED <<source, existed>>
  BY WorkspaceSteps
<1>2. \A f \in Files : source[f] \in Nat /\ source[f] >= 1 /\ 0 <= source[f]
  BY BoundAssumption DEF TypeOK, Trees, Versions
<1>3. \A f \in Files : build[p].capture[f] \in Nat
  BY BoundAssumption DEF TypeOK, Builds, Trees
<1>4. build[p].commit \in Nat /\ build[p] \in Builds
  BY BoundAssumption DEF TypeOK, Builds
<1>5. CASE ~Gathers(p)
  <2>1. CASE build'[p] = Nothing /\ pc'[p] = "idle"
    <3>1. build'[p].commit = 0 /\ \A f \in Files : build'[p].capture[f] = 0
      BY <2>1 DEF Nothing, Unread
    <3>2. QED
      BY <1>1, <1>2, <2>1, <3>1 DEF Captures, Committed
  <2>2. CASE ~(build'[p] = Nothing /\ pc'[p] = "idle")
    <3>1. /\ {pc[p], pc'[p]} \cap {"resolving", "reading", "comparing", "confirming"} = {}
          /\ build'[p].capture = build[p].capture /\ build'[p].commit = build[p].commit
      BY <1>5, <2>2, OutsideCaptures
    <3>2. QED
      BY <1>1, <3>1 DEF Captures, Committed
  <2>3. QED
    BY <2>1, <2>2
<1>6. CASE Capture(p)
  <2>1. build'[p].capture = Unread /\ build'[p].commit = 0
    BY <1>4, <1>6 DEF Capture, TypeOK, Builds
  <2>2. pc'[p] \in {"resolving", "reading"}
    BY <1>6 DEF Capture, Goto, TypeOK
  <2>3. \A f \in Files : build'[p].capture[f] = 0
    BY <2>1 DEF Unread
  <2>4. QED
    BY <1>1, <1>2, <2>1, <2>2, <2>3 DEF Captures, Around, Committed
<1>7. CASE Resolve(p)
  <2>1. build'[p].capture = Unread /\ build'[p].commit = Head /\ pc'[p] = "reading"
    BY <1>4, <1>7 DEF Resolve, Goto, TypeOK, Builds, Captures
  <2>2. \A f \in Files : build'[p].capture[f] = 0 /\ Head <= source[f]
    BY <2>1, HeadIs DEF Unread
  <2>3. QED
    BY <1>1, <1>2, <2>1, <2>2 DEF Captures, Around
<1>8. CASE Read(p)
  <2>1. PICK f \in Files : build' = [build EXCEPT ![p] = [build[p] EXCEPT
                                      !.capture = [build[p].capture EXCEPT ![f] = source[f]]]]
    BY <1>8 DEF Read
  <2>2. /\ build'[p].capture = [build[p].capture EXCEPT ![f] = source[f]]
        /\ build'[p].commit = build[p].commit
    BY <1>4, <2>1 DEF TypeOK, Builds
  <2>3. build[p].capture \in [Files -> 0..MaxVersion]
    BY <1>4 DEF Builds, Trees
  <2>4. pc[p] = "reading" /\ pc'[p] = "reading"
    BY <1>8 DEF Read
  <2>5. QED
    BY <1>1, <1>2, <1>3, <1>4, <2>2, <2>3, <2>4 DEF Captures, Around
<1>9. CASE EndRead(p)
  <2>1. pc[p] = "reading" /\ pc'[p] = "comparing" /\ build' = build /\ Captured(p)
    BY <1>9 DEF EndRead, Goto, TypeOK
  <2>2. QED
    BY <1>1, <2>1 DEF Captures, Around, Captured
<1>10. CASE Compare(p)
  <2>1. CASE build[p].commit # 0 /\ Clean
    <3>1. pc[p] = "comparing" /\ pc'[p] = "confirming" /\ build' = build
      BY <1>10, <2>1 DEF Compare, Goto, TypeOK
    <3>2. \A f \in Files : source[f] = source[Manifest]
      BY <2>1, SourceAssumption DEF Clean
    <3>3. source[Manifest] \in 0..MaxVersion
      BY SourceAssumption DEF TypeOK, Trees
    <3>4. \A f \in Files :
             build[p].capture[f] <= source[Manifest] /\ source[Manifest] <= source[f]
      BY <1>2, <3>2 DEF Captures
    <3>5. QED
      BY <1>1, <3>1, <3>3, <3>4 DEF Captures, Around, Captured
  <2>2. CASE ~(build[p].commit # 0 /\ Clean)
    <3>1. build'[p].commit = 0 /\ build'[p].capture = build[p].capture
      BY <1>4, <1>10, <2>2 DEF Compare, TypeOK, Builds
    <3>2. pc'[p] \in {"judging", "binding"}
      BY <1>10, <2>2 DEF Compare, AfterCapture, Goto, TypeOK
    <3>3. QED
      BY <1>1, <3>1, <3>2 DEF Captures, Committed
  <2>3. QED
    BY <2>1, <2>2
<1>11. CASE Confirm(p)
  <2>1. build'[p].commit = CommitAround(p) /\ build'[p].capture = build[p].capture
    BY <1>4, <1>11 DEF Confirm, TypeOK, Builds
  <2>2. pc[p] = "confirming" /\ pc'[p] \in {"judging", "binding"}
    BY <1>11 DEF Confirm, AfterCapture, Goto, TypeOK
  <2>3. ASSUME CommitAround(p) # 0, NEW f \in Files
        PROVE  build[p].capture[f] = CommitAround(p)
    <3>1. Head = build[p].commit /\ CommitAround(p) = Head
      BY <2>3 DEF CommitAround
    <3>2. PICK g \in Files : Head = source[g]
      BY HeadIs
    <3>3. PICK x \in 0..MaxVersion :
            \A h \in Files : build[p].capture[h] <= x /\ x <= source[h]
      BY <2>2 DEF Captures
    <3>4. build[p].capture[f] <= x /\ x <= Head /\ x \in Nat
      BY <3>2, <3>3, BoundAssumption
    <3>5. build[p].commit <= build[p].capture[f]
      BY <2>2, <2>3, <3>1 DEF Captures, Captured, Around
    <3>6. QED
      BY <1>3, <1>4, <3>1, <3>4, <3>5
  <2>4. QED
    BY <1>1, <2>1, <2>2, <2>3 DEF Captures, Committed
<1>12. QED
  BY <1>5, <1>6, <1>7, <1>8, <1>9, <1>10, <1>11 DEF Gathers

-----------------------------------------------------------------------------
(* What a build consumes and what a publication replaces.                  *)

\* A publication puts packs in place that are at least those it replaces.
LEMMA PacksGrow ==
  ASSUME TypeOK, NEW p \in Processes, Acts(p), Consumes(p), NEW f \in Packs
  PROVE  reference.source[f] <= reference'.source[f]
<1>1. f \in Files
  BY DEF Packs
<1>2. reference.source[f] \in Nat
  BY <1>1, BoundAssumption DEF TypeOK, References, Trees
<1>3. CASE Publish(p)
  <2>1. PICK t \in existed : Between(p, t)
    BY <1>3 DEF Publish, Consumes, Building, Selecting
  <2>2. f \in build[p].verified
    BY <1>3 DEF Publish, Consumes, Selecting
  <2>3. reference'.source = build[p].capture
    BY <1>3 DEF Publish
  <2>4. QED
    BY <2>1, <2>2, <2>3 DEF Between
<1>4. CASE Convert(p)
  BY <1>2, <1>4 DEF Convert, TypeOK, References
<1>5. CASE UNCHANGED reference
  BY <1>2, <1>5
<1>6. QED
  BY <1>3, <1>4, <1>5, ReferenceSteps

\* The tree of a bound build stays between its capture and the checkout.
LEMMA ConsumesStay ==
  ASSUME TypeOK, TypeOK', NEW q \in Processes, Consumes(q),
         pc'[q] \in Building => pc[q] \in Building, pc'[q] \in Selecting => pc[q] \in Selecting,
         pc'[q] \in Building =>
           /\ build'[q].capture = build[q].capture /\ build'[q].verified = build[q].verified
           /\ UNCHANGED reference,
         existed \subseteq existed', \A f \in Files : source[f] <= source'[f]
  PROVE  Consumes(q)'
<1>1. \A f \in Files : source[f] \in Nat /\ source'[f] \in Nat
  BY BoundAssumption DEF TypeOK, Trees
<1>2. \A t \in existed, f \in Files : t[f] \in Nat
  BY BoundAssumption DEF TypeOK, Trees
<1>3. ASSUME pc'[q] \in Building
      PROVE  \E t \in existed' : Between(q, t)'
  <2>1. PICK t \in existed : Between(q, t)
    BY <1>3 DEF Consumes
  <2>2. ASSUME NEW f \in Packs
        PROVE  t[f] <= source'[f]
    BY <1>1, <1>2, <2>1, <2>2 DEF Between, Packs
  <2>3. Between(q, t)'
    BY <1>3, <2>1, <2>2 DEF Between
  <2>4. QED
    BY <2>3
<1>4. pc'[q] \in Selecting => build'[q].verified = Packs
  BY DEF Consumes, Building
<1>5. QED
  BY <1>3, <1>4 DEF Consumes

\* The tree is the checkout when the build is bound; each file found as captured is its file.
LEMMA ConsumesOfActor ==
  ASSUME TypeOK, TypeOK', Versions, NEW p \in Processes, Acts(p), Captures(p), Consumes(p)
  PROVE  Consumes(p)'
<1>1. UNCHANGED <<source, existed>>
  BY WorkspaceSteps
<1>2. build[p] \in Builds /\ \A f \in Packs : build[p].capture[f] \in Nat
  BY BoundAssumption DEF TypeOK, Builds, Trees, Packs
<1>3. \A f \in Files : source[f] \in Nat /\ source[f] <= source[f]
  BY BoundAssumption DEF TypeOK, Trees
<1>4. CASE Bind(p)
  <2>1. build'[p].capture = build[p].capture /\ build'[p].verified = {}
    BY <1>2, <1>4 DEF Bind, TypeOK, Builds
  <2>2. pc'[p] = "preparing" /\ reference' = reference
    BY <1>4 DEF Bind, Goto, TypeOK, workspace
  <2>3. Between(p, source)'
    BY <1>1, <1>3, <2>1, <2>2 DEF Between, Captures, Versions, Packs
  <2>4. QED
    BY <1>1, <2>2, <2>3 DEF Consumes, Versions, Selecting
<1>5. CASE Verify(p)
  <2>1. PICK f \in Packs : AsCaptured(p, f) /\ build' = [build EXCEPT ![p] = [build[p] EXCEPT
                                                    !.verified = build[p].verified \cup {f}]]
    BY <1>5 DEF Verify
  <2>2. /\ build'[p].capture = build[p].capture
        /\ build'[p].verified = build[p].verified \cup {f}
    BY <1>2, <2>1 DEF TypeOK, Builds
  <2>3. pc[p] = "preparing" /\ pc'[p] = "preparing" /\ reference' = reference
    BY <1>5 DEF Verify, workspace
  <2>4. PICK t \in existed : Between(p, t)
    BY <2>3 DEF Consumes, Building
  <2>5. f \in Files /\ t[f] \in Nat
    BY BoundAssumption DEF TypeOK, Trees, Packs
  <2>6. t[f] = build[p].capture[f]
    BY <1>2, <1>3, <2>1, <2>4, <2>5 DEF Between, AsCaptured
  <2>7. Between(p, t)'
    BY <1>1, <2>2, <2>3, <2>4, <2>6 DEF Between
  <2>8. QED
    BY <1>1, <2>3, <2>7 DEF Consumes, Selecting
<1>6. CASE Stage(p)
  <2>1. /\ build'[p].capture = build[p].capture /\ build'[p].verified = build[p].verified
        /\ build[p].verified = Packs
    BY <1>6, CacheOnly DEF Stage
  <2>2. pc[p] = "preparing" /\ reference' = reference
    BY <1>6 DEF Stage, workspace
  <2>3. PICK t \in existed : Between(p, t)
    BY <2>2 DEF Consumes, Building
  <2>4. Between(p, t)'
    BY <1>1, <2>1, <2>2, <2>3 DEF Between
  <2>5. QED
    BY <1>1, <2>1, <2>4 DEF Consumes
<1>7. CASE ~(Bind(p) \/ Verify(p) \/ Stage(p))
  <2>1. \/ pc'[p] = "idle"
        \/ /\ ~(Capture(p) \/ Read(p)) => build'[p].capture = build[p].capture
           /\ build'[p].verified = build[p].verified
    BY <1>7, Fields
  <2>2. /\ pc'[p] \in Building => pc[p] \in Building
        /\ pc'[p] \in Selecting => pc[p] \in Selecting
        /\ pc'[p] \in Building => ~(Publish(p) \/ Convert(p) \/ Capture(p) \/ Read(p))
    <3> USE DEF TypeOK, Goto, LockFor, End, EndUpgrade, AfterCapture, Building, Selecting, Publish,
                Convert, Capture, Read
    <3>1. CASE Enters(p)
      BY <3>1 DEF Enters, Call, Lock, LockBusy
    <3>2. CASE Leaves(p)
      BY <3>2 DEF Leaves, Refuse, Stop
    <3>3. CASE Configures(p)
      BY <3>3 DEF Configures, Recover, Ask, CheckRequest, SaveRequest
    <3>4. CASE Gathers(p)
      BY <3>4 DEF Gathers, Capture, Resolve, Read, EndRead, Compare, Confirm
    <3>5. CASE Judges(p)
      BY <3>5 DEF Judges, Judge, Open, Look
    <3>6. CASE Upgrades(p)
      BY <3>6 DEF Upgrades, Mark, Plan, Convert
    <3>7. CASE Prepares(p)
      BY <1>7, <3>7 DEF Prepares
    <3>8. CASE Selects(p)
      BY <3>8 DEF Selects, Evict, Select, Checkpoint, Remember, Covered
    <3>9. CASE Publishes(p)
      BY <3>9 DEF Publishes, Publish, Reclaim, Vacuum
    <3>10. QED
      BY <3>1, <3>2, <3>3, <3>4, <3>5, <3>6, <3>7, <3>8, <3>9, ByPart

  <2>3. pc'[p] \in Building => pc'[p] # "idle"
    BY DEF Building, Selecting
  <2>4. pc'[p] \in Building => UNCHANGED reference
    BY <2>2, ReferenceSteps
  <2>5. QED
    BY <1>1, <1>3, <2>1, <2>2, <2>3, <2>4, ConsumesStay
<1>8. QED
  BY <1>4, <1>5, <1>6, <1>7

-----------------------------------------------------------------------------
(* What a setup judged, and what a selection counts on.                    *)

\* A setup goes on without a build only from the comparison of the sources.
LEMMA FreshOfActor ==
  ASSUME TypeOK, TypeOK', NEW p \in Processes, Acts(p), Located(p), Consumes(p), Fresh(p)
  PROVE  Fresh(p)'
<1> DEFINE At == task[p] = "setup"
                   /\ \/ pc[p] \in {"looking", "opening", "reopening"}
                      \/ job[p] \in {"upgrade", "reclaim"}
           AtNext == task'[p] = "setup"
                   /\ \/ pc'[p] \in {"looking", "opening", "reopening"}
                      \/ job'[p] \in {"upgrade", "reclaim"}
<1>1. \A f \in Packs : /\ reference.source[f] \in Nat /\ reference'.source[f] \in Nat
                       /\ reference.source[f] <= reference'.source[f]
  BY PacksGrow, BoundAssumption DEF TypeOK, References, Trees, Packs
<1>2. \A f \in Packs : build[p].capture[f] \in Nat
  BY BoundAssumption DEF TypeOK, Builds, Trees, Packs
<1>3. CASE build'[p] = Nothing
  <2>1. \A f \in Packs : build'[p].capture[f] = 0
    BY <1>3 DEF Nothing, Unread, Packs
  <2>2. QED
    BY <1>1, <2>1 DEF Fresh
<1>4. CASE Judge(p) /\ ~NeedsBuild(p)
  <2>1. build' = build /\ reference' = reference /\ reference.source = build[p].capture
    BY <1>4 DEF Judge, NeedsBuild, workspace
  <2>2. QED
    BY <1>1, <2>1 DEF Fresh
<1>5. CASE build'[p] # Nothing /\ ~(Judge(p) /\ ~NeedsBuild(p))
  <2>1. AtNext => At
    <3> USE <1>5 DEF TypeOK, Goto, LockFor, End, EndUpgrade, AfterCapture, Located, Gathering
    <3>1. CASE Enters(p)
      BY <3>1 DEF Enters, Call, Lock, LockBusy
    <3>2. CASE Leaves(p)
      BY <3>2 DEF Leaves, Refuse, Stop
    <3>3. CASE Configures(p)
      BY <3>3 DEF Configures, Recover, Ask, CheckRequest, SaveRequest
    <3>4. CASE Gathers(p)
      BY <3>4 DEF Gathers, Capture, Resolve, Read, EndRead, Compare, Confirm
    <3>5. CASE Judges(p)
      BY <3>5 DEF Judges, Judge, Open, Look
    <3>6. CASE Upgrades(p)
      BY <3>6 DEF Upgrades, Mark, Plan, Convert
    <3>7. CASE Prepares(p)
      BY <3>7 DEF Prepares, Bind, Verify, Stage
    <3>8. CASE Selects(p)
      BY <3>8 DEF Selects, Evict, Select, Checkpoint, Remember, Covered
    <3>9. CASE Publishes(p)
      BY <3>9 DEF Publishes, Publish, Reclaim, Vacuum
    <3>10. QED
      BY <3>1, <3>2, <3>3, <3>4, <3>5, <3>6, <3>7, <3>8, <3>9, ByPart

  <2>2. At => ~(Capture(p) \/ Read(p))
    BY DEF Located, Capture, Read
  <2>3. ~(Capture(p) \/ Read(p)) => build'[p].capture = build[p].capture
    BY <1>5, Fields
  <2>4. QED
    BY <1>1, <1>2, <2>1, <2>2, <2>3 DEF Fresh
<1>6. QED
  BY <1>3, <1>4, <1>5

\* What others publish is not older.
LEMMA FreshStays ==
  ASSUME TypeOK, TypeOK', NEW q \in Processes, Fresh(q),
         pc'[q] = pc[q], task'[q] = task[q], job'[q] = job[q], build'[q] = build[q],
         \A f \in Packs : reference.source[f] <= reference'.source[f]
  PROVE  Fresh(q)'
<1>1. \A f \in Packs : reference.source[f] \in Nat /\ reference'.source[f] \in Nat
  BY BoundAssumption DEF TypeOK, References, Trees, Packs
<1>2. \A f \in Packs : build[q].capture[f] \in Nat
  BY BoundAssumption DEF TypeOK, Builds, Trees, Packs
<1>3. QED
  BY <1>1, <1>2 DEF Fresh

\* Only a publication replaces the published values.
LEMMA ValueSteps ==
  ASSUME NEW p, Acts(p), ~Publish(p)
  PROVE  values' = values
BY WorkspaceSteps
   DEF workspace, Recover, SaveRequest, Mark, Convert, Evict, Checkpoint, Reclaim, Vacuum

\* A selection keeps published values only, and only the owner replaces those.
LEMMA KeepingOfActor ==
  ASSUME TypeOK, TypeOK', NEW p \in Processes, Acts(p), Keeping(p)
  PROVE  Keeping(p)'
<1>1. CASE build'[p] = Nothing
  BY <1>1 DEF Keeping, Keeps, Nothing
<1>2. CASE Select(p)
  <2>1. PICK w \in Windows(p), there \in SUBSET values :
           build' = [build EXCEPT ![p] = [build[p] EXCEPT
             !.staged = build[p].staged \cup (w \cap Cached(p)),
             !.kept = build[p].kept \cup there,
             !.missing = w \ (Cached(p) \cup there)]]
    BY <1>2, SelectSteps
  <2>2. build'[p].kept = build[p].kept \cup there
    BY <2>1 DEF TypeOK, Builds
  <2>3. values' = values /\ pc[p] = "selecting" /\ pc'[p] = "inferring"
    BY <1>2 DEF Select, Goto, TypeOK, workspace
  <2>4. QED
    BY <2>2, <2>3 DEF Keeping, Keeps, Selecting
<1>3. CASE build'[p] # Nothing /\ ~Select(p)
  <2>1. build'[p].kept = build[p].kept
    BY <1>3, Fields
  <2>2. CASE Publish(p)
    BY <1>3, <2>2 DEF Publish, Goto, End, TypeOK, Keeping, Selecting
  <2>3. CASE ~Publish(p)
    <3>1. \/ pc'[p] \in Selecting /\ pc[p] \in Selecting
          \/ pc'[p] \notin Selecting /\ pc[p] \notin Selecting
               /\ (pc[p] \in {"reclaiming", "vacuuming"} => pc'[p] \in {"reclaiming", "vacuuming"})
          \/ pc'[p] \in Selecting /\ pc[p] = "preparing"
      <4> USE <1>3, <2>3 DEF TypeOK, Goto, LockFor, End, EndUpgrade, AfterCapture, Selecting
      <4>1. CASE Enters(p)
        BY <4>1 DEF Enters, Call, Lock, LockBusy
      <4>2. CASE Leaves(p)
        BY <4>2 DEF Leaves, Refuse, Stop
      <4>3. CASE Configures(p)
        BY <4>3 DEF Configures, Recover, Ask, CheckRequest, SaveRequest
      <4>4. CASE Gathers(p)
        BY <4>4 DEF Gathers, Capture, Resolve, Read, EndRead, Compare, Confirm
      <4>5. CASE Judges(p)
        BY <4>5 DEF Judges, Judge, Open, Look
      <4>6. CASE Upgrades(p)
        BY <4>6 DEF Upgrades, Mark, Plan, Convert
      <4>7. CASE Prepares(p)
        BY <4>7 DEF Prepares, Bind, Verify, Stage
      <4>8. CASE Selects(p)
        BY <4>8 DEF Selects, Evict, Select, Checkpoint, Remember, Covered
      <4>9. CASE Publishes(p)
        BY <4>9 DEF Publishes, Publish, Reclaim, Vacuum
      <4>10. QED
        BY <4>1, <4>2, <4>3, <4>4, <4>5, <4>6, <4>7, <4>8, <4>9, ByPart

    <3>2. QED
      BY <2>1, <2>3, <3>1, ValueSteps DEF Keeping, Keeps, Selecting
  <2>4. QED
    BY <2>2, <2>3
<1>4. QED
  BY <1>1, <1>2, <1>3

\* What a batch adds to the cache, and an eviction takes from it, by number.
LEMMA CacheCounts ==
  ASSUME TypeOK, NEW s, s \subseteq Inputs
  PROVE  /\ Cardinality(pending) \in Nat /\ Cardinality(s) \in Nat
         /\ s \subseteq pending =>
              Cardinality(pending \ s) = Cardinality(pending) - Cardinality(s)
         /\ Cardinality(pending \cup s) = Cardinality(pending) + Cardinality(s \ pending)
<1>1. IsFiniteSet(pending) /\ IsFiniteSet(s)
  BY InputsFinite, FS_Subset DEF TypeOK
<1>2. Cardinality(pending) \in Nat /\ Cardinality(s) \in Nat
  BY <1>1, FS_CardinalityType
<1>3. ASSUME s \subseteq pending
      PROVE  Cardinality(pending \ s) = Cardinality(pending) - Cardinality(s)
  <2>1. pending \cap s = s
    BY <1>3
  <2>2. QED
    BY <1>1, <2>1, FS_Difference
<1>4. Cardinality(pending \cup s) = Cardinality(pending) + Cardinality(s \ pending)
  <2>1. pending \cup s = pending \cup (s \ pending) /\ pending \cap (s \ pending) = {}
    OBVIOUS
  <2>2. IsFiniteSet(s \ pending) /\ Cardinality(s \ pending) \in Nat
    BY <1>1, FS_Difference, FS_CardinalityType
  <2>3. Cardinality(pending \cup (s \ pending))
          = Cardinality(pending) + Cardinality(s \ pending) - Cardinality({})
    BY <1>1, <2>1, <2>2, FS_Union
  <2>4. QED
    BY <1>2, <2>1, <2>2, <2>3, FS_EmptySet
<1>5. QED
  BY <1>2, <1>3, <1>4

\* Staging, eviction and checkpoints keep the count of the cache.
LEMMA CountedOfActor ==
  ASSUME TypeOK, TypeOK', NEW p \in Processes, Acts(p), Counted(p)
  PROVE  Counted(p)'
<1>1. build[p] \in Builds /\ build \in [Processes -> Builds] /\ build[p].missing \subseteq Inputs
  BY DEF TypeOK, Builds
<1>2. CASE Call(p)
  BY <1>2 DEF Call, TypeOK, Counted, Selecting
<1>3. CASE pc'[p] \notin Selecting
  BY <1>3 DEF Counted, Selecting
<1>4. CASE ~Call(p) /\ pc'[p] \in Selecting /\ Rebuilds(p)
  <2>1. task' = task
    BY <1>4 DEF Acts, Step, Lock, LockBusy, Recover, Ask, CheckRequest, SaveRequest, Capture,
                Resolve, Read, EndRead, Compare, Confirm, Judge, Open, Look, Mark, Plan, Convert,
                Bind, Verify, Stage, Evict, Select, Checkpoint, Remember, Covered, Publish,
                Reclaim, Vacuum, Refuse, Stop, Goto, LockFor, End, EndUpgrade, AfterCapture
  <2>2. QED
    BY <1>4, <2>1 DEF Counted, Rebuilds
<1>5. CASE Stage(p) /\ ~Rebuilds(p)
  <2>1. build' = [build EXCEPT ![p] = [build[p] EXCEPT !.cache = Cardinality(pending)]]
    BY <1>5 DEF Stage, CachedBefore
  <2>2. build'[p].cache = Cardinality(pending)
    BY <1>1, <2>1 DEF Builds
  <2>3. pending' = pending /\ pc'[p] = "evicting"
    BY <1>5 DEF Stage, Goto, TypeOK, workspace
  <2>4. QED
    BY <2>2, <2>3 DEF Counted
<1>6. CASE Evict(p) /\ ~Rebuilds(p)
  <2>1. pc[p] = "evicting" /\ build[p].cache = Cardinality(pending)
    BY <1>6 DEF Evict, Counted, Selecting
  <2>2. CASE build[p].cache <= CacheLimit
    <3>1. build' = build /\ pending' = pending /\ pc'[p] = "selecting"
      BY <1>6, <2>2 DEF Evict, Goto, TypeOK
    <3>2. QED
      BY <2>1, <2>2, <3>1 DEF Counted
  <2>3. CASE ~(build[p].cache <= CacheLimit)
    <3>1. PICK gone \in SUBSET pending :
            /\ pending' = pending \ gone
            /\ build' = [build EXCEPT ![p].cache =
                 IF pending = {} THEN 0 ELSE build[p].cache - Cardinality(gone)]
      BY <1>6, <2>3 DEF Evict
    <3>2. build'[p].cache = IF pending = {} THEN 0 ELSE build[p].cache - Cardinality(gone)
      BY <1>1, <3>1 DEF Builds
    <3>3. gone \subseteq Inputs
      BY DEF TypeOK
    <3>4. Cardinality(pending \ gone) = Cardinality(pending) - Cardinality(gone)
      BY <3>3, CacheCounts
    <3>5. build'[p].cache = Cardinality(pending')
      <4>1. CASE pending = {}
        BY <3>1, <3>2, <4>1, FS_EmptySet
      <4>2. CASE pending # {}
        BY <2>1, <3>1, <3>2, <3>4, <4>2
      <4>3. QED
        BY <4>1, <4>2
    <3>6. pc'[p] = "evicting"
      BY <1>6, <2>1, <2>3 DEF Evict
    <3>7. QED
      BY <3>5, <3>6 DEF Counted
  <2>4. QED
    BY <2>2, <2>3
<1>7. CASE Checkpoint(p) /\ ~Rebuilds(p)
  <2>1. pc[p] = "inferring" /\ pc'[p] = "remembering" /\ pending' = pending \cup build[p].missing
    BY <1>7 DEF Checkpoint, Goto, TypeOK
  <2>2. build'[p].cache = build[p].cache + Cardinality(build[p].missing \ pending)
    <3> DEFINE c == build[p].cache + Cardinality(build[p].missing \ pending)
    <3>1. build' = [build EXCEPT ![p] = [build[p] EXCEPT !.cache = c]]
      BY <1>7 DEF Checkpoint
    <3> HIDE DEF c
    <3>2. build'[p].cache = c
      BY <1>1, <3>1 DEF Builds
    <3>3. QED
      BY <3>2 DEF c
  <2>3. build[p].cache = Cardinality(pending)
    BY <1>7, <2>1 DEF Counted, Selecting
  <2>4. QED
    BY <1>1, <2>1, <2>2, <2>3, CacheCounts DEF Counted
<1>8. CASE Select(p) /\ ~Rebuilds(p)
  <2>1. PICK w \in Windows(p), there \in SUBSET values :
           build' = [build EXCEPT ![p] = [build[p] EXCEPT
             !.staged = build[p].staged \cup (w \cap Cached(p)),
             !.kept = build[p].kept \cup there,
             !.missing = w \ (Cached(p) \cup there)]]
    BY <1>8, SelectSteps
  <2>2. build'[p].cache = build[p].cache
    BY <1>1, <2>1 DEF Builds
  <2>3. pending' = pending /\ pc[p] = "selecting" /\ pc'[p] = "inferring"
    BY <1>8 DEF Select, Goto, TypeOK, workspace
  <2>4. QED
    BY <1>8, <2>2, <2>3 DEF Counted, Selecting
<1>9. CASE (Remember(p) \/ Covered(p)) /\ ~Rebuilds(p)
  <2>1. build'[p].cache = build[p].cache
    BY <1>1, <1>9 DEF Remember, Covered, Builds
  <2>2. /\ pending' = pending /\ pc[p] \in {"remembering", "selecting"}
        /\ pc'[p] = IF pc[p] = "remembering" THEN "evicting" ELSE "publishing"
    BY <1>9 DEF Remember, Covered, Goto, TypeOK, workspace
  <2>3. QED
    BY <1>9, <2>1, <2>2 DEF Counted, Selecting
<1>10. CASE ~Call(p) /\ ~(Stage(p) \/ Selects(p))
  <2>1. pc'[p] \notin Selecting
    <3> USE DEF TypeOK, Goto, LockFor, End, EndUpgrade, AfterCapture, Selecting
    <3>1. CASE Enters(p)
      BY <1>10, <3>1 DEF Enters, Lock, LockBusy
    <3>2. CASE Leaves(p)
      BY <3>2 DEF Leaves, Refuse, Stop
    <3>3. CASE Configures(p)
      BY <3>3 DEF Configures, Recover, Ask, CheckRequest, SaveRequest
    <3>4. CASE Gathers(p)
      BY <3>4 DEF Gathers, Capture, Resolve, Read, EndRead, Compare, Confirm
    <3>5. CASE Judges(p)
      BY <3>5 DEF Judges, Judge, Open, Look
    <3>6. CASE Upgrades(p)
      BY <3>6 DEF Upgrades, Mark, Plan, Convert
    <3>7. CASE Prepares(p)
      BY <1>10, <3>7 DEF Prepares, Bind, Verify
    <3>8. CASE Selects(p)
      BY <1>10, <3>8
    <3>9. CASE Publishes(p)
      BY <3>9 DEF Publishes, Publish, Reclaim, Vacuum
    <3>10. QED
      BY <3>1, <3>2, <3>3, <3>4, <3>5, <3>6, <3>7, <3>8, <3>9, ByPart

  <2>2. QED
    BY <1>3, <2>1
<1>11. QED
  BY <1>2, <1>3, <1>4, <1>5, <1>6, <1>7, <1>8, <1>9, <1>10 DEF Selects

-----------------------------------------------------------------------------
(* What is published.                                                      *)

\* No reference has more than the checkout.
LEMMA VersionsByActor ==
  ASSUME TypeOK, TypeOK', Versions, NEW p \in Processes, Acts(p), Captures(p)
  PROVE  Versions'
<1>1. UNCHANGED <<source, existed>>
  BY WorkspaceSteps
<1>2. reference'.source = reference.source \/ reference'.source = build[p].capture
  <2>1. Publish(p) => reference'.source = build[p].capture
    BY DEF Publish
  <2>2. Convert(p) => reference'.source = reference.source
    BY DEF Convert, TypeOK, References
  <2>3. QED
    BY <2>1, <2>2, ReferenceSteps
<1>3. QED
  BY <1>1, <1>2 DEF Versions, Captures

\* An edit gives the checkout a tree that is not older.
LEMMA VersionsByEdit ==
  ASSUME TypeOK, TypeOK', Versions, NEW f \in Files, Edit(f)
  PROVE  Versions' /\ existed \subseteq existed' /\ \A g \in Files : source[g] <= source'[g]
<1>1. \A g \in Files : source[g] \in Nat /\ reference.source[g] \in Nat
  BY BoundAssumption DEF TypeOK, Trees, References
<1>2. \A g \in Files : source'[g] = IF g = f THEN source[g] + 1 ELSE source[g]
  BY DEF Edit, TypeOK, Trees
<1>3. \A g \in Files : source[g] <= source'[g]
  BY <1>1, <1>2
<1>4. reference' = reference /\ existed' = existed \cup {source'}
  BY DEF Edit, workspace
<1>5. \A g \in Files : source'[g] \in Nat
  BY <1>1, <1>2
<1>6. QED
  BY <1>1, <1>3, <1>4, <1>5 DEF Versions

\* A publication takes its packs from the tree of its build, and its commit from the capture.
LEMMA PublishedByActor ==
  ASSUME TypeOK, TypeOK', Published, NEW p \in Processes, Acts(p), Control(p), Captures(p),
         Consumes(p)
  PROVE  Published'
<1>1. UNCHANGED <<source, existed>>
  BY WorkspaceSteps
<1>2. CASE Publish(p)
  <2>1. /\ reference'.source = build[p].capture /\ reference'.commit = build[p].commit
        /\ revision' = revision + 1 /\ pc[p] = "publishing"
    BY <1>2 DEF Publish
  <2>2. revision' # 0
    BY <2>1 DEF TypeOK
  <2>3. PICK t \in existed : Between(p, t)
    BY <2>1 DEF Consumes, Building, Selecting
  <2>4. \A f \in Packs : t[f] = build[p].capture[f]
    BY <2>1, <2>3 DEF Consumes, Between, Selecting
  <2>5. Committed(p)
    BY <2>1 DEF Captures
  <2>6. QED
    BY <1>1, <2>1, <2>2, <2>4, <2>5
       DEF Published, PublishedSourceExisted, RecordedRevisionIsPublished, Committed
<1>3. CASE Convert(p)
  <2>1. Class(p) = "projections"
    BY <1>3 DEF Convert, Control, Planning
  <2>2. revision > 0
    <3>1. revision # 0
      BY <2>1 DEF Class
    <3>2. QED
      BY <3>1 DEF TypeOK
  <2>3. /\ reference'.source = reference.source /\ reference'.commit = reference.commit
        /\ revision' = revision + 1
    BY <1>3 DEF Convert, TypeOK, References
  <2>4. revision' # 0
    BY <2>3 DEF TypeOK
  <2>5. QED
    BY <1>1, <2>2, <2>3, <2>4 DEF Published, PublishedSourceExisted, RecordedRevisionIsPublished
<1>4. CASE UNCHANGED <<revision, reference>>
  BY <1>1, <1>4 DEF Published, PublishedSourceExisted, RecordedRevisionIsPublished
<1>5. QED
  BY <1>2, <1>3, <1>4, ReferenceSteps

-----------------------------------------------------------------------------
(* The invariant is inductive.                                             *)

\* The parts of the invariant about one process.
Holds(p) == Control(p) /\ Captures(p) /\ Consumes(p) /\ Fresh(p) /\ Keeping(p) /\ Counted(p)

\* Nobody has started.
LEMMA Initially == Init => IndInv
<1> SUFFICES ASSUME Init
             PROVE  IndInv
  OBVIOUS
<1>1. 0 \in 0..MaxVersion /\ 1 \in 0..MaxVersion
  BY BoundAssumption
<1>2. source \in Trees /\ existed \subseteq Trees /\ Unread \in Trees
  BY <1>1 DEF Init, Trees, Unread
<1>3. reference \in References
  BY <1>1, <1>2 DEF Init, References, Absent
<1>4. build \in [Processes -> Builds]
  BY NoBuild DEF Init
<1>5. TypeOK
  BY <1>2, <1>3, <1>4 DEF Init, TypeOK, Locations, Tasks
<1>6. Versions
  BY DEF Init, Versions, Absent, Unread
<1>7. Published
  BY DEF Init, Published, PublishedSourceExisted, RecordedRevisionIsPublished, Absent
<1>8. ASSUME NEW p \in Processes
      PROVE  Holds(p)
  <2>1. pc[p] = "idle" /\ task[p] = "start" /\ job[p] = "build" /\ build[p] = Nothing
    BY DEF Init
  <2>2. Control(p)
    BY <2>1 DEF Control, Located, Owned, Owning, Planned, Planning, Gathering, Building, Selecting,
                Rebuilds
  <2>3. Captures(p)
    BY <2>1 DEF Captures, Committed, Init, Nothing, Unread
  <2>4. Consumes(p) /\ Fresh(p) /\ Keeping(p) /\ Counted(p)
    BY <2>1 DEF Consumes, Fresh, Keeping, Counted, Building, Selecting, Nothing
  <2>5. QED
    BY <2>2, <2>3, <2>4 DEF Holds
<1>9. QED
  BY <1>5, <1>6, <1>7, <1>8 DEF IndInv, Holds

\* Another job does not disturb what is known of one.
LEMMA OthersHold ==
  ASSUME TypeOK, TypeOK', Versions, NEW p \in Processes, Acts(p), Holds(p),
         NEW q \in Processes, q # p, Holds(q)
  PROVE  Holds(q)'
<1>1. pc'[q] = pc[q] /\ task'[q] = task[q] /\ job'[q] = job[q] /\ build'[q] = build[q]
  BY OthersStay
<1>2. UNCHANGED <<source, existed>>
  BY WorkspaceSteps
<1>3. \A f \in Files : source[f] <= source'[f]
  BY <1>2, BoundAssumption DEF TypeOK, Trees
<1>4. pc[q] \in Building => UNCHANGED workspace
  <2>1. pc[q] \in Building => Owning(q)
    BY DEF Owning, Building, Selecting
  <2>2. QED
    BY <2>1, OwnersAlone DEF Holds, Control
<1>5. Control(q)'
  BY ControlOfOthers DEF Holds
<1>6. Captures(q)'
  BY <1>1, <1>3, CapturesStay DEF Holds
<1>7. Consumes(q)'
  <2>1. pc'[q] \in Building => UNCHANGED reference
    BY <1>1, <1>4 DEF workspace
  <2>2. QED
    BY <1>1, <1>2, <1>3, <2>1, ConsumesStay DEF Holds
<1>8. Fresh(q)'
  <2>1. \A f \in Packs : reference.source[f] <= reference'.source[f]
    BY PacksGrow DEF Holds
  <2>2. QED
    BY <1>1, <2>1, FreshStays DEF Holds
<1>9. Keeping(q)'
  BY <1>1, <1>4 DEF Holds, Keeping, Keeps, Building, workspace
<1>10. Counted(q)'
  BY <1>1, <1>4 DEF Holds, Counted, Rebuilds, Building, Selecting, workspace
<1>11. QED
  BY <1>5, <1>6, <1>7, <1>8, <1>9, <1>10 DEF Holds

\* A step of a process keeps the invariant.
LEMMA ActsKeep ==
  ASSUME IndInv, NEW p \in Processes, Acts(p)
  PROVE  IndInv'
<1>1. TypeOK /\ Versions /\ Published /\ \A q \in Processes : Holds(q)
  BY DEF IndInv, Holds
<1>2. TypeOK'
  BY <1>1, ActsTyped
<1>3. Versions'
  BY <1>1, <1>2, VersionsByActor DEF Holds
<1>4. Published'
  BY <1>1, <1>2, PublishedByActor DEF Holds
<1>5. Holds(p)'
  <2>1. /\ Control(p) /\ Captures(p) /\ Consumes(p) /\ Fresh(p) /\ Keeping(p) /\ Counted(p)
        /\ Located(p)
    BY <1>1 DEF Holds, Control
  <2>2. Control(p)'
    BY <1>1, <1>2, <2>1, ControlOfActor
  <2>3. Captures(p)'
    BY <1>1, <1>2, <2>1, CapturesOfActor
  <2>4. Consumes(p)'
    BY <1>1, <1>2, <2>1, ConsumesOfActor
  <2>5. Fresh(p)'
    BY <1>1, <1>2, <2>1, FreshOfActor
  <2>6. Keeping(p)'
    BY <1>1, <1>2, <2>1, KeepingOfActor
  <2>7. Counted(p)'
    BY <1>1, <1>2, <2>1, CountedOfActor
  <2>8. QED
    BY <2>2, <2>3, <2>4, <2>5, <2>6, <2>7 DEF Holds
<1>6. ASSUME NEW q \in Processes, q # p
      PROVE  Holds(q)'
  BY <1>1, <1>2, <1>6, OthersHold
<1>7. \A q \in Processes : Holds(q)'
  BY <1>5, <1>6
<1>8. QED
  BY <1>2, <1>3, <1>4, <1>7 DEF IndInv, Holds

\* An edit of the checkout keeps the invariant.
LEMMA EditKeeps ==
  ASSUME IndInv, NEW f \in Files, Edit(f)
  PROVE  IndInv'
<1>1. TypeOK /\ Versions /\ Published /\ \A q \in Processes : Holds(q)
  BY DEF IndInv, Holds
<1>2. TypeOK'
  BY <1>1, EditTyped
<1>3. Versions' /\ existed \subseteq existed' /\ \A g \in Files : source[g] <= source'[g]
  BY <1>1, <1>2, VersionsByEdit
<1>4. UNCHANGED <<revision, reference, values, pending, request, marker, owner, pc, task, job,
                  build>>
  BY DEF Edit, workspace
<1>5. Published'
  BY <1>1, <1>3, <1>4 DEF Published, PublishedSourceExisted, RecordedRevisionIsPublished
<1>6. ASSUME NEW q \in Processes
      PROVE  Holds(q)'
  <2>1. /\ Control(q) /\ Captures(q) /\ Consumes(q) /\ Fresh(q) /\ Keeping(q) /\ Counted(q)
        /\ pc'[q] = pc[q] /\ task'[q] = task[q] /\ job'[q] = job[q] /\ build'[q] = build[q]
    BY <1>1, <1>4 DEF Holds
  <2>2. Control(q)'
    BY <1>4, <2>1 DEF Control, Located, Owned, Owning, Planned, Planning, Class, Rebuilds
  <2>3. Captures(q)'
    BY <1>1, <1>2, <1>3, <2>1, CapturesStay
  <2>4. Consumes(q)'
    BY <1>1, <1>2, <1>3, <1>4, <2>1, ConsumesStay
  <2>5. Fresh(q)'
    BY <1>4, <2>1 DEF Fresh
  <2>6. Keeping(q)' /\ Counted(q)'
    BY <1>4, <2>1 DEF Keeping, Keeps, Counted, Rebuilds
  <2>7. QED
    BY <2>2, <2>3, <2>4, <2>5, <2>6 DEF Holds
<1>7. QED
  BY <1>2, <1>3, <1>5, <1>6 DEF IndInv, Holds

\* Nothing changes in a stuttering step.
LEMMA StutterKeeps ==
  ASSUME IndInv, UNCHANGED vars
  PROVE  IndInv'
BY DEF IndInv, vars, tree, workspace, bounds, TypeOK, Versions, Published, PublishedSourceExisted,
       RecordedRevisionIsPublished, Control, Located, Owned, Owning, Planned, Planning, Class,
       Captures, Committed, Around, Captured, Consumes, Between, Fresh, Keeping, Keeps, Counted,
       Rebuilds

\* The induction step.
LEMMA NextKeeps == IndInv /\ [Next]_vars => IndInv'
<1> SUFFICES ASSUME IndInv, [Next]_vars
             PROVE  IndInv'
  OBVIOUS
<1>1. CASE \E p \in Processes : Acts(p)
  BY <1>1, ActsKeep
<1>2. CASE \E f \in Files : Edit(f)
  BY <1>2, EditKeeps
<1>3. CASE UNCHANGED vars
  BY <1>3, StutterKeeps
<1>4. QED
  BY <1>1, <1>2, <1>3 DEF Next, Acts

\* The invariant holds in every state.
THEOREM InductiveInvariant == Spec => []IndInv
BY Initially, NextKeeps, PTL DEF Spec

-----------------------------------------------------------------------------
(* What follows.                                                           *)

\* The types of the variables.
THEOREM TypesHold == Spec => []TypeOK
<1>1. IndInv => TypeOK
  BY DEF IndInv
<1>2. QED
  BY <1>1, InductiveInvariant, PTL

\* However files are edited between their capture, their consumption and the
\* publication (source_fingerprint.rs:167): the packs of the published reference were
\* in the checkout together.
THEOREM PacksWereTogether == Spec => []PublishedSourceExisted
<1>1. IndInv => PublishedSourceExisted
  BY DEF IndInv, Published
<1>2. QED
  BY <1>1, InductiveInvariant, PTL

\* A recorded commit (build.rs:90) is the version of every file of the reference.
THEOREM CommitsAreExact == Spec => []RecordedRevisionIsPublished
<1>1. IndInv => RecordedRevisionIsPublished
  BY DEF IndInv, Published
<1>2. QED
  BY <1>1, InductiveInvariant, PTL

\* What a setup judged fresh without a lock (setup.rs:235) stays fresh while it goes on,
\* whatever other processes publish.
THEOREM JudgementsStayFresh == Spec => []SetupsAreFresh
<1>1. IndInv => SetupsAreFresh
  BY DEF IndInv, Fresh, SetupsAreFresh
<1>2. QED
  BY <1>1, InductiveInvariant, PTL

\* The count a build keeps by hand (prepared_publication.rs:405) is what the recovery
\* cache holds, and within its cap outside of a batch.
THEOREM CacheIsCounted == Spec => []CacheAccounted
<1>1. IndInv => CacheAccounted
  BY DEF IndInv, Counted, CacheAccounted, Selecting, TypeOK
<1>2. QED
  BY <1>1, InductiveInvariant, PTL

\* A published value that a build selected and left in place (native_values.rs:230) is
\* still published when it needs it.
THEOREM SelectionsStayPublished == Spec => []SelectionsAreKept
<1>1. IndInv => SelectionsAreKept
  BY DEF IndInv, Keeping, SelectionsAreKept, Selecting
<1>2. QED
  BY <1>1, InductiveInvariant, PTL

\* A publication has exactly the profiles of the stored request (build.rs:177), also of
\* one that others extended since the build was configured.
THEOREM PublicationsAnswerTheRequest == Spec => PublishedAsRequested
<1> DEFINE A == \A p \in Processes :
                  pc[p] = "publishing" /\ revision' # revision => reference'.profiles = request
<1>1. IndInv /\ [Next]_vars => [A]_vars
  <2> SUFFICES ASSUME IndInv, Next, NEW p \in Processes, pc[p] = "publishing",
                      revision' # revision
               PROVE  reference'.profiles = request
    OBVIOUS
  <2>1. PICK q \in Processes : Acts(q)
    BY DEF Next, Acts, Edit, workspace
  <2>2. q = p
    BY <2>1, OwnersAlone DEF IndInv, Control, Owning, workspace
  <2>3. Publish(p)
    BY <2>1, <2>2, ReferenceSteps DEF Convert
  <2>4. QED
    BY <2>3 DEF Publish, IndInv, Control, Planned, Building, Selecting
<1>2. QED
  BY <1>1, InductiveInvariant, PTL DEF Spec, PublishedAsRequested

\* No configuration, by whatever processes and however it ends, takes a profile out of
\* the stored request (runtime.rs:101).
THEOREM RequestsNeverShrink == Spec => RequestsOnlyGrow
<1>1. IndInv /\ [Next]_vars => [request \subseteq request']_vars
  <2> SUFFICES ASSUME IndInv, Next
               PROVE  request \subseteq request'
    OBVIOUS
  <2>1. CASE \E f \in Files : Edit(f)
    BY <2>1 DEF Edit, workspace
  <2>2. CASE \E p \in Processes : Acts(p)
    <3>1. PICK p \in Processes : Acts(p)
      BY <2>2
    <3>2. SaveRequest(p) => request \subseteq request'
      BY DEF SaveRequest, IndInv, Control, Planned
    <3>3. request' = request \/ SaveRequest(p)
      BY <3>1, WorkspaceSteps DEF workspace, Recover, Mark, Convert, Evict, Checkpoint, Publish,
                                  Reclaim, Vacuum
    <3>4. QED
      BY <3>2, <3>3
  <2>3. QED
    BY <2>1, <2>2 DEF Next, Acts
<1>2. QED
  BY <1>1, InductiveInvariant, PTL DEF Spec, RequestsOnlyGrow

\* No publication or conversion puts older packs over newer ones, and only an explicit
\* rebuild takes back a preparation policy or the version of the derived projections.
THEOREM NothingGoesBack == Spec => ReferencesDoNotGoBack
<1> DEFINE Packs1 == \A f \in Packs : reference.source[f] <= reference'.source[f]
           Policy == reference.prep <= reference'.prep
                       /\ (reference.prep = reference'.prep =>
                             reference.derived <= reference'.derived)
           A == Packs1 /\ ((\A p \in owner : ~Rebuilds(p)) => Policy)
<1>1. IndInv /\ [Next]_vars => [A]_vars
  <2> SUFFICES ASSUME IndInv, Next
               PROVE  A
    OBVIOUS
  <2>1. /\ reference.prep \in Nat /\ reference.derived \in Nat
        /\ \A f \in Packs : reference.source[f] \in Nat
    BY BoundAssumption DEF IndInv, TypeOK, References, Trees, Packs
  <2>2. CASE UNCHANGED reference
    BY <2>1, <2>2
  <2>3. CASE \E p \in Processes : Acts(p) /\ (Publish(p) \/ Convert(p))
    <3>1. PICK p \in Processes : Acts(p) /\ (Publish(p) \/ Convert(p))
      BY <2>3
    <3>2. Packs1
      BY <3>1, PacksGrow DEF IndInv
    <3>3. Prep[p] \in Nat /\ Derived[p] \in Nat
      BY ProcessAssumption
    <3>4. ASSUME \A q \in owner : ~Rebuilds(q)
          PROVE  Policy
      <4>1. CASE Publish(p)
        <5>1. owner = {p}
          BY <4>1 DEF IndInv, Control, Owned, Owning, Publish
        <5>2. Class(p) # "unsupported"
          BY <3>4, <4>1, <5>1 DEF Publish, Knows
        <5>3. reference'.prep = Prep[p] /\ reference'.derived = Derived[p]
          BY <4>1 DEF Publish
        <5>4. CASE revision = 0
          BY <3>3, <5>3, <5>4 DEF IndInv, Published, Absent
        <5>5. CASE revision # 0
          BY <2>1, <3>3, <5>2, <5>3, <5>5 DEF Class
        <5>6. QED
          BY <5>4, <5>5
      <4>2. CASE Convert(p)
        <5>1. Class(p) = "projections"
          BY <4>2 DEF Convert, IndInv, Control, Planning
        <5>2. reference'.prep = reference.prep /\ reference'.derived = Derived[p]
          BY <4>2 DEF Convert, IndInv, TypeOK, References
        <5>3. reference.derived < Derived[p]
          BY <5>1 DEF Class
        <5>4. QED
          BY <2>1, <3>3, <5>2, <5>3
      <4>3. QED
        BY <3>1, <4>1, <4>2
    <3>5. QED
      BY <3>2, <3>4
  <2>4. QED
    BY <2>2, <2>3, ReferenceSteps DEF Next, Acts, Edit, workspace
<1>2. QED
  BY <1>1, InductiveInvariant, PTL DEF Spec, ReferencesDoNotGoBack
=============================================================================
