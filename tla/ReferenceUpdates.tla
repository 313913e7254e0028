-------------------------- MODULE ReferenceUpdates --------------------------
(***************************************************************************)
(* How the reference data of a workspace is brought up to date: the jobs   *)
(* of atlas-runtime (setup, a direct build, a rebuild, the upgrade at      *)
(* service start) over the build of atlas-ingest and the publication of    *)
(* atlas-index, run by several processes over one workspace while the      *)
(* source checkout is edited.                                              *)
(*                                                                         *)
(* A session of the workspace is one step here: module Workspace models    *)
(* what happens inside it.  Between two sessions of a job everything else  *)
(* may happen, also the death of its process.  The update lock is taken    *)
(* and given back by steps of their own.                                   *)
(*                                                                         *)
(* The source is a set of files with versions; an edit gives a file a      *)
(* version it never had.  A version of a file is one native input for each *)
(* search profile; its vector and its rows are determined by the input.    *)
(***************************************************************************)
EXTENDS Integers, FiniteSets

CONSTANTS
  Processes,
  Jobs,         \* what each process may run: setup, build, rebuild, start
  Want,         \* the profiles a setup or build of each process asks for
  Prep,         \* the source preparation policy of each executable
  Derived,      \* the version of its derived projections
  Newest,       \* the processes with the newest executable
  Files,        \* the files of the source
  Manifest,     \* the one that declares the others
  Profiles,
  CacheLimit,   \* inferred values the recovery cache may keep
  Window,       \* inputs selected at a time
  MaxVersion, MaxCalls, MaxStops   \* bounds of the model: edits of a file, calls
                \*   other than starts of a newest executable, stops of a process

Tasks == {"setup", "build", "rebuild", "start"}
Packs == Files \ {Manifest}
Trees == [Files -> 0..MaxVersion]
Unread == [f \in Files |-> 0]
Inputs == Profiles \X Packs \X (0..MaxVersion)

References == [source : Trees, commit : 0..MaxVersion, profiles : SUBSET Profiles,
               prep : Nat, derived : Nat]

Absent == [source |-> Unread, commit |-> 0, profiles |-> {}, prep |-> 0, derived |-> 0]

\* What a process knows of the build it runs.
Builds == [plan : SUBSET Profiles, capture : Trees, commit : 0..MaxVersion,
           verified : SUBSET Files, bound : Nat, cache : Int,
           missing : SUBSET Inputs, staged : SUBSET Inputs, kept : SUBSET Inputs]

Nothing == [plan |-> {}, capture |-> Unread, commit |-> 0, verified |-> {}, bound |-> 0,
            cache |-> 0, missing |-> {}, staged |-> {}, kept |-> {}]

ASSUME ProcessAssumption ==
  /\ Jobs \in [Processes -> SUBSET Tasks] /\ Newest \subseteq Processes
  /\ Want \in [Processes -> SUBSET Profiles \ {{}}]
  /\ Prep \in [Processes -> Nat \ {0}] /\ Derived \in [Processes -> Nat \ {0}]

ASSUME SourceAssumption ==
  IsFiniteSet(Files) /\ IsFiniteSet(Profiles) /\ Manifest \in Files /\ Packs # {}

ASSUME BoundAssumption ==
  /\ CacheLimit \in Nat /\ Window \in Nat \ {0} /\ MaxVersion \in Nat \ {0}
  /\ MaxCalls \in Nat /\ MaxStops \in Nat

VARIABLES
  source,     \* the checkout: the version each file has
  existed,    \* history: the trees the checkout has been
  revision,   \* of the reference in the workspace, 0 before the first
  reference,  \* the published reference: its context and what it was built from
  values,     \* inputs with a published vector
  pending,    \* the recovery cache: inferred inputs not published yet
  request,    \* the stored request: the profiles to build, none yet when empty
  marker,     \* the durable maintenance marker
  owner,      \* the process that holds the update lock
  pc, task, job,
  build,      \* what each process keeps of its build:
              \*   plan, the profiles; capture, the version of each file it read;
              \*   commit, the clean commit it saw; verified, the files it consumed;
              \*   bound, the revision it publishes over; cache, its cache_bytes;
              \*   missing, inputs to infer; staged, selected values it holds;
              \*   kept, selected values it leaves where they are published
  calls, stops

workspace == <<revision, reference, values, pending, request, marker>>
tree == <<source, existed>>
bounds == <<calls, stops>>
vars == <<tree, workspace, owner, pc, task, job, build, bounds>>

Locations ==
  {"idle", "locking", "recovering", "asking", "checking", "saving", "capturing",
   "resolving", "reading", "comparing", "confirming", "judging", "looking",
   "marking", "planning", "converting", "opening", "reopening", "binding", "preparing",
   "evicting", "selecting", "inferring", "remembering", "publishing",
   "reclaiming", "vacuuming"}

TypeOK ==
  /\ source \in Trees /\ existed \subseteq Trees
  /\ revision \in Nat /\ reference \in References
  /\ values \subseteq Inputs /\ pending \subseteq Inputs
  /\ request \subseteq Profiles /\ marker \in BOOLEAN /\ owner \subseteq Processes
  /\ pc \in [Processes -> Locations] /\ task \in [Processes -> Tasks]
  /\ job \in [Processes -> {"configure", "build", "upgrade", "reclaim"}]
  /\ build \in [Processes -> Builds]
  /\ calls \in Nat /\ stops \in Nat

Init ==
  /\ source = [f \in Files |-> 1] /\ existed = {source}
  /\ revision = 0 /\ reference = Absent
  /\ values = {} /\ pending = {} /\ request = {} /\ marker = FALSE
  /\ owner = {} /\ pc = [p \in Processes |-> "idle"]
  /\ task = [p \in Processes |-> "start"] /\ job = [p \in Processes |-> "build"]
  /\ build = [p \in Processes |-> Nothing]
  /\ calls = 0 /\ stops = 0

Goto(p, where) == pc' = [pc EXCEPT ![p] = where] /\ UNCHANGED <<task, job>>

LockFor(p, what) ==
  pc' = [pc EXCEPT ![p] = "locking"] /\ job' = [job EXCEPT ![p] = what] /\ UNCHANGED task

Rebuilds(p) == task[p] = "rebuild"

-----------------------------------------------------------------------------
(* What an executable makes of the stored reference.                       *)

\* Mutant: an older executable takes what it does not know for its own.
ClassUnchecked(p) ==
  IF revision = 0 THEN "current"
  ELSE IF reference.prep < Prep[p] THEN "source"
  ELSE IF reference.derived < Derived[p] THEN "projections" ELSE "current"

\* classify_reference_upgrade
Class(p) ==
  IF revision = 0 THEN "current"
  ELSE IF reference.prep > Prep[p] \/ reference.derived > Derived[p] THEN "unsupported"
  ELSE IF reference.prep < Prep[p] THEN "source"
  ELSE IF reference.derived < Derived[p] THEN "projections" ELSE "current"

\* open_workspace_index: an admitted session and the current component versions.
Opens(p) == ~marker /\ revision > 0 /\ Class(p) = "current"

\* Mutant: a setup does not compare the source.
NeedsNoSource(p) ==
  \/ marker \/ revision = 0 \/ Class(p) \in {"unsupported", "source"}
  \/ reference.profiles # build[p].plan

\* The checks of ensure_setup that ask for a build from source.
NeedsBuild(p) ==
  \/ marker \/ revision = 0 \/ Class(p) \in {"unsupported", "source"}
  \/ reference.source # build[p].capture \/ reference.profiles # build[p].plan

-----------------------------------------------------------------------------
(* Calls and the update lock.                                              *)

\* A job returns, with an answer or an error: the lock and the build are dropped.
End(p) ==
  /\ Goto(p, "idle")
  /\ owner' = owner \ {p}
  /\ build' = [build EXCEPT ![p] = Nothing]

\* After an upgrade a start returns and a setup opens the index.
EndUpgrade(p) ==
  IF task[p] = "setup"
    THEN Goto(p, "opening") /\ owner' = owner \ {p} /\ UNCHANGED build
    ELSE End(p)

Call(p) ==
  /\ pc[p] = "idle"
  /\ \E what \in Jobs[p] :
       /\ task' = [task EXCEPT ![p] = what]
       /\ pc' = [pc EXCEPT ![p] = IF what = "start" THEN "looking" ELSE "locking"]
       /\ job' = [job EXCEPT ![p] = IF what = "rebuild" THEN "build" ELSE "configure"]
       /\ IF what = "start" /\ p \in Newest
            THEN UNCHANGED calls ELSE calls < MaxCalls /\ calls' = calls + 1
  /\ UNCHANGED <<tree, workspace, owner, build, stops>>

\* Mutant: whoever asks for the lock has it.
AnyoneMay == TRUE

Free == owner = {}

Lock(p) ==
  /\ pc[p] = "locking" /\ Free
  /\ owner' = {p}
  /\ Goto(p, CASE job[p] = "upgrade" -> "marking"
               [] Rebuilds(p) -> "asking"
               [] OTHER -> "recovering")
  /\ UNCHANGED <<tree, workspace, build, bounds>>

LockBusy(p) ==
  /\ pc[p] = "locking" /\ ~Free
  /\ End(p)
  /\ UNCHANGED <<tree, workspace, bounds>>

\* Mutant: an upgrade that finds nothing to do leaves its marker.
LeftMarker(p) == marker /\ job[p] = "upgrade"

RecoveredMarker(p) == FALSE

\* recover_reference_publication validates a reference this executable knows and
\* clears the marker; without one it does nothing.
Recover(p) ==
  /\ pc[p] = "recovering"
  /\ marker => Class(p) # "unsupported"
  /\ marker' = RecoveredMarker(p)
  /\ IF job[p] = "upgrade"
       THEN EndUpgrade(p)
       ELSE /\ Goto(p, CASE job[p] = "configure" -> "asking"
                         [] job[p] = "build" -> "checking"
                         [] OTHER -> "reclaiming")
            /\ UNCHANGED <<owner, build>>
  /\ UNCHANGED <<tree, revision, reference, values, pending, request, bounds>>

-----------------------------------------------------------------------------
(* The stored request.                                                     *)

\* resolve_configuration adds to the stored profiles; a rebuild takes them.
Requested(p) == IF Rebuilds(p) THEN request ELSE request \cup Want[p]

Ask(p) ==
  /\ pc[p] = "asking" /\ ~marker
  /\ Rebuilds(p) => request # {}
  /\ build' = [build EXCEPT ![p].plan = Requested(p)]
  /\ Goto(p, IF Rebuilds(p) THEN "capturing" ELSE "saving")
  /\ UNCHANGED <<tree, workspace, owner, bounds>>

\* Mutant: a build does not compare its request with the stored one.
AnyRequest(p) == TRUE

\* begin_build refuses a request that was changed since it was resolved.
Unchanged(p) == request = {} \/ request = build[p].plan

CheckRequest(p) ==
  /\ pc[p] = "checking" /\ ~marker /\ Unchanged(p)
  /\ Goto(p, "saving")
  /\ UNCHANGED <<tree, workspace, owner, build, bounds>>

\* The request is committed by a session of its own.  A configuration gives the
\* lock back; a build goes on under it.
SaveRequest(p) ==
  /\ pc[p] = "saving" /\ ~marker
  /\ request' = build[p].plan
  /\ IF job[p] = "configure"
       THEN /\ owner' = {}
            /\ IF task[p] = "setup" THEN Goto(p, "capturing") ELSE LockFor(p, "build")
       ELSE /\ Goto(p, IF task[p] = "setup" THEN "binding" ELSE "capturing")
            /\ UNCHANGED owner
  /\ UNCHANGED <<tree, revision, reference, values, pending, marker, build, bounds>>

-----------------------------------------------------------------------------
(* The capture of the source, and what setup does with it.                 *)

\* source_git_commit_if_clean asks git twice: for changes, then for HEAD, which an
\* update of the checkout moves after the files.
Clean == \A f, g \in Files : source[f] = source[g]

Head == CHOOSE v \in 1..MaxVersion :
          /\ \A f \in Files : v <= source[f]
          /\ \E f \in Files : v = source[f]

Capture(p) ==
  /\ pc[p] = "capturing"
  /\ build' = [build EXCEPT ![p].capture = Unread, ![p].commit = 0]
  /\ Goto(p, IF Clean THEN "resolving" ELSE "reading")
  /\ UNCHANGED <<tree, workspace, owner, bounds>>

Resolve(p) ==
  /\ pc[p] = "resolving"
  /\ build' = [build EXCEPT ![p].commit = Head]
  /\ Goto(p, "reading")
  /\ UNCHANGED <<tree, workspace, owner, bounds>>

\* The manifest names the other files and is read first.
Read(p) ==
  /\ pc[p] = "reading"
  /\ \E f \in Files :
       /\ build[p].capture[f] = 0
       /\ f # Manifest => build[p].capture[Manifest] # 0
       /\ build' = [build EXCEPT ![p].capture[f] = source[f]]
  /\ UNCHANGED <<tree, workspace, owner, pc, task, job, bounds>>

Captured(p) == \A f \in Files : build[p].capture[f] # 0

EndRead(p) ==
  /\ pc[p] = "reading" /\ Captured(p)
  /\ Goto(p, "comparing")
  /\ UNCHANGED <<tree, workspace, owner, build, bounds>>

AfterCapture(p) == Goto(p, IF task[p] = "setup" THEN "judging" ELSE "binding")

\* The commit is kept when the checkout is clean again, and HEAD the same.
Compare(p) ==
  /\ pc[p] = "comparing"
  /\ IF build[p].commit # 0 /\ Clean
       THEN Goto(p, "confirming") /\ UNCHANGED build
       ELSE AfterCapture(p) /\ build' = [build EXCEPT ![p].commit = 0]
  /\ UNCHANGED <<tree, workspace, owner, bounds>>

\* Mutant: the commit is taken from after the capture.
CommitAfter(p) == Head

CommitAround(p) == IF Head = build[p].commit THEN Head ELSE 0

Confirm(p) ==
  /\ pc[p] = "confirming"
  /\ build' = [build EXCEPT ![p].commit = CommitAround(p)]
  /\ AfterCapture(p)
  /\ UNCHANGED <<tree, workspace, owner, bounds>>

\* A setup builds, brings derived projections up to date, or goes on to its
\* second look.
Judge(p) ==
  /\ pc[p] = "judging"
  /\ IF NeedsBuild(p) THEN LockFor(p, "build")
       ELSE Goto(p, IF Class(p) = "projections" THEN "looking" ELSE "opening")
  /\ UNCHANGED <<tree, workspace, owner, build, bounds>>

\* The index is opened twice: as it is, and for the profiles that it stores.
Open(p) ==
  /\ pc[p] \in {"opening", "reopening"}
  /\ CASE ~Opens(p) -> LockFor(p, "build")
       [] Opens(p) /\ pc[p] = "opening" -> Goto(p, "reopening")
       [] OTHER -> LockFor(p, IF reference.profiles = build[p].plan THEN "reclaim" ELSE "build")
  /\ UNCHANGED <<tree, workspace, owner, build, bounds>>

-----------------------------------------------------------------------------
(* The upgrade of derived projections, ensure_reference_projections.       *)

\* The fast path admits ordinary sessions when there is nothing to do.
Look(p) ==
  /\ pc[p] = "looking"
  /\ CASE marker \/ Class(p) = "projections" ->
            LockFor(p, "upgrade") /\ UNCHANGED <<owner, build>>
       [] ~marker /\ Class(p) = "unsupported" -> End(p)
       [] OTHER -> EndUpgrade(p)
  /\ UNCHANGED <<tree, workspace, bounds>>

Mark(p) ==
  /\ pc[p] = "marking"
  /\ marker' = TRUE
  /\ Goto(p, "planning")
  /\ UNCHANGED <<tree, revision, reference, values, pending, request, owner, build, bounds>>

\* What was seen may be gone: another executable upgraded first, or published a
\* reference this one does not know, and then the marker stays.
Plan(p) ==
  /\ pc[p] = "planning"
  /\ IF Class(p) = "unsupported" THEN End(p)
       ELSE /\ Goto(p, IF Class(p) = "projections" THEN "converting" ELSE "recovering")
            /\ UNCHANGED <<owner, build>>
  /\ UNCHANGED <<tree, workspace, bounds>>

\* One transaction regenerates the rows, validates them and clears the marker.
Convert(p) ==
  /\ pc[p] = "converting"
  /\ reference' = [reference EXCEPT !.derived = Derived[p]]
  /\ revision' = revision + 1 /\ marker' = FALSE
  /\ EndUpgrade(p)
  /\ UNCHANGED <<tree, values, pending, request, bounds>>

-----------------------------------------------------------------------------
(* Preparation of a build: bound to one revision, it consumes each file of *)
(* the capture once.                                                       *)

Knows(p) == Rebuilds(p) \/ Class(p) # "unsupported"

\* A build over an unknown source contract goes on without reuse, to be refused
\* at its publication; over other policies it does not know it is refused here.
Bind(p) ==
  /\ pc[p] = "binding" /\ ~marker
  /\ build' = [build EXCEPT ![p].bound = revision, ![p].verified = {}]
  /\ Goto(p, "preparing")
  /\ UNCHANGED <<tree, workspace, owner, bounds>>

\* Mutant: bytes are consumed as they are.
AsItIs(p, f) == TRUE

AsCaptured(p, f) == source[f] = build[p].capture[f]

\* read_verified.  The bytes of the manifest are kept since the capture.
Verify(p) ==
  /\ pc[p] = "preparing"
  /\ \E f \in Packs \ build[p].verified :
       /\ AsCaptured(p, f)
       /\ build' = [build EXCEPT ![p].verified = @ \cup {f}]
  /\ UNCHANGED <<tree, workspace, owner, pc, task, job, bounds>>

\* Mutant: what an earlier attempt left in the cache is not counted.
CachedNothing(p) == 0

CachedBefore(p) == IF Rebuilds(p) THEN 0 ELSE Cardinality(pending)

\* PreparedPublication::stage
Stage(p) ==
  /\ pc[p] = "preparing" /\ build[p].verified = Packs
  /\ ~marker /\ revision = build[p].bound
  /\ build' = [build EXCEPT ![p].cache = CachedBefore(p)]
  /\ Goto(p, "evicting")
  /\ UNCHANGED <<tree, workspace, owner, bounds>>

-----------------------------------------------------------------------------
(* Numerical values: an input is selected from the cache or among the      *)
(* published, or it is inferred and checkpointed in the cache.  Selected   *)
(* bytes of the cache are copied to private files, a published value stays *)
(* where it is until the publication.                                      *)

InputsOf(profiles, tree0) == {<<m, f, tree0[f]>> : m \in profiles, f \in Packs}

Needed(p) == InputsOf(build[p].plan, build[p].capture)
Selected(p) == build[p].staged \cup build[p].kept

\* evict_cache drops the oldest values, a batch in each transaction; with a
\* clock of seconds any may be the oldest.
Evict(p) ==
  /\ pc[p] = "evicting"
  /\ IF build[p].cache <= CacheLimit \/ Rebuilds(p)
       THEN /\ Goto(p, "selecting")
            /\ UNCHANGED <<pending, build>>
       ELSE /\ \E gone \in SUBSET pending :
                 /\ pending = {} \/ Cardinality(gone) \in 1..(build[p].cache - CacheLimit)
                 /\ pending' = pending \ gone
                 /\ build' = [build EXCEPT ![p].cache =
                      IF pending = {} THEN 0 ELSE @ - Cardinality(gone)]
            /\ UNCHANGED <<pc, task, job>>
  /\ UNCHANGED <<tree, revision, reference, values, request, marker, owner, bounds>>

\* A window of inputs of one profile, full unless they run out.
Windows(p) ==
  UNION {LET left == {i \in Needed(p) : i[1] = m} \ Selected(p)
         IN  {w \in SUBSET left : w # {} /\ (w = left \/ Cardinality(w) = Window)
                                  /\ Cardinality(w) <= Window}
         : m \in build[p].plan}

\* --no-reuse of a build takes values of the cache only; a rebuild takes none.
Reuse(p) ==
  CASE Rebuilds(p) -> {FALSE} [] task[p] = "setup" -> {TRUE} [] OTHER -> BOOLEAN

Cached(p) == IF Rebuilds(p) THEN {} ELSE pending

Select(p) ==
  /\ pc[p] = "selecting"
  /\ Rebuilds(p) \/ (~marker /\ revision = build[p].bound)
  /\ \E w \in Windows(p), reuse \in Reuse(p) :
       LET there == IF reuse THEN (w \ Cached(p)) \cap values ELSE {}
       IN build' = [build EXCEPT ![p].staged = @ \cup (w \cap Cached(p)),
                                 ![p].kept = @ \cup there,
                                 ![p].missing = w \ (Cached(p) \cup there)]
  /\ Goto(p, "inferring")
  /\ UNCHANGED <<tree, workspace, owner, bounds>>

\* stage_inferred commits the batch to the cache, then remembers it.
Checkpoint(p) ==
  /\ pc[p] = "inferring"
  /\ Rebuilds(p) \/ (~marker /\ revision = build[p].bound)
  /\ IF Rebuilds(p) THEN UNCHANGED <<pending, build>>
       ELSE /\ pending' = pending \cup build[p].missing
            /\ build' = [build EXCEPT ![p].cache =
                 @ + Cardinality(build[p].missing \ pending)]
  /\ Goto(p, "remembering")
  /\ UNCHANGED <<tree, revision, reference, values, request, marker, owner, bounds>>

Remember(p) ==
  /\ pc[p] = "remembering"
  /\ build' = [build EXCEPT ![p].staged = @ \cup build[p].missing, ![p].missing = {}]
  /\ Goto(p, "evicting")
  /\ UNCHANGED <<tree, workspace, owner, bounds>>

Covered(p) ==
  /\ pc[p] = "selecting" /\ Needed(p) \subseteq Selected(p)
  /\ Goto(p, "publishing")
  /\ UNCHANGED <<tree, workspace, owner, build, bounds>>

-----------------------------------------------------------------------------
(* Publication: one transaction over the revision the build was bound to.  *)

Keeps(p) == build[p].kept \subseteq values

Publish(p) ==
  /\ pc[p] = "publishing" /\ ~marker /\ revision = build[p].bound
  /\ Knows(p) /\ Keeps(p)
  /\ reference' = [source |-> build[p].capture, commit |-> build[p].commit,
                   profiles |-> build[p].plan, prep |-> Prep[p], derived |-> Derived[p]]
  /\ values' = Selected(p) /\ pending' = {}
  /\ revision' = revision + 1
  /\ IF Rebuilds(p) THEN End(p) ELSE Goto(p, "reclaiming") /\ UNCHANGED <<owner, build>>
  /\ UNCHANGED <<tree, request, marker, bounds>>

\* reclaim_space, which is skipped for little gain or want of disk space.
Reclaim(p) ==
  /\ pc[p] = "reclaiming" /\ ~marker
  /\ \/ End(p) /\ UNCHANGED marker
     \/ marker' = TRUE /\ Goto(p, "vacuuming") /\ UNCHANGED <<owner, build>>
  /\ UNCHANGED <<tree, revision, reference, values, pending, request, bounds>>

Vacuum(p) ==
  /\ pc[p] = "vacuuming"
  /\ marker' = FALSE
  /\ End(p)
  /\ UNCHANGED <<tree, revision, reference, values, pending, request, bounds>>

-----------------------------------------------------------------------------
(* What goes wrong, and the behaviours.                                    *)

\* What makes a job return an error.
Refused(p) ==
  CASE pc[p] = "recovering" -> marker /\ Class(p) = "unsupported"
    [] pc[p] = "asking" -> marker \/ (Rebuilds(p) /\ request = {})
    [] pc[p] = "checking" -> marker \/ ~Unchanged(p)
    [] pc[p] \in {"saving", "reclaiming"} -> marker
    [] pc[p] = "binding" -> marker \/ ~Knows(p)
    [] pc[p] = "preparing" ->
         \/ \E f \in Packs \ build[p].verified : ~AsCaptured(p, f)
         \/ build[p].verified = Packs /\ (marker \/ revision # build[p].bound)
    [] pc[p] \in {"selecting", "inferring"} ->
         ~Rebuilds(p) /\ (marker \/ revision # build[p].bound)
    [] pc[p] = "publishing" ->
         marker \/ revision # build[p].bound \/ ~Knows(p) \/ ~Keeps(p)
    [] OTHER -> FALSE

Refuse(p) ==
  /\ Refused(p)
  /\ End(p)
  /\ UNCHANGED <<tree, workspace, bounds>>

\* The process dies, or a job fails for a reason of the system.  What is not
\* committed is gone; the system gives the lock back.
Stop(p) ==
  /\ pc[p] # "idle" /\ stops < MaxStops
  /\ stops' = stops + 1
  /\ End(p)
  /\ UNCHANGED <<tree, workspace, calls>>

\* A file of the checkout is replaced; it never gets back an earlier version.
Edit(f) ==
  /\ source[f] < MaxVersion
  /\ source' = [source EXCEPT ![f] = @ + 1]
  /\ existed' = existed \cup {source'}
  /\ UNCHANGED <<workspace, owner, pc, task, job, build, bounds>>

Step(p) ==
  \/ Lock(p) \/ LockBusy(p) \/ Recover(p) \/ Ask(p) \/ CheckRequest(p) \/ SaveRequest(p)
  \/ Capture(p) \/ Resolve(p) \/ Read(p) \/ EndRead(p) \/ Compare(p) \/ Confirm(p)
  \/ Judge(p) \/ Open(p)
  \/ Look(p) \/ Mark(p) \/ Plan(p) \/ Convert(p)
  \/ Bind(p) \/ Verify(p) \/ Stage(p)
  \/ Evict(p) \/ Select(p) \/ Checkpoint(p) \/ Remember(p) \/ Covered(p)
  \/ Publish(p) \/ Reclaim(p) \/ Vacuum(p) \/ Refuse(p)

Next ==
  \/ \E p \in Processes : Call(p) \/ Step(p) \/ Stop(p)
  \/ \E f \in Files : Edit(f)

Spec == Init /\ [][Next]_vars

\* Jobs run to their end, and an executable of the newest version is started
\* again and again.
FairSpec ==
  /\ Spec
  /\ \A p \in Processes : WF_vars(Step(p))
  /\ \A p \in Newest : WF_vars(Call(p))

-----------------------------------------------------------------------------
(* Properties.                                                             *)

\* Where a process has the update lock.
Owning(p) ==
  \/ pc[p] \in {"recovering", "asking", "checking", "saving", "marking", "planning",
                "converting", "binding", "preparing", "evicting", "selecting",
                "inferring", "remembering", "publishing", "reclaiming", "vacuuming"}
  \/ pc[p] \in {"capturing", "resolving", "reading", "comparing", "confirming"} /\ task[p] # "setup"

\* evict_cache (prepared_publication.rs:405) trusts cache_bytes, which is read once
\* and then kept by hand over eviction, checkpoints and whatever an earlier attempt
\* that died left in the cache: it is what the cache holds, and what it holds is
\* within its cap whenever no batch is being written.
CacheAccounted ==
  \A p \in owner :
    ~Rebuilds(p) =>
      /\ pc[p] \in {"evicting", "selecting", "inferring", "remembering", "publishing"}
           => build[p].cache = Cardinality(pending)
      /\ pc[p] \in {"selecting", "inferring", "publishing"}
           => Cardinality(pending) <= CacheLimit

\* A published value that a build selects is left where it is until the
\* publication, across many sessions (native_values.rs:230): nothing takes it
\* away, so install_staged never finds a "published selection changed".
SelectionsAreKept ==
  \A p \in Processes :
    pc[p] \in {"evicting", "selecting", "inferring", "remembering", "publishing"} => Keeps(p)

\* Files are captured and later consumed one by one while the checkout is edited
\* (source_fingerprint.rs:167): the packs of a reference were in the checkout
\* together at some moment.
PublishedSourceExisted ==
  revision > 0 =>
    \E t \in existed : \A f \in Packs : t[f] = reference.source[f]

\* A commit is recorded only when the checkout was clean before and after the
\* capture (build.rs:90): then each file of the reference is that commit's.
RecordedRevisionIsPublished ==
  reference.commit # 0 => \A f \in Files : reference.source[f] = reference.commit

\* ensure_setup judges freshness without a lock and acts on it several sessions
\* later (setup.rs:235): when it goes on without a build, the packs of the
\* reference are still at least those it captured.
SetupsAreFresh ==
  \A p \in Processes :
    (/\ task[p] = "setup"
     /\ pc[p] \in {"looking", "opening", "reopening"} \/ job[p] \in {"upgrade", "reclaim"})
      => \A f \in Packs : reference.source[f] >= build[p].capture[f]

\* Between the configuration of a build and its publication others may ask for
\* more (build.rs:177): what is published is what the stored request says then.
PublishedAsRequested ==
  [][\A p \in Processes :
       pc[p] = "publishing" /\ revision' # revision => reference'.profiles = request]_vars

\* "Repeated model selections add to the configured set; omission never removes
\* one" (runtime.rs:101), by whatever processes and however they end.
RequestsOnlyGrow == [][request \subseteq request']_vars

\* A slow build never puts back older packs over what another process published
\* meanwhile, and only an explicit rebuild takes back a policy.
ReferencesDoNotGoBack ==
  [][/\ \A f \in Packs : reference.source[f] <= reference'.source[f]
     /\ (\A p \in owner : ~Rebuilds(p)) =>
          reference.prep <= reference'.prep
            /\ (reference.prep = reference'.prep => reference.derived <= reference'.derived)]_vars

\* A marker closes the workspace to everyone and outlives its process; it is
\* also left by an older executable that meets a newer reference after marking
\* (component_upgrade.rs:229).  A start of the newest executable gets rid of it.
MarkersAreCleared == marker ~> ~marker
=============================================================================
