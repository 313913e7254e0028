----------------------------- MODULE WebService -----------------------------
(***************************************************************************)
(* A request of the local web service on its way through the threads of    *)
(* the process: the permit and the abandonment of its handler (atlas-web,  *)
(* service.rs), the retrieval queue and its workers (atlas-app-service,    *)
(* executor.rs, read_execution.rs), the two submissions of a text search   *)
(* with the embedding of its query between them (search_pages.rs, the one  *)
(* native lane of atlas-embedding, query_sessions.rs), and a mutation that *)
(* applies what it read from the reference (workflow.rs, operations.rs).   *)
(*                                                                         *)
(* Workspace models the sessions.  Here a session is the revision it reads *)
(* and a publication by another process waits for all of them.             *)
(***************************************************************************)
EXTENDS Integers, FiniteSets, SequencesExt

CONSTANTS
  Requests,       \* HTTP requests, each made once
  Kind,           \* list: one submission; text: two; write: a mutation
  Workers,
  Permits,        \* MAX_BLOCKING_SERVICE_CALLS
  QueueCapacity,  \* DEFAULT_RETRIEVAL_QUEUE_CAPACITY
  Profiles,       \* identities of a stored search profile
  ProfileOf,      \* the one each published revision stores
  MaxRevision     \* bound of the model: publications

Revisions == 0..MaxRevision

ASSUME ServiceAssumption ==
  /\ Kind \in [Requests -> {"list", "text", "write"}]
  /\ Permits \in Nat \ {0} /\ QueueCapacity \in Nat \ {0} /\ MaxRevision \in Nat \ {0}
  /\ IsFiniteSet(Requests) /\ IsFiniteSet(Workers) /\ Workers # {}
  /\ ProfileOf \in [Revisions -> Profiles]

VARIABLES
  revision,  \* of the reference in the workspace
  caller,    \* the handler: none, awaiting its task, or gone
  pc,        \* where the blocking task of a request is
  wanted,    \* its expected generation; 0 is any
  phase,     \* which of its submissions it is at
  prepared,  \* the profile its query is embedded for, if it is
  outcome,   \* how it ended
  seen,      \* the revision of the session that answered it last
  late,      \* history: reads abandoned while they were queued
  queue,     \* submitted jobs
  worker,    \* where each worker is
  job,       \* whose job it runs
  session,   \* the revision its session reads; 0 is no session
  reply,     \* what each task finds in its response channel
  permits,   \* permits that are left
  lane       \* the native lane: free, a request, or poisoned

request == <<caller, pc, wanted, phase, prepared, outcome, seen, late>>
pool == <<queue, worker, job, session, reply>>
vars == <<revision, request, pool, permits, lane>>

Places == {"idle", "submitting", "waiting", "preparing", "lane", "embedding",
           "guarding", "writing", "done"}
Outcomes == {"none", "ok", "cancelled", "busy", "failed"}
WorkerPlaces == {"idle", "checking", "opening", "opened", "running", "dead"}

TypeOK ==
  /\ revision \in Revisions /\ caller \in [Requests -> {"none", "awaiting", "gone"}]
  /\ pc \in [Requests -> Places] /\ wanted \in [Requests -> Revisions]
  /\ phase \in [Requests -> 1..2] /\ prepared \in [Requests -> SUBSET Profiles]
  /\ outcome \in [Requests -> Outcomes] /\ seen \in [Requests -> Revisions]
  /\ late \subseteq Requests
  /\ queue \in Seq(Requests) /\ worker \in [Workers -> WorkerPlaces]
  /\ job \in [Workers -> SUBSET Requests] /\ session \in [Workers -> Revisions]
  /\ reply \in [Requests -> Outcomes] /\ permits \in 0..Permits
  /\ lane \in {"free", "poisoned"} \cup Requests

Init ==
  /\ revision = 1 /\ caller = [r \in Requests |-> "none"]
  /\ pc = [r \in Requests |-> "idle"] /\ wanted = [r \in Requests |-> 0]
  /\ phase = [r \in Requests |-> 1] /\ prepared = [r \in Requests |-> {}]
  /\ outcome = [r \in Requests |-> "none"] /\ seen = [r \in Requests |-> 0]
  /\ late = {}
  /\ queue = <<>> /\ worker = [w \in Workers |-> "idle"]
  /\ job = [w \in Workers |-> {}] /\ session = [w \in Workers |-> 0]
  /\ reply = [r \in Requests |-> "none"] /\ permits = Permits /\ lane = "free"

\* Mutant: a mutation is cancelled with its client as a read is.
AbandonedAny(r) == caller[r] = "gone"

\* ReadExecutionContext: mutations and their reads are not cancellable.
Abandoned(r) == caller[r] = "gone" /\ Kind[r] # "write"

\* The blocking task ends: the permit is returned, its handler answered.
Finish(r, what) ==
  /\ pc' = [pc EXCEPT ![r] = "done"] /\ outcome' = [outcome EXCEPT ![r] = what]
  /\ caller' = [caller EXCEPT ![r] = "none"] /\ permits' = permits + 1
  /\ UNCHANGED <<revision, wanted, phase, prepared, seen, late>>

Goto(r, where) ==
  /\ pc' = [pc EXCEPT ![r] = where]
  /\ UNCHANGED <<caller, wanted, outcome, seen, late>>

-----------------------------------------------------------------------------
(* The handler.                                                            *)

Arrive(r) ==
  /\ pc[r] = "idle"
  /\ \E g \in IF Kind[r] = "write" THEN {0} ELSE 0..revision : wanted' = [wanted EXCEPT ![r] = g]
  /\ IF permits > 0
       THEN /\ permits' = permits - 1 /\ pc' = [pc EXCEPT ![r] = "submitting"]
            /\ caller' = [caller EXCEPT ![r] = "awaiting"] /\ UNCHANGED outcome
       ELSE /\ pc' = [pc EXCEPT ![r] = "done"] /\ outcome' = [outcome EXCEPT ![r] = "busy"]
            /\ UNCHANGED <<permits, caller>>
  /\ UNCHANGED <<revision, phase, prepared, seen, late, pool, lane>>

\* Mutant: the permit belongs to the awaiting handler.
LeaveWithPermit(r) ==
  /\ caller[r] = "awaiting"
  /\ caller' = [caller EXCEPT ![r] = "gone"] /\ permits' = permits + 1
  /\ UNCHANGED <<revision, pc, wanted, phase, prepared, outcome, seen, late, pool, lane>>

\* The awaiting future is dropped; the task keeps its permit.
Leave(r) ==
  /\ caller[r] = "awaiting"
  /\ caller' = [caller EXCEPT ![r] = "gone"]
  /\ late' = IF r \in ToSet(queue) /\ Kind[r] # "write" THEN late \cup {r} ELSE late
  /\ UNCHANGED <<revision, pc, wanted, phase, prepared, outcome, seen, pool, permits, lane>>

-----------------------------------------------------------------------------
(* The blocking task of a request.                                         *)

Alive == {w \in Workers : worker[w] # "dead"}

\* The checks up to try_send, which returns at once: Full is busy, and
\* Disconnected a failure.
Submit(r) ==
  /\ pc[r] = "submitting"
  /\ \/ ~Abandoned(r) /\ Alive # {} /\ Len(queue) < QueueCapacity
        /\ queue' = Append(queue, r) /\ reply' = [reply EXCEPT ![r] = "none"]
        /\ Goto(r, "waiting") /\ UNCHANGED <<revision, phase, prepared, permits>>
     \/ Abandoned(r) /\ Finish(r, "cancelled") /\ UNCHANGED <<queue, reply>>
     \/ ~Abandoned(r) /\ Alive = {} /\ Finish(r, "failed") /\ UNCHANGED <<queue, reply>>
     \/ ~Abandoned(r) /\ Alive # {} /\ Len(queue) = QueueCapacity
        /\ Finish(r, "busy") /\ UNCHANGED <<queue, reply>>
  /\ UNCHANGED <<worker, job, session, lane>>

\* After its first job a text search prepares its query, a mutation goes on
\* to its write session.
Receive(r) ==
  /\ pc[r] = "waiting" /\ reply[r] # "none"
  /\ LET next == CASE Kind[r] = "write" -> "guarding"
                   [] Kind[r] = "text" /\ phase[r] = 1 -> "preparing"
                   [] OTHER -> "done"
     IN  IF reply[r] = "ok" /\ next # "done"
           THEN Goto(r, next) /\ UNCHANGED <<revision, phase, prepared, permits>>
           ELSE Finish(r, reply[r])
  /\ UNCHANGED <<pool, lane>>

\* A lexical search has nothing to prepare.
PrepareNothing(r) ==
  /\ pc[r] = "preparing"
  /\ phase' = [phase EXCEPT ![r] = 2] /\ Goto(r, "submitting")
  /\ UNCHANGED <<revision, prepared, pool, permits, lane>>

\* The profile is read in a session of its own, closed before the inference.
PrepareQuery(r) ==
  /\ pc[r] = "preparing"
  /\ prepared' = [prepared EXCEPT ![r] = {ProfileOf[revision]}] /\ Goto(r, "lane")
  /\ UNCHANGED <<revision, phase, pool, permits, lane>>

EnterLane(r) ==
  /\ pc[r] = "lane" /\ lane = "free"
  /\ lane' = r /\ Goto(r, "embedding")
  /\ UNCHANGED <<revision, phase, prepared, pool, permits>>

Embed(r) ==
  /\ pc[r] = "embedding"
  /\ lane' = "free" /\ phase' = [phase EXCEPT ![r] = 2] /\ Goto(r, "submitting")
  /\ UNCHANGED <<revision, prepared, pool, permits>>

\* A panic under the mutex poisons the lane and ends the task.
EmbedPanics(r) ==
  /\ pc[r] = "embedding"
  /\ lane' = "poisoned" /\ Finish(r, "failed")
  /\ UNCHANGED pool

\* Mutant: what was read is applied whatever was published since.
OpenWriteUnguarded(r) ==
  /\ pc[r] = "guarding"
  /\ Goto(r, "writing")
  /\ UNCHANGED <<revision, phase, prepared, pool, permits, lane>>

\* with_write: require_reference_revision in the write session.
OpenWrite(r) ==
  /\ pc[r] = "guarding" /\ revision = seen[r]
  /\ Goto(r, "writing")
  /\ UNCHANGED <<revision, phase, prepared, pool, permits, lane>>

Commit(r) ==
  /\ pc[r] = "writing"
  /\ Finish(r, "ok")
  /\ UNCHANGED <<pool, lane>>

\* Mutant: a poisoned lane is awaited like a busy one.
TaskFailsElsewhere(r) ==
  /\ pc[r] \in {"preparing", "guarding", "writing", "embedding"}
  /\ lane' = IF pc[r] = "embedding" THEN "free" ELSE lane
  /\ Finish(r, "failed")
  /\ UNCHANGED pool

\* A stale reference, a poisoned lane, an error of the model or a session.
TaskFails(r) ==
  /\ \/ pc[r] \in {"preparing", "guarding", "writing"}
     \/ pc[r] = "lane" /\ lane = "poisoned"
     \/ pc[r] = "embedding"
  /\ lane' = IF pc[r] = "embedding" THEN "free" ELSE lane
  /\ Finish(r, "failed")
  /\ UNCHANGED pool

-----------------------------------------------------------------------------
(* The workers.                                                            *)

At(w, where) == worker' = [worker EXCEPT ![w] = where]

\* One worker at a time waits in recv; it runs the job outside the mutex.
Take(w) ==
  /\ worker[w] = "idle" /\ queue # <<>>
  /\ At(w, "checking") /\ job' = [job EXCEPT ![w] = {Head(queue)}] /\ queue' = Tail(queue)
  /\ UNCHANGED <<revision, request, session, reply, permits, lane>>

\* The session is closed before the reply is sent.
Reply(w, r, what) ==
  /\ reply' = [reply EXCEPT ![r] = what]
  /\ At(w, "idle") /\ job' = [job EXCEPT ![w] = {}] /\ session' = [session EXCEPT ![w] = 0]
  /\ UNCHANGED queue

\* Mutant: the job of a queued read is not checked.
EnterUnchecked(w) ==
  /\ worker[w] = "checking"
  /\ At(w, "opening")
  /\ UNCHANGED <<revision, request, queue, job, session, reply, permits, lane>>

Enter(w) ==
  /\ worker[w] = "checking" /\ \A r \in job[w] : ~Abandoned(r)
  /\ At(w, "opening")
  /\ UNCHANGED <<revision, request, queue, job, session, reply, permits, lane>>

\* Mutant: the model of the query is not compared with the stored one.
AdmitsAny(r) == TRUE

\* from_index: the profile a query was embedded for is the stored one.
Admits(r) == prepared[r] \subseteq {ProfileOf[revision]}

Open(w) ==
  /\ worker[w] = "opening"
  /\ \A r \in job[w] : Admits(r)
  /\ At(w, "opened") /\ session' = [session EXCEPT ![w] = revision]
  /\ UNCHANGED <<revision, request, queue, job, reply, permits, lane>>

Run(w) ==
  /\ worker[w] = "opened" /\ \A r \in job[w] : ~Abandoned(r)
  /\ At(w, "running")
  /\ UNCHANGED <<revision, request, queue, job, session, reply, permits, lane>>

\* The generation is checked in both submissions, in the session that reads.
Answer(w) ==
  /\ worker[w] = "running"
  /\ \E r \in job[w] :
       /\ wanted[r] \in {0, session[w]}
       /\ Reply(w, r, "ok")
       /\ seen' = [seen EXCEPT ![r] = session[w]]
  /\ UNCHANGED <<revision, caller, pc, wanted, phase, prepared, outcome, late, permits, lane>>

\* A checkpoint that finds the read abandoned.
Skip(w) ==
  /\ worker[w] \in {"checking", "opened", "running"}
  /\ \E r \in job[w] : Abandoned(r) /\ Reply(w, r, "cancelled")
  /\ UNCHANGED <<revision, request, permits, lane>>

\* A session is refused, the profile or the generation changed, the query fails.
Refuse(w) ==
  /\ worker[w] \in {"opening", "running"}
  /\ \E r \in job[w] : Reply(w, r, "failed")
  /\ UNCHANGED <<revision, request, permits, lane>>

\* Mutant: the executor keeps the receiver alive.
DroppedWithReceiver(w) == {}

\* The jobs that go with the receiver, which the last worker drops.
DroppedWith(w) == IF Alive = {w} THEN ToSet(queue) ELSE {}

\* A panic in a job ends its worker; no other takes its place.
JobPanics(w) ==
  /\ worker[w] = "running"
  /\ reply' = [r \in Requests |->
                 IF r \in job[w] \cup DroppedWith(w) THEN "failed" ELSE reply[r]]
  /\ queue' = IF DroppedWith(w) = {} THEN queue ELSE <<>>
  /\ At(w, "dead") /\ job' = [job EXCEPT ![w] = {}] /\ session' = [session EXCEPT ![w] = 0]
  /\ UNCHANGED <<revision, request, permits, lane>>

-----------------------------------------------------------------------------
\* Another process publishes when no session is open.
Publish ==
  /\ revision < MaxRevision
  /\ \A w \in Workers : session[w] = 0
  /\ \A r \in Requests : pc[r] # "writing"
  /\ revision' = revision + 1
  /\ UNCHANGED <<request, pool, permits, lane>>

TaskStep(r) ==
  \/ Submit(r) \/ Receive(r) \/ PrepareNothing(r) \/ PrepareQuery(r) \/ EnterLane(r)
  \/ Embed(r) \/ OpenWrite(r) \/ Commit(r) \/ TaskFails(r)

WorkerStep(w) ==
  \/ Take(w) \/ Enter(w) \/ Open(w) \/ Run(w) \/ Answer(w) \/ Skip(w) \/ Refuse(w)

Next ==
  \/ \E r \in Requests : Arrive(r) \/ Leave(r) \/ TaskStep(r) \/ EmbedPanics(r)
  \/ \E w \in Workers : WorkerStep(w) \/ JobPanics(w)
  \/ Publish

Spec == Init /\ [][Next]_vars

\* Threads run; nobody has to arrive, to leave, to publish or to panic.
FairSpec ==
  /\ Spec
  /\ \A r \in Requests : WF_vars(TaskStep(r))
  /\ \A w \in Workers : WF_vars(WorkerStep(w))

-----------------------------------------------------------------------------
\* With no more permits than queue slots a request that got a permit is not
\* refused by the queue, also when handlers leave while their jobs are queued.
QueueNeverRefuses ==
  Permits <= QueueCapacity =>
    \A r \in Requests : pc[r] = "submitting" => Len(queue) < QueueCapacity

\* A page that is answered was read at the generation it was asked for, and
\* ranked with a query embedded for the profile that generation stores,
\* whatever was published between its two submissions.
PagesAreCoherent ==
  \A r \in Requests : outcome[r] = "ok" /\ Kind[r] # "write" =>
    wanted[r] \in {0, seen[r]} /\ prepared[r] \subseteq {ProfileOf[seen[r]]}

\* A mutation is applied to the reference it was derived from.
WritesUseCurrentReference ==
  \A r \in Requests : pc[r] = "writing" => seen[r] = revision

\* A read abandoned in the queue never opens a session (ADR 0049).
AbandonedReadsStop ==
  \A w \in Workers : worker[w] \in {"opening", "opened", "running"} =>
    job[w] \cap late = {}

\* A mutation is not dropped because its client left: wherever the abandonment
\* finds it, from the submission of its read to its own write session, it goes on
\* and ends as it would have for a client that waits.
WritesOutliveTheirClients ==
  \A r \in Requests : Kind[r] = "write" => outcome[r] # "cancelled"

\* A client that leaves stops a read that waits in the queue, and never a mutation:
\* the same check of the worker stands between the two.
AbandonmentIsForReads == AbandonedReadsStop /\ WritesOutliveTheirClients

\* Every task ends and returns its permit, also when jobs panic until no
\* worker is left, or the lane is poisoned.
TasksEnd == \A r \in Requests : pc[r] = "submitting" ~> pc[r] = "done"
=============================================================================
