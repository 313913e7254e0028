-------------------------- MODULE WebServiceProofs --------------------------
(***************************************************************************)
(* What holds of the service of module WebService, for any number of       *)
(* requests, workers, permits, queue slots, profiles and publications.     *)
(*                                                                         *)
(* The inductive invariant follows the job of a request.  It is in one     *)
(* place: in the queue once, with one worker, or answered, and its task    *)
(* waits until then (Placed).  So what a page depends on, the generation   *)
(* it expects and the profile of its query, does not change under the job  *)
(* (Pages), the queue is shorter than the permits that are out (Held), and *)
(* a read that is abandoned in the queue has no worker (Lates).  A session *)
(* reads the current revision because a publication waits for it           *)
(* (Sessions).                                                             *)
(***************************************************************************)
EXTENDS WebService, FiniteSetTheorems, SequenceTheorems, TLAPS

\* The tasks that have a permit.
Active == {r \in Requests : pc[r] \notin {"idle", "done"}}

\* Every permit is left or with a task.
Held == permits + Cardinality(Active) = Permits

\* Where the job of a request can be.
Queued(r) == \E i \in DOMAIN queue : queue[i] = r

InJob(r) == \E w \in Workers : r \in job[w]

\* A job is in one place, and its task waits for the reply.
Placed ==
  /\ \A i, j \in DOMAIN queue : queue[i] = queue[j] => i = j
  /\ \A r \in Requests : Queued(r) => pc[r] = "waiting" /\ reply[r] = "none" /\ ~InJob(r)
  /\ \A w \in Workers : \A r \in job[w] : pc[r] = "waiting" /\ reply[r] = "none"
  /\ \A v, w \in Workers : v # w => job[v] \cap job[w] = {}
  /\ \A w \in Workers : worker[w] \in {"idle", "dead"} => job[w] = {}
  /\ \A w \in Workers : \A r, q \in job[w] : r = q

\* A session reads the current reference, which is not replaced under it.
Sessions ==
  /\ revision > 0
  /\ \A w \in Workers :
       session[w] = IF worker[w] \in {"opened", "running"} THEN revision ELSE 0

\* A page of r may be answered from revision g.
Coherent(r, g) == wanted[r] \in {0, g} /\ prepared[r] \subseteq {ProfileOf[g]}

\* What a reply and an outcome of ok stand for.
Pages ==
  /\ \A r \in Requests : outcome[r] # "none" => pc[r] = "done"
  /\ \A r \in Requests : pc[r] \in {"guarding", "writing"} => Kind[r] = "write"
  /\ \A r \in Requests :
       Kind[r] # "write" /\ (outcome[r] = "ok" \/ (pc[r] = "waiting" /\ reply[r] = "ok"))
         => Coherent(r, seen[r])
  /\ \A w \in Workers : \A r \in job[w] :
       worker[w] \in {"opened", "running"} => prepared[r] \subseteq {ProfileOf[revision]}

\* Who was abandoned in the queue stays abandoned until its task has ended.
Lates ==
  /\ \A r \in late : Kind[r] # "write" /\ (pc[r] = "done" \/ (caller[r] = "gone" /\ pc[r] # "idle"))
  /\ AbandonedReadsStop

\* The inductive invariant.
IndInv == TypeOK /\ Held /\ Placed /\ Sessions /\ Pages /\ WritesUseCurrentReference /\ Lates

-----------------------------------------------------------------------------
(* The steps of a request and of a worker, by part.                        *)

\* The handler; submission and reply; the query; the write session.
Handles(r) == Arrive(r) \/ Leave(r)
Asks(r) == Submit(r) \/ Receive(r)
Prepares(r) == PrepareNothing(r) \/ PrepareQuery(r) \/ EnterLane(r) \/ Embed(r) \/
       EmbedPanics(r)
Writes(r) == OpenWrite(r) \/ Commit(r) \/ TaskFails(r)

\* A worker takes a job, and ends it.
Begins(w) == Take(w) \/ Enter(w) \/ Open(w) \/ Run(w)
Ends(w) == Answer(w) \/ Skip(w) \/ Refuse(w) \/ JobPanics(w)

\* The steps of a request.
TaskActs(r) == Arrive(r) \/ Leave(r) \/ TaskStep(r) \/ EmbedPanics(r)

WorkerActs(w) == WorkerStep(w) \/ JobPanics(w)

\* Each step of a request belongs to one part.
LEMMA TaskParts ==
  ASSUME NEW r, TaskActs(r)
  PROVE  Handles(r) \/ Asks(r) \/ Prepares(r) \/ Writes(r)
BY DEF TaskActs, TaskStep, Handles, Asks, Prepares, Writes

\* So does each step of a worker.
LEMMA WorkerParts ==
  ASSUME NEW w, WorkerActs(w)
  PROVE  Begins(w) \/ Ends(w)
BY DEF WorkerActs, WorkerStep, Begins, Ends

\* A step of a request writes its own request, and the queue when it submits.
LEMMA TaskFrame ==
  ASSUME TypeOK, NEW r \in Requests, TaskActs(r)
  PROVE  /\ UNCHANGED <<revision, worker, job, session, seen>>
         /\ \/ UNCHANGED <<queue, reply>>
            \/ /\ pc[r] = "submitting" /\ pc'[r] = "waiting"
               /\ queue' = Append(queue, r) /\ reply' = [reply EXCEPT ![r] = "none"]
         /\ \A q \in Requests : q # r =>
              /\ caller'[q] = caller[q] /\ pc'[q] = pc[q] /\ wanted'[q] = wanted[q]
              /\ phase'[q] = phase[q] /\ prepared'[q] = prepared[q] /\ outcome'[q] = outcome[q]
              /\ (q \in late' <=> q \in late)
<1> USE DEF TypeOK, Finish, Goto, pool
<1>1. CASE Handles(r)
  BY <1>1 DEF Handles, Arrive, Leave
<1>2. CASE Asks(r)
  BY <1>2 DEF Asks, Submit, Receive
<1>3. CASE Prepares(r)
  BY <1>3 DEF Prepares, PrepareNothing, PrepareQuery, EnterLane, Embed, EmbedPanics
<1>4. CASE Writes(r)
  BY <1>4 DEF Writes, OpenWrite, Commit, TaskFails
<1>5. QED
  BY <1>1, <1>2, <1>3, <1>4, TaskParts

\* A step of a worker answers requests, and writes nothing else of them.
LEMMA WorkerFrame ==
  ASSUME TypeOK, NEW w \in Workers, WorkerActs(w)
  PROVE  /\ UNCHANGED <<revision, caller, pc, wanted, phase, prepared, outcome, late, permits,
                        lane>>
         /\ \A v \in Workers : v # w =>
              worker'[v] = worker[v] /\ job'[v] = job[v] /\ session'[v] = session[v]
<1> USE DEF TypeOK, At, Reply, request
<1>1. CASE Begins(w)
  BY <1>1 DEF Begins, Take, Enter, Open, Run
<1>2. CASE Ends(w)
  BY <1>2 DEF Ends, Answer, Skip, Refuse, JobPanics
<1>3. QED
  BY <1>1, <1>2, WorkerParts

-----------------------------------------------------------------------------
(* Types and permits.                                                      *)

\* How a step of a request uses permits.
LEMMA PermitSteps ==
  ASSUME TypeOK, NEW r \in Requests, TaskActs(r)
  PROVE  \/ /\ permits' = permits
            /\ pc'[r] \in {"idle", "done"} <=> pc[r] \in {"idle", "done"}
         \/ /\ permits' = permits - 1 /\ permits > 0
            /\ pc[r] \in {"idle", "done"} /\ pc'[r] \notin {"idle", "done"}
         \/ /\ permits' = permits + 1
            /\ pc[r] \notin {"idle", "done"} /\ pc'[r] \in {"idle", "done"}
<1> USE DEF TypeOK, Finish, Goto
<1>1. CASE Handles(r)
  BY <1>1 DEF Handles, Arrive, Leave
<1>2. CASE Asks(r)
  BY <1>2 DEF Asks, Submit, Receive
<1>3. CASE Prepares(r)
  BY <1>3 DEF Prepares, PrepareNothing, PrepareQuery, EnterLane, Embed, EmbedPanics
<1>4. CASE Writes(r)
  BY <1>4 DEF Writes, OpenWrite, Commit, TaskFails
<1>5. QED
  BY <1>1, <1>2, <1>3, <1>4, TaskParts

\* The set of active tasks is finite, and a task that ends had a permit.
LEMMA HeldKept ==
  ASSUME TypeOK, Held, NEW r \in Requests, TaskActs(r)
  PROVE  Held' /\ permits' \in 0..Permits
<1>1. IsFiniteSet(Active) /\ Cardinality(Active) \in Nat /\ permits \in Nat /\ Permits \in Nat
  BY ServiceAssumption, FS_Subset, FS_CardinalityType DEF Active, TypeOK
<1>2. \A q \in Requests : q # r => pc'[q] = pc[q]
  BY TaskFrame
<1>3. CASE permits' = permits /\ (pc'[r] \in {"idle", "done"} <=> pc[r] \in {"idle", "done"})
  <2>1. Active' = Active
    BY <1>2, <1>3 DEF Active
  <2>2. QED
    BY <1>3, <2>1 DEF Held, TypeOK
<1>4. CASE /\ permits' = permits - 1 /\ permits > 0
           /\ pc[r] \in {"idle", "done"} /\ pc'[r] \notin {"idle", "done"}
  <2>1. Active' = Active \cup {r} /\ r \notin Active
    BY <1>2, <1>4 DEF Active
  <2>2. Cardinality(Active') = Cardinality(Active) + 1
    BY <1>1, <2>1, FS_AddElement
  <2>3. QED
    BY <1>1, <1>4, <2>2 DEF Held, TypeOK
<1>5. CASE /\ permits' = permits + 1
           /\ pc[r] \notin {"idle", "done"} /\ pc'[r] \in {"idle", "done"}
  <2>1. Active' = Active \ {r} /\ r \in Active
    BY <1>2, <1>5 DEF Active
  <2>2. Cardinality(Active') = Cardinality(Active) - 1
    BY <1>1, <2>1, FS_RemoveElement
  <2>3. IsFiniteSet(Active') /\ Cardinality(Active') \in Nat
    BY <1>1, <2>1, FS_RemoveElement, FS_CardinalityType
  <2>4. QED
    BY <1>1, <1>5, <2>2, <2>3 DEF Held, TypeOK
<1>6. QED
  BY <1>3, <1>4, <1>5, PermitSteps

\* The types of what a request writes.
LEMMA TaskTyped ==
  ASSUME TypeOK, Held, NEW r \in Requests, TaskActs(r)
  PROVE  TypeOK'
<1>1. permits' \in 0..Permits
  BY HeldKept
<1>2. queue' \in Seq(Requests) /\ reply' \in [Requests -> Outcomes]
  <2>1. queue \in Seq(Requests) /\ reply \in [Requests -> Outcomes] /\ "none" \in Outcomes
    BY DEF TypeOK, Outcomes
  <2>2. Append(queue, r) \in Seq(Requests)
    BY <2>1
  <2>3. [reply EXCEPT ![r] = "none"] \in [Requests -> Outcomes]
    BY <2>1
  <2>4. QED
    BY <2>1, <2>2, <2>3, TaskFrame
<1>3. UNCHANGED <<revision, worker, job, session, seen>>
  BY TaskFrame
<1>4. late' \subseteq Requests
  BY TaskFrame DEF Arrive, Leave, TaskActs, TaskStep, TypeOK, Submit, Receive, PrepareNothing,
                   PrepareQuery, EnterLane, Embed, EmbedPanics, OpenWrite, Commit, TaskFails,
                   Finish, Goto
<1>5. /\ caller' \in [Requests -> {"none", "awaiting", "gone"}] /\ pc' \in [Requests -> Places]
      /\ wanted' \in [Requests -> Revisions] /\ phase' \in [Requests -> 1..2]
      /\ prepared' \in [Requests -> SUBSET Profiles] /\ outcome' \in [Requests -> Outcomes]
      /\ lane' \in {"free", "poisoned"} \cup Requests
  <2>1. \A where \in Places : Goto(r, where) =>
           /\ pc' \in [Requests -> Places] /\ UNCHANGED <<caller, wanted, outcome>>
    BY DEF TypeOK, Goto
  <2>2. \A what \in Outcomes : Finish(r, what) =>
           /\ pc' \in [Requests -> Places] /\ outcome' \in [Requests -> Outcomes]
           /\ caller' \in [Requests -> {"none", "awaiting", "gone"}]
           /\ UNCHANGED <<wanted, phase, prepared>>
    BY DEF TypeOK, Finish, Places
  <2>3. \A v \in Revisions : ProfileOf[v] \in Profiles
    BY ServiceAssumption
  <2>4. 0..revision \subseteq Revisions /\ 0 \in Revisions
    BY ServiceAssumption DEF TypeOK, Revisions
  <2> USE <2>1, <2>2, <2>3, <2>4 DEF TypeOK, Places, Outcomes
  <2>5. CASE Handles(r)
    <3>1. CASE Arrive(r)
      <4>1. PICK g \in Revisions : wanted' = [wanted EXCEPT ![r] = g]
        BY <3>1 DEF Arrive
      <4>2. wanted' \in [Requests -> Revisions]
        BY <4>1
      <4>3. QED
        BY <3>1, <4>2 DEF Arrive
    <3>2. CASE Leave(r)
      BY <3>2 DEF Leave
    <3>3. QED
      BY <2>5, <3>1, <3>2 DEF Handles
  <2>6. CASE Asks(r)
    <3>1. CASE Submit(r)
      BY <3>1 DEF Submit
    <3>2. CASE Receive(r)
      <4>1. PICK next \in {"guarding", "preparing", "done"} :
              \/ Goto(r, next) /\ UNCHANGED <<phase, prepared>>
              \/ Finish(r, reply[r])
        BY <3>2 DEF Receive
      <4>2. UNCHANGED lane /\ reply[r] \in Outcomes
        BY <3>2 DEF Receive
      <4>3. QED
        BY <4>1, <4>2
    <3>3. QED
      BY <2>6, <3>1, <3>2 DEF Asks
  <2>7. CASE Prepares(r)
    <3>1. CASE PrepareNothing(r) \/ Embed(r)
      BY <3>1 DEF PrepareNothing, Embed
    <3>2. CASE PrepareQuery(r)
      BY <3>2 DEF PrepareQuery
    <3>3. CASE EnterLane(r) \/ EmbedPanics(r)
      BY <3>3 DEF EnterLane, EmbedPanics
    <3>4. QED
      BY <2>7, <3>1, <3>2, <3>3 DEF Prepares
  <2>8. CASE Writes(r)
    BY <2>8 DEF Writes, OpenWrite, Commit, TaskFails
  <2>9. QED
    BY <2>5, <2>6, <2>7, <2>8, TaskParts

<1>6. QED
  BY <1>1, <1>2, <1>3, <1>4, <1>5 DEF TypeOK

\* The types of what a worker writes.
LEMMA WorkerTyped ==
  ASSUME TypeOK, NEW w \in Workers, WorkerActs(w)
  PROVE  TypeOK'
<1>1. UNCHANGED <<revision, caller, pc, wanted, phase, prepared, outcome, late, permits, lane>>
  BY WorkerFrame
<1>2. /\ queue' \in Seq(Requests) /\ worker' \in [Workers -> WorkerPlaces]
      /\ job' \in [Workers -> SUBSET Requests] /\ session' \in [Workers -> Revisions]
      /\ reply' \in [Requests -> Outcomes] /\ seen' \in [Requests -> Revisions]
  <2>1. \A where \in WorkerPlaces : At(w, where) => worker' \in [Workers -> WorkerPlaces]
    BY DEF TypeOK, At
  <2>2. 0 \in Revisions
    BY ServiceAssumption DEF Revisions
  <2>3. \A r \in Requests, what \in Outcomes : Reply(w, r, what) =>
           /\ worker' \in [Workers -> WorkerPlaces] /\ job' \in [Workers -> SUBSET Requests]
           /\ session' \in [Workers -> Revisions] /\ reply' \in [Requests -> Outcomes]
           /\ queue' = queue
    BY <2>1, <2>2 DEF TypeOK, Reply, WorkerPlaces
  <2> USE <2>1, <2>2, <2>3 DEF TypeOK, WorkerPlaces, Outcomes, request
  <2>4. CASE Begins(w)
    <3>1. CASE Take(w)
      <4>1. Head(queue) \in Requests /\ Tail(queue) \in Seq(Requests)
        BY <3>1 DEF Take
      <4>2. QED
        BY <3>1, <4>1 DEF Take
    <3>2. CASE Enter(w) \/ Open(w) \/ Run(w)
      BY <3>2 DEF Enter, Open, Run
    <3>3. QED
      BY <2>4, <3>1, <3>2 DEF Begins
  <2>5. CASE Ends(w)
    <3>1. CASE Answer(w)
      BY <3>1 DEF Answer
    <3>2. CASE Skip(w) \/ Refuse(w)
      BY <3>2 DEF Skip, Refuse
    <3>3. CASE JobPanics(w)
      <4>1. queue' \in Seq(Requests)
        BY <3>3 DEF JobPanics
      <4>2. reply' \in [Requests -> Outcomes]
        BY <3>3 DEF JobPanics
      <4>3. QED
        BY <3>3, <4>1, <4>2 DEF JobPanics
    <3>4. QED
      BY <2>5, <3>1, <3>2, <3>3 DEF Ends
  <2>6. QED
    BY <2>4, <2>5, WorkerParts

<1>3. QED
  BY <1>1, <1>2 DEF TypeOK

-----------------------------------------------------------------------------
(* Where a job is.                                                         *)

\* A task submits only while it has no job anywhere.
LEMMA PlacedByTask ==
  ASSUME TypeOK, Placed, NEW r \in Requests, TaskActs(r)
  PROVE  Placed'
<1>1. UNCHANGED <<worker, job>> /\ \A q \in Requests : q # r => pc'[q] = pc[q]
  BY TaskFrame
<1>2. pc[r] = "waiting" /\ reply[r] = "none" => pc'[r] = "waiting"
  <2> USE DEF TypeOK, Finish, Goto
  <2>1. CASE Handles(r)
    BY <2>1 DEF Handles, Arrive, Leave
  <2>2. CASE Asks(r)
    BY <2>2 DEF Asks, Submit, Receive
  <2>3. CASE Prepares(r)
    BY <2>3 DEF Prepares, PrepareNothing, PrepareQuery, EnterLane, Embed, EmbedPanics
  <2>4. CASE Writes(r)
    BY <2>4 DEF Writes, OpenWrite, Commit, TaskFails
  <2>5. QED
    BY <2>1, <2>2, <2>3, <2>4, TaskParts

<1>3. CASE UNCHANGED <<queue, reply>>
  BY <1>1, <1>2, <1>3 DEF Placed, Queued, InJob, TypeOK
<1>4. CASE /\ pc[r] = "submitting" /\ pc'[r] = "waiting"
           /\ queue' = Append(queue, r) /\ reply' = [reply EXCEPT ![r] = "none"]
  <2>1. /\ DOMAIN queue = 1..Len(queue) /\ DOMAIN queue' = 1..(Len(queue) + 1)
        /\ Len(queue) \in Nat
        /\ \A i \in 1..(Len(queue) + 1) : queue'[i] = IF i <= Len(queue) THEN queue[i] ELSE r
    BY <1>4 DEF TypeOK
  <2>2. ~Queued(r) /\ ~InJob(r)
    BY <1>4 DEF Placed, InJob
  <2>3. \A q \in Requests : Queued(q)' => q = r \/ Queued(q)
    BY <2>1 DEF Queued
  <2>4. \A q \in Requests : q # r => reply'[q] = reply[q]
    BY <1>4 DEF TypeOK
  <2>5. reply'[r] = "none"
    BY <1>4 DEF TypeOK
  <2>6. ASSUME NEW i \in DOMAIN queue', NEW j \in DOMAIN queue', queue'[i] = queue'[j]
        PROVE  i = j
    <3>1. \A k \in 1..Len(queue) : queue[k] # r
      BY <2>1, <2>2 DEF Queued
    <3>2. QED
      BY <2>1, <2>6, <3>1 DEF Placed
  <2>7. \A q \in Requests : Queued(q)' => pc'[q] = "waiting" /\ reply'[q] = "none" /\ ~InJob(q)'
    BY <1>1, <1>4, <2>2, <2>3, <2>4, <2>5 DEF Placed, InJob
  <2>8. \A w \in Workers : \A q \in job[w] : q # r /\ pc'[q] = "waiting" /\ reply'[q] = "none"
    BY <1>1, <2>2, <2>4 DEF Placed, InJob, TypeOK
  <2>9. QED
    BY <1>1, <2>6, <2>7, <2>8 DEF Placed
<1>5. QED
  BY <1>3, <1>4, TaskFrame

\* A reply to the job of a worker.
LEMMA PlacedByReply ==
  ASSUME TypeOK, Placed, NEW w \in Workers, NEW r \in job[w], NEW what,
         Reply(w, r, what), UNCHANGED pc
  PROVE  Placed'
<1>1. \A q \in Requests : q # r => reply'[q] = reply[q]
  BY DEF Reply, TypeOK
<1>2. /\ job'[w] = {} /\ worker'[w] = "idle" /\ queue' = queue
      /\ \A v \in Workers : v # w => job'[v] = job[v] /\ worker'[v] = worker[v]
  BY DEF Reply, At, TypeOK
<1>3. \A q \in Requests : InJob(q)' => InJob(q)
  BY <1>2 DEF InJob
<1>4. r \in Requests /\ InJob(r) /\ ~Queued(r)
  BY DEF Placed, InJob, TypeOK
<1>5. \A q \in Requests : Queued(q)' <=> Queued(q)
  BY <1>2 DEF Queued
<1>6. \A q \in Requests : Queued(q)' => pc'[q] = "waiting" /\ reply'[q] = "none" /\ ~InJob(q)'
  BY <1>1, <1>3, <1>4, <1>5 DEF Placed
<1>7. \A v \in Workers : \A q \in job'[v] : pc'[q] = "waiting" /\ reply'[q] = "none"
  <2>1. \A v \in Workers : \A q \in job'[v] : v # w /\ q \in job[v] /\ q # r /\ q \in Requests
    BY <1>2 DEF Placed, TypeOK
  <2>2. QED
    BY <1>1, <2>1 DEF Placed
<1>8. \A u, v \in Workers : u # v => job'[u] \cap job'[v] = {}
  BY <1>2 DEF Placed
<1>9. QED
  BY <1>2, <1>6, <1>7, <1>8 DEF Placed

\* A worker takes its job out of the queue, and lets go of it with the reply.
LEMMA PlacedByWorker ==
  ASSUME TypeOK, Placed, NEW w \in Workers, WorkerActs(w)
  PROVE  Placed'
<1>1. UNCHANGED pc
  BY WorkerFrame
<1>2. CASE Take(w)
  <2> DEFINE n == Len(queue)
  <2>1. /\ n \in Nat \ {0} /\ DOMAIN queue = 1..n /\ DOMAIN queue' = 1..(n - 1)
        /\ \A i \in 1..(n - 1) : queue'[i] = queue[i + 1]
        /\ Head(queue) = queue[1] /\ queue[1] \in Requests
    BY <1>2 DEF Take, TypeOK
  <2> HIDE DEF n
  <2>2. /\ UNCHANGED reply /\ job'[w] = {queue[1]} /\ worker'[w] = "checking" /\ job[w] = {}
        /\ \A v \in Workers : v # w => job'[v] = job[v] /\ worker'[v] = worker[v]
    BY <1>2, <2>1 DEF Take, At, TypeOK, Placed
  <2>3. Queued(queue[1]) /\ ~InJob(queue[1])
    BY <2>1 DEF Queued, Placed
  <2>4. \A q \in Requests : Queued(q)' => Queued(q) /\ q # queue[1]
    <3>1. ASSUME NEW q \in Requests, NEW i \in 1..(n - 1), queue'[i] = q
          PROVE  Queued(q) /\ q # queue[1]
      <4>1. i + 1 \in DOMAIN queue /\ 1 \in DOMAIN queue /\ i + 1 # 1
        BY <2>1, <3>1
      <4>2. queue[i + 1] = q
        BY <2>1, <3>1
      <4>3. QED
        BY <4>1, <4>2 DEF Placed, Queued
    <3>2. QED
      BY <2>1, <3>1 DEF Queued
  <2>5. \A q \in Requests : InJob(q)' => InJob(q) \/ q = queue[1]
    BY <2>2 DEF InJob
  <2>6. \A i, j \in DOMAIN queue' : queue'[i] = queue'[j] => i = j
    <3>1. ASSUME NEW i \in 1..(n - 1), NEW j \in 1..(n - 1), queue'[i] = queue'[j]
          PROVE  i = j
      <4>1. i + 1 \in DOMAIN queue /\ j + 1 \in DOMAIN queue
        BY <2>1
      <4>2. queue[i + 1] = queue[j + 1]
        BY <2>1, <3>1
      <4>3. i + 1 = j + 1
        BY <4>1, <4>2 DEF Placed
      <4>4. QED
        BY <4>3, <2>1
    <3>2. QED
      BY <2>1, <3>1
  <2>7. \A q \in Requests : Queued(q)' => pc'[q] = "waiting" /\ reply'[q] = "none" /\ ~InJob(q)'
    BY <1>1, <2>2, <2>4, <2>5 DEF Placed
  <2>8. \A v \in Workers : \A q \in job'[v] : pc'[q] = "waiting" /\ reply'[q] = "none"
    BY <1>1, <2>1, <2>2, <2>3 DEF Placed
  <2>9. \A u, v \in Workers : u # v => job'[u] \cap job'[v] = {}
    BY <2>2, <2>3 DEF Placed, InJob
  <2>10. QED
    BY <2>2, <2>6, <2>7, <2>8, <2>9 DEF Placed
<1>3. CASE Enter(w) \/ Open(w) \/ Run(w)
  <2>1. UNCHANGED <<queue, reply, job>>
    BY <1>3 DEF Enter, Open, Run
  <2>2. /\ worker'[w] \notin {"idle", "dead"}
        /\ \A v \in Workers : v # w => worker'[v] = worker[v]
    BY <1>3 DEF Enter, Open, Run, At, TypeOK
  <2>3. QED
    BY <1>1, <2>1, <2>2 DEF Placed, Queued, InJob
<1>4. CASE Answer(w) \/ Skip(w) \/ Refuse(w)
  BY <1>1, <1>4, PlacedByReply DEF Answer, Skip, Refuse
<1>5. CASE JobPanics(w)
  <2>1. /\ job'[w] = {} /\ \A v \in Workers : v # w => job'[v] = job[v] /\ worker'[v] = worker[v]
    BY <1>5, WorkerFrame DEF JobPanics, TypeOK
  <2>2. \A q \in Requests : q \notin job[w] \cup DroppedWith(w) => reply'[q] = reply[q]
    BY <1>5 DEF JobPanics
  <2>3. \A q \in Requests : Queued(q)' => Queued(q) /\ q \notin DroppedWith(w)
    BY <1>5 DEF JobPanics, Queued
  <2>4. \A q \in DroppedWith(w) : q \in Requests => Queued(q)
    BY DEF DroppedWith, ToSet, Queued
  <2>5. \A q \in Requests : InJob(q)' => InJob(q)
    BY <2>1 DEF InJob
  <2>6. \A i, j \in DOMAIN queue' : queue'[i] = queue'[j] => i = j
    BY <1>5 DEF JobPanics, Placed
  <2>7. \A q \in Requests : Queued(q)' => pc'[q] = "waiting" /\ reply'[q] = "none" /\ ~InJob(q)'
    BY <1>1, <2>2, <2>3, <2>5 DEF Placed, InJob
  <2>8. \A v \in Workers : \A q \in job'[v] :
          /\ v # w /\ q \in job[v] /\ q \in Requests
          /\ q \notin job[w] \cup DroppedWith(w)
    BY <2>1, <2>4 DEF Placed, InJob, TypeOK
  <2>9. \A v \in Workers : \A q \in job'[v] : pc'[q] = "waiting" /\ reply'[q] = "none"
    BY <1>1, <2>2, <2>8 DEF Placed
  <2>10. \A u, v \in Workers : u # v => job'[u] \cap job'[v] = {}
    BY <2>1 DEF Placed
  <2>11. QED
    BY <2>1, <2>6, <2>7, <2>9, <2>10 DEF Placed
<1>6. QED
  BY <1>2, <1>3, <1>4, <1>5 DEF WorkerActs, WorkerStep

-----------------------------------------------------------------------------
(* Sessions, pages and mutations.                                          *)

\* A session reads the revision it was opened at.
LEMMA SessionsByWorker ==
  ASSUME TypeOK, Sessions, NEW w \in Workers, WorkerActs(w)
  PROVE  Sessions'
<1>1. /\ revision' = revision
      /\ \A v \in Workers : v # w => worker'[v] = worker[v] /\ session'[v] = session[v]
  BY WorkerFrame
<1>2. session'[w] = IF worker'[w] \in {"opened", "running"} THEN revision ELSE 0
  <2> USE DEF TypeOK, At, Reply, Sessions
  <2>1. CASE Begins(w)
    BY <2>1 DEF Begins, Take, Enter, Open, Run
  <2>2. CASE Ends(w)
    BY <2>2 DEF Ends, Answer, Skip, Refuse, JobPanics
  <2>3. QED
    BY <2>1, <2>2, WorkerParts

<1>3. QED
  BY <1>1, <1>2 DEF Sessions

\* A task that waits changes nothing its page depends on.
LEMMA PagesByTask ==
  ASSUME TypeOK, Placed, Pages, NEW r \in Requests, TaskActs(r)
  PROVE  Pages'
<1>1. /\ UNCHANGED <<revision, worker, job, seen>>
      /\ \A q \in Requests : q # r =>
           /\ pc'[q] = pc[q] /\ wanted'[q] = wanted[q] /\ prepared'[q] = prepared[q]
           /\ outcome'[q] = outcome[q] /\ reply'[q] = reply[q]
  BY TaskFrame DEF TypeOK
<1>2. /\ outcome'[r] # "none" => pc'[r] = "done"
      /\ pc'[r] \in {"guarding", "writing"} => Kind[r] = "write"
  <2>1. /\ outcome[r] # "none" => pc[r] = "done"
        /\ pc[r] \in {"guarding", "writing"} => Kind[r] = "write"
    BY DEF Pages
  <2> USE <2>1 DEF TypeOK, Finish, Goto
  <2>2. CASE Handles(r)
    BY <2>2 DEF Handles, Arrive, Leave
  <2>3. CASE Asks(r)
    BY <2>3 DEF Asks, Submit, Receive
  <2>4. CASE Prepares(r)
    BY <2>4 DEF Prepares, PrepareNothing, PrepareQuery, EnterLane, Embed, EmbedPanics
  <2>5. CASE Writes(r)
    BY <2>5 DEF Writes, OpenWrite, Commit, TaskFails
  <2>6. QED
    BY <2>2, <2>3, <2>4, <2>5, TaskParts

<1>3. ASSUME Kind[r] # "write", outcome'[r] = "ok" \/ (pc'[r] = "waiting" /\ reply'[r] = "ok")
      PROVE  /\ outcome[r] = "ok" \/ (pc[r] = "waiting" /\ reply[r] = "ok")
             /\ wanted'[r] = wanted[r] /\ prepared'[r] = prepared[r]
  <2>1. /\ outcome[r] # "none" => pc[r] = "done"
        /\ pc[r] \in {"guarding", "writing"} => Kind[r] = "write"
    BY DEF Pages
  <2> USE <1>3, <2>1 DEF TypeOK, Finish, Goto, pool
  <2>2. CASE Handles(r)
    BY <2>2 DEF Handles, Arrive, Leave
  <2>3. CASE Asks(r)
    BY <2>3 DEF Asks, Submit, Receive
  <2>4. CASE Prepares(r)
    BY <2>4 DEF Prepares, PrepareNothing, PrepareQuery, EnterLane, Embed, EmbedPanics
  <2>5. CASE Writes(r)
    BY <2>5 DEF Writes, OpenWrite, Commit, TaskFails
  <2>6. QED
    BY <2>2, <2>3, <2>4, <2>5, TaskParts

<1>4. InJob(r) => prepared'[r] = prepared[r]
  <2>1. InJob(r) => pc[r] = "waiting"
    BY DEF InJob, Placed
  <2> USE <2>1 DEF Finish, Goto
  <2>2. CASE Handles(r)
    BY <2>2 DEF Handles, Arrive, Leave
  <2>3. CASE Asks(r)
    BY <2>3 DEF Asks, Submit, Receive
  <2>4. CASE Prepares(r)
    BY <2>4 DEF Prepares, PrepareNothing, PrepareQuery, EnterLane, Embed, EmbedPanics
  <2>5. CASE Writes(r)
    BY <2>5 DEF Writes, OpenWrite, Commit, TaskFails
  <2>6. QED
    BY <2>2, <2>3, <2>4, <2>5, TaskParts

<1>5. \A q \in Requests :
        Kind[q] # "write" /\ (outcome'[q] = "ok" \/ (pc'[q] = "waiting" /\ reply'[q] = "ok"))
          => Coherent(q, seen[q])'
  BY <1>1, <1>3 DEF Pages, Coherent
<1>6. \A w \in Workers : \A q \in job[w] : q \in Requests /\ prepared'[q] = prepared[q]
  BY <1>1, <1>4 DEF InJob, TypeOK
<1>7. QED
  BY <1>1, <1>2, <1>5, <1>6 DEF Pages

\* A page is answered in a session that admitted its query, if the generation fits.
LEMMA PagesByWorker ==
  ASSUME TypeOK, Placed, Sessions, Pages, NEW w \in Workers, WorkerActs(w)
  PROVE  Pages'
<1>1. /\ UNCHANGED <<revision, pc, wanted, prepared, outcome>>
      /\ \A v \in Workers : v # w => worker'[v] = worker[v] /\ job'[v] = job[v]
  BY WorkerFrame
<1>2. \A q \in job'[w] : worker'[w] \in {"opened", "running"} => prepared[q] \subseteq {ProfileOf[revision]}
  <2> USE DEF TypeOK, At, Reply, Pages, Admits
  <2>1. CASE Begins(w)
    BY <2>1 DEF Begins, Take, Enter, Open, Run
  <2>2. CASE Ends(w)
    BY <2>2 DEF Ends, Answer, Skip, Refuse, JobPanics
  <2>3. QED
    BY <2>1, <2>2, WorkerParts

<1>3. \/ /\ UNCHANGED seen
         /\ \A q \in Requests : reply'[q] = "ok" => reply[q] = "ok"
      \/ Answer(w)
  <2> USE DEF TypeOK, At, Reply, request
  <2>1. CASE Begins(w)
    BY <2>1 DEF Begins, Take, Enter, Open, Run
  <2>2. CASE Ends(w)
    BY <2>2 DEF Ends, Answer, Skip, Refuse, JobPanics
  <2>3. QED
    BY <2>1, <2>2, WorkerParts

<1>4. CASE Answer(w)
  <2>1. PICK r \in job[w] :
          /\ wanted[r] \in {0, session[w]} /\ Reply(w, r, "ok")
          /\ seen' = [seen EXCEPT ![r] = session[w]]
    BY <1>4 DEF Answer
  <2>2. /\ r \in Requests /\ seen'[r] = session[w]
        /\ \A q \in Requests : q # r => seen'[q] = seen[q] /\ reply'[q] = reply[q]
    BY <2>1 DEF TypeOK, Reply
  <2>3. session[w] = revision /\ prepared[r] \subseteq {ProfileOf[revision]}
    BY <1>4 DEF Answer, Sessions, Pages
  <2>4. Coherent(r, seen[r])'
    BY <1>1, <2>1, <2>2, <2>3 DEF Coherent
  <2>5. QED
    BY <1>1, <1>2, <2>2, <2>4 DEF Pages, Coherent
<1>5. CASE UNCHANGED seen /\ \A q \in Requests : reply'[q] = "ok" => reply[q] = "ok"
  BY <1>1, <1>2, <1>5 DEF Pages, Coherent
<1>6. QED
  BY <1>3, <1>4, <1>5

\* Only a publication changes the revision, and it waits for write sessions.
LEMMA WritesKept ==
  ASSUME TypeOK, Placed, WritesUseCurrentReference,
         (\E r \in Requests : TaskActs(r)) \/ (\E w \in Workers : WorkerActs(w)) \/ Publish
  PROVE  WritesUseCurrentReference'
<1>1. ASSUME NEW r \in Requests, TaskActs(r)
      PROVE  WritesUseCurrentReference'
  <2>1. UNCHANGED <<revision, seen>> /\ \A q \in Requests : q # r => pc'[q] = pc[q]
    BY <1>1, TaskFrame
  <2>2. pc'[r] = "writing" => seen[r] = revision
    <3> USE <1>1 DEF TypeOK, Finish, Goto, WritesUseCurrentReference
    <3>1. CASE Handles(r)
      BY <3>1 DEF Handles, Arrive, Leave
    <3>2. CASE Asks(r)
      BY <3>2 DEF Asks, Submit, Receive
    <3>3. CASE Prepares(r)
      BY <3>3 DEF Prepares, PrepareNothing, PrepareQuery, EnterLane, Embed, EmbedPanics
    <3>4. CASE Writes(r)
      BY <3>4 DEF Writes, OpenWrite, Commit, TaskFails
    <3>5. QED
      BY <3>1, <3>2, <3>3, <3>4, TaskParts

  <2>3. QED
    BY <2>1, <2>2 DEF WritesUseCurrentReference
<1>2. ASSUME NEW w \in Workers, WorkerActs(w)
      PROVE  WritesUseCurrentReference'
  <2>1. UNCHANGED <<revision, pc>>
    BY <1>2, WorkerFrame
  <2>2. \A q \in Requests : pc[q] = "writing" => seen'[q] = seen[q]
    <3>1. UNCHANGED seen \/ \E r \in job[w] : seen' = [seen EXCEPT ![r] = session[w]]
      BY <1>2 DEF WorkerActs, WorkerStep, Take, Enter, Open, Run, Answer, Skip, Refuse, JobPanics,
                  request
    <3>2. QED
      BY <3>1 DEF Placed, TypeOK
  <2>3. QED
    BY <2>1, <2>2 DEF WritesUseCurrentReference
<1>3. CASE Publish
  BY <1>3 DEF Publish, WritesUseCurrentReference, request
<1>4. QED
  BY <1>1, <1>2, <1>3

\* A queued read that is abandoned has no worker.
LEMMA LatesByTask ==
  ASSUME TypeOK, Placed, Lates, NEW r \in Requests, TaskActs(r)
  PROVE  Lates'
<1>1. /\ UNCHANGED <<worker, job>>
      /\ \A q \in Requests : q # r =>
           /\ caller'[q] = caller[q] /\ pc'[q] = pc[q] /\ (q \in late' <=> q \in late)
  BY TaskFrame
<1>2. late' = late \/ (late' = late \cup {r} /\ Queued(r))
  <2> USE DEF Finish, Goto, ToSet, Queued
  <2>1. CASE Handles(r)
    BY <2>1 DEF Handles, Arrive, Leave
  <2>2. CASE Asks(r)
    BY <2>2 DEF Asks, Submit, Receive
  <2>3. CASE Prepares(r)
    BY <2>3 DEF Prepares, PrepareNothing, PrepareQuery, EnterLane, Embed, EmbedPanics
  <2>4. CASE Writes(r)
    BY <2>4 DEF Writes, OpenWrite, Commit, TaskFails
  <2>5. QED
    BY <2>1, <2>2, <2>3, <2>4, TaskParts

<1>3. r \in late' => Kind[r] # "write" /\ (pc'[r] = "done" \/ (caller'[r] = "gone" /\ pc'[r] # "idle"))
  <2>1. r \in late => Kind[r] # "write" /\ (pc[r] = "done" \/ (caller[r] = "gone" /\ pc[r] # "idle"))
    BY DEF Lates
  <2>2. r \in late' /\ r \notin late => Kind[r] # "write" /\ pc[r] = "waiting"
    BY <1>2 DEF Placed, TaskActs, TaskStep, Arrive, Leave, Submit, Receive, PrepareNothing,
           PrepareQuery, EnterLane, Embed, EmbedPanics, OpenWrite, Commit, TaskFails, Finish, Goto
  <2> USE <2>1, <2>2 DEF TypeOK, Finish, Goto
  <2>3. CASE Handles(r)
    BY <2>3 DEF Handles, Arrive, Leave
  <2>4. CASE Asks(r)
    BY <2>4 DEF Asks, Submit, Receive
  <2>5. CASE Prepares(r)
    BY <2>5 DEF Prepares, PrepareNothing, PrepareQuery, EnterLane, Embed, EmbedPanics
  <2>6. CASE Writes(r)
    BY <2>6 DEF Writes, OpenWrite, Commit, TaskFails
  <2>7. QED
    BY <2>3, <2>4, <2>5, <2>6, TaskParts

<1>4. Queued(r) => ~InJob(r)
  BY DEF Placed
<1>5. QED
  BY <1>1, <1>2, <1>3, <1>4 DEF Lates, AbandonedReadsStop, InJob, TypeOK

\* A worker that takes an abandoned read does not go on with it.
LEMMA LatesByWorker ==
  ASSUME TypeOK, Placed, Lates, NEW w \in Workers, WorkerActs(w)
  PROVE  Lates'
<1>1. /\ UNCHANGED <<caller, pc, late>>
      /\ \A v \in Workers : v # w => worker'[v] = worker[v] /\ job'[v] = job[v]
  BY WorkerFrame
<1>2. CASE Enter(w)
  <2>1. \A r \in job[w] : ~Abandoned(r) /\ pc[r] = "waiting"
    BY <1>2 DEF Enter, Placed
  <2>2. job'[w] \cap late = {}
    BY <1>2, <2>1 DEF Enter, Lates, Abandoned
  <2>3. QED
    BY <1>1, <2>2 DEF Lates, AbandonedReadsStop
<1>3. CASE ~Enter(w)
  <2>1. worker'[w] \in {"opening", "opened", "running"} =>
          worker[w] \in {"opening", "opened", "running"} /\ job'[w] = job[w]
    <3> USE <1>3 DEF TypeOK, At, Reply
    <3>1. CASE Begins(w)
      BY <3>1 DEF Begins, Take, Enter, Open, Run
    <3>2. CASE Ends(w)
      BY <3>2 DEF Ends, Answer, Skip, Refuse, JobPanics
    <3>3. QED
      BY <3>1, <3>2, WorkerParts

  <2>2. QED
    BY <1>1, <2>1 DEF Lates, AbandonedReadsStop
<1>4. QED
  BY <1>2, <1>3

-----------------------------------------------------------------------------
(* The invariant is inductive.                                             *)

\* No request has arrived.
LEMMA Initially == Init => IndInv
<1> SUFFICES ASSUME Init
             PROVE  IndInv
  OBVIOUS
<1>1. TypeOK
  <2>1. 0 \in Revisions /\ 1 \in Revisions
    BY ServiceAssumption DEF Revisions
  <2>2. Permits \in 0..Permits
    BY ServiceAssumption
  <2>3. <<>> \in Seq(Requests)
    OBVIOUS
  <2>4. QED
    BY <2>1, <2>2, <2>3 DEF Init, TypeOK, Places, Outcomes, WorkerPlaces
<1>2. Held
  <2>1. Active = {}
    BY DEF Init, Active
  <2>2. QED
    BY <2>1, FS_EmptySet, ServiceAssumption DEF Held, Init
<1>3. Placed
  <2>1. DOMAIN queue = {}
    BY DEF Init
  <2>2. QED
    BY <2>1 DEF Init, Placed, Queued
<1>4. Sessions /\ Pages /\ WritesUseCurrentReference /\ Lates
  BY DEF Init, Sessions, Pages, WritesUseCurrentReference, Lates, AbandonedReadsStop
<1>5. QED
  BY <1>1, <1>2, <1>3, <1>4 DEF IndInv

\* A publication by another process waits for the sessions.
LEMMA PublishKeeps ==
  ASSUME IndInv, Publish
  PROVE  IndInv'
<1>1. revision' = revision + 1 /\ revision \in 0..MaxRevision /\ revision' \in 0..MaxRevision
  BY ServiceAssumption DEF IndInv, TypeOK, Publish, Revisions
<1>2. UNCHANGED <<caller, pc, wanted, phase, prepared, outcome, seen, late, queue, worker, job,
                  session, reply, permits, lane>>
  BY DEF Publish, request, pool
<1>3. TypeOK'
  BY <1>1, <1>2 DEF IndInv, TypeOK, Revisions
<1>4. Held' /\ Placed' /\ Lates'
  BY <1>2 DEF IndInv, Held, Active, Placed, Queued, InJob, Lates, AbandonedReadsStop
<1>5. \A w \in Workers : worker[w] \notin {"opened", "running"}
  BY <1>1 DEF IndInv, Sessions, Publish
<1>6. Sessions' /\ Pages'
  BY <1>1, <1>2, <1>5 DEF IndInv, Sessions, Pages, Coherent
<1>7. WritesUseCurrentReference'
  BY WritesKept DEF IndInv
<1>8. QED
  BY <1>3, <1>4, <1>6, <1>7 DEF IndInv

\* A step of a request keeps the invariant.
LEMMA TaskKeeps ==
  ASSUME IndInv, NEW r \in Requests, TaskActs(r)
  PROVE  IndInv'
<1>1. TypeOK /\ Held /\ Placed /\ Sessions /\ Pages /\ WritesUseCurrentReference /\ Lates
  BY DEF IndInv
<1>2. TypeOK' /\ Held'
  BY <1>1, TaskTyped, HeldKept
<1>3. Placed' /\ Pages' /\ Lates'
  BY <1>1, PlacedByTask, PagesByTask, LatesByTask
<1>4. Sessions'
  BY <1>1, TaskFrame DEF Sessions
<1>5. WritesUseCurrentReference'
  BY <1>1, WritesKept
<1>6. QED
  BY <1>2, <1>3, <1>4, <1>5 DEF IndInv

\* So does a step of a worker.
LEMMA WorkerKeeps ==
  ASSUME IndInv, NEW w \in Workers, WorkerActs(w)
  PROVE  IndInv'
<1>1. TypeOK /\ Held /\ Placed /\ Sessions /\ Pages /\ WritesUseCurrentReference /\ Lates
  BY DEF IndInv
<1>2. TypeOK' /\ Placed' /\ Sessions' /\ Pages' /\ Lates'
  BY <1>1, WorkerTyped, PlacedByWorker, SessionsByWorker, PagesByWorker, LatesByWorker
<1>3. Held'
  BY <1>1, WorkerFrame DEF Held, Active
<1>4. WritesUseCurrentReference'
  BY <1>1, WritesKept
<1>5. QED
  BY <1>2, <1>3, <1>4 DEF IndInv

\* The induction step.
LEMMA NextKeeps == IndInv /\ [Next]_vars => IndInv'
<1> SUFFICES ASSUME IndInv, [Next]_vars
             PROVE  IndInv'
  OBVIOUS
<1>1. CASE \E r \in Requests : TaskActs(r)
  BY <1>1, TaskKeeps
<1>2. CASE \E w \in Workers : WorkerActs(w)
  BY <1>2, WorkerKeeps
<1>3. CASE Publish
  BY <1>3, PublishKeeps
<1>4. CASE UNCHANGED vars
  BY <1>4 DEF vars, request, pool, IndInv, TypeOK, Held, Active, Placed, Queued, InJob, Sessions,
              Pages, Coherent, WritesUseCurrentReference, Lates, AbandonedReadsStop
<1>5. QED
  BY <1>1, <1>2, <1>3, <1>4 DEF Next, TaskActs, WorkerActs

\* The invariant holds in every state.
THEOREM InductiveInvariant == Spec => []IndInv
BY Initially, NextKeeps, PTL DEF Spec

-----------------------------------------------------------------------------
(* What follows.                                                           *)

\* The types of the variables.
THEOREM TypesHold == Spec => []TypeOK
<1>1. IndInv => TypeOK
  BY DEF IndInv
<1>2. QED
  BY <1>1, InductiveInvariant, PTL

\* A mutation is applied to the reference that its read session saw
\* (operations.rs): the write session refuses another revision, and no publication
\* comes between its check and its commit.
THEOREM WritesStayCurrent == Spec => []WritesUseCurrentReference
<1>1. IndInv => WritesUseCurrentReference
  BY DEF IndInv
<1>2. QED
  BY <1>1, InductiveInvariant, PTL

\* An answered page has the generation it was asked for and a query embedded for the
\* profile of that generation (search_pages.rs), whatever is published between its two
\* submissions.
THEOREM PagesStayCoherent == Spec => []PagesAreCoherent
<1>1. IndInv => PagesAreCoherent
  BY DEF IndInv, Pages, Coherent, PagesAreCoherent
<1>2. QED
  BY <1>1, InductiveInvariant, PTL

\* A read whose handler left while it was queued opens no session
\* (read_execution.rs), whichever worker takes it.
THEOREM AbandonedReadsStayOut == Spec => []AbandonedReadsStop
<1>1. IndInv => AbandonedReadsStop
  BY DEF IndInv, Lates
<1>2. QED
  BY <1>1, InductiveInvariant, PTL

\* A queue of as many slots as there are permits has one for every task that submits
\* (executor.rs, service.rs): the jobs that are queued belong to other tasks with a
\* permit, each to one.
THEOREM PermitsFitTheQueue == Spec => []QueueNeverRefuses
<1>1. IndInv => QueueNeverRefuses
  <2> SUFFICES ASSUME IndInv, Permits <= QueueCapacity, NEW r \in Requests, pc[r] = "submitting",
                      ~(Len(queue) < QueueCapacity)
               PROVE  FALSE
    BY DEF QueueNeverRefuses
  <2> DEFINE n == Len(queue)
             others == Active \ {r}
  <2>1. /\ n \in Nat /\ queue \in [1..n -> Requests] /\ permits \in Nat /\ Permits \in Nat
        /\ QueueCapacity \in Nat /\ DOMAIN queue = 1..n
    BY ServiceAssumption DEF IndInv, TypeOK
  <2>2. IsFiniteSet(Active) /\ Cardinality(Active) \in Nat /\ r \in Active
    BY ServiceAssumption, FS_Subset, FS_CardinalityType DEF Active
  <2>3. IsFiniteSet(others) /\ Cardinality(others) = Cardinality(Active) - 1
    BY <2>2, FS_RemoveElement
  <2>4. Cardinality(others) < n
    BY <2>1, <2>2, <2>3 DEF IndInv, Held
  <2>5. \A i \in 1..n : queue[i] \in others
    BY <2>1 DEF IndInv, Placed, Queued, Active
  <2>6. queue \in [1..n -> others]
    <3> HIDE DEF n, others
    <3>1. QED
      BY <2>1, <2>5
  <2>7. IsFiniteSet(1..n) /\ Cardinality(1..n) = n
    <3> HIDE DEF n, others
    <3>1. QED
      BY <2>1, FS_Interval
  <2>8. \E x, y \in 1..n : x # y /\ queue[x] = queue[y]
    <3> HIDE DEF n, others
    <3>1. QED
      BY <2>3, <2>4, <2>6, <2>7, FS_PigeonHole
  <2>9. QED
    BY <2>1, <2>8 DEF IndInv, Placed
<1>2. QED
  BY <1>1, InductiveInvariant, PTL

\* A mutation is not cancelled, and none of its replies tells it so.
Uncancelled(r) == Kind[r] = "write" => reply[r] # "cancelled" /\ outcome[r] # "cancelled"

\* A mutation is never taken for abandoned, by its task or by a worker.
LEMMA UncancelledKept ==
  ASSUME TypeOK, [Next]_vars, \A r \in Requests : Uncancelled(r)
  PROVE  \A r \in Requests : Uncancelled(r)'
<1>1. ASSUME NEW r \in Requests, TaskActs(r)
      PROVE  \A q \in Requests : Uncancelled(q)'
  <2>1. \A q \in Requests : reply'[q] \in {reply[q], "none"}
    <3>1. UNCHANGED reply \/ reply' = [reply EXCEPT ![r] = "none"]
      BY <1>1, TaskFrame
    <3>2. QED
      BY <3>1 DEF TypeOK
  <2>2. \A q \in Requests : q # r => outcome'[q] = outcome[q]
    BY <1>1, TaskFrame
  <2>3. Kind[r] = "write" => outcome'[r] # "cancelled"
    <3>1. Uncancelled(r)
      OBVIOUS
    <3> USE <3>1 DEF TypeOK, Finish, Goto, Uncancelled
    <3>2. CASE Handles(r)
      BY <3>2 DEF Handles, Arrive, Leave
    <3>3. CASE Asks(r)
      BY <3>3 DEF Asks, Submit, Receive, Abandoned
    <3>4. CASE Prepares(r)
      BY <3>4 DEF Prepares, PrepareNothing, PrepareQuery, EnterLane, Embed, EmbedPanics
    <3>5. CASE Writes(r)
      BY <3>5 DEF Writes, OpenWrite, Commit, TaskFails
    <3>6. QED
      BY <1>1, <3>2, <3>3, <3>4, <3>5, TaskParts
  <2>4. QED
    BY <2>1, <2>2, <2>3 DEF Uncancelled
<1>2. ASSUME NEW w \in Workers, WorkerActs(w)
      PROVE  \A q \in Requests : Uncancelled(q)'
  <2>1. UNCHANGED outcome
    BY <1>2, WorkerFrame
  <2>2. \A q \in Requests : Kind[q] = "write" => reply'[q] \in {reply[q], "ok", "failed"}
    <3> USE DEF TypeOK, Reply
    <3>1. CASE Begins(w)
      BY <3>1 DEF Begins, Take, Enter, Open, Run
    <3>2. CASE Ends(w)
      BY <3>2 DEF Ends, Answer, Skip, Refuse, JobPanics, Abandoned
    <3>3. QED
      BY <1>2, <3>1, <3>2, WorkerParts
  <2>3. QED
    BY <2>1, <2>2 DEF Uncancelled
<1>3. CASE Publish \/ UNCHANGED vars
  BY <1>3 DEF Publish, vars, request, pool, Uncancelled
<1>4. QED
  BY <1>1, <1>2, <1>3 DEF Next, TaskActs, WorkerActs

\* A mutation whose client left is not dropped (read_execution.rs): neither the
\* checks of its task nor those of the worker that reads for it cancel it, and it
\* ends as for a client that waits.
THEOREM MutationsOutliveTheirClients == Spec => []WritesOutliveTheirClients
<1> DEFINE Kept == \A r \in Requests : Uncancelled(r)
<1>1. Init => Kept
  BY DEF Init, Uncancelled
<1>2. TypeOK /\ Kept /\ [Next]_vars => Kept'
  BY UncancelledKept
<1>3. Kept => WritesOutliveTheirClients
  BY DEF Uncancelled, WritesOutliveTheirClients
<1>4. QED
  BY <1>1, <1>2, <1>3, TypesHold, PTL DEF Spec

\* A client that leaves stops a read that waits in the queue, and never a mutation
\* (read_execution.rs, executor.rs).
THEOREM AbandonmentStopsReadsAlone == Spec => []AbandonmentIsForReads
<1>1. AbandonedReadsStop /\ WritesOutliveTheirClients => AbandonmentIsForReads
  BY DEF AbandonmentIsForReads
<1>2. QED
  BY <1>1, AbandonedReadsStayOut, MutationsOutliveTheirClients, PTL
=============================================================================
