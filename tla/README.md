# TLA+ verification of PF2e Atlas

PF2e Atlas keeps Pathfinder reference data and the user's saved lists, parties
and encounters in one persistent SQLite workspace. A command line tool and a
local web service read and edit it through the same Rust crates; `atlas setup`
and `atlas index` rebuild the reference half of it. This directory holds TLA+
models of the parts where that is hard to get right: several processes and
threads on one file, work that is queued and abandoned, a store keyed by a
revision, and edits that are retried after a lost answer.

Every definition that models code is translated from the source, and
`PROJECT.json` ("map") names the lines it stands for. TLC checks small
instances (`*.cfg`), TLAPS proves what it can for every instance.

    tlc -workers 4 -config Peers.cfg MCWorkspace.tla
    tlapm WorkspaceProofs.tla

## The system

| part | state | operations | what is hard | what makes it correct |
| --- | --- | --- | --- | --- |
| atlas-storage | one SQLite file, a maintenance marker, two lock files, seeds and backups | read, write, publish, maintain, recover, reclaim, migrate, snapshot, install | processes on one file, crashes between transactions, wrong drop order | nobody sees a half-updated reference, no saved edit is lost, an open session's reference stays current |
| atlas-index | reference rows, artifact instance, projections, vectors | publish a complete reference, upgrade components, reset, query | updates that span many sessions, upgrades that are resumed, stale preparation | what is published was prepared for what is there; an interrupted upgrade is finished or undone |
| atlas-ingest | source checkout, prepared records, checkpoints of preparation | build or update an index from a source | input that changes while it is prepared | a publication is of one source fingerprint |
| atlas-embedding | model cache, native sessions, one process-wide lane | load, embed a query, prepare passages in batches | one lane for all threads, poisoning, half-downloaded models | a vector belongs to the profile that it is compared under |
| atlas-search | per-service state; native neighbour store with an epoch, an LRU list, a byte budget | lexical, vector and graph ranking | a store shared across publications and concurrent misses | an answer with the store is the answer without it |
| atlas-runtime | paths, one workspace, shared inference and neighbour store | open, read, write, prepare a query, setup, reset | setup that is interrupted, reuse keyed by revision | operations use one current reference |
| atlas-app-service | retrieval queue and workers; otherwise stateless over sessions | all product operations: search pages, lists, parties, encounters | queue limits, abandoned work, state read in one session and written in another | pages are coherent, mutations apply to what was read, retries are harmless |
| atlas-local-state | saved lists, parties, encounters with roster, conditions, receipts, claims | each saved edit in one savepoint | retried commands, revisions, claims, snapshots of ended turns | a command takes effect once, on what its client saw |
| atlas-web | permits for blocking calls | HTTP handlers | dropped handlers, a full pool | a permit lives as long as the blocking task |
| atlas-cli, atlas-cli-support | none of their own | commands over the services | - | - |
| atlas-record, atlas-domain, atlas-foundry-model, atlas-app-model, atlas-dice, atlas-tags | values | parsing, normalisation, rendering, dice, tags | - | pure conversions |
| web/atlas-ui | the browser's view | fills bodies from what it shows and repeats them | lost answers | a body keeps its request id |

A call travels from `atlas-web` (a permit) through `atlas-app-service` (the
retrieval queue for searches, the calling thread for mutations) to a session
of `atlas-storage`, in which `atlas-search` and `atlas-local-state` work. A
text search submits twice and embeds its query in between. `atlas-index` and
`atlas-ingest` publish through an `UpdateOwner` of `atlas-storage`, usually in
another process. All crates meet in the workspace: the reference revision is
what a neighbour epoch, a page generation and a mutation's guard are.

## The modules

| module | component | state | checked by | proved in |
| --- | --- | --- | --- | --- |
| `Workspace` | atlas-storage | locks, connections, image, marker, one function per actor | `peers`, `upgrade`, `live` | `WorkspaceProofs`, `WorkspaceSteps` |
| `AdmittedStore` | what atlas-storage promises | image, open sessions | refined by `Workspace` | `WorkspaceSteps` |
| `NeighborReuse` | atlas-search, the native neighbour store | epoch, entries, bytes, one search per caller | `reuse` | `NeighborReuseProofs` |
| `WebService` | atlas-web, the executor of atlas-app-service, the lane of atlas-embedding | permits, queue, workers, lane, tasks | `calls`, `calls_end` | `WebServiceProofs` |
| `InitiativeOrder` | the order of initiative of atlas-local-state | none: operators | `settle`, `health` | `InitiativeOrderProofs` |
| `EncounterTurns` | turns of atlas-app-service and atlas-local-state | rows of one encounter, attempts of threads | `commands`, `settle`, `matching` | `EncounterTurnsProofs` |
| `ReferenceUpdates` | setup of atlas-runtime, builds of atlas-ingest, publication and upgrades of atlas-index | the checkout, the reference, published and cached values, the request, the marker, one job per process | `updates`, `recovery` | `ReferenceUpdatesProofs` |
| `HitPointRules` | damage, healing and knockouts of atlas-app-service | none: operators | `health` | `EncounterHealthProofs` |
| `Knockouts` | what commands about hit points promise | health, open decisions | refined by `EncounterHealth` | `EncounterHealthProofs` |
| `EncounterHealth` | hit point and life commands of atlas-app-service | rows of one encounter, attempts of threads | `health` | `EncounterHealthProofs` |

`Workspace` is below the others. They rely on what it shows and keep of a
session only its revision (`NeighborReuse`, `WebService`) or that it is one
step (`ReferenceUpdates`, `EncounterTurns`, `EncounterHealth`). The `MC` modules hold the values of constants.
## The workspace store (atlas-storage)

`Workspace.tla` models the whole crate. Two lock files stand beside the
database. `.access.lock` is held shared by product sessions and startup checks
and exclusively by publication, maintenance, recovery, migration and
initialization. `.update.lock` is held exclusively by the one publisher and
shared by a snapshot. `acquire` polls for 250 ms and returns `Busy`.

An *actor* is a thread with at most one handle in use. `task` is the function
it is in and `pc` the place in it: each function is cut at every lock,
connection, transaction, commit and file operation.

| code | model |
| --- | --- |
| `acquire` (locking.rs) | `Lock`/`LockBusy` for `.update.lock`, `Admit`/`AdmitBusy` for `.access.lock`. `Busy`, or an error of the lock file, can end the attempt at any time, also when the lock could be granted |
| `Workspace::read`, `ReadSession` | `Connect`, `BeginRead`, `EndRead`, `Close`, `ReturnLease`, `Release` in the order the fields drop |
| `Workspace::write`, `write_action`, `WriteSession` | `BeginWrite`, `CommitWrite` (one edit of saved state), `Fail` for a drop without commit |
| `UpdateOwner::publish` | `ValidateJob`, `BeginPublish`, `CommitPublish` |
| `UpdateOwner::maintenance`, `MaintenanceSession` | `Mark`, `Checkpoint`, `BeginRebuild`, `CommitRebuild` |
| `recover_maintenance` | `BeginRecovery`, `CommitRecovery` |
| `reclaim_space_with_capacity` | a probing read session (`ProbePasses`), then `Mark`, `FinishReclaim` |
| `Workspace::migrate` | the check under shared access (`CheckCurrent`, `CheckPending`), then both locks, `Inspect` or `LeaveMarked`, `SaveBackup`, `BeginUpgrade`, `CommitUpgrade` |
| `snapshot_to`, `begin_initialization`, `install` | `BeginSnapshot`, `PersistSnapshot`, `Reserve`, `Install` |
| `?` and early returns | `Fail` at every place that holds an admission |
| drops | `Close`, `ReturnLease`, `Release`, `Unlock`; a `WorkspaceInitialization` gives back `.update.lock` first |
| death of a process | `Crash`: locks, connections and transactions of its actors are gone, what was committed stays |

The database is its committed image: schema version, reference revision, an
abstract version of the reference rows (`content`), the number of saved edits,
the maintenance marker, and whether the reference is whole (`complete`). The
last is not in the file: it is the fact that the marker has to protect.
SQLite is external: a deferred transaction reads the image that was committed
at its first read, one immediate transaction works at a time, a commit is
atomic. The `busy_timeout` of a connection and its expiry are the choice
between the step and `Fail`.

Left out: byte limits and the size of a mapping, the inspection of migration
digests (a digest mismatch is a `Fail`), sidecar files, the free-space
arithmetic of reclamation, and the file system faults under `hard_link`.

`MaintenanceSession::connection` is documented for writers that checkpoint
preparatory results (session.rs:178). No production caller checkpoints today;
`Checkpoint` models what the interface admits.

`AdmittedStore.tla` is the same store without locks, connections or
transactions: sessions are opened and closed, an edit, a publication or an
upgrade is one step, and nothing that changes the reference happens while any
session is open. `ImplementsStore` says that `Workspace` implements it, with
the reference an open session is reading as the only thing seen of a session.

### What is checked

| run | instance | what it shows |
| --- | --- | --- |
| `peers` | two executables of the current schema, one thread each, all sessions and owner jobs, starting with no file, a file of schema 1, or one whose maintenance was cut off; 277 thousand states | the safety properties and the refinement under interleaving and crashes |
| `upgrade` | an executable of schema 1 beside one of schema 2, with snapshots and installations; 708 thousand states | an upgrade under sessions, owners and snapshots of the old version: sessions and snapshots stay current, a backup is kept, and the promise holds |
| `live` | two threads of one process which share one mapping and make every call and every job of an owner, starting with a file that has to be upgraded and whose maintenance was cut off, or with a seed alone; 290 thousand states | the mapping budget under failures and crashes, and every call returns, the probe of a reclamation, maintenance, recovery, snapshots and initialization among them |

- `ExclusiveMeansAlone`: exclusive admission means no other connection is open.
- `SessionsAreCurrent`: an open session shows the current, whole reference.
- `NothingPartialIsOpen`: a half-updated reference always carries the marker,
  and never gets into a seed.
- `NoEditIsLost`: a committed edit of saved state survives everything.
- `RevisionNamesReference`: one schema and revision, one reference. It is
  stated of what sessions were shown, so a recovery, a crash and a republication
  between two sessions are all covered.
- `UpgradesAreBackedUp`, `OwnerAloneUpdates`: steps that may never happen.
- `SnapshotsAreCurrent`, `MappingsWithinBudget`, `CallsReturn`.

Two actors in two processes suffice for the pairwise exclusion that every
property rests on, and two schema versions for an upgrade under an old reader.
`MaxRevision = 1` allows a publication and a rebuild to be told apart,
`MaxContent = 2` a checkpoint before either, `MaxSaved` an edit before and
after. In `live` the two threads belong to one process, since the counter of
mappings is a process's own; locks are held by handles, so two threads exclude
each other as two processes do. With `MaxMappedReaders = 1` the second reader is
already beyond the budget. The proofs below remove the bounds on actors, processes, versions and starts.

Fairness (`FairSpec`): a thread that is in a call takes its next step. Nobody
has to make a call. This is the scheduling of the operating system; it is not
assumed that a lock is granted, only that the bounded wait ends.

### What is proved

`WorkspaceProofs.tla` proves for any actors, processes, versions, workloads,
starts and bounds, under the three ASSUMEs of `Workspace`, that `IndInv` is
inductive. The safety properties are not inductive by themselves: that a
session shows the current reference depends on no publisher being past its
admission, which depends on who holds which lock where. `IndInv` therefore adds

- `Located`: which functions can be at which place;
- `AccessHeld`, `UpdateHeld`: which lock is held where, and that an exclusive
  holder is the only one;
- `Transacting`: a writer is alone and its working copy is the committed image
  but for its own changes; a session's image has the current reference;
- `Working`: what each job of an owner knows about the marker, the schema and
  the backup.

The proof has one lemma per action and conjunct; `Inductive` collects them.
`TypeCorrect`, `ExclusiveIsAloneAlways`, `SessionsStayCurrent`,
`SnapshotsStayCurrent`, `PartialIsNeverOpen` and `EditsAreKept` follow.
`WorkspaceSteps.tla` proves the three action properties from the same
invariant, and that every step of `Workspace` is a step of `AdmittedStore` or
leaves it unchanged (`Implementation`).

`MappingsWithinBudget` is proved in `WorkspaceSteps.tla` from `Budgeted`: a mapped
connection is open under a lease, a lease is held from `Connect` to
`ReturnLease` and nowhere else (`OtherStepsKeepLeases`), and the counter of a
process is the number of its leases. A connection goes before its lease, so
the counter covers what is mapped also where an error or a drop ends a
session, and a crash clears both. The leases of a process are finitely many by
this invariant; the number of actors need not be finite.

Only model-checked: `CallsReturn` (liveness is out of the prover's reach).


## The native neighbour store (atlas-search)

`NeighborReuse.tla` models `neighbor_reuse.rs` and its one user,
`native_vector_candidates` in `text.rs`. A mutex guards the epoch and the list
of ready entries, an atomic counter the bytes. SQL runs outside both, so every
operation under the mutex and every use of the counter is a step: `Attach`
(`observe`), `Reserve` and `Encode` (`key`), `Hit`/`Miss` (`get`), `Forget`
(`remove`), `Insert`, and `Drop` for the charge that a key or a borrowed entry
gives back with its last reference.

An entry is charged until it has left the list and nobody borrows it: `Out` is
the set of charges with an owner, `live` the counter of the code, and
`BudgetCoversAll` relates them. `Hash` collides for two requests; `Scoped`,
`Unkeyable` and `Oversized` requests take the early returns of `key`, `encode` and
`insert`.

| run | instance | what it shows |
| --- | --- | --- |
| `reuse` | two callers, six requests of which two collide, one has a scope of record keys, one has no key and one is too large, room for two entries, a budget that is full at four charges, two publications; 124 thousand states | `AnswersAreExact`, `NothingRetiredIsReady`, `BudgetCoversAll`, `OneEntryPerKey`, `EpochAdvances` |

The store is documented as independent of database lifetimes, so a reader may
outlive a publication here, which the locks of `Workspace` do not allow: the
model admits more behaviours than a deployment. An epoch is the bare revision
because a runtime serves one workspace; that a revision names one reference is
`RevisionNamesReference`, which is proved of `Workspace`. Two callers are
needed for a borrowed entry that is evicted and for concurrent misses; room for
two entries for an order of use; two publications for a caller that is late by
one. Left out: the layout of keys; the payload, which is what an exact search
in the session of the entry finds; and a mutex that a panic has poisoned, after
which every operation returns without an effect and every search is exact.

`NeighborReuseProofs.tla` proves the five properties for any callers, requests,
digests, charges and bounds. What `IndInv` adds:

- `Caller`, `Honest`: an entry answers the request and revision it is under, and
  what a caller has borrowed is under its own. The comparison of the whole key
  after that of its digest makes it so; a search that finds nothing left under
  its key computes exactly that.
- `Charging`: no two keys alive, held by a caller, borrowed or retained, have the
  same charge. Without it the bytes given back at a `Drop` could be those of
  another key, and `BudgetCoversAll` would not be inductive.
- `Accounts`: the charges that are out are finitely many, and the counter is
  their cardinality times `ChargeBytes`, by the theorems on finite sets.
- `OneEpoch`: there is at most one epoch, and no ready entry is of another.

## The web service (atlas-web, the executor, the native lane)

`WebService.tla` follows a request through the threads of the process.

| code | model |
| --- | --- |
| `call_service`, `AbandonReadOnDrop` (atlas-web/service.rs) | `Arrive` takes a permit or answers busy; `Leave` drops the handler, whose task keeps its permit until `Finish` |
| `RetrievalExecutor::enqueue_prepared` | `Submit`: abandonment, a dead pool and a full queue end the task at once |
| `retrieval_worker` | `Take`, then `Enter`, `Open`, `Run` with a check for abandonment before each (`Skip`), `Answer`, `Refuse`; `JobPanics` ends the worker and, with the last one, every queued job |
| `search_page` | two submissions (`phase`), between them `PrepareQuery`, which reads the stored profile in a session of its own, and the lane |
| `SharedQueryInference` | `EnterLane`, `Embed`; `EmbedPanics` poisons the mutex |
| a mutation | one submission that reads, then `OpenWrite`, which compares the reference revision in the write session, and `Commit` |

| run | instance | what it shows |
| --- | --- | --- |
| `calls` | two text searches and a mutation, two permits, a queue of two, two workers, two revisions of which the second stores another profile; 1.5 million states | `QueueNeverRefuses`, `PagesAreCoherent`, `WritesUseCurrentReference`, `AbandonmentIsForReads` |
| `calls_end` | two searches and a mutation, two permits, a queue of one and one worker, which can die with the jobs of others in its queue; the second search is at the lane, or comes to it, when the first one's inference panics; no publication; 385 thousand states | `TasksEnd` |

Deadlock is not checked: each request is made once and the system is at rest
when all have ended. `calls_end` leaves publications to `calls`: a task never waits
for one, and what a publication changes is which of its two ends a page or a
write takes. `AbandonmentIsForReads` has two halves, `AbandonedReadsStop` and
`WritesOutliveTheirClients`, and a mutant for each. The queue of the code is as large as the permits
(`DEFAULT_RETRIEVAL_QUEUE_CAPACITY`, `MAX_BLOCKING_SERVICE_CALLS`), and
`QueueNeverRefuses` is stated for every pair with that relation. Two publications
are needed for a page whose generation changed between its submissions.

Fairness (`FairSpec`): every task and every worker that can step does step, as
threads of the operating system do. Arriving, leaving, publishing and panicking
are free not to happen. The lane is a `std::sync::Mutex`, which promises no
order; requests are made once, so a waiting task cannot be overtaken forever
and weak fairness is enough.

The comment at `query_sessions.rs:59` says that the retrieval queue bounds the
callers of the lane. A text search waits for the lane between its two
submissions, when it holds neither a slot of the queue nor a worker, so what
bounds the wait is the number of permits in atlas-web.

Not modelled: workers that fail to start (the
service does not open then) and the backend that runs the command line tool.

`WebServiceProofs.tla` proves the four safety properties of `calls` for any requests, workers,
permits, slots, profiles and publications, assuming that requests and workers
are finitely many and that there is a worker. `IndInv` follows the job of a request:

- `Placed`: it is in the queue once, with one worker, or answered, and its task
  waits until then. So nothing that a page depends on changes under its job.
- `Sessions`: a worker that has a session reads the current revision, because a
  publication waits for sessions.
- `Pages`: an answered page is of the generation its caller expects, and its
  query was embedded for the profile of that generation (`Coherent`).
- `Lates`: a read that was abandoned in the queue stays abandoned until its
  task has ended, and has no worker that runs it.
- `Uncancelled`: no answer of a mutation says that it was cancelled, whatever
  became of its client (`AbandonmentIsForReads`, with `Lates`).
- `Held`: the permits that are left and the tasks are `Permits`. Every queued job
  has a task of its own, and so has the one that submits; by the pigeonhole
  principle the queue is shorter than its capacity (`QueueNeverRefuses`).

## The turns of an encounter (atlas-app-service, atlas-local-state)

`EncounterTurns.tla` models one encounter as its rows: revision, round, current
participant, roster in initiative order, who is eligible, Frightened and
Stunned conditions, boundary claims, the snapshot of the turn that ended last,
and the receipts of commands. A body (`asked`) is filled once from what a
client sees and submitted any number of times by any thread.

| code | model |
| --- | --- |
| `next_turn`, `next_turn_after_removed` (turns.rs) | `TurnAmong`, over the participants that are `Eligible` |
| `advance_encounter_turn` | `Recover` (a session for the receipt), `Read` (a session for the snapshot and its revision), `CommitNext` (one write: receipt, revision, then `Advance`) |
| `advance_turn_once` | `Advance`: the snapshot replaces the last one, the turn moves, the incoming participant pays for Stunned and claims it |
| `apply_condition_lifecycle` with `FrightenedEndTurn` | `Recover` (receipt and snapshot in one session), `Bind` (the reminder in another), `CommitSettle` (one write: receipt, revision, reminder, claim) |
| `set_encounter_turn`, `update_participant`, `reorder_participant`, `remove_participant_and_select_turn` | `SetTurn`, `Toggle`, `Reorder`, `RemoveParticipant` |
| condition edits | `Frighten`, `Calm`, `Stun` |
| `apply_recovery` | `Rest`, `ResetEncounter`, `ResetParticipant` |

Edits of other endpoints have receipts of their own and are one write here.
Several increments of the revision in one transaction count as one. `Fails`
stands for an error of a session and for the guard on the reference revision,
which `WebService` models.

| run | instance | what it shows |
| --- | --- | --- |
| `commands` | two threads, Next turn, a settlement and another that reuses its id, among turns, new conditions and resets; 1.9 million states | `OkMeansDone`, `RetriesRecover`, `CommandsApplyToWhatWasSeen` |
| `settle` | two kinds of table: two settlements of one participant among turns, conditions that come and go, rests and resets of one participant; and a round of three participants with edits of order, eligibility and roster; 2.1 million states | `BoundariesSettleOnce`, `RemindersAreCurrent`, `RoundsAreFair` |
| `matching` | two submissions of one Next turn | see Findings |

The constant `Tables` holds the kinds of encounter an instance explores: the
initial order, the requests, the edits of other clients and the bound on
revisions; the runs together take all of the edits. The histories `ran`, `seen` and `played` record how often a
request took effect, who still sees the encounter as it is, who had a turn in
this round and what was settled; no guard reads them. `RoundsAreFair` promises
nothing for a round in which a client set the turn or changed the order.
Deadlock is not checked: an encounter at the bound of its revisions is at rest.

Worth knowing, and within what the documents say: claims live until a rest or a
reset. When a client sets the turn back in the same round, or reorders, and a
participant that already paid for Stunned is stunned again, Next turn to it is
refused with a conflict (`Startable`) until the round changes.

A participant is taken to be created eligible and without conditions, which is
what a reset restores; a rest changes no condition here, and reordering, before
another or after it, is among participants of equal initiative. Left out: actions and reactions of a
turn, durations and trackers, conditions other than the two, checks with dice,
and spell resources; hit points are in `EncounterHealth`.

`EncounterTurnsProofs.tla` proves the six properties of `commands` and `settle` for
any participants, tables, threads, requests and bounds. (`MatchingRequestsRecover`
is the one that does not hold.) `IndInv` adds:

- `Filled`: every write moves the revision, so a body that names the current one
  was filled from the encounter as it is.
- `Receipts`: a receipt is kept of exactly the requests that took effect, and an
  attempt of one of those gets no further than its receipt.
- `Bound`: a settlement is planned in one session and written in another. What
  connects the two is the number of the boundary, which no two turns share: if
  the reminder is still the last one when the plan is written, the round and
  the conditions of the plan are those of that turn.
- `Recorded`: the claim that is paid for is the one that is saved, and it was free.
- `Fair`: who acted in this round is not after the current participant, and who
  was eligible throughout and has not acted is after it. The hard step is a
  removal: it shifts places, but keeps the order of those who stay
  (`RemovalKeepsOrder` of `InitiativeOrderProofs.tla`). That the first eligible participant exists is
  well-foundedness of the natural numbers.

## Updates of the reference (atlas-runtime, atlas-ingest, atlas-index)

`ReferenceUpdates.tla` models the jobs that bring the reference up to date
(`atlas setup`, a direct build, a rebuild, the upgrade when a service starts),
run by processes of different versions over one workspace while the source
checkout is edited. A session of the workspace is one step, because `Workspace`
shows that it behaves like one; between two sessions of a job anything may
happen, the death of its process included.

| code | model |
| --- | --- |
| `classify_reference_upgrade`, `open_workspace_index` | `Class`, `Opens`: what an executable of some version makes of the stored reference |
| `ensure_setup` (setup.rs) | `Capture` to `Confirm`, then `Judge` without the lock, the second look `Open` in two sessions, then a build, an upgrade or a reclamation |
| `resolve_configuration`, `begin_build` | `Ask`, `SaveRequest`; `CheckRequest` for a build whose request was changed meanwhile |
| `CapturedBuildInputs::capture`, `source_git_commit_if_clean` | `Capture`, `Resolve`, one `Read` per file, `Compare`, `Confirm`: git is asked for changes and for HEAD separately, before and after |
| `SourceCapture::read_verified` | `Verify`, one step per pack; the bytes of the manifest are those of the capture |
| `ensure_reference_projections` | `Look`, `Mark`, `Plan`, `Convert`, or `Recover` when nothing is left to do |
| `recover_reference_publication` | `Recover` |
| `PreparedPublication` | `Bind`, `Stage`, `Evict`, `Select`, `Checkpoint`, `Remember`, `Publish` |
| `reclaim_space` | `Reclaim`, `Vacuum` |
| `?` and early returns; death | `Refuse`, `Stop` |

The source is a set of files with versions, and a version of a pack is one
native input for each search profile. Edits give a file a version it never had,
so that a version names a content. A commit is a version that all files have;
an update of the checkout moves HEAD after the files.

| run | instance | what it shows |
| --- | --- | --- |
| `updates` | a setup or rebuild and a build that asks for a second profile, in two processes, while the manifest and two packs are edited once each; 3.0 million states | `PublishedSourceExisted`, `RecordedRevisionIsPublished`, `SetupsAreFresh`, `PublishedAsRequested`, `RequestsOnlyGrow` |
| `recovery` | three executables, of which one knows newer projections and one also a newer preparation, a recovery cache of one value, one death; 270 thousand states | `CacheAccounted`, `ReferencesDoNotGoBack`, `MarkersAreCleared` |

Two packs are what a capture of no single moment needs, and one edit of each
file lets every one of them change between capture and consumption. Two
profiles tell a narrower request from a wider one. A cache of one value
overflows with every batch. Three versions are needed for an executable that
is newer than one and older than another.

Fairness (`FairSpec`, only for `MarkersAreCleared`): a job that runs takes its
next step, and an executable of the newest version is started again and again.
The code promises the recovery of a marker to the next start, so a user who
never starts the program again has to be excluded; older executables need not
be started and processes may die.

Worth knowing, and within what the documents say. The manifest is taken from
the capture (runtime.md:250), so a setup that was overtaken can put back an
older manifest, but never older packs. An older executable that has marked the
workspace and then meets a reference it does not know returns and leaves the
marker (component_upgrade.rs:229) until a newer one starts.

A build reads the stored policies when it is bound and again in the transaction
of its publication. An executable that does not know them stops at the first,
unless what it does not know is the source contract or the snapshot format:
then it goes on without reuse (reuse_reader.rs:33) and is refused by the second
(writer.rs:29). `Bind` and `Refuse` are both possible there, since `Prep` does not
say which policy differs.

In `recovery` a file has one version, so what does not go back there are the
policies and the packs of the one version before it; `ReferencesDoNotGoBack` is
proved for any number of versions and edits (`NothingGoesBack`).

Left out: copies of published layouts, `--check`, `force_rebuild`, acquisition
of a managed source, the rows and vectors themselves.

`ReferenceUpdatesProofs.tla` proves every safety and action property of the two
runs for any processes, executables, files, profiles, edits and bounds, and one
that no run lists: a value that a build selected and left in place is still
published when the build needs it (`SelectionsStayPublished`). Liveness stays
with TLC. The argument:

- Who is where the update lock is held holds it alone, so a step of another
  process leaves the workspace as the owner saw it (`OwnersAlone`). What is known
  without the lock is stable because versions only grow (`Versions`).
- `PublishedSourceExisted` is not about one moment of the build: files change
  while they are captured, and again while they are consumed. `Consumes` says
  that *some* tree the checkout has been lies between what was captured and what
  the checkout is now. The tree is picked when the build is bound (`Bind`); a pack
  that is read again and found as captured leaves no room on either side of it
  (`Verify`), and once every pack is verified the tree has exactly the packs
  that are published. The proof uses the second read of every pack; the check
  at the capture alone would not do.
- `RecordedRevisionIsPublished` is a squeeze of the same kind: the commit was read
  before and after the files, and git found nothing changed in between
  (`Around`, `Captures`).
- `Fresh`: what a setup judged without a lock stays fresh, since publications by
  others are of packs that are newer still.
- `Keeping`, `Counted`: what a selection leaves in place stays published, and the
  count of the recovery cache is its cardinality.

That TLC found the properties true on the small instances was no proof that the
operators said what they seemed to: `Class` and `ClassUnchecked` had overlapping
CASE guards, whose choice TLC settles by order and the prover does not. They are
nested conditions now, in the order of the code.

## Hit points and knockouts (atlas-app-service, atlas-local-state)

Damage to a participant may knock it out, and what happens then depends on
facts that the client may not know: whether it was lethal, critical, dealt by an
enemy. The damage is then recorded and a *decision* is left open, to be answered
or dismissed later, unless something else happens to the participant first.

- `HitPointRules.tla` has the rules as operators on the health of a participant:
  `Damage`, `Heal`, `Knockout`, `Resolve`, `StartDying`, `Life`, `Condition`. Each
  gives the new health or an `Effect`: the health it leaves, the decisions it opens and the place
  in initiative it takes.
- `EncounterHealth.tla` has the commands. Each looks for its receipt in a session
  (`Recover`), reads and plans in another (`ReadAmount`, `ReadDecision`,
  `ReadLife`, `ReadCondition`; `List` is a third one), and commits the plan with its guards
  (`Commit`). The write also retires the decisions it made obsolete (`Retired`).
- `Knockouts.tla` is the promise: every command is one step on the encounter as
  it is, happens at most once, and a decision lasts exactly as long as nothing
  happens to its participant. It has no revisions, no receipts and no recorded
  values.

| code | model |
| --- | --- |
| `record_hp_amount` | `ReadAmount`: the client's revision of the participant, the snapshot's revision of the encounter |
| `resolve_encounter_hp_lifecycle` | `ReadDecision`: the client's revision of the encounter |
| `set_encounter_life_settings` | `ReadLife`, and `List` for the decisions, which it reads in another session |
| `EncounterEvent::evaluate_in`, `write_condition_event` | `Commit`, `Written` |
| `pending_is_current`, `retire_stale_hp_decisions` | `Current`, `Retired`: counters of a participant of a record are known only to a command that prepared its source |
| `apply_encounter_hp_action` with an exact value | `SetHitPoints` |
| condition commands on Dying, Wounded, Doomed | `ReadCondition`, which applies the condition with the consequences of `plan_condition_transition` or corrects it without any; `SetCounter` for other clients, with the consequences |
| `base_death_threshold` | a field of the health of each participant, which life settings write and an event may be told another value of (`KnockedOut`) |
| lost answers, refused sessions | `Answer`, `Fails`; a body may be submitted any number of times |

| run | instance | what it shows |
| --- | --- | --- |
| `health` | two threads, two of twelve bodies about one participant with one hit point, three writes, among damage of unknown facts, corrections and changes of Dying and Doomed by other clients; 808 thousand states | `DecisionsAreCurrent`, `NobodyOutlivesTheThreshold`, `ImplementsKnockouts` |

`ImplementsKnockouts` is a refinement: the health, the order and the receipts
are those of the encounter, and an open decision is a pending row without the
values it recorded. It says that no interleaving of sessions shows, that no
retry deals damage twice, and that the comparison of recorded with present
values never lets a decision outlive the event it is about. Deciding takes three
writes (damage, an answer, and something between or after them), two bodies are
what overlaps, and one hit point is enough for damage, healing and damage again.
The bodies are the kinds of command that a participant of one hit point can meet:
damage of unknown facts and a critical blow that is told a higher threshold,
healing, the answers to a decision and its dismissal, life settings that revive,
that stop the tracking, that lower the threshold and that begin a knockout, a
condition that applies and a correction. `Together` says which two of them meet in one
behaviour: the critical blow and an answer with any other, damage of unknown facts
with what ends its decision, these with each other and with what revives, spares or
fells its participant, and whatever concerns the threshold with each other. Two
that are neither, as healing and a correction, do not meet. Threads are symmetric.

The revision of a participant is the number of the write that last changed it:
the code compares it only for equality. A command that changes conditions alone
does not advance it, so an amount may be planned after a condition that its
client has not seen; it is then applied to the condition as it is.
`record_hp_amount` reads the receipt and the revision in two sessions, as
`advance_encounter_turn` does: see Findings.

Left out: Petrified, Confused, Prone and Drained, hazards, conditions that a
record gives, natural rest.

A participant does not always die when Dying and Doomed reach its threshold. The
code writes a new `base_death_threshold` without holding the counters against it
(condition_events.rs:102), gives a correction no consequences
(condition_events.rs:566, rules/events.rs:64; ADR 0048 says so), and prefers the
threshold an event is told to the participant's own (rules/hp_events.rs:329). So
no invariant says that the living are below their thresholds.
`NobodyOutlivesTheThreshold` is about steps: a write in which Dying or Doomed
grows never leaves their sum at the threshold, unless it is the write of a
correction, of settings that lower the threshold in the same command, or of an
event that was told a higher one (`Excepts`). It looks at the rows before and
after the write, while the write carries out a plan that was made in another
session. Settings that only lower the threshold make no counter grow, and the
property says nothing about them.

Proved in `EncounterHealthProofs.tla`, for all participants, bodies, edits,
threads, values and bounds: `NobodyOutlivesTheThreshold` (`TheThresholdIsKept`),
`DecisionsAreCurrent` and `ImplementsKnockouts`, from the assumptions on the
constants alone; a participant may start at any health and threshold.
`DecisionsAreCurrent` is not inductive, and `IndInv` adds what is missing:

- A write trusts a plan made in an earlier session. `SoundPlan` says what holds of
  every plan by itself: the decisions it opens are about its own participant. `Fits` says what holds of it
  on the rows it was made for: a command that did not prepare the sources of
  its participant, and so cannot retire a knockout by its counters, leaves the
  counters alone or settles all that is open. A plan fits the rows as long as
  they are at the revision it expects (`Planning`), and only then is it written.
  `List` closes the gap for life settings, whose plan fits nothing before the
  decisions are listed.

The rules come first (`KnockoutIsSound` to `LifeIsSound`), then the write
(`WrittenRows`, `WriteKeepsRows`), then one lemma for each step.

`CommandsKeepThePromise` proves `ImplementsKnockouts` as well, from a stronger
invariant, `Meaning`, which TLC found true of the instance of `health` before:

- `Meant`: what a thread is about to write is what its request asks of the rows
  *as they are*, unless they have changed since it was planned, and then its
  guards refuse it. For life settings that decide something this holds of the
  plan with the decisions it has yet to list.
- `Keyed`: an open decision is known by its key, so that what a plan settles by
  key is one decision of the promise.

The step of the promise then follows in four parts. The rules that `Knockouts` is
written with are the rules of the commands (`SameMove` to `SameAnswer`: an answer
depends on nothing that the promise does not know of a decision). The decisions
that outlast a write are those to whose participant nothing happened, although
only recorded values are compared, and not all of them where the sources are
not known (`OutlastingWrite`, where `Fits` is used). So a write does at once what
its plan says (`WriteDoes`), and the write of an intended plan is the step of its
request (`RequestDoes`). Every other step is a stutter.

`TheThresholdIsKept` rests on `Meaning` too. What is written is what the request
asks of the rows as they are, so it is enough that no rule carries a counter to
the threshold of the health it is given without killing (`KnockedOutSpares` to
`HealSpares`), and to say for the excepted ones which fact of the request, or of
the decision that it answers, excepts them (`IntendedSpares`).

`TypesHold` is proved from `TypesInv` (what a thread plans opens decisions of the
right shape about participants), together with something that `TypeOK` does
not say: everybody stays in initiative exactly once. The place of a participant
after a knockout is found by looking it up in the order, which means nothing if
somebody is missing or listed twice. `InitiativeOrderProofs.tla` has what this
needs of `Before` (`Reordered`), for any order; `EncounterTurnsProofs` uses the
same facts.

## Findings

- `matching` (`MatchingRequestsRecover`). ADR 0048 and the comment at
  `workflow.rs:689` say that a matching request recovers before it is checked
  for staleness. `advance_encounter_turn` has a session between its two
  recoveries which checks the revision. A second submission that passed the
  first recovery just before the first submission committed is refused as
  stale. The client can submit again and then recovers (`RetriesRecover` is
  about attempts that begin after the command took effect). The amounts of
  `record_hp_amount` have the same shape.

## Type invariants

The types of the variables are proved of `Workspace` (and checked by `peers`),
`NeighborReuse`, `WebService`, `ReferenceUpdates`, `EncounterTurns` and
`EncounterHealth`. The runs of these modules spend their properties on more than
types.

## Not modelled

- atlas-index: the construction of projections, vectors and layouts is a large
  pure computation; when it runs and over what is `ReferenceUpdates`. Queries
  read one session.
- Saved lists and parties: single edits in a savepoint, without receipts or
  revisions that span sessions; their commit is `CommitWrite` of `Workspace`.
- Persistent damage, spells, strikes, rolls and the other conditions of an
  encounter: rules over data, written through the events of `EncounterHealth`
  and `EncounterTurns`.
- Ranking, fusion, similarity scores, parsing, rendering, dice and tags: pure
  functions over data, without state. Most of the repository's lines are of
  this kind (the generated types of atlas-foundry-model alone are a large part).
- Downloads and the model cache, savepoints that cannot be rolled back, the
  command line, the browser, scripts.

## Plan

1. Done: `Workspace` with its proofs and refinement, `NeighborReuse`,
   `WebService`, `EncounterTurns`, `ReferenceUpdates`, `EncounterHealth` with the
   proofs of its invariants and its refinement.
2. Done: proofs of every safety and action property that the runs check, in all
   six modules with state, and of both refinements.
3. Persistent damage and dying checks at the ends of turns, beside
   `EncounterTurns` and over `HitPointRules`.
4. `atomic_action.rs`: nested actions of one connection, a failed release.
5. The model cache of atlas-embedding.

Every invariant and action property of the passing runs is proved for all values
of the constants. Only model-checked, and to stay so: liveness (`CallsReturn`,
`TasksEnd`, `MarkersAreCleared`), which is out of the prover's reach, and the
disagreement shown by `matching`, which is a counterexample.

The proofs assume what the modules assume of their constants (each ASSUME is
evaluated by the runs) and nothing else. They are about the models: that a model
is its code is what the tables above and the lines in `PROJECT.json` are for.
