# A verification project for silicon-notebook's backend

silicon-notebook is a self-hosted research notebook: a FastAPI backend
(`src/backend/app`), a Next.js frontend, PostgreSQL or SQLite. The backend runs
as **one** Uvicorn worker process (`packaging/DEPLOY.md`, `docs/`), so the
queues, registries, caches and locks that live in its memory are authoritative.
They are shared by request threads, dispatcher and pool threads, background
jobs and the event loop. This directory models that concurrent core in TLA+,
checks it with TLC on small instances and proves part of it with TLAPS.

## 1. Inventory

| Component (under `src/backend/app`) | State | Operations | What is hard | What makes it correct |
|---|---|---|---|---|
| Model scheduling: `services/model_scheduler.py` | lanes of per-actor deques, total and per-actor counters, slots, dispatch index, one dispatcher thread, an executor | submit, dispatch loop, execute, drain, snapshot, stop | removal under the lock but settlement after it; client cancellation at any point; drain racing submits | slots never exceeded or lost, every future settles once, no lost wake-up, no lane or actor starves |
| Circuit breaker: `services/model_circuit_breaker.py` | state, epoch, failure count, probe permit | admit, abandon, record_success, record_failure | late answers; probes compared by value; seven ways a probe can end | one probe at a time, late answers inert, never locked out |
| Model provider: `services/model_provider.py` | registry of schedulers, closing flag | submit, rebind, close | close racing submit | no scheduler is created after close |
| KG run control: `services/kg/run_control.py` | failure, publication phase, children | abort, child, release_child, raise_if_aborted | first failure wins among threads; publication before waking | no caller raises before the failure is published; children of an aborted run are aborted |
| KG maintenance slot: `services/kg/maintenance_jobs.py` | per-notebook slot, claim, arbitration | claim, revoke, settle, busy refusal | two mutually exclusive job families, probe outside the lock | never both at once, no slot leak |
| KG scheduler: `services/kg/scheduler.py` | window and job pools, waiting and active counters | submit, run, release | tickets released on every path | counters equal the work in flight |
| Ask execution: `services/ask_execution.py`, `repositories/*/ask_state_store.py` | durable job rows, conversations, answers, cancellation registry, follower queues | start, attach, follow, cancel, finish, cleanup of empty conversations, deletion, recovery at start-up | client retries with the same request id, disconnects, a conversation that is removed under a question, process restart | one job per request id, no conversation lost under a job, every stream ends as the row does |
| Reports: `services/report_execution.py`, `services/report_engine.py`, `repositories/sqlite/report_store.py` | the row with its status and outline, generation gate, cancellation registry | create, confirm, plan, generate, edit the outline, cancel, delete | the worker of one phase is still ending when the next is claimed; automatic and requested claims race | one worker owns the row, cancels stay true and reach the generation, the result fits the outline |
| Pending bus: `services/pending_bus.py`, `api/system_routes.py` | subscribers, sequence numbers, last delivered sequence | publish, subscribe, stream | snapshot recomputed on any thread, delivered out of order | every connection ends with the latest state |
| Background jobs: `services/background_jobs.py` | heavy, light and delete pools, monitor | submit, worker, monitor, stop | pool threads dying, pools at capacity | every accepted job runs once |
| Global ask feed: `services/global_ask_feed.py` | buffered events, subscribers | publish, subscribe, close | subscribe racing publish and close | each subscriber sees each event once, in order |
| Caches: `services/vector_cache.py`, `services/review_queue_memo.py`, `repositories/memory_mode_epoch.py`, `repositories/*/knowledge_counts_cache.py` | entries, generations, in-flight loads | get, load, invalidate | a load that started before an invalidation finishes after it | no stale value after an invalidation returned |
| Notebook deletion: `services/notebook_delete.py` | durable phases, claim, grace window | request, undo, sweep, phases | crash between phases, undo racing the sweeper | an undone deletion deletes nothing, a started one completes |
| Profile, memory and catalogue jobs: `services/*_job.py` | durable single-flight claim, pending threshold | trigger, claim, finish | a trigger during a run | no trigger is lost, one run at a time |
| Notebook transfer, shadow migration | durable jobs, replication cursors | export, import, replicate | crash and replay | idempotent replay |
| Retrieval, parsing, prompts, API routing, frontend, evaluation | mostly pure functions or I/O | | | not concurrency-relevant |

Components interact by direct calls (a job submits model work and blocks on the
future), by events (`threading.Event` cancellation signals read by schedulers),
by durable rows (job tables written by one thread and recovered by the next
process) and by callbacks (`Future.add_done_callback`, `call_soon_threadsafe`).

## 2. Plan

The order puts what every part of the program shares first, then what its users
wait for.

| Step | Modules | Composes | State |
|---|---|---|---|
| 1 | `BreakerRules`, `CircuitBreaker`, `DispatchRules`, `DispatchOrder`, `DispatchFairness`, `ModelScheduler` | the scheduler uses both rule modules and implements `CircuitBreaker` and `DispatchOrder` | checked, proved |
| 2 | `KgRunControl`, `KgAdmission` | | checked, proved |
| 3 | `PendingBus` | | checked, proved |
| 4 | `NotebookDelete` | builds, uploads and index builds run beside it | checked, proved |
| 5 | `AskJobs` | submissions, followers, cancels, deletions and restarts on shared rows | checked, proved |
| 6 | `ReportJobs` | requests, workers, registry and gate on one row | checked, proved |
| 7 | `KgBuild`: `_extract_targets`, `_run_notebook_kg_job`, `chat_json`, the window pool | `KgRunControl`, `KgWindows` | open |
| 8 | `VectorCache`, `ReviewMemo`, `SingleFlight`: loads racing invalidations and triggers racing runs | an abstract cache "no value older than the last invalidation" | open |
| 9 | `JobPools`, `JobFeed`, `ModelProvider`, `Transfer`, restart recovery of `KgAdmission` | | open |

The abstract specifications that are stated are the breaker's contract
(`CircuitBreaker`) and the waiting room (`DispatchOrder`); worth stating next is the coherent cache, and worth proving
next that no cached value survives an invalidation. Bounds of the runs to come: two
to three callers, one or two keys, one restart.

## 3. Modules

### Scheduling of model calls

**`BreakerRules`** has the decisions of `services/model_circuit_breaker.py` as
operators on a breaker value, a record of state, consecutive failures, epoch and
the probe's permit; `cooled` stands for the clock. `Admitted`, `Abandoned` and
`Recorded` are `admit`, `abandon`, and `record_success` with `record_failure`,
early returns included; `FailureKind` is the classification of errors. Permits
are values, as in the code, where two probes of one epoch are equal.

**`CircuitBreaker`** is the abstract specification: holders take a permit and
give it back, with an outcome or without, at any time. It is what the scheduler is shown
to implement.

**`DispatchRules`** has the waiting room: lanes by priority, in each lane a
rotation of actors, each with its own queue, and the fixed 8:2:1 pattern. It is
`_take_next_locked`, the insertion of `submit`, and the removals of
`_collect_stale_locked` and `_take_all_queued_locked`; `Kept` is the loop that
copies what stays, a recursive function so that one can prove about it.
**`DispatchOrder`** is the room alone under arbitrary submissions, withdrawals,
takes and drains; what makes an item stale and when a slot is free is left to
the scheduler, which extends it, so that the room is one and the same, and
states as `FollowsDispatchOrder` that it implements it. **`DispatchFairness`** adds the
service history, `passed` and `overtaken`, in which fairness is stated.

**`ModelScheduler`** is one `ServiceScheduler` with everybody who touches it.
An action is one region under `_condition`, one breaker method or one
transition of a future, because those are the code's atomic steps: what a
thread removes under the lock it settles *after* the lock, and `settler[w]`
holds which thread still owes that. `life[w]` is the program counter of an
invocation:

| In the model | In the code |
|---|---|
| `Accept`, `Refuse`, `FinishRefusal` | `submit`, its refusals by breaker, shutdown, total and actor limit |
| `DispatcherCollects`, `Claim`, `DispatcherWaits`, `WaitTimesOut`, `DispatcherExits` | `_dispatch_loop`, `_wait` with its timeout |
| `Start`, `StartAborted` | the hand-over to the executor, or the future found cancelled |
| `BeginCall`, `EndCall`, `SkipCall`, `DeliverOutcome`, `DrainUnavailable`, `FinishActive` | `_execute`: the call, its record in the breaker, the drain, the slot |
| `Settle` | the settlements after the lock |
| `Snapshot`, `StopAdmission` | `snapshot`, `stop_admission` |
| `RequestCancel`, `ClientCancels`, `Expire`, `CooldownElapses` | the clients and the clock |

The dispatcher's sleep is explicit (`awake`, `asleep`, `exited`), so a missing
`notify` is visible.

### Knowledge graph

**`KgRunControl`** is `KgExtractionRunControl`: any thread may abort a control,
ask, derive a child or release one, and the callback runs outside the two locks
between claiming an abort and publishing it. `publishing` is the flag other
threads wait for. Of the component, the build job that calls it is still to be
modelled, hence "partly".

**`KgAdmission`** is the admission to the graph of one notebook: the marker
`kg_building`, the slot of maintenance passes, the arbitration lock and the
durable row, with analyses, pipeline rebuilds, standalone deletes, passes,
graph deletions, and another process that only shares the row. `at[c]` is the
program counter of an attempt over `prepare_notebook_kg_job`,
`_run_notebook_kg_job`, `KgMaintenanceJobs.claim` and the job bodies. Each read
and write of the durable row may fail. A builder is `lost` when it ends without
lowering its marker: its first read fails (`StartRaises`), the failure of its
submission cannot be recorded (`FailSubmission`), or attaching or publishing a
pipeline rebuild raises (`Submit`, `PublishRaises`).

### Pending bell

**`PendingBus`** is `pending_bus.py` with the stream of `system_routes.py` and
the calls in the job services: a change is committed, then `mark_dirty` or
`mark_dirty_throttled` looks for a loop, for subscribers and at the window,
takes a number, reads the parts of the snapshot one by one, and hands the
result to the loop, which copies it to every registered queue. A connection
binds the loop, registers, flushes the buffered events, makes its own first
snapshot and then shows queued snapshots with higher numbers. Any other thread
may commit between two reads. `failed` and `expired` are history variables.

### Deletion of a notebook

**`NotebookDelete`** is `services/notebook_delete.py` over the rows of
`notebook_delete_job_store.py`. The owner's request opens the window
(`RequestPending`) or deletes at once (`Request`); `Cancel` takes it back, with
the instant that it compares read before (`ReadCancelInstant`); each process
has a sweeper (`ListDue`, `Promote`, `SweepStale`, `ListMissing`, `Recreate`)
and one thread of the delete pool, whose position is `run[p]`. That thread takes
a lease, records the paths, waits for builds (`Quiesced`), takes the claim on the
artifacts, deletes rows unit by unit and files, each batch behind the gate
`_batch_ok`, and finalizes in one transaction. A process may end at any step, with
its worker, its sweeper and the uploads and index builds in it (`Crash`), a slow worker may be taken for dead (`LooksDead`), a batch may raise,
the claim may be lost, and the notebook may vanish by hand; builds, uploads and index
builds that were admitted before go on beside it. An upload writes its file first;
a refused row takes it back (`InsertRow`), or keeps it where the program could not
find out whether the row is there (`KeepFile`). `outside` is history: what happened
that the program cannot make good; a writer is `left` when it outlived the notebook
and ended with its file still there.

### Questions

**`AskJobs`** is `services/ask_execution.py` over the ask and conversation
stores, statement by statement: `at[x]` is the position of a submission (request,
worker, follower), of a cancel or of a deletion. The store is the PostgreSQL one;
`Held` lists the positions in the midst of a transaction that has locked its
conversation, "answering" the one that has locked its job. In SQLite these
transactions exclude each other, so its behaviours are among these.

| In the model | In the code |
|---|---|
| `Submit`, `Lookup`, `EnsureConversation`, `InsertJob`, `InsertCollides`, `Reread` | the request: the key's job, `begin`, the unique index behind it |
| `StartWorker`, `StartFails` | registry, thread, or no thread |
| `PrepareTurn`, `CheckStillRunning`, `Think`, `LockJob`, `SaveAnswer` | the worker; the answer commits with status and conversation |
| `FinishJob`, `Unregister`, `LockForCleanup`, `Cleanup`, `FinishRaises` | `_finish` and the cleanup of an empty conversation |
| `Follow`, `FetchAnswer`, `StopFollowing` | `_follow` |
| `CancelRow`, `Signal` | the cancel endpoint; its cleanup is the worker's |
| `LockForDeletion`, `RemoveConversation` | `delete_conversation` |
| `Restart` | the process ends, and recovery settles what it finds running, or fails to |

### Reports

**`ReportJobs`** is one report: `services/report_execution.py`, the claims and
guarded updates of `report_store.py`, the handlers of `report_routes.py` and the
order in which `ReportEngine` writes. A request and the worker it starts are one
process. `Update` is `update_report`, which leaves a terminal row alone;
`Claimable` is the condition of the claim of a generation; `registry` holds one
event for the report, which the next phase replaces while the worker of the
phase before may still unregister; `permits` and `elsewhere` are the gate, where
other reports are only the permits they hold. Outlines and contents are named
after who wrote them, so that "generated from this outline" is an equation.
`overtaken` is history: the edits whose check a claim has overtaken.

## 4. Runs

| Run | Instance | Shows |
|---|---|---|
| `breaker` | 5 holders, the code's threshold 3 | single probe, inert late answers, opening on evidence, no permanent lock-out; three failures to open it, a probe and a late answer of an old epoch fit |
| `dispatch_order` | the real pattern, 3 lanes, 2 actors, 2 waiting items each, up to 3 kinds of item an actor | no lane passed over longer than a gap of the pattern, no actor overtaken twice |
| `scheduler` | 1 slot, 3 invocations, 2 actors, queue limit 2, threshold 1 | no lost wake-up, one settlement, who waits in an open breaker, and refinement of `CircuitBreaker` |
| `scheduler_live` | 1 slot, 2 invocations | everything settles and a stop completes if provider calls end; what is cancelled or expired settles even if they do not |
| `kg_control` | 2 threads, 2 children, 2 failures | publication before knowledge, every child woken, and that every call returns |
| `kg_admission` | 2 analyses, 1 pipeline, 1 standalone delete, 1 pass, 1 graph deletion, another process | exclusion, ownership, and that slot and marker come free where no builder is `lost` (`ClaimsGivenBack`) |
| `kg_admission_reservation` | 1 analysis, 1 pass | finding, see section 7 |
| `bell` | 1 job, 1 connection, 1 event, 2 changes | freshness at rest and catching up; buffering, flushing, fan-out and expiry of events |
| `bell_order` | 2 jobs, 1 connection, 2 changes | finding, see section 7 |
| `notebook_delete` | 2 processes, 1 writer of any kind, 2 units of rows, 2 attempts, 1 misfortune | the undo, waiting for builds, one archive, no file left, fenced workers, and an end |
| `ask` | 2 submissions, 1 key or none, 1 cancel, 1 deletion, 1 restart or failed statement | one job per key, conversations kept, true endings, no empty conversation left, every stream ends |
| `report` | creator, 1 confirmation, 2 generations, 1 edit, 1 cancel, 1 deletion, gate of 1 | one owner, cancels that hold and reach, result fits outline, work ends |

Why the bounds are enough: the scheduler's queue limits are multiples of the
slots (10 and 2 in the code) and the code only compares with them, so the runs
choose small ones that are reached (the actor's limit bounds `dispatch_order` in `Bounded`).
Three invocations are a running one, a waiting one, and one that is refused or
overtakes. The pattern is shortened to three turns there because
`dispatch_order` checks the real one. Two threads and two failures are the
winner and the loser of an abort. In the bell one connection suffices for
staleness, since connections do not read one another's state; two jobs, for
numbers out of order, are in `bell_order` and in the theorem. In the deletion two
processes are a worker and the one that takes its lease; two units are a cursor
in the middle; two attempts are a job that fails and one that replaces it. One
misfortune cannot use them up, so in that run a promoted deletion always ends
and `GivenUp` is never its way out. In
`ask` two submissions are two of one key or two that share a conversation, and a
third party (cancel or deletion) is always there. In `report` two generations are
an attempt and its retry, while the creator's automatic claim is a third.
Instances too large to check, such as several slots, more threads, more
submissions, or snapshots of several parts that a commit tears, are covered by
the theorems of section 6, which hold for all of them.

`CHECK_DEADLOCK FALSE` appears where every attempt, invocation, event, request or
connection is used once: when all are done the instance stops. The run control and
the dispatch order run for ever, and there deadlock is checked.

**Mutants.** Each property of a passing run has a faulty definition, before the
one it replaces and marked `Faulty`, that makes the run fail: a missing notify,
a counter that counts stale items for the wrong actor, a slot test off by one,
a refusal that lowers another's marker, a number taken when a snapshot is sent,
a conversation looked up without its lock, a worker that unregisters its
successor, a finalizing transaction without its fence.

## 5. Fairness

Weak fairness only, per thread and not per action, and only where the code
cannot stay:

- *Breaker.* Holders answer or abandon, and time passes.
- *Scheduler.* A thread that is not blocked goes on; the dispatcher's timed wait
  ends. That is `FairSpec`. `ProviderFairness`, that provider calls end (which
  the transports' timeouts give) and that time passes, is a premise of the two
  properties that need it, so that `StaleSettlesAnyway` is checked without it.
- *Run control.* A thread inside the control goes on; nobody has to call.
- *Admission.* A submitted attempt is executed, since its pool serves its queue,
  and goes on; `FairSpec` forces nobody to begin.
- *Bell.* Threads and the loop run, reads end, a job that has begun finishes and
  publishes that without throttling; nobody has to connect or to leave.
- *Deletion.* Delete threads and sweepers go on, writers that were admitted end,
  and a lease that is not renewed ages. Nobody has to ask, and the number of
  misfortunes is bounded by `MaxTrouble`: a job that fails for ever is given up.
- *Questions.* Request threads, workers, followers, cancels and transactions that
  have begun go on, and engines end; nobody has to ask, cancel or delete.
- *Reports.* A claimed phase goes on and its engine ends, and other reports give
  their permits back (`WF` on `OtherEnds`). They do not take permits again: the
  semaphore is not fair, and nothing in the code keeps others from overtaking for ever.

## 6. Proofs

All theorems hold for every value of the constants under the named `ASSUME`s:
finite sets of callers, positive limits, kinds of callers that do not overlap,
and markers such as `Nobody` that are none of the values. Each `...Proofs`
module EXTENDS the module it is about.

- **`CircuitBreakerProofs`**: types and `SingleProbe`. The
  strengthening is that no permit is of a future epoch (`NoFuturePermit`): a
  late answer can only be of the current epoch or of a past one, and a past one
  changes nothing. The two action properties are about `HSpec`, the breaker with
  its history; `HistoryInv` ties the history to the epochs (a permit held is
  outdated exactly if its epoch is past) and to the counter (it is at most the number of
  callers in the streak), so `LateAnswersAreInert` and `OpeningNeedsEvidence` follow.
- **`ModelSchedulerProofs`**: `SchedulerInv` has one conjunct per question that
  the others raise: types; `CountersExact` (both counters equal what waits);
  `SlotAccounting`, stated as the theorem `SlotsAccounted`; `RunningIffExecuting`; `VerdictReady` (what is taken out has
  the verdict that will settle it); `PendingUntilReturned` (no client can
  cancel a future it does not have yet); `PermitCarried` (a permit is held
  exactly between admission and record). `WakeupsKept` has an invariant of its
  own about the sleeping dispatcher. `OnlyTheProbeWaits` is inductive beside
  `SchedulerInv` and `SingleProbe`: the thread whose report opened the breaker owes a
  drain until the room is empty, an open breaker admits nobody, and giving
  back the probe's permit is giving it back for the only one that waits. The
  refinement theorem `BreakerContractKept` maps each step to a step of
  `CircuitBreaker` or a stutter with `PermitStage`; `SchedulerProbesOnce` then
  follows from the breaker's own theorem.
- *The waiting room*, in the same module. `Kept` is recursive, so its lemmas need an
  induction: `Induction` derives one from the well-founded order of the naturals, for a set
  instead of a predicate, and `KeptIsPart` says with it that `Kept` picks the
  right elements in their order. On it rest lemmas about what `Enqueued`, `Without`
  and `AfterTake` do to a well-formed room (`RoomShape`: an actor has one turn in
  a lane exactly while it has a queue there) and to what it holds (`Holds`).
  `RoomMoves` sorts the steps of all threads into five; `RoomInv` is
  preserved by each, which gives `RoomStaysExact` (no run checks it; it says among other things
  that `_take_next_locked` never raises its `AssertionError`), the room's part of
  `SchedulerTypeCorrect`, and `RoomFollowsOrder` (`FollowsDispatchOrder`), that the
  scheduler implements `DispatchOrder`. `LanesNeverStarve` and `ActorsTakeTurns` are about `DispatchOrder` with its
  history. `PassedInv` says where a lane was passed over: at the positions just
  before the index, none of which is its turn. `OvertakenInv` says where an actor
  stands that was served since another began to wait: behind it.
- **`KgRunControlProofs`**: `ControlInv` treats `publishing` as a lock
  (`OnePublisher`): at most one thread is between claim and publication of a
  control, and only before it has a failure. `AnnouncedIsPublished` says that
  what was announced becomes the failure (so `AbortPublishedFirst`: nobody learns
  of an abort before its callback has returned), `EventIsFailure` that the job's event
  and failure come together, `OneWaker` that one thread wakes the children.
- **`KgAdmissionProofs`**: `AdmissionInv` has `Sides` (each phase belongs to one
  kind of attempt), `ArbiterIsInside` (the lock is held exactly in the phases
  under it), `SlotIsOwned` (a running entry has exactly one owner), `Apart` (a
  holder of the slot beside an admitted marker is about to see it and give way)
  and `DisplacedIsOld` (what a claim would restore is not running).
- **`PendingBusProofs`**: `NobodyLeftBehind` says that nothing is left behind at
  rest; the inductive form must say where the newest state is while it travels.
  `Covered` has a threshold `t`: every read begun under a number of at least `t`
  sees the committed world (`FreshFrom`), and such a number is still to be
  taken, being read, with the loop, queued or shown at each listening connection (`AllComing`).
  A commit moves `t` above every number given, which is allowed because the job
  then owes a publication; `ThrottledRuns`, `LoopFirst` and `NumbersGiven` say
  that it cannot lose it. `EventsAreKept` counts: lemmas say how appending, taking
  and showing a message change the occurrences of an event, and a connection has
  nothing flushed to it before it registers (`ReplayEmpty`).
- **`NotebookDeleteProofs`**: `DeleteInv` has one part per property. Before the
  tombstone there is neither job nor worker (`NothingEarly`). Workers write
  the phases they have passed, so a later phase, in the row or remembered by a worker
  that lost it, says that the builds have ended (`PastIsQuiet`). Numbers of
  jobs never return (`Numbered`): while a worker finds its row, the side table is
  the one it filled (`Recorded`), and when it has emptied it the known files are gone
  (`KnownGone`). A late file is there only while somebody is to sweep, and after
  that while its upload is at work or as what it left (`LateFiles`).
- **`AskJobsProofs`**: `AskInv` joins `Rooms`, `Outcomes` and `Tidy` to the
  properties. `Rooms`: a submission has no job before it inserts (`NotYet`), names are
  spoken of only after they were made (`MadeFirst`), a row lock has one holder
  (`OneHolder`), and whoever inserts does so into a conversation that is there or its own
  (`FoundOrOwn`). Hence a key is free exactly when no row has it, and nobody takes the
  conversation between look and insert. `Outcomes`: the job of a worker at work
  runs or was cancelled or deleted (`WorksOnRunning`), events are set after the
  row (`SignalledLate`), and what a worker has concluded is in the row or
  will be written by `_finish` (`Concluded`). `Tidy`: as long as nothing fails, each
  conversation without an answer is watched by somebody who will sweep it (`Watched`);
  whoever finds it in use leaves it to a running question, whose worker is at work.
- **`ReportJobsProofs`**: `ReportInv` says who owns a row (`OneOwner`) and that its
  status fits the owner's phase (`StageFits`), so each claim compares with a
  status in which nobody owns it; that signals come after the cancelled row
  (`SignalsAreLate`) and the event of a requested generation is the registered
  one from submission to end (`Registered`), so a signal reaches it; and that
  what a generation has read is what the row shows, edits that it has overtaken
  aside (`SeenFits`).

Only model-checked: all liveness, which the prover cannot do. For the
scheduler that includes that the waiting room's fairness becomes service: the
theorems bound how often others go first, `EverySubmissionSettles` says that turns come.

## 7. Findings

- `kg_admission_reservation`: an analysis whose first read of its row fails
  (`knowledge_lifecycle.py:4178`, before the `try`), a refused submission whose
  failure cannot be recorded (3803), or a pipeline rebuild whose attachment or
  publication raises (3749) leaves its marker up until a restart, against the comment
  that every failure path releases the reservation (3613). The instance has one
  analysis, so TLC's trace is one of the first two.
- `kg_admission`: the docstring of `_relink_after_build` (4096 to 4115) expects its tail
  to lose the slot to another relinking or rebuild now and then, and the handler
  at 4132 reports it. Since marker and slot are arbitrated, that does not happen
  in one process: `TailFindsSlotFree` is checked, `TailGetsSlot` proves it, and
  comment and handler are left over.
- `bell_order`: a dropped snapshot can be the newer one, since numbers are taken
  before the reads begin and a reader may be slow to begin. The comment that
  justifies the drop says otherwise. It does no harm: whoever committed the newer
  change publishes under a higher number, and `BellIsCurrent` proves that no
  connection stays behind.

Three observations about reports that no run states as a violation; the module
describes what the code does:

- `update_report_outline` checks `outline_ready` (`report_routes.py:551`) and
  writes much later (653) without a condition. A generation that is claimed in
  between shows an outline it was not written from, while
  `docs/product-and-api.md:5827` says that edits are accepted only in
  `outline_ready`. `DoneMatchesOutline` has exactly this exception, `overtaken`.
- The worker of an automatic report whose registration was replaced by a
  request of the owner that then failed claims the *failed* report and
  generates without a registered event; an acknowledged cancel then signals
  nobody. `CancelStops` therefore speaks of requested generations.
- With `auto_generate`, a failed planning is claimed for generation all the same
  (`report_engine.py:3593` to 3610), and its error is replaced by the one of a missing outline.

## 8. Not modelled

- *Scheduler*: an executor that cannot start a thread after it has queued the
  work; how an exception is recognised as one of the kinds that `FailureKind`
  classifies (a call may end with any kind); wording and metrics. `ModelProvider`, the registry, comes later.
- *Run control*: classification and wording of failures, and how its callers use it.
- *Admission*: interpreter exits and `KeyboardInterrupt`; recovery at start-up;
  the second instance of the slot, for conflict detection.
- *Bell*: changes that publish nothing; several users, who share only the loop and
  a lock; the fixed order of the reads, of which any order is allowed; a restart
  of the process, after which clients reconnect to an empty bus.
- *Deletion*: directories of artifacts and the order of tables and pages inside
  a unit; the hand-over of an import; notices to users; a write of a file that fails
  halfway. Four things are there and excluded by name in the properties: a crash
  between the last commit and the sweep of stragglers, or an error of that sweep,
  leaves a late file (`outside`); so does an upload that outlives the notebook and
  then ends with its process, or cannot check for its row and keeps the file on
  purpose (`left`); and a build admitted before the request may begin after the wait ("late").
- *Questions*: answers and the engine, trace steps, the synchronous route, evidence
  mode, bulk deletion, a key used in two notebooks, and statements of `begin` that
  fail. The readiness gate answers 503 until recovery is done
  (`startup_warmup.py:792`), so `Restart` is one step. A recovery or a `_finish` that fails leaves a
  running row without a worker until the next start or a cancel; `StreamsEnd`
  names that case (`Orphaned`).
- *Reports*: what is planned and written; scopes and ceilings beyond their
  failure; statements on the row that fail, and an `engine_factory` that raises before the
  guarded part of a phase (`report_execution.py:253`, 351); a process that ends, after which by
  design nothing recovers a report (`report_execution.py:17`); several reports,
  which share only the gate; sharing and lists.
- The components marked `not_modelled` in `PROJECT.json`, each with its reason.
  For those of the plan the note names the hazard their module is for.
