# Formal models of qym

qym is an evaluation system for LLM applications: a Python SDK runs evaluations and
streams their events, and a platform (API servers, worker processes, one SQL database)
stores runs, launches evaluations on an external Evaluation Service, reviews results and
runs background analyses; a React application follows runs and edits what the platform
stores. This directory holds TLA+ models of the parts whose correctness
depends on interleavings and failures, the TLC configurations that check them, and proofs
checked by TLAPS.

All paths below are under `src/packages/platform/qym_platform/` (platform),
`src/packages/sdk/qym/` (SDK) or `src/frontend/src/` (frontend, `*.ts` and `*.tsx`). `PROJECT.json` maps every definition to the lines it models.

| module | models | checked by | proved in |
|---|---|---|---|
| `EvalDispatch` | the dispatcher and single-job cancels | `dispatch_safety`, `dispatch_liveness` | `EvalDispatch_proofs` |
| `ExperimentStatus` | the stored status and keys of experiments, under concurrent transactions | `experiment_settle`, `experiment_cancel` | `ExperimentStatus_proofs` |
| `JobRegistry` | background jobs shared by several processes | `registry_split`, `registry_liveness` | `JobRegistry_proofs` |
| `EventBacklog`, `EventFifo` | the SDK's event backlog, and the queue it implements | `backlog_fifo` | `EventBacklog_proofs` |
| `RunUpload` | one run from its first event to its completion | `upload` | `RunUpload_proofs` |
| `LivePage` | the page of a run that goes on: probes, reloads, loaded bodies | `live_page`, `live_page_moved` | `LivePage_proofs` |
| `DraftRules` | the autosaving editor of analysis rules, and the publishing of a draft | `draft_rules` | `DraftRules_proofs` |
| `LaunchForm` | the document and the API keys of the launch form | `launch_form` | `LaunchForm_proofs` |

To check a run: `tlc -config MC_EvalDispatch.cfg MC_EvalDispatch`; to check the proofs:
`tlapm EvalDispatch_proofs.tla`. Each `MC_` module only gives constants their values.

## 1. Inventory

Every component, with its files and status, is in `PROJECT.json`. The ones whose state is
shared between processes or survives a failure:

| component | state | operations | hard part | what makes it correct |
|---|---|---|---|---|
| Dispatcher (`services/eval_dispatcher.py`, `eval_service_client.py`) | job rows with lease, deferral, remote id; remote jobs | claim, submit, reconcile, poll, cancel, time out, close out the run | two workers on one job; POSTs whose answer is lost; crashes; cancels at any moment | one remote job per job, none lost; terminal is final; every cancel ends |
| Experiments (`services/eval_experiments.py`, `api/experiments.py`) | experiment status, keys, retries | recompute, bulk cancel, retry, settle sweep | transactions that read before they lock; sessions that remember rows | status = aggregate of jobs; keys live exactly as long as needed; no lock cycle |
| Job registry (`services/job_registry.py`, `analysis_jobs.py`, `job_executor.py`) | table `background_jobs`, handles in memory | submit, queue, claim, heartbeat, cancel, replace, expire | processes that race, stall and die; writes the database refuses | a job runs once; one job per scope; a cancel reaches its owner and is final |
| Upload backlog (`platform/_backlog.py`) | deque, private file, byte counters | put, get, task_done, dispose, discard | spilling in order; limits; a full disk | one FIFO queue; counters exact; nobody waits for ever |
| Upload stream (`platform/client.py`, the end of `core/evaluator.py`) | batch, retries, losses, refusals | emit, send, retry, isolate, close, complete | retries beside requests still served; refusals; Ctrl+C | no run is completed with an unseen hole |
| Ingest and run life cycle (`api/ingest.py`, `services/run_lifecycle.py`, `ingest_completeness.py`) | run status and reason, events, tallies, flag | apply a batch, lease timeout, force stop, cancel, review, close-out | duplicates, late batches, several writers of one row | every event once and in order; a completion stands |
| Maintenance queue (`services/maintenance.py`) | job rows with lease | enqueue, start, cancel, claim, step | cancels on unlocked reads; steps longer than a lease | one active job per kind; finished jobs stay so |
| Dashboard outbox (`services/dashboard_outbox.py`, `dashboard_summaries.py`) | change events, versions per partition, summaries | enqueue in the writer's transaction, apply, repair | concurrent writers, duplicates, deleted runs | a summary never goes back and ends up current |
| Live evaluation (`services/live_*.py`, `api/live_ingest.py`) | turns, scores, judge jobs | replace a turn, judge, retain | re-sent turns; retention beside ingest | scores belong to the turn they judged |
| Review (`services/run_review.py`, `issue_reviews.py`) | corrections and their decisions | submit, decide, withdraw | two reviewers; edits under review | one decision per correction |
| Submitter keys (`services/eval_submitter_keys.py`) | key rows and encrypted blobs | mint, keep for retry, revoke | settle racing retries | no live job loses its key |
| Sign-in throttle (`login_throttle.py`) | windows of attempts, attempts in flight | begin, failed, succeeded, cancel | concurrent attempts | the caps hold for attempts at once |
| Feedback agent (`feedback_agent/`) | requests, turns | ask, answer, retry | stale "thinking" turns | one turn at a time |
| Run page (`features/run-detail/hooks/useLiveRun.ts`, `useItemDetails.ts`, `lib/rowSignature.ts`) | cached rows, known revision, timers, queue of details | probe, reload, final reload, merge, fetch bodies | probes and reloads that overtake each other; hidden tabs; failing requests | the end of the run is shown; a live page goes on looking; every wait ends |
| Rules editor (`features/analyzer/useDraftRules.ts`, `guidance/RulesPanel.tsx`, `api/analysis.py`) | list being edited, autosave timer, save state; stored version | edit, autosave, adopt ids, leave, reopen, publish | saves applied and answered in any order; leaving before the timer | no edit forgotten; "saved" is true; ids are the server's |
| Launch form (`features/experiments/launch/`) | document (base, values, models), store of keys, syncs and loads under way | pick environments and base, edit, bind models, undo | loads that land on a document that moved on | keys and edits kept; the form rests on a base of its selection |
| Evaluator and checkpoints (`core/evaluator.py`, `core/checkpoint.py`) | tasks, metrics, a CSV checkpoint | run items, resume | crash within a row; cancellation | a resumed run equals an uninterrupted one |

How they interact: the SDK (or a remote evaluation worker) posts events to ingest, which
writes the run's row; the dispatcher reads that row, polls the service, settles jobs and
closes out runs; each settle recomputes the experiment and may clear keys; cancels come
from the API while any of this is going on. Analyses are started through the job registry
and read runs only. Everything is coordinated by the database alone: row locks, guarded
UPDATEs, leases and unique indexes; there is no message bus. The frontend holds copies: a page polls the revision of its run and
reloads, an editor saves by itself, and the launch form lays what it loads under what the user
has typed. Its handlers run one at a time, but between a request and its answer anything may
happen, and answers come in any order.

The rest (other pages, prompts, statistics, exports, validation of configurations, migrations,
tools) is not modelled: it is computation over stored rows, rendering, or text. Section 5 says
which parts could still be.

## 2. Modules and code

### EvalDispatch

`status`, `cancelReq`, `remoteId`, `owner`/`expired` (the lease), `held` (the deferral
`next_attempt_at`) are columns of `eval_experiment_jobs`; `run` is what the dispatcher looks
at in the linked run; `batch`, `pc`, `cur`, `out` are a worker's memory; `wire` and `svc` are
POSTs on their way and the service's jobs (external; modelled from `eval_service_client.py`).
A transaction is a step, a call to the service a step, and its answer is applied in a third,
so other workers, cancels, crashes (`Crash`), failing transactions (`StepFailed`) and lease
expiry come between. `cancel_job` is a sequence of guarded UPDATEs (`cancelPc`).

Abstractions: time is reduced to "a lease may expire, a deferral may elapse at any moment",
with one exception, `NoPostOpen`: a lease (120 s) outlasts the POST it covers (client timeout
35 s). Without it the protocol is wrong, so it is a stated assumption. The CAS of
`begin_submit` is modelled without the row lock, which is sound for SQLite and Postgres. One
cancel request at a time per job; a retry is a new job (ExperimentStatus). Left out: the page
limit of the reconcile, rows deleted under the dispatcher, `remote_status`.

### ExperimentStatus

A Postgres READ COMMITTED database: `committed` rows, and per session the rows it has loaded
or written (`seen`), the locks it holds and its place. An ORM session that loads a row again
keeps what it loaded first; only refreshed rows change. `Settle`, `CancelExperiment`/`CancelJobs`
/`CancelNext`, `Retry`/`RetryInsert` and `Sweep` are the transactions; `Recompute` takes the
experiment's lock in id order. `DispatcherMoves` summarises EvalDispatch.

Abstractions: run rows and environments are not locked; a commit that changes no status is
left out; the key is present or not; the unique constraint on retries is a guard; `GraceOver`
encodes that the key's grace (10 min) is longer than a transaction stays open; a sweep
that finds a newer attempt of a job it loaded does not revoke the platform key (`Retried`): that
attempt cannot have been over for the grace.

### JobRegistry

`status`, `queued`, `payload`, `flagged`, `stale` are the row; `mine` and `tracked` a process's
jobs and handles; `start`, `rival`, `published`, `picked`, `claimed` what a thread remembers
between two of its transactions. `ClaimSelect`/`ClaimUpdate` are the select and compare-and-set
of `claim`; `Describe`/`Write` the two halves of a publish; `ClaimInsert`/`ClaimReread`/
`ClaimReplace` the taking of a scope. `Failing` covers the writes the database may refuse,
`Crash` the processes, `Age` a stalled owner.

Left out: pruning after seven days, product evals, order and number of claims, an executor
that refuses a thread after `track`. A job whose first publish failed has no handle: the code
logs this and goes on, and `CancelReaches` does not speak of such jobs.

### EventBacklog and EventFifo

One action per operation under the condition variable; `disk` is what is unread in the file,
`diskBytes` its end, `unflushed` what a failed append leaves in the write buffer. A thread that
waits is a disabled action; timeouts and `Full` are stuttering. `EventFifo` is the promise to
the uploader: accepted events come out once each, in order, and the backlog closes when
all have a verdict, or gives up. `FifoSpec` is the refinement (`queue <- memory \o disk`).

### RunUpload

Composes the stream, the wire and the run's row. Events are numbered; each is about an item or
is a heartbeat. `emitted`, `taken`, `settled` are positions in that order; the batch is
`settled+1 .. taken`. `post` is the request holding `_send_lock`; `zombies` are requests the
client gave up that may still be served. Ingest holds the row's lock, so `Serve` is one step
and the other writers (`LeaseTimeout`, `ForceStop`, `CancelRun`, `Submit`, `Withdraw`) are too;
`_close_out_run` is two (`CloseOutReads`, `CloseOutWrites`), because it decides on what it read
before it locked. `Closed` .. `EndFails` are the end of the evaluation: drain, flush, then
`run_completed` sent directly.

Abstractions: payloads, byte and count limits, spans and the carry; the backlog is a queue
(EventBacklog); direct emits after close; a value that the database refuses, which the server
isolates by halving; other refusals (401, 404, 413), deletion and restoration; review states
are one state `REVIEW`; the execution's outcome is `COMPLETED`.

Heartbeats take another way (`Beat`, `ingest.py:1346`): a batch of nothing else, for a run that is
running, does not wait for the row's lock and may be answered without being stored. So an answered
heartbeat may come again and count as new. `late` therefore speaks of events of items only, and
`EndStands` names what such a heartbeat can do: the close-out, which checks that the run is open
before it waits for the lock, may stop a run that was completed meanwhile with an item refused
(`overwritten`), and a heartbeat then reopens it. Every other path back is excluded.

### LivePage

One step per event of the browser's loop: a timer that fires (`Tick`), another tab's
announcement (`Announced`), an answer (`ProbeLands`, `ReloadLands`, `DetailsLand`), a failure, the
tab hidden or shown, a card opened or drawn (`Ensure`); the server reads in steps of its own
(`Answer`, ...), so that answers are old when they land. `known`, `pending`, `live` are the refs of
`useLiveRun`, `chain`/`ticking` its timer and the probe that timer waits for, `reload` the pair
`reloading`/`finalQueued` with what the fetch reads. `rows` keeps per item the digest of its output,
the revision of the body loaded, and whether it counts as loaded. `queue`, `flight`, `stat`,
`waiting`, `scheduled` are the fields of `DetailsLoader`; its pump is a microtask and precedes
every other event (`Microtask`).

Abstractions: times are left out (a set timer may fire, the throttle of reloads is a choice), and
with them the intervals, the backoff and the faster polls after a stop request; the texts of items
are taken as loaded; a run does not reopen.

### DraftRules

`rules`, `timer`, `state`, `latest` are the editor, `cached` the query cache, `stored`/`ids` the
version on the platform, `saves` the requests under way: each is applied (`Apply`), answered
(`Land`), given up (`Fail`) and, when nobody waits for it, perhaps never served (`Lose`), in any
order. `Kept` and `WithIds` are what the platform does to a list: unique titles, stable ids. `Leave`
flushes the timer and stops hearing; `Open` starts from the cache. `overtaken` and `shifted` are
history variables that name the two cases in which the code does not keep what the properties say
(a save applied after a newer one; ids adopted by place while the list moved). `was` is the status
of the version when a save was applied: its answer, when it comes after the publishing, makes the
editor editable again until the list is read again. One user edits.

### LaunchForm

`doc` is the document (`base`, `values`, `bindings`, and what the base says of both), `store` the
refs of `SecretStore`. `sync`, `load`, `apply` are the three flows that are under way between two
awaits; a newer one of a kind replaces the older, as the generation counters do. `Laid` replays the
user's edits on a base, `PrunedDoc` drops what no ticked environment knows, `BindTo`/`WithGlobal`
keep the global model and the endpoints together, `RefsOf` says which keys the document needs.
`choice` is the dialog that a change of base may open: the user acts only after `Confirm` or
`Decline`, the flows go on meanwhile. A global model binds the endpoints the form has learnt of
when its wait ends; when that times out, some are missing (`unseen`).

`edited`, `typed`, `missed`, `stripped`, `torn`, `late` are history variables: what the user did,
and the exceptions of the properties. `missed` is a value that a base laid on a selection without
its environment did not take; `stripped` one whose slot got a model from a base or as a new
endpoint, which drops the value silently (`model/layering.ts:558`); both end when the value is typed
again. `torn` is what a prune took from the base, `late` a key forgotten while its global model
waited for endpoints (`models/GlobalModelCard.tsx:54` and `:141`).

Abstractions: the load of a base may fail or find no preset, while the contexts and presets that a
sync reads are taken to arrive, and their content is constant; a slot stands for
itself and its one setting. Left out: saved presets, best runs and clones as bases; sweeps; raw
JSON; invalid texts; datasets and evaluator inputs; availability of connections; the launch and its
dry run; leaving the page. One global model waits at a time, and the dialog that
chooses it is one step. The dialog about a base may always open, as datasets and tasks are left
out and also count as edits. No caller gives `ref.force`, so it is left out.

## 3. Properties and runs

| run | instance | shows |
|---|---|---|
| `dispatch_safety` | 1 job, 2 workers, 2 remote ids (symmetric) | `NoDoubleSubmit`, `NoOrphanRemote`, `CancelNotStranded`, `SuccessIsReal`, `TerminalIsFinal`; 921,673 states |
| `dispatch_liveness` | 1 job, 1 worker that restarts | `CancelSettles`, `RemoteEndReported` |
| `experiment_settle` | 2 jobs and 2 retries, 2 dispatchers, 2 retriers | `StatusCurrent`, `SecretsDropped`, `KeysForWork`; 96,736 states |
| `experiment_cancel` | 2 jobs, dispatcher, canceller, sweeper | `NeverFalselyFinished`, `NoWaitCycle`, `NotStuckWrong`; 95,200 states |
| `registry_split` | 2 jobs of one scope, a main and 2 workers | `RunsOnce`, `RivalTold`, `CancelIsFinal`; 163,242 states |
| `registry_liveness` | 1 job, 2 processes | `CancelReaches`, `EndReported` |
| `backlog_fifo` | events of 1 and 7 bytes, memory 7, file 9, batch 2 | `BytesCounted`, `NothingUncounted`, `NoMutualWait`, `FifoSpec`; 1,428 states |
| `upload` | 4 events (2 items, a heartbeat, 2 invalid), 2 faults | `CompletedIsWhole`, `AppliedInOrder`, `EndStands`, `EndArrives`; about 1.09 million states |
| `live_page` | 2 items, 2 probes, 2 revisions, 1 request of 1 item | `EndIsShown`, `TickNotLost`, `RequestedOnce`, `NobodyForgotten`; 1.34 million states |
| `live_page_moved` | 1 item, 1 probe, 2 revisions | refutes `MovedIsAskedAgain` |
| `draft_rules` | 2 texts, 3 rules, 4 edits, 2 saves at once | `TypeOK`, `NothingForgotten`, `SavedIsStored`, `AdoptedIsStored`; 770,000 states |
| `launch_form` | 3 environments, 3 slots, 5 acts, 1 key | `TypeOK`, `KeysKept`, `EditsKept`, `BaseOfSelection`, `BaseAndEdits`; 914,152 states |

The `TypeOK` of the other six modules, and the inductive invariants, are proved (section 4).
Invariants that are proved and say nothing to a reader beyond another one are not run.
`KeysForWork` is about the model keys in `experiment_settle`; it and `PlatformKeyForWork` were also
checked once with a canceller and a sweep beside dispatcher and retrier (2 jobs and a retry, one
session of each kind: 2,468,051 states), and both are proved for any sessions.

Why the bounds are enough: jobs of the dispatcher share nothing but workers, so one job with two
workers has all races over a job, and two remote ids are what a double submit needs. An experiment
with two jobs has a last and a next-to-last settle; three jobs were checked once (2.48 million
states) and add nothing. Two jobs are rivals for a scope; a third would repeat a role. The
backlog's large event fits only the file, three small ones fill memory, and the second spill
reaches the file's limit. Four events have a batch, one that is partly and one that is wholly
refused, and a heartbeat between items; two faults leave two late requests.
`CLOSE_GIVEUP_FAILURES` is 2 for 6 and `SYNC_SEND_RETRIES` 2 for 3: both sides of each limit
occur. On the run page two probes overtake each other and are sent again as often as they end; a
revision for a change and one for the end are what a reload can miss; one request of one item with
two items has a full flight beside a queue. In the editor two saves are applied and answered in
every order, and four edits give a list of three, one removed and one retyped; five edits (7.0
million states) were checked once. In the launch form two environments know different
settings, one of their presets binds an endpoint that is not confirmed, a third has no preset, and
five acts include untick, tick again, edit, choose and undo. Counters that would grow
(`MaxOwed`, `MaxFaults`, `MaxRev`, `MaxEdits`, `MaxSaves`, `MaxActs`, `MaxKeys`) are bounded in
guards; the proofs hold for any bound.

**Fairness.** Dispatcher: threads keep running, requests leave the wire, time passes; a
call repeated for ever is answered some time (`Persistence`, strong fairness, as the code
retries without limit); crashes and new cancel requests end (`FaultsEnd`). Experiments: open
transactions end, the sweep comes round, aborts end. Registry: started threads go on, the
loop publishes at every tick, and refused writes end. Upload: the loop and the end of the
evaluation go on while the process lives, and a request that reached a server is answered;
nothing is assumed of faults (bounded), users, or late requests. The backlog has no liveness
property; `NoMutualWait` is the state condition behind it. The frontend modules assume no fairness:
a request may stay unanswered for ever, and what must not get lost is stated of every state
(`TickNotLost`, `NobodyForgotten`, `NothingForgotten`: there is always something under way that will
go on, if anything is ever answered).

Deadlock is checked everywhere but in `upload`, where a process that is gone really stops, and in
`launch_form`, where the user may have spent the acts the bound allows and everything has landed;
in EvalDispatch and ExperimentStatus the only final states are those of `Settled`.

**What the code does otherwise than it says.** `live_page_moved` (quoted in `PROJECT.json`): when
an item's output changes shortly before the run ends, a card that had the earlier output loaded
goes on showing it, because the rows of a finished run carry no digests and a missing digest is
taken for an unchanged one.

Seven more promises of docstrings and comments are stated in the modules, each with a comment that
says how the code breaks it, and are properties of no run:

| promise | how the code breaks it |
|---|---|
| `SettledIsShown` (ExperimentStatus) | a cancel request recomputes from jobs it loaded before it waited for the lock; the sweep puts it right (`NotStuckWrong`) |
| `AnsweredExists` (JobRegistry) | a page is given the id of an analysis that is then dropped |
| `EarlierReadable` (EventBacklog) | after a failed append the file cannot be read while the disk is full |
| `ForceStopStands` (RunUpload) | the close-out overwrites a force stop or cancel |
| `EndIsFinal` (RunUpload) | the close-out, which is for runs that "never sent run_completed", overwrites a completion committed between its check and its lock; a heartbeat may then reopen the run |
| `DefaultElseScratch` (LaunchForm) | an environment with a default preset that is ticked while scratch is loaded for one without a preset leaves the form on scratch |
| `FittingEditsKept` (LaunchForm) | edits that also exist in the new starting point are to be kept (`model/layering.ts:521`, and the text of the dialog at `:625`); a value whose slot the base binds is dropped without a word |

TLC refutes each of them when it is named as the only property of a configuration: on the instances
of `backlog_fifo`, `upload` and `launch_form`, on two jobs of one scope with two servers, and on two
jobs with a dispatcher and a canceller, under fairness.

## 4. Proofs

For every value of the constants, under the named ASSUME of each module:

| module | theorem | inductive invariant and why it is needed |
|---|---|---|
| `EvalDispatch_proofs` | `DoubleSubmitImpossible`, `RemoteNeverLost`, `WaitingUnsent`, `SubmitterAlone`, `TypeCorrect` | `SubmissionInv`: that no second job exists follows only from who holds the lease while a POST is open (`PostersHold`), who may touch a job whose POST is on the wire (`WireCovered`), and what each place of the lease holder says of the job (`PlacesTrue`) |
| `EvalDispatch_proofs` | `CancelReachesJob`, `SuccessNeverMadeUp`, `TerminalForever` | `EndInv`, on top of `SubmissionInv`: the row of a lease holder still allows what it is about to write (`HandsCurrent`: a queued job can at most have been cancelled, a SUBMITTING one has stayed so, a success read from the service is still one), and nobody holds a blocked job, so that the third UPDATE of `cancel_job` always reaches it (`BlockedIsFree`) |
| `ExperimentStatus_proofs` | `StatusStaysCurrent`, `TypeCorrect` | `StatusInv`: a row a session loaded is current or the session wrote it (`SeenCurrent`), a written row is guarded by the experiment's lock before commit (`WrittenGuarded`), the lock holder has read all rows (`ReadAll`). For dispatchers and retries; with cancels the statement is false (section 3) |
| `ExperimentStatus_proofs` | `SecretsGo` | `SecretsDropped` itself, which is inductive on top of `StatusInv`. For dispatchers and retries, and launches of at least one environment (`LaunchAssumption`, which the API checks) |
| `ExperimentStatus_proofs` | `KeysStay`, `PlatformKeyStays` | `WorkInv`, on top of `FinishedInv`, for sessions of every kind: nobody but a retry makes a job QUEUED or SUBMITTING (`SettlesOnly`), so that no settle makes keys necessary that were dropped; and the sweep revokes the platform key only of an experiment that is over for good |
| `ExperimentStatus_proofs` | `NoCircleOfWaits` | `OrderInv`, for sessions of every kind: a cancel only holds rows below those it has still to visit (`RowsInOrder`), whoever holds an experiment waits for no row and only for greater experiments (`ExperimentsInOrder`), a retry flushes with one experiment touched. In a circle the holder of the greatest lock waited for would wait for a greater one (`HasGreatest`, so the ids are bounded) |
| `ExperimentStatus_proofs` | `NeverOverByMistake` | `FinishedInv`, for sessions of every kind: a row that a session remembers although it moved on since counts as unfinished, or is a blocked job beside a succeeded one (`MemoryHarmless`); a blocked job only ever becomes CANCELLED (`BlockedGoesCancelled`), retried jobs are over (`RetriedIsOver`, so a succeeded job stays current). Proved session by session: `Own` is what the invariant says of one, `StepOf` what a step of another may do |
| `JobRegistry_proofs` | `NeverRunsTwice`, `PayloadFollowsQueue`, `RivalsAreTold`, `CancelStays`, `TypeCorrect` | `RegistryInv`: a job is in one hand at most, a queued row in none, an owner that works has an active or a flagged row, active rows of a scope exclude each other |
| `EventBacklog_proofs` | `OneQueue` (the refinement), `VerdictsCounted`, `TypeCorrect` | `BacklogInv`: the uploader's debt is covered by `unfinished_tasks`; then each operation is an operation of `EventFifo` or a stutter |
| `EventBacklog_proofs` | `BytesAreCounted`, `NeverBothWait` | `CountersInv`, on top of `BacklogInv`: the counter of memory is the sum of what is in it, that of the file at least the sum of what is unread there, and zero once nothing is; that a put and a take cannot wait for each other follows. `BytesAreSums`: two ways to add up a queue agree, as there is no least position at which they differ |
| `RunUpload_proofs` | `CompletedWhole`, `InOrder`, `EndStays`, `TypeCorrect` | `UploadInv`: below |
| `LivePage_proofs` | `EndShown`, `TickKept`, `NobodyIsForgotten`, `AskedForOnce`, `TypesKept` | `EndKnown`: the page may say that the run is over only if the run is, and then a reload that began since, or the one noted to follow, reads after the end; `TickNotLost` is inductive with the types; `LoaderInv`: who waits is queued or under way and a queue never rests beside room, which needs what `div` says of the batches a pump sends (`Batch`, lemmas on intervals of positions); `OnceInv`: no item is at two positions of the queue and the requests under way, and all that are there are marked as loading, so that nobody asks for them again |
| `DraftRules_proofs` | `ForgetsNothing` | `NothingForgotten` is inductive itself; it holds for any list the platform answers with, so the proof needs nothing of `Kept` and `WithIds` but that adopting ids leaves texts alone |
| `DraftRules_proofs` | `SavedStands`, `AdoptedStands`, `TypesKept` | `DraftInv`, checked by TLC on the run's states first: the editor only hears of its newest save, and a save is applied once (`NumbersInv`); once that one is applied the server has its texts, one rule of each title, unless an older save was applied after it (`TextsInv`); and the list keeps the ids it was sent with until the answer, which keeps them too, brings the others (`IdsInv`). `Kept`, which keeps the first rule of each title, is described by ranks: the place a rule gets is the number of first titles before it |
| `LaunchForm_proofs` | `KeysAreKept`, `EditsAreKept`, `TypesKept` | `KeysInv`: a waiting global model's key is in the store or has been noted in `late`, the models of a base have no key, and every writer of the document either prunes the store by the new document or adds no ref; with the types and with "a base shown as loading is being loaded". For the edits: a typed setting is one of the selection, a sync that prunes has the selection of the document (or that is empty, and nothing is typed), and no base has a typed value, so the difference to the old base always shows the edit. A typed value is lost only to a base laid on a selection without its environment (`missed`) or to a model that takes its slot (`stripped`) |
| `LaunchForm_proofs` | `BaseFitsSelection` | `BaseInv`: the key last asked for is that of the base the document shows, or was dropped; the environment a sync has picked, and that of the preset the dialog asks about (`ChoiceType`), stay ticked until another sync begins; and whenever no sync is under way, the base, loaded or being loaded, fits the selection |
| `LaunchForm_proofs` | `BaseAndEditsAre` | `LaidInv`: what was not edited is what the base laid last says, also while another one loads, and a loaded base says what its preset does. Every edit leaves all else alone (`OnlyEdits`), and what a prune takes it takes from the document and the base alike |

`UploadInv` is the longest argument. Unless the client counts a loss, everything it has
settled is stored or refused (`Delivered`, `Known`). A batch that was sent is frozen, so any
request that may still be served either has all of it or none (`OneBatch`), and events are sent
alone only after the platform refused the whole batch (`AloneBad`); hence nothing is applied
after a later event. Only `Closed` with nothing undelivered lets a completion be sent, and from
then on the run is `Whole`. `Known` speaks of events of items only, as an answered
heartbeat need not be stored. A completed run has no soft reason and is not running unless it was
`overwritten` (`Ended`). `UploadInv`
was first checked by TLC on instances of three and four events, then proved.

Sums over queues and the normalised lists of the editor would be an induction over data, which the
provers cannot take from the library (its theorem has an operator as parameter). Such a fact is
proved by its least counterexample: a set of numbers that is not empty has a least member
(`HasLeast`, from `WFMin` on the naturals), and the step before the least position at which the
fact fails gives the contradiction.

The proof of `BaseOfSelection` corrected the model of the launch form. The property used to say that an
untouched form is not on scratch while a ticked environment has a preset; that held only because
every environment of the instance had one (`DefaultElseScratch` in section 3, and the third
environment of the instance). And a base that lands sets its key again, which the model had left out.

Only model-checked: all liveness (`CancelSettles`, `RemoteEndReported`, `NotStuckWrong`,
`CancelReaches`, `EndReported`, `EndArrives`), which needs fairness and ENABLED. Every invariant
and every action property of the passing runs is proved, `StatusCurrent` and `SecretsDropped` for
the kinds of sessions that the table names, the others for all.

## 5. Not modelled, and hazards without a property

Reasons are of three kinds; `PROJECT.json` names each component's.

*Candidates, with state of their own*, in the order in which they would be added: the maintenance
queue (its `request_cancel` reads the status without a lock, so that a job that has just
succeeded can be taken up again; two administrators may enqueue one kind at once; a step may
outlive its lease), the submitter keys behind the Boolean key of ExperimentStatus, the dashboard
outbox (change events of a partition applied by concurrent transactions), live turns and their
judges, decisions on corrections and issues under row locks, the sign-in throttle (attempts at
once), resuming from a checkpoint whose last row is torn, the feedback agent's stale turns.

*Parts of modelled components*: the first publish of a registry job fails, so that the job has no
handle; an executor that refuses a thread after `track` or `adopt`; several product evals of one
scope; the isolation of values the database refuses by halving a batch; deletion and restoration
of runs; the page limit of the reconcile. In the frontend: a reload that is asked for while one is
under way and is not final is dropped although the revision counts as known, so that the rows
stay behind until the next change; a final reload that fails is not repeated; a draft reopened
while its flush is under way starts from the old cache; "saved" may be shown over an edit made
while the save was under way, until the timer fires; a base that failed cannot be chosen again
without choosing another; a key re-entered for a preset's
model is gone when a base with the same model is laid again. A base that lands sets its key
again (`LaunchProvider.tsx:476`) after a change of the schema dropped it (`:781`), and the sync takes
the base of the old schema for the one it wants: the step is modelled, but the forms of the
environments are constant, so no property can tell.

The models contain the steps of these cases; what the properties say is stated around them, by
history variables that are no part of the code. What they exempt is not promised:

| exempted by | what no property promises |
|---|---|
| `overtaken` (DraftRules) | that "saved" is true once the platform has applied a save after a newer one |
| `shifted` (DraftRules) | that the right rules get the ids when the list lost or gained rules since the save |
| `missed`, `stripped` (LaunchForm) | that a value survives a base laid while its environment was not ticked, or a model that takes its slot |
| `torn` (LaunchForm) | that a setting that a prune took from the base is that of the preset again |
| `late` (LaunchForm) | that a key is still there for a global model that waited for endpoints when it was forgotten |
| `overwritten` (RunUpload) | that a completed run stands against a close-out that had read it before |

*Nothing for a model to say*: prompts, statistics, exports, rendering, validation of forms, schema
migrations, start-up, command lines and one-off tools. They compute over rows that are read once,
or write single rows.
