# Game Predictor: verification project

This directory holds TLA+ models of Game Predictor, the TLC configurations that
check them on small instances, and theorems that TLAPS proves for every value of
the constants. Paths below are relative to the root of the repository unless
they start with `.../`, which stands for `services/api/src/game_predictor_api`
(API) or `services/worker/src/game_predictor_worker` (worker).

Contents: [system](#1-the-system), [inventory](#2-inventory),
[modules](#3-modules-and-how-they-correspond-to-the-code),
[runs](#4-runs-bounds-and-what-they-show), [fairness](#5-fairness),
[proofs](#6-proofs), [findings](#7-disagreements-between-code-and-docs),
[limits](#8-what-is-only-model-checked-and-what-is-not-modelled),
[plan](#9-plan).

## 1. The system

Game Predictor turns photographs of a slot game's boards into a searchable
dataset. Four kinds of processes share a PostgreSQL database and a directory of
artifacts on one host:

- the API (`services/api`, FastAPI): every command is one transaction;
- the workers (`services/worker`): one process per *lane* (general, image
  selection, grid training), launched by `scripts/manage_worker_lanes.ps1`, each
  with a job loop, a lease keepalive thread per job and a lane heartbeat thread;
- web applications (`apps/admin`, `apps/reviewer`, `apps/mobile`,
  `apps/vision-lab`); the reviewer's sources also hold an offline outbox;
- the desktop selector (`apps/selector-desktop`, Electron), which works on a
  project directory with a lock file, a journal and a mirrored state.

The API and the workers do not call each other. They meet in the `jobs` table:
the API inserts, cancels and retries rows; a worker claims a row by giving it a
lease (a fresh token, a slot and an expiry time), and every later write of the
worker compares the token. Everything long-running (imports, recognition,
training, re-inference, releases, source crops, storage maintenance) is such a
job, so this protocol is the core of the system and the first part modelled.

Three more protocols of the program do not go through that table, and each is
modelled on its own:

- reviewers of several games hold *assignments* with leases, of which a limited
  number is online at a time; they share one public tunnel with management,
  board-search and remote selection links, and a request that finds nobody left
  stops it;
- the desktop selector keeps a project in files that must survive the death of
  its process between any two writes, and a second process that opens the
  folder;
- a remote operator takes decisions offline, and an outbox in the browser
  delivers them to the host over a connection that loses and delays. The host's
  side of this protocol is served; the browser's side is code that nothing but
  its tests calls at this commit: the drain, the repair of the clock and
  `appendWorkspaceDecision` have no caller in the applications, and
  `ai_docs/requirements/MANUAL_IMAGE_SELECTION.md:439-442` calls the section
  that describes it a historical variant, which the workspace in use does not
  run and which may be enabled again only by a new decision. It is modelled
  because the code is there, is tested, and would be what such a decision
  enables.

## 2. Inventory

| Component | State | Operations | What is hard | What makes it correct |
|---|---|---|---|---|
| Job lifecycle and queue (`.../domain/jobs.py`, `.../jobs/store.py`, `.../jobs/runtime.py`, `.../application/jobs.py`, `.../storage/job_repository.py`) | `jobs` rows; memory of each worker | submit, claim, checkpoint, heartbeat, complete, fail, wait, defer, recover; cancel, retry, reopen, delete | workers that race, die or outlive their lease; stale clock readings; late heartbeats; commands that arrive meanwhile | one holder per lane, fencing, no lost cancel, work counted once, orphans recovered |
| Admission (`.../storage/job_admission.py`) | none of its own: conflicting rows of a game | acquire, admit | check-then-insert races between API and worker | conflicting workflows of a game are never active together |
| Worker lanes (`.../jobs/lane_runtime.py`, `.../storage/worker_lane_repository.py`, `.../application/worker_lanes.py`) | one `worker_lane_runtime` row per lane | register, heartbeat, stop, mark stopped, status | an old instance's late calls, killed processes | stop and heartbeat are fenced; a healthy lane is shown running, a dead one not for ever |
| Grid correction learning (`.../application/grid_correction_learning.py`) | parent and child job, cohorts | start, advance, cancel, resume | parent waits for a child in the same lane | no self-blocking, the parent wakes up |
| Grid re-inference (`.../storage/grid_reinference.py`) | operation document, job | preview, pilot, start, resume, cancel | a job must not run before its start is authorized | unauthorized jobs are refused everywhere |
| Image selection (`.../application/image_selections.py`) | run, groups, outputs | decide, revise, publish | revision of a published result | a published result is revised only through a reopened job |
| Image import pipeline (`.../images/*`) | managed originals, manifests | copy, recognise, defer | low storage | resumable, cancellable |
| Reviewer work assignments (`.../application/reviewer_work_assignments.py`, `.../storage/reviewer_work_assignment_repository.py`, `.../application/reviewer_work_lifecycle.py`) | leases of reviewers, access sessions with an assignment and without | open, heartbeat, close, recover; give and end a session | capacity over all games, clocks read before a lock | at most three online, no session outlives the assignment that made it |
| Shared tunnel and its links (`.../application/management_ingress.py`, `.../api/board_search_shares.py`, `.../api/remote_manual_selections.py`) | the running tunnel instance, links of three kinds | start, stop if unused, stop, create and end a link | a stop decided in one place, used in another; a stop is not undone by a rollback | nobody loses a tunnel in use |
| Source crop runs (`.../storage/source_crop_run_repository.py`, `.../source_crop.py`, `.../source_original_deletion.py`) | run, its plan and execute jobs, files | plan, start, checkpoint, complete, synchronize | two rows in step, file replacement under crashes | an original is deleted only when its crop is durable |
| Storage GC (`.../storage_gc.py`, `.../application/storage_gc.py`) | manifest, trash, markers, counters | freeze, move, delete, checkpoint | crash between file and database steps | nothing referenced is deleted; each candidate counted once |
| Project lock (`apps/selector-desktop/src/project/project-lock.ts`) | lock and recovery files | acquire, assert, release | crashes between create, write, unlink | one owner |
| Project store (`.../project/project-store.ts`, `project-storage.ts`, `state-codec.ts`) | state, journal, manifest, backup, receipts | decide, undo, restart, relink, resume | crash at each of a dozen points | an operation is applied once, with its receipt, or not at all |
| Remote manual selection (`.../storage/remote_manual_selection_repository.py`; `apps/reviewer/.../remote-selection-store.ts`, not in use) | operation log, sequences, outbox, files | append, acknowledge, rebase, transfer, materialize, finalize | loss, duplication and reordering; offline work | every command applied once, in order; nothing acknowledged is lost |
| Selection core, payout, signature, target scan (`packages/*`) | none | pure functions | range boundaries | agree with their definitions |
| Releases, datasets, retention, cleanup | versioned rows | publish, retire | - | immutability of what was published |
| Board search, UI, vision and training | derived or numerical | - | - | out of scope |

The same list with its files and status is `components` in `PROJECT.json`;
`hazards` there names the line where each difficulty bites and the properties
that cover it.

## 3. Modules and how they correspond to the code

    JobLifecycle        rows and pure transitions        domain/jobs.py
      JobQueue          table, workers, API, admission    jobs/store.py, jobs/runtime.py, ...
        MCJobQueue      instances for TLC                 jobs_*.cfg
        JobQueueSteps, JobQueue_proofs                    proofs
    JobContract         what clients may observe          implemented by JobQueue
    WorkerLane          health of one lane                lane_runtime.py, worker_lane_repository.py
      MCWorkerLane, WorkerLane_proofs
    SharedIngress       assignments, tunnel, links        reviewer_work_assignments.py, ...
      MCSharedIngress, SharedIngress_proofs               ingress_*.cfg
    OnlineSeats         what outside reviewers are promised implemented by SharedIngress
    ProjectLock         the lock of a project folder      project-lock.ts
      ProjectLock_proofs
    ProjectCommands     what a command does (operators)   project-store.ts
    ProjectStore        EXTENDS both: files and recovery  project-store.ts, project-storage.ts
      MCProjectStore, ProjectStore_proofs                 project_store.cfg
        ProjectRecovery_proofs                            what a replay finds, recovery
    OperationLog        what a project promises           implemented by ProjectStore
    RemoteSync          outbox, channel, host             remote-selection-store.ts, ...
      MCRemoteSync, RemoteSync_proofs                     remote_*.cfg
    DecisionDelivery    what an outbox promises           implemented by RemoteSync

**JobLifecycle** translates the functions of `domain/jobs.py`: an operator takes
a row and returns the next; `May...`, `Leased` and `Expired` are the conditions
under which the function does not raise. Time is relative: `ttl` counts the
ticks to `lease_expires_at`. Each transaction of the program uses a `now` that
was read before its row lock was granted, so each transition takes the age of
that reading; a lease with `ttl` left is active for a reading of age `d` iff
`ttl + d > 0`. Because of that a heartbeat may move the expiry backwards, as in
the code. All processes run on one host and read one clock. The progress
counters are one number, `progress`; `waits` says that the stored checkpoint
holds `waitingForJobId`.

**JobQueue** has these variables:

| Variable | In the code |
|---|---|
| `jobs` | the table; `"absent"` before the insert, `"deleted"` after the removal |
| `worker[w]` | one worker process: where it is in `run_once`, the candidate ids it read, job and token in its hands, progress of its handler, state of its keepalive thread |
| `late` | heartbeats blocked in the database when `keepalive.stop()` gave up |
| `storageLow` | the answer of the handlers' capacity check |
| `faults` | bound: process deaths and failed heartbeats so far |

Each transaction is one step, since the code takes the row lock before it reads
what it decides upon. The exception is the candidate transaction of
`claim_next`, which is split (`TryCandidate`, `CommitClaim`): between its
`_slot_occupied` check and its flush another worker may take the slot, and the
unique index `uq_jobs_execution_slot` decides. While it is open it holds the row
lock (`RowFree`) and the advisory lock of its game (`GateFree`).

| Action | Code |
|---|---|
| `Recover`, `Scan`, `TryCandidate`, `CommitClaim` | `store.claim_next` and its helpers, called by `run_once` |
| `CheckpointStep`, `WaitForReview`, `DeferForStorage`, `AwaitChild` | `JobExecutionContext` and the store methods it calls |
| `LeaseRefused` | any of those calls when it is refused |
| `HandlerReturns`, `HandlerRaises`, `Finish`, `FailRun` | the end of `run_once`, `complete`, `_fail_handler`, `fail` |
| `CreateChild` | `GridCorrectionLearningService.advance` |
| `Heartbeat`, `HeartbeatErrs`, `LateHeartbeat` | the keepalive thread |
| `Crash`, `Restart` | death of a worker process; its launcher |
| `Submit`, `Cancel`, `Retry`, `Reopen`, `Delete` | the API commands on one job |
| `CancelWorkflow`, `ResumeWorkflow` | cancel and resume of a learning workflow |
| `Tick`, `StorageChanges` | environment |

A write under a lease is refused in three ways, and `run_once` treats them
differently. The status of the row is looked at before the lease
(`domain/jobs.py:778-787`): a row that another run is processing gives
`JOB_LEASE_LOST`, which ends the run quietly; a row that has left `processing`
gives `INVALID_JOB_STATUS_TRANSITION`, and one that was deleted `JOB_NOT_FOUND`.
The last two go to `_fail_handler` (from a checkpoint only the last: there a row
that is not processing is a lost lease too), whose call of `fail` is refused in
the same way, and a conflict of `fail` other than a lost lease is raised out of
`run_once` (`jobs/runtime.py:446-449`) and ends the worker process.
`LeftProcessing` tells the two outcomes apart, and `FailRun` ends the process.

Sets of jobs stand for job types: `Gate` and `Bulk` take part in admission, `GC`
is `storage_gc`, `StorageBound` handlers check capacity, `Fresh` ones lose their
progress on retry, `LateAck` ones pass `acknowledge_cancellation=False`,
`Reviewed` ones may wait for review, `Selection` ones may be reopened and
deleted, `Unstarted` ones are grid jobs whose operation was not started, and
`ChildOf` gives learning workflows their child.

`Unstarted` jobs are in the table from the start: the program never creates one,
but it must survive a damaged one (`ai_docs/architecture/API_CONTRACT.md:4296`).

Abstracted: payloads, stages and messages; the per-type differences of `submit`;
sequences of units within a handler (a handler advances `progress` by one per
checkpoint); the order in which `_recover_one_expired` looks at rows (a lane has
at most one processing row); of a learning workflow, which runs its children one
after the other, a single child, and not the one deferral that follows the probe
of the training runtime (`grid_correction_learning_handler.py:44-59`), which
releases the job once with nothing to wait for. A transaction that fails for
other reasons is `HandlerRaises`, `Finish` going to `failing`, or
`HeartbeatErrs`.

**JobContract** is what clients are promised: status and requested cancellation
of each job, with no workers, leases or clocks. `JobQueue` implements it
(`ImplementsContract`); the mapping forgets everything but `status` and
`cancel`.

**WorkerLane** models the row of one lane. `age` counts the ticks since
`heartbeat_at`; a call commits up to `MaxDelay` ticks after it read the clock,
which is also how a heartbeat outlives the process, or the `stop()`, that sent
it. Each *instance* is one launched process with a token of its own; it is
launched once. `Status` is `WorkerLaneStatusService._status`.

**SharedIngress** models `ReviewerWorkAssignmentService` over several games and
the tunnel they share.

| Variable | In the code |
|---|---|
| `rows`, `access`, `created` | committed open assignments; live access sessions, those of assignments by number and those of their own (`Standalone`); the counter that gives the numbers |
| `request[r]` | one API request: its kind, its import, the clock it read, where it is |
| `capacityLock`, `staged` | the online-capacity advisory lock, kept to the commit, and the rows as its holder sees them |
| `ingressLock`, `seen` | the ingress lock and the instance `stop_unused_shared_ingress` read |
| `tunnel`, `starts` | the running tunnel instance; starting it when it runs is a no-op |
| `link[l]` | a management, board-search or remote selection link |

| Action | Code |
|---|---|
| `Begin`, `RecoverOther`, `ReadClock` | arrival of a request; the recovery of every other game, a transaction each; the clock, read before the lock is waited for |
| `Enter` | the body under the capacity lock: `OpenOnline`, `OpenOnlineFull`, `IngressFails`, `OpenLocal`, `Reuse`, `Close`, `CloseRefused`, `Overview` |
| `LockIngress`, `CountLinks`, `ReadInstance`, `StopIfCurrent` | `stop_unused_shared_ingress` |
| `Commit`, `Rollback` | the end of the transaction; a rollback leaves the tunnel as it is |
| `Heartbeat` | the heartbeat, which takes no capacity lock and keeps the expiry |
| `GiveSession`, `EndSession` | `POST /admin/reviewer-sessions`, which makes a session without an assignment, a lock or the tunnel; the end of a session of either kind (revoked, locked, expired) while its assignment stays |
| `StartLink`, `CreateLink`, `LinkFails`, `EndLink` | the tunnel and the row of a link; a management link holds the ingress lock between them, others do not; a creation that fails frees the lock and leaves the tunnel up |
| `OperatorStop`, `OperatorStart`, `Tick` | environment |

Only row locks make a heartbeat wait (`LockedRows`), and a commit writes only
the locked rows.

**OnlineSeats** is what the reviewers who are let in from outside are promised,
with no games, transactions, locks or tunnel: an import has at most one seat,
with a number nobody had before; an unexpired seat is lost only when it is given
up; a seat is taken when the one before it is over, for no longer than a lease,
when there is a place for one more; a session of a seat ends at the latest with
it and never admits again, and no transaction ends a session that has no seat.
The mapping reads the committed online assignments (`SeatsOf(rows)`), `access`
for the sessions, `created` for the numbers given away, and for the seat being
taken the number that is staged and not committed. So a transaction of several
steps is one step of the abstract system, at its commit, though heartbeats and
the clock pass in between and other requests have read theirs long before.

**ProjectLock** is `acquire` with one step per file or process access: the
exclusive create, the write of the owner, the read of another owner, the
inspection of its process, the recovery claim, the second read under the claim,
unlink, create, write, and the removal of the claim in `finally`. Each access
may fail: `AccessFails` before it has any effect; `SyncFails` after the owner
was written, so that the file names a live process that was refused the lock;
`UnclaimFails` in the `finally` block, so that the claim stays. `lockFile` and
`claimFile` are the two files, `pc[p]` and `seen[p]` a process and the owner it
read. `Crash` may come between any two steps; the files stay, and the identity
(process id and start time) never comes back.

**ProjectCommands** has the pure part of `execute` and replay: `Legal`, `Apply`,
`Project` (the fold of a history), `OutputOf` (the files its accepted decisions
own) and the range functions of the selection core.

**ProjectStore** extends both. A head commits to a prefix of the ledger by a
hash chain; in the model a head *is* that prefix.

| Variable | In the code |
|---|---|
| `journal` | the journal file: the history before and the record under way |
| `heads`, `ledgers` | state file and its backup; the two copies of the ledger, possibly torn or damaged |
| `output`, `manifest`, `lease` | images, manifest and lock file of the output folder |
| `step`, `memory`, `frozen`, `request` | per process: where it is, the history it works on, whether an issue froze it, the operation it owes an answer |
| `acked` | the answers given |
| `damages` | bound: copies damaged so far |

| Action | Code |
|---|---|
| `AcquireProject`, `Open`, `Close` | `acquire`, `open`, `close` |
| `Resume`, `RestoreState`, `RestoreBackup` | `resume`, and the rewrite of both heads after an open |
| `Execute`, `Repeat` | `execute` of a new operation, of one whose receipt exists |
| `Prepare`, `TakeLease`, `MendLedgers`, `WriteFile`, `OutputWritten`, `AppendLedger`, `Commit`, `WriteManifest`, `Backup`, `ReleaseLease`, `ClearJournal` | the writes of one transaction, in their order; a recovery joins at `TakeLease` |
| `Fail` | a write fails: the project freezes and the lease is given back, unless that fails too |
| `Die` | death of the process |
| `DamageHead`, `DamageLedger` | environment: one copy of a mirrored file is found damaged |

`AppendLedger` writes a record in two halves, with a torn file between. The
phase field of the journal, scratch files of atomic replacements and the host
name in the lock are abstracted: no decision of the modelled code depends on the
first, and the others add no outcome.

**OperationLog** is what the user of a project is promised: a log of operations,
each legal where it was applied, no id twice, and answers only for what is in
the log. The mapping is `Durable`, what the heads commit to and the journal is
bound to add, so an operation is in the log from the moment its journal is
written.

**RemoteSync** has the browsers and the host.

| Variable | In the code |
|---|---|
| `batch`, `writer`, `applied` | revision and sequence of the batch, owner of the writer lease, operation log of the host |
| `requests` | requests on their way, also those their client has given up |
| `decided`, `outbox`, `clock` | IndexedDB of each client: decisions taken, records by client sequence, its sequence and known revision |
| `place` | where the drain of a client is and what it holds in memory: the page it listed, the request it sent, the delta, the records it will number again |
| `draft` | what `operationClock` has read for the next decision |
| `events` | bound |
| `overlapped` | not in the code, for checking only: decisions that a repair, which had not listed them, found in the outbox when it wrote; no guard reads it |

| Action | Code |
|---|---|
| `ReadClock`, `Decide`, `RefuseDecision` | `operationClock`; later the transaction of a decision and its outbox record, which checks the sequence again and the expected revision not |
| `ListPage`, `Send`, `ResumeRepair`, `StopDrain` | the drain: a page of records is listed, and its records are sent one after the other |
| `Confirm`, `Refused`, `GiveUp`, `DrainFails` | what becomes of an answer. `Refused` is every error that `isControlledConflict` takes for a conflict, also when the host has applied the operation (a 502, an answer that fails validation, a store error); `GiveUp` every other one; `DrainFails` an error that is not caught |
| `FetchDelta`, `ApplyDelta` | state delta of the host |
| `ListOutbox`, `Rebase` | the two halves of `rebaseOutboxAfterClientSequenceReplay` |
| `Receive` (`Apply`, `Retry`, `RefuseReplay`, `RefuseConflict`), `Takeover`, `Transfer` | `apply_operation`, the takeover of the lease, a host operation that raises the revision |
| `Restart` | a closed or reloaded tab: memory is lost |

A decision may come at any point of a drain and of a repair, as in the code,
also between the two halves of a repair (section 7).

**DecisionDelivery** is what an operator is promised: the host applies the
decisions of each client in the order they were taken, each once. A decision
that a repair overlapped loses its place in this order, because the code does
not keep it: it may be applied at any later time, at most once, or never; and no
other decision is disturbed by it.

Definitions that begin with the comment *Mutant* are deliberately wrong variants
of the definition after them. No specification uses them; they document, for
each property, a plausible bug that would break it (`mutants` in
`PROJECT.json`).

## 4. Runs, bounds and what they show

All runs use `tlc -workers 2 -config <run>.cfg <module>`.

| Run | Instance | Shows |
|---|---|---|
| `jobs_safety` | 2 workers, 2 jobs, 1 lane, lease of 2 ticks, readings up to 1 tick old, `Timely = FALSE` | `TypeOK`, `LaneLease`, `OwnerInSync`, `CancelNotOverruled`, `TakeoverOnlyAfterExpiry`, `ProgressIsOwned` |
| `jobs_takeover` | 2 workers, 1 selection job, lease of 3 ticks, 1 fault, 1 late heartbeat, `Timely = TRUE` | `HandlersExclusive`, `ClaimedRowIsCreated`, `ResultsAreAccepted`, `RenewedByItsRun`, `EndsOnlyAfterFault`, `ImplementsContract` |
| `jobs_admission` | 2 workers, 3 jobs of one game, 2 of them bulk | `AdmissionExclusive` |
| `jobs_dependency` | 1 worker, a parent and its child, 1 fault | `ChildSettles`, `ParentWakes` |
| `jobs_liveness` | 1 worker that scans 1 candidate at a time, an unstarted, a storage-bound and a GC job, 1 fault | `OrphanRecovered`, `CancelSettlesWithStorage`, `GCGetsThrough`, `UnstartedLeavesQueue` |
| `jobs_cancel_storage` | 1 worker, 1 storage-bound job | violates `CancelSettles` (section 7) |
| `lane_safety` | 2 instances, interval 2, thresholds 4 and 6, delay 1, 1 failed call | `StoppedByItsOwn`, `HealthyIsRunning`, `StoppedKeepsItsHeartbeat`, `DeadIsReported`, `Inductive` |
| `ingress_safety` | 2 requests, 2 imports of 2 games, 1 place online, a lease of 2 and a clock to 2, 1 management link, 1 session without an assignment, 2 rows and 1 tunnel instance | `TypeOK`, `CapacityRespected`, `NoOrphanSession`, `StopOnlyWhenUnused`, `ImplementsSeats` |
| `ingress_remote` | the same with 1 request, a lease of 1, 2 tunnel instances, and 1 remote selection link in place of the management link | violates `RetainedForAnyCapability` (section 7) |
| `project_store` | 2 processes and the lock of a dead third, 2 images, boards 1 to 3 two at a time, 4 commands, 2 operations, 1 damaged copy | `TypeOK`, `LockExclusive`, `UnknownKept`, `AlwaysRecoverable`, `Finalised`, `LeaseAccounted`, `ImplementsLog` |
| `remote_sync` | 2 clients with 3 decisions and 1, pages of 2 records, `MaxEvents = 4` | `TypeOK`, `NothingLost`, `ImplementsDelivery` |
| `remote_repair` | the same | violates `EveryDecisionKept` (section 7) |

Why these bounds suffice for what the runs ask. Two workers and two jobs are
enough for every race of the protocol: all conditions relate at most two workers
and two rows. Two tokens beside the null suffice in `jobs_safety`, three in
`jobs_takeover`, where two runs and a late heartbeat coexist; a claim that finds
no unused token waits, which only drops behaviours, and the theorems have no
such bound. A lease of two ticks with readings one tick old lets a lease expire
under a working handler, be renewed backwards, be recovered, and be lost; the
lease of three ticks in `jobs_takeover` is the smallest for which
`HandlersExclusive` is true: a renewal that is one tick old, the next beat after
one tick and a recovery with a reading of another moment need `Lease >= MaxAge +
2`. (The program has a lease of 60 s and a beat of at most 15 s.) In that run
`ResultsAreAccepted` and `EndsOnlyAfterFault` say what becomes of the refusals
of section 3: a worker that goes on to `complete` holds its lease for every
reading of the clock, and no worker process ends before the first death or
failed heartbeat, although the API cancels, reopens and deletes meanwhile.
`RenewedByItsRun` is about the late heartbeat: `lease_expires_at` moves forward
only by the token the row carries and while some reading still finds the lease
active. `Timely` says that no process is a whole tick late with a renewal or
result it owes: without it handlers may of course overlap once a lease is over,
and `jobs_safety` shows what still holds then. `Units`, the checkpoints of a
handler, is 1, enough for progress to be behind, equal and ahead; 0 where
progress is not at issue. `ScanLimit`, the program's `CANDIDATE_SCAN_LIMIT` of
100, is 2, below the three jobs of a run, and 1 in `jobs_liveness`, so that the
unstarted job alone fills the window of a scan and `UnstartedLeavesQueue` and
`GCGetsThrough` depend on its leaving the queue. `MaxFaults` and `MaxLate` bound
counters only. Token symmetry is used in runs without liveness properties.

`ingress_safety`: two requests and one place are the smallest instance in which
two games compete; a lease of two units in a clock of two lets an assignment be
heartbeaten, expire before, while and after another request has read its clock,
and be followed by a second row. One session without an assignment is enough for
a transaction to end it by mistake or to bring it back after its end. One tunnel
instance may be gone when a stop has read it; that another one runs by then
changes nothing for the properties, which the locks protect, and the theorems
hold for any number. One management link is enough, links being only counted; a
link that has ended may be made again. The run identifies states
that differ only in which request is which, or in which game and import is which
(`Alike`); nothing tells them apart.

`project_store`: two live processes are what a takeover from a dead third needs,
which leaves the lock file at the start. Its commands add a file (`Accept`, of
either image), remove the last one (`Undo`), and change the range only
(`SetRange`); `Restart` writes nothing that these do not; two operations let an
operation be repeated while another is pending, and be the first after a
recovery. Boards 1 to 3 taken two at a time give a range that the upper bound
cuts. The two processes are interchangeable, and so are the ids of the
operations, which the symmetry of the run says. `CHECK_DEADLOCK` is off because
the system really stops: a process that dies with the recovery claim leaves a
file nobody removes, and the code refuses the project from then on. `MaxDamage =
1` is part of the claim of `AlwaysRecoverable`, not only a bound, and an
assumption of its theorem. A recovery that finds a ledger damaged writes it
again, with the history before the pending record, and appends the record later.
With `MaxDamage = 2` the claim is false: both heads name the operation already,
a later write fails, `resume` begins the recovery, one ledger is found damaged
and is written again without the record, and then the other is damaged; no
ledger replays to either head. The other theorems about the store hold for any
`MaxDamage`, because they say what is there and not that it can be read.

`remote_sync`: three decisions are what it takes for two of them to be appended
during the repair of the clock of the third, which leaves a record with a number
above the client's clock; a page of two records is listed before and after the
third. The other client uses up a number. `MaxEvents` bounds decisions, answers
that a client stops waiting for, and revisions made by transfers on the host,
together, the last two counted double: a bound of four gives all four decisions,
with a repair and two decisions appended to it, or a late original with its
repetition or a stale expected revision, each with two decisions. The three
decisions of a client are interchangeable until they are taken, which the
symmetry of the run says.

The theorems of section 6 remove the bounds for every safety property of the
passing runs. Some keep a hypothesis that is part of the claim:
`HandlersExclusive`, `ResultsAreAccepted` and `EndsOnlyAfterFault` (`Timely` and
`Lease >= MaxAge + 2`), and `AlwaysRecoverable` (`MaxDamage <= 1`).

## 5. Fairness

`FairSpec` of JobQueue assumes weak fairness of a worker's claim steps, handler
steps and keepalive steps (`run_forever` polls in a loop; handler and thread are
scheduled by the operating system), of the passing of time, and of `Restart`
(`manage_worker_lanes.ps1` keeps the lanes launched). It assumes nothing of API
clients nor of storage. `Calm` appears as a hypothesis where a client that
retries or resubmits for ever would make a promise void: clients eventually stop
putting settled jobs back. `CancelSettlesWithStorage` also supposes that storage
is eventually sufficient, which the code needs (section 7).

`FairSpec` of WorkerLane assumes that time passes and that open calls end and
threads wake; nobody has to launch, stop or kill a process.

SharedIngress, ProjectLock, ProjectStore and RemoteSync state no fairness: what
they promise is safety. That an outbox is ever drained or a tunnel ever stopped
depends on an operator who comes back, which the code cannot count on.

Handler steps are fair as a whole, not one by one: a handler that checkpoints
may still raise, lose its lease, or be cancelled at any point.

## 6. Proofs

Run `tlapm <module>.tla` for `JobQueueSteps` and each module named `..._proofs`.

Assumptions: only those named in the modules. Null values are no tokens or
slots; jobs are positive numbers, in creation order; constant functions have the
right domains; `Bulk` and `Unstarted` jobs take part in admission; the two jobs
of a learning workflow do not, nor do selection jobs; leases and readings are
natural numbers, the lease positive. For WorkerLane: one interval and two of the
slowest calls fit the degraded threshold (the program has an interval of 5 s and
thresholds of 15 s and 60 s, so calls may take 5 s), and the degraded threshold
is below the stopped one. For the others: nulls are no processes, requests,
links or rows; bounds are natural numbers (`LockAssumption`,
`CommandsAssumption`, `StoreAssumption`, `IngressAssumption`,
`RemoteAssumption`); imports are finitely many, and so are the requests; no two
clients draw the same operation id (uuid4); a selector project has no more
operations than there are ids, one for each; the commands of the project store
have one of six kinds with typed arguments (`CommandShape`). A theorem that
needs more says so in its statement: `HandlersAreExclusive`, `ResultsAreKept`
and `ProcessesEndAfterFaults` (`Timely`, `Lease >= MaxAge + 2`: a lease of 60 s
and a beat of at most 15 s, when processes keep up) and `AlwaysRecovers`
(`MaxDamage <= 1`).

The argument for the queue. `Inductive` is the conjunction of the invariants
above, of `OneOwner` (no two workers carry one token) and of `WorkerShape`,
which ties a worker's memory to its program counter and says that two open claim
transactions never hold the same row. It is needed because no property is
inductive alone: that a lane has one holder rests on the slot of a claim being
that of its job; that a claim commits on a created row rests on the row lock;
that the owner is in sync rests on tokens being unique, and tokens are unique
because a claim draws one that no row, worker or late heartbeat carries (uuid4).
Admission rests on the locks and on the unstarted jobs' exclusion: they are
refused before they run, so they are outside `AdmissionExclusive`.

`JobQueueSteps` proves the types and classifies how a row can move in one step;
`JobQueue_proofs` proves, invariant by invariant, that every action preserves
it, then the theorems:

| Theorem | Statement |
|---|---|
| `InductiveInvariant` | `Spec => []Inductive` |
| `TypeCorrect`, `LanesAreExclusive`, `ClaimsAreOfCreatedRows`, `OwnersAreInSync`, `CancelsAreNotOverruled`, `AdmissionIsExclusive` | `Spec => []...` of the named invariant |
| `OnlyOwnersCount`, `TakeoversWait`, `LeasesAreRenewedByTheirRun` | the action properties `ProgressIsOwned`, `TakeoverOnlyAfterExpiry`, `RenewedByItsRun` |
| `KeepsTheContract` | `Spec => ImplementsContract`, the refinement of `JobContract` |
| `HandlersAreExclusive`, `ResultsAreKept` | `Spec => []HandlersExclusive`, `Spec => []ResultsAreAccepted`, if `Timely` and `Lease >= MaxAge + 2` |
| `ProcessesEndAfterFaults` | `Spec => EndsOnlyAfterFault`, under the same condition |

Fencing lets an overtaken handler go on until it next writes, so that two
handlers of a job never run at once is a matter of time. `KeptAlive` says how
much is left: the worker of a running handler whose keepalive works owns the
row, with at least two ticks left while the keepalive waits and one when the
next beat is due (`Timely` forbids the tick after that). A renewal, also one
that comes late or with an older reading, leaves at least `Lease - MaxAge`
ticks, hence the hypothesis; and nobody recovers a lease that has a tick left.
Two such workers would both own the row, which `OneOwner` excludes: a token is
carried by one run, since a claim draws it afresh (uuid4). That is a step of
these proofs and not a claim about the code, so no run states it. `InHand` adds
to `KeptAlive` the worker that is about to complete or to fail: before the first
fault its row is processing under its token, so `complete` is not refused and
`fail` does not end the process.

`WorkerLane_proofs`: `Fresh` is the strengthening. It bounds the age of the row
by the progress of the thread that will send the next heartbeat (one delay plus
the wait so far, or one interval and delay plus the open call so far); with the
assumption on thresholds it gives `HealthyStaysRunning`. `StopsAreFenced` and
`StoppedStaysOld` follow from `StoppedByItsOwn`; `InductiveInvariant` is the
invariant they all rest on.

`SharedIngress_proofs`: `CapacityIsRespected`, `SessionsHaveAssignments`,
`StopsOnlyUnused`, `IngressTypeCorrect`, `TransactionsAreSteps`. `IInv` adds to
the properties what they rest on: the request inside its transaction is the
holder of the capacity lock, and in the ingress section the holder of that lock
(`Locks`); the staged rows respect the cap, have a row for each session that an
assignment made, and differ from the committed ones only in locked rows, but for
heartbeats (`Stages`); a request on its way to a stop has staged no unexpired
online row, and past the count there is no management link, live or in creation
(`Stops`). Clock readings that are older than the lock do no harm because an
older reading counts at least the rows a later one counts. The types need
`Numbered`: a request is let in only while a number is left for it, so the
requests that have not drawn theirs, counted, fit below the bound (`Numbers`),
and the locks have holders that exist. The refinement of `OnlineSeats` rests on
`Drafts`: while a transaction is open each row it holds is the committed one but
for a heartbeat, or is being closed, after its lease unless it is the row the
request names, or is a new assignment with the newest number on a place that was
free or over. `Paired` says that no two assignments share a number, and that a
transaction still has among its staged sessions every live one whose seat stays
or that has no assignment. `CommitSeats` then reads the commit as one `TakeSeat`
or `CloseSeats`. That recovery may trust an old clock reading enters here: a
lease over for an old reading is over.

`ProjectLock_proofs`: `LockInv` says which file a process may touch at which
place: a creator has an unwritten file, an owner a file with its name, a claimer
the claim; whoever unlinks has read under the claim that the file names a dead
process, and without the claim nobody changes that name. From it
`LockIsExclusive` and `UnknownIsKept`.

`ProjectStore_proofs`: `LockInv`, the types, and for each process what its place
says (`Place`: which writes of the pending operation are done), what it
remembers (`Memory`), owes (`Asked`) and has answered (`Done`); without a
journal everything agrees (`Quiet`), with one each ledger is before or after the
record (`Apart`). `EverythingIsFinalised` and `LeaseIsAccounted` are read off
`Quiet`; `StoreKeepsLock` maps each step of the store to a step of `ProjectLock`
or a stutter; `StoreImplementsLog` maps `Prepare` to `AppendOperation`, the two
places that answer to `Answer`, and every other step to a stutter. The mapping
is blind to which file holds a history, so the steps that move one from file to
file stutter only because `Done` and `Quiet` say that the copies agree.

`ProjectRecovery_proofs` reasons about what the histories say. A history is
replayed record by record, which is defined recursively; what is needed of it,
that the replay of a longer history is one more `Apply` (`ProjectGrows`) and
that two replays agree (`ReplaysAgree`), follows from the least place where it
would fail (`LeastNumber`). `ApplySound` shows that a legal command keeps the
accepted ranges and images apart, `Laws` that durable and pending histories are
made of legal commands each used once; hence `AcceptedRangesApart`, that no two
accepted decisions share a board after any sequence of accepts, undos and
restarts, and, with `Near` (while an operation is under way each file is as
before it or as after it), `StoreTypeCorrect`. `AlwaysRecovers` adds what one
damaged copy leaves: never a head and a ledger both (`Hurt`), and a head that
names the pending operation always has a sound ledger with its record, mended or
not (`Witnessed`).

`RemoteSync_proofs`: an outbox has one record per number, and only overlapped
decisions have one above the clock (`Numbered`); it has one record per decision,
and the numbers of those that were not overlapped follow the order of the
decisions (`Ordered`); a page in memory names its records by the numbers they
still have, and what comes before a record is on the page before it, or applied,
or overlapped (`Paged`); a record is confirmed only when its operation was
applied (`Confirmed`); a request on its way comes after decisions that are
applied or overlapped (`InTurn`); and a decision is in the outbox, applied or
overlapped (`NothingLost`). A repair that lists the outbox while nothing is
appended keeps all of this; one that does not finds records it did not list,
puts their decisions in `overlapped`, and numbers the listed ones above each
other, so the order of these is intact. A record that a `put` replaces is always
an overlapped one. The theorems `NothingIsLost`, `SyncTypeCorrect` and
`DeliversInOrder` assume nothing about when decisions are taken. `Counted` adds
that the host's sequence is the length of its log.

## 7. Disagreements between code and docs

`jobs_cancel_storage` violates `CancelSettles`. A job whose handler finds
storage low before its first checkpoint calls `wait_for_storage`
(`.../images/source_ingestion.py:639-646`,
`.../images/orchestration.py:324-333`). `defer_job_for_storage`
(`.../domain/jobs.py:444`) returns the row to `created` and keeps
`cancel_requested_at` without acknowledging it, unlike every other way out of
`processing`. A further cancel is a no-op because a request is already recorded.
As long as storage stays low the job moves between `created` and `processing`
and is never `cancelled`, whereas
`ai_docs/architecture/API_CONTRACT.md:3031-3035` promises that a `created` job
is cancelled at once and a `processing` one at its next safe point.
`CancelSettlesWithStorage` shows the promise is kept once storage recovers.

`ingress_remote` violates `RetainedForAnyCapability`.
`.../application/management_ingress.py:1` says: "Retain shared ingress while any
live capability still needs it." The count before a stop (line 20) covers
management and board-search links. Remote selection links are given the same
tunnel (`.../api/remote_manual_selections.py:114`) and are not counted, so
closing the last online assignment takes the tunnel from a live remote link.

`remote_repair` violates `EveryDecisionKept`. After the host has answered that a
sequence number was used, `rebaseOutboxAfterClientSequenceReplay`
(`apps/reviewer/src/features/manual-selection/remote-selection-store.ts:1216`)
lists the outbox (1236-1240), computes checksums, and rewrites the listed
records in a later transaction (1268-1332), which checks that the listed records
are unchanged but not that there are no others. A decision taken in between has
a number that a renumbered record gets too, or that the clock is set below; the
`put` of the later one replaces the other, and an operation is lost.
`ai_docs/requirements/MANUAL_IMAGE_SELECTION.md:536-539` promises that the
repair keeps the content and `operationId` of every unconfirmed operation. The
functions have no application caller at this commit, only tests, and lines
439-442 of that document call the section historical, so no user of the program
meets this today; it is a fault of code that is kept to be enabled again.
`remote_sync` and the theorems `NothingIsLost` and `DeliversInOrder` show that
this window is the only way a decision is lost or leaves its order, and that it
costs no decision but those taken in it.

## 8. What is only model-checked, and what is not modelled

Only model-checked: the liveness properties `DeadIsReported`, `ChildSettles`,
`ParentWakes`, `OrphanRecovered`, `CancelSettlesWithStorage`, `GCGetsThrough`
and `UnstartedLeavesQueue`. They rest on fairness, whose `ENABLED` the prover
does not handle.

Not modelled, in the modelled components:

- Jobs and lanes: `GET` endpoints; clocks of different hosts or a clock set
  back; a worker loop that is suspended between two statements of one
  transaction (transactions are atomic but for the claim); database failover;
  the two halves of a commit whose outcome the client does not learn. `SELECT
  ... FOR UPDATE` waits are not a state: a command waits until the row is free.
- Assignments and tunnel: the row lock of the import, which the capacity lock
  subsumes; `start_local`; the answers of the tunnel controller other than
  success and an error; the rules by which a link is revoked or expires
  (`EndLink` may come at any time), and who may use a session; that the
  automatic stop counts neither sessions without an assignment (their creation
  does not start the tunnel either); a game whose storage cannot be bound for
  reading, which the code skips when it counts. Whether a board-search share
  that is being created may lose the tunnel is not claimed: the code takes no
  lock there.
- Project store: creation, adoption of an existing folder, the upgrade of older
  formats, relinking of moved roots, `previewRestart`; the steps inside the
  acquisition of the output lease (it is the same `acquire`); files changed by
  hand; more than one damaged copy.
- Remote selection: only commands that decide on one image; one decision under
  way per client; the two reads of `operationClock`, one step here, whose
  difference only makes an expected revision stale, as does what happens after
  them; selection generations are a choice (`raise`); paging of deltas, the
  views of files, two tabs that share one IndexedDB, rate limits, transfers but
  for the revision they raise, materialization, finalization, revocation of a
  session.

Not modelled at all: the components with status `not_modelled` in
`PROJECT.json`, with the reason for each.

## 9. Plan

Done: JobLifecycle, JobContract, JobQueue, WorkerLane, SharedIngress,
OnlineSeats, ProjectLock, ProjectCommands, ProjectStore, OperationLog,
RemoteSync, DecisionDelivery, and the proofs of their safety properties. Next,
in the order of importance:

1. **SourceCropRun**: the run composed with its plan and execute jobs by
   `synchronize_source_crop_job`, at most one active run; theorem: run and job
   agree. Then the replacement of one original under crashes.
2. **StorageGC**: move, mark, delete and checkpoint of candidates under crashes.
3. **GridOperation**: the document of a re-inference operation composed with its
   job; replaces the constant `Unstarted`.
4. The rest of remote selection: transfer, materialization and finalization of a
   batch, composed with RemoteSync.
5. Creation, adoption and relinking of a project; the intent queue of the
   desktop renderer above ProjectStore.
6. The reducer of the web workspace (selection core), checked against a
   reference definition.
