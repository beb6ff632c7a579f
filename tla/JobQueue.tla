------------------------------ MODULE JobQueue ------------------------------
(***************************************************************************)
(* The job queue: the jobs table, the API commands that write it and the   *)
(* worker processes that claim, run and settle its rows.                   *)
(*                                                                         *)
(* Sources: services/worker/.../jobs/store.py (transactions of a worker),  *)
(* jobs/runtime.py (LocalJobWorker, the keepalive thread),                 *)
(* services/api/.../application/jobs.py and storage/job_repository.py (API *)
(* commands), storage/job_admission.py (the gate of one game).             *)
(*                                                                         *)
(* A transaction is one step, except the candidate transaction of          *)
(* claim_next: it reads the slot, and commits later (pc "start") under the *)
(* row lock and the admission lock it took, so that two workers of one     *)
(* lane race as they do on PostgreSQL.                                     *)
(***************************************************************************)
EXTENDS JobLifecycle, FiniteSets

CONSTANTS Job,           \* numbered in created_at order; 0 is no job
          Worker,
          Serves,        \* [Worker -> Slot], the lane of a worker process
          SlotOf,        \* [Job -> Slot], execution_slot_for(job_type)
          Game, GameOf,  \* [Job -> Game]
          Gate,          \* jobs that participate in their game's admission
          Bulk,          \* ... of type image_symbol_review_bulk
          GC,            \* storage_gc jobs
          StorageBound,  \* handlers that defer while storage is low
          Fresh,         \* a retry recomputes their progress from nothing
          LateAck,       \* handlers with acknowledge_cancellation=False
          Reviewed,      \* handlers that may wait for review
          Selection,     \* image_selection jobs: reopened, deleted
          Unstarted,     \* grid jobs persisted without a start authorization
          ChildOf,       \* [Parent -> Job], grid correction learning
          ScanLimit,     \* candidates one claim_next looks at
          MaxFaults,     \* bound: process deaths and failed heartbeats
          MaxLate,       \* bound: heartbeats in flight after their handler
          Timely         \* BOOLEAN: no process is late a tick with its lease

NoJob    == 0
Parent   == DOMAIN ChildOf
Children == {ChildOf[p] : p \in Parent}

ASSUME JobAssumption  == Job \subseteq Nat \ {0}
ASSUME LaneAssumption == Serves \in [Worker -> Slot] /\ SlotOf \in [Job -> Slot]
ASSUME GameAssumption == GameOf \in [Job -> Game]
ASSUME KindAssumption ==
    /\ Bulk \subseteq Gate /\ Unstarted \subseteq Gate
    /\ Gate \subseteq Job /\ Selection \subseteq Job \ Gate
    /\ Parent \cup Children \subseteq Job \ Gate
    /\ Timely \in BOOLEAN /\ MaxFaults \in Nat /\ MaxLate \in Nat
    /\ ScanLimit \in Nat \ {0}

VARIABLES jobs,        \* [Job -> JobRow], the table
          worker,      \* [Worker -> record], memory of the worker processes
          late,        \* <<job, token>> heartbeats still in flight
          storageLow,  \* the capacity check of the handlers would fail
          faults       \* process deaths and failed heartbeats so far

vars == <<jobs, worker, late, storageLow, faults>>

Active == {"created", "processing"}

Idle == [pc |-> "idle", cands |-> {}, job |-> NoJob, token |-> NoToken,
         done |-> 0, touched |-> FALSE, ka |-> "off"]

WorkerState ==
    [pc      : {"idle", "scan", "try", "start", "run", "finish", "failing", "dead"},
     cands   : SUBSET Job,               \* ids read by the candidate query
     job     : Job \cup {NoJob},
     token   : Token \cup {NoToken},
     done    : 0 .. Units,               \* progress in the handler's memory
     touched : BOOLEAN,                  \* this run has checkpointed
     ka      : {"off", "waiting", "due", "lost", "error"}]

(* Mutant: the handler starts from nothing, whatever was checkpointed. *)
ClaimedAfresh(j, t) ==
    [pc |-> "run", cands |-> {}, job |-> j, token |-> t,
     done |-> 0, touched |-> FALSE, ka |-> "waiting"]

(* The claim of job j returned with lease token t. *)
Claimed(j, t) ==
    [pc |-> "run", cands |-> {}, job |-> j, token |-> t,
     done |-> jobs[j].progress, touched |-> FALSE, ka |-> "waiting"]

(* The table is empty but for damaged grid jobs: queued, and not started.  *)
Init ==
    /\ jobs \in [Job -> {Absent, NewJob}]
    /\ \A j \in Job : jobs[j].status = "created" <=> j \in Unstarted
    /\ worker = [w \in Worker |-> Idle]
    /\ late = {}
    /\ storageLow = FALSE
    /\ faults = 0

-----------------------------------------------------------------------------
(* Locks and queries. *)

(* The row lock and the game's advisory lock of an open claim transaction. *)
Claiming(w, j) == worker[w].pc = "start" /\ worker[w].job = j

(* Mutant: the candidate is read without FOR UPDATE. *)
RowNeverLocked(j) == j \in Job

RowFree(j) == \A w \in Worker : ~Claiming(w, j)

GateFree(j) ==
    j \in Gate => \A w \in Worker, k \in Gate :
                      Claiming(w, k) => GameOf[k] # GameOf[j]

Conflicts(j, statuses) ==
    {k \in Gate \ {j} : GameOf[k] = GameOf[j] /\ jobs[k].status \in statuses}

(* Mutant: only what runs is a conflict, as for a worker. *)
AdmittedBesideQueued(j) == j \in Gate => Conflicts(j, {"processing"}) = {}

(* admit_job: from the API, and with worker_execution=True. *)
Admitted(j) ==
    j \in Gate => Conflicts(j, Active) \subseteq (IF j \in Bulk THEN Bulk ELSE {})

AdmittedToRun(j) ==
    /\ GateFree(j)
    /\ j \in Gate => Conflicts(j, {"processing"}) = {}

SlotBusy(s) == \E j \in Job : jobs[j].status = "processing" /\ jobs[j].slot = s

(* Mutants: no dependency check; a child that failed still blocks. *)
ChildIgnored(j) == j \notin Job
ChildUnfinished(j) == j \in Parent /\ jobs[j].waits /\ jobs[ChildOf[j]].status # "completed"

(* dependency_running of the candidate query. *)
ChildRunning(j) ==
    /\ j \in Parent /\ jobs[j].waits
    /\ jobs[ChildOf[j]].status \in Active

(* Mutant: ORDER BY created_at alone. *)
OldestFirst(j, k) == j <= k

(* ORDER BY storage_gc first, then created_at. *)
Before(j, k) ==
    \/ j \in GC /\ k \notin GC
    \/ (j \in GC <=> k \in GC) /\ j <= k

(* Mutant: a job somebody wants cancelled is not worth claiming. *)
QueueUncancelled(s) ==
    {j \in Job : jobs[j].status = "created" /\ SlotOf[j] = s
                 /\ ~jobs[j].cancel /\ ~ChildRunning(j)}

Queue(s) ==
    {j \in Job : /\ jobs[j].status = "created"
                 /\ SlotOf[j] = s
                 /\ jobs[j].cancel \/ ~ChildRunning(j)}

(* LIMIT CANDIDATE_SCAN_LIMIT *)
Candidates(s) ==
    {j \in Queue(s) : Cardinality({k \in Queue(s) : Before(k, j)}) <= ScanLimit}

Becomes(w, memory) == worker' = [worker EXCEPT ![w] = memory]

Stopped(w) == Becomes(w, Idle)

Dead(w) == Becomes(w, [Idle EXCEPT !.pc = "dead"])

(* _LeaseKeepalive.stop waits for the thread; one blocked in its heartbeat *)
(* transaction outlives the join and commits later.                        *)
KeepaliveEnds(w) ==
    \/ late' = late
    \/ /\ worker[w].ka = "due" /\ Cardinality(late) < MaxLate
       /\ late' = late \cup {<<worker[w].job, worker[w].token>>}

-----------------------------------------------------------------------------
(* claim_next. *)

Recover(w) ==
    /\ worker[w].pc = "idle"
    /\ \E d \in Age :
         LET found == {j \in Job : /\ Expired(jobs[j], d)
                                   /\ jobs[j].slot = Serves[w]
                                   /\ AdmittedToRun(j)}
         IN  \/ found = {} /\ UNCHANGED jobs
             \/ \E j \in found :
                  jobs' = [jobs EXCEPT ![j] = IF j \in Unstarted
                                              THEN Quarantined(@) ELSE Recovered(@)]
    /\ Becomes(w, [worker[w] EXCEPT !.pc = "scan"])
    /\ UNCHANGED <<late, storageLow, faults>>

Scan(w) ==
    /\ worker[w].pc = "scan"
    /\ LET found == IF SlotBusy(Serves[w]) THEN {} ELSE Candidates(Serves[w])
       IN  IF found = {} THEN Stopped(w)
           ELSE Becomes(w, [worker[w] EXCEPT !.pc = "try", !.cands = found])
    /\ UNCHANGED <<jobs, late, storageLow, faults>>

(* The loop goes on with the next candidate, and gives up after the last.  *)
Skip(w, j) ==
    IF worker[w].cands = {j} THEN Stopped(w)
    ELSE Becomes(w, [worker[w] EXCEPT !.cands = @ \ {j}])

TryCandidate(w) ==
    /\ worker[w].pc = "try"
    /\ \E j \in worker[w].cands :
         /\ \A k \in worker[w].cands : Before(j, k)
         /\ \/ /\ jobs[j].status # "created" \/ ~AdmittedToRun(j) \/ ~RowFree(j)
               /\ Skip(w, j) /\ UNCHANGED jobs
            \/ /\ jobs[j].status = "created" /\ AdmittedToRun(j) /\ RowFree(j)
               /\ \/ /\ j \in Unstarted
                     /\ jobs' = [jobs EXCEPT ![j] = Quarantined(@)]
                     /\ Skip(w, j)
                  \/ /\ j \notin Unstarted /\ SlotBusy(Serves[w])
                     /\ Stopped(w) /\ UNCHANGED jobs
                  \/ /\ j \notin Unstarted /\ ~SlotBusy(Serves[w])
                     /\ Becomes(w, [Idle EXCEPT !.pc = "start", !.job = j])
                     /\ UNCHANGED jobs
    /\ UNCHANGED <<late, storageLow, faults>>

TokensInUse ==
    {jobs[j].token : j \in Job} \cup {worker[w].token : w \in Worker}
      \cup {p[2] : p \in late}

(* The flush of start_job; uq_jobs_execution_slot refuses a second holder. *)
CommitClaim(w) ==
    /\ worker[w].pc = "start"
    /\ \/ SlotBusy(Serves[w]) /\ Stopped(w) /\ UNCHANGED jobs
       \/ /\ ~SlotBusy(Serves[w])
          /\ \E t \in Token \ TokensInUse, d \in Age :
               LET j == worker[w].job
               IN  /\ jobs' = [jobs EXCEPT ![j] = Start(@, Serves[w], t, d)]
                   /\ Becomes(w, Claimed(j, t))
    /\ UNCHANGED <<late, storageLow, faults>>

-----------------------------------------------------------------------------
(* A handler and its JobExecutionContext. *)

Running(w) == worker[w].pc = "run"

(* The fenced write of worker w with a clock reading of age d.              *)
Holds(w, d) == Leased(jobs[worker[w].job], worker[w].token, d)

Write(w, row) == jobs' = [jobs EXCEPT ![worker[w].job] = row]

CapacityFor(j) == j \in StorageBound => ~storageLow

(* waitingForJobId of the payload a checkpoint writes: only a learning     *)
(* workflow has one, from its second checkpoint on.                        *)
WaitsAfter(w) ==
    IF worker[w].job \in Parent /\ worker[w].touched
    THEN jobs[ChildOf[worker[w].job]].status \in Active
    ELSE jobs[worker[w].job].waits

CheckpointStep(w) ==
    /\ Running(w)
    /\ CapacityFor(worker[w].job)
    /\ \E d \in Age, ack \in BOOLEAN, n \in 0 .. Units :
         LET r    == jobs[worker[w].job]
             next == Checkpoint(r, d, n, WaitsAfter(w))
         IN  /\ n = worker[w].done + 1 \/ (n = worker[w].done /\ ~worker[w].touched)
             /\ ack \/ worker[w].job \in LateAck
             /\ Holds(w, d)
             /\ MayProgress(r, n)
             /\ IF r.cancel /\ ack
                THEN Write(w, Settled(next, "cancelled")) /\ Stopped(w) /\ KeepaliveEnds(w)
                ELSE /\ Write(w, next)
                     /\ Becomes(w, [worker[w] EXCEPT !.done = n, !.touched = TRUE])
                     /\ UNCHANGED late
    /\ UNCHANGED <<storageLow, faults>>

(* complete, fail, wait and defer raise INVALID_JOB_STATUS_TRANSITION, or  *)
(* JOB_NOT_FOUND, before they look at the lease.                           *)
LeftProcessing(w) == jobs[worker[w].job].status # "processing"

(* A call of the context is refused.  JOB_LEASE_LOST (of a checkpoint, or  *)
(* of any call while another run processes the row) ends run_once; the two *)
(* other conflicts go to _fail_handler.                                    *)
LeaseRefused(w) ==
    /\ Running(w)
    /\ \E d \in Age : ~Holds(w, d)
    /\ \/ jobs[worker[w].job].status # "deleted" /\ Stopped(w)
       \/ /\ LeftProcessing(w)
          /\ Becomes(w, [worker[w] EXCEPT !.pc = "failing", !.ka = "off"])
    /\ KeepaliveEnds(w)
    /\ UNCHANGED <<jobs, storageLow, faults>>

WaitForReview(w) ==
    /\ Running(w)
    /\ worker[w].job \in Reviewed /\ worker[w].done = Units
    /\ \E d \in Age : Holds(w, d)
    /\ Write(w, Settled(jobs[worker[w].job], "waiting_for_review"))
    /\ Stopped(w)
    /\ KeepaliveEnds(w)
    /\ UNCHANGED <<storageLow, faults>>

DeferForStorage(w) ==
    /\ Running(w)
    /\ ~CapacityFor(worker[w].job)
    /\ \E d \in Age : Holds(w, d)
    /\ Write(w, Deferred(jobs[worker[w].job], FALSE))
    /\ Stopped(w)
    /\ KeepaliveEnds(w)
    /\ UNCHANGED <<storageLow, faults>>

(* The learning workflow: advance creates the child once (child_key), and  *)
(* not after a cancel; it does not look at the lease.                      *)
CreateChild(w) ==
    /\ Running(w)
    /\ worker[w].job \in Parent /\ worker[w].touched
    /\ ~jobs[worker[w].job].cancel
    /\ jobs[ChildOf[worker[w].job]].status = "absent"
    /\ jobs' = [jobs EXCEPT ![ChildOf[worker[w].job]] = NewJob]
    /\ UNCHANGED <<worker, late, storageLow, faults>>

AwaitChild(w) ==
    /\ Running(w)
    /\ worker[w].job \in Parent /\ worker[w].touched
    /\ jobs[ChildOf[worker[w].job]].status \in Active
    /\ \E d \in Age : Holds(w, d)
    /\ Write(w, Deferred(jobs[worker[w].job], TRUE))
    /\ Stopped(w)
    /\ KeepaliveEnds(w)
    /\ UNCHANGED <<storageLow, faults>>

HandlerDone(w) ==
    IF worker[w].job \in Parent
    THEN worker[w].touched /\ jobs[ChildOf[worker[w].job]].status = "completed"
    ELSE worker[w].done = Units

(* Mutant: what keepalive.stop() returns is not looked at. *)
ReturnsAnyway(w) ==
    /\ Running(w)
    /\ CapacityFor(worker[w].job) /\ HandlerDone(w)
    /\ KeepaliveEnds(w)
    /\ Becomes(w, [worker[w] EXCEPT !.pc = "finish", !.ka = "off"])
    /\ UNCHANGED <<jobs, storageLow, faults>>

(* The handler returned; keepalive.stop() decides what run_once does next. *)
HandlerReturns(w) ==
    /\ Running(w)
    /\ CapacityFor(worker[w].job) /\ HandlerDone(w)
    /\ KeepaliveEnds(w)
    /\ IF late' = late /\ worker[w].ka = "lost" THEN Stopped(w)
       ELSE Becomes(w, [worker[w] EXCEPT
                !.pc = IF late' = late /\ worker[w].ka # "error"
                       THEN "finish" ELSE "failing",
                !.ka = "off"])
    /\ UNCHANGED <<jobs, storageLow, faults>>

(* Any other exception of the handler, a failed database call included.    *)
HandlerRaises(w) ==
    /\ Running(w)
    /\ KeepaliveEnds(w)
    /\ Becomes(w, [worker[w] EXCEPT !.pc = "failing", !.ka = "off"])
    /\ UNCHANGED <<jobs, storageLow, faults>>

(* complete: every exception but JOB_LEASE_LOST goes to _fail_handler. *)
Finish(w) ==
    /\ worker[w].pc = "finish"
    /\ \/ /\ \E d \in Age : Holds(w, d)
          /\ Write(w, Settled(jobs[worker[w].job], "completed"))
          /\ Stopped(w)
       \/ /\ \E d \in Age : ~Holds(w, d)
          /\ ~LeftProcessing(w)
          /\ Stopped(w) /\ UNCHANGED jobs
       \/ /\ Becomes(w, [worker[w] EXCEPT !.pc = "failing"])
          /\ UNCHANGED jobs
    /\ UNCHANGED <<late, storageLow, faults>>

(* fail: a conflict other than JOB_LEASE_LOST is raised out of run_once    *)
(* and ends the process.                                                   *)
FailRun(w) ==
    /\ worker[w].pc = "failing"
    /\ \/ /\ \E d \in Age : Holds(w, d)
          /\ Write(w, Settled(jobs[worker[w].job], "failed"))
          /\ Stopped(w)
       \/ /\ \E d \in Age : ~Holds(w, d)
          /\ IF LeftProcessing(w) THEN Dead(w) ELSE Stopped(w)
          /\ UNCHANGED jobs
    /\ UNCHANGED <<late, storageLow, faults>>

-----------------------------------------------------------------------------
(* The keepalive thread, process deaths and the clock. *)

Heartbeat(w) ==
    /\ Running(w) /\ worker[w].ka = "due"
    /\ \E d \in Age :
         \/ /\ Holds(w, d)
            /\ Write(w, Renew(jobs[worker[w].job], d))
            /\ Becomes(w, [worker[w] EXCEPT !.ka = "waiting"])
         \/ /\ ~Holds(w, d)
            /\ Becomes(w, [worker[w] EXCEPT !.ka =
                   IF jobs[worker[w].job].status = "deleted" THEN "error" ELSE "lost"])
            /\ UNCHANGED jobs
    /\ UNCHANGED <<late, storageLow, faults>>

(* A failed database call ends the thread; the handler goes on without it. *)
HeartbeatErrs(w) ==
    /\ Running(w) /\ worker[w].ka = "due" /\ faults < MaxFaults
    /\ faults' = faults + 1
    /\ Becomes(w, [worker[w] EXCEPT !.ka = "error"])
    /\ UNCHANGED <<jobs, late, storageLow>>

(* Mutant: a heartbeat renews whichever run the row is processing. *)
LateHeartbeatUnfenced(p) ==
    /\ p \in late
    /\ late' = late \ {p}
    /\ \E d \in Age :
         jobs' = IF LeasedByAnyone(jobs[p[1]], p[2], d)
                 THEN [jobs EXCEPT ![p[1]] = Renew(@, d)] ELSE jobs
    /\ UNCHANGED <<worker, storageLow, faults>>

LateHeartbeat(p) ==
    /\ p \in late
    /\ late' = late \ {p}
    /\ \E d \in Age :
         jobs' = IF Leased(jobs[p[1]], p[2], d)
                 THEN [jobs EXCEPT ![p[1]] = Renew(@, d)] ELSE jobs
    /\ UNCHANGED <<worker, storageLow, faults>>

(* The process dies: its open transactions roll back, its memory is gone.  *)
Crash(w) ==
    /\ worker[w].pc # "dead" /\ faults < MaxFaults
    /\ faults' = faults + 1
    /\ Dead(w)
    /\ KeepaliveEnds(w)
    /\ UNCHANGED <<jobs, storageLow>>

Restart(w) ==
    /\ worker[w].pc = "dead"
    /\ Stopped(w)
    /\ UNCHANGED <<jobs, late, storageLow, faults>>

(* A process that has a lease to renew or to settle at this very moment.   *)
Overdue(w) ==
    \/ Running(w) /\ worker[w].ka = "due"
    \/ worker[w].pc \in {"finish", "failing"}

Tick ==
    /\ Timely => \A w \in Worker : ~Overdue(w)
    /\ jobs' = [j \in Job |-> Aged(jobs[j])]
    /\ worker' = [w \in Worker |->
                    IF Running(w) /\ worker[w].ka = "waiting"
                    THEN [worker[w] EXCEPT !.ka = "due"] ELSE worker[w]]
    /\ UNCHANGED <<late, storageLow, faults>>

StorageChanges ==
    /\ StorageBound # {}
    /\ storageLow' = ~storageLow
    /\ UNCHANGED <<jobs, worker, late, faults>>

-----------------------------------------------------------------------------
(* The API. *)

Submit(j) ==
    /\ jobs[j].status = "absent" /\ j \notin Children
    /\ \A k \in Job \ Children : k > j => jobs[k].status = "absent"
    /\ GateFree(j) /\ Admitted(j)
    /\ jobs' = [jobs EXCEPT ![j] = NewJob]
    /\ UNCHANGED <<worker, late, storageLow, faults>>

Cancel(j) ==
    /\ RowFree(j)
    /\ MayCancel(jobs[j])
    /\ jobs' = [jobs EXCEPT ![j] = CancelRequested(@)]
    /\ UNCHANGED <<worker, late, storageLow, faults>>

Retry(j) ==
    /\ GateFree(j) /\ Admitted(j) /\ j \notin Unstarted
    /\ RowFree(j)
    /\ MayRequeue(jobs[j])
    /\ jobs' = [jobs EXCEPT ![j] = IF j \in Fresh THEN RequeuedFresh(@) ELSE Requeued(@)]
    /\ UNCHANGED <<worker, late, storageLow, faults>>

Reopen(j) ==
    /\ j \in Selection /\ RowFree(j)
    /\ MayReopen(jobs[j])
    /\ jobs' = [jobs EXCEPT ![j] = Requeued(@)]
    /\ UNCHANGED <<worker, late, storageLow, faults>>

(* Mutant: any job may be deleted. *)
DeleteAnyJob(j) ==
    /\ j \in Selection /\ RowFree(j)
    /\ jobs[j].status \notin {"absent", "deleted"}
    /\ jobs' = [jobs EXCEPT ![j] = Row("deleted")]
    /\ UNCHANGED <<worker, late, storageLow, faults>>

Delete(j) ==
    /\ j \in Selection /\ RowFree(j)
    /\ jobs[j].status = "cancelled"
    /\ jobs' = [jobs EXCEPT ![j] = Row("deleted")]
    /\ UNCHANGED <<worker, late, storageLow, faults>>

(* cancel and resume of the learning workflow treat parent and child       *)
(* together, under the advisory lock that creates the child.               *)
CancelWorkflow(p) ==
    /\ p \in Parent /\ RowFree(p) /\ RowFree(ChildOf[p])
    /\ jobs[p].status # "absent"
    /\ jobs' = [j \in Job |-> IF j \in {p, ChildOf[p]} /\ MayCancel(jobs[j])
                              THEN CancelRequested(jobs[j]) ELSE jobs[j]]
    /\ UNCHANGED <<worker, late, storageLow, faults>>

ResumeWorkflow(p) ==
    /\ p \in Parent /\ RowFree(p) /\ RowFree(ChildOf[p])
    /\ jobs[p].status \in {"failed", "cancelled"}
    /\ ~(jobs[ChildOf[p]].status \in Active /\ jobs[ChildOf[p]].cancel)
    /\ jobs' = [j \in Job |->
                  IF j = p \/ (j = ChildOf[p] /\ jobs[j].status \in {"failed", "cancelled"})
                  THEN Requeued(jobs[j]) ELSE jobs[j]]
    /\ UNCHANGED <<worker, late, storageLow, faults>>

-----------------------------------------------------------------------------
ClaimStep(w) == Recover(w) \/ Scan(w) \/ TryCandidate(w) \/ CommitClaim(w)

HandlerStep(w) ==
    \/ CheckpointStep(w)
    \/ LeaseRefused(w)
    \/ WaitForReview(w)
    \/ DeferForStorage(w)
    \/ CreateChild(w)
    \/ AwaitChild(w)
    \/ HandlerReturns(w)
    \/ HandlerRaises(w)
    \/ Finish(w)
    \/ FailRun(w)

KeepaliveStep(w) == Heartbeat(w) \/ HeartbeatErrs(w)

ApiStep(j) ==
    \/ Submit(j)
    \/ Cancel(j)
    \/ Retry(j)
    \/ Reopen(j)
    \/ Delete(j)
    \/ CancelWorkflow(j)
    \/ ResumeWorkflow(j)

WorkerStep(w) ==
    \/ ClaimStep(w)
    \/ HandlerStep(w)
    \/ KeepaliveStep(w)
    \/ Crash(w)
    \/ Restart(w)

Next ==
    \/ \E w \in Worker : WorkerStep(w)
    \/ \E p \in late : LateHeartbeat(p)
    \/ Tick
    \/ StorageChanges
    \/ \E j \in Job : ApiStep(j)

Spec == Init /\ [][Next]_vars

(***************************************************************************)
(* Fairness.  A worker process polls in a loop, its handler and its        *)
(* keepalive thread run, time passes, and a dead process is started again  *)
(* by its launcher.  No API command is assumed, nor that storage changes.  *)
(***************************************************************************)
Fairness ==
    /\ \A w \in Worker : /\ WF_vars(ClaimStep(w))
                         /\ WF_vars(HandlerStep(w))
                         /\ WF_vars(KeepaliveStep(w))
                         /\ WF_vars(Restart(w))
    /\ WF_vars(Tick)

FairSpec == Spec /\ Fairness

-----------------------------------------------------------------------------
(* Properties. *)

TypeOK ==
    /\ jobs \in [Job -> JobRow]
    /\ worker \in [Worker -> WorkerState]
    /\ late \subseteq Job \X Token
    /\ storageLow \in BOOLEAN
    /\ faults \in 0 .. MaxFaults

(* The worker whose token the row carries. *)
Owns(w, j) ==
    /\ worker[w].job = j /\ worker[w].token # NoToken
    /\ jobs[j].status = "processing" /\ jobs[j].token = worker[w].token

(* ck_jobs_processing_lease_fields and uq_jobs_execution_slot: whatever    *)
(* path a row takes, lease fields are set exactly while it is processing,   *)
(* in its own lane, and a lane has one holder.                             *)
LaneLease ==
    \A j \in Job :
      /\ jobs[j].status = "processing" =>
            jobs[j].slot = SlotOf[j] /\ jobs[j].token # NoToken
      /\ jobs[j].status # "processing" =>
            jobs[j].slot = NoSlot /\ jobs[j].token = NoToken
      /\ \A k \in Job \ {j} : jobs[j].slot # NoSlot => jobs[j].slot # jobs[k].slot

(* The row a claim transaction has locked is still created when it commits:*)
(* no cancel, deletion or second claim slips in after the status was read.  *)
ClaimedRowIsCreated ==
    \A w \in Worker : worker[w].pc = "start" => jobs[worker[w].job].status = "created"

(* The holder of the lease sees its own progress in the row, so the        *)
(* JOB_PROGRESS_REGRESSION check never fails a handler that was not fenced *)
(* off, whatever takeovers and fresh retries came before it.               *)
OwnerInSync ==
    \A w \in Worker, j \in Job : Owns(w, j) => jobs[j].progress = worker[w].done

(* A requested cancellation is never overruled by a result: the job stays  *)
(* queued or running until it is cancelled, and no job is cancelled that   *)
(* nobody asked to cancel.                                                 *)
CancelNotOverruled ==
    \A j \in Job :
      /\ jobs[j].cancel => jobs[j].status \in Active \cup {"cancelled"}
      /\ jobs[j].status = "cancelled" => jobs[j].cancel

(* D-566 and the admission gate: two conflicting workflows of one game are *)
(* never queued or running together, bulk decisions excepted.              *)
AdmissionExclusive ==
    \A j, k \in Gate \ Unstarted :
      /\ j # k /\ GameOf[j] = GameOf[k]
      /\ jobs[j].status \in Active /\ jobs[k].status \in Active
      => {j, k} \subseteq Bulk

(* The memory m of worker w fits its program counter. *)
Shape(w, m) ==
    /\ m.cands \subseteq {j \in Job : SlotOf[j] = Serves[w]}
    /\ m.pc \in {"start", "run", "finish", "failing"} => m.job \in Job
    /\ m.pc = "start" => SlotOf[m.job] = Serves[w]
    /\ m.pc \in {"run", "finish", "failing"} <=> m.token # NoToken
    /\ m.ka # "off" => m.pc = "run"

(* Two open claims are of two rows: the row lock, of which FOR UPDATE SKIP *)
(* LOCKED lets a candidate transaction never wait.                         *)
WorkerShape ==
    /\ \A w \in Worker : Shape(w, worker[w])
    /\ \A v, w \in Worker :
          v # w /\ worker[v].pc = "start" /\ worker[w].pc = "start"
          => worker[v].job # worker[w].job

(* No two processes and no two rows share a lease token: claims draw new   *)
(* ones.                                                                   *)
OneOwner ==
    /\ \A v, w \in Worker : v # w /\ worker[v].token # NoToken =>
            worker[v].token # worker[w].token
    /\ \A j, k \in Job : j # k /\ jobs[j].token # NoToken =>
            jobs[j].token # jobs[k].token

(* The inductive invariant of the proofs. *)
Inductive ==
    /\ TypeOK /\ WorkerShape /\ LaneLease /\ OneOwner /\ ClaimedRowIsCreated
    /\ OwnerInSync /\ CancelNotOverruled /\ AdmissionExclusive

(* With keepalive threads that are never late, two processes run the       *)
(* handler of one job only if the keepalive of one of them is gone.        *)
HandlersExclusive ==
    \A v, w \in Worker :
      v # w /\ Running(v) /\ Running(w) /\ worker[v].job = worker[w].job
      => \E u \in {v, w} : worker[u].ka \in {"lost", "error"}

(* With timely processes a result is never thrown away: whoever goes on to *)
(* complete holds the lease for every reading of the clock.  A run whose   *)
(* keepalive failed must not get that far.                                 *)
ResultsAreAccepted ==
    \A w \in Worker : worker[w].pc = "finish" => \A d \in Age : Holds(w, d)

(* With timely processes no job ends its worker process: before the first  *)
(* death or failed heartbeat, fail always finds the row as it expects it,  *)
(* whatever clients cancel, reopen and delete meanwhile.                   *)
EndsOnlyAfterFault ==
    [][\A w \in Worker :
         worker[w].pc # "dead" /\ worker'[w].pc = "dead" => faults' > 0]_vars

(* A lease is prolonged on behalf of the run that holds it and of no other *)
(* run of the row, be it by a heartbeat that outlived its handler; and a   *)
(* lease that is over for every reading of the clock is not brought back.  *)
RenewedByItsRun ==
    [][\A j \in Job :
         /\ jobs[j].status = "processing" /\ jobs'[j].status = "processing"
         /\ jobs'[j].ttl > jobs[j].ttl
         => /\ jobs[j].ttl > 0 - MaxAge
            /\ \/ \E w \in Worker : Owns(w, j) /\ worker'[w] # worker[w]
               \/ <<j, jobs[j].token>> \in late \ late']_vars

(* A row leaves processing by the hand of its owner, or once its lease is  *)
(* really over: a reading of the clock taken before the row lock never     *)
(* takes a job from a worker that still has time left.                     *)
TakeoverOnlyAfterExpiry ==
    [][\A j \in Job :
         jobs[j].status = "processing" /\ jobs'[j].status # "processing"
         => \/ jobs[j].ttl <= 0
            \/ \E w \in Worker : Owns(w, j) /\ worker'[w].token # worker[w].token]_vars

(* Work is counted once: the progress of a row grows only by the writes of *)
(* its owner and falls only with a retry that starts afresh.               *)
ProgressIsOwned ==
    [][\A j \in Job :
         /\ jobs'[j].progress > jobs[j].progress =>
               \E w \in Worker : Owns(w, j) /\ worker'[w] # worker[w]
         /\ jobs'[j].progress < jobs[j].progress =>
               jobs[j].status \notin Active]_vars

(* The queue implements the contract of its clients. *)
Contract == INSTANCE JobContract WITH
                Reopenable <- Selection,
                status <- [j \in Job |-> jobs[j].status],
                cancel <- [j \in Job |-> jobs[j].cancel]

ImplementsContract == Contract!Spec

(* Clients stop putting settled jobs back. *)
Calm ==
    <>[][\A j \in Job : jobs'[j].status = "created" /\ jobs[j].status # "created"
                        => jobs[j].status = "processing"]_vars

(* A job whose worker died, or lost its lease, is taken from it. *)
Orphan(j) ==
    jobs[j].status = "processing" /\ \A w \in Worker : ~Owns(w, j)

OrphanRecovered == \A j \in Job : Orphan(j) ~> ~Orphan(j)

(* A cancellation the API accepted is carried out. *)
CancelPending(j) == jobs[j].cancel /\ jobs[j].status \in Active

CancelSettles == \A j \in Job : CancelPending(j) ~> ~CancelPending(j)

CancelSettlesWithStorage == Calm /\ <>[]~storageLow => CancelSettles

(* Storage maintenance is claimed though an older handler keeps deferring. *)
GCGetsThrough ==
    \A j \in GC : jobs[j].status = "created" ~> jobs[j].status # "created"

(* A job left without a start authorization leaves the queue, and with it  *)
(* the head of its lane.                                                   *)
UnstartedLeavesQueue ==
    Calm => \A j \in Unstarted : jobs[j].status \in Active ~> jobs[j].status \notin Active

(* A parent that waits for its child does not keep the lane from it ...    *)
ChildSettles ==
    Calm => \A c \in Children : jobs[c].status \in Active ~> jobs[c].status \notin Active

(* ... and is claimed again once the child has settled.                    *)
ParentWakes ==
    Calm => \A p \in Parent : jobs[p].status = "created" ~> jobs[p].status # "created"
=============================================================================
