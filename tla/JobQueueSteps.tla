--------------------------- MODULE JobQueueSteps ----------------------------
EXTENDS JobQueue, TLAPS

USE DEF vars

-----------------------------------------------------------------------------
(* The transitions of JobLifecycle map rows to rows. *)

LEMMA RowType == \A s \in Status : Row(s) \in JobRow
  BY TimeAssumption, UnitsAssumption DEF Row, JobRow

LEMMA IntoType == \A r \in JobRow, s \in Status : Into(r, s) \in JobRow
  BY TimeAssumption DEF Into, JobRow

LEMMA SettledType == \A r \in JobRow, s \in Status : Settled(r, s) \in JobRow
  BY IntoType DEF Settled, Status

LEMMA RecoveredType ==
  \A r \in JobRow : Recovered(r) \in JobRow /\ Quarantined(r) \in JobRow
  BY SettledType DEF Recovered, Quarantined, Status

LEMMA DeferredType == \A r \in JobRow, b \in BOOLEAN : Deferred(r, b) \in JobRow
  BY TimeAssumption DEF Deferred, Into, JobRow, Status

LEMMA RenewType == \A r \in JobRow, d \in Age : Renew(r, d) \in JobRow
  BY TimeAssumption DEF Renew, JobRow, Age

LEMMA CheckpointType ==
  \A r \in JobRow, d \in Age, n \in 0 .. Units, b \in BOOLEAN :
     Checkpoint(r, d, n, b) \in JobRow
  BY RenewType DEF Checkpoint, JobRow

LEMMA StartType ==
  \A r \in JobRow, s \in Slot, t \in Token, d \in Age : Start(r, s, t, d) \in JobRow
  BY TimeAssumption DEF Start, JobRow, Age, Status

LEMMA CancelType == \A r \in JobRow : CancelRequested(r) \in JobRow
  BY DEF CancelRequested, JobRow, Status

LEMMA RequeuedType ==
  \A r \in JobRow : Requeued(r) \in JobRow /\ RequeuedFresh(r) \in JobRow
<1>1. Row("created") \in JobRow
  BY RowType DEF Status
<1> QED
  BY <1>1 DEF Requeued, RequeuedFresh, JobRow

LEMMA AgedType == \A r \in JobRow : Aged(r) \in JobRow
  BY TimeAssumption DEF Aged, JobRow

-----------------------------------------------------------------------------
(* The memories a worker goes through. *)

LEMMA IdleType == Idle \in WorkerState
  BY UnitsAssumption DEF Idle, WorkerState

LEMMA PcType ==
  \A r \in WorkerState :
     /\ [r EXCEPT !.pc = "scan"] \in WorkerState
     /\ [r EXCEPT !.pc = "dead"] \in WorkerState
     /\ [r EXCEPT !.pc = "failing"] \in WorkerState
  BY DEF WorkerState

LEMMA StoppingType ==
  \A r \in WorkerState, pc \in {"finish", "failing"} :
     [r EXCEPT !.pc = pc, !.ka = "off"] \in WorkerState
  BY DEF WorkerState

LEMMA KeepaliveType ==
  \A r \in WorkerState, k \in {"waiting", "due", "error", "lost"} :
     [r EXCEPT !.ka = k] \in WorkerState
  BY DEF WorkerState

LEMMA CandidatesType ==
  \A r \in WorkerState, S \in SUBSET Job :
     /\ [r EXCEPT !.pc = "try", !.cands = S] \in WorkerState
     /\ [r EXCEPT !.cands = S] \in WorkerState
  BY DEF WorkerState

LEMMA StartingType == \A j \in Job : [Idle EXCEPT !.pc = "start", !.job = j] \in WorkerState
  BY IdleType DEF WorkerState

LEMMA ClaimedType ==
  ASSUME TypeOK, NEW j \in Job, NEW t \in Token
  PROVE  Claimed(j, t) \in WorkerState
  BY DEF TypeOK, Claimed, WorkerState, JobRow

LEMMA ProgressType ==
  \A r \in WorkerState, n \in 0 .. Units :
     [r EXCEPT !.done = n, !.touched = TRUE] \in WorkerState
  BY DEF WorkerState

LEMMA BecomesType ==
  ASSUME TypeOK, NEW w \in Worker, NEW m \in WorkerState, Becomes(w, m)
  PROVE  worker' \in [Worker -> WorkerState]
  BY DEF TypeOK, Becomes

LEMMA StoppedType ==
  ASSUME TypeOK, NEW w \in Worker, Stopped(w) \/ Dead(w)
  PROVE  worker' \in [Worker -> WorkerState]
  BY IdleType, PcType, BecomesType DEF Stopped, Dead

LEMMA WaitsType ==
  ASSUME NEW w \in Worker, jobs[worker[w].job] \in JobRow
  PROVE  WaitsAfter(w) \in BOOLEAN
<1>1. jobs[worker[w].job].waits \in BOOLEAN
  BY DEF JobRow
<1>2. (jobs[ChildOf[worker[w].job]].status \in Active) \in BOOLEAN
  OBVIOUS
<1> QED
  BY <1>1, <1>2, Zenon DEF WaitsAfter

LEMMA LateType ==
  ASSUME TypeOK, WorkerShape, NEW w \in Worker, KeepaliveEnds(w)
  PROVE  late' \subseteq Job \X Token
<1>1. worker[w].ka = "due" => worker[w].job \in Job /\ worker[w].token \in Token
  BY DEF WorkerShape, Shape, TypeOK, WorkerState
<1> QED
  BY <1>1 DEF KeepaliveEnds, TypeOK

-----------------------------------------------------------------------------
(* Type correctness is preserved: one case per action. *)

LEMMA TypeStep ==
  ASSUME TypeOK, WorkerShape, [Next]_vars
  PROVE  TypeOK'
<1> USE DEF TypeOK
<1>1. ASSUME NEW w \in Worker, Recover(w) PROVE TypeOK'
  <2>1. worker' \in [Worker -> WorkerState]
    BY <1>1, PcType, BecomesType DEF Recover
  <2>2. jobs' \in [Job -> JobRow]
    BY <1>1, RecoveredType DEF Recover
  <2> QED
    BY <1>1, <2>1, <2>2 DEF Recover
<1>2. ASSUME NEW w \in Worker, Scan(w) PROVE TypeOK'
  <2>1. worker' \in [Worker -> WorkerState]
    <3> DEFINE found == IF SlotBusy(Serves[w]) THEN {} ELSE Candidates(Serves[w])
    <3>1. found \in SUBSET Job
      BY DEF Candidates, Queue
    <3>2. Stopped(w) \/ Becomes(w, [worker[w] EXCEPT !.pc = "try", !.cands = found])
      BY <1>2 DEF Scan
    <3> HIDE DEF found
    <3> QED
      BY <3>1, <3>2, StoppedType, BecomesType, CandidatesType
  <2> QED
    BY <1>2, <2>1 DEF Scan
<1>3. ASSUME NEW w \in Worker, TryCandidate(w) PROVE TypeOK'
  <2>1. PICK j \in worker[w].cands :
            /\ Skip(w, j) \/ Stopped(w) \/ Becomes(w, [Idle EXCEPT !.pc = "start", !.job = j])
            /\ UNCHANGED jobs \/ jobs' = [jobs EXCEPT ![j] = Quarantined(@)]
    BY <1>3 DEF TryCandidate
  <2>2. j \in Job /\ worker[w].cands \ {j} \in SUBSET Job
    BY DEF WorkerState
  <2>3. worker' \in [Worker -> WorkerState]
    BY <2>1, <2>2, StoppedType, BecomesType, CandidatesType, StartingType DEF Skip
  <2>4. jobs' \in [Job -> JobRow]
    BY <2>1, <2>2, RecoveredType
  <2> QED
    BY <1>3, <2>3, <2>4 DEF TryCandidate
<1>4. ASSUME NEW w \in Worker, CommitClaim(w) PROVE TypeOK'
  <2>1. worker[w].job \in Job
    BY <1>4 DEF CommitClaim, WorkerShape, Shape
  <2>2. CASE Stopped(w) /\ UNCHANGED jobs
    BY <1>4, <2>2, StoppedType DEF CommitClaim
  <2>3. CASE \E t \in Token, d \in Age :
               /\ jobs' = [jobs EXCEPT ![worker[w].job] = Start(@, Serves[w], t, d)]
               /\ Becomes(w, Claimed(worker[w].job, t))
    <3>1. worker' \in [Worker -> WorkerState]
      BY <2>1, <2>3, ClaimedType, BecomesType
    <3>2. jobs' \in [Job -> JobRow]
      BY <2>1, <2>3, StartType, LaneAssumption
    <3> QED
      BY <1>4, <3>1, <3>2 DEF CommitClaim
  <2> QED
    BY <1>4, <2>2, <2>3 DEF CommitClaim
<1>5. ASSUME NEW w \in Worker, CheckpointStep(w) PROVE TypeOK'
  <2>1. worker[w].job \in Job /\ jobs[worker[w].job] \in JobRow
    BY <1>5 DEF CheckpointStep, Running, WorkerShape, Shape
  <2>2. WaitsAfter(w) \in BOOLEAN
    BY <2>1, WaitsType
  <2>3. PICK d \in Age, n \in 0 .. Units :
          LET next == Checkpoint(jobs[worker[w].job], d, n, WaitsAfter(w))
          IN  \/ Write(w, Settled(next, "cancelled")) /\ Stopped(w) /\ KeepaliveEnds(w)
              \/ /\ Write(w, next)
                 /\ Becomes(w, [worker[w] EXCEPT !.done = n, !.touched = TRUE])
                 /\ UNCHANGED late
    BY <1>5 DEF CheckpointStep
  <2> DEFINE next == Checkpoint(jobs[worker[w].job], d, n, WaitsAfter(w))
  <2>4. next \in JobRow /\ Settled(next, "cancelled") \in JobRow
    BY <2>1, <2>2, CheckpointType, SettledType DEF Status
  <2> HIDE DEF next
  <2>5. jobs' \in [Job -> JobRow]
    BY <2>1, <2>3, <2>4 DEF Write, next
  <2>6. worker' \in [Worker -> WorkerState]
    BY <2>3, StoppedType, BecomesType, ProgressType
  <2>7. late' \subseteq Job \X Token
    BY <2>3, LateType
  <2> QED
    BY <1>5, <2>5, <2>6, <2>7 DEF CheckpointStep
<1>6. ASSUME NEW w \in Worker, LeaseRefused(w) PROVE TypeOK'
  <2>1. worker' \in [Worker -> WorkerState]
    BY <1>6, StoppedType, BecomesType, StoppingType DEF LeaseRefused
  <2> QED
    BY <1>6, <2>1, LateType DEF LeaseRefused
<1>7. ASSUME NEW w \in Worker, WaitForReview(w) PROVE TypeOK'
  <2>1. jobs' \in [Job -> JobRow]
    BY <1>7, SettledType DEF WaitForReview, Write, Running, WorkerShape, Shape, Status
  <2> QED
    BY <1>7, <2>1, LateType, StoppedType DEF WaitForReview
<1>8. ASSUME NEW w \in Worker, DeferForStorage(w) PROVE TypeOK'
  <2>1. jobs' \in [Job -> JobRow]
    BY <1>8, DeferredType DEF DeferForStorage, Write, Running, WorkerShape, Shape
  <2> QED
    BY <1>8, <2>1, LateType, StoppedType DEF DeferForStorage
<1>9. ASSUME NEW w \in Worker, CreateChild(w) PROVE TypeOK'
  BY <1>9, RowType DEF CreateChild, NewJob, Status
<1>10. ASSUME NEW w \in Worker, AwaitChild(w) PROVE TypeOK'
  <2>1. jobs' \in [Job -> JobRow]
    BY <1>10, DeferredType DEF AwaitChild, Write, Running, WorkerShape, Shape
  <2> QED
    BY <1>10, <2>1, LateType, StoppedType DEF AwaitChild
<1>11. ASSUME NEW w \in Worker, HandlerReturns(w) PROVE TypeOK'
  <2>1. \/ Stopped(w)
        \/ \E pc \in {"finish", "failing"} :
             Becomes(w, [worker[w] EXCEPT !.pc = pc, !.ka = "off"])
    BY <1>11 DEF HandlerReturns
  <2>2. worker' \in [Worker -> WorkerState]
    BY <2>1, StoppedType, BecomesType, StoppingType
  <2> QED
    BY <1>11, <2>2, LateType DEF HandlerReturns
<1>12. ASSUME NEW w \in Worker, HandlerRaises(w) PROVE TypeOK'
  <2>1. worker' \in [Worker -> WorkerState]
    BY <1>12, BecomesType, StoppingType DEF HandlerRaises
  <2> QED
    BY <1>12, <2>1, LateType DEF HandlerRaises
<1>13. ASSUME NEW w \in Worker, Finish(w) PROVE TypeOK'
  <2>1. worker' \in [Worker -> WorkerState]
    BY <1>13, StoppedType, BecomesType, PcType DEF Finish
  <2>2. jobs' \in [Job -> JobRow]
    BY <1>13, SettledType DEF Finish, Write, WorkerShape, Shape, Status
  <2> QED
    BY <1>13, <2>1, <2>2 DEF Finish
<1>14. ASSUME NEW w \in Worker, FailRun(w) PROVE TypeOK'
  <2>1. worker' \in [Worker -> WorkerState]
    BY <1>14, StoppedType DEF FailRun
  <2>2. jobs' \in [Job -> JobRow]
    BY <1>14, SettledType DEF FailRun, Write, WorkerShape, Shape, Status
  <2> QED
    BY <1>14, <2>1, <2>2 DEF FailRun
<1>15. ASSUME NEW w \in Worker, Heartbeat(w) PROVE TypeOK'
  <2>1. \E k \in {"waiting", "error", "lost"} : Becomes(w, [worker[w] EXCEPT !.ka = k])
    BY <1>15 DEF Heartbeat
  <2>2. worker' \in [Worker -> WorkerState]
    BY <2>1, BecomesType, KeepaliveType
  <2>3. jobs' \in [Job -> JobRow]
    BY <1>15, RenewType DEF Heartbeat, Write, Running, WorkerShape, Shape
  <2> QED
    BY <1>15, <2>2, <2>3 DEF Heartbeat
<1>16. ASSUME NEW w \in Worker, HeartbeatErrs(w) PROVE TypeOK'
  <2>1. worker' \in [Worker -> WorkerState]
    BY <1>16, BecomesType, KeepaliveType DEF HeartbeatErrs
  <2> QED
    BY <1>16, <2>1, KindAssumption DEF HeartbeatErrs
<1>17. ASSUME NEW w \in Worker, Crash(w) PROVE TypeOK'
  BY <1>17, LateType, StoppedType, KindAssumption DEF Crash
<1>18. ASSUME NEW w \in Worker, Restart(w) PROVE TypeOK'
  BY <1>18, StoppedType DEF Restart
<1>19. ASSUME NEW p \in late, LateHeartbeat(p) PROVE TypeOK'
  BY <1>19, RenewType DEF LateHeartbeat
<1>20. CASE Tick
  <2>1. jobs' \in [Job -> JobRow]
    BY <1>20, AgedType DEF Tick
  <2>2. worker' \in [Worker -> WorkerState]
    BY <1>20, KeepaliveType DEF Tick
  <2> QED
    BY <1>20, <2>1, <2>2 DEF Tick
<1>21. CASE StorageChanges
  BY <1>21 DEF StorageChanges
<1>22. ASSUME NEW j \in Job, ApiStep(j) PROVE TypeOK'
  <2>1. jobs' \in [Job -> JobRow]
    <3>1. CASE Submit(j)
      BY <3>1, RowType DEF Submit, NewJob, Status
    <3>2. CASE Cancel(j)
      BY <3>2, CancelType DEF Cancel
    <3>3. CASE Retry(j)
      BY <3>3, RequeuedType DEF Retry
    <3>4. CASE Reopen(j)
      BY <3>4, RequeuedType DEF Reopen
    <3>5. CASE Delete(j)
      BY <3>5, RowType DEF Delete, Status
    <3>6. CASE CancelWorkflow(j)
      BY <3>6, CancelType DEF CancelWorkflow
    <3>7. CASE ResumeWorkflow(j)
      BY <3>7, RequeuedType DEF ResumeWorkflow
    <3> QED
      BY <1>22, <3>1, <3>2, <3>3, <3>4, <3>5, <3>6, <3>7 DEF ApiStep
  <2> QED
    BY <1>22, <2>1 DEF ApiStep, Submit, Cancel, Retry, Reopen, Delete,
                       CancelWorkflow, ResumeWorkflow
<1>23. CASE UNCHANGED vars
  BY <1>23
<1> QED
  BY <1>1, <1>2, <1>3, <1>4, <1>5, <1>6, <1>7, <1>8, <1>9, <1>10, <1>11, <1>12,
     <1>13, <1>14, <1>15, <1>16, <1>17, <1>18, <1>19, <1>20, <1>21, <1>22, <1>23
     DEF Next, WorkerStep, ClaimStep, HandlerStep, KeepaliveStep

-----------------------------------------------------------------------------
(* What one step may do to one row: the moves every other invariant, and   *)
(* the contract, are read off.                                             *)

Same(j) ==
    /\ jobs'[j].status = jobs[j].status /\ jobs'[j].cancel = jobs[j].cancel
    /\ jobs'[j].slot = jobs[j].slot /\ jobs'[j].token = jobs[j].token

Taken(j) ==
    /\ jobs[j].status = "created" /\ jobs'[j].status = "processing"
    /\ jobs'[j].cancel = jobs[j].cancel
    /\ jobs'[j].slot = SlotOf[j] /\ jobs'[j].token \in Token \ TokensInUse
    /\ ~SlotBusy(SlotOf[j])
    /\ \A k \in Job \ {j} : jobs'[k] = jobs[k]

Marked(j) ==
    /\ jobs[j].status = "processing" /\ jobs'[j].status = "processing"
    /\ jobs'[j].cancel
    /\ jobs'[j].slot = jobs[j].slot /\ jobs'[j].token = jobs[j].token

(* Every other move leaves the row without a lease. *)
Unleased(j) == jobs'[j].slot = NoSlot /\ jobs'[j].token = NoToken

Appears(j) == jobs[j].status = "absent" /\ jobs'[j] = NewJob

Yielded(j) ==
    /\ jobs[j].status = "processing" /\ jobs'[j].status = "created"
    /\ jobs'[j].cancel = jobs[j].cancel

Ended(j) ==
    /\ jobs[j].status \in Active /\ ~jobs[j].cancel /\ ~jobs'[j].cancel
    /\ \/ jobs'[j].status = "failed"
       \/ /\ jobs[j].status = "processing"
          /\ jobs'[j].status \in {"completed", "waiting_for_review"}

Dropped(j) ==
    /\ jobs'[j].status = "cancelled" /\ jobs'[j].cancel
    /\ \/ jobs[j].status \in Active /\ jobs[j].cancel
       \/ jobs[j].status \in {"created", "waiting_for_review"} /\ ~jobs[j].cancel

Returned(j) ==
    /\ MayRequeue(jobs[j]) \/ (j \in Selection /\ MayReopen(jobs[j]))
    /\ jobs'[j].status = "created" /\ ~jobs'[j].cancel

Removed(j) ==
    /\ j \in Selection /\ jobs[j].status = "cancelled"
    /\ jobs'[j].status = "deleted" /\ ~jobs'[j].cancel

RowStep(j) ==
    \/ Same(j)
    \/ Taken(j)
    \/ Marked(j)
    \/ /\ Unleased(j)
       /\ \/ Appears(j) \/ Yielded(j) \/ Ended(j) \/ Dropped(j)
          \/ Returned(j) \/ Removed(j)

RowsOK == LaneLease /\ CancelNotOverruled

LEMMA SettledMoves ==
  ASSUME NEW j \in Job, jobs[j].status \in Active,
         NEW s \in {"completed", "failed", "waiting_for_review"},
         s # "failed" => jobs[j].status = "processing",
         jobs[j].cancel \in BOOLEAN,
         jobs'[j] = Settled(jobs[j], s)
  PROVE  RowStep(j)
  BY DEF RowStep, Settled, Into, Unleased, Ended, Dropped, Active

LEMMA RecoveredMoves ==
  ASSUME NEW j \in Job, jobs[j].status = "processing", jobs[j].cancel \in BOOLEAN,
         jobs'[j] = Recovered(jobs[j])
  PROVE  RowStep(j)
  BY DEF RowStep, Recovered, Settled, Into, Unleased, Yielded, Dropped, Active

LEMMA DeferredMoves ==
  ASSUME NEW j \in Job, jobs[j].status = "processing", NEW b \in BOOLEAN,
         jobs'[j] = Deferred(jobs[j], b)
  PROVE  RowStep(j)
  BY DEF RowStep, Deferred, Into, Unleased, Yielded

LEMMA CancelMoves ==
  ASSUME TypeOK, RowsOK, NEW j \in Job, MayCancel(jobs[j]),
         jobs'[j] = CancelRequested(jobs[j])
  PROVE  RowStep(j)
<1>1. jobs[j] \in JobRow
  BY DEF TypeOK
<1>2. CASE jobs[j].cancel
  BY <1>2 DEF RowStep, CancelRequested, Same
<1>3. CASE ~jobs[j].cancel /\ jobs[j].status = "processing"
  BY <1>1, <1>3 DEF RowStep, CancelRequested, Marked, JobRow
<1>4. CASE ~jobs[j].cancel /\ jobs[j].status # "processing"
  BY <1>1, <1>4 DEF RowStep, CancelRequested, MayCancel, Dropped, Unleased, JobRow,
                    RowsOK, LaneLease
<1> QED
  BY <1>2, <1>3, <1>4

LEMMA RequeuedMoves ==
  ASSUME NEW j \in Job, MayRequeue(jobs[j]) \/ (j \in Selection /\ MayReopen(jobs[j])),
         jobs'[j] = Requeued(jobs[j]) \/ jobs'[j] = RequeuedFresh(jobs[j])
  PROVE  RowStep(j)
<1> DEFINE new == Row("created")
<1>1. new \in JobRow
  BY RowType DEF Status
<1>2. new.status = "created" /\ ~new.cancel /\ new.slot = NoSlot /\ new.token = NoToken
  BY DEF Row
<1>3. \/ jobs'[j] = new
      \/ jobs'[j] = [new EXCEPT !.progress = jobs[j].progress, !.waits = jobs[j].waits]
  BY DEF Requeued, RequeuedFresh
<1> HIDE DEF new
<1>4. jobs'[j].status = "created" /\ ~jobs'[j].cancel /\ Unleased(j)
  BY <1>1, <1>2, <1>3 DEF Unleased, JobRow
<1> QED
  BY <1>4 DEF RowStep, Returned

LEMMA SameMoves ==
  ASSUME TypeOK, NEW j \in Job, NEW d \in Age, NEW n \in 0 .. Units, NEW b \in BOOLEAN,
         \/ jobs'[j] = jobs[j]
         \/ jobs'[j] = Renew(jobs[j], d)
         \/ jobs'[j] = Checkpoint(jobs[j], d, n, b)
         \/ jobs'[j] = Aged(jobs[j])
  PROVE  Same(j)
<1>1. jobs[j] \in JobRow
  BY DEF TypeOK
<1> QED
  BY <1>1 DEF Same, Renew, Checkpoint, Aged, JobRow

(* A checkpoint that acknowledges a cancellation. *)
LEMMA AcknowledgedMoves ==
  ASSUME TypeOK, NEW j \in Job, NEW d \in Age, NEW n \in 0 .. Units, NEW b \in BOOLEAN,
         jobs[j].status = "processing", jobs[j].cancel,
         jobs'[j] = Settled(Checkpoint(jobs[j], d, n, b), "cancelled")
  PROVE  RowStep(j)
<1>1. jobs[j] \in JobRow
  BY DEF TypeOK
<1>2. Checkpoint(jobs[j], d, n, b).cancel = jobs[j].cancel
  BY <1>1 DEF Checkpoint, Renew, JobRow
<1> QED
  BY <1>2 DEF RowStep, Settled, Into, Unleased, Dropped, Active

LEMMA WorkerMoves ==
  ASSUME TypeOK, WorkerShape, RowsOK, ClaimedRowIsCreated,
         NEW w \in Worker, WorkerStep(w), NEW j \in Job
  PROVE  RowStep(j)
<1> DEFINE k == worker[w].job
<1> USE DEF Write
<1>0. /\ jobs[j].cancel \in BOOLEAN
      /\ jobs'[j] = jobs[j] => RowStep(j)
      /\ j \in Job /\ jobs \in [Job -> JobRow]
      /\ worker[w].pc \in {"start", "run", "finish", "failing"} => k \in Job
  BY DEF TypeOK, JobRow, RowStep, Same, WorkerShape, Shape
<1>1. CASE Recover(w)
  BY <1>0, <1>1, RecoveredMoves, SettledMoves
     DEF Recover, Expired, Quarantined, Active
<1>2. CASE Scan(w) \/ LeaseRefused(w) \/ HandlerReturns(w) \/ HandlerRaises(w)
           \/ HeartbeatErrs(w) \/ Crash(w) \/ Restart(w)
  BY <1>0, <1>2 DEF Scan, LeaseRefused, HandlerReturns, HandlerRaises,
                    HeartbeatErrs, Crash, Restart
<1>3. CASE TryCandidate(w)
  <2>1. \A i \in worker[w].cands : i \in Job
    BY DEF TypeOK, WorkerState
  <2>2. PICK i \in worker[w].cands :
           UNCHANGED jobs \/ (jobs[i].status = "created"
                              /\ jobs' = [jobs EXCEPT ![i] = Quarantined(@)])
    BY <1>3 DEF TryCandidate
  <2> QED
    BY <1>0, <2>1, <2>2, SettledMoves DEF Quarantined, Active
<1>4. CASE CommitClaim(w)
  <2>1. CASE UNCHANGED jobs
    BY <1>0, <2>1
  <2>2. CASE ~SlotBusy(Serves[w]) /\ \E t \in Token \ TokensInUse, d \in Age :
                jobs' = [jobs EXCEPT ![k] = Start(@, Serves[w], t, d)]
    <3>1. k \in Job /\ SlotOf[k] = Serves[w] /\ jobs[k].status = "created"
      BY <1>4 DEF CommitClaim, WorkerShape, Shape, ClaimedRowIsCreated
    <3>2. CASE j = k
      BY <1>0, <2>2, <3>1, <3>2 DEF RowStep, Taken, Start
    <3> QED
      BY <1>0, <2>2, <3>2
  <2> QED
    BY <1>4, <2>1, <2>2 DEF CommitClaim
<1>5. CASE CheckpointStep(w)
  <2>1. k \in Job /\ jobs[k] \in JobRow
    BY <1>0, <1>5 DEF CheckpointStep, Running
  <2>2. WaitsAfter(w) \in BOOLEAN
    BY <2>1, WaitsType
  <2>3. PICK d \in Age, n \in 0 .. Units :
          /\ jobs[k].status = "processing"
          /\ \/ /\ jobs[k].cancel
                /\ jobs' = [jobs EXCEPT ![k] =
                      Settled(Checkpoint(jobs[k], d, n, WaitsAfter(w)), "cancelled")]
             \/ jobs' = [jobs EXCEPT ![k] = Checkpoint(jobs[k], d, n, WaitsAfter(w))]
    BY <1>5 DEF CheckpointStep, Holds, Leased
  <2>4. CASE j = k
    BY <1>0, <2>2, <2>3, <2>4, AcknowledgedMoves, SameMoves DEF RowStep
  <2> QED
    BY <1>0, <2>3, <2>4
<1>6. CASE WaitForReview(w) \/ Finish(w) \/ FailRun(w)
  BY <1>0, <1>6, SettledMoves DEF WaitForReview, Finish, FailRun, Holds, Leased,
                                  Running, Active
<1>7. CASE DeferForStorage(w) \/ AwaitChild(w)
  BY <1>0, <1>7, DeferredMoves DEF DeferForStorage, AwaitChild, Holds, Leased, Running
<1>8. CASE CreateChild(w)
  BY <1>0, <1>8 DEF CreateChild, RowStep, Appears, Unleased, NewJob, Row
<1>9. CASE Heartbeat(w)
  <2>1. UNCHANGED jobs \/ \E d \in Age : jobs' = [jobs EXCEPT ![k] = Renew(jobs[k], d)]
    BY <1>9 DEF Heartbeat
  <2>2. \A d \in Age : jobs'[j] = Renew(jobs[j], d) => Same(j)
    BY DEF TypeOK, Same, Renew, JobRow
  <2>3. k \in Job
    BY <1>0, <1>9 DEF Heartbeat, Running
  <2> QED
    BY <1>0, <2>1, <2>2, <2>3 DEF RowStep
<1> QED
  BY <1>1, <1>2, <1>3, <1>4, <1>5, <1>6, <1>7, <1>8, <1>9
     DEF WorkerStep, ClaimStep, HandlerStep, KeepaliveStep

LEMMA OtherMoves ==
  ASSUME TypeOK, RowsOK, NEW j \in Job,
         \/ \E p \in late : LateHeartbeat(p)
         \/ Tick \/ StorageChanges \/ UNCHANGED vars
         \/ \E i \in Job : ApiStep(i)
  PROVE  RowStep(j)
<1>0. /\ jobs'[j] = jobs[j] => RowStep(j)
      /\ \A d \in Age : jobs'[j] = Renew(jobs[j], d) => RowStep(j)
      /\ jobs'[j] = Aged(jobs[j]) => RowStep(j)
      /\ jobs \in [Job -> JobRow]
  BY SameMoves, UnitsAssumption, TimeAssumption DEF RowStep, Same, TypeOK, Age
<1>1. CASE \E p \in late : LateHeartbeat(p)
  <2>1. \/ UNCHANGED jobs
        \/ \E k \in Job, d \in Age : jobs' = [jobs EXCEPT ![k] = Renew(@, d)]
    BY <1>1 DEF LateHeartbeat, TypeOK
  <2> QED
    BY <1>0, <2>1
<1>2. CASE Tick
  BY <1>0, <1>2 DEF Tick
<1>3. CASE StorageChanges \/ UNCHANGED vars
  BY <1>0, <1>3 DEF StorageChanges
<1>4. ASSUME NEW i \in Job, ApiStep(i) PROVE RowStep(j)
  <2>1. CASE Submit(i)
    BY <1>0, <2>1 DEF Submit, RowStep, Appears, Unleased, NewJob, Row
  <2>2. CASE Cancel(i)
    BY <1>0, <2>2, CancelMoves DEF Cancel
  <2>3. CASE Retry(i)
    BY <1>0, <2>3, RequeuedMoves DEF Retry
  <2>4. CASE Reopen(i)
    BY <1>0, <2>4, RequeuedMoves DEF Reopen
  <2>5. CASE Delete(i)
    BY <1>0, <2>5 DEF Delete, RowStep, Removed, Unleased, Row
  <2>6. CASE CancelWorkflow(i)
    BY <1>0, <2>6, CancelMoves DEF CancelWorkflow
  <2>7. CASE ResumeWorkflow(i)
    BY <1>0, <2>7, RequeuedMoves DEF ResumeWorkflow, MayRequeue
  <2> QED
    BY <1>4, <2>1, <2>2, <2>3, <2>4, <2>5, <2>6, <2>7 DEF ApiStep
<1> QED
  BY <1>1, <1>2, <1>3, <1>4

LEMMA RowMoves ==
  ASSUME TypeOK, WorkerShape, RowsOK, ClaimedRowIsCreated, [Next]_vars, NEW j \in Job
  PROVE  RowStep(j)
  BY WorkerMoves, OtherMoves DEF Next

=============================================================================
