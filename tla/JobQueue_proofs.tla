--------------------------- MODULE JobQueue_proofs --------------------------
EXTENDS JobQueueSteps

USE DEF vars

-----------------------------------------------------------------------------
(* The shape of the memories. *)

(* A claim transaction opens: it locks row j and reads it as created. *)
Opens(j) == RowFree(j) /\ UNCHANGED jobs /\ jobs[j].status = "created"

(* What one step of worker w may do to its memory. *)
MemoryStep(w) ==
    \/ worker' = worker
    \/ \E m \in WorkerState :
         /\ Becomes(w, m) /\ Shape(w, m)
         /\ m.pc = "start" => Opens(m.job)

LEMMA IdleShape == \A w \in Worker : Shape(w, Idle) /\ Shape(w, [Idle EXCEPT !.pc = "dead"])
  BY DEF Shape, Idle

LEMMA PcShape ==
  ASSUME NEW w \in Worker, NEW m \in WorkerState, Shape(w, m)
  PROVE  /\ m.pc = "idle" => Shape(w, [m EXCEPT !.pc = "scan"])
         /\ m.pc = "finish" => Shape(w, [m EXCEPT !.pc = "failing"])
         /\ m.pc = "run" => \A pc \in {"finish", "failing"} :
                               Shape(w, [m EXCEPT !.pc = pc, !.ka = "off"])
         /\ m.pc = "run" => \A k : Shape(w, [m EXCEPT !.ka = k])
         /\ m.pc = "run" => \A n : Shape(w, [m EXCEPT !.done = n, !.touched = TRUE])
  BY DEF Shape, WorkerState

LEMMA CandidatesShape ==
  ASSUME NEW w \in Worker, NEW m \in WorkerState, Shape(w, m), 
         NEW S \in SUBSET {j \in Job : SlotOf[j] = Serves[w]}
  PROVE  /\ m.pc = "scan" => Shape(w, [m EXCEPT !.pc = "try", !.cands = S])
         /\ m.pc = "try" => Shape(w, [m EXCEPT !.cands = S])
  BY DEF Shape, WorkerState

LEMMA StartingShape ==
  ASSUME NEW w \in Worker, NEW j \in Job, SlotOf[j] = Serves[w]
  PROVE  Shape(w, [Idle EXCEPT !.pc = "start", !.job = j])
  BY DEF Shape, Idle

LEMMA ClaimedShape ==
  ASSUME NEW w \in Worker, NEW j \in Job, NEW t \in Token
  PROVE  Shape(w, Claimed(j, t))
  BY NullsAssumption DEF Shape, Claimed

LEMMA MemoryMoves ==
  ASSUME TypeOK, WorkerShape, NEW w \in Worker, WorkerStep(w)
  PROVE  MemoryStep(w)
<1> DEFINE m == worker[w]
<1>0. /\ m \in WorkerState /\ Shape(w, m)
      /\ Stopped(w) \/ Dead(w) => MemoryStep(w)
      /\ worker' = worker => MemoryStep(w)
  <2>1. m \in WorkerState /\ Shape(w, m)
    BY DEF TypeOK, WorkerShape
  <2>2. /\ Idle \in WorkerState /\ [Idle EXCEPT !.pc = "dead"] \in WorkerState
        /\ Idle.pc = "idle" /\ [Idle EXCEPT !.pc = "dead"].pc = "dead"
    BY IdleType, PcType DEF Idle
  <2> QED
    BY <2>1, <2>2, IdleShape DEF Stopped, Dead, MemoryStep
<1>1. CASE Recover(w)
  <2> DEFINE next == [m EXCEPT !.pc = "scan"]
  <2>1. next \in WorkerState /\ Shape(w, next) /\ next.pc = "scan" /\ Becomes(w, next)
    BY <1>0, <1>1, PcType, PcShape DEF Recover, WorkerState
  <2> QED
    BY <2>1 DEF MemoryStep
<1>2. CASE Scan(w)
  <2> DEFINE found == IF SlotBusy(Serves[w]) THEN {} ELSE Candidates(Serves[w])
             next == [m EXCEPT !.pc = "try", !.cands = found]
  <2>1. found \in SUBSET {j \in Job : SlotOf[j] = Serves[w]} /\ found \in SUBSET Job
    BY DEF Candidates, Queue
  <2>2. m.pc = "scan" /\ (Stopped(w) \/ Becomes(w, next))
    BY <1>2 DEF Scan
  <2> HIDE DEF found
  <2>3. next \in WorkerState /\ Shape(w, next) /\ next.pc = "try"
    BY <1>0, <2>1, <2>2, CandidatesType, CandidatesShape DEF WorkerState
  <2> QED
    BY <1>0, <2>2, <2>3 DEF MemoryStep
<1>3. CASE TryCandidate(w)
  <2>1. PICK j \in m.cands :
           \/ Skip(w, j)
           \/ Stopped(w)
           \/ Opens(j) /\ Becomes(w, [Idle EXCEPT !.pc = "start", !.job = j])
    BY <1>3 DEF TryCandidate, Opens
  <2>2. m.pc = "try" /\ j \in Job /\ SlotOf[j] = Serves[w]
    BY <1>0, <1>3 DEF TryCandidate, Shape
  <2>3. CASE Skip(w, j)
    <3> DEFINE next == [m EXCEPT !.cands = @ \ {j}]
    <3>1. Stopped(w) \/ Becomes(w, next)
      BY <2>3 DEF Skip
    <3>2. m.cands \ {j} \in SUBSET {i \in Job : SlotOf[i] = Serves[w]}
      BY <1>0 DEF Shape
    <3>3. next \in WorkerState /\ Shape(w, next) /\ next.pc = "try"
      BY <1>0, <2>2, <3>2, CandidatesType, CandidatesShape DEF WorkerState
    <3> QED
      BY <1>0, <3>1, <3>3 DEF MemoryStep
  <2>4. CASE Opens(j) /\ Becomes(w, [Idle EXCEPT !.pc = "start", !.job = j])
    <3> DEFINE next == [Idle EXCEPT !.pc = "start", !.job = j]
    <3>1. next \in WorkerState /\ Shape(w, next) /\ next.job = j
      BY <2>2, StartingType, StartingShape DEF Idle
    <3> QED
      BY <2>4, <3>1 DEF MemoryStep
  <2> QED
    BY <1>0, <2>1, <2>3, <2>4
<1>4. CASE CommitClaim(w)
  <2>1. m.job \in Job
    BY <1>0, <1>4 DEF CommitClaim, Shape
  <2>2. Stopped(w) \/ \E t \in Token : Becomes(w, Claimed(m.job, t))
    BY <1>4 DEF CommitClaim
  <2>3. \A t \in Token : /\ Claimed(m.job, t) \in WorkerState
                         /\ Shape(w, Claimed(m.job, t)) /\ Claimed(m.job, t).pc = "run"
    BY <2>1, ClaimedType, ClaimedShape DEF Claimed
  <2> QED
    BY <1>0, <2>2, <2>3 DEF MemoryStep
<1>5. CASE CheckpointStep(w)
  <2>1. m.pc = "run" /\ \/ Stopped(w)
                        \/ \E n \in 0 .. Units :
                              Becomes(w, [m EXCEPT !.done = n, !.touched = TRUE])
    BY <1>5 DEF CheckpointStep, Running
  <2>2. \A n \in 0 .. Units :
           LET next == [m EXCEPT !.done = n, !.touched = TRUE]
           IN  next \in WorkerState /\ Shape(w, next) /\ next.pc = "run"
    BY <1>0, <2>1, ProgressType, PcShape DEF WorkerState
  <2> QED
    BY <1>0, <2>1, <2>2 DEF MemoryStep
<1>6. CASE LeaseRefused(w) \/ HandlerReturns(w) \/ HandlerRaises(w)
  <2>1. m.pc = "run" /\ \/ Stopped(w)
                        \/ \E pc \in {"finish", "failing"} :
                              Becomes(w, [m EXCEPT !.pc = pc, !.ka = "off"])
    BY <1>6 DEF LeaseRefused, HandlerReturns, HandlerRaises, Running
  <2>2. \A pc \in {"finish", "failing"} :
           LET next == [m EXCEPT !.pc = pc, !.ka = "off"]
           IN  next \in WorkerState /\ Shape(w, next) /\ next.pc = pc
    BY <1>0, <2>1, StoppingType, PcShape DEF WorkerState
  <2> QED
    BY <1>0, <2>1, <2>2 DEF MemoryStep
<1>7. CASE WaitForReview(w) \/ DeferForStorage(w) \/ AwaitChild(w) \/ FailRun(w)
           \/ Crash(w) \/ Restart(w) \/ CreateChild(w)
  BY <1>0, <1>7 DEF WaitForReview, DeferForStorage, AwaitChild, FailRun, Crash, Restart,
                    CreateChild
<1>8. CASE Finish(w)
  <2> DEFINE next == [m EXCEPT !.pc = "failing"]
  <2>1. m.pc = "finish" /\ (Stopped(w) \/ Becomes(w, next))
    BY <1>8 DEF Finish
  <2>2. next \in WorkerState /\ Shape(w, next) /\ next.pc = "failing"
    BY <1>0, <2>1, PcType, PcShape DEF WorkerState
  <2> QED
    BY <1>0, <2>1, <2>2 DEF MemoryStep
<1>9. CASE Heartbeat(w) \/ HeartbeatErrs(w)
  <2>1. m.pc = "run" /\ \E k \in {"waiting", "due", "error", "lost"} :
                           Becomes(w, [m EXCEPT !.ka = k])
    BY <1>9 DEF Heartbeat, HeartbeatErrs, Running
  <2>2. \A k \in {"waiting", "due", "error", "lost"} :
           LET next == [m EXCEPT !.ka = k]
           IN  next \in WorkerState /\ Shape(w, next) /\ next.pc = "run"
    BY <1>0, <2>1, KeepaliveType, PcShape DEF WorkerState
  <2> QED
    BY <2>1, <2>2 DEF MemoryStep
<1> QED
  BY <1>1, <1>2, <1>3, <1>4, <1>5, <1>6, <1>7, <1>8, <1>9
     DEF WorkerStep, ClaimStep, HandlerStep, KeepaliveStep

LEMMA ShapeStep ==
  ASSUME TypeOK, WorkerShape, [Next]_vars
  PROVE  WorkerShape'
<1>1. ASSUME NEW w \in Worker, WorkerStep(w) PROVE WorkerShape'
  <2>1. CASE worker' = worker
    BY <2>1 DEF WorkerShape, Shape
  <2>2. CASE \E m \in WorkerState : /\ Becomes(w, m) /\ Shape(w, m)
                                    /\ m.pc = "start" => Opens(m.job)
    <3>1. PICK m \in WorkerState : /\ Becomes(w, m) /\ Shape(w, m)
                                   /\ m.pc = "start" => Opens(m.job)
      BY <2>2
    <3>2. /\ worker'[w] = m
          /\ \A v \in Worker \ {w} : worker'[v] = worker[v]
      BY <3>1 DEF Becomes, TypeOK
    <3>3. \A v \in Worker : Shape(v, worker'[v])
      BY <3>1, <3>2 DEF WorkerShape
    <3>4. \A v \in Worker : worker[v].pc = "start" /\ m.pc = "start" => worker[v].job # m.job
      BY <3>1 DEF Opens, RowFree, Claiming
    <3>5. \A u, v \in Worker :
             u # v /\ worker'[u].pc = "start" /\ worker'[v].pc = "start"
             => worker'[u].job # worker'[v].job
      BY <3>2, <3>4 DEF WorkerShape
    <3> QED
      BY <3>3, <3>5 DEF WorkerShape, Shape
  <2> QED
    BY <1>1, <2>1, <2>2, MemoryMoves DEF MemoryStep
<1>2. CASE Tick
  <2>1. ASSUME NEW v \in Worker
        PROVE  Shape(v, worker'[v]) /\ worker'[v].pc = worker[v].pc
                                    /\ worker'[v].job = worker[v].job
    <3>1. worker[v] \in WorkerState /\ Shape(v, worker[v])
      BY DEF TypeOK, WorkerShape
    <3>2. CASE Running(v) /\ worker[v].ka = "waiting"
      <4>1. worker'[v] = [worker[v] EXCEPT !.ka = "due"] /\ worker[v].pc = "run"
        BY <1>2, <3>2 DEF Tick, Running
      <4> DEFINE next == [worker[v] EXCEPT !.ka = "due"]
      <4>2. Shape(v, next)
        BY <3>1, <4>1, PcShape
      <4>3. next.pc = worker[v].pc /\ next.job = worker[v].job
        BY <3>1 DEF WorkerState
      <4> HIDE DEF next
      <4> QED
        BY <4>1, <4>2, <4>3 DEF next
    <3>3. CASE ~(Running(v) /\ worker[v].ka = "waiting")
      BY <1>2, <3>1, <3>3 DEF Tick
    <3> QED
      BY <3>2, <3>3
  <2> QED
    BY <2>1 DEF WorkerShape, Shape
<1>3. CASE worker' = worker
  BY <1>3 DEF WorkerShape, Shape
<1> QED
  BY <1>1, <1>2, <1>3 DEF Next, LateHeartbeat, StorageChanges, ApiStep, Submit, Cancel, Retry,
     Reopen, Delete, CancelWorkflow, ResumeWorkflow

-----------------------------------------------------------------------------
(* The row lock: a row that a claim transaction holds keeps its status     *)
(* until that transaction ends.                                            *)

LEMMA LockHolds ==
  ASSUME TypeOK, WorkerShape, ClaimedRowIsCreated, [Next]_vars,
         NEW w \in Worker, Claiming(w, worker[w].job), ~CommitClaim(w)
  PROVE  jobs'[worker[w].job].status = "created"
<1> DEFINE j == worker[w].job
<1>0. j \in Job /\ jobs[j].status = "created" /\ ~RowFree(j) /\ worker[w].pc = "start"
      /\ jobs \in [Job -> JobRow]
  BY DEF TypeOK, WorkerShape, Shape, ClaimedRowIsCreated, Claiming, RowFree
<1> HIDE DEF j
<1>1. ASSUME NEW v \in Worker, WorkerStep(v) PROVE jobs'[j].status = "created"
  <2> DEFINE k == worker[v].job
  <2>0. /\ worker[v].pc \in {"start", "run", "finish", "failing"} => k \in Job
        /\ v # w /\ worker[v].pc = "start" => k # j
    BY <1>0 DEF WorkerShape, Shape, j
  <2> USE DEF Write
  <2>1. CASE Recover(v)
    BY <1>0, <2>1 DEF Recover, Expired
  <2>2. CASE TryCandidate(v)
    <3>1. \A i \in worker[v].cands : i \in Job
      BY DEF TypeOK, WorkerState
    <3>2. PICK i \in worker[v].cands :
             UNCHANGED jobs \/ (RowFree(i) /\ jobs' = [jobs EXCEPT ![i] = Quarantined(@)])
      BY <2>2 DEF TryCandidate
    <3> QED
      BY <1>0, <3>1, <3>2
  <2>3. CASE CommitClaim(v)
    <3>1. v # w
      BY <2>3
    <3> QED
      BY <1>0, <2>0, <2>3, <3>1 DEF CommitClaim
  <2>4. CASE CheckpointStep(v)
    <3>1. k \in Job /\ jobs[k].status = "processing"
      BY <2>0, <2>4 DEF CheckpointStep, Running, Holds, Leased
    <3>2. \E new : jobs' = [jobs EXCEPT ![k] = new]
      BY <2>4 DEF CheckpointStep
    <3> QED
      BY <1>0, <3>1, <3>2
  <2>5. CASE WaitForReview(v) \/ Finish(v) \/ FailRun(v) \/ DeferForStorage(v)
             \/ AwaitChild(v) \/ Heartbeat(v)
    <3>1. UNCHANGED jobs \/ \E d \in Age : \E new :
                              /\ Holds(v, d) /\ k \in Job
                              /\ jobs' = [jobs EXCEPT ![k] = new]
      BY <2>0, <2>5 DEF WaitForReview, Finish, FailRun, DeferForStorage, AwaitChild,
                        Heartbeat, Running
    <3> QED
      BY <1>0, <3>1 DEF Holds, Leased
  <2>6. CASE CreateChild(v)
    BY <1>0, <2>6 DEF CreateChild
  <2>7. CASE UNCHANGED jobs
    BY <1>0, <2>7
  <2> QED
    BY <1>1, <2>1, <2>2, <2>3, <2>4, <2>5, <2>6, <2>7
       DEF WorkerStep, ClaimStep, HandlerStep, KeepaliveStep, Scan, LeaseRefused,
           HandlerReturns, HandlerRaises, HeartbeatErrs, Crash, Restart
<1>2. ASSUME NEW p \in late, LateHeartbeat(p) PROVE jobs'[j].status = "created"
  BY <1>0, <1>2 DEF LateHeartbeat, Leased
<1>3. CASE Tick
  BY <1>0, <1>3 DEF Tick, Aged, j
<1>4. CASE UNCHANGED jobs
  BY <1>0, <1>4 DEF j
<1>5. ASSUME NEW i \in Job, ApiStep(i) PROVE jobs'[j].status = "created"
  <2>1. CASE Submit(i)
    BY <1>0, <2>1 DEF Submit
  <2>2. CASE Cancel(i) \/ Retry(i) \/ Reopen(i) \/ Delete(i)
    BY <1>0, <2>2 DEF Cancel, Retry, Reopen, Delete
  <2>3. CASE CancelWorkflow(i)
    BY <1>0, <2>3 DEF CancelWorkflow
  <2>4. CASE ResumeWorkflow(i)
    BY <1>0, <2>4 DEF ResumeWorkflow
  <2> QED
    BY <1>5, <2>1, <2>2, <2>3, <2>4 DEF ApiStep
<1> QED
  BY <1>1, <1>2, <1>3, <1>4, <1>5 DEF Next, StorageChanges, j

LEMMA CommitCloses ==
  ASSUME TypeOK, NEW w \in Worker, CommitClaim(w)
  PROVE  worker'[w].pc # "start"
<1>1. Idle.pc # "start" /\ \A j, t : Claimed(j, t).pc # "start"
  BY DEF Idle, Claimed
<1>2. Becomes(w, Idle) \/ \E j, t : Becomes(w, Claimed(j, t))
  BY DEF CommitClaim, Stopped
<1> QED
  BY <1>1, <1>2 DEF Becomes, TypeOK

(* The row a claim has locked is created: it was read so under the lock,   *)
(* and the lock has held since.                                            *)
LEMMA ClaimedStep ==
  ASSUME TypeOK, WorkerShape, ClaimedRowIsCreated, [Next]_vars
  PROVE  ClaimedRowIsCreated'
<1> SUFFICES ASSUME NEW w \in Worker, worker'[w].pc = "start"
             PROVE  jobs'[worker'[w].job].status = "created"
  BY DEF ClaimedRowIsCreated
<1>0. ~CommitClaim(w)
  BY CommitCloses
<1>1. CASE worker'[w].pc = worker[w].pc /\ worker'[w].job = worker[w].job
  BY <1>0, <1>1, LockHolds DEF Claiming
<1>2. ASSUME NEW v \in Worker, WorkerStep(v)
      PROVE  jobs'[worker'[w].job].status = "created"
  <2>1. CASE worker' = worker
    BY <1>1, <2>1
  <2>2. CASE \E m \in WorkerState :
               Becomes(v, m) /\ (m.pc = "start" => Opens(m.job))
    <3>1. PICK m \in WorkerState :
             Becomes(v, m) /\ (m.pc = "start" => Opens(m.job))
      BY <2>2
    <3>2. worker'[w] = IF v = w THEN m ELSE worker[w]
      BY <3>1 DEF Becomes, TypeOK
    <3> QED
      BY <1>1, <3>1, <3>2 DEF Opens
  <2> QED
    BY <1>2, <2>1, <2>2, MemoryMoves DEF MemoryStep
<1>3. CASE Tick
  <2>1. worker[w] \in WorkerState
    BY DEF TypeOK
  <2>2. worker'[w].pc = worker[w].pc /\ worker'[w].job = worker[w].job
    BY <1>3, <2>1 DEF Tick, WorkerState
  <2> QED
    BY <1>1, <2>2
<1>4. CASE worker' = worker
  BY <1>1, <1>4
<1> QED
  BY <1>2, <1>3, <1>4 DEF Next, LateHeartbeat, StorageChanges, ApiStep, Submit, Cancel,
     Retry, Reopen, Delete, CancelWorkflow, ResumeWorkflow

-----------------------------------------------------------------------------
(* Tokens and progress.  Only a claim hands out a token, and only a        *)
(* checkpoint counts work; every other step is quiet.                      *)

QuietRow(j) ==
    /\ \/ jobs'[j].token = NoToken
       \/ jobs'[j].token = jobs[j].token /\ jobs'[j].progress = jobs[j].progress
    /\ \/ jobs'[j].progress = jobs[j].progress
       \/ jobs'[j].progress = 0 /\ jobs[j].status \notin Active

QuietMemory(w) ==
    \/ worker'[w].token = NoToken
    \/ /\ worker'[w].token = worker[w].token /\ worker'[w].job = worker[w].job
       /\ worker'[w].done = worker[w].done

QuietStep == (\A j \in Job : QuietRow(j)) /\ (\A w \in Worker : QuietMemory(w))

LEMMA SettledQuiet ==
  ASSUME NEW j \in Job,
         \/ \E s : jobs'[j] = Settled(jobs[j], s)
         \/ \E b : jobs'[j] = Deferred(jobs[j], b)
         \/ jobs'[j] = Recovered(jobs[j]) \/ jobs'[j] = Quarantined(jobs[j])
  PROVE  QuietRow(j)
<1>1. CASE \E s : jobs'[j] = Settled(jobs[j], s)
  BY <1>1 DEF QuietRow, Settled, Into
<1>2. CASE \E b : jobs'[j] = Deferred(jobs[j], b)
  BY <1>2 DEF QuietRow, Deferred, Into
<1> QED
  BY <1>1, <1>2 DEF Recovered, Quarantined

LEMMA SameQuiet ==
  ASSUME TypeOK, NEW j \in Job,
         \/ jobs'[j] = jobs[j]
         \/ jobs'[j] = CancelRequested(jobs[j])
         \/ jobs'[j] = Aged(jobs[j])
         \/ \E d \in Age : jobs'[j] = Renew(jobs[j], d)
  PROVE  QuietRow(j)
<1>1. jobs[j] \in JobRow
  BY DEF TypeOK
<1> QED
  BY <1>1 DEF QuietRow, CancelRequested, Aged, Renew, JobRow

LEMMA NewQuiet ==
  ASSUME TypeOK, NEW j \in Job,
         \/ /\ jobs[j].status \notin Active
            /\ jobs'[j] \in {Row("created"), Row("deleted"), RequeuedFresh(jobs[j])}
         \/ jobs'[j] = Requeued(jobs[j])
  PROVE  QuietRow(j)
<1> DEFINE new == Row("created")
<1>1. new \in JobRow /\ new.token = NoToken /\ new.progress = 0
  BY RowType DEF Row, Status
<1>2. Row("deleted").token = NoToken /\ Row("deleted").progress = 0
  BY DEF Row
<1>3. \/ jobs[j].status \notin Active /\ (jobs'[j] = new \/ jobs'[j] = Row("deleted"))
      \/ jobs'[j] = [new EXCEPT !.progress = jobs[j].progress, !.waits = jobs[j].waits]
  BY DEF Requeued, RequeuedFresh
<1> HIDE DEF new
<1> QED
  BY <1>1, <1>2, <1>3 DEF QuietRow, JobRow

LEMMA QuietRows ==
  ASSUME TypeOK, WorkerShape, [Next]_vars, NEW j \in Job,
         \A w \in Worker : ~CommitClaim(w) /\ ~CheckpointStep(w)
  PROVE  QuietRow(j)
<1>0. /\ jobs \in [Job -> JobRow]
      /\ jobs'[j] = jobs[j] => QuietRow(j)
  BY SameQuiet DEF TypeOK
<1> USE DEF Write
<1>1. ASSUME NEW w \in Worker, WorkerStep(w) PROVE QuietRow(j)
  <2> DEFINE k == worker[w].job
  <2>1. CASE Recover(w)
    BY <1>0, <2>1, SettledQuiet DEF Recover
  <2>2. CASE TryCandidate(w)
    <3>1. \A i \in worker[w].cands : i \in Job
      BY DEF TypeOK, WorkerState
    <3>2. PICK i \in worker[w].cands :
             UNCHANGED jobs \/ jobs' = [jobs EXCEPT ![i] = Quarantined(@)]
      BY <2>2 DEF TryCandidate
    <3> QED
      BY <1>0, <3>1, <3>2, SettledQuiet
  <2>3. CASE WaitForReview(w) \/ Finish(w) \/ FailRun(w) \/ DeferForStorage(w)
             \/ AwaitChild(w)
    <3>1. k \in Job
      BY <2>3 DEF WorkerShape, Shape, Running, WaitForReview, Finish, FailRun,
                  DeferForStorage, AwaitChild
    <3>2. \/ UNCHANGED jobs
          \/ \E s : jobs' = [jobs EXCEPT ![k] = Settled(jobs[k], s)]
          \/ \E b : jobs' = [jobs EXCEPT ![k] = Deferred(jobs[k], b)]
      BY <2>3 DEF WaitForReview, Finish, FailRun, DeferForStorage, AwaitChild
    <3> QED
      BY <1>0, <3>1, <3>2, SettledQuiet
  <2>4. CASE Heartbeat(w)
    <3>1. k \in Job
      BY <2>4 DEF Heartbeat, Running, WorkerShape, Shape
    <3>2. UNCHANGED jobs \/ \E d \in Age : jobs' = [jobs EXCEPT ![k] = Renew(jobs[k], d)]
      BY <2>4 DEF Heartbeat
    <3> QED
      BY <1>0, <3>1, <3>2, SameQuiet
  <2>5. CASE CreateChild(w)
    BY <1>0, <2>5, NewQuiet DEF CreateChild, NewJob, Active
  <2>6. CASE UNCHANGED jobs
    BY <1>0, <2>6
  <2> QED
    BY <1>1, <2>1, <2>2, <2>3, <2>4, <2>5, <2>6
       DEF WorkerStep, ClaimStep, HandlerStep, KeepaliveStep, Scan, LeaseRefused,
           HandlerReturns, HandlerRaises, HeartbeatErrs, Crash, Restart
<1>2. ASSUME NEW p \in late, LateHeartbeat(p) PROVE QuietRow(j)
  <2>1. \/ UNCHANGED jobs
        \/ \E k \in Job, d \in Age : jobs' = [jobs EXCEPT ![k] = Renew(@, d)]
    BY <1>2 DEF LateHeartbeat, TypeOK
  <2> QED
    BY <1>0, <2>1, SameQuiet
<1>3. CASE Tick
  BY <1>3, SameQuiet DEF Tick
<1>4. CASE UNCHANGED jobs
  BY <1>0, <1>4
<1>5. ASSUME NEW i \in Job, ApiStep(i) PROVE QuietRow(j)
  <2>1. CASE Submit(i)
    BY <1>0, <2>1, NewQuiet DEF Submit, NewJob, Active
  <2>2. CASE Cancel(i)
    BY <1>0, <2>2, SameQuiet DEF Cancel
  <2>3. CASE Retry(i)
    BY <1>0, <2>3, NewQuiet DEF Retry, MayRequeue, Active
  <2>4. CASE Reopen(i)
    BY <1>0, <2>4, NewQuiet DEF Reopen
  <2>5. CASE Delete(i)
    BY <1>0, <2>5, NewQuiet DEF Delete, Active
  <2>6. CASE CancelWorkflow(i)
    BY <1>0, <2>6, SameQuiet DEF CancelWorkflow
  <2>7. CASE ResumeWorkflow(i)
    BY <1>0, <2>7, NewQuiet DEF ResumeWorkflow
  <2> QED
    BY <1>5, <2>1, <2>2, <2>3, <2>4, <2>5, <2>6, <2>7 DEF ApiStep
<1> QED
  BY <1>1, <1>2, <1>3, <1>4, <1>5 DEF Next, StorageChanges

LEMMA QuietMemories ==
  ASSUME TypeOK, [Next]_vars, NEW w \in Worker,
         ~CommitClaim(w), ~CheckpointStep(w)
  PROVE  QuietMemory(w)
<1> DEFINE m == worker[w]
<1>0. m \in WorkerState /\ worker \in [Worker -> WorkerState]
  BY DEF TypeOK
<1>1. CASE WorkerStep(w)
  <2>1. \/ worker'[w] = m
        \/ worker'[w] \in {Idle, [Idle EXCEPT !.pc = "dead"]}
        \/ \E j : worker'[w] = [Idle EXCEPT !.pc = "start", !.job = j]
        \/ \E pc : worker'[w] = [m EXCEPT !.pc = pc]
        \/ \E S : worker'[w] \in {[m EXCEPT !.pc = "try", !.cands = S], [m EXCEPT !.cands = S]}
        \/ \E k : worker'[w] = [m EXCEPT !.ka = k]
        \/ \E pc : worker'[w] = [m EXCEPT !.pc = pc, !.ka = "off"]
    BY <1>0, <1>1 DEF WorkerStep, ClaimStep, HandlerStep, KeepaliveStep, Recover, Scan,
       TryCandidate, LeaseRefused, WaitForReview, DeferForStorage, CreateChild, AwaitChild,
       HandlerReturns, HandlerRaises, Finish, FailRun, Heartbeat, HeartbeatErrs, Crash,
       Restart, Skip, Stopped, Dead, Becomes
  <2>2. CASE worker'[w] = m
    BY <2>2 DEF QuietMemory
  <2>3. CASE \/ worker'[w] \in {Idle, [Idle EXCEPT !.pc = "dead"]}
             \/ \E j : worker'[w] = [Idle EXCEPT !.pc = "start", !.job = j]
    <3>1. /\ Idle.token = NoToken /\ [Idle EXCEPT !.pc = "dead"].token = NoToken
          /\ \A j : [Idle EXCEPT !.pc = "start", !.job = j].token = NoToken
      BY DEF Idle
    <3> QED
      BY <2>3, <3>1 DEF QuietMemory
  <2>4. CASE \E pc : worker'[w] = [m EXCEPT !.pc = pc]
    BY <1>0, <2>4 DEF QuietMemory, WorkerState
  <2>5. CASE \E S : \/ worker'[w] = [m EXCEPT !.pc = "try", !.cands = S]
                    \/ worker'[w] = [m EXCEPT !.cands = S]
    BY <1>0, <2>5 DEF QuietMemory, WorkerState
  <2>6. CASE \/ \E k : worker'[w] = [m EXCEPT !.ka = k]
             \/ \E pc : worker'[w] = [m EXCEPT !.pc = pc, !.ka = "off"]
    BY <1>0, <2>6 DEF QuietMemory, WorkerState
  <2> QED
    BY <2>1, <2>2, <2>3, <2>4, <2>5, <2>6
<1>2. ASSUME NEW v \in Worker, WorkerStep(v), v # w PROVE QuietMemory(w)
  <2>1. CASE worker' = worker
    BY <2>1 DEF QuietMemory
  <2>2. CASE \E x : Becomes(v, x)
    BY <1>0, <1>2, <2>2 DEF Becomes, QuietMemory
  <2> QED
    BY <1>2, <2>1, <2>2
       DEF WorkerStep, ClaimStep, HandlerStep, KeepaliveStep, Recover, Scan, CommitClaim,
       CheckpointStep,
       TryCandidate, LeaseRefused, WaitForReview, DeferForStorage, CreateChild, AwaitChild,
       HandlerReturns, HandlerRaises, Finish, FailRun, Heartbeat, HeartbeatErrs, Crash,
       Restart, Skip, Stopped, Dead
<1>3. CASE Tick
  BY <1>0, <1>3 DEF Tick, QuietMemory, WorkerState
<1>4. CASE worker' = worker
  BY <1>4 DEF QuietMemory
<1> QED
  BY <1>1, <1>2, <1>3, <1>4 DEF Next, LateHeartbeat, StorageChanges, ApiStep, Submit, Cancel,
     Retry, Reopen, Delete, CancelWorkflow, ResumeWorkflow

-----------------------------------------------------------------------------
(* The two steps that are not quiet. *)

ClaimsRow(w, j) ==
    /\ jobs'[j].token \in Token \ TokensInUse
    /\ worker'[w].token = jobs'[j].token /\ worker'[w].job = j
    /\ worker'[w].done = jobs'[j].progress
    /\ jobs'[j].progress = jobs[j].progress

CountsRow(w, j) ==
    /\ Owns(w, j) /\ jobs'[j].progress >= jobs[j].progress
    /\ \/ jobs'[j].token = NoToken /\ worker'[w].token = NoToken
       \/ /\ jobs'[j].token = jobs[j].token /\ worker'[w].token = worker[w].token
          /\ worker'[w].job = j /\ worker'[w].done = jobs'[j].progress

Alone(w, j) ==
    /\ \A k \in Job \ {j} : jobs'[k] = jobs[k]
    /\ \A v \in Worker \ {w} : worker'[v] = worker[v]

LEMMA ClaimFacts ==
  ASSUME TypeOK, WorkerShape, NEW w \in Worker, CommitClaim(w)
  PROVE  \/ QuietStep
         \/ \E j \in Job : ClaimsRow(w, j) /\ Alone(w, j)
<1> DEFINE j == worker[w].job
<1>0. j \in Job /\ worker \in [Worker -> WorkerState] /\ jobs \in [Job -> JobRow]
  BY DEF CommitClaim, WorkerShape, Shape, TypeOK
<1>1. CASE Stopped(w) /\ UNCHANGED jobs
  BY <1>0, <1>1, IdleType DEF Stopped, Becomes, QuietStep, QuietRow, QuietMemory, Idle
<1>2. CASE \E t \in Token \ TokensInUse, d \in Age :
             /\ jobs' = [jobs EXCEPT ![j] = Start(@, Serves[w], t, d)]
             /\ Becomes(w, Claimed(j, t))
  <2>1. PICK t \in Token \ TokensInUse, d \in Age :
             /\ jobs' = [jobs EXCEPT ![j] = Start(@, Serves[w], t, d)]
             /\ Becomes(w, Claimed(j, t))
    BY <1>2
  <2>2. Alone(w, j) /\ jobs'[j] = Start(jobs[j], Serves[w], t, d) /\ worker'[w] = Claimed(j, t)
    BY <1>0, <2>1 DEF Alone, Becomes
  <2>3. ClaimsRow(w, j)
    BY <2>1, <2>2 DEF ClaimsRow, Start, Claimed
  <2> QED
    BY <1>0, <2>2, <2>3
<1> QED
  BY <1>1, <1>2 DEF CommitClaim

LEMMA CountFacts ==
  ASSUME TypeOK, WorkerShape, NEW w \in Worker, CheckpointStep(w)
  PROVE  \E j \in Job : CountsRow(w, j) /\ Alone(w, j)
<1> DEFINE j == worker[w].job
<1>0. /\ j \in Job /\ worker \in [Worker -> WorkerState] /\ jobs \in [Job -> JobRow]
      /\ worker[w] \in WorkerState /\ jobs[j] \in JobRow /\ worker[w].token # NoToken
  BY DEF CheckpointStep, Running, WorkerShape, Shape, TypeOK
<1>1. PICK d \in Age, n \in 0 .. Units :
        LET next == Checkpoint(jobs[j], d, n, WaitsAfter(w))
        IN  /\ Holds(w, d) /\ MayProgress(jobs[j], n)
            /\ \/ Write(w, Settled(next, "cancelled")) /\ Stopped(w)
               \/ /\ Write(w, next)
                  /\ Becomes(w, [worker[w] EXCEPT !.done = n, !.touched = TRUE])
  BY DEF CheckpointStep
<1> DEFINE next == Checkpoint(jobs[j], d, n, WaitsAfter(w))
           memory == [worker[w] EXCEPT !.done = n, !.touched = TRUE]
<1>2. Owns(w, j) /\ n >= jobs[j].progress
  BY <1>0, <1>1 DEF Owns, Holds, Leased, MayProgress, JobRow
<1>3. next.token = jobs[j].token /\ next.progress = n
  BY <1>0 DEF Checkpoint, Renew, JobRow
<1>4. memory.token = worker[w].token /\ memory.job = j /\ memory.done = n
  BY <1>0 DEF WorkerState
<1> HIDE DEF next, memory
<1>5. CASE Write(w, Settled(next, "cancelled")) /\ Stopped(w)
  <2>1. jobs'[j] = Settled(next, "cancelled") /\ worker'[w] = Idle /\ Alone(w, j)
    BY <1>0, <1>5 DEF Write, Stopped, Becomes, Alone
  <2> QED
    BY <1>0, <1>2, <1>3, <2>1 DEF CountsRow, Settled, Into, Idle
<1>6. CASE Write(w, next) /\ Becomes(w, memory)
  <2>1. jobs'[j] = next /\ worker'[w] = memory /\ Alone(w, j)
    BY <1>0, <1>6 DEF Write, Becomes, Alone
  <2> QED
    BY <1>0, <1>2, <1>3, <1>4, <2>1 DEF CountsRow
<1> QED
  BY <1>1, <1>5, <1>6 DEF next, memory

(* Every step is quiet, a claim or a checkpoint. *)
LEMMA Kinds ==
  ASSUME TypeOK, WorkerShape, [Next]_vars
  PROVE  \/ QuietStep
         \/ \E w \in Worker, j \in Job : ClaimsRow(w, j) /\ Alone(w, j)
         \/ \E w \in Worker, j \in Job : CountsRow(w, j) /\ Alone(w, j)
  BY QuietRows, QuietMemories, ClaimFacts, CountFacts DEF QuietStep

LEMMA OneOwnerStep ==
  ASSUME TypeOK, WorkerShape, OneOwner, [Next]_vars
  PROVE  OneOwner'
<1>1. CASE QuietStep
  BY <1>1 DEF OneOwner, QuietStep, QuietRow, QuietMemory
<1>2. CASE \E w \in Worker, j \in Job : ClaimsRow(w, j) /\ Alone(w, j)
  BY <1>2 DEF OneOwner, ClaimsRow, Alone, TokensInUse
<1>3. CASE \E w \in Worker, j \in Job : CountsRow(w, j) /\ Alone(w, j)
  BY <1>3 DEF OneOwner, CountsRow, Alone
<1> QED
  BY <1>1, <1>2, <1>3, Kinds

LEMMA InSyncStep ==
  ASSUME TypeOK, WorkerShape, LaneLease, OneOwner, OwnerInSync, [Next]_vars
  PROVE  OwnerInSync'
<1> SUFFICES ASSUME NEW v \in Worker, NEW i \in Job,
                    worker'[v].job = i, worker'[v].token # NoToken,
                    jobs'[i].token = worker'[v].token
             PROVE  jobs'[i].progress = worker'[v].done
  BY DEF OwnerInSync, Owns
<1>0. jobs[i].token # NoToken => jobs[i].status = "processing"
  BY DEF LaneLease
<1>1. CASE QuietStep
  BY <1>0, <1>1 DEF OwnerInSync, Owns, QuietStep, QuietRow, QuietMemory
<1>2. CASE \E w \in Worker, j \in Job : ClaimsRow(w, j) /\ Alone(w, j)
  <2>1. PICK w \in Worker, j \in Job : ClaimsRow(w, j) /\ Alone(w, j)
    BY <1>2
  <2>2. CASE v = w
    BY <2>1, <2>2 DEF ClaimsRow
  <2>3. CASE v # w /\ i # j
    BY <1>0, <2>1, <2>3 DEF Alone, OwnerInSync, Owns
  <2>4. CASE v # w /\ i = j
    BY <2>1, <2>4 DEF Alone, ClaimsRow, TokensInUse
  <2> QED
    BY <2>2, <2>3, <2>4
<1>3. CASE \E w \in Worker, j \in Job : CountsRow(w, j) /\ Alone(w, j)
  <2>1. PICK w \in Worker, j \in Job : CountsRow(w, j) /\ Alone(w, j)
    BY <1>3
  <2>2. CASE v = w
    BY <2>1, <2>2 DEF CountsRow
  <2>3. CASE v # w /\ i # j
    BY <1>0, <2>1, <2>3 DEF Alone, OwnerInSync, Owns
  <2>4. CASE v # w /\ i = j
    BY <2>1, <2>4 DEF Alone, CountsRow, OneOwner, Owns
  <2> QED
    BY <2>2, <2>3, <2>4
<1> QED
  BY <1>1, <1>2, <1>3, Kinds

-----------------------------------------------------------------------------
(* The invariants of the rows, read off RowMoves. *)

LEMMA RowsStep ==
  ASSUME TypeOK, WorkerShape, RowsOK, ClaimedRowIsCreated, [Next]_vars
  PROVE  RowsOK'
<1>0. \A j \in Job : RowStep(j) /\ jobs[j] \in JobRow /\ jobs'[j] \in JobRow
  BY RowMoves, TypeStep DEF TypeOK
<1>1. ASSUME NEW j \in Job
      PROVE  /\ jobs'[j].status = "processing" =>
                   jobs'[j].slot = SlotOf[j] /\ jobs'[j].token # NoToken
             /\ jobs'[j].status # "processing" =>
                   jobs'[j].slot = NoSlot /\ jobs'[j].token = NoToken
  <2>1. CASE Same(j) \/ Taken(j) \/ Marked(j)
    BY <2>1, NullsAssumption DEF Same, Taken, Marked, RowsOK, LaneLease
  <2>2. CASE Unleased(j) /\ (Appears(j) \/ Yielded(j) \/ Ended(j) \/ Dropped(j)
                             \/ Returned(j) \/ Removed(j))
    BY <2>2 DEF Unleased, Appears, Yielded, Ended, Dropped, Returned, Removed, NewJob, Row
  <2> QED
    BY <1>0, <2>1, <2>2 DEF RowStep
<1>2. ASSUME NEW j \in Job, NEW k \in Job \ {j}, jobs'[j].slot # NoSlot
      PROVE  jobs'[j].slot # jobs'[k].slot
  <2>1. ASSUME NEW i \in Job, jobs'[i].slot # NoSlot
        PROVE  Taken(i) \/ jobs'[i].slot = jobs[i].slot
    BY <1>0, <2>1 DEF RowStep, Same, Marked, Unleased
  <2>2. \A i \in Job : jobs[i].slot = SlotOf[i] \/ jobs[i].slot = NoSlot
    BY DEF RowsOK, LaneLease
  <2>3. ASSUME NEW i \in Job, NEW h \in Job \ {i}, Taken(i)
        PROVE  jobs'[i].slot # jobs'[h].slot
    <3>1. jobs'[h] = jobs[h] /\ jobs'[i].slot = SlotOf[i] /\ ~SlotBusy(SlotOf[i])
      BY <2>3 DEF Taken
    <3>2. SlotOf[i] # NoSlot
      BY LaneAssumption, NullsAssumption
    <3> QED
      BY <3>1, <3>2 DEF SlotBusy, RowsOK, LaneLease
  <2>4. CASE Taken(j)
    BY <2>3, <2>4
  <2>5. CASE Taken(k)
    BY <2>3, <2>5
  <2>6. CASE ~Taken(j) /\ ~Taken(k)
    BY <1>2, <2>1, <2>6 DEF RowsOK, LaneLease
  <2> QED
    BY <2>4, <2>5, <2>6
<1>3. ASSUME NEW j \in Job
      PROVE  /\ jobs'[j].cancel => jobs'[j].status \in Active \cup {"cancelled"}
             /\ jobs'[j].status = "cancelled" => jobs'[j].cancel
  <2>1. CASE Same(j) \/ Taken(j) \/ Marked(j)
    BY <2>1 DEF Same, Taken, Marked, RowsOK, CancelNotOverruled, Active
  <2>2. CASE Appears(j) \/ Yielded(j) \/ Ended(j) \/ Dropped(j) \/ Returned(j) \/ Removed(j)
    BY <2>2 DEF Appears, Yielded, Ended, Dropped, Returned, Removed, NewJob, Row, Active
  <2> QED
    BY <1>0, <2>1, <2>2 DEF RowStep
<1> QED
  BY <1>1, <1>2, <1>3 DEF RowsOK, LaneLease, CancelNotOverruled

(* A job of the gate enters the queue alone, and only when it is admitted. *)
LEMMA EnteringIsAdmitted ==
  ASSUME TypeOK, WorkerShape, RowsOK, ClaimedRowIsCreated, [Next]_vars,
         NEW j \in Gate, jobs[j].status \notin Active, jobs'[j].status \in Active
  PROVE  Admitted(j) /\ \A k \in Job \ {j} : jobs'[k] = jobs[k]
<1>0. /\ j \in Job /\ j \notin Parent /\ j \notin Children /\ j \notin Selection
      /\ jobs \in [Job -> JobRow] /\ RowStep(j)
  BY KindAssumption, RowMoves DEF TypeOK
<1>1. Unleased(j) /\ (Appears(j) \/ Returned(j))
  BY <1>0 DEF RowStep, Same, Taken, Marked, Yielded, Ended, Dropped, Removed, Active
<1>2. jobs[j].status \notin {"created", "processing"} /\ jobs'[j] # jobs[j]
  BY DEF Active
<1> USE DEF Write
<1>3. ASSUME NEW w \in Worker, WorkerStep(w) PROVE FALSE
  <2> DEFINE k == worker[w].job
  <2>1. CASE Recover(w)
    BY <1>0, <1>2, <2>1 DEF Recover, Expired
  <2>2. CASE TryCandidate(w)
    <3>1. \A i \in worker[w].cands : i \in Job
      BY DEF TypeOK, WorkerState
    <3>2. PICK i \in worker[w].cands :
             UNCHANGED jobs \/ (jobs[i].status = "created"
                                /\ jobs' = [jobs EXCEPT ![i] = Quarantined(@)])
      BY <2>2 DEF TryCandidate
    <3> QED
      BY <1>0, <1>2, <3>1, <3>2
  <2>3. CASE CommitClaim(w)
    BY <1>0, <1>2, <2>3 DEF CommitClaim, ClaimedRowIsCreated, WorkerShape, Shape
  <2>4. CASE CheckpointStep(w)
    <3>1. k \in Job /\ jobs[k].status = "processing"
      BY <2>4 DEF CheckpointStep, Running, WorkerShape, Shape, Holds, Leased
    <3>2. \E new : jobs' = [jobs EXCEPT ![k] = new]
      BY <2>4 DEF CheckpointStep
    <3> QED
      BY <1>0, <1>2, <3>1, <3>2
  <2>5. CASE WaitForReview(w) \/ Finish(w) \/ FailRun(w) \/ DeferForStorage(w)
             \/ AwaitChild(w) \/ Heartbeat(w)
    <3>1. k \in Job
      BY <2>5 DEF WorkerShape, Shape, Running, WaitForReview, Finish, FailRun,
                  DeferForStorage, AwaitChild, Heartbeat
    <3>2. UNCHANGED jobs \/ \E d \in Age : \E new :
                              Holds(w, d) /\ jobs' = [jobs EXCEPT ![k] = new]
      BY <2>5 DEF WaitForReview, Finish, FailRun, DeferForStorage, AwaitChild, Heartbeat
    <3> QED
      BY <1>0, <1>2, <3>1, <3>2 DEF Holds, Leased
  <2>6. CASE CreateChild(w)
    BY <1>0, <1>2, <2>6 DEF CreateChild, Children, Parent
  <2>7. CASE UNCHANGED jobs
    BY <1>2, <2>7
  <2> QED
    BY <1>3, <2>1, <2>2, <2>3, <2>4, <2>5, <2>6, <2>7
       DEF WorkerStep, ClaimStep, HandlerStep, KeepaliveStep, Scan, LeaseRefused,
           HandlerReturns, HandlerRaises, HeartbeatErrs, Crash, Restart
<1>4. ASSUME NEW p \in late, LateHeartbeat(p) PROVE FALSE
  BY <1>0, <1>2, <1>4 DEF LateHeartbeat, Leased
<1>5. ~Tick
  BY <1>0, <1>2 DEF Tick, Aged
<1>6. PICK i \in Job : ApiStep(i)
  BY <1>2, <1>3, <1>4, <1>5 DEF Next, StorageChanges
<1>7. CASE Submit(i) \/ Retry(i)
  BY <1>0, <1>2, <1>7 DEF Submit, Retry
<1>8. CASE Reopen(i) \/ Delete(i) \/ CancelWorkflow(i) \/ ResumeWorkflow(i)
  BY <1>0, <1>2, <1>8 DEF Reopen, Delete, CancelWorkflow, ResumeWorkflow, Children, Parent
<1>9. CASE Cancel(i)
  BY <1>0, <1>1, <1>9 DEF Cancel, CancelRequested, Appears, Returned, NewJob, Row,
                          MayCancel, MayRequeue, MayReopen
<1> QED
  BY <1>6, <1>7, <1>8, <1>9 DEF ApiStep

LEMMA AdmissionStep ==
  ASSUME TypeOK, WorkerShape, RowsOK, ClaimedRowIsCreated, AdmissionExclusive, [Next]_vars
  PROVE  AdmissionExclusive'
<1> SUFFICES ASSUME NEW j \in Gate \ Unstarted, NEW k \in Gate \ Unstarted,
                    j # k, GameOf[j] = GameOf[k],
                    jobs'[j].status \in Active, jobs'[k].status \in Active
             PROVE  {j, k} \subseteq Bulk
  BY DEF AdmissionExclusive
<1>0. j \in Job /\ k \in Job
  BY KindAssumption
<1>1. CASE jobs[j].status \in Active /\ jobs[k].status \in Active
  BY <1>1 DEF AdmissionExclusive
<1>2. ASSUME NEW i \in {j, k}, jobs[i].status \notin Active
      PROVE  {j, k} \subseteq Bulk
  <2>1. PICK h \in {j, k} : h # i
    OBVIOUS
  <2>2. Admitted(i) /\ jobs'[h] = jobs[h]
    BY <1>0, <1>2, <2>1, EnteringIsAdmitted
  <2>3. h \in Conflicts(i, Active)
    BY <2>1, <2>2 DEF Conflicts
  <2> QED
    BY <2>1, <2>2, <2>3 DEF Admitted
<1> QED
  BY <1>1, <1>2

-----------------------------------------------------------------------------
(* The theorems. *)

LEMMA InitInductive == Init => Inductive
<1> SUFFICES ASSUME Init PROVE Inductive
  OBVIOUS
<1>1. \A j \in Job : jobs[j] = Row("absent") \/ jobs[j] = Row("created")
  BY DEF Init, Absent, NewJob
<1>2. \A s \in Status : /\ Row(s).status = s /\ Row(s).slot = NoSlot
                        /\ Row(s).token = NoToken /\ ~Row(s).cancel
  BY DEF Row
<1>3. TypeOK
  <2>1. jobs \in [Job -> JobRow]
    BY RowType DEF Init, Absent, NewJob, Status
  <2>2. faults \in 0 .. MaxFaults
    BY KindAssumption DEF Init
  <2> QED
    BY <2>1, <2>2, IdleType DEF Init, TypeOK
<1>4. \A w \in Worker : worker[w] = Idle
  BY DEF Init
<1>5. Idle.pc = "idle" /\ Idle.token = NoToken
  BY DEF Idle
<1>6. WorkerShape
  BY <1>4, <1>5, IdleShape DEF WorkerShape
<1>7. LaneLease /\ CancelNotOverruled /\ OneOwner
  <2>1. \A j \in Job : /\ jobs[j].status \in {"absent", "created"} /\ ~jobs[j].cancel
                       /\ jobs[j].slot = NoSlot /\ jobs[j].token = NoToken
    BY <1>1, <1>2 DEF Status
  <2> QED
    BY <1>4, <1>5, <2>1 DEF LaneLease, CancelNotOverruled, OneOwner
<1>8. ClaimedRowIsCreated /\ OwnerInSync
  BY <1>4, <1>5 DEF ClaimedRowIsCreated, OwnerInSync, Owns
<1>9. \A j \in Job \ Unstarted : jobs[j].status \notin Active
  BY <1>1, <1>2 DEF Init, Active, Status
<1>10. AdmissionExclusive
  BY <1>9, KindAssumption DEF AdmissionExclusive
<1> QED
  BY <1>3, <1>6, <1>7, <1>8, <1>10 DEF Inductive

LEMMA NextInductive == Inductive /\ [Next]_vars => Inductive'
<1> SUFFICES ASSUME Inductive, [Next]_vars PROVE Inductive'
  OBVIOUS
<1>1. /\ TypeOK /\ WorkerShape /\ RowsOK /\ OneOwner /\ ClaimedRowIsCreated
      /\ OwnerInSync /\ AdmissionExclusive /\ LaneLease
  BY DEF Inductive, RowsOK
<1>2. TypeOK' /\ WorkerShape'
  BY <1>1, TypeStep, ShapeStep
<1>3. RowsOK'
  BY <1>1, RowsStep
<1>4. ClaimedRowIsCreated' /\ OneOwner' /\ OwnerInSync'
  BY <1>1, ClaimedStep, OneOwnerStep, InSyncStep
<1>5. AdmissionExclusive'
  BY <1>1, AdmissionStep
<1> QED
  BY <1>2, <1>3, <1>4, <1>5 DEF Inductive, RowsOK

(* However many workers, jobs, lanes and games there are, and however far  *)
(* the clock readings of the transactions are behind, the conjuncts of     *)
(* Inductive hold together: each step of claim_next, of a handler and of   *)
(* the API keeps them all.                                                 *)
THEOREM InductiveInvariant == Spec => []Inductive
<1>1. Init => Inductive
  BY InitInductive
<1>2. Inductive /\ [Next]_vars => Inductive'
  BY NextInductive
<1> QED
  BY <1>1, <1>2, PTL DEF Spec

(* Every row, worker memory and heartbeat in flight keeps its type: no     *)
(* lease outlives its duration, no progress passes the handler's units.    *)
THEOREM TypeCorrect == Spec => []TypeOK
<1>1. Inductive => TypeOK
  BY DEF Inductive
<1> QED
  BY <1>1, InductiveInvariant, PTL

(* The lease columns are set exactly while a row is processing, and a lane *)
(* runs one job: the constraints ck_jobs_processing_lease_fields and       *)
(* uq_jobs_execution_slot of storage/models.py are never tripped but by    *)
(* the race claim_next expects.                                            *)
THEOREM LanesAreExclusive == Spec => []LaneLease
<1>1. Inductive => LaneLease
  BY DEF Inductive
<1> QED
  BY <1>1, InductiveInvariant, PTL

(* A claim that commits starts a row that is created: nothing slips between *)
(* the FOR UPDATE SKIP LOCKED of claim_next and its commit.                *)
THEOREM ClaimsAreOfCreatedRows == Spec => []ClaimedRowIsCreated
<1>1. Inductive => ClaimedRowIsCreated
  BY DEF Inductive
<1> QED
  BY <1>1, InductiveInvariant, PTL

(* The progress a lease holder carries in memory is that of its row.       *)
THEOREM OwnersAreInSync == Spec => []OwnerInSync
<1>1. Inductive => OwnerInSync
  BY DEF Inductive
<1> QED
  BY <1>1, InductiveInvariant, PTL

(* A job with a cancellation request is queued, running or cancelled, and  *)
(* a cancelled job has one.                                                *)
THEOREM CancelsAreNotOverruled == Spec => []CancelNotOverruled
<1>1. Inductive => CancelNotOverruled
  BY DEF Inductive
<1> QED
  BY <1>1, InductiveInvariant, PTL

(* Two conflicting workflows of one game are never queued or running       *)
(* together, whatever the API and the workers admit at the same time.      *)
THEOREM AdmissionIsExclusive == Spec => []AdmissionExclusive
<1>1. Inductive => AdmissionExclusive
  BY DEF Inductive
<1> QED
  BY <1>1, InductiveInvariant, PTL

-----------------------------------------------------------------------------
(* The contract of the clients. *)

LEMMA ContractMove ==
  ASSUME Inductive, [Next]_vars, NEW j \in Job
  PROVE  Contract!Move(j) \/ Contract!Stays(j)
<1>0. TypeOK /\ TypeOK' /\ WorkerShape /\ RowsOK /\ ClaimedRowIsCreated
  BY NextInductive DEF Inductive, RowsOK
<1>1. jobs[j] \in JobRow /\ jobs'[j] \in JobRow /\ RowStep(j)
  BY <1>0, RowMoves DEF TypeOK
<1> DEFINE s == [i \in Job |-> jobs[i].status]
           c == [i \in Job |-> jobs[i].cancel]
<1>2. /\ s[j] = jobs[j].status /\ c[j] = jobs[j].cancel
      /\ s'[j] = jobs'[j].status /\ c'[j] = jobs'[j].cancel
  OBVIOUS
<1>3. /\ c[j] \in BOOLEAN /\ c'[j] \in BOOLEAN
      /\ c[j] => s[j] \in {"created", "processing", "cancelled"}
      /\ s[j] = "cancelled" => c[j]
  BY <1>0, <1>1, <1>2 DEF JobRow, RowsOK, CancelNotOverruled, Active
<1> USE DEF Contract!Goes, Contract!Keeps, Contract!Move
<1>4. CASE Same(j)
  BY <1>2, <1>4 DEF Same, Contract!Stays
<1>5. CASE Taken(j)
  BY <1>2, <1>5 DEF Taken, Contract!Claimed
<1>6. CASE Marked(j)
  BY <1>2, <1>3, <1>6 DEF Marked, Contract!CancelAsked, Contract!Stays
<1>7. CASE Appears(j)
  BY <1>2, <1>3, <1>7 DEF Appears, NewJob, Row, Contract!Created
<1>8. CASE Yielded(j)
  BY <1>2, <1>8 DEF Yielded, Contract!Released
<1>9. CASE Ended(j)
  BY <1>2, <1>3, <1>9 DEF Ended, Active, Contract!Settles, Contract!Refused
<1>10. CASE Dropped(j)
  BY <1>2, <1>3, <1>10 DEF Dropped, Active, Contract!CancelAsked, Contract!CancelHonoured
<1>11. CASE Returned(j)
  BY <1>2, <1>3, <1>11 DEF Returned, MayRequeue, MayReopen, Contract!Requeued,
                           Contract!Revised
<1>12. CASE Removed(j)
  BY <1>2, <1>12 DEF Removed, Contract!Removed
<1> QED
  BY <1>1, <1>4, <1>5, <1>6, <1>7, <1>8, <1>9, <1>10, <1>11, <1>12 DEF RowStep

LEMMA ContractStep ==
  ASSUME Inductive, [Next]_vars
  PROVE  Contract!Next
<1>1. jobs' \in [Job -> JobRow]
  BY NextInductive DEF Inductive, TypeOK
<1>2. \A j \in Job : jobs'[j].status \in Contract!JobStatus /\ jobs'[j].cancel \in BOOLEAN
  BY <1>1 DEF JobRow, Status, Contract!JobStatus
<1>3. \A j \in Job : Contract!Move(j) \/ Contract!Stays(j)
  BY ContractMove
<1> QED
  BY <1>2, <1>3 DEF Contract!Next

LEMMA ContractInit == Init => Contract!Init
<1> SUFFICES ASSUME Init PROVE Contract!Init
  OBVIOUS
<1>1. \A j \in Job : /\ jobs[j].status \in {"absent", "created"}
                     /\ jobs[j].cancel = FALSE
  BY DEF Init, Absent, NewJob, Row
<1> QED
  BY <1>1 DEF Contract!Init

(* The queue keeps the contract of its clients: seen from outside, a step  *)
(* of overlapping workers, expired leases and API commands is a step of    *)
(* JobContract, or no step at all.                                         *)
THEOREM KeepsTheContract == Spec => ImplementsContract
<1>1. Init => Contract!Init
  BY ContractInit
<1>2. Inductive /\ [Next]_vars => [Contract!Next]_(Contract!vars)
  BY ContractStep
<1> QED
  BY <1>1, <1>2, InductiveInvariant, PTL DEF Spec, ImplementsContract, Contract!Spec

-----------------------------------------------------------------------------
(* The action properties. *)

LEMMA ProgressStep ==
  ASSUME Inductive, [Next]_vars, NEW j \in Job
  PROVE  /\ jobs'[j].progress > jobs[j].progress =>
               \E w \in Worker : Owns(w, j) /\ worker'[w] # worker[w]
         /\ jobs'[j].progress < jobs[j].progress => jobs[j].status \notin Active
<1>0. TypeOK /\ WorkerShape /\ jobs[j].progress \in Nat
  BY UnitsAssumption DEF Inductive, TypeOK, JobRow
<1>1. CASE QuietStep
  BY <1>0, <1>1 DEF QuietStep, QuietRow
<1>2. CASE \E w \in Worker, i \in Job : ClaimsRow(w, i) /\ Alone(w, i)
  BY <1>0, <1>2 DEF ClaimsRow, Alone
<1>3. CASE \E w \in Worker, i \in Job : CountsRow(w, i) /\ Alone(w, i)
  <2>1. PICK w \in Worker, i \in Job : CountsRow(w, i) /\ Alone(w, i)
    BY <1>3
  <2>2. jobs'[j] \in JobRow
    BY NextInductive DEF Inductive, TypeOK
  <2>3. jobs'[j].progress \in Nat
    BY <2>2, UnitsAssumption DEF JobRow
  <2>4. Owns(w, i) => worker[w].done = jobs[i].progress /\ worker[w].token # NoToken
    BY DEF Inductive, OwnerInSync, Owns
  <2>5. jobs'[i].progress > jobs[i].progress /\ i = j => worker'[w] # worker[w]
    BY <1>0, <2>1, <2>3, <2>4 DEF CountsRow
  <2> QED
    BY <1>0, <2>1, <2>3, <2>5 DEF CountsRow, Alone
<1> QED
  BY <1>0, <1>1, <1>2, <1>3, Kinds

(* No worker but the holder of the lease ever counts work, and what was    *)
(* counted is forgotten only by a retry, a deletion or a first submission. *)
THEOREM OnlyOwnersCount == Spec => ProgressIsOwned
<1>1. Inductive /\ [Next]_vars =>
        [\A j \in Job :
           /\ jobs'[j].progress > jobs[j].progress =>
                 \E w \in Worker : Owns(w, j) /\ worker'[w] # worker[w]
           /\ jobs'[j].progress < jobs[j].progress => jobs[j].status \notin Active]_vars
  BY ProgressStep
<1> QED
  BY <1>1, InductiveInvariant, PTL DEF Spec, ProgressIsOwned

(* Worker w, the owner of row j, gives its token away. *)
LetsGo(w, j) == Owns(w, j) /\ worker'[w].token # worker[w].token

LEMMA TakeoverStep ==
  ASSUME Inductive, [Next]_vars, NEW j \in Job,
         jobs[j].status = "processing", jobs'[j].status # "processing"
  PROVE  jobs[j].ttl <= 0 \/ \E w \in Worker : LetsGo(w, j)
<1>0. /\ jobs \in [Job -> JobRow] /\ worker \in [Worker -> WorkerState]
      /\ TypeOK /\ WorkerShape /\ ClaimedRowIsCreated
  BY DEF Inductive, TypeOK
<1>1. jobs[j].ttl \in Int /\ jobs'[j] # jobs[j]
  BY <1>0, TimeAssumption DEF JobRow
<1>2. ASSUME NEW w \in Worker, worker[w].token # NoToken, worker[w].job \in Job,
             \E d \in Age : Holds(w, d), Stopped(w),
             \A i \in Job \ {worker[w].job} : jobs'[i] = jobs[i]
      PROVE  LetsGo(w, j)
  <2>1. worker[w].job = j
    BY <1>1, <1>2
  <2>2. worker'[w].token = NoToken
    BY <1>0, <1>2 DEF Stopped, Becomes, Idle
  <2> QED
    BY <1>2, <2>1, <2>2 DEF LetsGo, Owns, Holds, Leased
<1> USE DEF Write
<1>3. ASSUME NEW w \in Worker, WorkerStep(w)
      PROVE  jobs[j].ttl <= 0 \/ LetsGo(w, j)
  <2> DEFINE k == worker[w].job
  <2>1. CASE Recover(w)
    <3>1. PICK d \in Age : \E i \in Job : \E new :
             Expired(jobs[i], d) /\ jobs' = [jobs EXCEPT ![i] = new]
      BY <1>1, <2>1 DEF Recover
    <3>2. Expired(jobs[j], d)
      BY <1>0, <1>1, <3>1
    <3> QED
      BY <1>1, <3>2, TimeAssumption DEF Expired, Age
  <2>2. CASE TryCandidate(w)
    <3>1. \A i \in worker[w].cands : i \in Job
      BY <1>0 DEF WorkerState
    <3>2. PICK i \in worker[w].cands :
             UNCHANGED jobs \/ (jobs[i].status = "created"
                                /\ jobs' = [jobs EXCEPT ![i] = Quarantined(@)])
      BY <2>2 DEF TryCandidate
    <3> QED
      BY <1>0, <1>1, <3>1, <3>2
  <2>3. CASE CommitClaim(w)
    BY <1>0, <1>1, <2>3 DEF CommitClaim, ClaimedRowIsCreated, WorkerShape, Shape
  <2>4. CASE CheckpointStep(w)
    <3>1. k \in Job /\ worker[w].token # NoToken /\ jobs[k] \in JobRow
      BY <1>0, <2>4 DEF CheckpointStep, Running, WorkerShape, Shape
    <3>2. PICK d \in Age, n \in 0 .. Units :
            LET next == Checkpoint(jobs[k], d, n, WaitsAfter(w))
            IN  /\ Holds(w, d)
                /\ \/ Write(w, Settled(next, "cancelled")) /\ Stopped(w)
                   \/ Write(w, next)
      BY <2>4 DEF CheckpointStep
    <3> DEFINE next == Checkpoint(jobs[k], d, n, WaitsAfter(w))
    <3>3. next.status = jobs[k].status
      BY <3>1 DEF Checkpoint, Renew, JobRow
    <3> HIDE DEF next
    <3>4. CASE Write(w, Settled(next, "cancelled")) /\ Stopped(w)
      BY <1>0, <1>2, <3>1, <3>2, <3>4
    <3>5. CASE Write(w, next)
      BY <1>0, <1>1, <3>1, <3>3, <3>5
    <3> QED
      BY <3>2, <3>4, <3>5 DEF next
  <2>5. CASE WaitForReview(w) \/ DeferForStorage(w) \/ AwaitChild(w) \/ Finish(w) \/ FailRun(w)
    <3>1. k \in Job /\ worker[w].token # NoToken
      BY <1>0, <2>5 DEF WaitForReview, DeferForStorage, AwaitChild, Finish, FailRun,
                        Running, WorkerShape, Shape
    <3>2. \E d \in Age : \E new :
             Holds(w, d) /\ Stopped(w) /\ jobs' = [jobs EXCEPT ![k] = new]
      BY <1>1, <2>5 DEF WaitForReview, DeferForStorage, AwaitChild, Finish, FailRun
    <3> QED
      BY <1>0, <1>2, <3>1, <3>2
  <2>6. CASE Heartbeat(w)
    <3>1. k \in Job /\ jobs[k] \in JobRow
      BY <1>0, <2>6 DEF Heartbeat, Running, WorkerShape, Shape
    <3>2. \A d \in Age : Renew(jobs[k], d).status = jobs[k].status
      BY <3>1 DEF Renew, JobRow
    <3>3. \E d \in Age : jobs' = [jobs EXCEPT ![k] = Renew(jobs[k], d)]
      BY <1>1, <2>6 DEF Heartbeat
    <3> QED
      BY <1>0, <1>1, <3>1, <3>2, <3>3
  <2>7. CASE CreateChild(w)
    BY <1>0, <1>1, <2>7 DEF CreateChild
  <2> QED
    BY <1>1, <1>3, <2>1, <2>2, <2>3, <2>4, <2>5, <2>6, <2>7
       DEF WorkerStep, ClaimStep, HandlerStep, KeepaliveStep, Scan, LeaseRefused,
           HandlerReturns, HandlerRaises, HeartbeatErrs, Crash, Restart
<1>4. ASSUME NEW p \in late, LateHeartbeat(p) PROVE FALSE
  <2>1. \E i \in Job, d \in Age : jobs' = [jobs EXCEPT ![i] = Renew(@, d)]
    BY <1>0, <1>1, <1>4 DEF LateHeartbeat, TypeOK
  <2>2. \A i \in Job, d \in Age : Renew(jobs[i], d).status = jobs[i].status
    BY <1>0 DEF Renew, JobRow
  <2> QED
    BY <1>0, <1>1, <2>1, <2>2
<1>5. ~Tick
  <2>1. Aged(jobs[j]).status = jobs[j].status
    BY <1>0 DEF Aged, JobRow
  <2> QED
    BY <1>1, <2>1 DEF Tick
<1>6. ASSUME NEW i \in Job, ApiStep(i) PROVE FALSE
  <2>1. jobs[j] \in JobRow
    BY <1>0
  <2>2. CancelRequested(jobs[j]).status = jobs[j].status
    BY <2>1 DEF CancelRequested, JobRow
  <2>3. ~MayRequeue(jobs[j]) /\ ~MayReopen(jobs[j])
    BY DEF MayRequeue, MayReopen
  <2>4. ~Submit(i) /\ ~Retry(i) /\ ~Reopen(i) /\ ~Delete(i)
    BY <1>0, <1>1, <2>3 DEF Submit, Retry, Reopen, Delete
  <2>5. ~Cancel(i) /\ ~CancelWorkflow(i)
    BY <1>0, <1>1, <2>2 DEF Cancel, CancelWorkflow
  <2>6. ~ResumeWorkflow(i)
    BY <1>0, <1>1 DEF ResumeWorkflow
  <2> QED
    BY <1>6, <2>4, <2>5, <2>6 DEF ApiStep
<1> QED
  BY <1>1, <1>3, <1>4, <1>5, <1>6 DEF Next, StorageChanges

(* A job leaves processing by its owner's hand or when the lease is over:  *)
(* clock readings are older than the transaction that uses them, never     *)
(* newer, so _recover_one_expired cannot come too early.                   *)
THEOREM TakeoversWait == Spec => TakeoverOnlyAfterExpiry
<1>1. Inductive /\ [Next]_vars =>
        [\A j \in Job :
           jobs[j].status = "processing" /\ jobs'[j].status # "processing"
           => \/ jobs[j].ttl <= 0
              \/ \E w \in Worker : Owns(w, j) /\ worker'[w].token # worker[w].token]_vars
  BY TakeoverStep DEF LetsGo
<1> QED
  BY <1>1, InductiveInvariant, PTL DEF Spec, TakeoverOnlyAfterExpiry

-----------------------------------------------------------------------------
(* Renewals. *)

(* Row j is prolonged on behalf of its run. *)
Prolonged(j) ==
    /\ jobs[j].ttl > 0 - MaxAge
    /\ \/ \E w \in Worker : Owns(w, j) /\ worker'[w] # worker[w]
       \/ <<j, jobs[j].token>> \in late \ late'

LEMMA RenewStep ==
  ASSUME Inductive, [Next]_vars, NEW j \in Job,
         jobs[j].status = "processing", jobs'[j].status = "processing",
         jobs'[j].ttl > jobs[j].ttl
  PROVE  Prolonged(j)
<1>0. /\ jobs \in [Job -> JobRow] /\ jobs[j] \in JobRow /\ worker \in [Worker -> WorkerState]
      /\ jobs[j].ttl \in Int /\ jobs'[j] # jobs[j] /\ jobs'[j].ttl # jobs[j].ttl
      /\ TypeOK /\ WorkerShape /\ ClaimedRowIsCreated
  BY TimeAssumption DEF Inductive, TypeOK, JobRow
<1>1. /\ \A s : Settled(jobs[j], s).status = "processing" => s = "processing"
      /\ Recovered(jobs[j]).status # "processing" /\ Quarantined(jobs[j]).status # "processing"
      /\ \A b : Deferred(jobs[j], b).status # "processing"
  <2>1. /\ \A s : Settled(jobs[j], s).status = "processing" => s = "processing"
        /\ Recovered(jobs[j]).status # "processing" /\ Quarantined(jobs[j]).status # "processing"
    BY DEF Settled, Into, Recovered, Quarantined
  <2>2. \A b : Deferred(jobs[j], b).status # "processing"
    BY DEF Deferred, Into
  <2> QED
    BY <2>1, <2>2
<1>2. \A t, d : d \in Age /\ Leased(jobs[j], t, d)
              => jobs[j].ttl > 0 - MaxAge /\ jobs[j].token = t
  BY <1>0, TimeAssumption DEF Leased, Age
<1> USE DEF Write
<1>3. ASSUME NEW w \in Worker, WorkerStep(w) PROVE Prolonged(j)
  <2> DEFINE k == worker[w].job
  <2>1. ~Recover(w)
    BY <1>0, <1>1 DEF Recover
  <2>2. ~TryCandidate(w)
    <3>1. \A i \in worker[w].cands : i \in Job
      BY <1>0 DEF WorkerState
    <3>2. TryCandidate(w) => \E i \in worker[w].cands :
             UNCHANGED jobs \/ (jobs[i].status = "created"
                                /\ jobs' = [jobs EXCEPT ![i] = Quarantined(@)])
      BY DEF TryCandidate
    <3> QED
      BY <1>0, <3>1, <3>2
  <2>3. ~CommitClaim(w)
    BY <1>0 DEF CommitClaim, ClaimedRowIsCreated, WorkerShape, Shape
  <2>4. CASE CheckpointStep(w)
    <3>1. k \in Job /\ worker[w].token # NoToken /\ worker[w] \in WorkerState
      BY <1>0, <2>4 DEF CheckpointStep, Running, WorkerShape, Shape
    <3>2. PICK d \in Age, n \in 0 .. Units :
            LET next == Checkpoint(jobs[k], d, n, WaitsAfter(w))
            IN  /\ Holds(w, d)
                /\ n = worker[w].done + 1 \/ (n = worker[w].done /\ ~worker[w].touched)
                /\ \/ Write(w, Settled(next, "cancelled"))
                   \/ /\ Write(w, next)
                      /\ Becomes(w, [worker[w] EXCEPT !.done = n, !.touched = TRUE])
      BY <2>4 DEF CheckpointStep
    <3> DEFINE next == Checkpoint(jobs[k], d, n, WaitsAfter(w))
               memory == [worker[w] EXCEPT !.done = n, !.touched = TRUE]
    <3>3. Settled(next, "cancelled").status # "processing"
      BY DEF Settled, Into
    <3>4. memory # worker[w]
      <4>1. memory.done = n /\ memory.touched /\ worker[w].done \in Int
        BY <3>1, UnitsAssumption DEF WorkerState
      <4> HIDE DEF memory
      <4>2. n # worker[w].done \/ ~worker[w].touched
        BY <3>2, <4>1
      <4> QED
        BY <4>1, <4>2
    <3> HIDE DEF next, memory
    <3>5. k = j /\ Becomes(w, memory)
      BY <1>0, <3>1, <3>2, <3>3 DEF next, memory
    <3>6. worker'[w] # worker[w]
      BY <1>0, <3>4, <3>5 DEF Becomes
    <3>7. Leased(jobs[j], worker[w].token, d)
      BY <3>2, <3>5 DEF Holds
    <3>8. Owns(w, j)
      BY <1>2, <3>1, <3>5, <3>7 DEF Owns
    <3> QED
      BY <1>2, <3>6, <3>7, <3>8 DEF Prolonged
  <2>5. ~(WaitForReview(w) \/ DeferForStorage(w) \/ AwaitChild(w) \/ Finish(w) \/ FailRun(w))
    <3>1. SUFFICES ASSUME \/ WaitForReview(w) \/ DeferForStorage(w) \/ AwaitChild(w)
                          \/ Finish(w) \/ FailRun(w)
                   PROVE  FALSE
      OBVIOUS
    <3>2. k \in Job
      BY <1>0, <3>1 DEF WaitForReview, DeferForStorage, AwaitChild, Finish, FailRun,
                        Running, WorkerShape, Shape
    <3>3. \/ UNCHANGED jobs
          \/ \E s \in {"waiting_for_review", "completed", "failed"} :
                jobs' = [jobs EXCEPT ![k] = Settled(jobs[k], s)]
          \/ \E b : jobs' = [jobs EXCEPT ![k] = Deferred(jobs[k], b)]
      BY <3>1 DEF WaitForReview, DeferForStorage, AwaitChild, Finish, FailRun
    <3> QED
      BY <1>0, <1>1, <3>2, <3>3
  <2>6. CASE Heartbeat(w)
    <3>1. k \in Job /\ worker[w].token # NoToken /\ worker[w] \in WorkerState
          /\ worker[w].ka = "due"
      BY <1>0, <2>6 DEF Heartbeat, Running, WorkerShape, Shape
    <3>2. PICK d \in Age : /\ Holds(w, d)
                           /\ jobs' = [jobs EXCEPT ![k] = Renew(jobs[k], d)]
                           /\ Becomes(w, [worker[w] EXCEPT !.ka = "waiting"])
      BY <1>0, <2>6 DEF Heartbeat
    <3>3. k = j
      BY <1>0, <3>1, <3>2
    <3>4. worker'[w] # worker[w]
      BY <1>0, <3>1, <3>2 DEF Becomes, WorkerState
    <3>5. Leased(jobs[j], worker[w].token, d)
      BY <3>2, <3>3 DEF Holds
    <3>6. Owns(w, j)
      BY <1>2, <3>1, <3>3, <3>5 DEF Owns
    <3> QED
      BY <1>2, <3>4, <3>5, <3>6 DEF Prolonged
  <2>7. ~CreateChild(w)
    BY <1>0 DEF CreateChild
  <2> QED
    BY <1>0, <1>3, <2>1, <2>2, <2>3, <2>4, <2>5, <2>6, <2>7
       DEF WorkerStep, ClaimStep, HandlerStep, KeepaliveStep, Scan, LeaseRefused,
           HandlerReturns, HandlerRaises, HeartbeatErrs, Crash, Restart
<1>4. ASSUME NEW p \in late, LateHeartbeat(p) PROVE Prolonged(j)
  <2>1. PICK i \in Job, t \in Token : p = <<i, t>>
    BY <1>0 DEF TypeOK
  <2>2. PICK d \in Age :
           /\ Leased(jobs[i], t, d) /\ jobs' = [jobs EXCEPT ![i] = Renew(@, d)]
    BY <1>0, <1>4, <2>1 DEF LateHeartbeat
  <2>3. i = j
    BY <1>0, <2>2
  <2>4. p \in late \ late'
    BY <1>4 DEF LateHeartbeat
  <2> QED
    BY <1>2, <2>1, <2>2, <2>3, <2>4 DEF Prolonged
<1>5. ~Tick
  <2>1. Aged(jobs[j]).ttl \in Int /\ Aged(jobs[j]).ttl <= jobs[j].ttl
    BY <1>0 DEF Aged, JobRow
  <2> QED
    BY <1>0, <2>1 DEF Tick
<1>6. ASSUME NEW i \in Job, ApiStep(i) PROVE FALSE
  <2>1. CancelRequested(jobs[j]).ttl = jobs[j].ttl
    BY <1>0 DEF CancelRequested, JobRow
  <2>2. ~MayRequeue(jobs[j]) /\ ~MayReopen(jobs[j])
    BY DEF MayRequeue, MayReopen
  <2>3. ~Submit(i) /\ ~Retry(i) /\ ~Reopen(i) /\ ~Delete(i)
    BY <1>0, <2>2 DEF Submit, Retry, Reopen, Delete
  <2>4. ~Cancel(i) /\ ~CancelWorkflow(i)
    BY <1>0, <2>1 DEF Cancel, CancelWorkflow
  <2>5. ~ResumeWorkflow(i)
    BY <1>0 DEF ResumeWorkflow
  <2> QED
    BY <1>6, <2>3, <2>4, <2>5 DEF ApiStep
<1> QED
  BY <1>0, <1>3, <1>4, <1>5, <1>6 DEF Next, StorageChanges

(* Whoever beats, checkpoints or comes late: lease_expires_at of a row     *)
(* moves forward only by the token the row carries, and only while some    *)
(* reading of the clock still finds the lease active.                      *)
THEOREM LeasesAreRenewedByTheirRun == Spec => RenewedByItsRun
<1>1. Inductive /\ [Next]_vars =>
        [\A j \in Job :
           /\ jobs[j].status = "processing" /\ jobs'[j].status = "processing"
           /\ jobs'[j].ttl > jobs[j].ttl
           => /\ jobs[j].ttl > 0 - MaxAge
              /\ \/ \E w \in Worker : Owns(w, j) /\ worker'[w] # worker[w]
                 \/ <<j, jobs[j].token>> \in late \ late']_vars
  BY RenewStep DEF Prolonged
<1> QED
  BY <1>1, InductiveInvariant, PTL DEF Spec, RenewedByItsRun

-----------------------------------------------------------------------------
(* Two handlers of one job.  A keepalive that works renews its lease while *)
(* ticks are left: two after a renewal, one when the next is due.          *)

Healthy(w) == Running(w) /\ worker[w].ka \in {"waiting", "due"}

KeptAlive ==
    \A w \in Worker :
      /\ Running(w) => worker[w].ka # "off"
      /\ Healthy(w) => /\ Owns(w, worker[w].job)
                       /\ jobs[worker[w].job].ttl >= IF worker[w].ka = "waiting" THEN 2 ELSE 1

(* What is left of a lease changes by a tick or by a renewal, and a renewal *)
(* with the oldest clock reading still leaves two ticks.                   *)
LEMMA TimeLeft ==
  ASSUME TypeOK, WorkerShape, ClaimedRowIsCreated, Lease >= MaxAge + 2, [Next]_vars, ~Tick,
         NEW j \in Job, jobs[j].status = "processing", jobs'[j].status = "processing"
  PROVE  jobs'[j].ttl = jobs[j].ttl \/ jobs'[j].ttl >= 2
<1>0. /\ jobs \in [Job -> JobRow] /\ jobs[j] \in JobRow
      /\ \A s : Settled(jobs[j], s).status = "processing" => s = "processing"
      /\ Recovered(jobs[j]).status # "processing" /\ Quarantined(jobs[j]).status # "processing"
      /\ \A b : Deferred(jobs[j], b).status # "processing"
  <2>1. /\ \A s : Settled(jobs[j], s).status = "processing" => s = "processing"
        /\ Recovered(jobs[j]).status # "processing" /\ Quarantined(jobs[j]).status # "processing"
    BY DEF Settled, Into, Recovered, Quarantined
  <2>2. \A b : Deferred(jobs[j], b).status # "processing"
    BY DEF Deferred, Into
  <2> QED
    BY <2>1, <2>2 DEF TypeOK
<1>1. \A d \in Age : Renew(jobs[j], d).ttl >= 2
  BY <1>0, TimeAssumption DEF Renew, Age, JobRow
<1> USE DEF Write
<1>2. ASSUME NEW w \in Worker, WorkerStep(w)
      PROVE  jobs'[j].ttl = jobs[j].ttl \/ jobs'[j].ttl >= 2
  <2> DEFINE k == worker[w].job
  <2>1. CASE Recover(w)
    BY <1>0, <2>1 DEF Recover
  <2>2. CASE TryCandidate(w)
    <3>1. \A i \in worker[w].cands : i \in Job
      BY DEF TypeOK, WorkerState
    <3>2. PICK i \in worker[w].cands :
             UNCHANGED jobs \/ (jobs[i].status = "created"
                                /\ jobs' = [jobs EXCEPT ![i] = Quarantined(@)])
      BY <2>2 DEF TryCandidate
    <3> QED
      BY <1>0, <3>1, <3>2
  <2>3. CASE CommitClaim(w)
    BY <1>0, <2>3 DEF CommitClaim, ClaimedRowIsCreated, WorkerShape, Shape
  <2>4. CASE CheckpointStep(w)
    <3>1. k \in Job
      BY <2>4 DEF CheckpointStep, Running, WorkerShape, Shape
    <3>2. PICK d \in Age, n \in 0 .. Units :
            LET next == Checkpoint(jobs[k], d, n, WaitsAfter(w))
            IN  Write(w, Settled(next, "cancelled")) \/ Write(w, next)
      BY <2>4 DEF CheckpointStep
    <3> DEFINE next == Checkpoint(jobs[k], d, n, WaitsAfter(w))
    <3>3. k = j => next.ttl >= 2
      BY <1>0, <1>1 DEF Checkpoint, Renew, JobRow
    <3>4. Settled(next, "cancelled").status # "processing"
      BY DEF Settled, Into
    <3> HIDE DEF next
    <3> QED
      BY <1>0, <3>1, <3>2, <3>3, <3>4 DEF next
  <2>5. CASE WaitForReview(w) \/ DeferForStorage(w) \/ AwaitChild(w) \/ Finish(w) \/ FailRun(w)
    <3>1. k \in Job
      BY <2>5 DEF WaitForReview, DeferForStorage, AwaitChild, Finish, FailRun,
                  Running, WorkerShape, Shape
    <3>2. \/ UNCHANGED jobs
          \/ \E s \in {"waiting_for_review", "completed", "failed"} :
                jobs' = [jobs EXCEPT ![k] = Settled(jobs[k], s)]
          \/ \E b : jobs' = [jobs EXCEPT ![k] = Deferred(jobs[k], b)]
      BY <2>5 DEF WaitForReview, DeferForStorage, AwaitChild, Finish, FailRun
    <3> QED
      BY <1>0, <3>1, <3>2
  <2>6. CASE Heartbeat(w)
    <3>1. k \in Job
      BY <2>6 DEF Heartbeat, Running, WorkerShape, Shape
    <3>2. UNCHANGED jobs \/ \E d \in Age : jobs' = [jobs EXCEPT ![k] = Renew(jobs[k], d)]
      BY <2>6 DEF Heartbeat
    <3> QED
      BY <1>0, <1>1, <3>1, <3>2
  <2>7. CASE CreateChild(w)
    BY <1>0, <2>7 DEF CreateChild
  <2>8. CASE UNCHANGED jobs
    BY <2>8
  <2> QED
    BY <1>2, <2>1, <2>2, <2>3, <2>4, <2>5, <2>6, <2>7, <2>8
       DEF WorkerStep, ClaimStep, HandlerStep, KeepaliveStep, Scan, LeaseRefused,
           HandlerReturns, HandlerRaises, HeartbeatErrs, Crash, Restart
<1>3. ASSUME NEW p \in late, LateHeartbeat(p)
      PROVE  jobs'[j].ttl = jobs[j].ttl \/ jobs'[j].ttl >= 2
  <2>1. \/ UNCHANGED jobs
        \/ \E k \in Job, d \in Age : jobs' = [jobs EXCEPT ![k] = Renew(@, d)]
    BY <1>3 DEF LateHeartbeat, TypeOK
  <2> QED
    BY <1>0, <1>1, <2>1
<1>4. CASE UNCHANGED jobs
  BY <1>4
<1>5. ASSUME NEW i \in Job, ApiStep(i) PROVE jobs'[j].ttl = jobs[j].ttl
  <2>1. CancelRequested(jobs[j]).ttl = jobs[j].ttl
    BY <1>0 DEF CancelRequested, JobRow
  <2>2. ~MayRequeue(jobs[j]) /\ ~MayReopen(jobs[j])
    BY DEF MayRequeue, MayReopen
  <2>3. CASE Submit(i) \/ Retry(i) \/ Reopen(i) \/ Delete(i)
    BY <1>0, <2>2, <2>3 DEF Submit, Retry, Reopen, Delete
  <2>4. CASE Cancel(i) \/ CancelWorkflow(i)
    BY <1>0, <2>1, <2>4 DEF Cancel, CancelWorkflow
  <2>5. CASE ResumeWorkflow(i)
    BY <1>0, <2>5 DEF ResumeWorkflow
  <2> QED
    BY <1>5, <2>3, <2>4, <2>5 DEF ApiStep
<1> QED
  BY <1>2, <1>3, <1>4, <1>5 DEF Next, StorageChanges

(* A memory with a working keepalive was claimed just now, or it was one   *)
(* before, with the same lease; its renewal is due since a tick, or done.  *)
LEMMA HealthMoves ==
  ASSUME TypeOK, WorkerShape, Lease >= MaxAge + 2, [Next]_vars, NEW w \in Worker
  PROVE  /\ Running(w)' => \/ worker'[w].ka = "waiting"
                           \/ Running(w) /\ (worker'[w].ka = worker[w].ka \/ worker'[w].ka # "off")
         /\ Healthy(w)' /\ ~CommitClaim(w) =>
               /\ Healthy(w)
               /\ worker'[w].job = worker[w].job /\ worker'[w].token = worker[w].token
               /\ \/ worker'[w].ka = worker[w].ka /\ (Tick => worker[w].ka = "due")
                  \/ Tick /\ worker[w].ka = "waiting" /\ worker'[w].ka = "due"
                  \/ ~Tick /\ jobs'[worker[w].job].ttl >= 2
<1> DEFINE m == worker[w]
           Goal == /\ Running(w)' =>
                        \/ worker'[w].ka = "waiting"
                        \/ Running(w) /\ (worker'[w].ka = m.ka \/ worker'[w].ka # "off")
                   /\ Healthy(w)' /\ ~CommitClaim(w) =>
                        /\ Healthy(w)
                        /\ worker'[w].job = m.job /\ worker'[w].token = m.token
                        /\ \/ worker'[w].ka = m.ka /\ (Tick => m.ka = "due")
                           \/ Tick /\ m.ka = "waiting" /\ worker'[w].ka = "due"
                           \/ ~Tick /\ jobs'[m.job].ttl >= 2
<1>0. /\ m \in WorkerState /\ worker \in [Worker -> WorkerState]
      /\ jobs \in [Job -> JobRow]
  BY DEF TypeOK
<1>1. worker'[w].pc # "run" => Goal
  BY DEF Running, Healthy
<1>2. ASSUME worker'[w].pc = m.pc, worker'[w].ka = m.ka, worker'[w].job = m.job,
             worker'[w].token = m.token, ~Tick
      PROVE  Goal
  BY <1>2 DEF Running, Healthy
<1>3. CASE Tick
  <2>1. worker'[w] = IF Running(w) /\ m.ka = "waiting"
                     THEN [m EXCEPT !.ka = "due"] ELSE m
    BY <1>3 DEF Tick
  <2>2. CASE Running(w) /\ m.ka = "waiting"
    <3>1. /\ worker'[w].pc = m.pc /\ worker'[w].ka = "due" /\ worker'[w].job = m.job
          /\ worker'[w].token = m.token
      BY <1>0, <2>1, <2>2 DEF WorkerState
    <3> QED
      BY <1>3, <2>2, <3>1 DEF Running, Healthy
  <2>3. CASE ~(Running(w) /\ m.ka = "waiting")
    BY <1>3, <2>1, <2>3 DEF Running, Healthy
  <2> QED
    BY <2>2, <2>3
<1>4. ASSUME WorkerStep(w), ~Tick PROVE Goal
  <2>1. CASE CommitClaim(w)
    <3>1. worker'[w] = Idle \/ \E j, t : worker'[w] = Claimed(j, t)
      BY <1>0, <2>1 DEF CommitClaim, Stopped, Becomes
    <3>2. Idle.pc = "idle" /\ \A j, t : Claimed(j, t).ka = "waiting"
      BY DEF Idle, Claimed
    <3>3. worker'[w].pc = "run" => worker'[w].ka = "waiting"
      BY <3>1, <3>2
    <3> QED
      BY <2>1, <3>3 DEF Running
  <2>2. CASE Heartbeat(w)
    <3>1. m.pc = "run" /\ m.ka = "due" /\ m.job \in Job
      BY <2>2 DEF Heartbeat, Running, WorkerShape, Shape
    <3>2. PICK d \in Age :
             \/ /\ Write(w, Renew(jobs[m.job], d))
                /\ Becomes(w, [m EXCEPT !.ka = "waiting"])
             \/ \E k \in {"error", "lost"} : Becomes(w, [m EXCEPT !.ka = k])
      BY <2>2 DEF Heartbeat
    <3>3. CASE Write(w, Renew(jobs[m.job], d)) /\ Becomes(w, [m EXCEPT !.ka = "waiting"])
      <4>1. Renew(jobs[m.job], d).ttl >= 2
        BY <1>0, <3>1, TimeAssumption DEF Renew, Age, JobRow
      <4>2. jobs'[m.job].ttl >= 2
        BY <1>0, <3>1, <3>3, <4>1 DEF Write
      <4>3. /\ worker'[w].ka = "waiting" /\ worker'[w].job = m.job
            /\ worker'[w].token = m.token
        BY <1>0, <3>3 DEF Becomes, WorkerState
      <4> QED
        BY <1>4, <3>1, <4>2, <4>3 DEF Running, Healthy
    <3>4. CASE \E k \in {"error", "lost"} : Becomes(w, [m EXCEPT !.ka = k])
      <4>1. worker'[w].ka \in {"error", "lost"}
        BY <1>0, <3>4 DEF Becomes, WorkerState
      <4> QED
        BY <3>1, <4>1 DEF Running, Healthy
    <3> QED
      BY <3>2, <3>3, <3>4
  <2>3. CASE HeartbeatErrs(w)
    <3>1. m.pc = "run" /\ worker'[w].ka = "error"
      BY <1>0, <2>3 DEF HeartbeatErrs, Becomes, Running, WorkerState
    <3> QED
      BY <3>1 DEF Running, Healthy
  <2>4. CASE CheckpointStep(w)
    <3>1. \/ worker'[w] = Idle
          \/ \E n : worker'[w] = [m EXCEPT !.done = n, !.touched = TRUE]
      BY <1>0, <2>4 DEF CheckpointStep, Stopped, Becomes
    <3>2. CASE worker'[w] = Idle
      BY <1>1, <3>2 DEF Idle
    <3>3. CASE \E n : worker'[w] = [m EXCEPT !.done = n, !.touched = TRUE]
      <4>1. /\ worker'[w].pc = m.pc /\ worker'[w].ka = m.ka /\ worker'[w].job = m.job
            /\ worker'[w].token = m.token
        BY <1>0, <3>3 DEF WorkerState
      <4> QED
        BY <1>2, <1>4, <4>1
    <3> QED
      BY <3>1, <3>2, <3>3
  <2>5. CASE worker' = worker
    BY <1>2, <1>4, <2>5
  <2>6. CASE Recover(w) \/ Scan(w) \/ TryCandidate(w) \/ LeaseRefused(w) \/ WaitForReview(w)
             \/ DeferForStorage(w) \/ AwaitChild(w) \/ HandlerReturns(w) \/ HandlerRaises(w)
             \/ Finish(w) \/ FailRun(w) \/ Crash(w) \/ Restart(w)
    <3>1. \/ worker'[w] \in {Idle, [Idle EXCEPT !.pc = "dead"]}
          \/ \E j : worker'[w] = [Idle EXCEPT !.pc = "start", !.job = j]
          \/ \E S : worker'[w] = [m EXCEPT !.pc = "try", !.cands = S]
          \/ m.pc = "try" /\ \E S : worker'[w] = [m EXCEPT !.cands = S]
          \/ \E pc \in {"scan", "failing"} : worker'[w] = [m EXCEPT !.pc = pc]
          \/ \E pc \in {"finish", "failing"} : worker'[w] = [m EXCEPT !.pc = pc, !.ka = "off"]
      BY <1>0, <2>6 DEF Recover, Scan,
         TryCandidate, LeaseRefused, WaitForReview, DeferForStorage, AwaitChild,
         HandlerReturns, HandlerRaises, Finish, FailRun, Crash,
         Restart, Skip, Stopped, Dead, Becomes
    <3>2. CASE \/ worker'[w] \in {Idle, [Idle EXCEPT !.pc = "dead"]}
               \/ \E j : worker'[w] = [Idle EXCEPT !.pc = "start", !.job = j]
      <4>1. /\ Idle.pc = "idle" /\ [Idle EXCEPT !.pc = "dead"].pc = "dead"
            /\ \A j : [Idle EXCEPT !.pc = "start", !.job = j].pc = "start"
        BY DEF Idle
      <4>2. worker'[w].pc # "run"
        BY <3>2, <4>1
      <4> QED
        BY <1>1, <4>2
    <3>3. CASE \/ \E S : worker'[w] = [m EXCEPT !.pc = "try", !.cands = S]
               \/ m.pc = "try" /\ \E S : worker'[w] = [m EXCEPT !.cands = S]
      <4>1. worker'[w].pc = "try"
        BY <1>0, <3>3 DEF WorkerState
      <4> QED
        BY <1>1, <4>1
    <3>4. CASE \/ \E pc \in {"scan", "failing"} : worker'[w] = [m EXCEPT !.pc = pc]
               \/ \E pc \in {"finish", "failing"} : worker'[w] = [m EXCEPT !.pc = pc, !.ka = "off"]
      <4>1. worker'[w].pc \in {"scan", "finish", "failing"}
        BY <1>0, <3>4 DEF WorkerState
      <4> QED
        BY <1>1, <4>1
    <3> QED
      BY <3>1, <3>2, <3>3, <3>4
  <2> QED
    BY <1>4, <2>1, <2>2, <2>3, <2>4, <2>5, <2>6
       DEF WorkerStep, ClaimStep, HandlerStep, KeepaliveStep, CreateChild
<1>5. ASSUME NEW v \in Worker, WorkerStep(v), v # w, ~Tick PROVE Goal
  <2>1. worker' = worker \/ \E x : Becomes(v, x)
    BY <1>5 DEF WorkerStep, ClaimStep, HandlerStep, KeepaliveStep, Recover, Scan, CommitClaim,
       CheckpointStep,
       TryCandidate, LeaseRefused, WaitForReview, DeferForStorage, CreateChild, AwaitChild,
       HandlerReturns, HandlerRaises, Finish, FailRun, Heartbeat, HeartbeatErrs, Crash,
       Restart, Skip, Stopped, Dead
  <2>2. worker'[w] = m
    BY <1>0, <1>5, <2>1 DEF Becomes
  <2> QED
    BY <1>2, <1>5, <2>2
<1>6. CASE worker' = worker /\ ~Tick
  BY <1>2, <1>6
<1>7. Goal
  BY <1>3, <1>4, <1>5, <1>6 DEF Next, LateHeartbeat, StorageChanges, ApiStep, Submit, Cancel,
     Retry, Reopen, Delete, CancelWorkflow, ResumeWorkflow
<1> QED
  BY <1>7

(* A claim leaves the row with its own token and two ticks or more. *)
LEMMA ClaimIsFresh ==
  ASSUME TypeOK, WorkerShape, Lease >= MaxAge + 2, NEW w \in Worker, CommitClaim(w),
         Running(w)'
  PROVE  LET j == worker'[w].job
         IN  /\ j \in Job /\ worker'[w].token # NoToken /\ worker'[w].ka = "waiting"
             /\ jobs'[j].status = "processing" /\ jobs'[j].token = worker'[w].token
             /\ jobs'[j].ttl >= 2
<1> DEFINE j == worker[w].job
<1>0. j \in Job /\ worker \in [Worker -> WorkerState] /\ jobs \in [Job -> JobRow]
  BY DEF CommitClaim, WorkerShape, Shape, TypeOK
<1>1. ~Stopped(w)
  BY <1>0 DEF Stopped, Becomes, Running, Idle
<1>2. PICK t \in Token, d \in Age :
             /\ jobs' = [jobs EXCEPT ![j] = Start(@, Serves[w], t, d)]
             /\ Becomes(w, Claimed(j, t))
  BY <1>1 DEF CommitClaim
<1>3. jobs'[j] = Start(jobs[j], Serves[w], t, d) /\ worker'[w] = Claimed(j, t)
  BY <1>0, <1>2 DEF Becomes
<1> QED
  BY <1>0, <1>3, TimeAssumption, NullsAssumption DEF Start, Claimed, Age

LEMMA KeptAliveStep ==
  ASSUME Timely, Lease >= MaxAge + 2, Inductive, KeptAlive, [Next]_vars
  PROVE  KeptAlive'
<1>0. /\ TypeOK /\ WorkerShape /\ RowsOK /\ ClaimedRowIsCreated /\ OneOwner
      /\ TypeOK' /\ RowsOK'
  BY NextInductive DEF Inductive, RowsOK
<1> SUFFICES ASSUME NEW w \in Worker
             PROVE  /\ Running(w)' => worker'[w].ka # "off"
                    /\ Healthy(w)' =>
                         /\ Owns(w, worker[w].job)'
                         /\ jobs'[worker'[w].job].ttl
                              >= IF worker'[w].ka = "waiting" THEN 2 ELSE 1
  BY DEF KeptAlive
<1>1. Running(w)' => worker'[w].ka # "off"
  BY <1>0, HealthMoves DEF KeptAlive
<1>2. ASSUME CommitClaim(w), Healthy(w)'
      PROVE  /\ Owns(w, worker[w].job)'
             /\ jobs'[worker'[w].job].ttl >= IF worker'[w].ka = "waiting" THEN 2 ELSE 1
  BY <1>0, <1>2, ClaimIsFresh DEF Healthy, Owns
<1>3. ASSUME ~CommitClaim(w), Healthy(w)'
      PROVE  /\ Owns(w, worker[w].job)'
             /\ jobs'[worker'[w].job].ttl >= IF worker'[w].ka = "waiting" THEN 2 ELSE 1
  <2> DEFINE j == worker[w].job
  <2>1. /\ Healthy(w) /\ worker'[w].job = j /\ worker'[w].token = worker[w].token
        /\ \/ worker'[w].ka = worker[w].ka /\ (Tick => worker[w].ka = "due")
           \/ Tick /\ worker[w].ka = "waiting" /\ worker'[w].ka = "due"
           \/ ~Tick /\ jobs'[j].ttl >= 2
    BY <1>0, <1>3, HealthMoves
  <2>2. /\ j \in Job /\ Owns(w, j)
        /\ jobs[j].ttl >= IF worker[w].ka = "waiting" THEN 2 ELSE 1
    BY <1>0, <2>1 DEF KeptAlive, WorkerShape, Shape, Healthy, Running
  <2>3. jobs[j].status = "processing" /\ jobs[j].token = worker[w].token
        /\ worker[w].token # NoToken
    BY <2>2 DEF Owns
  <2>4. jobs[j].ttl \in Int /\ jobs'[j].ttl \in Int /\ jobs[j].ttl >= 1
        /\ jobs[j] \in JobRow
    BY <1>0, <2>2, TimeAssumption DEF TypeOK, JobRow
  <2>5. jobs'[j].status = "processing"
    <3>1. SUFFICES ASSUME jobs'[j].status # "processing" PROVE FALSE
      OBVIOUS
    <3>2. PICK v \in Worker : LetsGo(v, j)
      BY <2>2, <2>3, <2>4, <3>1, TakeoverStep
    <3>3. v = w
      BY <1>0, <2>3, <3>2 DEF LetsGo, Owns, OneOwner
    <3> QED
      BY <2>1, <3>2, <3>3 DEF LetsGo
  <2>6. jobs'[j].token = jobs[j].token
    BY <1>0, <2>2, <2>3, <2>5, RowMoves
       DEF RowStep, Same, Taken, Marked, Unleased, RowsOK, LaneLease
  <2>7. Owns(w, worker[w].job)'
    BY <2>1, <2>3, <2>5, <2>6 DEF Owns
  <2>8. CASE Tick
    <3>1. worker[w].ka # "due"
      BY <2>1, <2>8 DEF Tick, Overdue, Healthy
    <3>2. worker[w].ka = "waiting" /\ worker'[w].ka = "due"
      BY <2>1, <2>8, <3>1 DEF Healthy
    <3>3. jobs'[j] = Aged(jobs[j])
      BY <2>2, <2>8 DEF Tick
    <3>4. jobs'[j].ttl >= jobs[j].ttl - 1
      BY <2>4, <3>3 DEF Aged, JobRow
    <3> QED
      BY <2>1, <2>2, <2>4, <2>7, <3>2, <3>4
  <2>9. CASE ~Tick
    <3>1. jobs'[j].ttl = jobs[j].ttl \/ jobs'[j].ttl >= 2
      BY <1>0, <2>2, <2>3, <2>5, <2>9, TimeLeft
    <3> QED
      BY <2>1, <2>2, <2>4, <2>7, <2>9, <3>1
  <2> QED
    BY <2>8, <2>9
<1> QED
  BY <1>1, <1>2, <1>3

(* Two processes run the handler of one job only if the keepalive of one   *)
(* of them ended: as long as no process is late a whole tick with a lease  *)
(* of its own, and a lease outlives the oldest clock reading by two ticks, *)
(* a running handler with a working keepalive thread owns its row.         *)
THEOREM HandlersAreExclusive ==
  ASSUME Timely, Lease >= MaxAge + 2
  PROVE  Spec => []HandlersExclusive
<1>1. Init => KeptAlive
  <2>1. ASSUME Init PROVE \A w \in Worker : worker[w].pc = "idle"
    BY <2>1 DEF Init, Idle
  <2> QED
    BY <2>1 DEF KeptAlive, Healthy, Running
<1>2. Inductive /\ KeptAlive /\ [Next]_vars => KeptAlive'
  BY KeptAliveStep
<1>3. Inductive /\ KeptAlive => HandlersExclusive
  <2>1. SUFFICES ASSUME OneOwner, TypeOK, KeptAlive, NEW v \in Worker, NEW w \in Worker,
                        v # w, Healthy(v), Healthy(w), worker[v].job = worker[w].job
                 PROVE  FALSE
    BY DEF HandlersExclusive, Healthy, KeptAlive, Inductive, TypeOK, WorkerState
  <2> QED
    BY <2>1 DEF KeptAlive, Owns, OneOwner
<1> QED
  BY <1>1, <1>2, <1>3, InductiveInvariant, PTL DEF Spec

-----------------------------------------------------------------------------
(* Results.  Between the end of a handler and the write of its result no   *)
(* tick passes, so that a lease that was kept alive is still there.        *)

Owned(w) == Owns(w, worker[w].job) /\ jobs[worker[w].job].ttl >= 1

InHand ==
    \A w \in Worker :
      /\ worker[w].pc = "finish" => Owned(w)
      /\ faults = 0 /\ worker[w].pc = "failing" => Owned(w)
      /\ faults = 0 /\ Running(w) => Healthy(w)

LEMMA OwnedHolds ==
  ASSUME TypeOK, WorkerShape, NEW w \in Worker, Owned(w)
  PROVE  \A d \in Age : Holds(w, d)
<1>1. worker[w].job \in Job
  BY NullsAssumption DEF Owned, Owns, TypeOK, WorkerState, WorkerShape, Shape
<1>2. jobs[worker[w].job].ttl \in Int
  BY <1>1, TimeAssumption DEF TypeOK, JobRow
<1> QED
  BY <1>2 DEF Owned, Owns, Holds, Leased, Age

(* An owner that keeps its token, without a tick, keeps its row. *)
LEMMA StaysOwned ==
  ASSUME Inductive, Lease >= MaxAge + 2, [Next]_vars, ~Tick, NEW w \in Worker, Owned(w),
         worker'[w].job = worker[w].job, worker'[w].token = worker[w].token
  PROVE  Owned(w)'
<1> DEFINE j == worker[w].job
<1>0. /\ TypeOK /\ WorkerShape /\ RowsOK /\ ClaimedRowIsCreated /\ OneOwner
      /\ TypeOK' /\ RowsOK'
  BY NextInductive DEF Inductive, RowsOK
<1>1. j \in Job
  BY <1>0 DEF Owned, Owns, TypeOK, WorkerState, WorkerShape, Shape
<1>2. /\ jobs[j].status = "processing" /\ jobs[j].token = worker[w].token
      /\ worker[w].token # NoToken
  BY DEF Owned, Owns
<1>3. jobs[j].ttl \in Int /\ jobs'[j].ttl \in Int /\ jobs[j].ttl >= 1
  BY <1>0, <1>1, TimeAssumption DEF TypeOK, JobRow, Owned
<1>4. jobs'[j].status = "processing"
  <2>1. SUFFICES ASSUME jobs'[j].status # "processing" PROVE FALSE
    OBVIOUS
  <2>2. PICK v \in Worker : LetsGo(v, j)
    BY <1>1, <1>2, <1>3, <2>1, TakeoverStep
  <2>3. v = w
    BY <1>0, <1>2, <2>2 DEF LetsGo, Owns, OneOwner
  <2> QED
    BY <2>2, <2>3 DEF LetsGo
<1>5. jobs'[j].token = jobs[j].token
  BY <1>0, <1>1, <1>2, <1>4, RowMoves
     DEF RowStep, Same, Taken, Marked, Unleased, RowsOK, LaneLease
<1>6. jobs'[j].ttl = jobs[j].ttl \/ jobs'[j].ttl >= 2
  BY <1>0, <1>1, <1>2, <1>4, TimeLeft
<1> QED
  BY <1>2, <1>3, <1>4, <1>5, <1>6 DEF Owned, Owns

(* How a memory comes to settle its job, and how a keepalive ends. *)
LEMMA SettlingMoves ==
  ASSUME TypeOK, WorkerShape, KeptAlive, [Next]_vars, ~Tick, NEW w \in Worker
  PROVE  /\ worker'[w].pc \in {"finish", "failing"} =>
               /\ worker[w].pc \in {"run", "finish", "failing"}
               /\ worker'[w].job = worker[w].job /\ worker'[w].token = worker[w].token
         /\ worker'[w].pc = "finish" => worker[w].pc = "finish" \/ Healthy(w)
         /\ Running(w)' /\ ~Healthy(w)' =>
               /\ Running(w)
               /\ \/ ~Healthy(w)
                  \/ faults' > 0
                  \/ \E d \in Age : ~Holds(w, d)
         /\ worker[w].pc # "dead" /\ worker'[w].pc = "dead" =>
               \/ faults' > 0
               \/ worker[w].pc = "failing" /\ \E d \in Age : ~Holds(w, d)
<1> DEFINE m == worker[w]
           Goal == /\ worker'[w].pc \in {"finish", "failing"} =>
                        /\ m.pc \in {"run", "finish", "failing"}
                        /\ worker'[w].job = m.job /\ worker'[w].token = m.token
                   /\ worker'[w].pc = "finish" => m.pc = "finish" \/ Healthy(w)
                   /\ Running(w)' /\ ~Healthy(w)' =>
                        /\ Running(w)
                        /\ ~Healthy(w) \/ faults' > 0 \/ \E d \in Age : ~Holds(w, d)
                   /\ m.pc # "dead" /\ worker'[w].pc = "dead" =>
                        \/ faults' > 0
                        \/ m.pc = "failing" /\ \E d \in Age : ~Holds(w, d)
<1>0. m \in WorkerState /\ worker \in [Worker -> WorkerState] /\ faults \in Nat
  BY KindAssumption DEF TypeOK
<1>1. ASSUME worker'[w].pc = m.pc, worker'[w].ka = m.ka, worker'[w].job = m.job,
             worker'[w].token = m.token
      PROVE  Goal
  BY <1>1 DEF Running, Healthy
<1>2. worker'[w].pc \in {"idle", "scan", "try", "start"} => Goal
  BY DEF Running
<1>3. worker'[w].pc = "run" /\ worker'[w].ka = "waiting" => Goal
  BY DEF Running, Healthy
<1>4. ASSUME WorkerStep(w) PROVE Goal
  <2>1. CASE Recover(w) \/ Scan(w) \/ TryCandidate(w) \/ WaitForReview(w) \/ DeferForStorage(w)
             \/ AwaitChild(w) \/ Restart(w)
    <3>1. \/ worker'[w] = Idle
          \/ \E j : worker'[w] = [Idle EXCEPT !.pc = "start", !.job = j]
          \/ worker'[w] = [m EXCEPT !.pc = "scan"]
          \/ \E S : worker'[w] = [m EXCEPT !.pc = "try", !.cands = S]
          \/ m.pc = "try" /\ \E S : worker'[w] = [m EXCEPT !.cands = S]
      BY <1>0, <2>1 DEF Recover, Scan, TryCandidate, WaitForReview, DeferForStorage, AwaitChild,
         Restart, Skip, Stopped, Becomes
    <3>2. /\ Idle.pc = "idle" /\ [m EXCEPT !.pc = "scan"].pc = "scan"
          /\ \A j : [Idle EXCEPT !.pc = "start", !.job = j].pc = "start"
          /\ \A S : [m EXCEPT !.pc = "try", !.cands = S].pc = "try"
          /\ \A S : [m EXCEPT !.cands = S].pc = m.pc
      BY <1>0 DEF Idle, WorkerState
    <3>3. worker'[w].pc \in {"idle", "scan", "try", "start"}
      <4> DEFINE x == worker'[w]
      <4>1. CASE x = Idle \/ x = [m EXCEPT !.pc = "scan"]
        BY <3>2, <4>1
      <4>2. CASE \E j : x = [Idle EXCEPT !.pc = "start", !.job = j]
        BY <3>2, <4>2
      <4>3. CASE \E S : x = [m EXCEPT !.pc = "try", !.cands = S]
        BY <3>2, <4>3
      <4>4. CASE m.pc = "try" /\ \E S : x = [m EXCEPT !.cands = S]
        BY <3>2, <4>4
      <4> QED
        BY <3>1, <4>1, <4>2, <4>3, <4>4
    <3> QED
      BY <1>2, <3>3
  <2>2. CASE CommitClaim(w)
    <3>1. worker'[w] = Idle \/ \E j, t : worker'[w] = Claimed(j, t)
      BY <1>0, <2>2 DEF CommitClaim, Stopped, Becomes
    <3>2. Idle.pc = "idle" /\ \A j, t : Claimed(j, t).pc = "run" /\ Claimed(j, t).ka = "waiting"
      BY DEF Idle, Claimed
    <3> QED
      BY <1>2, <1>3, <3>1, <3>2
  <2>3. CASE CheckpointStep(w)
    <3>1. \/ worker'[w] = Idle
          \/ \E n : worker'[w] = [m EXCEPT !.done = n, !.touched = TRUE]
      BY <1>0, <2>3 DEF CheckpointStep, Stopped, Becomes
    <3>2. CASE worker'[w] = Idle
      BY <1>2, <3>2 DEF Idle
    <3>3. CASE \E n : worker'[w] = [m EXCEPT !.done = n, !.touched = TRUE]
      <4>1. /\ worker'[w].pc = m.pc /\ worker'[w].ka = m.ka /\ worker'[w].job = m.job
            /\ worker'[w].token = m.token
        BY <1>0, <3>3 DEF WorkerState
      <4> QED
        BY <1>1, <4>1
    <3> QED
      BY <3>1, <3>2, <3>3
  <2>4. CASE LeaseRefused(w) \/ HandlerRaises(w)
    <3>1. m.pc = "run" /\ \/ worker'[w] = Idle
                          \/ worker'[w] = [m EXCEPT !.pc = "failing", !.ka = "off"]
      BY <1>0, <2>4 DEF LeaseRefused, HandlerRaises, Running, Stopped, Becomes
    <3>2. CASE worker'[w] = Idle
      BY <1>2, <3>2 DEF Idle
    <3>3. CASE worker'[w] = [m EXCEPT !.pc = "failing", !.ka = "off"]
      <4>1. /\ worker'[w].pc = "failing" /\ worker'[w].job = m.job
            /\ worker'[w].token = m.token
        BY <1>0, <3>3 DEF WorkerState
      <4> QED
        BY <3>1, <4>1 DEF Running
    <3> QED
      BY <3>1, <3>2, <3>3
  <2>5. CASE HandlerReturns(w)
    <3>1. m.pc = "run" /\ m.ka # "off"
      BY <2>5 DEF HandlerReturns, KeptAlive, Running
    <3>2. \/ worker'[w] = Idle
          \/ worker'[w] = [m EXCEPT !.pc = "failing", !.ka = "off"]
          \/ /\ m.ka \notin {"lost", "error"}
             /\ worker'[w] = [m EXCEPT !.pc = "finish", !.ka = "off"]
      BY <1>0, <2>5 DEF HandlerReturns, Stopped, Becomes
    <3>3. CASE worker'[w] = Idle
      BY <1>2, <3>3 DEF Idle
    <3>4. CASE worker'[w] # Idle
      <4>1. /\ worker'[w].pc \in {"finish", "failing"} /\ worker'[w].job = m.job
            /\ worker'[w].token = m.token
        BY <1>0, <3>2, <3>4 DEF WorkerState
      <4>2. worker'[w].pc = "finish" => m.ka \in {"waiting", "due"}
        BY <1>0, <3>1, <3>2, <3>4 DEF WorkerState
      <4> QED
        BY <3>1, <4>1, <4>2 DEF Running, Healthy
    <3> QED
      BY <3>3, <3>4
  <2>6. CASE Finish(w)
    <3>1. m.pc = "finish" /\ (worker'[w] = Idle \/ worker'[w] = [m EXCEPT !.pc = "failing"])
      BY <1>0, <2>6 DEF Finish, Stopped, Becomes
    <3>2. CASE worker'[w] = Idle
      BY <1>2, <3>2 DEF Idle
    <3>3. CASE worker'[w] = [m EXCEPT !.pc = "failing"]
      <4>1. /\ worker'[w].pc = "failing" /\ worker'[w].job = m.job
            /\ worker'[w].token = m.token
        BY <1>0, <3>3 DEF WorkerState
      <4> QED
        BY <3>1, <4>1 DEF Running
    <3> QED
      BY <3>1, <3>2, <3>3
  <2>7. CASE FailRun(w)
    <3>1. m.pc = "failing" /\ \/ worker'[w] = Idle
                              \/ /\ \E d \in Age : ~Holds(w, d)
                                 /\ worker'[w] = [Idle EXCEPT !.pc = "dead"]
      BY <1>0, <2>7 DEF FailRun, Stopped, Dead, Becomes
    <3>2. CASE worker'[w] = Idle
      BY <1>2, <3>2 DEF Idle
    <3>3. CASE worker'[w] = [Idle EXCEPT !.pc = "dead"]
      BY <3>1, <3>3 DEF Idle, Running
    <3> QED
      BY <3>1, <3>2, <3>3
  <2>8. CASE Heartbeat(w)
    <3>1. m.pc = "run" /\ m.ka = "due"
      BY <2>8 DEF Heartbeat, Running
    <3>2. \/ worker'[w] = [m EXCEPT !.ka = "waiting"]
          \/ /\ \E d \in Age : ~Holds(w, d)
             /\ \E k \in {"error", "lost"} : worker'[w] = [m EXCEPT !.ka = k]
      BY <1>0, <2>8 DEF Heartbeat, Becomes
    <3>3. worker'[w].pc = "run"
      BY <1>0, <3>1, <3>2 DEF WorkerState
    <3>4. worker'[w].ka = "waiting" \/ \E d \in Age : ~Holds(w, d)
      BY <1>0, <3>2 DEF WorkerState
    <3> QED
      BY <1>3, <3>1, <3>3, <3>4 DEF Running
  <2>9. CASE HeartbeatErrs(w) \/ Crash(w)
    <3>1. faults' > 0
      BY <1>0, <2>9 DEF HeartbeatErrs, Crash
    <3>2. \/ m.pc = "run" /\ worker'[w] = [m EXCEPT !.ka = "error"]
          \/ worker'[w] = [Idle EXCEPT !.pc = "dead"]
      BY <1>0, <2>9 DEF HeartbeatErrs, Crash, Dead, Becomes, Running
    <3>3. (m.pc = "run" /\ worker'[w].pc = "run") \/ worker'[w].pc = "dead"
      BY <1>0, <3>2 DEF WorkerState, Idle
    <3> QED
      BY <3>1, <3>3 DEF Running
  <2>10. CASE CreateChild(w)
    BY <1>1, <2>10 DEF CreateChild
  <2> QED
    BY <1>4, <2>1, <2>2, <2>3, <2>4, <2>5, <2>6, <2>7, <2>8, <2>9, <2>10
       DEF WorkerStep, ClaimStep, HandlerStep, KeepaliveStep
<1>5. ASSUME NEW v \in Worker, WorkerStep(v), v # w PROVE Goal
  <2>1. worker' = worker \/ \E x : Becomes(v, x)
    BY <1>5 DEF WorkerStep, ClaimStep, HandlerStep, KeepaliveStep, Recover, Scan, CommitClaim,
       CheckpointStep,
       TryCandidate, LeaseRefused, WaitForReview, DeferForStorage, CreateChild, AwaitChild,
       HandlerReturns, HandlerRaises, Finish, FailRun, Heartbeat, HeartbeatErrs, Crash,
       Restart, Skip, Stopped, Dead
  <2>2. worker'[w] = m
    BY <1>0, <1>5, <2>1 DEF Becomes
  <2> QED
    BY <1>1, <2>2
<1>6. CASE worker' = worker
  BY <1>1, <1>6
<1>7. Goal
  BY <1>4, <1>5, <1>6 DEF Next, LateHeartbeat, StorageChanges, ApiStep, Submit, Cancel, Retry,
     Reopen, Delete, CancelWorkflow, ResumeWorkflow
<1> QED
  BY <1>7

LEMMA FaultsGrow ==
  ASSUME TypeOK, [Next]_vars
  PROVE  faults' \in {faults, faults + 1}
<1>1. ASSUME NEW w \in Worker, WorkerStep(w) PROVE faults' \in {faults, faults + 1}
  <2>1. CASE HeartbeatErrs(w) \/ Crash(w)
    BY <2>1 DEF HeartbeatErrs, Crash
  <2>2. CASE ClaimStep(w)
    BY <2>2, Zenon DEF ClaimStep, Recover, Scan, CommitClaim, TryCandidate
  <2>3. CASE HandlerStep(w)
    BY <2>3, Zenon DEF HandlerStep, CheckpointStep, LeaseRefused, WaitForReview, DeferForStorage,
       CreateChild, AwaitChild, HandlerReturns, HandlerRaises, Finish, FailRun
  <2>4. CASE Heartbeat(w) \/ Restart(w)
    BY <2>4, Zenon DEF Heartbeat, Restart
  <2> QED
    BY <1>1, <2>1, <2>2, <2>3, <2>4 DEF WorkerStep, KeepaliveStep
<1>2. CASE UNCHANGED vars
  BY <1>2
<1>3. CASE \/ \E p \in late : LateHeartbeat(p)
           \/ Tick \/ StorageChanges \/ \E j \in Job : ApiStep(j)
  BY <1>3, Zenon DEF LateHeartbeat, Tick, StorageChanges, ApiStep, Submit, Cancel, Retry,
     Reopen, Delete, CancelWorkflow, ResumeWorkflow
<1> QED
  BY <1>1, <1>2, <1>3 DEF Next

LEMMA InHandStep ==
  ASSUME Timely, Lease >= MaxAge + 2, Inductive, KeptAlive, InHand, [Next]_vars
  PROVE  InHand'
<1>0. TypeOK /\ WorkerShape /\ faults \in Nat /\ faults' \in Nat
  BY NextInductive, KindAssumption DEF Inductive, TypeOK
<1>1. faults' = 0 => faults = 0
  BY <1>0, FaultsGrow
<1> SUFFICES ASSUME NEW w \in Worker
             PROVE  /\ worker'[w].pc = "finish" => Owned(w)'
                    /\ faults' = 0 /\ worker'[w].pc = "failing" => Owned(w)'
                    /\ faults' = 0 /\ Running(w)' => Healthy(w)'
  BY DEF InHand
<1>2. Healthy(w) => Owned(w)
  <2>1. Healthy(w) => worker[w].job \in Job
    BY <1>0 DEF WorkerShape, Shape, Healthy, Running
  <2>2. Healthy(w) => jobs[worker[w].job].ttl \in Int
    BY <1>0, <2>1, TimeAssumption DEF TypeOK, JobRow
  <2> QED
    BY <2>2 DEF KeptAlive, Owned
<1>3. CASE Tick
  <2>1. worker[w] \in WorkerState /\ worker[w].pc \notin {"finish", "failing"}
    BY <1>0, <1>3 DEF Tick, Overdue, TypeOK
  <2>2. worker'[w] = IF Running(w) /\ worker[w].ka = "waiting"
                     THEN [worker[w] EXCEPT !.ka = "due"] ELSE worker[w]
    BY <1>3 DEF Tick
  <2>3. CASE Running(w) /\ worker[w].ka = "waiting"
    <3>1. worker'[w].pc = worker[w].pc /\ worker'[w].ka = "due"
      BY <2>1, <2>2, <2>3 DEF WorkerState
    <3> QED
      BY <2>1, <3>1 DEF Healthy, Running
  <2>4. CASE worker'[w] = worker[w]
    BY <1>1, <2>1, <2>4 DEF InHand, Healthy, Running
  <2> QED
    BY <2>2, <2>3, <2>4
<1>4. CASE ~Tick
  <2>1. Owned(w) /\ worker'[w].pc \in {"finish", "failing"} => Owned(w)'
    BY <1>0, <1>4, SettlingMoves, StaysOwned
  <2>2. worker'[w].pc = "finish" => Owned(w)
    BY <1>0, <1>2, <1>4, SettlingMoves DEF InHand
  <2>3. faults' = 0 /\ worker'[w].pc = "failing" => Owned(w)
    BY <1>0, <1>1, <1>2, <1>4, SettlingMoves DEF InHand, Running
  <2>4. faults' = 0 /\ Running(w)' => Healthy(w)'
    BY <1>0, <1>1, <1>2, <1>4, SettlingMoves, OwnedHolds DEF InHand
  <2> QED
    BY <2>1, <2>2, <2>3, <2>4
<1> QED
  BY <1>3, <1>4

LEMMA InitInHand == Init => KeptAlive /\ InHand
<1>1. ASSUME Init PROVE \A w \in Worker : worker[w].pc = "idle"
  BY <1>1 DEF Init, Idle
<1> QED
  BY <1>1 DEF KeptAlive, InHand, Healthy, Running

(* As long as no process is late a whole tick with a lease of its own, a   *)
(* worker that goes on to complete holds its lease for every reading of    *)
(* the clock: keepalive.stop() hands run_once the error of a heartbeat     *)
(* that failed, and nobody else works in vain.                             *)
THEOREM ResultsAreKept ==
  ASSUME Timely, Lease >= MaxAge + 2
  PROVE  Spec => []ResultsAreAccepted
<1>1. Init => KeptAlive /\ InHand
  BY InitInHand
<1>2. Inductive /\ KeptAlive /\ InHand /\ [Next]_vars => KeptAlive' /\ InHand'
  BY KeptAliveStep, InHandStep
<1>3. Inductive /\ InHand => ResultsAreAccepted
  BY OwnedHolds DEF InHand, ResultsAreAccepted, Inductive
<1> QED
  BY <1>1, <1>2, <1>3, InductiveInvariant, PTL DEF Spec

(* Under the same timing no job ends the process of its worker: a conflict *)
(* of fail that run_once raises again needs a row that left processing     *)
(* under its run, and that needs a heartbeat that failed before.           *)
THEOREM ProcessesEndAfterFaults ==
  ASSUME Timely, Lease >= MaxAge + 2
  PROVE  Spec => EndsOnlyAfterFault
<1>1. Init => KeptAlive /\ InHand
  BY InitInHand
<1>2. Inductive /\ KeptAlive /\ InHand /\ [Next]_vars => KeptAlive' /\ InHand'
  BY KeptAliveStep, InHandStep
<1>3. Inductive /\ KeptAlive /\ InHand /\ [Next]_vars =>
        [\A w \in Worker :
           worker[w].pc # "dead" /\ worker'[w].pc = "dead" => faults' > 0]_vars
  <2> SUFFICES ASSUME Inductive, KeptAlive, InHand, [Next]_vars, NEW w \in Worker,
                      worker[w].pc # "dead", worker'[w].pc = "dead"
               PROVE  faults' > 0
    OBVIOUS
  <2>1. TypeOK /\ WorkerShape /\ faults \in Nat /\ faults' \in Nat /\ worker[w] \in WorkerState
    BY NextInductive, KindAssumption DEF Inductive, TypeOK
  <2>2. ~Tick
    BY <2>1 DEF Tick, WorkerState
  <2>3. faults' > 0 \/ (worker[w].pc = "failing" /\ \E d \in Age : ~Holds(w, d))
    BY <2>1, <2>2, SettlingMoves
  <2>4. faults = 0 /\ worker[w].pc = "failing" => Owned(w)
    BY DEF InHand
  <2>5. faults = 0 => faults' > 0
    BY <2>1, <2>3, <2>4, OwnedHolds
  <2>6. faults > 0 => faults' > 0
    BY <2>1, FaultsGrow
  <2> QED
    BY <2>1, <2>5, <2>6
<1> QED
  BY <1>1, <1>2, <1>3, InductiveInvariant, PTL DEF Spec, EndsOnlyAfterFault

=============================================================================
