----------------------------- MODULE WorkerLane -----------------------------
(***************************************************************************)
(* The health record of one worker lane: the row of worker_lane_runtime,   *)
(* the worker processes (instances) that register in it and keep it fresh,  *)
(* the launcher that kills them, and the state the API shows.              *)
(*                                                                         *)
(* Sources: services/worker/.../jobs/lane_runtime.py,                      *)
(* services/api/.../storage/worker_lane_repository.py,                     *)
(* services/api/.../application/worker_lanes.py.                           *)
(*                                                                         *)
(* A call reads the clock, and commits up to MaxDelay ticks later.  age is  *)
(* the number of ticks since heartbeat_at.                                 *)
(***************************************************************************)
EXTENDS Integers

CONSTANTS Instance,       \* instance tokens: one per launched process
          NoInstance,     \* no row was written yet
          Interval,       \* heartbeat interval, in ticks
          DegradedAfter, StoppedAfter,
          MaxDelay,       \* bound: ticks between a clock reading and its commit
          MaxFaults       \* bound: heartbeat calls that fail

ASSUME InstanceAssumption == NoInstance \notin Instance
ASSUME TimeAssumption ==
    /\ Interval \in Nat \ {0} /\ MaxDelay \in Nat /\ MaxFaults \in Nat
    /\ DegradedAfter \in Nat /\ StoppedAfter \in Nat
    /\ Interval + 2 * MaxDelay <= DegradedAfter /\ DegradedAfter < StoppedAfter

VARIABLES lane,    \* the row: instance_token, ticks since heartbeat_at, stopped_at
          pc,      \* [Instance -> life of the process]
          beat,    \* [Instance -> its heartbeat thread]
          faults

vars == <<lane, pc, beat, faults>>

(* Past this age nothing tells two heartbeats apart. *)
MaxAge == StoppedAfter + 1

Row == [token : Instance \cup {NoInstance}, age : 0 .. MaxAge, stopped : BOOLEAN]

(* at counts the ticks of the wait, or those since the open call's reading. *)
Thread == [st : {"off", "wait", "call"}, at : 0 .. Interval + MaxDelay]

NoThread == [st |-> "off", at |-> 0]

Waiting == [st |-> "wait", at |-> 0]

Init ==
    /\ lane = [token |-> NoInstance, age |-> 0, stopped |-> FALSE]
    /\ pc = [p \in Instance |-> "new"]
    /\ beat = [p \in Instance |-> NoThread]
    /\ faults = 0

-----------------------------------------------------------------------------
(* The statements of the repository. *)

(* The WHERE clauses of the UPDATEs, the instance_token being p. *)

(* Mutant: stopped_at IS NULL is forgotten. *)
BeatMatchesStopped(p) == lane.token = p

BeatMatches(p) == lane.token = p /\ ~lane.stopped

(* Mutant: any instance may stop the lane. *)
AnyStopMatches(p) == p \in Instance

StopMatches(p) == lane.token = p

(* The stop statement as a whole, its clock read up to MaxDelay ticks ago. *)
StopCall(p) ==
    \E d \in 0 .. MaxDelay :
      lane' = IF StopMatches(p)
              THEN [token |-> lane.token, age |-> d, stopped |-> TRUE] ELSE lane

-----------------------------------------------------------------------------
(* An instance. *)

Launch(p) ==
    /\ pc[p] = "new"
    /\ pc' = [pc EXCEPT ![p] = "starting"]
    /\ UNCHANGED <<lane, beat, faults>>

(* Mutant: the upsert leaves heartbeat_at of a row that exists as it is. *)
RegisterKeepsHeartbeat(p) ==
    /\ pc[p] = "starting"
    /\ lane' = [token |-> p, age |-> lane.age, stopped |-> FALSE]
    /\ pc' = [pc EXCEPT ![p] = "up"]
    /\ beat' = [beat EXCEPT ![p] = Waiting]
    /\ UNCHANGED faults

(* start: the upsert takes the lane from whoever held it. *)
Register(p) ==
    /\ pc[p] = "starting"
    /\ \E d \in 0 .. MaxDelay : lane' = [token |-> p, age |-> d, stopped |-> FALSE]
    /\ pc' = [pc EXCEPT ![p] = "up"]
    /\ beat' = [beat EXCEPT ![p] = Waiting]
    /\ UNCHANGED faults

BeatReads(p) ==
    /\ pc[p] = "up" /\ beat[p].st = "wait" /\ beat[p].at = Interval
    /\ beat' = [beat EXCEPT ![p] = [st |-> "call", at |-> 0]]
    /\ UNCHANGED <<lane, pc, faults>>

(* A stop or the death of the process ends the thread after its open call. *)
NextWait(p) == IF pc[p] = "up" THEN Waiting ELSE NoThread

(* The UPDATE matches, or the instance was fenced and its thread returns.  *)
BeatCommits(p) ==
    /\ beat[p].st = "call"
    /\ IF BeatMatches(p)
       THEN /\ lane' = [lane EXCEPT !.age = beat[p].at]
            /\ beat' = [beat EXCEPT ![p] = NextWait(p)]
       ELSE /\ beat' = [beat EXCEPT ![p] = NoThread]
            /\ UNCHANGED lane
    /\ UNCHANGED <<pc, faults>>

(* The exception is logged and the loop goes on. *)
BeatFails(p) ==
    /\ beat[p].st = "call" /\ faults < MaxFaults
    /\ faults' = faults + 1
    /\ beat' = [beat EXCEPT ![p] = NextWait(p)]
    /\ UNCHANGED <<lane, pc>>

(* stop: a waiting thread ends at once, one in its call may outlive the join. *)
StopRequested(p) ==
    /\ pc[p] = "up"
    /\ pc' = [pc EXCEPT ![p] = "stopping"]
    /\ beat' = [beat EXCEPT ![p] = IF @.st = "call" THEN @ ELSE NoThread]
    /\ UNCHANGED <<lane, faults>>

StopCommits(p) ==
    /\ pc[p] = "stopping"
    /\ \/ UNCHANGED lane     \* the exception is logged
       \/ StopCall(p)
    /\ pc' = [pc EXCEPT ![p] = "gone"]
    /\ UNCHANGED <<beat, faults>>

(* The process dies; a call it had sent may still commit. *)
Die(p) ==
    /\ pc[p] \in {"starting", "up", "stopping"}
    /\ pc' = [pc EXCEPT ![p] = "gone"]
    /\ beat' = [beat EXCEPT ![p] = IF @.st = "call" THEN @ ELSE NoThread]
    /\ UNCHANGED <<lane, faults>>

(* --mark-lane-stopped: the launcher, for the process it has just ended. *)
MarkStopped(p) ==
    /\ pc[p] = "gone"
    /\ StopCall(p)
    /\ UNCHANGED <<pc, beat, faults>>

(* No call takes longer than MaxDelay, and no thread oversleeps. *)
OnTime(p) ==
    /\ beat[p].st = "call" => beat[p].at < MaxDelay
    /\ beat[p].st = "wait" => beat[p].at < Interval

Tick ==
    /\ \A p \in Instance : OnTime(p)
    /\ lane' = [lane EXCEPT !.age = IF @ < MaxAge THEN @ + 1 ELSE @]
    /\ beat' = [p \in Instance |->
                  IF beat[p].st = "off" THEN beat[p] ELSE [beat[p] EXCEPT !.at = @ + 1]]
    /\ UNCHANGED <<pc, faults>>

-----------------------------------------------------------------------------
(* WorkerLaneStatusService._status *)

(* Mutants: a lane is never given up; the threshold is one interval. *)
StatusNeverStopped ==
    IF lane.token = NoInstance \/ lane.stopped THEN "stopped"
    ELSE IF lane.age <= DegradedAfter THEN "running" ELSE "degraded"

StatusOfOneInterval ==
    IF lane.token = NoInstance \/ lane.stopped THEN "stopped"
    ELSE IF lane.age <= Interval THEN "running" ELSE "degraded"

Status ==
    IF lane.token = NoInstance \/ lane.stopped THEN "stopped"
    ELSE IF lane.age <= DegradedAfter THEN "running"
    ELSE IF lane.age <= StoppedAfter THEN "degraded" ELSE "stopped"

-----------------------------------------------------------------------------
BeatStep(p) == BeatReads(p) \/ BeatCommits(p) \/ BeatFails(p)

Next ==
    \/ \E p \in Instance :
         \/ Launch(p)
         \/ Register(p)
         \/ BeatStep(p)
         \/ StopRequested(p)
         \/ StopCommits(p)
         \/ Die(p)
         \/ MarkStopped(p)
    \/ Tick

Spec == Init /\ [][Next]_vars

(* Time passes and calls end; nobody has to launch, stop or kill a process. *)
FairSpec == Spec /\ WF_vars(Tick) /\ \A p \in Instance : WF_vars(BeatStep(p))

-----------------------------------------------------------------------------
(* Properties. *)

TypeOK ==
    /\ lane \in Row
    /\ pc \in [Instance -> {"new", "starting", "up", "stopping", "gone"}]
    /\ beat \in [Instance -> Thread]
    /\ faults \in 0 .. MaxFaults

Ended(p) == pc[p] \in {"stopping", "gone"}

(* A lane is marked stopped only after the end of the instance that holds  *)
(* it: the shutdown of a superseded process, however late, and the mark of *)
(* a launcher leave its successor alone.                                   *)
StoppedByItsOwn == lane.stopped => lane.token \in Instance /\ Ended(lane.token)

(* A process that holds the lane, beats, and has not failed to, is shown as *)
(* running, however slow its calls are within MaxDelay.                    *)
HealthyIsRunning ==
    \A p \in Instance :
      lane.token = p /\ pc[p] = "up" /\ faults = 0 => Status = "running"

(* A lane whose process died is not shown as running for ever, whether or  *)
(* not the launcher could mark it.                                         *)
DeadIsReported ==
    \A p \in Instance :
      lane.token = p /\ pc[p] = "gone" ~> Status = "stopped" \/ lane.token # p

(* Once a lane is stopped, a heartbeat still in flight does not make the   *)
(* stopped process look younger: only another stop call, or a registration, *)
(* moves heartbeat_at.                                                     *)
StoppedKeepsItsHeartbeat ==
    [][lane.stopped /\ lane'.token = lane.token /\ lane'.age < lane.age
       => beat' = beat]_vars

(* What makes HealthyIsRunning inductive: the age of the last heartbeat is *)
(* bounded by the progress of the thread that will send the next one.      *)
Fresh ==
    \A p \in Instance :
      lane.token = p /\ pc[p] = "up" /\ faults = 0 =>
        \/ beat[p].st = "wait" /\ beat[p].at <= Interval
              /\ lane.age <= MaxDelay + beat[p].at
        \/ beat[p].st = "call" /\ beat[p].at <= MaxDelay
              /\ lane.age <= MaxDelay + Interval + beat[p].at

Inductive == TypeOK /\ StoppedByItsOwn /\ Fresh
=============================================================================
