-------------------------- MODULE WorkerLane_proofs -------------------------
EXTENDS WorkerLane, TLAPS

USE DEF vars

LEMMA InitInductive == Init => Inductive
  BY InstanceAssumption, TimeAssumption
     DEF Init, Inductive, TypeOK, StoppedByItsOwn, Fresh, Row, Thread, NoThread, MaxAge

LEMMA TypeStep ==
  ASSUME TypeOK, [Next]_vars
  PROVE  TypeOK'
<1> USE TimeAssumption DEF TypeOK, Row, Thread, MaxAge, Waiting, NoThread, NextWait, StopCall
<1>1. ASSUME NEW p \in Instance, Launch(p) PROVE TypeOK'
  BY <1>1 DEF Launch
<1>2. ASSUME NEW p \in Instance, Register(p) PROVE TypeOK'
  BY <1>2 DEF Register
<1>3. ASSUME NEW p \in Instance, BeatReads(p) PROVE TypeOK'
  BY <1>3 DEF BeatReads
<1>4. ASSUME NEW p \in Instance, BeatCommits(p) PROVE TypeOK'
  BY <1>4 DEF BeatCommits
<1>5. ASSUME NEW p \in Instance, BeatFails(p) PROVE TypeOK'
  BY <1>5 DEF BeatFails
<1>6. ASSUME NEW p \in Instance, StopRequested(p) PROVE TypeOK'
  BY <1>6 DEF StopRequested
<1>7. ASSUME NEW p \in Instance, StopCommits(p) PROVE TypeOK'
  <2>1. lane' \in Row
    <3>1. CASE UNCHANGED lane
      BY <3>1
    <3>2. CASE StopCall(p)
      BY <3>2
    <3> QED
      BY <1>7, <3>1, <3>2 DEF StopCommits
  <2>2. pc' \in [Instance -> {"new", "starting", "up", "stopping", "gone"}]
    BY <1>7 DEF StopCommits
  <2> QED
    BY <1>7, <2>1, <2>2 DEF StopCommits
<1>8. ASSUME NEW p \in Instance, Die(p) PROVE TypeOK'
  BY <1>8 DEF Die
<1>9. ASSUME NEW p \in Instance, MarkStopped(p) PROVE TypeOK'
  BY <1>9 DEF MarkStopped
<1>10. CASE Tick
  <2>1. lane' \in Row
    BY <1>10 DEF Tick
  <2>2. ASSUME NEW p \in Instance PROVE beat'[p] \in Thread
    BY <1>10 DEF Tick, OnTime
  <2> QED
    BY <1>10, <2>1, <2>2 DEF Tick
<1>11. CASE UNCHANGED vars
  BY <1>11
<1> QED
  BY <1>1, <1>2, <1>3, <1>4, <1>5, <1>6, <1>7, <1>8, <1>9, <1>10, <1>11
     DEF Next, BeatStep

LEMMA StoppedStep ==
  ASSUME TypeOK, StoppedByItsOwn, [Next]_vars
  PROVE  StoppedByItsOwn'
<1> USE DEF TypeOK, Row, StoppedByItsOwn, Ended, StopMatches, StopCall
<1>1. ASSUME NEW p \in Instance,
             \/ Launch(p) \/ Register(p) \/ StopRequested(p) \/ Die(p)
      PROVE  StoppedByItsOwn'
  BY <1>1 DEF Launch, Register, StopRequested, Die
<1>2. ASSUME NEW p \in Instance, BeatStep(p) PROVE StoppedByItsOwn'
  BY <1>2 DEF BeatStep, BeatReads, BeatCommits, BeatFails
<1>3. ASSUME NEW p \in Instance, StopCommits(p) \/ MarkStopped(p)
      PROVE  StoppedByItsOwn'
  BY <1>3 DEF StopCommits, MarkStopped
<1>4. CASE Tick
  BY <1>4 DEF Tick
<1> QED
  BY <1>1, <1>2, <1>3, <1>4 DEF Next

LEMMA FreshStep ==
  ASSUME Inductive, [Next]_vars
  PROVE  Fresh'
<1> SUFFICES ASSUME NEW p \in Instance,
                    lane'.token = p, pc'[p] = "up", faults' = 0
             PROVE  \/ /\ beat'[p].st = "wait" /\ beat'[p].at <= Interval
                       /\ lane'.age <= MaxDelay + beat'[p].at
                    \/ /\ beat'[p].st = "call" /\ beat'[p].at <= MaxDelay
                       /\ lane'.age <= MaxDelay + Interval + beat'[p].at
  BY DEF Fresh
<1> USE TimeAssumption DEF Inductive, TypeOK, Row, Thread, Fresh
<1>1. ASSUME NEW q \in Instance, Launch(q) \/ StopRequested(q) \/ Die(q)
      PROVE  q # p /\ lane' = lane /\ pc[p] = "up" /\ beat'[p] = beat[p] /\ faults = 0
  BY <1>1 DEF Launch, StopRequested, Die
<1>2. ASSUME NEW q \in Instance, Register(q)
      PROVE  q = p /\ beat'[p] = Waiting /\ lane'.age \in 0 .. MaxDelay
  BY <1>2 DEF Register
<1>3. ASSUME NEW q \in Instance, StopCommits(q) \/ MarkStopped(q)
      PROVE  lane' = lane /\ pc[p] = "up" /\ beat' = beat /\ faults = 0
  BY <1>3 DEF StopCommits, MarkStopped, StopMatches, StopCall
<1>4. ASSUME NEW q \in Instance, BeatReads(q) PROVE Fresh'
  BY <1>4 DEF BeatReads
<1>5. ASSUME NEW q \in Instance, BeatCommits(q) PROVE Fresh'
  BY <1>5 DEF BeatCommits, BeatMatches, NextWait, Waiting, NoThread, StoppedByItsOwn, Ended
<1>6. ASSUME NEW q \in Instance, BeatFails(q) PROVE FALSE
  BY <1>6 DEF BeatFails
<1>7. CASE Tick
  BY <1>7 DEF Tick, OnTime, MaxAge
<1>8. CASE UNCHANGED vars
  BY <1>8
<1> QED
  BY <1>1, <1>2, <1>3, <1>4, <1>5, <1>6, <1>7, <1>8 DEF Next, BeatStep, Waiting

LEMMA NextInductive == Inductive /\ [Next]_vars => Inductive'
  BY TypeStep, StoppedStep, FreshStep DEF Inductive

(* For any intervals and thresholds the assumptions allow, a lane is never *)
(* marked stopped by, or for, a process other than the one that holds it.  *)
THEOREM StopsAreFenced == Spec => []StoppedByItsOwn
<1>1. Inductive => StoppedByItsOwn
  BY DEF Inductive
<1> QED
  BY <1>1, InitInductive, NextInductive, PTL DEF Spec

(* A healthy holder of the lane is shown as running as long as one         *)
(* interval and two of the slowest calls fit the degraded threshold.       *)
THEOREM HealthyStaysRunning == Spec => []HealthyIsRunning
<1>1. Inductive => HealthyIsRunning
  BY InstanceAssumption, TimeAssumption
     DEF Inductive, TypeOK, Row, Thread, Fresh, StoppedByItsOwn, Ended, HealthyIsRunning, Status
<1> QED
  BY <1>1, InitInductive, NextInductive, PTL DEF Spec

(* What ties the row of a lane to the instances and threads of             *)
(* lane_runtime.py that write it, as one inductive invariant.              *)
THEOREM InductiveInvariant == Spec => []Inductive
<1> QED
  BY InitInductive, NextInductive, PTL DEF Spec

(* A call that a stopped process had in flight cannot make its lane look   *)
(* alive again: whatever moves heartbeat_at forward is no heartbeat.       *)
THEOREM StoppedStaysOld == Spec => StoppedKeepsItsHeartbeat
<1>1. ASSUME Inductive, [Next]_vars,
             lane.stopped, lane'.token = lane.token, lane'.age < lane.age
      PROVE  beat' = beat
  <2> USE <1>1 DEF Inductive, TypeOK, StoppedByItsOwn, Row
  <2>1. ASSUME NEW p \in Instance, Register(p) PROVE FALSE
    BY <2>1 DEF Register, Ended
  <2>2. ASSUME NEW p \in Instance,
               BeatStep(p) \/ Launch(p) \/ StopRequested(p) \/ Die(p)
        PROVE  FALSE
    BY <2>2 DEF BeatStep, BeatReads, BeatCommits, BeatFails, BeatMatches,
                Launch, StopRequested, Die
  <2>3. ASSUME NEW p \in Instance, StopCommits(p) \/ MarkStopped(p)
        PROVE  beat' = beat
    BY <2>3 DEF StopCommits, MarkStopped
  <2>4. CASE Tick
    BY <2>4, TimeAssumption DEF Tick, MaxAge
  <2> QED
    BY <2>1, <2>2, <2>3, <2>4 DEF Next
<1> QED
  BY <1>1, InitInductive, NextInductive, PTL DEF Spec, StoppedKeepsItsHeartbeat

=============================================================================
