---------------------------- MODULE JobContract -----------------------------
(***************************************************************************)
(* What the job queue promises its clients: the life of a job as the API   *)
(* shows it, a status and whether a cancellation is requested, with no     *)
(* workers, leases, clocks or locks.  JobQueue implements it.              *)
(*                                                                         *)
(* The moves are those of the transition functions of                      *)
(* services/api/.../domain/jobs.py; what the contract adds to them is which *)
(* ones a client can observe once they are run by processes that overlap,  *)
(* die and come back.                                                      *)
(***************************************************************************)
CONSTANTS Job,
          Reopenable   \* jobs whose completed result may be revised

VARIABLES status, cancel

vars == <<status, cancel>>

JobStatus == {"absent", "created", "processing", "waiting_for_review",
              "completed", "failed", "cancelled", "deleted"}

Init == /\ status \in [Job -> {"absent", "created"}]
        /\ cancel = [j \in Job |-> FALSE]

(* Job j goes from status s to status t. *)
Goes(j, s, t) == status[j] = s /\ status'[j] = t

Keeps(j) == cancel'[j] = cancel[j]

Created(j) == Goes(j, "absent", "created") /\ ~cancel[j] /\ ~cancel'[j]

Claimed(j) == Goes(j, "created", "processing") /\ Keeps(j)

(* Deferred, or recovered from a worker that stopped renewing its lease.   *)
Released(j) == Goes(j, "processing", "created") /\ Keeps(j)

(* A result is published only for a job nobody asked to cancel.            *)
Settles(j) ==
    /\ \E t \in {"completed", "failed", "waiting_for_review"} : Goes(j, "processing", t)
    /\ ~cancel[j] /\ ~cancel'[j]

Refused(j) == Goes(j, "created", "failed") /\ ~cancel[j] /\ ~cancel'[j]

CancelAsked(j) ==
    /\ ~cancel[j] /\ cancel'[j]
    /\ \/ Goes(j, "processing", "processing")
       \/ \E s \in {"created", "waiting_for_review"} : Goes(j, s, "cancelled")

CancelHonoured(j) ==
    /\ \E s \in {"created", "processing"} : Goes(j, s, "cancelled")
    /\ cancel[j] /\ cancel'[j]

Requeued(j) ==
    /\ \E s \in {"waiting_for_review", "failed", "cancelled"} : Goes(j, s, "created")
    /\ cancel[j] <=> status[j] = "cancelled"
    /\ ~cancel'[j]

Revised(j) ==
    /\ j \in Reopenable
    /\ Goes(j, "completed", "created") /\ ~cancel[j] /\ ~cancel'[j]

Removed(j) ==
    /\ j \in Reopenable
    /\ Goes(j, "cancelled", "deleted") /\ ~cancel'[j]

Move(j) ==
    \/ Created(j)
    \/ Claimed(j)
    \/ Released(j)
    \/ Settles(j)
    \/ Refused(j)
    \/ CancelAsked(j)
    \/ CancelHonoured(j)
    \/ Requeued(j)
    \/ Revised(j)
    \/ Removed(j)

Stays(j) == status'[j] = status[j] /\ cancel'[j] = cancel[j]

(* One command may move two jobs (a workflow and its child). *)
Next ==
    /\ status' \in [Job -> JobStatus] /\ cancel' \in [Job -> BOOLEAN]
    /\ \A j \in Job : Move(j) \/ Stays(j)

Spec == Init /\ [][Next]_vars
=============================================================================
