---------------------------- MODULE JobLifecycle ----------------------------
(***************************************************************************)
(* The row of one background job and the pure transitions of               *)
(* services/api/.../domain/jobs.py.  A transition takes a row and returns   *)
(* the next one; the operator named May... (or Leased, Expired) is the      *)
(* condition under which the code does not raise.                          *)
(*                                                                         *)
(* Time is relative: ttl is the number of ticks left until                 *)
(* lease_expires_at.  Every transaction of the program carries a `now` that *)
(* was read from the clock BEFORE its row lock was granted, so each         *)
(* transition takes the age of that reading, 0..MaxAge ticks.  A lease is    *)
(* active for a reading of age d iff lease_expires_at > now, that is iff    *)
(* ttl + d > 0.                                                            *)
(***************************************************************************)
EXTENDS Integers

CONSTANTS Slot,       \* execution slots (worker lanes), JobExecutionSlot
          NoSlot,     \* execution_slot IS NULL
          Token,      \* lease tokens (uuid4 values)
          NoToken,    \* lease_token IS NULL
          Lease,      \* lease duration, in ticks
          MaxAge,     \* bound: the oldest clock reading a transaction commits
          Units       \* bound: work units of a handler, progress_current

ASSUME NullsAssumption == NoSlot \notin Slot /\ NoToken \notin Token
ASSUME TimeAssumption  == Lease \in Nat \ {0} /\ MaxAge \in Nat
ASSUME UnitsAssumption == Units \in Nat

Age == 0 .. MaxAge

(* "absent": no row was written yet; "deleted": the row was removed. *)
Status == {"absent", "created", "processing", "waiting_for_review",
           "completed", "failed", "cancelled", "deleted"}

JobRow == [status   : Status,
           cancel   : BOOLEAN,              \* cancel_requested_at IS NOT NULL
           slot     : Slot \cup {NoSlot},
           token    : Token \cup {NoToken},
           ttl      : (0 - MaxAge) .. Lease,
           progress : 0 .. Units,
           waits    : BOOLEAN]              \* checkpoint has waitingForJobId

Row(status) ==
    [status |-> status, cancel |-> FALSE, slot |-> NoSlot, token |-> NoToken,
     ttl |-> 0, progress |-> 0, waits |-> FALSE]

Absent == Row("absent")
NewJob == Row("created")

-----------------------------------------------------------------------------
(* Leases. *)

(* Mutant: a write that does not compare the token. *)
LeasedByAnyone(r, t, d) == r.status = "processing" /\ r.ttl + d > 0

Leased(r, t, d) == r.status = "processing" /\ r.token = t /\ r.ttl + d > 0

(* Mutants: off by one tick; a lease with a pending cancel is left alone. *)
ExpiredTickEarly(r, d) == r.status = "processing" /\ r.ttl + d <= 1
ExpiredUnlessCancelled(r, d) == r.status = "processing" /\ ~r.cancel /\ r.ttl + d <= 0

Expired(r, d) == r.status = "processing" /\ r.ttl + d <= 0

(* A new status, _without_lease. *)
Into(r, status) ==
    [status |-> status, cancel |-> r.cancel, slot |-> NoSlot, token |-> NoToken,
     ttl |-> 0, progress |-> r.progress, waits |-> r.waits]

Start(r, s, t, d) ==
    [status |-> "processing", cancel |-> r.cancel, slot |-> s, token |-> t,
     ttl |-> Lease - d, progress |-> r.progress, waits |-> r.waits]

(* Mutants: counted from the previous expiry; a heartbeat that only looks. *)
RenewFromExpiry(r, d) == [r EXCEPT !.ttl = @ + Lease - d]
RenewNothing(r, d) == r

Renew(r, d) == [r EXCEPT !.ttl = Lease - d]

(* One tick; below -MaxAge nothing can tell two leases apart. *)
Aged(r) ==
    IF r.status = "processing" /\ r.ttl > 0 - MaxAge
    THEN [r EXCEPT !.ttl = @ - 1] ELSE r

-----------------------------------------------------------------------------
(* Transitions of a leased row. *)

MayProgress(r, n) == n \in r.progress .. Units

Checkpoint(r, d, n, waits) ==
    [Renew(r, d) EXCEPT !.progress = n, !.waits = waits]

Deferred(r, waits) == [Into(r, "created") EXCEPT !.waits = waits]

(* Mutant: the result is stored whatever was requested meanwhile. *)
SettledBlindly(r, status) == Into(r, status)

(* acknowledge_job_cancellation, when a cancel was requested, or `status`. *)
Settled(r, status) == Into(r, IF r.cancel THEN "cancelled" ELSE status)

Recovered(r) == Settled(r, "created")

(* Mutant: refused, but left in the queue. *)
QuarantinedInQueue(r) == Settled(r, "created")

Quarantined(r) == Settled(r, "failed")

-----------------------------------------------------------------------------
(* Transitions requested through the API. *)

(* Mutant: a settled job can be cancelled too. *)
MayCancelAnything(r) == r.status \notin {"absent", "deleted"}

MayCancel(r) == r.status \in {"created", "waiting_for_review", "processing"}

(* Mutant: a running job is cancelled under its worker. *)
CancelledAtOnce(r) == [r EXCEPT !.cancel = TRUE, !.status = "cancelled"]

CancelRequested(r) ==
    IF r.cancel THEN r
    ELSE [r EXCEPT !.cancel = TRUE,
                   !.status = IF @ = "processing" THEN @ ELSE "cancelled"]

MayRequeue(r) == r.status \in {"waiting_for_review", "failed", "cancelled"}

(* requeue_job keeps the cursor, the fresh variant keeps nothing. *)
Requeued(r) == [Row("created") EXCEPT !.progress = r.progress, !.waits = r.waits]

RequeuedFresh(r) == Row("created")

MayReopen(r) == r.status = "completed"
=============================================================================
