----------------------------- MODULE RemoteSync -----------------------------
(***************************************************************************)
(* The durable outbox of remote manual selection and the host that applies *)
(* its operations.  Every client (a browser with an IndexedDB of its own)  *)
(* drains its outbox one request at a time; requests are delayed past      *)
(* their timeout, answers are lost, tabs are closed, another client takes  *)
(* the writer lease and uses up sequence numbers, transfers on the host    *)
(* raise the revision.  Decisions are taken at any time, also while the    *)
(* clock is repaired.                                                      *)
(***************************************************************************)
EXTENDS Naturals, Sequences, FiniteSets

CONSTANTS
    Client,         \* client instances
    OpsOf,          \* Client -> the operations it may decide on
    MaxEvents,      \* bound: decisions, answers a client stops waiting for and
                    \* revisions made by transfers on the host, together; the
                    \* last two count double
    PageSize,       \* records the drain lists at a time (25 in the code)
    None            \* no writer, no decision under way

ASSUME RemoteAssumption ==
    /\ MaxEvents \in Nat /\ PageSize \in Nat \ {0}
    /\ \A c, d \in Client : c # d => OpsOf[c] \cap OpsOf[d] = {}
    /\ None \notin Client

Op == UNION {OpsOf[c] : c \in Client}

VARIABLES
    batch,      \* the host's batch: revision, sequence
    writer,     \* the client that owns the writer lease
    applied,    \* the host's operations in the order they were applied
    requests,   \* requests on their way to the host
    decided,    \* Client -> its decisions (the local batch), in order
    events,     \* decisions, answers not waited for and transfers so far
    outbox,     \* Client -> its unconfirmed operations, one per sequence number
    clock,      \* Client -> last client sequence, last known server revision
    place,      \* Client -> where its drain is, and what it holds in memory
    draft,      \* Client -> what it has read of its clock for the next decision
    overlapped  \* checking only: decisions that a repair of the clock, which
                \* had not listed them, found in the outbox when it wrote

host == <<batch, writer, applied>>
store == <<decided, outbox, clock>>
drain == <<place, overlapped>>
vars == <<batch, writer, applied, requests, events, decided, outbox, clock, place, draft,
          overlapped>>

Resting == [at |-> "idle"]

Init ==
    /\ batch = [revision |-> 0, sequence |-> 0]
    /\ writer = None
    /\ applied = <<>>
    /\ requests = {}
    /\ events = 0
    /\ decided = [c \in Client |-> <<>>]
    /\ outbox = [c \in Client |-> {}]
    /\ clock = [c \in Client |-> [sequence |-> 0, revision |-> 0]]
    /\ place = [c \in Client |-> Resting]
    /\ draft = [c \in Client |-> None]
    /\ overlapped = {}

(***************************************************************************)
(* The client's store.                                                     *)
(***************************************************************************)
Larger(m, n) == IF m > n THEN m ELSE n
First(records) == CHOOSE r \in records : \A q \in records : r.sequence <= q.sequence
Holds(c, o) == \E r \in outbox[c] : r.op = o

(* IndexedDB put: a record with the same sequence number is replaced. *)
Put(records, r) == {q \in records : q.sequence # r.sequence} \cup {r}

(* What the checksum of a command covers. *)
Content(r) == [op |-> r.op, sequence |-> r.sequence, expected |-> r.expected]

Marked(c, o, state) ==
    [outbox EXCEPT ![c] = {IF r.op = o THEN [r EXCEPT !.state = state] ELSE r : r \in @}]

Go(c, to) == place' = [place EXCEPT ![c] = to]

(***************************************************************************)
(* A decision.  operationClock reads the client's clock and the number of  *)
(* unconfirmed operations; the decision and its outbox record are written  *)
(* in a later transaction, which checks the sequence again and the         *)
(* expected revision not.  The two reads are transactions of their own and *)
(* one step here: what happens between them changes the expected revision  *)
(* only, as does what happens between them and the write, and no more      *)
(* comes of it than a refusal by the host.                                 *)
(***************************************************************************)
Undecided(c) == {o \in OpsOf[c] : \A i \in DOMAIN decided[c] : decided[c][i] # o}

ReadClock(c) ==
    /\ Undecided(c) # {}
    /\ draft[c] = None
    /\ draft' = [draft EXCEPT ![c] = [sequence |-> clock[c].sequence + 1,
                     expected |-> clock[c].revision + Cardinality(outbox[c])]]
    /\ UNCHANGED <<host, requests, events, store, drain>>

Decide(c, o) ==
    /\ draft[c] # None
    /\ draft[c].sequence = clock[c].sequence + 1
    /\ o \in Undecided(c)
    /\ events < MaxEvents
    /\ events' = events + 1
    /\ decided' = [decided EXCEPT ![c] = Append(@, o)]
    /\ outbox' = [outbox EXCEPT ![c] = Put(@,
          [op |-> o, sequence |-> draft[c].sequence,
           expected |-> draft[c].expected, state |-> "pending", attempts |-> 0])]
    /\ clock' = [clock EXCEPT ![c].sequence = @ + 1]
    /\ draft' = [draft EXCEPT ![c] = None]
    /\ UNCHANGED <<host, requests, drain>>

RefuseDecision(c) ==
    /\ draft[c] # None
    /\ draft[c].sequence # clock[c].sequence + 1
    /\ draft' = [draft EXCEPT ![c] = None]
    /\ UNCHANGED <<host, requests, events, store, drain>>

(***************************************************************************)
(* drain: a page of records is listed and its records are sent one after   *)
(* the other, as they were listed.  The drain has repaired the clock at    *)
(* most once.                                                              *)
(***************************************************************************)
Repaired(c) == place[c].at = "draining" /\ place[c].repaired
Page(records) ==
    {r \in records : Cardinality({q \in records : q.sequence < r.sequence}) < PageSize}

ListPage(c) ==
    /\ \/ place[c].at = "idle"
       \/ place[c].at = "draining" /\ place[c].page = {}
    /\ outbox[c] # {}
    /\ Go(c, [at |-> "draining", page |-> Page(outbox[c]), repaired |-> Repaired(c)])
    /\ UNCHANGED <<host, requests, events, store, draft, overlapped>>

Drains(c) == place[c].at = "draining" /\ place[c].page # {}

(* The record is marked as sending, then sent. *)
Send(c) ==
    LET r == First(place[c].page)
    IN /\ Drains(c)
       /\ r.state \notin {"conflict", "replay"}
       /\ Holds(c, r.op)
       /\ outbox' = [outbox EXCEPT ![c] = Put(@,
              [op |-> r.op, sequence |-> r.sequence, expected |-> r.expected,
               state |-> "sending", attempts |-> r.attempts + 1])]
       /\ requests' = requests \cup
              {[client |-> c, attempt |-> r.attempts + 1, content |-> Content(r)]}
       /\ Go(c, [at |-> "sent", op |-> r.op, attempt |-> r.attempts + 1,
                 answer |-> "none", revision |-> 0, page |-> place[c].page,
                 repaired |-> place[c].repaired])
       /\ UNCHANGED <<host, events, decided, clock, draft, overlapped>>

(* A head in conflict ends the drain, a replayed one is repaired first. *)
ResumeRepair(c) ==
    /\ Drains(c)
    /\ First(place[c].page).state = "replay"
    /\ ~place[c].repaired
    /\ Go(c, [at |-> "fetching", repair |-> TRUE])
    /\ UNCHANGED <<host, requests, events, store, draft, overlapped>>

StopDrain(c) ==
    /\ place[c].at = "draining"
    /\ IF place[c].page = {} THEN outbox[c] = {}
       ELSE LET state == First(place[c].page).state
            IN state = "conflict" \/ (state = "replay" /\ place[c].repaired)
    /\ Go(c, Resting)
    /\ UNCHANGED <<host, requests, events, store, draft, overlapped>>

(***************************************************************************)
(* The host: authorisation and apply_operation in one transaction, with    *)
(* the batch row locked.                                                   *)
(***************************************************************************)
Forgotten(m) == FALSE
Known(m) == \E i \in DOMAIN applied : applied[i].op = m.content.op

ExactRetry(m) ==
    /\ Known(m)
    /\ \E i \in DOMAIN applied : applied[i].client = m.client /\ applied[i].content = m.content

Replayed(m) ==
    ~Known(m) /\ writer = m.client /\ m.content.sequence <= batch.sequence

Acceptable(m) ==
    /\ ~Known(m)
    /\ writer = m.client
    /\ m.content.sequence = batch.sequence + 1
    /\ m.content.expected = batch.revision

(* The answer reaches the client only while it waits for this request. *)
Answer(m, verdict, revision) ==
    LET c == m.client
        waits == /\ place[c].at = "sent" /\ place[c].op = m.content.op
                 /\ place[c].attempt = m.attempt
    IN /\ requests' = requests \ {m}
       /\ place' = IF waits
                   THEN [place EXCEPT ![c].answer = verdict, ![c].revision = revision]
                   ELSE place
       /\ UNCHANGED <<store, events, draft, overlapped>>

(* A stale selection generation consumes the sequence and not the revision. *)
Apply(m) ==
    /\ Acceptable(m)
    /\ \E raise \in {0, 1} :
        /\ batch' = [revision |-> batch.revision + raise, sequence |-> m.content.sequence]
        /\ Answer(m, "ok", batch.revision + raise)
    /\ applied' = Append(applied,
          [client |-> m.client, op |-> m.content.op, content |-> m.content])
    /\ UNCHANGED writer

Retry(m) ==
    /\ ExactRetry(m)
    /\ Answer(m, "ok", batch.revision)
    /\ UNCHANGED host

RefuseReplay(m) ==
    /\ Replayed(m)
    /\ Answer(m, "replay", 0)
    /\ UNCHANGED host

(* No lease, other content under a known id, a gap, a stale revision; or a
   generation that skips a value. *)
RefuseConflict(m) ==
    /\ ~ExactRetry(m)
    /\ ~Replayed(m)
    /\ Answer(m, "conflict", 0)
    /\ UNCHANGED host

Receive ==
    \E m \in requests : Apply(m) \/ Retry(m) \/ RefuseReplay(m) \/ RefuseConflict(m)

Takeover(c) ==
    /\ writer # c
    /\ writer' = c
    /\ UNCHANGED <<batch, applied, requests, events, store, drain, draft>>

Transfer ==
    /\ events + 2 <= MaxEvents
    /\ events' = events + 2
    /\ batch' = [revision |-> batch.revision + 1, sequence |-> batch.sequence]
    /\ UNCHANGED <<writer, applied, requests, store, drain, draft>>

(***************************************************************************)
(* The client takes the answer.                                            *)
(***************************************************************************)
(* The record whose answer is awaited must still be there; if not, the error
   ends the drain (DrainFails). *)
Awaits(c) == place[c].at = "sent" /\ Holds(c, place[c].op)

(* A client that stops waiting for an answer uses up the bound, twice. *)
Abandon(c) ==
    /\ place[c].at = "sent" => events + 2 <= MaxEvents
    /\ events' = IF place[c].at = "sent" THEN events + 2 ELSE events

(* confirmOperation: the record goes and the known revision grows. *)
Confirm(c) ==
    /\ Awaits(c) /\ place[c].answer = "ok"
    /\ outbox' = [outbox EXCEPT ![c] = {r \in @ : r.op # place[c].op}]
    /\ clock' = [clock EXCEPT ![c].revision = Larger(@, place[c].revision)]
    /\ Go(c, [at |-> "draining", page |-> {r \in place[c].page : r.op # place[c].op},
              repaired |-> place[c].repaired])
    /\ UNCHANGED <<host, requests, events, decided, draft, overlapped>>

(* A refusal of the host, and also, whatever the host did, a 502, an answer
   that fails validation and a store error in confirmOperation.  A replayed
   sequence is repaired once per drain; any other conflict, and a second
   replay, ends the drain after a diagnostic delta. *)
Refused(c) ==
    /\ Awaits(c)
    /\ \E verdict \in {"conflict"} \cup ({"replay"} \cap {place[c].answer}) :
          /\ outbox' = Marked(c, place[c].op, verdict)
          /\ Go(c, [at |-> "fetching", repair |-> verdict = "replay" /\ ~place[c].repaired])
    /\ UNCHANGED <<host, requests, events, decided, clock, draft, overlapped>>

(* Every other failure, whatever the host did: a broken connection, a timeout,
   429, another 5xx.  The record stays pending. *)
GiveUp(c) ==
    /\ Awaits(c)
    /\ Abandon(c)
    /\ outbox' = Marked(c, place[c].op, "pending")
    /\ Go(c, Resting)
    /\ UNCHANGED <<host, requests, decided, clock, draft, overlapped>>

(* getStateDelta reads the batch, applyServerStateDelta stores its clocks. *)
FetchDelta(c) ==
    /\ place[c].at = "fetching"
    /\ Go(c, [at |-> "delta", repair |-> place[c].repair,
              sequence |-> batch.sequence, revision |-> batch.revision])
    /\ UNCHANGED <<host, requests, events, store, draft, overlapped>>

AdoptedClock(mine, delta) == [sequence |-> delta.sequence, revision |-> delta.revision]
AdvancedClock(mine, delta) ==
    [sequence |-> Larger(mine.sequence, delta.sequence), revision |-> delta.revision]

ApplyDelta(c) ==
    /\ place[c].at = "delta"
    /\ place[c].revision >= clock[c].revision
    /\ clock' = [clock EXCEPT ![c] = AdvancedClock(@, place[c])]
    /\ IF place[c].repair
       THEN Go(c, [at |-> "listing", sequence |-> place[c].sequence,
                   revision |-> place[c].revision])
       ELSE Go(c, Resting)
    /\ UNCHANGED <<host, requests, events, decided, outbox, draft, overlapped>>

(* The whole outbox is listed and numbered again after the host's clock. *)
Renumbered(records, delta) ==
    {LET rank == Cardinality({q \in records : q.sequence < r.sequence})
     IN [op |-> r.op, sequence |-> delta.sequence + rank + 1,
         expected |-> delta.revision + rank, state |-> "pending",
         attempts |-> r.attempts] : r \in records}

ListOutbox(c) ==
    /\ place[c].at = "listing"
    /\ Go(c, [at |-> "rebasing", records |-> outbox[c],
              sequence |-> place[c].sequence, revision |-> place[c].revision])
    /\ UNCHANGED <<host, requests, events, store, draft, overlapped>>

ClockKept(c, records) == clock[c]
ClockAfterRebase(c, records) ==
    [sequence |-> place[c].sequence + Cardinality(records), revision |-> place[c].revision]

(* One transaction: the listed records must be unchanged, their keys are
   deleted, then the renumbered ones are put.  That there is no other record is
   not checked. *)
Rebase(c) ==
    LET old == place[c].records
        kept == {r \in outbox[c] : \A q \in old : q.sequence # r.sequence}
        new == Renumbered(old, place[c])
    IN /\ place[c].at = "rebasing"
       /\ old \subseteq outbox[c]
       /\ outbox' = [outbox EXCEPT ![c] =
              {r \in kept : \A q \in new : q.sequence # r.sequence} \cup new]
       /\ clock' = [clock EXCEPT ![c] = ClockAfterRebase(c, old)]
       /\ overlapped' = overlapped \cup {r.op : r \in kept}
       /\ Go(c, [at |-> "draining", page |-> {}, repaired |-> TRUE])
       /\ UNCHANGED <<host, requests, events, decided, draft>>

(* A store error or a failed fetch ends the drain where it is. *)
DrainFails(c) ==
    /\ place[c].at # "idle"
    /\ Abandon(c)
    /\ Go(c, Resting)
    /\ UNCHANGED <<host, requests, store, draft, overlapped>>

(* The tab is closed or reloaded: what was in memory is gone and the store
   stays. *)
Restart(c) ==
    /\ place[c].at # "idle" \/ draft[c] # None
    /\ Abandon(c)
    /\ Go(c, Resting)
    /\ draft' = [draft EXCEPT ![c] = None]
    /\ UNCHANGED <<host, requests, store, overlapped>>

Next ==
    \/ Receive \/ Transfer
    \/ \E c \in Client :
        \/ ReadClock(c) \/ RefuseDecision(c)
        \/ \E o \in OpsOf[c] : Decide(c, o)
        \/ ListPage(c) \/ Send(c) \/ ResumeRepair(c) \/ StopDrain(c)
        \/ Confirm(c) \/ Refused(c) \/ GiveUp(c)
        \/ FetchDelta(c) \/ ApplyDelta(c) \/ ListOutbox(c) \/ Rebase(c)
        \/ Takeover(c) \/ DrainFails(c) \/ Restart(c)

Spec == Init /\ [][Next]_vars
-----------------------------------------------------------------------------
Applied == {applied[i].op : i \in DOMAIN applied}

(* An outbox never holds two records with one number or two of one operation,
   and no operation that was not decided; only a decision taken while a repair
   was written may have a number above the client's clock; the host has applied
   as many operations as it has consumed numbers. *)
TypeOK ==
    /\ batch \in [revision : Nat, sequence : Nat]
    /\ batch.sequence = Len(applied)
    /\ writer \in Client \cup {None}
    /\ overlapped \subseteq Op
    /\ \A c \in Client :
        /\ \A r, q \in outbox[c] : r # q => r.sequence # q.sequence /\ r.op # q.op
        /\ \A r \in outbox[c] :
              /\ r.sequence \in Nat \ {0}
              /\ r.sequence <= clock[c].sequence \/ r.op \in overlapped
              /\ \E i \in DOMAIN decided[c] : decided[c][i] = r.op
              /\ r.state \in {"pending", "sending", "conflict", "replay"}
              /\ r.attempts \in Nat

(* A decision waits in the outbox until the host has applied it.  Only one that
   was taken while a repair of the clock was being written can be lost, and it
   takes no other with it. *)
NothingLost ==
    \A c \in Client : \A i \in DOMAIN decided[c] :
        \/ Holds(c, decided[c][i])
        \/ decided[c][i] \in Applied
        \/ decided[c][i] \in overlapped

(* MANUAL_IMAGE_SELECTION.md:536-539: a repair keeps every unconfirmed
   operation, and numbers the whole outbox. *)
EveryDecisionKept ==
    \A c \in Client : \A i \in DOMAIN decided[c] :
        Holds(c, decided[c][i]) \/ decided[c][i] \in Applied

(* The host applies each client's decisions in the order they were taken and
   each of them once, over lost answers, late requests, repairs of the clock
   and other writers; those taken while a repair was written at most once, in
   any order, and without disturbing the order of the others. *)
Delivery == INSTANCE DecisionDelivery WITH log <- [i \in DOMAIN applied |->
                [client |-> applied[i].client, op |-> applied[i].op]]
ImplementsDelivery == Delivery!DeliverySpec
=============================================================================
