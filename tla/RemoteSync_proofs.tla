--------------------------- MODULE RemoteSync_proofs ---------------------------
(***************************************************************************)
(* Proofs about RemoteSync, for any clients, operations and bounds, with   *)
(* decisions taken at any time, also while the clock is repaired.          *)
(***************************************************************************)
EXTENDS RemoteSync, FiniteSetTheorems, WellFoundedInduction, SequenceTheorems, TLAPS

States == {"pending", "sending", "conflict", "replay"}
Record == [op : Op, sequence : Nat \ {0}, expected : Nat, state : States, attempts : Nat]
Contents == [op : Op, sequence : Nat, expected : Nat]
Message == [client : Client, attempt : Nat, content : Contents]
Entry == [client : Client, op : Op, content : Contents]
Verdict == {"none", "ok", "replay", "conflict"}
Clock == [sequence : Nat, revision : Nat]

Draining == [at : {"draining"}, page : SUBSET Record, repaired : BOOLEAN]
Sent == [at : {"sent"}, op : Op, attempt : Nat, answer : Verdict, revision : Nat,
         page : SUBSET Record, repaired : BOOLEAN]
Fetching == [at : {"fetching"}, repair : BOOLEAN]
Delta == [at : {"delta"}, repair : BOOLEAN, sequence : Nat, revision : Nat]
Listing == [at : {"listing"}, sequence : Nat, revision : Nat]
Rebasing == [at : {"rebasing"}, records : SUBSET Record, sequence : Nat, revision : Nat]

Place(p) ==
    /\ p.at = "draining" => p \in Draining
    /\ p.at = "sent" => p \in Sent
    /\ p.at = "fetching" => p \in Fetching
    /\ p.at = "delta" => p \in Delta
    /\ p.at = "listing" => p \in Listing
    /\ p.at = "rebasing" => p \in Rebasing

Places == DOMAIN place = Client /\ \A c \in Client : Place(place[c])

Drafts ==
    /\ DOMAIN draft = Client
    /\ \A c \in Client : draft[c] # None => draft[c] \in [sequence : Nat, expected : Nat]

Types ==
    /\ batch \in [revision : Nat, sequence : Nat]
    /\ applied \in Seq(Entry)
    /\ requests \subseteq Message
    /\ decided \in [Client -> Seq(Op)]
    /\ outbox \in [Client -> SUBSET Record]
    /\ clock \in [Client -> Clock]
    /\ overlapped \subseteq Op
    /\ Places
    /\ Drafts

(* One record per number, and above the clock only overlapped decisions. *)
Numbered(c) ==
    /\ IsFiniteSet(outbox[c])
    /\ \A r, q \in outbox[c] : r.sequence = q.sequence => r = q
    /\ \A r \in outbox[c] : r.sequence <= clock[c].sequence \/ r.op \in overlapped

(* One record per decision, and the numbers of those that no repair overlapped
   follow the order of the decisions. *)
Ordered(c) ==
    /\ \A i, j \in DOMAIN decided[c] : decided[c][i] = decided[c][j] => i = j
    /\ \A i \in DOMAIN decided[c] : decided[c][i] \in OpsOf[c]
    /\ \A r \in outbox[c] : \E i \in DOMAIN decided[c] : r.op = decided[c][i]
    /\ \A r, q \in outbox[c] : r.op = q.op => r = q
    /\ \A r, q \in outbox[c] : \A i, j \in DOMAIN decided[c] :
          (/\ r.op = decided[c][i] /\ q.op = decided[c][j] /\ i <= j
           /\ r.op \notin overlapped /\ q.op \notin overlapped)
          => r.sequence <= q.sequence

(* What comes before a decision is applied, or overlapped by a repair. *)
Settled(c, i) == \A j \in 1..(i - 1) : decided[c][j] \in Applied \cup overlapped

(* A page in memory names decisions under the numbers they have in the outbox;
   what comes before a decision on the page is on the page before it, or
   settled. *)
Paged(c) ==
    place[c].at \in {"draining", "sent"} =>
        \A r \in place[c].page :
            /\ \A q \in outbox[c] : q.op = r.op => q.sequence = r.sequence
            /\ \E i \in DOMAIN decided[c] :
                  /\ decided[c][i] = r.op
                  /\ r.op \notin overlapped => \A j \in 1..(i - 1) :
                        \/ decided[c][j] \in Applied \cup overlapped
                        \/ \E q \in place[c].page :
                              q.op = decided[c][j] /\ q.sequence < r.sequence

(* An operation the client may drop has been applied. *)
Confirmed(c) ==
    place[c].at = "sent" /\ place[c].answer = "ok" => place[c].op \in Applied

(* A request is under way only for a decision whose predecessors are settled, or
   for an overlapped one. *)
InTurn ==
    \A m \in requests : \E i \in DOMAIN decided[m.client] :
        /\ decided[m.client][i] = m.content.op
        /\ m.content.op \notin overlapped => Settled(m.client, i)

IInv ==
    /\ Types
    /\ \A c \in Client : Numbered(c) /\ Ordered(c) /\ Paged(c) /\ Confirmed(c)
    /\ NothingLost
    /\ InTurn

(* Set of records with distinct numbers: the rank of a record among them. *)
Rank(S, r) == Cardinality({q \in S : q.sequence < r.sequence})

-----------------------------------------------------------------------------
(* A set of records that is not empty has a first one. *)
LEMMA FirstExists ==
  ASSUME NEW S, S # {}, \A r \in S : r.sequence \in Nat
  PROVE  First(S) \in S /\ \A q \in S : First(S).sequence <= q.sequence
<1> DEFINE T == {r.sequence : r \in S}
<1>1. T \subseteq Nat /\ T # {}
  OBVIOUS
<1>2. PICK x \in T : \A y \in T : ~(<<y, x>> \in OpToRel(<, Nat))
  BY <1>1, WFMin, NatLessThanWellFounded
<1>3. \A y \in T : <<y, x>> \in Nat \X Nat => ~(y < x)
  BY <1>1, <1>2 DEF OpToRel
<1>4. PICK r \in S : x = r.sequence
  OBVIOUS
<1>5. ASSUME NEW q \in S PROVE r.sequence <= q.sequence
  <2>1. q.sequence \in T
    OBVIOUS
  <2>2. ~(q.sequence < r.sequence)
    BY <1>1, <1>3, <1>4, <2>1
  <2>3. QED
    BY <2>2
<1>6. QED
  BY <1>5 DEF First

(* The image of a finite set is finite. *)
LEMMA ImageFinite ==
  ASSUME NEW S, IsFiniteSet(S), NEW f, DOMAIN f = S, NEW T, T = {f[r] : r \in S}
  PROVE  IsFiniteSet(T)
<1> DEFINE g == [r \in S |-> f[r]]
<1>1. g \in Surjection(S, T)
  BY DEF Surjection
<1>2. QED
  BY <1>1, FS_Surjection

(* Ranks are below the size and grow with the numbers. *)
LEMMA RankFacts ==
  ASSUME NEW S, IsFiniteSet(S), \A r \in S : r.sequence \in Nat
  PROVE  /\ Cardinality(S) \in Nat
         /\ \A r \in S : Rank(S, r) \in Nat /\ Rank(S, r) < Cardinality(S)
         /\ \A r, q \in S : r.sequence < q.sequence => Rank(S, r) < Rank(S, q)
         /\ \A r, q \in S : r.sequence = q.sequence => Rank(S, r) = Rank(S, q)
<1> DEFINE Low(r) == {q \in S : q.sequence < r.sequence}
<1>1. Cardinality(S) \in Nat
  BY FS_CardinalityType
<1>2. ASSUME NEW r \in S
      PROVE IsFiniteSet(Low(r)) /\ Rank(S, r) \in Nat /\ Rank(S, r) < Cardinality(S)
  <2>1. Low(r) \in SUBSET S /\ r \notin Low(r)
    OBVIOUS
  <2>2. IsFiniteSet(Low(r)) /\ Cardinality(Low(r)) <= Cardinality(S)
        /\ Cardinality(S) # Cardinality(Low(r))
    BY <2>1, FS_Subset
  <2>3. Cardinality(Low(r)) \in Nat
    BY <2>2, FS_CardinalityType
  <2>4. QED
    BY <1>1, <2>2, <2>3 DEF Rank
<1>3. ASSUME NEW r \in S, NEW q \in S, r.sequence < q.sequence
      PROVE  Rank(S, r) < Rank(S, q)
  <2>1. Low(r) \in SUBSET Low(q) /\ r \in Low(q) /\ r \notin Low(r)
    BY <1>3
  <2>2. Cardinality(Low(r)) <= Cardinality(Low(q)) /\ Cardinality(Low(r)) # Cardinality(Low(q))
    BY <1>2, <2>1, FS_Subset
  <2>3. Rank(S, r) = Cardinality(Low(r)) /\ Rank(S, q) = Cardinality(Low(q))
    BY DEF Rank
  <2>4. Rank(S, r) \in Nat /\ Rank(S, q) \in Nat
    BY <1>2
  <2>5. QED
    BY <2>2, <2>3, <2>4
<1>4. QED
  BY <1>1, <1>2, <1>3 DEF Rank

-----------------------------------------------------------------------------
LEMMA InitInv == Init => IInv
<1> SUFFICES ASSUME Init PROVE IInv
  OBVIOUS
<1>1. Types
  BY DEF Init, Types, Places, Place, Resting, Drafts, Clock
<1>2. \A c \in Client : Numbered(c) /\ Ordered(c) /\ Paged(c) /\ Confirmed(c)
  BY FS_EmptySet DEF Init, Numbered, Ordered, Paged, Confirmed, Resting
<1>3. NothingLost /\ InTurn
  BY DEF Init, NothingLost, InTurn
<1>4. QED
  BY <1>1, <1>2, <1>3 DEF IInv

(* The renumbered records, one for one: same operations, same order, numbers
   between the host's sequence and the clock the repair stores. *)
LEMMA RenumberedFacts ==
  ASSUME NEW S \in SUBSET Record, IsFiniteSet(S), NEW d, d.sequence \in Nat, d.revision \in Nat,
         \A r, q \in S : r.sequence = q.sequence => r = q
  PROVE  /\ Renumbered(S, d) \in SUBSET Record /\ IsFiniteSet(Renumbered(S, d))
         /\ \A r \in S : \E n \in Renumbered(S, d) : n.op = r.op
         /\ \A n \in Renumbered(S, d) : \E r \in S :
               /\ n.op = r.op
               /\ n.sequence = d.sequence + Rank(S, r) + 1
               /\ n.expected = d.revision + Rank(S, r)
               /\ n.attempts = r.attempts /\ n.state = "pending"
               /\ n = [op |-> r.op, sequence |-> d.sequence + Rank(S, r) + 1,
                       expected |-> d.revision + Rank(S, r), state |-> "pending",
                       attempts |-> r.attempts]
               /\ n.sequence <= d.sequence + Cardinality(S)
<1>1. \A r \in S : r.sequence \in Nat
  BY DEF Record
<1>2. /\ Cardinality(S) \in Nat
      /\ \A r \in S : Rank(S, r) \in Nat /\ Rank(S, r) < Cardinality(S)
  BY <1>1, RankFacts
<1> DEFINE New(r) == [op |-> r.op, sequence |-> d.sequence + Rank(S, r) + 1,
                      expected |-> d.revision + Rank(S, r), state |-> "pending",
                      attempts |-> r.attempts]
<1>3. Renumbered(S, d) = {New(r) : r \in S}
  BY DEF Renumbered, Rank
<1>4. ASSUME NEW r \in S
      PROVE /\ New(r) \in Record
            /\ New(r).sequence <= d.sequence + Cardinality(S)
  BY <1>2 DEF Record, States
<1>5. Renumbered(S, d) \in SUBSET Record
  BY <1>3, <1>4
<1>6. ASSUME NEW r \in S PROVE \E n \in Renumbered(S, d) : n.op = r.op
  <2>1. New(r) \in Renumbered(S, d) /\ New(r).op = r.op
    BY <1>3
  <2>2. QED
    BY <2>1
<1>7. ASSUME NEW n \in Renumbered(S, d)
      PROVE \E r \in S :
               /\ n.op = r.op
               /\ n.sequence = d.sequence + Rank(S, r) + 1
               /\ n.expected = d.revision + Rank(S, r)
               /\ n.attempts = r.attempts /\ n.state = "pending"
               /\ n = New(r)
               /\ n.sequence <= d.sequence + Cardinality(S)
  <2>1. PICK r \in S : n = New(r)
    BY <1>3
  <2>2. QED
    BY <2>1, <1>4
<1>8. IsFiniteSet(Renumbered(S, d))
  <2> DEFINE f == [r \in S |-> New(r)]
  <2>1. DOMAIN f = S /\ Renumbered(S, d) = {f[r] : r \in S}
    BY <1>3
  <2> HIDE DEF f
  <2>2. QED
    BY <2>1, ImageFinite
<1>9. QED
  BY <1>5, <1>6, <1>7, <1>8

(* What the invariant says of one outbox. *)
LEMMA OutboxFacts ==
  ASSUME IInv, NEW c \in Client
  PROVE  /\ clock[c].sequence \in Nat /\ clock[c].revision \in Nat
         /\ \A r \in outbox[c] : r \in Record /\ r.op \in Op /\ r.sequence \in Nat \ {0}
         /\ IsFiniteSet(outbox[c]) /\ Cardinality(outbox[c]) \in Nat
         /\ \A r, q \in outbox[c] : r.sequence = q.sequence => r = q
         /\ \A r, q \in outbox[c] : r.op = q.op => r = q
<1>1. Types /\ Numbered(c) /\ Ordered(c)
  BY DEF IInv
<1>2. clock[c] \in Clock
  BY <1>1 DEF Types
<1>3. clock[c].sequence \in Nat /\ clock[c].revision \in Nat
  BY <1>2 DEF Clock
<1>4. \A r \in outbox[c] : r \in Record
  BY <1>1 DEF Types
<1>5. \A r \in outbox[c] : r.op \in Op /\ r.sequence \in Nat \ {0}
  BY <1>4 DEF Record
<1>6. IsFiniteSet(outbox[c]) /\ Cardinality(outbox[c]) \in Nat
  BY <1>1, FS_CardinalityType DEF Numbered
<1>7. QED
  BY <1>1, <1>3, <1>4, <1>5, <1>6 DEF Numbered, Ordered

(* The page of a drain that has something to send, and its first record. *)
LEMMA PageFacts ==
  ASSUME IInv, NEW c \in Client, Drains(c)
  PROVE  /\ place[c] \in Draining /\ place[c].page \in SUBSET Record
         /\ place[c].repaired \in BOOLEAN
         /\ First(place[c].page) \in place[c].page /\ First(place[c].page) \in Record
         /\ \A q \in place[c].page : First(place[c].page).sequence <= q.sequence
<1>1. place[c].at = "draining" /\ place[c].page # {}
  BY DEF Drains
<1>2. place[c] \in Draining
  BY <1>1 DEF IInv, Types, Places, Place
<1>3. place[c].page \in SUBSET Record /\ place[c].repaired \in BOOLEAN
  BY <1>2 DEF Draining
<1> DEFINE S == place[c].page
<1>4. S # {} /\ \A r \in S : r \in Record /\ r.sequence \in Nat
  BY <1>1, <1>3 DEF Record
<1> HIDE DEF S
<1>5. First(S) \in S /\ \A q \in S : First(S).sequence <= q.sequence
  BY <1>4, FirstExists
<1>6. QED
  BY <1>2, <1>3, <1>4, <1>5 DEF S

(* A repair renumbers the records it has listed; those it finds beside them are
   overlapped, and one of them is lost where a renumbered record takes its
   number. *)
LEMMA RebasedOutbox ==
  ASSUME IInv, NEW c \in Client, Rebase(c)
  PROVE  LET old == place[c].records
             new == Renumbered(old, place[c])
         IN  /\ old \subseteq outbox[c] /\ old \in SUBSET Record /\ IsFiniteSet(old)
             /\ place[c].sequence \in Nat /\ place[c].revision \in Nat
             /\ outbox'[c] = {r \in outbox[c] \ old : \A q \in new : q.sequence # r.sequence}
                               \cup new
             /\ \A d \in Client \ {c} : outbox'[d] = outbox[d] /\ clock'[d] = clock[d]
             /\ clock'[c] \in Clock /\ clock'[c].sequence = place[c].sequence + Cardinality(old)
             /\ overlapped' = overlapped \cup {r.op : r \in outbox[c] \ old}
             /\ decided' = decided
<1> DEFINE old == place[c].records
           new == Renumbered(old, place[c])
           kept == {r \in outbox[c] : \A q \in old : q.sequence # r.sequence}
<1>1. place[c].at = "rebasing" /\ old \subseteq outbox[c] /\ decided' = decided
  BY DEF Rebase
<1>2. place[c].sequence \in Nat /\ place[c].revision \in Nat
  BY <1>1 DEF IInv, Types, Places, Place, Rebasing
<1>3. old \in SUBSET Record /\ IsFiniteSet(old)
  BY <1>1, OutboxFacts, FS_Subset
<1>4. kept = outbox[c] \ old
  <2>1. \A r, q \in outbox[c] : r.sequence = q.sequence => r = q
    BY OutboxFacts
  <2>2. QED
    BY <1>1, <2>1
<1>5. /\ outbox' = [outbox EXCEPT ![c] =
             {r \in kept : \A q \in new : q.sequence # r.sequence} \cup new]
      /\ clock' = [clock EXCEPT ![c] = ClockAfterRebase(c, old)]
      /\ overlapped' = overlapped \cup {r.op : r \in kept}
  BY DEF Rebase
<1>6. DOMAIN outbox = Client /\ DOMAIN clock = Client
  BY DEF IInv, Types
<1>7. clock'[c] \in Clock /\ clock'[c].sequence = place[c].sequence + Cardinality(old)
  <2>1. Cardinality(old) \in Nat
    BY <1>3, FS_CardinalityType
  <2>2. clock'[c] = [sequence |-> place[c].sequence + Cardinality(old),
                     revision |-> place[c].revision]
    BY <1>5, <1>6 DEF ClockAfterRebase
  <2>3. QED
    BY <1>2, <2>1, <2>2 DEF Clock
<1> HIDE DEF old, new, kept
<1>8. QED
  BY <1>1, <1>2, <1>3, <1>4, <1>5, <1>6, <1>7 DEF old, new

LEMMA TypesStep ==
  ASSUME IInv, [Next]_vars
  PROVE  Types'
<1> USE RemoteAssumption DEF host, store
<1>0. Types
  BY DEF IInv
<1>1. CASE UNCHANGED vars
  BY <1>0, <1>1 DEF Types, Places, Drafts, vars
<1>2. ASSUME NEW m \in requests, Apply(m) \/ Retry(m) \/ RefuseReplay(m) \/ RefuseConflict(m)
      PROVE  Types'
  <2>1. m \in Message
    BY <1>0 DEF Types
  <2>2. ASSUME NEW v \in Verdict, NEW n \in Nat, Answer(m, v, n)
        PROVE  Places' /\ requests' \subseteq Message
               /\ outbox' = outbox /\ clock' = clock /\ decided' = decided
               /\ overlapped' = overlapped /\ draft' = draft
    <3>1. m.client \in Client
      BY <2>1 DEF Message
    <3>2. CASE place' = place
      BY <1>0, <2>2, <3>2 DEF Answer, Types, Places
    <3>3. CASE /\ place[m.client].at = "sent"
               /\ place' = [place EXCEPT ![m.client] = [@ EXCEPT !.answer = v, !.revision = n]]
      <4>1. place[m.client] \in Sent
        BY <1>0, <3>1, <3>3 DEF Types, Places, Place
      <4>2. [place[m.client] EXCEPT !.answer = v, !.revision = n] \in Sent
        BY <4>1 DEF Sent
      <4>3. Places'
        BY <1>0, <3>1, <3>3, <4>2 DEF Types, Places, Place, Sent
      <4>4. QED
        BY <1>0, <2>2, <4>3 DEF Answer, Types
    <3>4. QED
      BY <2>2, <3>2, <3>3 DEF Answer
  <2>3. CASE Apply(m)
    <3>1. PICK raise \in {0, 1} :
             /\ batch' = [revision |-> batch.revision + raise, sequence |-> m.content.sequence]
             /\ Answer(m, "ok", batch.revision + raise)
      BY <2>3 DEF Apply
    <3>2. batch.revision \in Nat /\ m.content.sequence \in Nat
      BY <1>0, <2>1 DEF Types, Message, Contents
    <3>3. batch' \in [revision : Nat, sequence : Nat]
      BY <1>0, <3>1, <3>2 DEF Types
    <3>4. [client |-> m.client, op |-> m.content.op, content |-> m.content] \in Entry
      BY <2>1 DEF Message, Contents, Entry
    <3>5. applied' \in Seq(Entry)
      BY <1>0, <2>3, <3>4, AppendProperties DEF Apply, Types
    <3>6. QED
      BY <1>0, <3>1, <3>2, <3>3, <3>5, <2>2 DEF Types, Verdict, Drafts
  <2>4. CASE Retry(m)
    BY <1>0, <2>2, <2>4 DEF Retry, Types, Verdict, Drafts
  <2>5. CASE RefuseReplay(m) \/ RefuseConflict(m)
    BY <1>0, <2>2, <2>5 DEF RefuseReplay, RefuseConflict, Types, Verdict, Drafts
  <2>6. QED
    BY <1>2, <2>3, <2>4, <2>5
<1>3. CASE Transfer
  <2>1. batch' \in [revision : Nat, sequence : Nat]
    BY <1>0, <1>3 DEF Transfer, Types
  <2>2. QED
    BY <1>0, <1>3, <2>1 DEF Transfer, Types, Places, Drafts, drain
<1>4. ASSUME NEW c \in Client, NEW to, Go(c, to), Place(to) PROVE Places'
  BY <1>0, <1>4 DEF Go, Types, Places
<1>5. ASSUME NEW c \in Client, NEW S \in SUBSET Record, outbox' = [outbox EXCEPT ![c] = S]
      PROVE  outbox' \in [Client -> SUBSET Record]
  BY <1>0, <1>5 DEF Types
<1>6. ASSUME NEW c \in Client, NEW o, NEW st \in States, outbox' = Marked(c, o, st)
      PROVE  outbox' \in [Client -> SUBSET Record]
  <2>1. ASSUME NEW r \in outbox[c] PROVE [r EXCEPT !.state = st] \in Record
    <3>1. r \in Record
      BY OutboxFacts
    <3>2. QED
      BY <3>1 DEF Record
  <2>2. {IF r.op = o THEN [r EXCEPT !.state = st] ELSE r : r \in outbox[c]} \in SUBSET Record
    BY <1>0, <2>1 DEF Types
  <2>3. QED
    BY <1>6, <1>5, <2>2 DEF Marked
<1>7. ASSUME NEW c \in Client, NEW o \in OpsOf[c], Decide(c, o) PROVE Types'
  <2>1. draft[c].sequence = clock[c].sequence + 1 /\ draft[c].expected \in Nat
    BY <1>0, <1>7 DEF Decide, Types, Drafts
  <2> DEFINE r == [op |-> o, sequence |-> draft[c].sequence, expected |-> draft[c].expected,
                   state |-> "pending", attempts |-> 0]
  <2>2. r \in Record
    BY <2>1, OutboxFacts DEF Record, Op, States
  <2>3. outbox' = [outbox EXCEPT ![c] = Put(outbox[c], r)]
    BY <1>7 DEF Decide
  <2>4. Put(outbox[c], r) \in SUBSET Record
    BY <1>0, <2>2 DEF Put, Types
  <2> HIDE DEF r
  <2>5. outbox' \in [Client -> SUBSET Record]
    BY <1>5, <2>3, <2>4
  <2>6. decided' \in [Client -> Seq(Op)]
    <3>1. o \in Op /\ decided[c] \in Seq(Op)
      BY <1>0, <1>7 DEF Types, Op
    <3>2. Append(decided[c], o) \in Seq(Op)
      BY <3>1, AppendProperties
    <3>3. QED
      BY <1>0, <1>7, <3>2 DEF Decide, Types
  <2>7. clock' \in [Client -> Clock]
    <3>1. clock[c] \in Clock
      BY <1>0, <1>7 DEF Types
    <3>2. [clock[c] EXCEPT !.sequence = clock[c].sequence + 1] \in Clock
      BY <3>1 DEF Clock
    <3>3. QED
      BY <1>0, <1>7, <3>2 DEF Decide, Types
  <2>8. Drafts'
    BY <1>0, <1>7 DEF Decide, Types, Drafts
  <2>9. UNCHANGED <<batch, applied, requests, overlapped, place>>
    BY <1>7 DEF Decide, drain
  <2>10. QED
    BY <1>0, <2>5, <2>6, <2>7, <2>8, <2>9 DEF Types, Places
<1>8. ASSUME NEW c \in Client, ReadClock(c) \/ RefuseDecision(c) PROVE Types'
  <2>1. Drafts'
    <3>1. [sequence |-> clock[c].sequence + 1,
           expected |-> clock[c].revision + Cardinality(outbox[c])]
             \in [sequence : Nat, expected : Nat]
      BY OutboxFacts
    <3>2. QED
      BY <1>0, <1>8, <3>1 DEF ReadClock, RefuseDecision, Types, Drafts
  <2>2. UNCHANGED <<batch, applied, requests, decided, outbox, clock, overlapped, place>>
    BY <1>8 DEF ReadClock, RefuseDecision, drain
  <2>3. QED
    BY <1>0, <2>1, <2>2 DEF Types, Places
<1>9. ASSUME NEW c \in Client, Send(c) PROVE Types'
  <2> DEFINE r == First(place[c].page)
             n == [op |-> r.op, sequence |-> r.sequence, expected |-> r.expected,
                   state |-> "sending", attempts |-> r.attempts + 1]
             m == [client |-> c, attempt |-> r.attempts + 1, content |-> Content(r)]
             to == [at |-> "sent", op |-> r.op, attempt |-> r.attempts + 1,
                    answer |-> "none", revision |-> 0, page |-> place[c].page,
                    repaired |-> place[c].repaired]
  <2>1. /\ outbox' = [outbox EXCEPT ![c] = Put(outbox[c], n)]
        /\ requests' = requests \cup {m} /\ Go(c, to)
        /\ UNCHANGED <<batch, applied, decided, clock, draft, overlapped>>
    BY <1>9 DEF Send
  <2>2. Drains(c)
    BY <1>9 DEF Send
  <2>3. r \in Record /\ place[c].page \in SUBSET Record /\ place[c].repaired \in BOOLEAN
    BY <2>2, PageFacts
  <2> HIDE DEF r
  <2>4. n \in Record
    BY <2>3 DEF Record, States
  <2>5. m \in Message
    BY <2>3 DEF Message, Contents, Content, Record
  <2>6. Place(to)
    BY <2>3 DEF Place, Sent, Verdict, Record
  <2> HIDE DEF n, m, to
  <2>7. Put(outbox[c], n) \in SUBSET Record
    BY <1>0, <2>4 DEF Put, Types
  <2>8. outbox' \in [Client -> SUBSET Record]
    BY <1>5, <2>1, <2>7
  <2>9. Places'
    BY <1>4, <2>1, <2>6
  <2>10. QED
    BY <1>0, <2>1, <2>5, <2>8, <2>9 DEF Types, Drafts
<1>10. ASSUME NEW c \in Client, Confirm(c) PROVE Types'
  <2>1. place[c] \in Sent
    BY <1>0, <1>10 DEF Confirm, Awaits, Types, Places, Place
  <2>2. Place([at |-> "draining", page |-> {r \in place[c].page : r.op # place[c].op},
               repaired |-> place[c].repaired])
    BY <2>1 DEF Place, Sent, Draining
  <2>3. Places'
    BY <1>4, <1>10, <2>2 DEF Confirm
  <2>4. {r \in outbox[c] : r.op # place[c].op} \in SUBSET Record
    BY <1>0 DEF Types
  <2>5. outbox' \in [Client -> SUBSET Record]
    BY <1>5, <1>10, <2>4 DEF Confirm
  <2>6. clock' \in [Client -> Clock]
    <3>1. place[c].revision \in Nat /\ clock[c] \in Clock
      BY <1>0, <2>1 DEF Sent, Types
    <3>2. [clock[c] EXCEPT !.revision = Larger(@, place[c].revision)] \in Clock
      BY <3>1 DEF Clock, Larger
    <3>3. QED
      BY <1>0, <1>10, <3>2 DEF Confirm, Types
  <2>7. QED
    BY <1>0, <1>10, <2>3, <2>5, <2>6 DEF Confirm, Types, Drafts
<1>11. ASSUME NEW c \in Client, Refused(c) PROVE Types'
  <2>1. PICK verdict \in {"conflict"} \cup ({"replay"} \cap {place[c].answer}) :
          /\ outbox' = Marked(c, place[c].op, verdict)
          /\ Go(c, [at |-> "fetching", repair |-> verdict = "replay" /\ ~place[c].repaired])
    BY <1>11 DEF Refused
  <2>2. verdict \in States
    BY <2>1 DEF States
  <2>3. outbox' \in [Client -> SUBSET Record]
    BY <1>6, <2>1, <2>2
  <2>4. (verdict = "replay" /\ ~place[c].repaired) \in BOOLEAN
    OBVIOUS
  <2>5. Place([at |-> "fetching", repair |-> verdict = "replay" /\ ~place[c].repaired])
    BY <2>4 DEF Place, Fetching
  <2>6. Places'
    BY <1>4, <2>1, <2>5
  <2>7. QED
    BY <1>0, <1>11, <2>3, <2>6 DEF Refused, Types, Drafts
<1>12. ASSUME NEW c \in Client, GiveUp(c) PROVE Types'
  <2>1. outbox' \in [Client -> SUBSET Record]
    BY <1>6, <1>12 DEF GiveUp, States
  <2>2. Places'
    BY <1>4, <1>12 DEF GiveUp, Resting, Place
  <2>3. QED
    BY <1>0, <1>12, <2>1, <2>2 DEF GiveUp, Types, Drafts
<1>13. ASSUME NEW c \in Client,
              \/ ListPage(c) \/ ResumeRepair(c) \/ StopDrain(c) \/ FetchDelta(c)
              \/ ListOutbox(c) \/ DrainFails(c) \/ Restart(c)
       PROVE  Types'
  <2>1. CASE ListPage(c)
    <3>1. Page(outbox[c]) \in SUBSET Record
      BY <1>0 DEF Page, Types
    <3>2. Repaired(c) \in BOOLEAN
      <4>1. place[c].at = "draining" => place[c].repaired \in BOOLEAN
        BY <1>0 DEF Types, Places, Place, Draining
      <4>2. QED
        BY <4>1 DEF Repaired
    <3>3. Place([at |-> "draining", page |-> Page(outbox[c]), repaired |-> Repaired(c)])
      BY <3>1, <3>2 DEF Place, Draining
    <3>4. Places'
      BY <1>4, <2>1, <3>3 DEF ListPage
    <3>5. QED
      BY <1>0, <2>1, <3>4 DEF ListPage, Types, Drafts
  <2>2. CASE ResumeRepair(c)
    <3>1. Place([at |-> "fetching", repair |-> TRUE])
      BY DEF Place, Fetching
    <3>2. Places'
      BY <1>4, <2>2, <3>1 DEF ResumeRepair
    <3>3. QED
      BY <1>0, <2>2, <3>2 DEF ResumeRepair, Types, Drafts
  <2>3. CASE StopDrain(c) \/ DrainFails(c)
    <3>1. Places'
      BY <1>4, <2>3 DEF StopDrain, DrainFails, Resting, Place
    <3>2. QED
      BY <1>0, <2>3, <3>1 DEF StopDrain, DrainFails, Types, Drafts
  <2>4. CASE Restart(c)
    <3>1. Places'
      BY <1>4, <2>4 DEF Restart, Resting, Place
    <3>2. Drafts'
      BY <1>0, <2>4 DEF Restart, Types, Drafts
    <3>3. QED
      BY <1>0, <2>4, <3>1, <3>2 DEF Restart, Types
  <2>5. CASE FetchDelta(c)
    <3>1. place[c] \in Fetching /\ batch.sequence \in Nat /\ batch.revision \in Nat
      BY <1>0, <2>5 DEF FetchDelta, Types, Places, Place
    <3>2. Place([at |-> "delta", repair |-> place[c].repair,
                 sequence |-> batch.sequence, revision |-> batch.revision])
      BY <3>1 DEF Place, Fetching, Delta
    <3>3. Places'
      BY <1>4, <2>5, <3>2 DEF FetchDelta
    <3>4. QED
      BY <1>0, <2>5, <3>3 DEF FetchDelta, Types, Drafts
  <2>6. CASE ListOutbox(c)
    <3>1. place[c] \in Listing /\ outbox[c] \in SUBSET Record
      BY <1>0, <2>6 DEF ListOutbox, Types, Places, Place
    <3>2. Place([at |-> "rebasing", records |-> outbox[c],
                 sequence |-> place[c].sequence, revision |-> place[c].revision])
      BY <3>1 DEF Place, Listing, Rebasing
    <3>3. Places'
      BY <1>4, <2>6, <3>2 DEF ListOutbox
    <3>4. QED
      BY <1>0, <2>6, <3>3 DEF ListOutbox, Types, Drafts
  <2>7. QED
    BY <1>13, <2>1, <2>2, <2>3, <2>4, <2>5, <2>6
<1>14. ASSUME NEW c \in Client, ApplyDelta(c) PROVE Types'
  <2>1. place[c] \in Delta /\ place[c].sequence \in Nat /\ place[c].revision \in Nat
    BY <1>0, <1>14 DEF ApplyDelta, Types, Places, Place, Delta
  <2>2. Places'
    <3>1. Place([at |-> "listing", sequence |-> place[c].sequence,
                 revision |-> place[c].revision])
      BY <2>1 DEF Place, Listing
    <3>2. Place(Resting)
      BY DEF Place, Resting
    <3>3. QED
      BY <1>4, <1>14, <3>1, <3>2 DEF ApplyDelta
  <2>3. AdvancedClock(clock[c], place[c]) \in Clock
    BY <2>1, OutboxFacts DEF AdvancedClock, Larger, Clock
  <2>4. clock' \in [Client -> Clock]
    BY <1>0, <1>14, <2>3 DEF ApplyDelta, Types
  <2>5. QED
    BY <1>0, <1>14, <2>2, <2>4 DEF ApplyDelta, Types, Drafts
<1>15. ASSUME NEW c \in Client, Rebase(c) PROVE Types'
  <2> DEFINE old == place[c].records
             new == Renumbered(old, place[c])
             kept == {r \in outbox[c] \ old : \A q \in new : q.sequence # r.sequence}
  <2>1. /\ old \subseteq outbox[c] /\ old \in SUBSET Record /\ IsFiniteSet(old)
        /\ place[c].sequence \in Nat /\ place[c].revision \in Nat
        /\ overlapped' = overlapped \cup {r.op : r \in outbox[c] \ old}
        /\ outbox'[c] = kept \cup new
        /\ \A d \in Client \ {c} : outbox'[d] = outbox[d] /\ clock'[d] = clock[d]
        /\ clock'[c] \in Clock
    BY <1>15, RebasedOutbox
  <2>2. \A r, q \in old : r.sequence = q.sequence => r = q
    BY <2>1, OutboxFacts
  <2> HIDE DEF old
  <2>3. new \in SUBSET Record
    BY <2>1, <2>2, RenumberedFacts
  <2>4. kept \in SUBSET Record
    BY OutboxFacts
  <2> HIDE DEF new, kept
  <2>5. outbox' \in [Client -> SUBSET Record]
    <3>1. DOMAIN outbox' = Client
      BY <1>0, <1>15 DEF Rebase, Types
    <3>2. \A d \in Client : outbox'[d] \in SUBSET Record
      BY <1>0, <2>1, <2>3, <2>4 DEF Types
    <3>3. \E f : outbox' = [outbox EXCEPT ![c] = f]
      BY <1>15 DEF Rebase
    <3>4. QED
      BY <1>0, <1>5, <2>1, <2>3, <2>4, <3>3 DEF Types
  <2>7. clock' \in [Client -> Clock]
    <3>1. \E f : clock' = [clock EXCEPT ![c] = f]
      BY <1>15 DEF Rebase
    <3>2. QED
      BY <1>0, <2>1, <3>1 DEF Types
  <2>8. overlapped' \subseteq Op
    BY <1>0, <2>1, OutboxFacts DEF Types
  <2>9. Place([at |-> "draining", page |-> {}, repaired |-> TRUE])
    BY DEF Place, Draining
  <2>10. Places'
    BY <1>4, <1>15, <2>9 DEF Rebase
  <2>11. QED
    BY <1>0, <1>15, <2>5, <2>7, <2>8, <2>10 DEF Rebase, Types, Drafts
<1>16. ASSUME NEW c \in Client, Takeover(c) PROVE Types'
  BY <1>0, <1>16 DEF Takeover, Types, Places, Drafts, drain
<1>17. QED
  BY <1>1, <1>2, <1>3, <1>7, <1>8, <1>9, <1>10, <1>11, <1>12, <1>13, <1>14, <1>15, <1>16
     DEF Next, Receive

-----------------------------------------------------------------------------
(* Records sent, refused or given up keep their operation and number. *)
SameKeys(new, old) ==
    /\ IsFiniteSet(new)
    /\ \A n \in new : \E r \in old : n.op = r.op /\ n.sequence = r.sequence
    /\ \A r \in old : \E n \in new : n.op = r.op /\ n.sequence = r.sequence
    /\ \A n, m \in new : n.sequence = m.sequence => n = m

Kept(c) ==
    /\ decided'[c] = decided[c]
    /\ \/ outbox'[c] = outbox[c] /\ clock'[c].sequence >= clock[c].sequence
       \/ SameKeys(outbox'[c], outbox[c]) /\ clock'[c] = clock[c]

LEMMA MarkedKeys ==
  ASSUME IInv, NEW c \in Client, NEW o, NEW st, outbox' = Marked(c, o, st)
  PROVE  /\ SameKeys(outbox'[c], outbox[c])
         /\ \A d \in Client \ {c} : outbox'[d] = outbox[d]
<1> DEFINE N(r) == IF r.op = o THEN [r EXCEPT !.state = st] ELSE r
           f == [r \in outbox[c] |-> N(r)]
<1>1. /\ outbox'[c] = {N(r) : r \in outbox[c]}
      /\ \A d \in Client \ {c} : outbox'[d] = outbox[d]
  BY DEF IInv, Types, Marked
<1>2. ASSUME NEW r \in outbox[c]
      PROVE  N(r).op = r.op /\ N(r).sequence = r.sequence
  <2>1. r \in Record
    BY OutboxFacts
  <2>2. QED
    BY <2>1 DEF Record
<1> HIDE DEF N
<1>3. \A r, q \in outbox[c] : r.sequence = q.sequence => r = q
  BY OutboxFacts
<1>4. DOMAIN f = outbox[c] /\ outbox'[c] = {f[r] : r \in outbox[c]}
  BY <1>1
<1> HIDE DEF f
<1>5. IsFiniteSet(outbox'[c])
  BY <1>4, OutboxFacts, ImageFinite
<1>6. QED
  BY <1>1, <1>2, <1>3, <1>5 DEF SameKeys

(* The record sent is the one of the outbox: the page has it under its number. *)
LEMMA SendKeys ==
  ASSUME IInv, NEW c \in Client, Send(c)
  PROVE  /\ SameKeys(outbox'[c], outbox[c])
         /\ \A d \in Client \ {c} : outbox'[d] = outbox[d]
<1> DEFINE r == First(place[c].page)
           n == [op |-> r.op, sequence |-> r.sequence, expected |-> r.expected,
                 state |-> "sending", attempts |-> r.attempts + 1]
<1>1. Drains(c) /\ Holds(c, r.op)
  BY DEF Send
<1>2. r \in place[c].page /\ place[c].at = "draining"
  BY <1>1, PageFacts DEF Drains
<1>3. PICK h \in outbox[c] : h.op = r.op
  BY <1>1 DEF Holds
<1>4. h.sequence = r.sequence
  BY <1>2, <1>3 DEF IInv, Paged
<1>5. /\ outbox'[c] = Put(outbox[c], n)
      /\ \A d \in Client \ {c} : outbox'[d] = outbox[d]
  BY DEF Send, IInv, Types
<1>6. n.op = h.op /\ n.sequence = h.sequence
  BY <1>3, <1>4
<1> HIDE DEF r, n
<1>7. \A p, q \in outbox[c] : p.sequence = q.sequence => p = q
  BY OutboxFacts
<1>8. outbox'[c] = {q \in outbox[c] : q.sequence # n.sequence} \cup {n}
  BY <1>5 DEF Put
<1>9. IsFiniteSet(outbox'[c])
  <2>1. IsFiniteSet({q \in outbox[c] : q.sequence # n.sequence})
    BY OutboxFacts, FS_Subset
  <2>2. QED
    BY <1>8, <2>1, FS_AddElement
<1>10. QED
  BY <1>3, <1>5, <1>6, <1>7, <1>8, <1>9 DEF SameKeys

(* What a step does to the store of one client. *)
LEMMA Effect ==
  ASSUME IInv, [Next]_vars, NEW c \in Client
  PROVE  \/ Kept(c)
         \/ \E o \in OpsOf[c] : Decide(c, o)
         \/ Confirm(c)
         \/ Rebase(c)
<1> USE DEF host, store
<1>1. CASE UNCHANGED vars
  BY <1>1, OutboxFacts DEF Kept, vars
<1>2. CASE Receive \/ Transfer
  <2>1. UNCHANGED <<decided, outbox, clock>>
    BY <1>2 DEF Receive, Transfer, Apply, Retry, RefuseReplay, RefuseConflict, Answer
  <2>2. QED
    BY <2>1, OutboxFacts DEF Kept
<1>3. ASSUME NEW d \in Client, NEW o \in OpsOf[d], Decide(d, o), d # c PROVE Kept(c)
  <2>1. outbox'[c] = outbox[c] /\ decided'[c] = decided[c] /\ clock'[c] = clock[c]
    BY <1>3 DEF Decide, IInv, Types
  <2>2. QED
    BY <2>1, OutboxFacts DEF Kept
<1>4. ASSUME NEW d \in Client, Send(d) PROVE Kept(c)
  <2>1. decided'[c] = decided[c] /\ clock'[c] = clock[c]
    BY <1>4 DEF Send
  <2>2. QED
    BY <1>4, <2>1, SendKeys, OutboxFacts DEF Kept
<1>5. ASSUME NEW d \in Client, Refused(d) \/ GiveUp(d) PROVE Kept(c)
  <2>1. decided'[c] = decided[c] /\ clock'[c] = clock[c]
    BY <1>5 DEF Refused, GiveUp
  <2>2. \E st : outbox' = Marked(d, place[d].op, st)
    BY <1>5 DEF Refused, GiveUp
  <2>3. QED
    BY <2>1, <2>2, MarkedKeys, OutboxFacts DEF Kept
<1>6. ASSUME NEW d \in Client,
             \/ ReadClock(d) \/ RefuseDecision(d) \/ ListPage(d) \/ ResumeRepair(d)
             \/ StopDrain(d) \/ FetchDelta(d) \/ ListOutbox(d) \/ Takeover(d)
             \/ DrainFails(d) \/ Restart(d)
      PROVE  Kept(c)
  BY <1>6, OutboxFacts DEF Kept, ReadClock, RefuseDecision, ListPage, ResumeRepair, StopDrain,
     FetchDelta, ListOutbox, Takeover, DrainFails, Restart
<1>7. ASSUME NEW d \in Client, ApplyDelta(d) PROVE Kept(c)
  <2>1. decided'[c] = decided[c] /\ outbox'[c] = outbox[c]
    BY <1>7 DEF ApplyDelta
  <2>2. place[d].sequence \in Nat
    BY <1>7 DEF ApplyDelta, IInv, Types, Places, Place, Delta
  <2>3. clock' = [clock EXCEPT ![d] = AdvancedClock(clock[d], place[d])]
    BY <1>7 DEF ApplyDelta
  <2>4. AdvancedClock(clock[d], place[d]).sequence >= clock[d].sequence
    BY <2>2, OutboxFacts DEF AdvancedClock, Larger
  <2>5. clock'[c].sequence >= clock[c].sequence
    BY <2>3, <2>4, OutboxFacts DEF IInv, Types
  <2>6. QED
    BY <2>1, <2>5 DEF Kept
<1>8. ASSUME NEW d \in Client, Confirm(d) \/ Rebase(d), d # c PROVE Kept(c)
  <2>1. outbox'[c] = outbox[c] /\ decided'[c] = decided[c] /\ clock'[c] = clock[c]
    <3>1. CASE Confirm(d)
      BY <1>8, <3>1 DEF Confirm, IInv, Types
    <3>2. CASE Rebase(d)
      BY <1>8, <3>2, RebasedOutbox
    <3>3. QED
      BY <1>8, <3>1, <3>2
  <2>2. QED
    BY <2>1, OutboxFacts DEF Kept
<1>9. QED
  BY <1>1, <1>2, <1>3, <1>4, <1>5, <1>6, <1>7, <1>8 DEF Next

(* The host forgets nothing, and a decision once overlapped stays so. *)
LEMMA SettledGrows ==
  ASSUME IInv, [Next]_vars
  PROVE  Applied \subseteq Applied' /\ overlapped \subseteq overlapped'
<1> USE DEF host, store, drain
<1>1. ASSUME NEW m \in requests, Apply(m) PROVE Applied \subseteq Applied'
  <2>1. applied \in Seq(Entry)
    BY DEF IInv, Types
  <2>2. \A i \in DOMAIN applied : i \in DOMAIN applied' /\ applied'[i] = applied[i]
    BY <1>1, <2>1 DEF Apply
  <2>3. QED
    BY <2>2 DEF Applied
<1>2. ASSUME ~ \E m \in requests : Apply(m) PROVE applied' = applied
  BY <1>2 DEF Next, vars, Receive, Retry, RefuseReplay, RefuseConflict, Answer, Transfer,
     ReadClock, RefuseDecision, Decide, ListPage, Send, ResumeRepair, StopDrain, Confirm,
     Refused, GiveUp, FetchDelta, ApplyDelta, ListOutbox, Rebase, Takeover, DrainFails, Restart
<1>3. Applied \subseteq Applied'
  BY <1>1, <1>2 DEF Applied
<1>4. overlapped' = overlapped \/ \E c \in Client : Rebase(c)
  BY DEF Next, vars, Receive, Apply, Retry, RefuseReplay, RefuseConflict, Answer, Transfer,
     ReadClock, RefuseDecision, Decide, ListPage, Send, ResumeRepair, StopDrain, Confirm,
     Refused, GiveUp, FetchDelta, ApplyDelta, ListOutbox, Takeover, DrainFails, Restart
<1>5. QED
  BY <1>3, <1>4 DEF Rebase

(* Outside Apply the host's log stays, only Decide adds a decision, only Send a
   request and only Rebase an overlapped decision. *)
LEMMA LogKept ==
  ASSUME [Next]_vars
  PROVE  /\ applied' = applied \/ \E m \in requests : Apply(m)
         /\ decided' = decided \/ \E c \in Client : \E o \in OpsOf[c] : Decide(c, o)
         /\ requests' \subseteq requests \/ \E c \in Client : Send(c)
         /\ overlapped' = overlapped \/ \E c \in Client : Rebase(c)
  BY DEF Next, vars, host, store, drain, Receive, Apply, Retry, RefuseReplay, RefuseConflict,
     Answer, Transfer, ReadClock, RefuseDecision, Decide, ListPage, Send, ResumeRepair,
     StopDrain, Confirm, Refused, GiveUp, FetchDelta, ApplyDelta, ListOutbox, Rebase, Takeover,
     DrainFails, Restart

-----------------------------------------------------------------------------
(* A decision takes the next number, which only an overlapped decision may have
   already; that one is replaced. *)
LEMMA DecideEffect ==
  ASSUME IInv, NEW c \in Client, NEW o \in OpsOf[c], Decide(c, o)
  PROVE  \E r \in Record :
            /\ r.op = o /\ r.sequence = clock[c].sequence + 1
            /\ outbox'[c] = {q \in outbox[c] : q.sequence # r.sequence} \cup {r}
            /\ clock'[c].sequence = clock[c].sequence + 1
            /\ decided'[c] = Append(decided[c], o)
            /\ \A i \in DOMAIN decided[c] : decided[c][i] # o
            /\ overlapped' = overlapped /\ place' = place
            /\ \A q \in outbox[c] : q.sequence = r.sequence => q.op \in overlapped
<1> DEFINE r == [op |-> o, sequence |-> draft[c].sequence, expected |-> draft[c].expected,
                 state |-> "pending", attempts |-> 0]
<1>1. draft[c].sequence = clock[c].sequence + 1 /\ draft[c].expected \in Nat
  BY DEF Decide, IInv, Types, Drafts
<1>2. r \in Record /\ r.op = o /\ r.sequence = clock[c].sequence + 1
  BY <1>1, OutboxFacts DEF Record, Op, States
<1>3. outbox'[c] = Put(outbox[c], r)
  BY DEF Decide, IInv, Types
<1> HIDE DEF r
<1>4. outbox'[c] = {q \in outbox[c] : q.sequence # r.sequence} \cup {r}
  BY <1>3 DEF Put
<1>5. /\ clock'[c].sequence = clock[c].sequence + 1 /\ decided'[c] = Append(decided[c], o)
      /\ \A i \in DOMAIN decided[c] : decided[c][i] # o
  BY DEF Decide, Undecided, IInv, Types, Clock
<1>6. overlapped' = overlapped /\ place' = place
  BY DEF Decide, drain
<1>7. \A q \in outbox[c] : q.sequence = r.sequence => q.op \in overlapped
  BY <1>2, OutboxFacts DEF IInv, Numbered
<1>8. QED
  BY <1>2, <1>4, <1>5, <1>6, <1>7

LEMMA NumberedStep ==
  ASSUME IInv, [Next]_vars, NEW c \in Client
  PROVE  Numbered(c)'
<1>1. /\ IsFiniteSet(outbox[c])
      /\ \A r, q \in outbox[c] : r.sequence = q.sequence => r = q
      /\ \A r \in outbox[c] : r.sequence <= clock[c].sequence \/ r.op \in overlapped
  BY DEF IInv, Numbered
<1>2. clock'[c].sequence \in Nat
  <2>1. Types'
    BY TypesStep
  <2>2. clock'[c] \in Clock
    BY <2>1 DEF Types
  <2>3. QED
    BY <2>2 DEF Clock
<1>3. overlapped \subseteq overlapped'
  BY SettledGrows
<1>4. CASE Kept(c)
  <2>1. CASE outbox'[c] = outbox[c] /\ clock'[c].sequence >= clock[c].sequence
    BY <1>1, <1>2, <1>3, <2>1, OutboxFacts DEF Numbered
  <2>2. CASE SameKeys(outbox'[c], outbox[c]) /\ clock'[c] = clock[c]
    BY <1>1, <1>3, <2>2 DEF Numbered, SameKeys
  <2>3. QED
    BY <1>4, <2>1, <2>2 DEF Kept
<1>5. ASSUME NEW o \in OpsOf[c], Decide(c, o) PROVE Numbered(c)'
  <2>1. PICK r \in Record :
            /\ r.sequence = clock[c].sequence + 1
            /\ outbox'[c] = {q \in outbox[c] : q.sequence # r.sequence} \cup {r}
            /\ clock'[c].sequence = clock[c].sequence + 1
    BY <1>5, DecideEffect
  <2>2. IsFiniteSet(outbox'[c])
    <3>1. IsFiniteSet({q \in outbox[c] : q.sequence # r.sequence})
      BY <1>1, FS_Subset
    <3>2. QED
      BY <2>1, <3>1, FS_AddElement
  <2>3. \A n \in outbox'[c] : n.sequence <= clock'[c].sequence \/ n.op \in overlapped'
    BY <1>1, <1>3, <2>1, OutboxFacts
  <2>4. \A n, m \in outbox'[c] : n.sequence = m.sequence => n = m
    BY <1>1, <2>1
  <2>5. QED
    BY <2>2, <2>3, <2>4 DEF Numbered
<1>6. CASE Confirm(c)
  <2>1. outbox'[c] \subseteq outbox[c] /\ clock'[c].sequence = clock[c].sequence
    <3>1. clock[c] \in Clock
      BY DEF IInv, Types
    <3>2. clock'[c] = [clock[c] EXCEPT !.revision = Larger(@, place[c].revision)]
      BY <1>6 DEF Confirm, IInv, Types
    <3>3. clock'[c].sequence = clock[c].sequence
      BY <3>1, <3>2 DEF Clock
    <3>4. QED
      BY <1>6, <3>3 DEF Confirm, IInv, Types
  <2>2. IsFiniteSet(outbox'[c])
    BY <1>1, <2>1, FS_Subset
  <2>3. QED
    BY <1>1, <1>3, <2>1, <2>2 DEF Numbered
<1>7. CASE Rebase(c)
  <2> DEFINE old == place[c].records
             new == Renumbered(old, place[c])
             kept == {r \in outbox[c] \ old : \A q \in new : q.sequence # r.sequence}
  <2>1. /\ old \subseteq outbox[c] /\ old \in SUBSET Record /\ IsFiniteSet(old)
        /\ place[c].sequence \in Nat /\ place[c].revision \in Nat
        /\ outbox'[c] = kept \cup new
        /\ clock'[c].sequence = place[c].sequence + Cardinality(old)
        /\ overlapped' = overlapped \cup {r.op : r \in outbox[c] \ old}
    BY <1>7, RebasedOutbox
  <2>2. /\ \A r, q \in old : r.sequence = q.sequence => r = q
        /\ \A r \in old : r.sequence \in Nat
    BY <2>1, OutboxFacts
  <2>3. \A r \in kept : /\ r \in outbox[c] /\ r.op \in overlapped'
                        /\ \A q \in new : q.sequence # r.sequence
    BY <2>1
  <2>4. IsFiniteSet(kept)
    BY <1>1, FS_Subset
  <2> HIDE DEF old, kept
  <2>5. /\ IsFiniteSet(new)
        /\ \A n \in new : \E r \in old :
           /\ n = [op |-> r.op, sequence |-> place[c].sequence + Rank(old, r) + 1,
                   expected |-> place[c].revision + Rank(old, r), state |-> "pending",
                   attempts |-> r.attempts]
           /\ n.sequence = place[c].sequence + Rank(old, r) + 1
           /\ n.sequence <= clock'[c].sequence
    BY <2>1, <2>2, RenumberedFacts
  <2>6. \A r, q \in old : /\ Rank(old, r) \in Nat
                          /\ Rank(old, r) = Rank(old, q) => r = q
    <3>1. /\ \A r \in old : Rank(old, r) \in Nat
          /\ \A r, q \in old : r.sequence < q.sequence => Rank(old, r) < Rank(old, q)
      BY <2>1, <2>2, RankFacts
    <3>2. QED
      BY <2>2, <3>1
  <2> HIDE DEF new
  <2>7. ASSUME NEW n \in new, NEW m \in new, n.sequence = m.sequence PROVE n = m
    <3>1. PICK r \in old :
             /\ n = [op |-> r.op, sequence |-> place[c].sequence + Rank(old, r) + 1,
                     expected |-> place[c].revision + Rank(old, r), state |-> "pending",
                     attempts |-> r.attempts]
             /\ n.sequence = place[c].sequence + Rank(old, r) + 1
      BY <2>5
    <3>2. PICK q \in old :
             /\ m = [op |-> q.op, sequence |-> place[c].sequence + Rank(old, q) + 1,
                     expected |-> place[c].revision + Rank(old, q), state |-> "pending",
                     attempts |-> q.attempts]
             /\ m.sequence = place[c].sequence + Rank(old, q) + 1
      BY <2>5
    <3>3. Rank(old, r) = Rank(old, q)
      BY <2>1, <2>6, <2>7, <3>1, <3>2
    <3>4. r = q
      BY <2>6, <3>3
    <3>5. QED
      BY <3>1, <3>2, <3>4
  <2>8. \A n, m \in outbox'[c] : n.sequence = m.sequence => n = m
    BY <1>1, <2>1, <2>3, <2>7
  <2>9. \A n \in outbox'[c] : n.sequence <= clock'[c].sequence \/ n.op \in overlapped'
    BY <2>1, <2>3, <2>5
  <2>10. IsFiniteSet(outbox'[c])
    <3>1. IsFiniteSet(new)
      BY <2>5
    <3>2. IsFiniteSet(kept \cup new)
      BY <2>4, <3>1, FS_Union
    <3>3. QED
      BY <2>1, <3>2
  <2>11. QED
    BY <2>8, <2>9, <2>10 DEF Numbered
<1>8. QED
  BY <1>4, <1>5, <1>6, <1>7, Effect

LEMMA OrderedStep ==
  ASSUME IInv, [Next]_vars, NEW c \in Client
  PROVE  Ordered(c)'
<1> DEFINE D == decided[c]
<1>0. /\ D \in Seq(Op)
      /\ \A i, j \in DOMAIN D : D[i] = D[j] => i = j
      /\ \A i \in DOMAIN D : D[i] \in OpsOf[c]
      /\ \A r \in outbox[c] : \E i \in DOMAIN D : r.op = D[i]
      /\ \A r, q \in outbox[c] : r.op = q.op => r = q
      /\ \A r, q \in outbox[c] : \A i, j \in DOMAIN D :
            (/\ r.op = D[i] /\ q.op = D[j] /\ i <= j
             /\ r.op \notin overlapped /\ q.op \notin overlapped)
            => r.sequence <= q.sequence
  BY DEF IInv, Ordered, Types
<1>1. overlapped \subseteq overlapped'
  BY SettledGrows
<1>2. CASE Kept(c)
  <2>1. CASE outbox'[c] = outbox[c]
    BY <1>0, <1>1, <1>2, <2>1 DEF Kept, Ordered
  <2>2. CASE SameKeys(outbox'[c], outbox[c])
    <3>1. /\ \A n \in outbox'[c] : \E r \in outbox[c] : n.op = r.op /\ n.sequence = r.sequence
          /\ \A n, m \in outbox'[c] : n.sequence = m.sequence => n = m
      BY <2>2 DEF SameKeys
    <3>2. decided'[c] = D
      BY <1>2 DEF Kept
    <3>3. \A n, m \in outbox'[c] : n.op = m.op => n = m
      BY <1>0, <3>1
    <3>4. QED
      BY <1>0, <1>1, <3>1, <3>2, <3>3 DEF Ordered
  <2>3. QED
    BY <1>2, <2>1, <2>2 DEF Kept
<1>3. ASSUME NEW o \in OpsOf[c], Decide(c, o) PROVE Ordered(c)'
  <2>1. PICK r \in Record :
            /\ r.op = o /\ r.sequence = clock[c].sequence + 1
            /\ outbox'[c] = {q \in outbox[c] : q.sequence # r.sequence} \cup {r}
            /\ decided'[c] = Append(D, o)
            /\ \A i \in DOMAIN D : D[i] # o
            /\ overlapped' = overlapped
    BY <1>3, DecideEffect
  <2> DEFINE E == Append(D, o)
  <2>3. /\ Len(D) \in Nat /\ DOMAIN D = 1..Len(D)
        /\ DOMAIN E = 1..(Len(D) + 1)
        /\ \A i \in DOMAIN D : E[i] = D[i]
        /\ E[Len(D) + 1] = o
    BY <1>0
  <2>4. \A q \in outbox[c] : q.sequence \in Nat
                             /\ (q.op \notin overlapped => q.sequence < r.sequence)
    BY <2>1, OutboxFacts DEF IInv, Numbered
  <2> HIDE DEF D, E
  <2>5. \A i, j \in DOMAIN E : E[i] = E[j] => i = j
    BY <1>0, <2>1, <2>3
  <2>6. \A i \in DOMAIN E : E[i] \in OpsOf[c]
    BY <1>0, <2>3
  <2>7. \A q \in outbox'[c] : \E i \in DOMAIN E : q.op = E[i]
    BY <1>0, <2>1, <2>3
  <2>8. \A p, q \in outbox'[c] : p.op = q.op => p = q
    <3>1. \A q \in outbox[c] : q.op # r.op
      BY <1>0, <2>1
    <3>2. QED
      BY <1>0, <2>1, <3>1
  <2>9. ASSUME NEW p \in outbox'[c], NEW q \in outbox'[c], NEW i \in DOMAIN E, NEW j \in DOMAIN E,
               p.op = E[i], q.op = E[j], i <= j, p.op \notin overlapped, q.op \notin overlapped
        PROVE  p.sequence <= q.sequence
    <3>1. i \in Nat /\ j \in Nat
      BY <2>3
    <3>2. r.sequence \in Nat
      BY DEF Record
    <3>3. CASE q = r
      BY <2>1, <2>4, <2>9, <3>2, <3>3
    <3>4. CASE q \in outbox[c]
      <4>1. PICK k \in DOMAIN D : q.op = D[k]
        BY <1>0, <3>4
      <4>2. j = k
        <5>1. k \in DOMAIN E /\ E[k] = D[k]
          BY <2>3
        <5>2. E[j] = E[k]
          BY <2>9, <4>1, <5>1
        <5>3. QED
          BY <2>5, <5>1, <5>2
      <4>3. i \in DOMAIN D
        BY <2>3, <2>9, <3>1, <4>2
      <4>4. p # r
        BY <2>1, <2>3, <2>9, <4>3
      <4>5. p \in outbox[c]
        BY <2>1, <4>4
      <4>6. QED
        BY <1>0, <2>3, <2>9, <3>4, <4>2, <4>3, <4>5
    <3>5. QED
      BY <2>1, <3>3, <3>4
  <2>10. decided'[c] = E /\ overlapped' = overlapped
    BY <2>1 DEF E
  <2>11. \A p, q \in outbox'[c] : \A i, j \in DOMAIN decided'[c] :
           (/\ p.op = decided'[c][i] /\ q.op = decided'[c][j] /\ i <= j
            /\ p.op \notin overlapped' /\ q.op \notin overlapped')
           => p.sequence <= q.sequence
    <3> TAKE p, q \in outbox'[c]
    <3> TAKE i, j \in DOMAIN decided'[c]
    <3> HAVE /\ p.op = decided'[c][i] /\ q.op = decided'[c][j] /\ i <= j
             /\ p.op \notin overlapped' /\ q.op \notin overlapped'
    <3>1. i \in DOMAIN E /\ j \in DOMAIN E /\ p.op = E[i] /\ q.op = E[j]
          /\ p.op \notin overlapped /\ q.op \notin overlapped
      BY <2>10
    <3>2. QED
      BY <2>9, <3>1
  <2>12. /\ \A i, j \in DOMAIN decided'[c] : decided'[c][i] = decided'[c][j] => i = j
         /\ \A i \in DOMAIN decided'[c] : decided'[c][i] \in OpsOf[c]
         /\ \A q \in outbox'[c] : \E i \in DOMAIN decided'[c] : q.op = decided'[c][i]
    BY <2>5, <2>6, <2>7, <2>10
  <2>13. QED
    BY <2>8, <2>11, <2>12 DEF Ordered
<1>4. CASE Confirm(c)
  <2>1. outbox'[c] \subseteq outbox[c] /\ decided'[c] = D
    BY <1>4 DEF Confirm, IInv, Types
  <2>2. QED
    BY <1>0, <1>1, <2>1 DEF Ordered
<1>5. CASE Rebase(c)
  <2> DEFINE old == place[c].records
             new == Renumbered(old, place[c])
             kept == {r \in outbox[c] \ old : \A q \in new : q.sequence # r.sequence}
  <2>1. /\ old \subseteq outbox[c] /\ old \in SUBSET Record /\ IsFiniteSet(old)
        /\ place[c].sequence \in Nat /\ place[c].revision \in Nat
        /\ outbox'[c] = kept \cup new
        /\ overlapped' = overlapped \cup {r.op : r \in outbox[c] \ old}
        /\ decided'[c] = D
    BY <1>5, RebasedOutbox
  <2>2. /\ \A r, q \in old : r.sequence = q.sequence => r = q
        /\ \A r \in old : r.sequence \in Nat
    BY <2>1, OutboxFacts
  <2>3. \A r \in kept : r \in outbox[c] /\ r \notin old /\ r.op \in overlapped'
    BY <2>1
  <2> HIDE DEF old, kept
  <2>4. \A n \in new : \E r \in old :
           /\ n = [op |-> r.op, sequence |-> place[c].sequence + Rank(old, r) + 1,
                   expected |-> place[c].revision + Rank(old, r), state |-> "pending",
                   attempts |-> r.attempts]
           /\ n.op = r.op
           /\ n.sequence = place[c].sequence + Rank(old, r) + 1
    BY <2>1, <2>2, RenumberedFacts
  <2> HIDE DEF new
  <2>5. /\ \A r \in old : Rank(old, r) \in Nat
        /\ \A r, q \in old : r.sequence <= q.sequence => Rank(old, r) <= Rank(old, q)
    <3>1. /\ \A r \in old : Rank(old, r) \in Nat
          /\ \A r, q \in old : r.sequence < q.sequence => Rank(old, r) < Rank(old, q)
          /\ \A r, q \in old : r.sequence = q.sequence => Rank(old, r) = Rank(old, q)
      BY <2>1, <2>2, RankFacts
    <3>2. QED
      BY <2>2, <3>1
  <2>6. ASSUME NEW n \in outbox'[c], NEW m \in outbox'[c], n.op = m.op PROVE n = m
    <3>1. CASE n \in kept /\ m \in kept
      BY <1>0, <2>3, <2>6, <3>1
    <3>2. CASE n \in new /\ m \in new
      <4>1. PICK r \in old : n = [op |-> r.op, sequence |-> place[c].sequence + Rank(old, r) + 1,
                                  expected |-> place[c].revision + Rank(old, r),
                                  state |-> "pending", attempts |-> r.attempts] /\ n.op = r.op
        BY <2>4, <3>2
      <4>2. PICK q \in old : m = [op |-> q.op, sequence |-> place[c].sequence + Rank(old, q) + 1,
                                  expected |-> place[c].revision + Rank(old, q),
                                  state |-> "pending", attempts |-> q.attempts] /\ m.op = q.op
        BY <2>4, <3>2
      <4>3. r = q
        BY <1>0, <2>1, <2>6, <4>1, <4>2
      <4>4. QED
        BY <4>1, <4>2, <4>3
    <3>3. ASSUME NEW k \in kept, NEW f \in new, k.op = f.op PROVE FALSE
      <4>1. PICK r \in old : f.op = r.op
        BY <2>4
      <4>2. k = r
        BY <1>0, <2>1, <2>3, <3>3, <4>1
      <4>3. QED
        BY <2>3, <4>2
    <3>4. QED
      BY <2>1, <2>6, <3>1, <3>2, <3>3
  <2>7. ASSUME NEW n \in outbox'[c], NEW m \in outbox'[c], NEW i \in DOMAIN D, NEW j \in DOMAIN D,
               n.op = D[i], m.op = D[j], i <= j, n.op \notin overlapped', m.op \notin overlapped'
        PROVE  n.sequence <= m.sequence
    <3>0. n \in new /\ m \in new
      BY <2>1, <2>3, <2>7
    <3>1. PICK r \in old : n.op = r.op /\ n.sequence = place[c].sequence + Rank(old, r) + 1
      BY <2>4, <3>0
    <3>2. PICK q \in old : m.op = q.op /\ m.sequence = place[c].sequence + Rank(old, q) + 1
      BY <2>4, <3>0
    <3>3. r.sequence <= q.sequence
      BY <1>0, <1>1, <2>1, <2>7, <3>1, <3>2
    <3>4. QED
      BY <2>1, <2>5, <3>1, <3>2, <3>3
  <2>8. \A n \in outbox'[c] : \E i \in DOMAIN D : n.op = D[i]
    BY <1>0, <2>1, <2>3, <2>4
  <2>9. decided'[c] = D
    BY <2>1
  <2> HIDE DEF D
  <2>10. \A n, m \in outbox'[c] : \A i, j \in DOMAIN decided'[c] :
           (/\ n.op = decided'[c][i] /\ m.op = decided'[c][j] /\ i <= j
            /\ n.op \notin overlapped' /\ m.op \notin overlapped')
           => n.sequence <= m.sequence
    <3> TAKE n, m \in outbox'[c]
    <3> TAKE i, j \in DOMAIN decided'[c]
    <3> HAVE /\ n.op = decided'[c][i] /\ m.op = decided'[c][j] /\ i <= j
             /\ n.op \notin overlapped' /\ m.op \notin overlapped'
    <3>1. i \in DOMAIN D /\ j \in DOMAIN D /\ n.op = D[i] /\ m.op = D[j]
      BY <2>9
    <3>2. QED
      BY <2>7, <3>1
  <2>11. /\ \A i, j \in DOMAIN decided'[c] : decided'[c][i] = decided'[c][j] => i = j
         /\ \A i \in DOMAIN decided'[c] : decided'[c][i] \in OpsOf[c]
         /\ \A n \in outbox'[c] : \E i \in DOMAIN decided'[c] : n.op = decided'[c][i]
    BY <1>0, <2>8, <2>9
  <2>12. QED
    BY <2>6, <2>10, <2>11 DEF Ordered
<1>6. QED
  BY <1>2, <1>3, <1>4, <1>5, Effect

(* A decision waits, is applied, or was overlapped by a repair: Confirm drops only
   what the host applied, a decision takes only the number of an overlapped one,
   and a repair keeps what it has listed. *)
LEMMA NothingLostStep ==
  ASSUME IInv, [Next]_vars
  PROVE  NothingLost'
<1> DEFINE Safe(c, o) == (\E r \in outbox[c] : r.op = o) \/ o \in Applied \/ o \in overlapped
<1> SUFFICES ASSUME NEW c \in Client, NEW i \in DOMAIN decided'[c]
             PROVE  Safe(c, decided[c][i])'
  BY DEF NothingLost, Holds
<1>1. \A j \in DOMAIN decided[c] :
         \/ \E r \in outbox[c] : r.op = decided[c][j]
         \/ decided[c][j] \in Applied
         \/ decided[c][j] \in overlapped
  BY DEF IInv, NothingLost, Holds
<1>2. Applied \subseteq Applied' /\ overlapped \subseteq overlapped'
  BY SettledGrows
<1>3. CASE Kept(c)
  BY <1>1, <1>2, <1>3 DEF Kept, SameKeys
<1>4. ASSUME NEW o \in OpsOf[c], Decide(c, o) PROVE Safe(c, decided[c][i])'
  <2>1. PICK r \in Record :
            /\ r.op = o
            /\ outbox'[c] = {q \in outbox[c] : q.sequence # r.sequence} \cup {r}
            /\ decided'[c] = Append(decided[c], o)
            /\ \A q \in outbox[c] : q.sequence = r.sequence => q.op \in overlapped
    BY <1>4, DecideEffect
  <2>2. decided[c] \in Seq(Op)
    BY DEF IInv, Types
  <2>3. (i \in DOMAIN decided[c] /\ decided'[c][i] = decided[c][i]) \/ decided'[c][i] = o
    BY <2>1, <2>2
  <2>4. CASE decided'[c][i] = o
    BY <2>1, <2>4
  <2>5. CASE i \in DOMAIN decided[c] /\ decided'[c][i] = decided[c][i]
    <3>1. ASSUME NEW q \in outbox[c], q.op = decided[c][i]
          PROVE  q \in outbox'[c] \/ decided[c][i] \in overlapped
      BY <2>1, <3>1
    <3>2. QED
      BY <1>1, <1>2, <2>5, <3>1
  <2>6. QED
    BY <2>3, <2>4, <2>5
<1>5. CASE Confirm(c)
  <2>1. decided' = decided /\ outbox'[c] = {r \in outbox[c] : r.op # place[c].op}
    BY <1>5 DEF Confirm, IInv, Types
  <2>2. place[c].op \in Applied
    BY <1>5 DEF Confirm, Awaits, IInv, Confirmed
  <2>3. QED
    BY <1>1, <1>2, <2>1, <2>2
<1>6. CASE Rebase(c)
  <2> DEFINE old == place[c].records
             new == Renumbered(old, place[c])
             kept == {r \in outbox[c] \ old : \A q \in new : q.sequence # r.sequence}
  <2>1. /\ old \subseteq outbox[c] /\ old \in SUBSET Record /\ IsFiniteSet(old)
        /\ place[c].sequence \in Nat /\ place[c].revision \in Nat
        /\ outbox'[c] = kept \cup new
        /\ overlapped' = overlapped \cup {r.op : r \in outbox[c] \ old}
        /\ decided' = decided
    BY <1>6, RebasedOutbox
  <2>2. \A r, q \in old : r.sequence = q.sequence => r = q
    BY <2>1, OutboxFacts
  <2> HIDE DEF old
  <2>3. \A r \in old : \E n \in new : n.op = r.op
    BY <2>1, <2>2, RenumberedFacts
  <2> HIDE DEF new
  <2>4. ASSUME NEW r \in outbox[c]
        PROVE  (\E n \in outbox'[c] : n.op = r.op) \/ r.op \in overlapped'
    BY <2>1, <2>3
  <2>5. QED
    BY <1>1, <1>2, <2>1, <2>4
<1>7. QED
  BY <1>3, <1>4, <1>5, <1>6, Effect

(* What a step of the host applies. *)
LEMMA ApplyEffect ==
  ASSUME IInv, NEW m \in requests, Apply(m)
  PROVE  /\ m \in Message /\ m.client \in Client /\ m.content.op \in Op
         /\ applied' = Append(applied, [client |-> m.client, op |-> m.content.op,
                                        content |-> m.content])
         /\ Applied' = Applied \cup {m.content.op}
         /\ m.content.op \notin Applied
         /\ requests' \subseteq requests /\ decided' = decided /\ overlapped' = overlapped
<1>1. m \in Message /\ m.client \in Client /\ m.content.op \in Op
  BY DEF IInv, Types, Message, Contents
<1>2. applied' = Append(applied, [client |-> m.client, op |-> m.content.op,
                                  content |-> m.content])
  BY DEF Apply
<1> DEFINE e == [client |-> m.client, op |-> m.content.op, content |-> m.content]
<1>3. applied \in Seq(Entry)
  BY DEF IInv, Types
<1>4. /\ DOMAIN applied = 1..Len(applied) /\ DOMAIN applied' = 1..(Len(applied) + 1)
      /\ \A i \in 1..Len(applied) : applied'[i] = applied[i]
      /\ applied'[Len(applied) + 1] = e /\ Len(applied) \in Nat
  BY <1>2, <1>3
<1>5. e.op = m.content.op
  OBVIOUS
<1> HIDE DEF e
<1>6. Applied' = Applied \cup {m.content.op}
  BY <1>4, <1>5 DEF Applied
<1>7. m.content.op \notin Applied
  BY DEF Apply, Acceptable, Known, Applied
<1>8. requests' \subseteq requests /\ decided' = decided /\ overlapped' = overlapped
  BY DEF Apply, Answer, store
<1>9. QED
  BY <1>1, <1>2, <1>6, <1>7, <1>8

LEMMA ConfirmedStep ==
  ASSUME IInv, [Next]_vars, NEW c \in Client
  PROVE  Confirmed(c)'
<1> USE DEF Confirmed, host, store, drain
<1>0. /\ Confirmed(c) /\ DOMAIN place = Client /\ Applied \subseteq Applied'
      /\ place[c].at = "sent" => place[c] \in Sent
  BY SettledGrows DEF IInv, Types, Places, Place
<1>1. CASE place' = place \/ place'[c] = place[c]
  BY <1>0, <1>1
<1>2. ASSUME NEW m \in requests, NEW v \in Verdict, NEW n, Answer(m, v, n),
             v = "ok" => m.content.op \in Applied'
      PROVE  Confirmed(c)'
  <2>1. m.client \in Client
    BY DEF IInv, Types, Message
  <2>2. CASE /\ c = m.client /\ place[c].at = "sent" /\ place[c].op = m.content.op
             /\ place' = [place EXCEPT ![c] = [@ EXCEPT !.answer = v, !.revision = n]]
    <3>1. place'[c] = [place[c] EXCEPT !.answer = v, !.revision = n]
      BY <1>0, <2>2
    <3>2. place'[c].op = m.content.op /\ place'[c].answer = v
      BY <1>0, <2>2, <3>1 DEF Sent
    <3>3. QED
      BY <1>2, <3>2
  <2>3. CASE place'[c] = place[c]
    BY <1>1, <2>3
  <2>4. QED
    BY <1>0, <1>2, <2>1, <2>2, <2>3 DEF Answer
<1>3. CASE Receive
  <2>1. ASSUME NEW m \in requests, Apply(m) PROVE Confirmed(c)'
    BY <1>2, <2>1, ApplyEffect DEF Apply, Verdict
  <2>2. ASSUME NEW m \in requests, Retry(m) PROVE Confirmed(c)'
    <3>1. m.content.op \in Applied
      BY <2>2 DEF Retry, ExactRetry, Known, Applied
    <3>2. QED
      BY <1>0, <1>2, <2>2, <3>1 DEF Retry, Verdict
  <2>3. ASSUME NEW m \in requests, RefuseReplay(m) \/ RefuseConflict(m) PROVE Confirmed(c)'
    BY <1>2, <2>3 DEF RefuseReplay, RefuseConflict, Verdict
  <2>4. QED
    BY <1>3, <2>1, <2>2, <2>3 DEF Receive
<1>4. ASSUME NEW d \in Client, NEW to, Go(d, to), to.at = "sent" => to.answer = "none"
      PROVE  Confirmed(c)'
  BY <1>0, <1>4 DEF Go
<1>5. ASSUME NEW d \in Client, Send(d) PROVE Confirmed(c)'
  BY <1>4, <1>5 DEF Send
<1>6. ASSUME NEW d \in Client,
             \/ ListPage(d) \/ ResumeRepair(d) \/ StopDrain(d) \/ Confirm(d) \/ Refused(d)
             \/ GiveUp(d) \/ FetchDelta(d) \/ ApplyDelta(d) \/ ListOutbox(d) \/ Rebase(d)
             \/ DrainFails(d) \/ Restart(d)
      PROVE  Confirmed(c)'
  BY <1>4, <1>6 DEF ListPage, ResumeRepair, StopDrain, Confirm, Refused, GiveUp, FetchDelta,
     ApplyDelta, ListOutbox, Rebase, DrainFails, Restart, Resting
<1>7. ASSUME NEW d \in Client,
             \/ Takeover(d) \/ ReadClock(d) \/ RefuseDecision(d)
             \/ \E o \in OpsOf[d] : Decide(d, o)
      PROVE  Confirmed(c)'
  BY <1>1, <1>7 DEF Takeover, ReadClock, RefuseDecision, Decide
<1>8. CASE Transfer \/ UNCHANGED vars
  BY <1>1, <1>8 DEF Transfer, vars
<1>9. QED
  BY <1>3, <1>5, <1>6, <1>7, <1>8 DEF Next

(* Decisions are only ever added at the end. *)
LEMMA DecidedGrows ==
  ASSUME IInv, [Next]_vars, NEW c \in Client
  PROVE  \A i \in DOMAIN decided[c] :
            i \in DOMAIN decided'[c] /\ decided'[c][i] = decided[c][i]
<1>1. CASE decided' = decided
  BY <1>1
<1>2. ASSUME NEW d \in Client, NEW o \in OpsOf[d], Decide(d, o)
      PROVE  \A i \in DOMAIN decided[c] :
                i \in DOMAIN decided'[c] /\ decided'[c][i] = decided[c][i]
  <2>1. decided[c] \in Seq(Op)
    BY DEF IInv, Types
  <2>2. decided'[c] = decided[c] \/ decided'[c] = Append(decided[c], o)
    BY <1>2 DEF Decide, IInv, Types
  <2>3. QED
    BY <2>1, <2>2
<1>3. QED
  BY <1>1, <1>2, LogKept

-----------------------------------------------------------------------------
(* How a client comes by the page it works on. *)
InDrain(p) == p.at \in {"draining", "sent"}
SamePage(c) == InDrain(place[c]) /\ place'[c].page = place[c].page

LEMMA PlaceEffect ==
  ASSUME IInv, [Next]_vars, NEW c \in Client
  PROVE  InDrain(place'[c]) =>
            SamePage(c) \/ ListPage(c) \/ Confirm(c) \/ Rebase(c)
<1> SUFFICES ASSUME InDrain(place'[c])
             PROVE  SamePage(c) \/ ListPage(c) \/ Confirm(c) \/ Rebase(c)
  OBVIOUS
<1> USE DEF SamePage, InDrain, host, store, drain
<1>0. /\ DOMAIN place = Client /\ requests \subseteq Message
      /\ place[c].at = "sent" => place[c] \in Sent
  BY DEF IInv, Types, Places, Place
<1>1. CASE place' = place \/ place'[c] = place[c]
  BY <1>1
<1>2. ASSUME NEW m \in requests, NEW v \in Verdict, NEW n, Answer(m, v, n)
      PROVE  SamePage(c)
  <2>1. m.client \in Client
    BY <1>0 DEF Message
  <2>2. CASE /\ c = m.client /\ place[c].at = "sent"
             /\ place' = [place EXCEPT ![c] = [@ EXCEPT !.answer = v, !.revision = n]]
    <3>1. place'[c] = [place[c] EXCEPT !.answer = v, !.revision = n]
      BY <1>0, <2>2
    <3>2. place'[c].page = place[c].page
      BY <1>0, <2>2, <3>1 DEF Sent
    <3>3. QED
      BY <2>2, <3>2
  <2>3. CASE place'[c] = place[c]
    BY <1>1, <2>3
  <2>4. QED
    BY <1>0, <1>2, <2>1, <2>2, <2>3 DEF Answer
<1>3. CASE Receive
  BY <1>2, <1>3 DEF Receive, Apply, Retry, RefuseReplay, RefuseConflict, Verdict
<1>4. ASSUME NEW d \in Client, NEW to, Go(d, to), ~InDrain(to) PROVE SamePage(c)
  BY <1>0, <1>4 DEF Go
<1>5. ASSUME NEW d \in Client, Send(d) PROVE SamePage(c)
  <2>1. place[d].at = "draining"
    BY <1>5 DEF Send, Drains
  <2>2. \E to : Go(d, to) /\ to.page = place[d].page
    BY <1>5 DEF Send
  <2>3. QED
    BY <1>0, <2>1, <2>2 DEF Go
<1>6. ASSUME NEW d \in Client,
             \/ ResumeRepair(d) \/ StopDrain(d) \/ Refused(d) \/ GiveUp(d) \/ FetchDelta(d)
             \/ ApplyDelta(d) \/ ListOutbox(d) \/ DrainFails(d) \/ Restart(d)
      PROVE  SamePage(c)
  BY <1>4, <1>6 DEF ResumeRepair, StopDrain, Refused, GiveUp, FetchDelta, ApplyDelta,
     ListOutbox, DrainFails, Restart, Resting
<1>7. ASSUME NEW d \in Client,
             \/ Takeover(d) \/ ReadClock(d) \/ RefuseDecision(d)
             \/ \E o \in OpsOf[d] : Decide(d, o)
      PROVE  SamePage(c)
  BY <1>1, <1>7 DEF Takeover, ReadClock, RefuseDecision, Decide
<1>8. ASSUME NEW d \in Client, ListPage(d) \/ Confirm(d) \/ Rebase(d), d # c
      PROVE  SamePage(c)
  <2>1. \E to : Go(d, to)
    BY <1>8 DEF ListPage, Confirm, Rebase
  <2>2. QED
    BY <1>0, <1>1, <1>8, <2>1 DEF Go
<1>9. CASE Transfer \/ UNCHANGED vars
  BY <1>1, <1>9 DEF Transfer, vars
<1>10. QED
  BY <1>3, <1>5, <1>6, <1>7, <1>8, <1>9 DEF Next

(* Steps that leave the page leave it in order, and a page is listed in order. *)
LEMMA PagedStep ==
  ASSUME IInv, [Next]_vars, NEW c \in Client
  PROVE  Paged(c)'
<1> SUFFICES ASSUME InDrain(place'[c]) PROVE Paged(c)'
  BY DEF Paged, InDrain
<1> DEFINE D == decided[c]
<1>1. Applied \subseteq Applied' /\ overlapped \subseteq overlapped'
  BY SettledGrows
<1>2. D \in Seq(Op)
  BY DEF IInv, Types
<1>3. \A i \in DOMAIN D : /\ i \in DOMAIN decided'[c] /\ decided'[c][i] = D[i]
                          /\ \A j \in 1..(i - 1) : decided'[c][j] = D[j]
  <2>1. \A i \in DOMAIN D : i \in DOMAIN decided'[c] /\ decided'[c][i] = D[i]
    BY DecidedGrows
  <2>2. \A i \in DOMAIN D : \A j \in 1..(i - 1) : j \in DOMAIN D
    BY <1>2
  <2>3. QED
    BY <2>1, <2>2
<1>4. ASSUME Paged(c), InDrain(place[c]) PROVE
         \A r \in place[c].page :
            /\ \A q \in outbox[c] : q.op = r.op => q.sequence = r.sequence
            /\ \E i \in DOMAIN D :
                  /\ D[i] = r.op
                  /\ r.op \notin overlapped => \A j \in 1..(i - 1) :
                        \/ D[j] \in Applied \cup overlapped
                        \/ \E q \in place[c].page : q.op = D[j] /\ q.sequence < r.sequence
  BY <1>4 DEF Paged, InDrain
<1>5. Paged(c)
  BY DEF IInv
<1>6. ASSUME InDrain(place[c]), NEW S, place'[c].page = S, S \subseteq place[c].page,
             \A q \in place[c].page \ S : q.op \in Applied',
             \A r \in S : \A q \in outbox'[c] : q.op = r.op => q.sequence = r.sequence
      PROVE  Paged(c)'
  <2>1. ASSUME NEW r \in S
        PROVE  \E i \in DOMAIN decided'[c] :
                  /\ decided'[c][i] = r.op
                  /\ r.op \notin overlapped' => \A j \in 1..(i - 1) :
                        \/ decided'[c][j] \in Applied' \cup overlapped'
                        \/ \E q \in S : q.op = decided'[c][j] /\ q.sequence < r.sequence
    <3>1. PICK i \in DOMAIN D :
                  /\ D[i] = r.op
                  /\ r.op \notin overlapped => \A j \in 1..(i - 1) :
                        \/ D[j] \in Applied \cup overlapped
                        \/ \E q \in place[c].page : q.op = D[j] /\ q.sequence < r.sequence
      BY <1>4, <1>5, <1>6
    <3>2. /\ i \in DOMAIN decided'[c] /\ decided'[c][i] = r.op
          /\ \A j \in 1..(i - 1) : decided'[c][j] = D[j]
      BY <1>3, <3>1
    <3> HIDE DEF D
    <3>3. ASSUME r.op \notin overlapped', NEW j \in 1..(i - 1)
          PROVE  \/ decided'[c][j] \in Applied' \cup overlapped'
                 \/ \E q \in S : q.op = decided'[c][j] /\ q.sequence < r.sequence
      <4>1. r.op \notin overlapped /\ decided'[c][j] = D[j]
        BY <1>1, <3>2, <3>3
      <4>2. CASE D[j] \in Applied \cup overlapped
        BY <1>1, <4>1, <4>2
      <4>3. ASSUME NEW q \in place[c].page, q.op = D[j], q.sequence < r.sequence
            PROVE  decided'[c][j] \in Applied' \/ q \in S
        BY <1>6, <4>1, <4>3
      <4>4. QED
        BY <3>1, <3>3, <4>1, <4>2, <4>3
    <3>4. QED
      BY <3>2, <3>3
  <2>2. QED
    BY <1>6, <2>1 DEF Paged
<1>7. CASE SamePage(c)
  <2>1. InDrain(place[c]) /\ place'[c].page = place[c].page
    BY <1>7 DEF SamePage
  <2>2. ASSUME NEW r \in place[c].page, NEW n \in outbox'[c], n.op = r.op
        PROVE  n.sequence = r.sequence
    <3>1. /\ \A q \in outbox[c] : q.op = r.op => q.sequence = r.sequence
          /\ \E i \in DOMAIN D : D[i] = r.op
      BY <1>4, <1>5, <2>1
    <3>2. CASE Kept(c)
      BY <2>2, <3>1, <3>2 DEF Kept, SameKeys
    <3>3. ASSUME NEW o \in OpsOf[c], Decide(c, o) PROVE n.sequence = r.sequence
      <4>1. PICK x \in Record :
               /\ x.op = o /\ outbox'[c] = {q \in outbox[c] : q.sequence # x.sequence} \cup {x}
               /\ \A i \in DOMAIN D : D[i] # o
        BY <3>3, DecideEffect
      <4>2. n # x
        BY <2>2, <3>1, <4>1
      <4>3. n \in outbox[c]
        BY <2>2, <4>1, <4>2
      <4>4. QED
        BY <2>2, <3>1, <4>3
    <3>4. CASE Confirm(c)
      <4>1. outbox'[c] \subseteq outbox[c]
        BY <3>4 DEF Confirm, IInv, Types
      <4>2. QED
        BY <2>2, <3>1, <4>1
    <3>5. CASE Rebase(c)
      <4>1. place[c].at = "rebasing"
        BY <3>5 DEF Rebase
      <4>2. QED
        BY <2>1, <4>1 DEF InDrain
    <3>6. QED
      BY <3>2, <3>3, <3>4, <3>5, Effect
  <2>3. QED
    BY <1>6, <2>1, <2>2
<1>8. CASE Confirm(c)
  <2> DEFINE S == {r \in place[c].page : r.op # place[c].op}
  <2>1. /\ place[c].at = "sent" /\ place[c].op \in Applied
        /\ outbox'[c] \subseteq outbox[c] /\ place'[c].page = S
    BY <1>8 DEF Confirm, Awaits, Go, IInv, Types, Places, Confirmed
  <2>2. InDrain(place[c])
    BY <2>1 DEF InDrain
  <2>3. \A q \in place[c].page \ S : q.op \in Applied'
    BY <1>1, <2>1
  <2>4. \A r \in S : \A q \in outbox'[c] : q.op = r.op => q.sequence = r.sequence
    BY <1>4, <1>5, <2>1, <2>2
  <2> HIDE DEF S
  <2>5. S \subseteq place[c].page
    BY DEF S
  <2>6. QED
    BY <1>6, <2>1, <2>2, <2>3, <2>4, <2>5
<1>9. CASE Rebase(c)
  BY <1>9 DEF Rebase, Go, Paged, IInv, Types, Places
<1>10. CASE ListPage(c)
  <2> DEFINE S == outbox[c]
  <2>1. /\ place'[c].page = Page(S) /\ outbox' = outbox /\ decided' = decided
        /\ overlapped' = overlapped /\ applied' = applied
    BY <1>10 DEF ListPage, Go, host, store, IInv, Types, Places
  <2>2. /\ IsFiniteSet(S) /\ \A r \in S : r.sequence \in Nat
        /\ \A r, q \in S : r.sequence = q.sequence => r = q
        /\ \A r, q \in S : r.op = q.op => r = q
    BY OutboxFacts
  <2>3. /\ \A r \in S : \E i \in DOMAIN D : r.op = D[i]
        /\ \A i, j \in DOMAIN D : D[i] = D[j] => i = j
        /\ \A r, q \in S : \A i, j \in DOMAIN D :
              (/\ r.op = D[i] /\ q.op = D[j] /\ i <= j
               /\ r.op \notin overlapped /\ q.op \notin overlapped)
              => r.sequence <= q.sequence
    BY DEF IInv, Ordered
  <2>4. \A j \in DOMAIN D : (\E q \in S : q.op = D[j]) \/ D[j] \in Applied \cup overlapped
    BY DEF IInv, NothingLost, Holds
  <2> HIDE DEF S, D
  <2>5. \A r \in Page(S) : \A q \in S : q.sequence < r.sequence => q \in Page(S)
    <3>1. /\ \A r \in S : Rank(S, r) \in Nat
          /\ \A q, r \in S : q.sequence < r.sequence => Rank(S, q) < Rank(S, r)
      BY <2>2, RankFacts
    <3>2. Page(S) = {r \in S : Rank(S, r) < PageSize} /\ PageSize \in Nat
      BY RemoteAssumption DEF Page, Rank
    <3>3. QED
      BY <3>1, <3>2
  <2>6. Page(S) \subseteq S
    BY DEF Page
  <2>7. ASSUME NEW r \in Page(S)
        PROVE  \E i \in DOMAIN D :
                  /\ D[i] = r.op
                  /\ r.op \notin overlapped => \A j \in 1..(i - 1) :
                        \/ D[j] \in Applied \cup overlapped
                        \/ \E q \in Page(S) : q.op = D[j] /\ q.sequence < r.sequence
    <3>1. r \in S
      BY <2>6
    <3>2. PICK i \in DOMAIN D : r.op = D[i]
      BY <2>3, <3>1
    <3>3. ASSUME r.op \notin overlapped, NEW j \in 1..(i - 1), D[j] \notin Applied \cup overlapped
          PROVE  \E q \in Page(S) : q.op = D[j] /\ q.sequence < r.sequence
      <4>1. j \in DOMAIN D /\ j <= i /\ j # i
        BY <1>2, <3>2
      <4>2. PICK q \in S : q.op = D[j]
        BY <2>4, <3>3, <4>1
      <4>3. q.sequence <= r.sequence
        BY <2>3, <3>1, <3>2, <3>3, <4>1, <4>2
      <4>4. q # r
        BY <2>3, <3>2, <4>1, <4>2
      <4>5. q.sequence < r.sequence
        BY <2>2, <3>1, <4>3, <4>4
      <4>6. QED
        BY <2>5, <4>2, <4>5
    <3>4. QED
      BY <3>2, <3>3
  <2>8. ASSUME NEW r \in Page(S), NEW q \in S, q.op = r.op PROVE q.sequence = r.sequence
    BY <2>2, <2>6, <2>8
  <2>9. Applied' = Applied
    BY <2>1 DEF Applied
  <2>10. outbox'[c] = S /\ decided'[c] = D /\ place'[c].page = Page(S)
    BY <2>1 DEF S, D
  <2>11. QED
    BY <2>1, <2>7, <2>8, <2>9, <2>10 DEF Paged
<1>11. QED
  BY <1>7, <1>8, <1>9, <1>10, PlaceEffect

(* The first record of a page is the first decision on it that is not settled. *)
LEMMA InTurnStep ==
  ASSUME IInv, [Next]_vars
  PROVE  InTurn'
<1>1. /\ Applied \subseteq Applied' /\ overlapped \subseteq overlapped'
      /\ requests \subseteq Message /\ InTurn
  BY SettledGrows DEF IInv, Types
<1>2. ASSUME NEW m \in requests
      PROVE  \E i \in DOMAIN decided'[m.client] :
                /\ decided'[m.client][i] = m.content.op
                /\ m.content.op \notin overlapped' => Settled(m.client, i)'
  <2>1. m.client \in Client
    BY <1>1 DEF Message
  <2>2. PICK i \in DOMAIN decided[m.client] :
                /\ decided[m.client][i] = m.content.op
                /\ m.content.op \notin overlapped => Settled(m.client, i)
    BY <1>1 DEF InTurn
  <2>3. decided[m.client] \in Seq(Op)
    BY <2>1 DEF IInv, Types
  <2>4. i \in Nat /\ \A j \in 1..(i - 1) : j \in DOMAIN decided[m.client]
    BY <2>2, <2>3
  <2>5. QED
    BY <1>1, <2>1, <2>2, <2>4, DecidedGrows DEF Settled
<1>3. CASE requests' \subseteq requests
  BY <1>2, <1>3 DEF InTurn
<1>4. ASSUME NEW c \in Client, Send(c) PROVE InTurn'
  <2> DEFINE P == place[c].page
             r == First(P)
             D == decided[c]
             n == [client |-> c, attempt |-> r.attempts + 1, content |-> Content(r)]
  <2>1. Drains(c) /\ place[c].at = "draining"
    BY <1>4 DEF Send, Drains
  <2>2. /\ r \in P /\ \A q \in P : r.sequence <= q.sequence
        /\ P \in SUBSET Record
    BY <2>1, PageFacts
  <2>3. requests' = requests \cup {n} /\ decided' = decided /\ overlapped' = overlapped
    BY <1>4 DEF Send
  <2>4. n.client = c /\ n.content.op = r.op
    BY DEF Content
  <2>5. \A q \in P : q.sequence \in Nat
    BY <2>2 DEF Record
  <2>6. PICK i \in DOMAIN D :
           /\ D[i] = r.op
           /\ r.op \notin overlapped => \A j \in 1..(i - 1) :
                 \/ D[j] \in Applied \cup overlapped
                 \/ \E q \in P : q.op = D[j] /\ q.sequence < r.sequence
    BY <2>1, <2>2 DEF IInv, Paged
  <2> HIDE DEF r, n, P, D
  <2>7. \A q \in P : ~(q.sequence < r.sequence)
    BY <2>2, <2>5
  <2>8. r.op \notin overlapped => \A j \in 1..(i - 1) : D[j] \in Applied \cup overlapped
    BY <2>6, <2>7
  <2>9. r.op \notin overlapped' => Settled(c, i)'
    BY <1>1, <2>3, <2>8 DEF Settled, D
  <2>10. ASSUME NEW m, m = n
         PROVE  \E k \in DOMAIN decided'[m.client] :
                   /\ decided'[m.client][k] = m.content.op
                   /\ m.content.op \notin overlapped' => Settled(m.client, k)'
    <3>1. m.client = c /\ m.content.op = r.op
      BY <2>4, <2>10
    <3>2. i \in DOMAIN decided'[m.client] /\ decided'[m.client][i] = m.content.op
      BY <2>3, <2>6, <3>1 DEF D
    <3>3. m.content.op \notin overlapped' => Settled(m.client, i)'
      BY <2>9, <3>1
    <3>4. QED
      BY <3>2, <3>3
  <2>11. QED
    BY <1>2, <2>3, <2>10 DEF InTurn
<1>5. QED
  BY <1>3, <1>4, LogKept

-----------------------------------------------------------------------------
LEMMA InductiveStep ==
  ASSUME IInv, [Next]_vars
  PROVE  IInv'
<1>1. Types' /\ NothingLost' /\ InTurn'
  BY TypesStep, NothingLostStep, InTurnStep
<1>2. ASSUME NEW c \in Client
      PROVE  (Numbered(c) /\ Ordered(c) /\ Paged(c) /\ Confirmed(c))'
  BY NumberedStep, OrderedStep, PagedStep, ConfirmedStep
<1>3. QED
  BY <1>1, <1>2 DEF IInv

LEMMA Inductive == Spec => []IInv
<1>1. IInv /\ [Next]_vars => IInv'
  BY InductiveStep
<1>2. QED
  BY <1>1, InitInv, PTL DEF Spec

(* remote-selection-store.ts keeps every decision until the host has applied it,
   over any number of clients, retries, takeovers and repairs; only a decision
   taken between the listing of a repair and its write can be lost. *)
THEOREM NothingIsLost == Spec => []NothingLost
<1>1. IInv => NothingLost
  BY DEF IInv
<1>2. QED
  BY <1>1, Inductive, PTL

-----------------------------------------------------------------------------
(* The host counts what it applies. *)
Counted == batch.sequence = Len(applied) /\ writer \in Client \cup {None}

LEMMA CountedStep ==
  ASSUME IInv, [Next]_vars, Counted
  PROVE  Counted'
<1> USE DEF Counted, host, store, drain
<1>1. batch \in [revision : Nat, sequence : Nat] /\ applied \in Seq(Entry)
  BY DEF IInv, Types
<1>2. ASSUME NEW m \in requests, Apply(m) PROVE Counted'
  <2>1. m.content.sequence = batch.sequence + 1
    BY <1>2 DEF Apply, Acceptable
  <2>2. batch'.sequence = batch.sequence + 1 /\ writer' = writer
    BY <1>2, <2>1 DEF Apply
  <2>3. Len(applied') = Len(applied) + 1
    BY <1>1, <1>2 DEF Apply
  <2>4. QED
    BY <2>2, <2>3
<1>3. CASE Transfer
  BY <1>1, <1>3 DEF Transfer
<1>4. ASSUME NEW c \in Client, Takeover(c) PROVE Counted'
  BY <1>4 DEF Takeover
<1>5. ASSUME ~(\E m \in requests : Apply(m)), ~Transfer, \A c \in Client : ~Takeover(c)
      PROVE  UNCHANGED <<batch, applied, writer>>
  BY <1>5 DEF Next, vars, Receive, Retry, RefuseReplay, RefuseConflict, Answer, ReadClock,
     RefuseDecision, Decide, ListPage, Send, ResumeRepair, StopDrain, Confirm, Refused, GiveUp,
     FetchDelta, ApplyDelta, ListOutbox, Rebase, DrainFails, Restart
<1>6. QED
  BY <1>2, <1>3, <1>4, <1>5

(* The host consumes one number per operation it applies; an outbox holds no
   number and no operation twice, only decided operations, and none above its
   clock but those a repair overlapped. *)
THEOREM SyncTypeCorrect == Spec => []TypeOK
<1>1. Init => Counted
  BY DEF Init, Counted
<1>2. IInv /\ Counted => TypeOK
  <2>1. SUFFICES ASSUME IInv, Counted PROVE TypeOK
    OBVIOUS
  <2>2. batch \in [revision : Nat, sequence : Nat] /\ overlapped \subseteq Op
    BY <2>1 DEF IInv, Types
  <2>3. ASSUME NEW c \in Client, NEW r \in outbox[c], NEW q \in outbox[c], r # q
        PROVE  r.sequence # q.sequence /\ r.op # q.op
    BY <2>1, <2>3, OutboxFacts
  <2>4. ASSUME NEW c \in Client, NEW r \in outbox[c]
        PROVE  /\ r.sequence \in Nat \ {0}
               /\ r.sequence <= clock[c].sequence \/ r.op \in overlapped
               /\ \E i \in DOMAIN decided[c] : decided[c][i] = r.op
               /\ r.state \in States
               /\ r.attempts \in Nat
    <3>1. r.sequence \in Nat \ {0} /\ r.state \in States /\ r.attempts \in Nat
      BY <2>1, OutboxFacts DEF Record
    <3>2. r.sequence <= clock[c].sequence \/ r.op \in overlapped
      BY <2>1 DEF IInv, Numbered
    <3>3. \E i \in DOMAIN decided[c] : decided[c][i] = r.op
      BY <2>1 DEF IInv, Ordered
    <3>4. QED
      BY <3>1, <3>2, <3>3
  <2>5. QED
    BY <2>1, <2>2, <2>3, <2>4 DEF TypeOK, Counted, States
<1>3. QED
  BY <1>1, <1>2, CountedStep, Inductive, PTL DEF Spec

-----------------------------------------------------------------------------
Log == [i \in DOMAIN applied |-> [client |-> applied[i].client, op |-> applied[i].op]]

(* What the host's log holds. *)
LEMMA LogFacts ==
  ASSUME IInv
  PROVE  /\ Log \in Seq([client : Client, op : Op]) /\ Len(Log) = Len(applied)
         /\ {Log[i].op : i \in DOMAIN Log} = Applied
<1>1. applied \in Seq(Entry)
  BY DEF IInv, Types
<1>2. /\ Len(applied) \in Nat /\ DOMAIN applied = 1..Len(applied)
      /\ \A k \in 1..Len(applied) : applied[k] \in Entry
  BY <1>1
<1>3. \A k \in 1..Len(applied) :
         [client |-> applied[k].client, op |-> applied[k].op] \in [client : Client, op : Op]
  BY <1>2 DEF Entry
<1>4. Log \in Seq([client : Client, op : Op]) /\ Len(Log) = Len(applied)
  BY <1>2, <1>3 DEF Log
<1>5. DOMAIN Log = DOMAIN applied /\ \A i \in DOMAIN applied : Log[i].op = applied[i].op
  BY DEF Log
<1>6. {Log[i].op : i \in DOMAIN Log} = Applied
  BY <1>5 DEF Applied
<1>7. QED
  BY <1>4, <1>6

(* One step of the host or of a client is a step of the delivery contract. *)
LEMMA DeliveryStep ==
  ASSUME IInv, [Next]_vars
  PROVE  [Delivery!DeliveryNext]_<<decided, overlapped, Log>>
<1>1. applied \in Seq(Entry) /\ decided \in [Client -> Seq(Op)]
  BY DEF IInv, Types
<1>2. ASSUME NEW m \in requests, Apply(m)
      PROVE  m.client \in Client
             /\ \E i \in DOMAIN decided[m.client] : Delivery!Deliver(m.client, i)
  <2> DEFINE e == [client |-> m.client, op |-> m.content.op, content |-> m.content]
             x == [client |-> m.client, op |-> m.content.op]
  <2>1. /\ m.client \in Client /\ applied' = Append(applied, e)
        /\ decided' = decided /\ overlapped' = overlapped /\ m.content.op \notin Applied
    BY <1>2, ApplyEffect
  <2>2. PICK i \in DOMAIN decided[m.client] :
           /\ decided[m.client][i] = m.content.op
           /\ m.content.op \notin overlapped => Settled(m.client, i)
    BY DEF IInv, InTurn
  <2>3. Log' = Append(Log, x)
    <3>1. /\ Len(applied) \in Nat /\ DOMAIN applied = 1..Len(applied)
          /\ DOMAIN applied' = 1..(Len(applied) + 1)
          /\ \A k \in 1..Len(applied) : applied'[k] = applied[k]
          /\ applied'[Len(applied) + 1] = e
      BY <1>1, <2>1
    <3>2. e.client = x.client /\ e.op = x.op /\ x = [client |-> e.client, op |-> e.op]
      OBVIOUS
    <3>3. Log \in Seq([client : Client, op : Op]) /\ Len(Log) = Len(applied)
      BY LogFacts
    <3> HIDE DEF e, x
    <3>4. Log' = [k \in 1..(Len(applied) + 1) |->
                     [client |-> applied'[k].client, op |-> applied'[k].op]]
      BY <3>1 DEF Log
    <3>5. Append(Log, x) = [k \in 1..(Len(applied) + 1) |->
                               IF k = Len(applied) + 1 THEN x ELSE Log[k]]
      BY <3>1, <3>3 DEF Log
    <3>6. \A k \in 1..(Len(applied) + 1) :
             [client |-> applied'[k].client, op |-> applied'[k].op]
               = (IF k = Len(applied) + 1 THEN x ELSE Log[k])
      BY <3>1, <3>2 DEF Log
    <3>7. QED
      BY <3>4, <3>5, <3>6
  <2>4. Delivery!Done = Applied
    BY LogFacts DEF Delivery!Done, Log
  <2>5. Delivery!Deliver(m.client, i)
    BY <2>1, <2>2, <2>3, <2>4 DEF Delivery!Deliver, Settled, Log
  <2>6. QED
    BY <2>1, <2>5
<1>3. ASSUME NEW c \in Client, NEW o \in OpsOf[c], Decide(c, o)
      PROVE  Delivery!TakeDecision(c, o)
  BY <1>3, DecideEffect DEF Decide, host, drain, Delivery!TakeDecision, Log
<1>4. ASSUME NEW c \in Client, Rebase(c) PROVE Delivery!Overlap
  <2>1. /\ decided' = decided
        /\ overlapped' = overlapped \cup {r.op : r \in outbox[c] \ place[c].records}
    BY <1>4, RebasedOutbox
  <2>2. Log' = Log
    BY <1>4 DEF Rebase, host, Log
  <2>3. \A r \in outbox[c] : \E i \in DOMAIN decided[c] : decided[c][i] = r.op
    BY DEF IInv, Ordered
  <2>4. QED
    BY <2>1, <2>2, <2>3 DEF Delivery!Overlap, Log
<1>5. ASSUME applied' = applied, decided' = decided, overlapped' = overlapped
      PROVE  UNCHANGED <<decided, overlapped, Log>>
  BY <1>5 DEF Log
<1>6. QED
  BY <1>2, <1>3, <1>4, <1>5, LogKept DEF Delivery!DeliveryNext, Log

(* remote_manual_selection_repository.py applies the decisions of each client in
   their order and once, over late, lost and repeated requests, takeovers and
   repairs of the clock; those that a repair overlapped at most once. *)
THEOREM DeliversInOrder == Spec => ImplementsDelivery
<1>1. Init => Delivery!DeliveryInit
  BY DEF Init, Delivery!DeliveryInit
<1>2. IInv /\ [Next]_vars => [Delivery!DeliveryNext]_<<decided, overlapped, Log>>
  BY DeliveryStep
<1>3. QED
  BY <1>1, <1>2, Inductive, PTL DEF Spec, ImplementsDelivery, Delivery!DeliverySpec, Log
=============================================================================
