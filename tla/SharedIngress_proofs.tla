------------------------- MODULE SharedIngress_proofs -------------------------
(***************************************************************************)
(* Proofs about SharedIngress, for any number of requests, imports, games  *)
(* and links, any limit and any lease.                                     *)
(*                                                                         *)
(* The invariant relates the rows a transaction has staged to the rows     *)
(* that are committed: outside the rows it has locked the two differ in    *)
(* heartbeats only, so that what the transaction counted under the         *)
(* capacity lock is still true of the table it commits into.               *)
(***************************************************************************)
EXTENDS SharedIngress, FiniteSetTheorems, TLAPS

Table == [Import -> Row \cup {None}]
Inside == {"stopping", "counting", "reading", "cutting", "committing"}
Ingress == {"counting", "reading", "cutting"}
Busy == [at : {"others", "waiting"} \cup Inside, kind : Kind, import : Import,
         now : Nat, left : SUBSET Game, number : Nat]

Types ==
    /\ clock \in Nat /\ created \in Nat
    /\ rows \in Table /\ staged.rows \in Table
    /\ DOMAIN request = Request
    /\ \A r \in Request : request[r] = Idle \/ request[r] \in Busy
    /\ link \in [Link -> {"none", "starting", "live"}]

(* Two rows that differ at most in their heartbeats. *)
Same(a, b) ==
    /\ a = None <=> b = None
    /\ a # None => a.type = b.type /\ a.expires = b.expires /\ a.number = b.number

Agree(r) == \A i \in Import \ LockedRows(r) : Same(rows[i], staged.rows[i])

Sessions(table, sessions) ==
    \A n \in sessions \ Standalone :
        \E i \in Import : table[i] # None /\ table[i].type = "online" /\ table[i].number = n

Locks ==
    /\ \A r \in Request : request[r].at \in Inside <=> capacityLock = r
    /\ \A r \in Request : request[r].at \in Ingress <=> ingressLock = r
    /\ \A l \in Management : link[l] = "starting" => ingressLock = l
    /\ \A r \in Request : request[r] # Idle => request[r].now <= clock

Stages ==
    \A r \in Request : capacityLock = r =>
        /\ Cardinality(OnlineOf(staged.rows, clock)) <= MaxOnline
        /\ Sessions(staged.rows, staged.access)
        /\ Agree(r)

Stops ==
    \A r \in Request :
        /\ request[r].at \in {"stopping"} \cup Ingress => OnlineOf(staged.rows, clock) = {}
        /\ request[r].at \in {"reading", "cutting"} =>
              \A l \in Management : link[l] \notin {"starting", "live"}

IInv ==
    /\ Types
    /\ Locks
    /\ CapacityRespected
    /\ Sessions(rows, access)
    /\ Stages
    /\ Stops

-----------------------------------------------------------------------------
(* Leases only run out. *)
LEMMA OnlineShrinks ==
  ASSUME NEW table \in Table, NEW now \in Nat, NEW later \in Nat, now <= later
  PROVE  OnlineOf(table, later) \subseteq OnlineOf(table, now)
<1>1. ASSUME NEW i \in OnlineOf(table, later) PROVE i \in OnlineOf(table, now)
  <2>1. i \in Import /\ table[i] # None
    BY DEF OnlineOf
  <2>2. table[i] \in Row
    BY <2>1 DEF Table
  <2>3. table[i].expires \in Nat
    BY <2>2 DEF Row
  <2>4. QED
    BY <2>1, <2>3 DEF OnlineOf, Unexpired
<1>2. QED
  BY <1>1

(* A set of online imports is as large as the limit allows if it is within one
   that is. *)
LEMMA FewerOnline ==
  ASSUME NEW S \in SUBSET Import, NEW T \in SUBSET S
  PROVE  /\ Cardinality(T) <= Cardinality(S)
         /\ Cardinality(S) \in Nat /\ Cardinality(T) \in Nat /\ IsFiniteSet(S)
<1>1. IsFiniteSet(S)
  BY IngressAssumption, FS_Subset
<1>2. IsFiniteSet(T) /\ Cardinality(T) <= Cardinality(S)
  BY <1>1, FS_Subset
<1>3. QED
  BY <1>1, <1>2, FS_CardinalityType

(* Closing rows and revoking their sessions leaves no session behind. *)
LEMMA RecoveredFacts ==
  ASSUME NEW table \in Table, NEW sessions, NEW gone \in SUBSET Import
  PROVE  LET done == Recovered(table, sessions, gone)
         IN  /\ done.rows \in Table
             /\ \A i \in Import : done.rows[i] = None \/ done.rows[i] = table[i]
             /\ \A i \in Import \ gone : done.rows[i] = table[i]
             /\ \A now : OnlineOf(done.rows, now) \subseteq OnlineOf(table, now)
             /\ Sessions(table, sessions) => Sessions(done.rows, done.access)
<1> DEFINE done == Recovered(table, sessions, gone)
<1>1. /\ done.rows = [i \in Import |-> IF i \in gone THEN None ELSE table[i]]
      /\ done.access = sessions \ {table[i].number : i \in gone}
  BY DEF Recovered
<1> HIDE DEF done
<1>2. done.rows \in Table
  BY <1>1 DEF Table
<1>3. /\ \A i \in Import : done.rows[i] = None \/ done.rows[i] = table[i]
      /\ \A i \in Import \ gone : done.rows[i] = table[i]
  BY <1>1
<1>4. \A now : OnlineOf(done.rows, now) \subseteq OnlineOf(table, now)
  BY <1>3 DEF OnlineOf
<1>5. ASSUME Sessions(table, sessions) PROVE Sessions(done.rows, done.access)
  <2>1. ASSUME NEW n \in done.access \ Standalone
        PROVE  \E i \in Import : /\ done.rows[i] # None /\ done.rows[i].type = "online"
                                 /\ done.rows[i].number = n
    <3>1. n \in sessions \ Standalone /\ \A i \in gone : table[i].number # n
      BY <1>1
    <3>2. PICK i \in Import : table[i] # None /\ table[i].type = "online" /\ table[i].number = n
      BY <1>5, <3>1 DEF Sessions
    <3>3. QED
      BY <1>3, <3>1, <3>2
  <2>2. QED
    BY <2>1 DEF Sessions
<1>6. QED
  BY <1>2, <1>3, <1>4, <1>5 DEF done

LEMMA InitInv == Init => IInv
<1> SUFFICES ASSUME Init PROVE IInv
  OBVIOUS
<1> USE IngressAssumption
<1>1. Types
  BY DEF Init, Types, Table
<1>2. Locks
  BY DEF Init, Locks, Idle, Inside, Ingress, Link
<1>3. OnlineOf(rows, clock) = {}
  BY DEF Init, OnlineOf
<1>4. CapacityRespected
  BY <1>3, FS_EmptySet DEF CapacityRespected
<1>5. Sessions(rows, access) /\ Stages /\ Stops
  BY DEF Init, Sessions, Stages, Stops, Idle, Ingress
<1>6. QED
  BY <1>1, <1>2, <1>4, <1>5 DEF IInv

-----------------------------------------------------------------------------
(* A request that waits or works has its import, clock and game. *)
LEMMA BusyFacts ==
  ASSUME IInv, NEW r \in Request, request[r] # Idle
  PROVE  /\ request[r] \in Busy
         /\ request[r].import \in Import /\ request[r].now \in Nat
         /\ request[r].now <= clock
         /\ GameOf[request[r].import] = Game_(r)
<1>1. request[r] \in Busy
  BY DEF IInv, Types
<1>2. request[r].now <= clock
  BY DEF IInv, Locks
<1>3. QED
  BY <1>1, <1>2 DEF Busy, Game_

(* What a transaction starts from: only rows it has locked are closed. *)
LEMMA SweptFacts ==
  ASSUME IInv, NEW r \in Request, request[r] # Idle, NEW now
  PROVE  LET base == Swept(r, now)
         IN  /\ base = [rows |-> base.rows, access |-> base.access]
             /\ base.rows \in Table
             /\ \A i \in Import : base.rows[i] = None \/ base.rows[i] = rows[i]
             /\ \A i \in Import \ LockedRows(r) : base.rows[i] = rows[i]
             /\ \A t : OnlineOf(base.rows, t) \subseteq OnlineOf(rows, t)
             /\ Sessions(base.rows, base.access)
<1> DEFINE i == request[r].import
           gone == ExpiredOnline(rows, Game_(r), now)
                     \cup IF rows[i] # None /\ ~Unexpired(rows[i], now) THEN {i} ELSE {}
           base == Recovered(rows, access, gone)
<1>1. i \in Import /\ GameOf[i] = Game_(r)
  BY BusyFacts
<1>2. gone \in SUBSET Import
  BY <1>1 DEF ExpiredOnline
<1>3. gone \subseteq LockedRows(r)
  BY <1>1 DEF ExpiredOnline, LockedRows
<1>4. Swept(r, now) = base
  BY DEF Swept
<1>5. base = [rows |-> base.rows, access |-> base.access]
  BY DEF Recovered
<1>6. rows \in Table /\ Sessions(rows, access)
  BY DEF IInv, Types
<1> HIDE DEF gone
<1>7. /\ base.rows \in Table
      /\ \A j \in Import : base.rows[j] = None \/ base.rows[j] = rows[j]
      /\ \A j \in Import \ gone : base.rows[j] = rows[j]
      /\ \A t : OnlineOf(base.rows, t) \subseteq OnlineOf(rows, t)
      /\ Sessions(base.rows, base.access)
  BY <1>2, <1>6, RecoveredFacts
<1> HIDE DEF base
<1>8. QED
  BY <1>3, <1>4, <1>5, <1>7

(* What a transaction has staged when it goes on with the lock. *)
Staged(r, table, stop) ==
    /\ capacityLock' = r /\ staged' = table
    /\ request' = [request EXCEPT ![r].at = IF stop THEN "stopping" ELSE "committing"]
    /\ table.rows \in Table
    /\ \A i \in Import \ LockedRows(r) : table.rows[i] = rows[i]
    /\ Cardinality(OnlineOf(table.rows, clock)) <= MaxOnline
    /\ Sessions(table.rows, table.access)
    /\ stop => OnlineOf(table.rows, clock) = {}

LEMMA NewRowFacts ==
  ASSUME IInv, NEW type \in {"online", "local"}, NEW now \in Nat
  PROVE  LET row == NewRow(type, now)
         IN  row \in Row /\ row # None /\ row.type = type /\ row.number = created + 1
<1>1. created \in Nat
  BY DEF IInv, Types
<1>2. NewRow(type, now) \in Row
  BY <1>1, IngressAssumption DEF NewRow, Row
<1>3. QED
  BY <1>2, IngressAssumption DEF NewRow

LEMMA OpenOnlineStages ==
  ASSUME IInv, NEW r \in Request, request[r] # Idle, OpenOnline(r)
  PROVE  /\ created' = created + 1
         /\ \E table : Staged(r, table, FALSE)
<1> DEFINE i == request[r].import
           now == request[r].now
           base == Swept(r, now)
           row == NewRow("online", now)
           table == [rows |-> [base.rows EXCEPT ![i] = row],
                     access |-> base.access \cup {created + 1}]
<1>1. i \in Import /\ now \in Nat /\ now <= clock /\ clock \in Nat /\ i \in LockedRows(r)
  BY BusyFacts DEF IInv, Types, LockedRows
<1>2. /\ base.rows \in Table
      /\ \A j \in Import \ LockedRows(r) : base.rows[j] = rows[j]
      /\ Sessions(base.rows, base.access)
  BY SweptFacts
<1>3. row \in Row /\ row # None /\ row.type = "online" /\ row.number = created + 1
  BY <1>1, NewRowFacts
<1>4. /\ base.rows[i] = None
      /\ Cardinality(OnlineOf(base.rows, now)) < MaxOnline
      /\ created' = created + 1
      /\ Proceed(r, table, FALSE)
  BY DEF OpenOnline, Counted
<1>5. table.rows = [base.rows EXCEPT ![i] = row] /\ table.access = base.access \cup {created + 1}
  OBVIOUS
<1> HIDE DEF i, now, base, row, table
<1>6. table.rows \in Table
  BY <1>1, <1>2, <1>3, <1>5 DEF Table
<1>7. \A j \in Import \ LockedRows(r) : table.rows[j] = rows[j]
  BY <1>1, <1>2, <1>5 DEF Table
<1>8. Cardinality(OnlineOf(table.rows, clock)) <= MaxOnline
  <2>1. OnlineOf(table.rows, now) \subseteq OnlineOf(base.rows, now) \cup {i}
    BY <1>1, <1>2, <1>5 DEF OnlineOf, Table
  <2>2. IsFiniteSet(OnlineOf(base.rows, now)) /\ OnlineOf(base.rows, now) \in SUBSET Import
        /\ Cardinality(OnlineOf(base.rows, now)) \in Nat
    BY FewerOnline DEF OnlineOf
  <2>3. Cardinality(OnlineOf(base.rows, now) \cup {i}) <= Cardinality(OnlineOf(base.rows, now)) + 1
    <3> DEFINE S == OnlineOf(base.rows, now)
    <3>1. IsFiniteSet(S) /\ Cardinality(S) \in Nat
      BY <2>2
    <3> HIDE DEF S
    <3>2. Cardinality(S \cup {i}) = IF i \in S THEN Cardinality(S) ELSE Cardinality(S) + 1
      BY <3>1, FS_AddElement
    <3>3. Cardinality(S \cup {i}) <= Cardinality(S) + 1
      BY <3>1, <3>2
    <3>4. QED
      BY <3>3 DEF S
  <2>4. OnlineOf(base.rows, now) \cup {i} \in SUBSET Import
    BY <1>1, <2>2
  <2>5. Cardinality(OnlineOf(base.rows, now) \cup {i}) <= MaxOnline
        /\ Cardinality(OnlineOf(base.rows, now) \cup {i}) \in Nat
    BY <1>4, <2>2, <2>3, <2>4, FewerOnline, IngressAssumption
  <2>6. OnlineOf(table.rows, clock) \subseteq OnlineOf(table.rows, now)
    BY <1>1, <1>6, OnlineShrinks
  <2>7. Cardinality(OnlineOf(table.rows, clock)) <= Cardinality(OnlineOf(base.rows, now) \cup {i})
        /\ Cardinality(OnlineOf(table.rows, clock)) \in Nat
    BY <2>1, <2>4, <2>6, FewerOnline
  <2>8. QED
    BY <2>5, <2>7, IngressAssumption
<1>9. Sessions(table.rows, table.access)
  BY <1>1, <1>2, <1>3, <1>4, <1>5 DEF Sessions, Table
<1>10. QED
  BY <1>4, <1>6, <1>7, <1>8, <1>9 DEF Staged, Proceed

(* A table with fewer online rows than the committed one keeps the limit. *)
LEMMA WithinCommitted ==
  ASSUME IInv, NEW table, OnlineOf(table, clock) \subseteq OnlineOf(rows, clock)
  PROVE  Cardinality(OnlineOf(table, clock)) <= MaxOnline
<1>1. OnlineOf(rows, clock) \in SUBSET Import
  BY DEF OnlineOf
<1>2. /\ Cardinality(OnlineOf(table, clock)) <= Cardinality(OnlineOf(rows, clock))
      /\ Cardinality(OnlineOf(table, clock)) \in Nat /\ Cardinality(OnlineOf(rows, clock)) \in Nat
  BY <1>1, FewerOnline
<1>3. QED
  BY <1>2, IngressAssumption DEF IInv, CapacityRespected

LEMMA OpenLocalStages ==
  ASSUME IInv, NEW r \in Request, request[r] # Idle, OpenLocal(r)
  PROVE  /\ created' = created + 1
         /\ \E table : \E stop \in BOOLEAN : Staged(r, table, stop)
<1> DEFINE i == request[r].import
           now == request[r].now
           base == Swept(r, now)
           row == NewRow("local", now)
           table == [base EXCEPT !.rows[i] = row]
           stop == OnlineOf(base.rows, now) = {}
<1>1. i \in Import /\ now \in Nat /\ now <= clock /\ clock \in Nat /\ i \in LockedRows(r)
  BY BusyFacts DEF IInv, Types, LockedRows
<1>2. /\ base = [rows |-> base.rows, access |-> base.access]
      /\ base.rows \in Table
      /\ \A j \in Import \ LockedRows(r) : base.rows[j] = rows[j]
      /\ \A t : OnlineOf(base.rows, t) \subseteq OnlineOf(rows, t)
      /\ Sessions(base.rows, base.access)
  BY SweptFacts
<1>3. row \in Row /\ row # None /\ row.type = "local"
  BY <1>1, NewRowFacts
<1>4. /\ base.rows[i] = None
      /\ created' = created + 1
      /\ Proceed(r, table, stop)
  BY DEF OpenLocal, Counted
<1> HIDE DEF i, now, base, row
<1>5. table.rows = [base.rows EXCEPT ![i] = row] /\ table.access = base.access
  BY <1>2
<1> HIDE DEF table
<1>6. table.rows \in Table
  BY <1>1, <1>2, <1>3, <1>5 DEF Table
<1>7. \A j \in Import \ LockedRows(r) : table.rows[j] = rows[j]
  BY <1>1, <1>2, <1>5 DEF Table
<1>8. \A t : OnlineOf(table.rows, t) \subseteq OnlineOf(base.rows, t)
  BY <1>1, <1>2, <1>3, <1>5 DEF OnlineOf, Table
<1>9. Cardinality(OnlineOf(table.rows, clock)) <= MaxOnline
  <2>1. OnlineOf(table.rows, clock) \subseteq OnlineOf(rows, clock)
    BY <1>2, <1>8
  <2>2. QED
    BY <2>1, WithinCommitted
<1>10. Sessions(table.rows, table.access)
  BY <1>1, <1>2, <1>4, <1>5 DEF Sessions, Table
<1>11. stop => OnlineOf(table.rows, clock) = {}
  <2>1. OnlineOf(table.rows, clock) \subseteq OnlineOf(table.rows, now)
    BY <1>1, <1>6, OnlineShrinks
  <2>2. QED
    BY <1>8, <2>1
<1>12. stop \in BOOLEAN
  OBVIOUS
<1> HIDE DEF stop
<1>13. Staged(r, table, stop)
  BY <1>4, <1>6, <1>7, <1>9, <1>10, <1>11 DEF Staged, Proceed
<1>14. QED
  BY <1>4, <1>12, <1>13

LEMMA ReuseStages ==
  ASSUME IInv, NEW r \in Request, request[r] # Idle, NEW now,
         Proceed(r, Swept(r, now), FALSE)
  PROVE  \E table : Staged(r, table, FALSE)
<1> DEFINE base == Swept(r, now)
<1>1. /\ base.rows \in Table
      /\ \A j \in Import \ LockedRows(r) : base.rows[j] = rows[j]
      /\ \A t : OnlineOf(base.rows, t) \subseteq OnlineOf(rows, t)
      /\ Sessions(base.rows, base.access)
  BY SweptFacts
<1>2. Proceed(r, base, FALSE)
  OBVIOUS
<1> HIDE DEF base
<1>3. Cardinality(OnlineOf(base.rows, clock)) <= MaxOnline
  BY <1>1, WithinCommitted
<1>4. QED
  BY <1>1, <1>2, <1>3 DEF Staged, Proceed

LEMMA OverviewStages ==
  ASSUME IInv, NEW r \in Request, request[r] # Idle, Overview(r)
  PROVE  \E table : \E stop \in BOOLEAN : Staged(r, table, stop)
<1> DEFINE gone == ExpiredOnline(rows, Game_(r), clock)
           base == Recovered(rows, access, gone)
           stop == OnlineOf(base.rows, clock) = {}
<1>1. gone \in SUBSET Import /\ gone \subseteq LockedRows(r)
  BY DEF ExpiredOnline, LockedRows
<1>2. rows \in Table /\ Sessions(rows, access)
  BY DEF IInv, Types
<1>3. Proceed(r, base, stop) /\ stop \in BOOLEAN
  BY DEF Overview, Counted
<1> HIDE DEF gone
<1>4. /\ base.rows \in Table
      /\ \A j \in Import \ gone : base.rows[j] = rows[j]
      /\ \A t : OnlineOf(base.rows, t) \subseteq OnlineOf(rows, t)
      /\ Sessions(base.rows, base.access)
  BY <1>1, <1>2, RecoveredFacts
<1> HIDE DEF base
<1>5. Cardinality(OnlineOf(base.rows, clock)) <= MaxOnline
  BY <1>4, WithinCommitted
<1>6. stop => OnlineOf(base.rows, clock) = {}
  OBVIOUS
<1> HIDE DEF stop
<1>7. Staged(r, base, stop)
  BY <1>1, <1>3, <1>4, <1>5, <1>6 DEF Staged, Proceed
<1>8. QED
  BY <1>3, <1>7

LEMMA CloseStages ==
  ASSUME IInv, NEW r \in Request, request[r] # Idle, Close(r)
  PROVE  \E table : \E stop \in BOOLEAN : Staged(r, table, stop)
<1> DEFINE i == request[r].import
           now == request[r].now
           shut == Recovered(rows, access, {i})
           gone == ExpiredOnline(shut.rows, Game_(r), now)
           swept == IF rows[i].type = "online"
                    THEN Recovered(shut.rows, shut.access, gone) ELSE shut
           stop == rows[i].type = "online" /\ OnlineOf(swept.rows, now) = {}
<1>1. i \in Import /\ now \in Nat /\ now <= clock /\ clock \in Nat /\ i \in LockedRows(r)
  BY BusyFacts DEF IInv, Types, LockedRows
<1>2. rows \in Table /\ Sessions(rows, access)
  BY DEF IInv, Types
<1>3. Proceed(r, swept, stop)
  BY DEF Close, Counted
<1>4. stop \in BOOLEAN /\ (stop => OnlineOf(swept.rows, now) = {})
  OBVIOUS
<1>5. /\ shut.rows \in Table
      /\ \A j \in Import : shut.rows[j] = None \/ shut.rows[j] = rows[j]
      /\ \A j \in Import \ {i} : shut.rows[j] = rows[j]
      /\ \A t : OnlineOf(shut.rows, t) \subseteq OnlineOf(rows, t)
      /\ Sessions(shut.rows, shut.access)
  BY <1>1, <1>2, RecoveredFacts
<1> HIDE DEF i, now, shut, stop
<1>6. gone \in SUBSET Import /\ gone \subseteq LockedRows(r)
  BY <1>5 DEF ExpiredOnline, LockedRows
<1> HIDE DEF gone
<1>7. LET more == Recovered(shut.rows, shut.access, gone)
      IN /\ more.rows \in Table
         /\ \A j \in Import \ gone : more.rows[j] = shut.rows[j]
         /\ \A t : OnlineOf(more.rows, t) \subseteq OnlineOf(shut.rows, t)
         /\ Sessions(more.rows, more.access)
  BY <1>5, <1>6, RecoveredFacts
<1>8. /\ swept.rows \in Table
      /\ \A j \in Import \ LockedRows(r) : swept.rows[j] = rows[j]
      /\ OnlineOf(swept.rows, clock) \subseteq OnlineOf(rows, clock)
      /\ Sessions(swept.rows, swept.access)
  <2>1. CASE rows[i].type = "online"
    <3> DEFINE more == Recovered(shut.rows, shut.access, gone)
    <3>1. swept = more
      BY <2>1
    <3> HIDE DEF swept, more
    <3>2. /\ more.rows \in Table
          /\ \A j \in Import \ gone : more.rows[j] = shut.rows[j]
          /\ \A t : OnlineOf(more.rows, t) \subseteq OnlineOf(shut.rows, t)
          /\ Sessions(more.rows, more.access)
      BY <1>7 DEF more
    <3>3. QED
      BY <1>1, <1>5, <1>6, <3>1, <3>2
  <2>2. CASE rows[i].type # "online"
    <3>1. swept = shut
      BY <2>2
    <3> HIDE DEF swept
    <3>2. QED
      BY <1>1, <1>5, <3>1
  <2>3. QED
    BY <2>1, <2>2
<1> HIDE DEF swept
<1>9. Cardinality(OnlineOf(swept.rows, clock)) <= MaxOnline
  BY <1>8, WithinCommitted
<1>10. stop => OnlineOf(swept.rows, clock) = {}
  BY <1>1, <1>4, <1>8, OnlineShrinks
<1>11. Staged(r, swept, stop)
  BY <1>3, <1>8, <1>9, <1>10 DEF Staged, Proceed
<1>12. QED
  BY <1>4, <1>11

(* Entering the transaction: refused, or on with a staged table. *)
LEMMA EnterEffect ==
  ASSUME IInv, NEW r \in Request, Enter(r)
  PROVE  /\ request[r] \in Busy /\ request[r].at = "waiting" /\ capacityLock = None
         /\ UNCHANGED <<clock, rows, access, ingressLock, link>>
         /\ created' \in Nat
         /\ \/ request' = [request EXCEPT ![r] = Idle] /\ UNCHANGED lockVars
            \/ \E table : \E stop \in BOOLEAN : Staged(r, table, stop)
<1>1. request[r].at = "waiting" /\ capacityLock = None
      /\ UNCHANGED <<clock, rows, access, ingressLock, link>>
  BY DEF Enter
<1>2. request[r] # Idle
  BY <1>1 DEF Idle
<1>3. request[r] \in Busy /\ created \in Nat
  BY <1>2 DEF IInv, Types
<1>4. CASE OpenOnline(r)
  <2>1. created' = created + 1 /\ \E table : Staged(r, table, FALSE)
    BY <1>2, <1>4, OpenOnlineStages
  <2>2. \E table : \E stop \in BOOLEAN : Staged(r, table, stop)
    BY <2>1
  <2>3. QED
    BY <1>1, <1>3, <2>1, <2>2
<1>5. CASE OpenLocal(r)
  BY <1>1, <1>2, <1>3, <1>5, OpenLocalStages
<1>6. CASE Close(r)
  <2>1. created' = created
    BY <1>6 DEF Close
  <2>2. QED
    BY <1>1, <1>2, <1>3, <1>6, <2>1, CloseStages
<1>7. CASE Overview(r)
  <2>1. created' = created
    BY <1>7 DEF Overview
  <2>2. QED
    BY <1>1, <1>2, <1>3, <1>7, <2>1, OverviewStages
<1>8. CASE OpenOnlineFull(r) \/ IngressFails(r) \/ CloseRefused(r)
  BY <1>1, <1>3, <1>8 DEF OpenOnlineFull, IngressFails, CloseRefused, Refuse
<1>9. CASE Reuse(r)
  <2>1. CASE Refuse(r)
    BY <1>1, <1>3, <2>1 DEF Refuse
  <2>2. CASE Proceed(r, Swept(r, request[r].now), FALSE) /\ UNCHANGED created
    BY <1>1, <1>2, <1>3, <2>2, ReuseStages
  <2>3. QED
    BY <1>9, <2>1, <2>2 DEF Reuse
<1>10. QED
  BY <1>4, <1>5, <1>6, <1>7, <1>8, <1>9 DEF Enter

-----------------------------------------------------------------------------
(* The owner's own sessions, and sessions that end early, touch nothing else. *)
SessionsMove ==
    (\E s \in Standalone : GiveSession(s)) \/ (\E n \in access : EndSession(n))

LEMMA SessionsMoveAlone ==
  ASSUME SessionsMove
  PROVE  /\ UNCHANGED <<clock, rows, created, request, capacityLock, ingressLock, seen,
                        tunnel, starts, link>>
         /\ staged' = [rows |-> staged.rows, access |-> staged'.access]
         /\ staged'.rows = staged.rows
         /\ access' \ Standalone \subseteq access
         /\ staged'.access \ Standalone \subseteq staged.access
<1>1. ASSUME NEW s \in Standalone, GiveSession(s)
      PROVE  /\ UNCHANGED <<clock, rows, created, request, capacityLock, ingressLock, seen,
                            tunnel, starts, link>>
             /\ \E a : /\ staged' = [rows |-> staged.rows, access |-> a]
                      /\ a \ Standalone \subseteq staged.access
             /\ access' \ Standalone \subseteq access
  BY <1>1 DEF GiveSession, tunnelVars
<1>2. ASSUME NEW n \in access, EndSession(n)
      PROVE  /\ UNCHANGED <<clock, rows, created, request, capacityLock, ingressLock, seen,
                            tunnel, starts, link>>
             /\ \E a : /\ staged' = [rows |-> staged.rows, access |-> a]
                      /\ a \ Standalone \subseteq staged.access
             /\ access' \ Standalone \subseteq access
  BY <1>2 DEF EndSession, tunnelVars
<1>3. /\ UNCHANGED <<clock, rows, created, request, capacityLock, ingressLock, seen,
                     tunnel, starts, link>>
      /\ access' \ Standalone \subseteq access
  BY <1>1, <1>2 DEF SessionsMove
<1>4. PICK a : /\ staged' = [rows |-> staged.rows, access |-> a]
               /\ a \ Standalone \subseteq staged.access
  BY <1>1, <1>2 DEF SessionsMove
<1>5. staged'.rows = staged.rows /\ staged'.access = a
  BY <1>4
<1>6. QED
  BY <1>3, <1>4, <1>5

(* Where each request and lock stands after a step. *)
LEMMA TypesStep ==
  ASSUME IInv, [Next]_vars
  PROVE  Types'
<1>0. Types
  BY DEF IInv
<1> USE IngressAssumption DEF lockVars, tunnelVars, rowVars
<1>1. ASSUME NEW r \in Request, NEW q, request' = [request EXCEPT ![r] = q],
             q = Idle \/ q \in Busy
      PROVE  /\ DOMAIN request' = Request
             /\ \A p \in Request : request'[p] = Idle \/ request'[p] \in Busy
  BY <1>0, <1>1 DEF Types
<1>2. ASSUME NEW r \in Request, NEW at \in {"others", "waiting"} \cup Inside,
             request[r] \in Busy, request' = [request EXCEPT ![r].at = at]
      PROVE  /\ DOMAIN request' = Request
             /\ \A p \in Request : request'[p] = Idle \/ request'[p] \in Busy
  <2>1. [request[r] EXCEPT !.at = at] \in Busy
    BY <1>2 DEF Busy
  <2>2. QED
    BY <1>1, <1>2, <2>1
<1>3. ASSUME NEW r \in Request, Begin(r) PROVE Types'
  <2>1. PICK k \in Kind, i \in Import :
           request' = [request EXCEPT ![r] =
            [at |-> "others", kind |-> k, import |-> i, now |-> 0,
             left |-> Game \ {GameOf[i]},
             number |-> IF k = "close" THEN rows[i].number ELSE 0]]
           /\ (k = "close" => rows[i] # None)
    BY <1>3 DEF Begin
  <2>2. (IF k = "close" THEN rows[i].number ELSE 0) \in Nat
    BY <1>0, <2>1 DEF Types, Table, Row
  <2>3. [at |-> "others", kind |-> k, import |-> i, now |-> 0,
         left |-> Game \ {GameOf[i]},
         number |-> IF k = "close" THEN rows[i].number ELSE 0] \in Busy
    BY <2>2 DEF Busy
  <2>4. QED
    BY <1>0, <1>1, <1>3, <2>1, <2>3 DEF Begin, Types
<1>4. ASSUME NEW r \in Request, RecoverOther(r) PROVE Types'
  <2>1. PICK g \in request[r].left : request' = [request EXCEPT ![r].left = @ \ {g}]
    BY <1>4 DEF RecoverOther
  <2>2. request[r] \in Busy
    BY <1>0, <1>4 DEF RecoverOther, Types, Idle
  <2>3. [request[r] EXCEPT !.left = @ \ {g}] \in Busy
    BY <2>2 DEF Busy
  <2>4. rows' \in Table /\ created' = created
    <3>1. ASSUME NEW h PROVE ExpiredOnline(rows, h, clock) \in SUBSET Import
      BY DEF ExpiredOnline
    <3>2. QED
      BY <1>0, <1>4, <3>1, RecoveredFacts DEF RecoverOther, Types
  <2>5. QED
    BY <1>0, <1>1, <1>4, <2>1, <2>3, <2>4 DEF RecoverOther, Types
<1>5. ASSUME NEW r \in Request, ReadClock(r) PROVE Types'
  <2>1. request[r] \in Busy /\ clock \in Nat
    BY <1>0, <1>5 DEF ReadClock, Types, Idle
  <2>2. [request[r] EXCEPT !.at = "waiting", !.now = clock] \in Busy
    BY <2>1 DEF Busy
  <2>3. request' = [request EXCEPT ![r] = [request[r] EXCEPT !.at = "waiting", !.now = clock]]
    BY <1>5 DEF ReadClock
  <2>4. QED
    BY <1>0, <1>1, <1>5, <2>2, <2>3 DEF ReadClock, Types
<1>6. ASSUME NEW r \in Request, Enter(r) PROVE Types'
  <2>1. request[r] \in Busy /\ UNCHANGED <<clock, rows, link>> /\ created' \in Nat
    BY <1>6, EnterEffect
  <2>2. CASE request' = [request EXCEPT ![r] = Idle] /\ UNCHANGED lockVars
    BY <1>0, <1>1, <2>1, <2>2 DEF Types
  <2>3. ASSUME NEW table, NEW stop \in BOOLEAN, Staged(r, table, stop) PROVE Types'
    <3>1. (IF stop THEN "stopping" ELSE "committing") \in {"others", "waiting"} \cup Inside
      BY DEF Inside
    <3>2. /\ DOMAIN request' = Request
          /\ \A p \in Request : request'[p] = Idle \/ request'[p] \in Busy
      BY <1>2, <2>1, <2>3, <3>1 DEF Staged
    <3>3. QED
      BY <1>0, <2>1, <2>3, <3>2 DEF Types, Staged
  <2>4. QED
    BY <1>6, <2>2, <2>3, EnterEffect
<1>7. ASSUME NEW r \in Request,
             LockIngress(r) \/ CountLinks(r) \/ ReadInstance(r) \/ StopIfCurrent(r)
      PROVE  Types'
  <2>1. PICK at \in Inside : request' = [request EXCEPT ![r].at = at]
    BY <1>7 DEF LockIngress, CountLinks, ReadInstance, StopIfCurrent, Step, Inside
  <2>2. request[r] \in Busy
    BY <1>0, <1>7 DEF LockIngress, CountLinks, ReadInstance, StopIfCurrent, Step, Types, Idle
  <2>3. /\ DOMAIN request' = Request
        /\ \A p \in Request : request'[p] = Idle \/ request'[p] \in Busy
    BY <1>2, <2>1, <2>2
  <2>4. QED
    BY <1>0, <1>7, <2>3 DEF LockIngress, CountLinks, ReadInstance, StopIfCurrent, Types
<1>8. ASSUME NEW r \in Request, Commit(r) \/ Rollback(r) PROVE Types'
  <2>1. staged' = NothingStaged
    BY <1>8 DEF Commit, Rollback
  <2>2. staged'.rows \in Table
    BY <2>1 DEF NothingStaged, Table
  <2>3. rows' \in Table
    BY <1>0, <1>8 DEF Commit, Rollback, Types, Table
  <2>4. QED
    BY <1>0, <1>1, <1>8, <2>2, <2>3 DEF Commit, Rollback, Types
<1>9. ASSUME NEW i \in Import, Heartbeat(i) PROVE Types'
  <2>1. rows[i] \in Row /\ clock \in Nat
    BY <1>0, <1>9 DEF Heartbeat, Types, Table
  <2>2. [rows[i] EXCEPT !.beat = clock] \in Row
    BY <2>1 DEF Row
  <2>3. rows' \in Table
    BY <1>0, <1>9, <2>2 DEF Heartbeat, Types, Table
  <2>4. QED
    BY <1>0, <1>9, <2>3 DEF Heartbeat, Types
<1>10. ASSUME NEW l \in Link, StartLink(l) \/ CreateLink(l) \/ LinkFails(l) \/ EndLink(l) PROVE Types'
  BY <1>0, <1>10 DEF StartLink, CreateLink, LinkFails, EndLink, Types
<1>11. CASE OperatorStop \/ OperatorStart \/ UNCHANGED vars
  BY <1>0, <1>11 DEF OperatorStop, OperatorStart, vars, Types
<1>12. CASE Tick
  BY <1>0, <1>12 DEF Tick, Types
<1>12a. CASE SessionsMove
  BY <1>0, <1>12a, SessionsMoveAlone DEF Types
<1>13. QED
  BY <1>3, <1>4, <1>5, <1>6, <1>7, <1>8, <1>9, <1>10, <1>11, <1>12, <1>12a
     DEF Next, SessionsMove

(* A step of one request leaves the others where they are. *)
LEMMA OneRequest ==
  ASSUME IInv, NEW r \in Request, NEW q, request' = [request EXCEPT ![r] = q]
  PROVE  /\ request'[r] = q
         /\ \A p \in Request \ {r} : request'[p] = request[p]
BY DEF IInv, Types

LEMMA OneMoves ==
  ASSUME IInv, NEW r \in Request, NEW at, request[r] \in Busy,
         request' = [request EXCEPT ![r].at = at]
  PROVE  /\ request'[r].at = at /\ request'[r].now = request[r].now
         /\ \A p \in Request \ {r} : request'[p] = request[p]
<1>1. request'[r] = [request[r] EXCEPT !.at = at]
  BY DEF IInv, Types
<1>2. request'[r].at = at /\ request'[r].now = request[r].now
  BY <1>1 DEF Busy
<1>3. QED
  BY <1>2 DEF IInv, Types

LEMMA LocksStep ==
  ASSUME IInv, [Next]_vars
  PROVE  Locks'
<1>0. Types /\ Locks /\ clock \in Nat
  BY DEF IInv, Types
<1>n. None \notin Request \cup Link /\ Request \cap Link = {} /\ Management \subseteq Link
  BY IngressAssumption DEF Link
<1> USE DEF lockVars, tunnelVars, rowVars
<1>1. ASSUME NEW r \in Request, Begin(r) PROVE Locks'
  <2>1. PICK q : /\ request' = [request EXCEPT ![r] = q]
                 /\ q.at = "others" /\ q.now = 0
    <3>1. PICK k \in Kind, i \in Import :
             request' = [request EXCEPT ![r] =
              [at |-> "others", kind |-> k, import |-> i, now |-> 0,
               left |-> Game \ {GameOf[i]},
               number |-> IF k = "close" THEN rows[i].number ELSE 0]]
      BY <1>1 DEF Begin
    <3> DEFINE q == [at |-> "others", kind |-> k, import |-> i, now |-> 0,
                     left |-> Game \ {GameOf[i]},
                     number |-> IF k = "close" THEN rows[i].number ELSE 0]
    <3>2. request' = [request EXCEPT ![r] = q] /\ q.at = "others" /\ q.now = 0
      BY <3>1
    <3> HIDE DEF q
    <3>3. QED
      BY <3>2
  <2>2. request'[r] = q /\ \A p \in Request \ {r} : request'[p] = request[p]
    BY <2>1, OneRequest
  <2>3. request[r].at = "idle"
    BY <1>1 DEF Begin, Idle
  <2>4. QED
    BY <1>0, <1>1, <2>1, <2>2, <2>3 DEF Begin, Locks, Inside, Ingress
<1>2. ASSUME NEW r \in Request, RecoverOther(r) PROVE Locks'
  <2>1. PICK g \in request[r].left : request' = [request EXCEPT ![r].left = @ \ {g}]
    BY <1>2 DEF RecoverOther
  <2>2. request[r] \in Busy /\ request[r] # Idle
    BY <1>0, <1>2 DEF RecoverOther, Types, Idle
  <2>3. request'[r] = [request[r] EXCEPT !.left = @ \ {g}]
        /\ \A p \in Request \ {r} : request'[p] = request[p]
    BY <2>1, OneRequest
  <2>4. request'[r].at = request[r].at /\ request'[r].now = request[r].now
    BY <2>2, <2>3 DEF Busy
  <2>5. QED
    BY <1>0, <1>2, <2>2, <2>3, <2>4 DEF RecoverOther, Locks
<1>3. ASSUME NEW r \in Request, ReadClock(r) PROVE Locks'
  <2>1. request[r] \in Busy
    BY <1>0, <1>3 DEF ReadClock, Types, Idle
  <2>2. request' = [request EXCEPT ![r] = [request[r] EXCEPT !.at = "waiting", !.now = clock]]
    BY <1>3 DEF ReadClock
  <2>3. request'[r] = [request[r] EXCEPT !.at = "waiting", !.now = clock]
        /\ \A p \in Request \ {r} : request'[p] = request[p]
    BY <2>2, OneRequest
  <2>4. request'[r].at = "waiting" /\ request'[r].now = clock
    BY <2>1, <2>3 DEF Busy
  <2>5. request[r].at = "others" /\ UNCHANGED <<clock, capacityLock, ingressLock, link>>
    BY <1>3 DEF ReadClock
  <2>6. \A a \in {"others", "waiting"} : a \notin Inside /\ a \notin Ingress
    BY DEF Inside, Ingress
  <2>7. \A p \in Request : request'[p] # Idle => request'[p].now <= clock'
    <3>1. request'[r].now <= clock'
      BY <1>0, <2>4, <2>5
    <3>2. ASSUME NEW p \in Request \ {r}, request'[p] # Idle PROVE request'[p].now <= clock'
      BY <1>0, <2>3, <2>5, <3>2 DEF Locks
    <3>3. QED
      BY <3>1, <3>2
  <2>8. \A p \in Request : /\ request'[p].at \in Inside <=> request[p].at \in Inside
                           /\ request'[p].at \in Ingress <=> request[p].at \in Ingress
    BY <2>3, <2>4, <2>5, <2>6
  <2>9. QED
    BY <1>0, <2>5, <2>7, <2>8 DEF Locks
<1>4. ASSUME NEW r \in Request, Enter(r) PROVE Locks'
  <2>1. /\ request[r] \in Busy /\ request[r].at = "waiting" /\ capacityLock = None
        /\ UNCHANGED <<clock, ingressLock, link>>
    BY <1>4, EnterEffect
  <2>2. request[r].now <= clock
    BY <1>0, <2>1 DEF Locks, Idle
  <2>3. CASE request' = [request EXCEPT ![r] = Idle] /\ UNCHANGED lockVars
    <3>1. request'[r] = Idle /\ \A p \in Request \ {r} : request'[p] = request[p]
      BY <2>3, OneRequest
    <3>2. QED
      BY <1>0, <2>1, <2>3, <3>1 DEF Locks, Inside, Ingress, Idle
  <2>4. ASSUME NEW table, NEW stop \in BOOLEAN, Staged(r, table, stop) PROVE Locks'
    <3> DEFINE at == IF stop THEN "stopping" ELSE "committing"
    <3>1. at \in Inside /\ at \notin Ingress
      BY DEF Inside, Ingress
    <3>2. request' = [request EXCEPT ![r].at = at] /\ capacityLock' = r
      BY <2>4 DEF Staged
    <3> HIDE DEF at
    <3>3. /\ request'[r].at = at /\ request'[r].now = request[r].now
          /\ \A p \in Request \ {r} : request'[p] = request[p]
      BY <2>1, <3>2, OneMoves
    <3>4. \A p \in Request : request[p].at \notin Inside
      BY <1>0, <1>n, <2>1 DEF Locks
    <3>5. request[r].at \notin Ingress
      BY <2>1 DEF Ingress
    <3>6. QED
      BY <1>0, <2>1, <2>2, <3>1, <3>2, <3>3, <3>4, <3>5 DEF Locks
  <2>5. QED
    BY <1>4, <2>3, <2>4, EnterEffect
<1>5. ASSUME NEW r \in Request, NEW at \in Inside, NEW from \in Inside, Step(r, from, at),
             clock' = clock, capacityLock' = capacityLock, link' = link,
             \/ /\ from \notin Ingress /\ ingressLock = None
                /\ at \in Ingress /\ ingressLock' = r
             \/ from \in Ingress /\ at \in Ingress /\ ingressLock' = r
             \/ from \in Ingress /\ at \notin Ingress /\ ingressLock' = None
      PROVE  Locks'
  <2>1. request[r] \in Busy /\ request[r] # Idle /\ request[r].at = from
    BY <1>0, <1>5 DEF Step, Types, Idle, Inside
  <2>2. request' = [request EXCEPT ![r].at = at]
    BY <1>5 DEF Step
  <2>3. /\ request'[r].at = at /\ request'[r].now = request[r].now
        /\ \A p \in Request \ {r} : request'[p] = request[p]
    BY <2>1, <2>2, OneMoves
  <2>4. \A p \in Request : request'[p].at \in Inside <=> capacityLock' = p
    BY <1>0, <1>5, <2>1, <2>3 DEF Locks
  <2>5. \A p \in Request : request'[p].at \in Ingress <=> ingressLock' = p
    BY <1>0, <1>n, <1>5, <2>1, <2>3 DEF Locks
  <2>6. \A l \in Management : link'[l] = "starting" => ingressLock' = l
    BY <1>0, <1>n, <1>5, <2>1 DEF Locks
  <2>7. \A p \in Request : request'[p] # Idle => request'[p].now <= clock'
    BY <1>0, <1>5, <2>1, <2>3 DEF Locks
  <2>8. QED
    BY <2>4, <2>5, <2>6, <2>7 DEF Locks
<1>6. ASSUME NEW r \in Request, LockIngress(r) PROVE Locks'
  BY <1>5, <1>6 DEF LockIngress, Inside, Ingress
<1>7. ASSUME NEW r \in Request, CountLinks(r) PROVE Locks'
  BY <1>5, <1>7 DEF CountLinks, Inside, Ingress
<1>8. ASSUME NEW r \in Request, ReadInstance(r) PROVE Locks'
  BY <1>5, <1>8 DEF ReadInstance, Inside, Ingress
<1>9. ASSUME NEW r \in Request, StopIfCurrent(r) PROVE Locks'
  BY <1>5, <1>9 DEF StopIfCurrent, Inside, Ingress
<1>10. ASSUME NEW r \in Request, Commit(r) \/ Rollback(r) PROVE Locks'
  <2>1. request' = [request EXCEPT ![r] = Idle] /\ capacityLock' = None
        /\ request[r].at \in Inside /\ UNCHANGED <<clock, link>>
    BY <1>10 DEF Commit, Rollback, Inside
  <2>2. request'[r] = Idle /\ \A p \in Request \ {r} : request'[p] = request[p]
    BY <2>1, OneRequest
  <2>3. capacityLock = r
    BY <1>0, <2>1 DEF Locks
  <2>4. ingressLock' = IF ingressLock = r THEN None ELSE ingressLock
    <3>1. CASE Commit(r)
      BY <1>0, <3>1 DEF Commit, Locks, Ingress
    <3>2. CASE Rollback(r)
      BY <3>2 DEF Rollback
    <3>3. QED
      BY <1>10, <3>1, <3>2
  <2>5. Idle.at \notin Inside /\ Idle.at \notin Ingress
    BY DEF Idle, Inside, Ingress
  <2>6. \A p \in Request : request'[p].at \in Inside <=> capacityLock' = p
    BY <1>0, <1>n, <2>1, <2>2, <2>3, <2>5 DEF Locks
  <2>7. \A p \in Request : request'[p].at \in Ingress <=> ingressLock' = p
    BY <1>0, <1>n, <2>2, <2>4, <2>5 DEF Locks
  <2>8. \A l \in Management : link'[l] = "starting" => ingressLock' = l
    BY <1>0, <1>n, <2>1, <2>4 DEF Locks
  <2>9. \A p \in Request : request'[p] # Idle => request'[p].now <= clock'
    BY <1>0, <2>1, <2>2 DEF Locks
  <2>10. QED
    BY <2>6, <2>7, <2>8, <2>9 DEF Locks
<1>11. ASSUME NEW i \in Import, Heartbeat(i) PROVE Locks'
  BY <1>0, <1>11 DEF Heartbeat, Locks
<1>12. ASSUME NEW l \in Link, StartLink(l) PROVE Locks'
  BY <1>0, <1>n, <1>12 DEF StartLink, Locks, Types
<1>13. ASSUME NEW l \in Link, CreateLink(l) PROVE Locks'
  <2>1. l \in Management => ingressLock = l
    BY <1>0, <1>13 DEF CreateLink, Locks
  <2>2. QED
    BY <1>0, <1>n, <1>13, <2>1 DEF CreateLink, Locks, Types
<1>14. ASSUME NEW l \in Link, EndLink(l) PROVE Locks'
  BY <1>0, <1>14 DEF EndLink, Locks, Types
<1>14a. ASSUME NEW l \in Link, LinkFails(l) PROVE Locks'
  <2>1. l \in Management => ingressLock = l
    BY <1>0, <1>14a DEF LinkFails, Locks
  <2>2. QED
    BY <1>0, <1>n, <1>14a, <2>1 DEF LinkFails, Locks, Types
<1>14b. CASE SessionsMove
  BY <1>0, <1>14b, SessionsMoveAlone DEF Locks
<1>15. CASE OperatorStop \/ OperatorStart \/ UNCHANGED vars
  BY <1>0, <1>15 DEF OperatorStop, OperatorStart, vars, Locks
<1>16. CASE Tick
  <2>1. \A p \in Request : request[p] # Idle => request[p].now \in Nat
    BY <1>0 DEF Types, Busy
  <2>2. QED
    BY <1>0, <1>16, <2>1 DEF Tick, Locks
<1>17. QED
  BY <1>1, <1>2, <1>3, <1>4, <1>6, <1>7, <1>8, <1>9, <1>10, <1>11, <1>12, <1>13,
     <1>14, <1>14a, <1>14b, <1>15, <1>16 DEF Next, SessionsMove

-----------------------------------------------------------------------------
(* Tables that differ in heartbeats only show the same leases and sessions. *)
LEMMA SameShows ==
  ASSUME NEW one, NEW other, \A i \in Import : Same(one[i], other[i])
  PROVE  /\ \A now : OnlineOf(one, now) = OnlineOf(other, now)
         /\ \A sessions : Sessions(other, sessions) => Sessions(one, sessions)
<1>1. ASSUME NEW now PROVE OnlineOf(one, now) = OnlineOf(other, now)
  BY DEF OnlineOf, Unexpired, Same
<1>2. ASSUME NEW sessions, Sessions(other, sessions) PROVE Sessions(one, sessions)
  BY <1>2 DEF Sessions, Same
<1>3. QED
  BY <1>1, <1>2

(* The commit: outside the locked rows the two tables agree, so the committed
   table shows what was staged. *)
LEMMA CommitFacts ==
  ASSUME IInv, NEW r \in Request, Commit(r)
  PROVE  /\ capacityLock = r /\ access' = staged.access
         /\ \A i \in Import : Same(rows'[i], staged.rows[i])
<1>1. capacityLock = r
  BY DEF IInv, Locks, Commit, Inside
<1>2. Agree(r)
  BY <1>1 DEF IInv, Stages
<1>3. access' = staged.access
      /\ rows' = [i \in Import |-> IF i \in LockedRows(r) THEN staged.rows[i] ELSE rows[i]]
  BY DEF Commit
<1>4. ASSUME NEW i \in Import PROVE Same(rows'[i], staged.rows[i])
  BY <1>2, <1>3 DEF Agree, Same
<1>5. QED
  BY <1>1, <1>3, <1>4

LEMMA HeartbeatFacts ==
  ASSUME IInv, NEW i \in Import, Heartbeat(i)
  PROVE  \A j \in Import : Same(rows'[j], rows[j])
<1>1. rows \in Table /\ rows[i] # None /\ rows' = [rows EXCEPT ![i].beat = clock]
  BY DEF IInv, Types, Heartbeat
<1>2. rows[i] \in Row /\ clock \in Nat
  BY <1>1 DEF Table, IInv, Types
<1>3. [rows[i] EXCEPT !.beat = clock] \in Row
  BY <1>2 DEF Row
<1>4. rows'[i] = [rows[i] EXCEPT !.beat = clock]
  BY <1>1 DEF Table
<1>5. Same(rows'[i], rows[i])
  BY <1>2, <1>3, <1>4, IngressAssumption DEF Same, Row
<1>6. ASSUME NEW j \in Import, j # i PROVE Same(rows'[j], rows[j])
  BY <1>1, <1>6 DEF Same, Table
<1>7. QED
  BY <1>5, <1>6

(* How a step treats the committed rows. *)
RowsKept == UNCHANGED <<rows, access, clock>>
RowsClosed ==
    /\ UNCHANGED clock /\ capacityLock = None
    /\ OnlineOf(rows', clock) \subseteq OnlineOf(rows, clock)
    /\ Sessions(rows', access')
RowsBeat == UNCHANGED <<access, clock>> /\ \A i \in Import : Same(rows'[i], rows[i])
RowsStay == UNCHANGED <<rows, clock>> /\ access' \ Standalone \subseteq access

LEMMA RowsStep ==
  ASSUME IInv, [Next]_vars
  PROVE  RowsKept \/ RowsClosed \/ RowsBeat \/ RowsStay \/ Tick \/ \E r \in Request : Commit(r)
<1> USE DEF lockVars, tunnelVars, rowVars
<1>1. ASSUME NEW r \in Request, RecoverOther(r) PROVE RowsKept \/ RowsClosed
  <2>1. CASE UNCHANGED rowVars
    BY <1>1, <2>1 DEF RecoverOther, RowsKept
  <2>2. CASE ~UNCHANGED rowVars
    <3>1. PICK g \in request[r].left :
             /\ capacityLock = None
             /\ rows' = Recovered(rows, access, ExpiredOnline(rows, g, clock)).rows
             /\ access' = Recovered(rows, access, ExpiredOnline(rows, g, clock)).access
      BY <1>1, <2>2 DEF RecoverOther
    <3>2. ExpiredOnline(rows, g, clock) \in SUBSET Import /\ rows \in Table /\ Sessions(rows, access)
      BY DEF ExpiredOnline, IInv, Types
    <3>3. OnlineOf(rows', clock) \subseteq OnlineOf(rows, clock) /\ Sessions(rows', access')
      BY <3>1, <3>2, RecoveredFacts
    <3>4. QED
      BY <1>1, <3>1, <3>3 DEF RecoverOther, RowsClosed
  <2>3. QED
    BY <2>1, <2>2
<1>2. ASSUME NEW r \in Request,
             \/ Begin(r) \/ ReadClock(r) \/ Enter(r) \/ LockIngress(r) \/ CountLinks(r)
             \/ ReadInstance(r) \/ StopIfCurrent(r) \/ Rollback(r)
      PROVE  RowsKept
  BY <1>2 DEF Begin, ReadClock, Enter, LockIngress, CountLinks, ReadInstance, StopIfCurrent,
              Rollback, RowsKept
<1>3. ASSUME NEW i \in Import, Heartbeat(i) PROVE RowsBeat
  BY <1>3, HeartbeatFacts DEF Heartbeat, RowsBeat
<1>4. ASSUME NEW l \in Link, StartLink(l) \/ CreateLink(l) \/ LinkFails(l) \/ EndLink(l) PROVE RowsKept
  BY <1>4 DEF StartLink, CreateLink, LinkFails, EndLink, RowsKept
<1>5. CASE OperatorStop \/ OperatorStart \/ UNCHANGED vars
  BY <1>5 DEF OperatorStop, OperatorStart, vars, RowsKept
<1>6. CASE SessionsMove
  BY <1>6, SessionsMoveAlone DEF RowsStay
<1>7. QED
  BY <1>1, <1>2, <1>3, <1>4, <1>5, <1>6 DEF Next, SessionsMove

(* The limit: leases end, heartbeats add none, and what is committed was counted. *)
LEMMA CapacityStep ==
  ASSUME IInv, [Next]_vars
  PROVE  CapacityRespected'
<1>0. CapacityRespected /\ clock \in Nat /\ rows \in Table
  BY DEF IInv, Types
<1>1. CASE RowsKept \/ RowsStay
  BY <1>0, <1>1 DEF RowsKept, RowsStay, CapacityRespected
<1>2. CASE RowsClosed
  <2>1. Cardinality(OnlineOf(rows', clock)) <= MaxOnline
    BY <1>2, WithinCommitted DEF RowsClosed
  <2>2. QED
    BY <1>2, <2>1 DEF RowsClosed, CapacityRespected
<1>3. CASE RowsBeat
  <2>1. OnlineOf(rows', clock) = OnlineOf(rows, clock)
    BY <1>3, SameShows DEF RowsBeat
  <2>2. QED
    BY <1>0, <1>3, <2>1 DEF RowsBeat, CapacityRespected
<1>4. CASE Tick
  <2>1. OnlineOf(rows, clock') \subseteq OnlineOf(rows, clock) /\ rows' = rows
    BY <1>0, <1>4, OnlineShrinks DEF Tick, rowVars
  <2>2. OnlineOf(rows, clock) \in SUBSET Import
    BY DEF OnlineOf
  <2>3. /\ Cardinality(OnlineOf(rows, clock')) <= Cardinality(OnlineOf(rows, clock))
        /\ Cardinality(OnlineOf(rows, clock')) \in Nat /\ Cardinality(OnlineOf(rows, clock)) \in Nat
    BY <2>1, <2>2, FewerOnline
  <2>4. QED
    BY <1>0, <2>1, <2>3, IngressAssumption DEF CapacityRespected
<1>5. ASSUME NEW r \in Request, Commit(r) PROVE CapacityRespected'
  <2>1. OnlineOf(rows', clock) = OnlineOf(staged.rows, clock)
    BY <1>5, CommitFacts, SameShows
  <2>2. Cardinality(OnlineOf(staged.rows, clock)) <= MaxOnline
    BY <1>5, CommitFacts DEF IInv, Stages
  <2>3. QED
    BY <1>5, <2>1, <2>2 DEF CapacityRespected, Commit
<1>6. QED
  BY <1>1, <1>2, <1>3, <1>4, <1>5, RowsStep

LEMMA SessionsStep ==
  ASSUME IInv, [Next]_vars
  PROVE  Sessions(rows', access')
<1>0. Sessions(rows, access)
  BY DEF IInv
<1>1. CASE RowsKept \/ RowsClosed \/ Tick
  BY <1>0, <1>1 DEF RowsKept, RowsClosed, Tick, rowVars
<1>1a. CASE RowsStay
  BY <1>0, <1>1a DEF RowsStay, Sessions
<1>2. CASE RowsBeat
  BY <1>0, <1>2, SameShows DEF RowsBeat
<1>3. ASSUME NEW r \in Request, Commit(r) PROVE Sessions(rows', access')
  <2>1. Sessions(staged.rows, staged.access)
    BY <1>3, CommitFacts DEF IInv, Stages
  <2>2. QED
    BY <1>3, <2>1, CommitFacts, SameShows
<1>4. QED
  BY <1>1, <1>1a, <1>2, <1>3, RowsStep

-----------------------------------------------------------------------------
(* What is staged stays true while the lock is held: committed rows move by
   heartbeats only, and leases run out. *)
LEMMA StagesKept ==
  ASSUME IInv, UNCHANGED capacityLock, staged'.rows = staged.rows,
         staged'.access \ Standalone \subseteq staged.access,
         clock' \in Nat, clock <= clock',
         \A i \in Import : Same(rows'[i], rows[i]),
         \A r \in Request : capacityLock = r => request'[r].import = request[r].import
  PROVE  Stages'
<1> SUFFICES ASSUME NEW r \in Request, capacityLock = r
             PROVE  /\ Cardinality(OnlineOf(staged.rows, clock')) <= MaxOnline
                    /\ Sessions(staged.rows, staged'.access)
                    /\ Agree(r)'
  BY DEF Stages
<1>1. /\ Cardinality(OnlineOf(staged.rows, clock)) <= MaxOnline
      /\ Sessions(staged.rows, staged.access) /\ Agree(r)
      /\ staged.rows \in Table /\ clock \in Nat
  BY DEF IInv, Stages, Types
<1>2. Cardinality(OnlineOf(staged.rows, clock')) <= MaxOnline
  <2>1. OnlineOf(staged.rows, clock') \subseteq OnlineOf(staged.rows, clock)
    BY <1>1, OnlineShrinks
  <2>2. OnlineOf(staged.rows, clock) \in SUBSET Import
    BY DEF OnlineOf
  <2>3. /\ Cardinality(OnlineOf(staged.rows, clock')) <= Cardinality(OnlineOf(staged.rows, clock))
        /\ Cardinality(OnlineOf(staged.rows, clock')) \in Nat
        /\ Cardinality(OnlineOf(staged.rows, clock)) \in Nat
    BY <2>1, <2>2, FewerOnline
  <2>4. QED
    BY <1>1, <2>3, IngressAssumption
<1>3. \A i \in Import : i \in LockedRows(r)' <=> i \in LockedRows(r)
  BY DEF LockedRows, Game_, Same
<1>4. \A i \in Import \ LockedRows(r)' : Same(rows'[i], staged.rows[i])
  BY <1>1, <1>3 DEF Agree, Same
<1>5. Agree(r)'
  BY <1>4 DEF Agree
<1>6. Sessions(staged.rows, staged'.access)
  BY <1>1 DEF Sessions
<1>7. QED
  BY <1>2, <1>5, <1>6

LEMMA StagesStep ==
  ASSUME IInv, [Next]_vars
  PROVE  Stages'
<1>0. Types /\ Locks /\ clock \in Nat
  BY DEF IInv, Types
<1>n. None \notin Request
  BY IngressAssumption
<1>s. \A i \in Import : Same(rows[i], rows[i])
  BY DEF Same
<1>f. capacityLock' = None => Stages'
  BY <1>n DEF Stages
<1> USE DEF lockVars, tunnelVars, rowVars
<1>1. ASSUME NEW r \in Request, request[r].at \notin Inside, UNCHANGED lockVars, clock' = clock,
             rows' = rows \/ capacityLock = None,
             \A p \in Request \ {r} : request'[p] = request[p]
      PROVE  Stages'
  <2>1. CASE capacityLock = None
    BY <1>1, <1>f, <2>1
  <2>2. CASE rows' = rows
    <3>1. \A i \in Import : Same(rows'[i], rows[i])
      BY <1>s, <2>2
    <3>2. capacityLock # r
      BY <1>0, <1>1 DEF Locks
    <3>3. \A p \in Request : capacityLock = p => request'[p].import = request[p].import
      BY <1>1, <3>2
    <3>4. clock' \in Nat /\ clock <= clock' /\ UNCHANGED <<staged, capacityLock>>
      BY <1>0, <1>1
    <3>5. QED
      BY <3>1, <3>3, <3>4, StagesKept
  <2>3. QED
    BY <1>1, <2>1, <2>2
<1>2. ASSUME NEW r \in Request, Begin(r) PROVE Stages'
  <2>1. PICK k \in Kind, i \in Import :
             request' = [request EXCEPT ![r] =
              [at |-> "others", kind |-> k, import |-> i, now |-> 0,
               left |-> Game \ {GameOf[i]},
               number |-> IF k = "close" THEN rows[i].number ELSE 0]]
    BY <1>2 DEF Begin
  <2>2. \A p \in Request \ {r} : request'[p] = request[p]
    BY <2>1
  <2>3. request[r].at \notin Inside
    BY <1>2 DEF Begin, Idle, Inside
  <2>4. QED
    BY <1>1, <1>2, <2>2, <2>3 DEF Begin
<1>3. ASSUME NEW r \in Request, RecoverOther(r) PROVE Stages'
  <2>1. \A p \in Request \ {r} : request'[p] = request[p]
    BY <1>3 DEF RecoverOther
  <2>2. request[r].at \notin Inside /\ UNCHANGED lockVars /\ clock' = clock
    BY <1>3 DEF RecoverOther, Inside
  <2>3. rows' = rows \/ capacityLock = None
    BY <1>3 DEF RecoverOther
  <2>4. QED
    BY <1>1, <2>1, <2>2, <2>3
<1>4. ASSUME NEW r \in Request, ReadClock(r) PROVE Stages'
  <2>1. \A p \in Request \ {r} : request'[p] = request[p]
    <3>1. request' = [request EXCEPT ![r] = [request[r] EXCEPT !.at = "waiting", !.now = clock]]
      BY <1>4 DEF ReadClock
    <3>2. QED
      BY <3>1, OneRequest
  <2>2. request[r].at \notin Inside /\ UNCHANGED lockVars /\ clock' = clock /\ rows' = rows
    BY <1>4 DEF ReadClock, Inside
  <2>3. QED
    BY <1>1, <2>1, <2>2
<1>5. ASSUME NEW r \in Request, Enter(r) PROVE Stages'
  <2>1. capacityLock = None /\ UNCHANGED <<clock, rows>> /\ request[r] \in Busy
    BY <1>5, EnterEffect
  <2>2. CASE UNCHANGED lockVars
    BY <1>f, <2>1, <2>2
  <2>3. ASSUME NEW table, NEW stop \in BOOLEAN, Staged(r, table, stop) PROVE Stages'
    <3> DEFINE at == IF stop THEN "stopping" ELSE "committing"
    <3>1. /\ capacityLock' = r /\ staged' = table /\ request' = [request EXCEPT ![r].at = at]
          /\ \A i \in Import \ LockedRows(r) : table.rows[i] = rows[i]
          /\ Cardinality(OnlineOf(table.rows, clock)) <= MaxOnline
          /\ Sessions(table.rows, table.access)
      BY <2>3 DEF Staged
    <3> HIDE DEF at
    <3>2. request'[r] = [request[r] EXCEPT !.at = at]
      BY <3>1, OneRequest
    <3>3. request'[r].import = request[r].import
      BY <2>1, <3>2 DEF Busy
    <3>4. \A i \in Import : i \in LockedRows(r)' <=> i \in LockedRows(r)
      BY <2>1, <3>3 DEF LockedRows, Game_
    <3>5. \A i \in Import \ LockedRows(r)' : Same(rows'[i], table.rows[i])
      BY <2>1, <3>1, <3>4 DEF Same
    <3>6. Agree(r)'
      BY <3>1, <3>5 DEF Agree
    <3>7. QED
      BY <2>1, <3>1, <3>6 DEF Stages
  <2>4. QED
    BY <1>5, <2>2, <2>3, EnterEffect
<1>6. ASSUME NEW r \in Request,
             LockIngress(r) \/ CountLinks(r) \/ ReadInstance(r) \/ StopIfCurrent(r)
      PROVE  Stages'
  <2>1. PICK at \in Inside : request' = [request EXCEPT ![r].at = at]
    BY <1>6 DEF LockIngress, CountLinks, ReadInstance, StopIfCurrent, Step, Inside
  <2>2. request[r] \in Busy
    BY <1>0, <1>6 DEF LockIngress, CountLinks, ReadInstance, StopIfCurrent, Step, Types, Idle
  <2>3. request'[r] = [request[r] EXCEPT !.at = at]
        /\ \A p \in Request \ {r} : request'[p] = request[p]
    BY <2>1, OneRequest
  <2>4. request'[r].import = request[r].import
    BY <2>2, <2>3 DEF Busy
  <2>5. UNCHANGED <<staged, capacityLock, rows, clock>>
    BY <1>6 DEF LockIngress, CountLinks, ReadInstance, StopIfCurrent
  <2>6. clock' \in Nat /\ clock <= clock' /\ \A i \in Import : Same(rows'[i], rows[i])
    BY <1>0, <1>s, <2>5
  <2>7. \A p \in Request : capacityLock = p => request'[p].import = request[p].import
    BY <2>3, <2>4
  <2>8. QED
    BY <2>5, <2>6, <2>7, StagesKept
<1>7. ASSUME NEW r \in Request, Commit(r) \/ Rollback(r) PROVE Stages'
  BY <1>7, <1>f DEF Commit, Rollback
<1>8. ASSUME UNCHANGED <<staged, capacityLock, request>>, clock' \in Nat, clock <= clock',
             \A i \in Import : Same(rows'[i], rows[i])
      PROVE  Stages'
  BY <1>8, StagesKept
<1>9. ASSUME NEW i \in Import, Heartbeat(i) PROVE Stages'
  <2>1. UNCHANGED <<staged, capacityLock, request, clock>>
    BY <1>9 DEF Heartbeat
  <2>2. QED
    BY <1>0, <1>8, <1>9, <2>1, HeartbeatFacts
<1>10. ASSUME UNCHANGED <<staged, capacityLock, request, clock, rows>> PROVE Stages'
  BY <1>0, <1>8, <1>10, <1>s
<1>11. ASSUME NEW l \in Link, StartLink(l) \/ CreateLink(l) \/ LinkFails(l) \/ EndLink(l) PROVE Stages'
  BY <1>10, <1>11 DEF StartLink, CreateLink, LinkFails, EndLink
<1>12. CASE OperatorStop \/ OperatorStart \/ UNCHANGED vars
  BY <1>10, <1>12 DEF OperatorStop, OperatorStart, vars
<1>13. CASE Tick
  <2>1. UNCHANGED <<staged, capacityLock, request, rows>> /\ clock' = clock + 1
    BY <1>13 DEF Tick
  <2>2. clock' \in Nat /\ clock <= clock'
    BY <1>0, <2>1
  <2>3. QED
    BY <1>8, <1>s, <2>1, <2>2
<1>14. CASE SessionsMove
  <2>1. UNCHANGED <<capacityLock, request, clock, rows>> /\ staged'.rows = staged.rows
        /\ staged'.access \ Standalone \subseteq staged.access
    BY <1>14, SessionsMoveAlone
  <2>2. QED
    BY <1>0, <1>s, <2>1, StagesKept
<1>15. QED
  BY <1>2, <1>3, <1>4, <1>5, <1>6, <1>7, <1>9, <1>11, <1>12, <1>13, <1>14
     DEF Next, SessionsMove

-----------------------------------------------------------------------------
(* A transaction on its way to stop the tunnel is alone, has staged no online
   lease, and past the count no management link uses the tunnel. *)
LEMMA StopsStep ==
  ASSUME IInv, [Next]_vars
  PROVE  Stops'
<1>0. Types /\ Locks /\ Stops /\ clock \in Nat /\ staged.rows \in Table
  BY DEF IInv, Types
<1>n. None \notin Request \cup Link /\ Request \cap Link = {} /\ Management \subseteq Link
  BY IngressAssumption DEF Link
<1> USE DEF lockVars, tunnelVars, rowVars
<1>i. Ingress \subseteq Inside /\ "stopping" \in Inside
  BY DEF Ingress, Inside
<1>1. ASSUME NEW r \in Request, request[r].at \in Inside \/ capacityLock = None,
             \A p \in Request \ {r} : request'[p] = request[p]
      PROVE  \A p \in Request \ {r} : request'[p].at \notin {"stopping"} \cup Ingress
  BY <1>0, <1>n, <1>i, <1>1 DEF Locks
<1>2. ASSUME NEW r \in Request, request[r].at \in Inside \/ capacityLock = None,
             request'[r].at \notin {"stopping"} \cup Ingress,
             \A p \in Request \ {r} : request'[p] = request[p]
      PROVE  Stops'
  <2>1. \A p \in Request : request'[p].at \notin {"stopping"} \cup Ingress
    BY <1>1, <1>2
  <2>2. QED
    BY <2>1 DEF Stops, Ingress
<1>3. ASSUME UNCHANGED link, staged'.rows = staged.rows, clock' \in Nat, clock <= clock',
             \A p \in Request : \/ request'[p].at = request[p].at
                                \/ request'[p].at \in {"idle", "others", "waiting"}
      PROVE  Stops'
  <2>1. OnlineOf(staged.rows, clock') \subseteq OnlineOf(staged.rows, clock)
    BY <1>0, <1>3, OnlineShrinks
  <2>2. \A a \in {"idle", "others", "waiting"} : a \notin {"stopping"} \cup Ingress
    BY DEF Ingress
  <2>3. ASSUME NEW p \in Request, request'[p].at \in {"stopping"} \cup Ingress
        PROVE  request'[p].at = request[p].at
    BY <1>3, <2>2, <2>3
  <2>4. \A p \in Request : request'[p].at \in {"stopping"} \cup Ingress
                              => OnlineOf(staged.rows, clock') = {}
    BY <1>0, <2>1, <2>3 DEF Stops
  <2>5. \A p \in Request : request'[p].at \in {"reading", "cutting"} =>
           \A l \in Management : link[l] \notin {"starting", "live"}
    BY <1>0, <2>3 DEF Stops, Ingress
  <2>6. QED
    BY <1>3, <2>4, <2>5 DEF Stops
<1>4. ASSUME NEW r \in Request, Begin(r) \/ RecoverOther(r) \/ ReadClock(r) PROVE Stops'
  <2>1. \A p \in Request \ {r} : request'[p] = request[p]
    <3>1. CASE Begin(r)
      <4>1. PICK k \in Kind, i \in Import :
             request' = [request EXCEPT ![r] =
              [at |-> "others", kind |-> k, import |-> i, now |-> 0,
               left |-> Game \ {GameOf[i]},
               number |-> IF k = "close" THEN rows[i].number ELSE 0]]
        BY <3>1 DEF Begin
      <4>2. QED
        BY <4>1
    <3>2. CASE RecoverOther(r)
      BY <3>2 DEF RecoverOther
    <3>3. CASE ReadClock(r)
      <4>1. request' = [request EXCEPT ![r] = [request[r] EXCEPT !.at = "waiting", !.now = clock]]
        BY <3>3 DEF ReadClock
      <4>2. QED
        BY <4>1, OneRequest
    <3>4. QED
      BY <1>4, <3>1, <3>2, <3>3
  <2>2. request'[r].at \in {"others", "waiting"}
    <3>1. CASE Begin(r)
      <4>1. PICK k \in Kind, i \in Import :
             request' = [request EXCEPT ![r] =
              [at |-> "others", kind |-> k, import |-> i, now |-> 0,
               left |-> Game \ {GameOf[i]},
               number |-> IF k = "close" THEN rows[i].number ELSE 0]]
        BY <3>1 DEF Begin
      <4> DEFINE q == [at |-> "others", kind |-> k, import |-> i, now |-> 0,
                       left |-> Game \ {GameOf[i]},
                       number |-> IF k = "close" THEN rows[i].number ELSE 0]
      <4>2. request' = [request EXCEPT ![r] = q] /\ q.at = "others"
        BY <4>1
      <4> HIDE DEF q
      <4>3. request'[r] = q
        BY <4>2, OneRequest
      <4>4. QED
        BY <4>2, <4>3
    <3>2. CASE RecoverOther(r)
      <4>1. PICK g \in request[r].left : request' = [request EXCEPT ![r].left = @ \ {g}]
        BY <3>2 DEF RecoverOther
      <4>2. request'[r] = [request[r] EXCEPT !.left = @ \ {g}]
        BY <4>1, OneRequest
      <4>3. request[r] \in Busy /\ request[r].at = "others"
        BY <1>0, <3>2 DEF RecoverOther, Types, Idle
      <4>4. QED
        BY <4>2, <4>3 DEF Busy
    <3>3. CASE ReadClock(r)
      <4>1. request' = [request EXCEPT ![r] = [request[r] EXCEPT !.at = "waiting", !.now = clock]]
        BY <3>3 DEF ReadClock
      <4>2. request'[r] = [request[r] EXCEPT !.at = "waiting", !.now = clock]
        BY <4>1, OneRequest
      <4>3. request[r] \in Busy
        BY <1>0, <3>3 DEF ReadClock, Types, Idle
      <4>4. QED
        BY <4>2, <4>3 DEF Busy
    <3>4. QED
      BY <1>4, <3>1, <3>2, <3>3
  <2>3. UNCHANGED <<staged, link, clock>>
    BY <1>4 DEF Begin, RecoverOther, ReadClock
  <2>4. clock' \in Nat /\ clock <= clock'
    BY <1>0, <2>3
  <2>5. \A p \in Request : \/ request'[p].at = request[p].at
                            \/ request'[p].at \in {"idle", "others", "waiting"}
    BY <2>1, <2>2
  <2>6. QED
    BY <1>3, <2>3, <2>4, <2>5
<1>5. ASSUME NEW r \in Request, Enter(r) PROVE Stops'
  <2>1. capacityLock = None /\ UNCHANGED <<clock, link>> /\ request[r] \in Busy
    BY <1>5, EnterEffect
  <2>2. CASE request' = [request EXCEPT ![r] = Idle]
    <3>1. request'[r].at = "idle" /\ \A p \in Request \ {r} : request'[p] = request[p]
      <4>1. request'[r] = Idle /\ \A p \in Request \ {r} : request'[p] = request[p]
        BY <2>2, OneRequest
      <4>2. QED
        BY <4>1 DEF Idle
    <3>2. request'[r].at \notin {"stopping"} \cup Ingress
      BY <3>1 DEF Ingress
    <3>3. QED
      BY <1>2, <2>1, <3>1, <3>2
  <2>3. ASSUME NEW table, NEW stop \in BOOLEAN, Staged(r, table, stop) PROVE Stops'
    <3> DEFINE at == IF stop THEN "stopping" ELSE "committing"
    <3>1. /\ staged' = table /\ request' = [request EXCEPT ![r].at = at]
          /\ stop => OnlineOf(table.rows, clock) = {}
      BY <2>3 DEF Staged
    <3>2. (at \in {"stopping"} \cup Ingress => stop) /\ at \notin {"reading", "cutting"}
      BY DEF Ingress
    <3> HIDE DEF at
    <3>3. request'[r].at = at /\ \A p \in Request \ {r} : request'[p] = request[p]
      BY <2>1, <3>1, OneMoves
    <3>4. \A p \in Request \ {r} : request'[p].at \notin {"stopping"} \cup Ingress
      BY <1>1, <2>1, <3>3
    <3>5. \A p \in Request \ {r} : request'[p].at \notin {"reading", "cutting"}
      BY <3>4 DEF Ingress
    <3>6. QED
      BY <2>1, <3>1, <3>2, <3>3, <3>4, <3>5 DEF Stops
  <2>4. QED
    BY <1>5, <2>2, <2>3, EnterEffect
<1>6. ASSUME NEW r \in Request, Commit(r) \/ Rollback(r) PROVE Stops'
  <2>1. request'[r].at = "idle" /\ \A p \in Request \ {r} : request'[p] = request[p]
    BY <1>6, OneRequest DEF Commit, Rollback, Idle
  <2>2. request[r].at \in Inside /\ "idle" \notin {"stopping"} \cup Ingress
    BY <1>6 DEF Commit, Rollback, Inside, Ingress
  <2>3. QED
    BY <1>2, <2>1, <2>2
(* The stop itself, with the ingress lock. *)
<1>7. ASSUME NEW r \in Request, NEW from \in {"stopping"} \cup Ingress, NEW at \in Inside,
             Step(r, from, at), UNCHANGED <<staged, clock, link>>,
             at \in {"reading", "cutting"} =>
                \A l \in Management : link[l] \notin {"starting", "live"}
      PROVE  Stops'
  <2>1. request[r].at = from /\ request' = [request EXCEPT ![r].at = at]
    BY <1>7 DEF Step
  <2>2. request[r] \in Busy
    BY <1>0, <1>7, <2>1 DEF Types, Idle, Ingress
  <2>3. request'[r].at = at /\ \A p \in Request \ {r} : request'[p] = request[p]
    BY <2>1, <2>2, OneMoves
  <2>4. request[r].at \in Inside /\ OnlineOf(staged.rows, clock) = {}
    BY <1>0, <1>7, <1>i, <2>1 DEF Stops
  <2>5. \A p \in Request \ {r} : request'[p].at \notin {"stopping"} \cup Ingress
    BY <1>1, <2>3, <2>4
  <2>6. \A p \in Request \ {r} : request'[p].at \notin {"reading", "cutting"}
    BY <2>5 DEF Ingress
  <2>7. QED
    BY <1>7, <2>3, <2>4, <2>5, <2>6 DEF Stops
<1>8. ASSUME NEW r \in Request, LockIngress(r) PROVE Stops'
  BY <1>7, <1>8 DEF LockIngress, Inside
<1>9. ASSUME NEW r \in Request, CountLinks(r) PROVE Stops'
  <2>1. ingressLock = r
    BY <1>0, <1>9 DEF CountLinks, Step, Locks, Ingress
  <2>2. \A l \in Management : link[l] # "starting"
    BY <1>0, <1>n, <2>1 DEF Locks
  <2>3. CASE \E l \in CountedLinks : link[l] = "live"
    <3>1. Step(r, "counting", "committing") /\ UNCHANGED <<staged, clock, link>>
      BY <1>9, <2>3 DEF CountLinks
    <3>2. QED
      BY <1>7, <3>1 DEF Inside, Ingress
  <2>4. CASE ~ \E l \in CountedLinks : link[l] = "live"
    <3>1. Step(r, "counting", "reading") /\ UNCHANGED <<staged, clock, link>>
      BY <1>9, <2>4 DEF CountLinks
    <3>2. \A l \in Management : link[l] \notin {"starting", "live"}
      BY <2>2, <2>4 DEF CountedLinks
    <3>3. QED
      BY <1>7, <3>1, <3>2 DEF Inside, Ingress
  <2>5. QED
    BY <2>3, <2>4
<1>10. ASSUME NEW r \in Request, ReadInstance(r) PROVE Stops'
  <2>1. request[r].at = "reading" /\ UNCHANGED <<staged, clock, link>>
    BY <1>10 DEF ReadInstance, Step
  <2>2. \A l \in Management : link[l] \notin {"starting", "live"}
    BY <1>0, <2>1 DEF Stops
  <2>3. QED
    BY <1>7, <1>10, <2>1, <2>2 DEF ReadInstance, Inside, Ingress
<1>11. ASSUME NEW r \in Request, StopIfCurrent(r) PROVE Stops'
  BY <1>7, <1>11 DEF StopIfCurrent, Inside, Ingress
<1>12. ASSUME UNCHANGED <<request, staged, link>>, clock' \in Nat, clock <= clock' PROVE Stops'
  BY <1>3, <1>12
<1>13. ASSUME NEW i \in Import, Heartbeat(i) PROVE Stops'
  BY <1>0, <1>12, <1>13 DEF Heartbeat
(* A management link starts and appears under the ingress lock, which a stop
   past its count holds too. *)
<1>14. ASSUME NEW l \in Link, StartLink(l) \/ CreateLink(l) \/ LinkFails(l) \/ EndLink(l) PROVE Stops'
  <2>1. UNCHANGED <<request, staged, clock>>
    BY <1>14 DEF StartLink, CreateLink, LinkFails, EndLink
  <2>2. ASSUME NEW r \in Request, request[r].at \in {"reading", "cutting"},
               NEW m \in Management
        PROVE  link'[m] \notin {"starting", "live"}
    <3>1. ingressLock = r /\ link[m] \notin {"starting", "live"} /\ m \in Link
      BY <1>0, <1>n, <2>2 DEF Locks, Stops, Ingress
    <3>2. ingressLock # None /\ ingressLock # m
      BY <1>n, <3>1
    <3>3. QED
      BY <1>0, <1>14, <3>1, <3>2 DEF StartLink, CreateLink, LinkFails, EndLink, Types
  <2>3. QED
    BY <1>0, <2>1, <2>2 DEF Stops
<1>15. CASE OperatorStop \/ OperatorStart \/ UNCHANGED vars
  BY <1>0, <1>12, <1>15 DEF OperatorStop, OperatorStart, vars
<1>16. CASE Tick
  BY <1>0, <1>12, <1>16 DEF Tick
<1>17. CASE SessionsMove
  <2>1. UNCHANGED <<request, clock, link>> /\ staged'.rows = staged.rows
    BY <1>17, SessionsMoveAlone
  <2>2. QED
    BY <1>0, <1>3, <2>1
<1>18. QED
  BY <1>4, <1>5, <1>6, <1>8, <1>9, <1>10, <1>11, <1>13, <1>14, <1>15, <1>16, <1>17
     DEF Next, SessionsMove

LEMMA StepInv == IInv /\ [Next]_vars => IInv'
BY TypesStep, LocksStep, CapacityStep, SessionsStep, StagesStep, StopsStep DEF IInv

-----------------------------------------------------------------------------
(* What the type invariant adds: the bounds, the holders of the two locks, and
   the numbers given to assignments, each of which has a request that was let
   in while a number was left for it. *)
Bounds ==
    /\ clock <= MaxClock
    /\ starts \in 0..MaxStarts /\ tunnel \in {0, starts}

Holders ==
    /\ capacityLock \in Request \cup {None}
    /\ ingressLock \in Request \cup Management \cup {None}
    /\ ingressLock \in Management => link[ingressLock] = "starting"

(* Requests that may still take a number. *)
Unserved == {q \in Opening : request[q].at \in {"others", "waiting"}}

Numbers ==
    /\ access \cup staged.access \subseteq (1..created) \cup Standalone
    /\ created + Cardinality(Unserved) <= MaxRows

Numbered == IInv /\ Bounds /\ Holders /\ Numbers

LEMMA InitNumbered == Init => Numbered
<1> SUFFICES ASSUME Init PROVE Numbered
  OBVIOUS
<1>1. Unserved = {} /\ access \cup staged.access = {}
  BY DEF Init, Unserved, Opening
<1>2. Bounds /\ Holders
  BY IngressAssumption DEF Init, Bounds, Holders
<1>3. Numbers
  BY <1>1, FS_EmptySet, IngressAssumption DEF Init, Numbers
<1>4. QED
  BY <1>2, <1>3, InitInv DEF Numbered

(* Recovering rows only revokes sessions. *)
LEMMA RecoveredRevokes ==
  ASSUME NEW table, NEW sessions, NEW gone
  PROVE  Recovered(table, sessions, gone).access \subseteq sessions
BY DEF Recovered

(* What entering the transaction does to the numbers and to the tunnel. *)
LEMMA EnterNumbers ==
  ASSUME IInv, Numbers, NEW r \in Request, Enter(r)
  PROVE  /\ \/ created' = created
            \/ created' = created + 1 /\ r \in Unserved
         /\ staged'.access \subseteq (1..created') \cup Standalone
         /\ UNCHANGED tunnelVars \/ EnsureOnline
<1> DEFINE now == request[r].now
           base == Swept(r, now)
<1>1. created \in Nat /\ request[r].at = "waiting" /\ request[r] # Idle
  BY DEF IInv, Types, Enter, Idle
<1>2. access \subseteq (1..created) \cup Standalone /\ staged.access \subseteq (1..created) \cup Standalone
  BY DEF Numbers
<1>3. 1..created \subseteq 1..(created + 1) /\ created + 1 \in 1..(created + 1)
  BY <1>1
<1>4. base = [rows |-> base.rows, access |-> base.access] /\ base.access \subseteq (1..created) \cup Standalone
  BY <1>2, RecoveredRevokes DEF Swept, Recovered
<1>5. request[r].kind \in {"open_online", "open_local"} => r \in Unserved
  BY <1>1 DEF Unserved, Opening
<1>6. CASE OpenOnline(r)
  <2>1. \E row : Proceed(r, [rows |-> row, access |-> base.access \cup {created + 1}], FALSE)
    BY <1>6 DEF OpenOnline
  <2>2. staged'.access = base.access \cup {created + 1}
    BY <2>1 DEF Proceed
  <2>3. QED
    BY <1>3, <1>4, <1>5, <1>6, <2>2 DEF OpenOnline
<1>7. CASE OpenLocal(r)
  <2>1. PICK row, stop : Proceed(r, [base EXCEPT !.rows[request[r].import] = row], stop)
    BY <1>7 DEF OpenLocal
  <2> HIDE DEF base
  <2>2. staged'.access = base.access
    BY <1>4, <2>1 DEF Proceed
  <2>3. QED
    BY <1>3, <1>4, <1>5, <1>7, <2>2 DEF OpenLocal
<1>8. CASE Close(r)
  <2>1. \E shut, gone, stop : /\ shut.access \subseteq access
                              /\ \/ Proceed(r, shut, stop)
                                 \/ Proceed(r, Recovered(shut.rows, shut.access, gone), stop)
    BY <1>8, RecoveredRevokes DEF Close
  <2>2. staged'.access \subseteq access
    BY <2>1, RecoveredRevokes DEF Proceed
  <2>3. QED
    BY <1>2, <1>8, <2>2 DEF Close
<1>9. CASE Overview(r)
  <2>1. staged'.access \subseteq access
    BY <1>9, RecoveredRevokes DEF Overview, Proceed
  <2>2. QED
    BY <1>2, <1>9, <2>1 DEF Overview
<1>10. CASE Refuse(r)
  BY <1>2, <1>10 DEF Refuse, lockVars
<1>11. CASE Reuse(r) /\ ~Refuse(r)
  <2>1. Proceed(r, base, FALSE) /\ UNCHANGED created /\ (UNCHANGED tunnelVars \/ EnsureOnline)
    BY <1>11 DEF Reuse
  <2>2. staged' = base
    BY <2>1 DEF Proceed
  <2>3. QED
    BY <1>4, <2>1, <2>2
<1>12. QED
  BY <1>6, <1>7, <1>8, <1>9, <1>10, <1>11
     DEF Enter, OpenOnlineFull, IngressFails, CloseRefused

LEMMA BoundsStep ==
  ASSUME Numbered, [Next]_vars
  PROVE  Bounds'
<1>0. Bounds /\ clock \in Nat /\ MaxStarts \in Nat /\ MaxClock \in Nat
  BY IngressAssumption DEF Numbered, IInv, Types
<1>1. ASSUME clock' = clock, UNCHANGED tunnelVars \/ EnsureOnline PROVE Bounds'
  BY <1>0, <1>1 DEF Bounds, EnsureOnline, tunnelVars
<1>2. ASSUME clock' = clock, starts' = starts, tunnel' \in {0, tunnel} PROVE Bounds'
  BY <1>0, <1>2 DEF Bounds
<1>3. ASSUME NEW r \in Request, Enter(r) PROVE Bounds'
  BY <1>1, <1>3, EnterNumbers DEF Enter, Numbered
<1>4. ASSUME NEW r \in Request, StopIfCurrent(r) PROVE Bounds'
  BY <1>2, <1>4 DEF StopIfCurrent
<1>5. ASSUME NEW r \in Request,
             \/ Begin(r) \/ RecoverOther(r) \/ ReadClock(r) \/ LockIngress(r)
             \/ CountLinks(r) \/ ReadInstance(r) \/ Commit(r) \/ Rollback(r)
      PROVE  Bounds'
  BY <1>1, <1>5 DEF Begin, RecoverOther, ReadClock, LockIngress, CountLinks, ReadInstance,
                    Commit, Rollback
<1>6. ASSUME NEW i \in Import, Heartbeat(i) PROVE Bounds'
  BY <1>1, <1>6 DEF Heartbeat
<1>7. ASSUME NEW l \in Link, StartLink(l) \/ CreateLink(l) \/ LinkFails(l) \/ EndLink(l) PROVE Bounds'
  BY <1>1, <1>7 DEF StartLink, CreateLink, LinkFails, EndLink
<1>8. CASE OperatorStop
  BY <1>2, <1>8 DEF OperatorStop
<1>9. CASE OperatorStart \/ UNCHANGED vars
  BY <1>1, <1>9 DEF OperatorStart, vars, tunnelVars
<1>10. CASE Tick
  BY <1>0, <1>10 DEF Tick, Bounds, tunnelVars
<1>11. CASE SessionsMove
  BY <1>0, <1>11, SessionsMoveAlone DEF Bounds
<1>12. QED
  BY <1>3, <1>4, <1>5, <1>6, <1>7, <1>8, <1>9, <1>10, <1>11 DEF Next, SessionsMove

LEMMA HoldersStep ==
  ASSUME Numbered, [Next]_vars
  PROVE  Holders'
<1>0. Holders /\ Types
  BY DEF Numbered, IInv
<1>n. None \notin Request \cup Link /\ Request \cap Link = {} /\ Management \subseteq Link
  BY IngressAssumption DEF Link
<1> USE DEF lockVars
<1>1. ASSUME capacityLock' \in Request \cup {None},
             \/ ingressLock' \in Request \cup {None}
             \/ ingressLock' = ingressLock,
             link' = link
      PROVE  Holders'
  BY <1>0, <1>n, <1>1 DEF Holders
<1>2. ASSUME NEW r \in Request, Enter(r) PROVE Holders'
  <2>1. UNCHANGED <<ingressLock, link>>
    BY <1>2 DEF Enter
  <2>2. capacityLock' \in Request \cup {None}
    <3>1. UNCHANGED lockVars \/ \E table : \E stop \in BOOLEAN : Staged(r, table, stop)
      BY <1>2, EnterEffect DEF Numbered
    <3>2. QED
      BY <1>0, <3>1 DEF Holders, Staged
  <2>3. QED
    BY <1>1, <2>1, <2>2
<1>3. ASSUME NEW r \in Request,
             \/ Begin(r) \/ RecoverOther(r) \/ ReadClock(r) \/ LockIngress(r)
             \/ CountLinks(r) \/ ReadInstance(r) \/ StopIfCurrent(r) \/ Commit(r) \/ Rollback(r)
      PROVE  Holders'
  <2>1. link' = link /\ capacityLock' \in {capacityLock, None}
    BY <1>3 DEF Begin, RecoverOther, ReadClock, LockIngress, CountLinks, ReadInstance,
                StopIfCurrent, Commit, Rollback
  <2>2. ingressLock' \in {r, None, ingressLock}
    BY <1>3 DEF Begin, RecoverOther, ReadClock, LockIngress, CountLinks, ReadInstance,
                StopIfCurrent, Commit, Rollback
  <2>3. capacityLock \in Request \cup {None}
    BY <1>0 DEF Holders
  <2>4. QED
    BY <1>1, <2>1, <2>2, <2>3
<1>4. ASSUME NEW i \in Import, Heartbeat(i) PROVE Holders'
  BY <1>0, <1>4 DEF Heartbeat, Holders
(* A management link holds the ingress lock from its start to its creation. *)
<1>5. ASSUME NEW l \in Link, StartLink(l) PROVE Holders'
  BY <1>0, <1>n, <1>5 DEF StartLink, Holders, Types
<1>6. ASSUME NEW l \in Link, CreateLink(l) PROVE Holders'
  BY <1>0, <1>n, <1>6 DEF CreateLink, Holders, Types
<1>7. ASSUME NEW l \in Link, EndLink(l) PROVE Holders'
  BY <1>0, <1>n, <1>7 DEF EndLink, Holders, Types
<1>7a. ASSUME NEW l \in Link, LinkFails(l) PROVE Holders'
  BY <1>0, <1>n, <1>7a DEF LinkFails, Holders, Types
<1>7b. CASE SessionsMove
  BY <1>0, <1>7b, SessionsMoveAlone DEF Holders
<1>8. CASE OperatorStop \/ OperatorStart \/ Tick \/ UNCHANGED vars
  BY <1>0, <1>8 DEF OperatorStop, OperatorStart, Tick, vars, Holders
<1>9. QED
  BY <1>2, <1>3, <1>4, <1>5, <1>6, <1>7, <1>7a, <1>7b, <1>8 DEF Next, SessionsMove

(* A number is given away only to a request that was let in for it. *)
LEMMA NumbersStep ==
  ASSUME Numbered, [Next]_vars
  PROVE  Numbers'
<1>0. Numbers /\ Types /\ created \in Nat /\ MaxRows \in Nat
  BY IngressAssumption DEF Numbered, IInv, Types
<1> USE DEF lockVars, rowVars
<1>f. /\ IsFiniteSet(Opening) /\ IsFiniteSet(Unserved) /\ Unserved \subseteq Opening
      /\ Cardinality(Opening) \in Nat /\ Cardinality(Unserved) \in Nat
      /\ Cardinality(Unserved) <= Cardinality(Opening)
  <2>1. IsFiniteSet(Opening)
    BY IngressAssumption, FS_Subset DEF Opening
  <2>2. Unserved \subseteq Opening
    BY DEF Unserved
  <2>3. QED
    BY <2>1, <2>2, FS_Subset, FS_CardinalityType
<1>1. ASSUME Unserved' \subseteq Unserved, created' = created,
             access' \cup staged'.access \subseteq access \cup staged.access \cup Standalone
      PROVE  Numbers'
  <2>1. Cardinality(Unserved') \in Nat /\ Cardinality(Unserved') <= Cardinality(Unserved)
    BY <1>f, <1>1, FS_Subset, FS_CardinalityType
  <2>2. QED
    BY <1>0, <1>1, <1>f, <2>1 DEF Numbers
(* A request that moves takes nobody else's place. *)
<1>2. ASSUME NEW r \in Request, \A p \in Request \ {r} : request'[p] = request[p]
      PROVE  Unserved' \subseteq Unserved \cup {r}
  BY <1>2 DEF Unserved, Opening
<1>3. ASSUME NEW r \in Request, \A p \in Request \ {r} : request'[p] = request[p],
             request'[r].at \notin {"others", "waiting"}
      PROVE  Unserved' \subseteq Unserved \ {r}
  BY <1>3 DEF Unserved, Opening
<1>4. ASSUME NEW r \in Request, Begin(r) PROVE Numbers'
  <2>1. PICK k \in Kind, i \in Import :
           /\ k \in {"open_online", "open_local"} => RowsLeft > 0
           /\ request' = [request EXCEPT ![r] =
               [at |-> "others", kind |-> k, import |-> i, now |-> 0,
                left |-> Game \ {GameOf[i]},
                number |-> IF k = "close" THEN rows[i].number ELSE 0]]
    BY <1>4 DEF Begin
  <2>2. request'[r].kind = k /\ \A p \in Request \ {r} : request'[p] = request[p]
    <3> DEFINE q == [at |-> "others", kind |-> k, import |-> i, now |-> 0,
                     left |-> Game \ {GameOf[i]},
                     number |-> IF k = "close" THEN rows[i].number ELSE 0]
    <3>1. request' = [request EXCEPT ![r] = q] /\ q.kind = k
      BY <2>1
    <3> HIDE DEF q
    <3>2. QED
      BY <3>1, OneRequest DEF Numbered
  <2>3. UNCHANGED <<access, staged, created>>
    BY <1>4 DEF Begin
  <2>4. CASE k \in {"open_online", "open_local"}
    <3>1. created + Cardinality(Opening) < MaxRows
      BY <1>0, <1>f, <2>1, <2>4 DEF RowsLeft
    <3>2. Unserved' \subseteq Opening \cup {r}
      BY <1>2, <1>f, <2>2
    <3>3. /\ IsFiniteSet(Opening \cup {r})
          /\ Cardinality(Opening \cup {r}) <= Cardinality(Opening) + 1
      <4> DEFINE S == Opening
      <4>1. IsFiniteSet(S) /\ Cardinality(S) \in Nat
        BY <1>f
      <4> HIDE DEF S
      <4>2. /\ IsFiniteSet(S \cup {r})
            /\ Cardinality(S \cup {r}) = IF r \in S THEN Cardinality(S) ELSE Cardinality(S) + 1
        BY <4>1, FS_AddElement
      <4>3. Cardinality(S \cup {r}) <= Cardinality(S) + 1
        BY <4>1, <4>2
      <4>4. QED
        BY <4>2, <4>3 DEF S
    <3>4. /\ Cardinality(Unserved') \in Nat /\ Cardinality(Opening \cup {r}) \in Nat
          /\ Cardinality(Unserved') <= Cardinality(Opening \cup {r})
      BY <3>2, <3>3, FS_Subset, FS_CardinalityType
    <3>5. created + Cardinality(Unserved') <= MaxRows
      BY <1>0, <1>f, <3>1, <3>3, <3>4
    <3>6. QED
      BY <1>0, <2>3, <3>5 DEF Numbers
  <2>5. CASE k \notin {"open_online", "open_local"}
    <3>1. Unserved' \subseteq Unserved
      BY <2>2, <2>5 DEF Unserved, Opening
    <3>2. QED
      BY <1>1, <2>3, <3>1
  <2>6. QED
    BY <2>4, <2>5
<1>5. ASSUME NEW r \in Request, RecoverOther(r) \/ ReadClock(r) PROVE Numbers'
  <2>1. request[r].at = "others" /\ request[r] \in Busy
    BY <1>0, <1>5 DEF RecoverOther, ReadClock, Types, Idle
  <2>2. request'[r].kind = request[r].kind /\ \A p \in Request \ {r} : request'[p] = request[p]
    <3>1. CASE RecoverOther(r)
      <4>1. PICK g : request' = [request EXCEPT ![r].left = @ \ {g}]
        BY <3>1 DEF RecoverOther
      <4>2. request'[r] = [request[r] EXCEPT !.left = @ \ {g}]
            /\ \A p \in Request \ {r} : request'[p] = request[p]
        BY <4>1, OneRequest DEF Numbered
      <4>3. QED
        BY <2>1, <4>2 DEF Busy
    <3>2. CASE ReadClock(r)
      <4>1. request' = [request EXCEPT ![r] = [request[r] EXCEPT !.at = "waiting", !.now = clock]]
        BY <3>2 DEF ReadClock
      <4>2. request'[r] = [request[r] EXCEPT !.at = "waiting", !.now = clock]
            /\ \A p \in Request \ {r} : request'[p] = request[p]
        BY <4>1, OneRequest DEF Numbered
      <4>3. QED
        BY <2>1, <4>2 DEF Busy
    <3>3. QED
      BY <1>5, <3>1, <3>2
  <2>3. request[r] # Idle
    BY <2>1 DEF Idle
  <2>4. Unserved' \subseteq Unserved
    BY <2>1, <2>2, <2>3 DEF Unserved, Opening
  <2>5. created' = created /\ staged' = staged /\ access' \subseteq access
    BY <1>5, RecoveredRevokes DEF RecoverOther, ReadClock
  <2>6. QED
    BY <1>1, <2>4, <2>5
<1>6. ASSUME NEW r \in Request, Enter(r) PROVE Numbers'
  <2>1. /\ created' = created \/ (created' = created + 1 /\ r \in Unserved)
        /\ staged'.access \subseteq (1..created') \cup Standalone /\ access' = access
    BY <1>6, EnterNumbers DEF Numbered, Enter
  <2>2. request'[r].at \notin {"others", "waiting"}
        /\ \A p \in Request \ {r} : request'[p] = request[p]
    <3>1. request[r] \in Busy
      BY <1>6, EnterEffect DEF Numbered
    <3>2. CASE request' = [request EXCEPT ![r] = Idle]
      <4>1. request'[r] = Idle /\ \A p \in Request \ {r} : request'[p] = request[p]
        BY <3>2, OneRequest DEF Numbered
      <4>2. QED
        BY <4>1 DEF Idle
    <3>3. ASSUME NEW table, NEW stop \in BOOLEAN, Staged(r, table, stop) 
                PROVE  /\ request'[r].at \notin {"others", "waiting"}
                       /\ \A p \in Request \ {r} : request'[p] = request[p]
      <4> DEFINE at == IF stop THEN "stopping" ELSE "committing"
      <4>1. request' = [request EXCEPT ![r].at = at] /\ at \notin {"others", "waiting"}
        BY <3>3 DEF Staged
      <4> HIDE DEF at
      <4>2. request'[r].at = at /\ \A p \in Request \ {r} : request'[p] = request[p]
        BY <3>1, <4>1, OneMoves DEF Numbered
      <4>3. QED
        BY <4>1, <4>2
    <3>4. QED
      BY <1>6, <3>2, <3>3, EnterEffect DEF Numbered
  <2>3. Unserved' \subseteq Unserved \ {r}
    BY <1>3, <2>2
  <2>4. /\ Cardinality(Unserved') \in Nat /\ Cardinality(Unserved \ {r}) \in Nat
        /\ Cardinality(Unserved') <= Cardinality(Unserved \ {r})
        /\ r \in Unserved => Cardinality(Unserved \ {r}) = Cardinality(Unserved) - 1
        /\ Cardinality(Unserved \ {r}) <= Cardinality(Unserved)
    <3>1. IsFiniteSet(Unserved \ {r}) /\ Cardinality(Unserved \ {r})
             = IF r \in Unserved THEN Cardinality(Unserved) - 1 ELSE Cardinality(Unserved)
      BY <1>f, FS_RemoveElement
    <3>2. QED
      BY <1>f, <2>3, <3>1, FS_Subset, FS_CardinalityType
  <2>5. created' + Cardinality(Unserved') <= MaxRows
    BY <1>0, <1>f, <2>1, <2>4 DEF Numbers
  <2>6. access' \subseteq (1..created') \cup Standalone
    BY <1>0, <2>1 DEF Numbers
  <2>7. QED
    BY <2>1, <2>5, <2>6 DEF Numbers
<1>7. ASSUME NEW r \in Request, NEW from \in Inside, NEW at \in Inside, Step(r, from, at),
             UNCHANGED <<created, access, staged>>
      PROVE  Numbers'
  <2>1. request[r] \in Busy /\ request' = [request EXCEPT ![r].at = at]
    BY <1>0, <1>7 DEF Step, Types, Idle, Inside
  <2>2. request'[r].at = at /\ \A p \in Request \ {r} : request'[p] = request[p]
    BY <2>1, OneMoves DEF Numbered
  <2>3. Unserved' \subseteq Unserved \ {r}
    BY <1>3, <1>7, <2>2 DEF Inside
  <2>4. QED
    BY <1>1, <1>7, <2>3
<1>8. ASSUME NEW r \in Request,
             LockIngress(r) \/ CountLinks(r) \/ ReadInstance(r) \/ StopIfCurrent(r)
      PROVE  Numbers'
  BY <1>7, <1>8 DEF LockIngress, CountLinks, ReadInstance, StopIfCurrent, Inside
(* A commit publishes the sessions that were staged, a rollback drops them. *)
<1>9. ASSUME NEW r \in Request, Commit(r) \/ Rollback(r) PROVE Numbers'
  <2>1. request'[r] = Idle /\ \A p \in Request \ {r} : request'[p] = request[p]
    BY <1>9, OneRequest DEF Commit, Rollback, Numbered
  <2>2. Unserved' \subseteq Unserved \ {r}
    BY <1>3, <2>1 DEF Idle
  <2>3. /\ access' \in {access, staged.access} /\ staged'.access = {}
        /\ created' = created
    BY <1>9 DEF Commit, Rollback, NothingStaged
  <2>4. QED
    BY <1>1, <2>2, <2>3
<1>10. ASSUME UNCHANGED <<request, created, access, staged>> PROVE Numbers'
  BY <1>1, <1>10 DEF Unserved, Opening
<1>11. ASSUME NEW i \in Import, Heartbeat(i) PROVE Numbers'
  BY <1>10, <1>11 DEF Heartbeat
<1>12. ASSUME NEW l \in Link, StartLink(l) \/ CreateLink(l) \/ LinkFails(l) \/ EndLink(l) PROVE Numbers'
  BY <1>10, <1>12 DEF StartLink, CreateLink, LinkFails, EndLink
<1>13. CASE OperatorStop \/ OperatorStart \/ Tick \/ UNCHANGED vars
  BY <1>10, <1>13 DEF OperatorStop, OperatorStart, Tick, vars
<1>14. CASE SessionsMove
  <2>1. UNCHANGED <<request, created>>
        /\ access' \cup staged'.access \subseteq access \cup staged.access \cup Standalone
    BY <1>14, SessionsMoveAlone
  <2>2. QED
    BY <1>1, <2>1 DEF Unserved, Opening
<1>15. QED
  BY <1>4, <1>5, <1>6, <1>8, <1>9, <1>11, <1>12, <1>13, <1>14 DEF Next, SessionsMove

LEMMA NumberedStep == Numbered /\ [Next]_vars => Numbered'
<1> SUFFICES ASSUME Numbered, [Next]_vars PROVE Numbered'
  OBVIOUS
<1>1. IInv'
  BY StepInv DEF Numbered
<1>2. QED
  BY <1>1, BoundsStep, HoldersStep, NumbersStep DEF Numbered

(* Every variable keeps its type: a request that may stop the tunnel holds the
   capacity lock, the ingress lock has a holder inside its section, and a
   session is the owner's own or has the number of an assignment that was
   created. *)
THEOREM IngressTypeCorrect == Spec => []TypeOK
<1>1. ASSUME Numbered PROVE TypeOK
  <2>1. Types /\ Locks /\ Bounds /\ Holders /\ Numbers
    BY <1>1 DEF Numbered, IInv
  <2>n. Request \cap Link = {} /\ None \notin Request \cup Link /\ Management \subseteq Link
    BY IngressAssumption DEF Link
  <2>2. clock \in 0..MaxClock /\ tunnel \in {0, starts} /\ starts \in 0..MaxStarts
    BY <2>1, IngressAssumption DEF Types, Bounds
  <2>3. created \in 0..MaxRows /\ access \subseteq (1..created) \cup Standalone
    <3>1. IsFiniteSet(Unserved)
      BY IngressAssumption, FS_Subset DEF Unserved, Opening
    <3>2. Cardinality(Unserved) \in Nat
      BY <3>1, FS_CardinalityType
    <3>3. QED
      BY <2>1, <3>2, IngressAssumption DEF Types, Numbers
  <2>4. \A r \in Request : request[r] # Idle => request[r].kind \in Kind
    BY <2>1 DEF Types, Busy
  <2>5. /\ \A r \in Request : request[r].at \in Inside <=> capacityLock = r
        /\ ingressLock \in Request => request[ingressLock].at \in Ingress
    BY <2>1 DEF Locks
  <2>6. ingressLock \in Link => link[ingressLock] = "starting"
    BY <2>1, <2>n DEF Holders
  <2>7. /\ rows \in [Import -> Row \cup {None}] /\ capacityLock \in Request \cup {None}
        /\ link \in [Link -> {"none", "starting", "live"}]
    BY <2>1 DEF Types, Table, Holders
  <2>8. QED
    BY <2>2, <2>3, <2>4, <2>5, <2>6, <2>7 DEF TypeOK, Inside, Ingress
<1>2. QED
  BY InitNumbered, NumberedStep, <1>1, PTL DEF Spec

-----------------------------------------------------------------------------
(* The cap on online reviewers spans the games: reviewer_work_assignments.py
   counts under online_capacity_lock with a clock it read before the lock, and
   other games' leases are recovered in transactions of their own; still no more
   than MaxOnline committed leases are ever unexpired. *)
THEOREM CapacityIsRespected == Spec => []CapacityRespected
<1>1. IInv => CapacityRespected
  BY DEF IInv
<1>2. QED
  BY InitInv, StepInv, <1>1, PTL DEF Spec

(* Closing, expiring and rolling back leave no session that an assignment made
   without its open online assignment, whatever sessions the owner makes on the
   side (POST /admin/reviewer-sessions) and whichever sessions end early. *)
THEOREM SessionsHaveAssignments == Spec => []NoOrphanSession
<1>1. IInv => NoOrphanSession
  BY DEF IInv, Sessions, NoOrphanSession
<1>2. QED
  BY InitInv, StepInv, <1>1, PTL DEF Spec

(* stop_unused_shared_ingress takes the tunnel from no reviewer whose lease is
   unexpired and from no management link, live or being created. *)
THEOREM StopsOnlyUnused == Spec => StopOnlyWhenUnused
<1>1. ASSUME IInv, NEW r \in Request, Cuts(r)
      PROVE  /\ OnlineOf(staged.rows, clock) = {}
             /\ \A l \in Management : link[l] \notin {"starting", "live"}
  <2>1. Stops /\ request[r].at = "cutting"
    BY <1>1 DEF IInv, Cuts
  <2>2. QED
    BY <2>1 DEF Stops, Ingress
<1>2. IInv => \A r \in Request : Cuts(r) =>
          /\ OnlineOf(staged.rows, clock) = {}
          /\ \A l \in Management : link[l] \notin {"starting", "live"}
  BY <1>1
<1>3. QED
  BY InitInv, StepInv, <1>2, PTL DEF Spec, StopOnlyWhenUnused
-----------------------------------------------------------------------------
(* A transaction looks like one step.  What its holder has staged for a row is
   the committed row but for its heartbeat, or its closing, after its lease
   unless it is the row the request is about, or a new assignment with the last
   number in place of nothing or of a lease that is over. *)
NewAssignment(r) ==
    LET i == request[r].import
    IN /\ staged.rows[i] # None
       /\ staged.rows[i].number = created
       /\ staged.rows[i].expires <= clock + Lease
       /\ rows[i] # None => rows[i].expires <= clock
       /\ \A j \in Import : rows[j] # None => rows[j].number < created

Closing(r, i) ==
    /\ staged.rows[i] = None
    /\ i # request[r].import /\ rows[i] # None => rows[i].expires <= clock

Draft == SeatNumbers(staged.rows) \ SeatNumbers(rows)

Drafts ==
    /\ capacityLock = None => staged = NothingStaged
    /\ \A i \in Import : rows[i] # None => rows[i].number <= created
    /\ \A r \in Request : capacityLock = r =>
          /\ \A i \in Import : \/ Same(staged.rows[i], rows[i])
                               \/ Closing(r, i)
                               \/ i = request[r].import /\ NewAssignment(r)
          /\ staged.access \subseteq access \cup Draft

(* The seats and the numbers of a table. *)
LEMMA SeatFacts ==
  ASSUME NEW table \in Table
  PROVE  /\ SeatsOf(table) \in [Import -> Seat \cup {None}]
         /\ \A i \in Import : table[i] = None \/ table[i].type # "online" => SeatsOf(table)[i] = None
         /\ \A i \in Import : table[i] # None /\ table[i].type = "online" =>
               /\ SeatsOf(table)[i] # None
               /\ SeatsOf(table)[i] = [number |-> table[i].number, expires |-> table[i].expires]
         /\ Seats!NumbersOf(SeatsOf(table)) = SeatNumbers(table)
         /\ \A now : Seats!Admitting(SeatsOf(table), now) = OnlineOf(table, now)
<1>1. ASSUME NEW i \in Import, table[i] # None
      PROVE  [number |-> table[i].number, expires |-> table[i].expires] \in Seat
  <2>1. table[i] \in Row
    BY <1>1 DEF Table
  <2>2. QED
    BY <2>1 DEF Row, Seat
<1>2. None \notin Seat
  BY IngressAssumption
<1>3. \A i \in Import :
         SeatsOf(table)[i] = IF table[i] # None /\ table[i].type = "online"
                             THEN [number |-> table[i].number, expires |-> table[i].expires]
                             ELSE None
  BY DEF SeatsOf
<1>4. /\ \A i \in Import : table[i] = None \/ table[i].type # "online" => SeatsOf(table)[i] = None
      /\ \A i \in Import : table[i] # None /\ table[i].type = "online" =>
            /\ SeatsOf(table)[i] # None
            /\ SeatsOf(table)[i] = [number |-> table[i].number, expires |-> table[i].expires]
  BY <1>1, <1>2, <1>3
<1>5. SeatsOf(table) \in [Import -> Seat \cup {None}]
  BY <1>1 DEF SeatsOf
<1>6. \A i \in Import : table[i] # None /\ table[i].type = "online" =>
         SeatsOf(table)[i].number = table[i].number /\ SeatsOf(table)[i].expires = table[i].expires
  <2>1. ASSUME NEW i \in Import, table[i] # None, table[i].type = "online"
        PROVE  /\ SeatsOf(table)[i].number = table[i].number
               /\ SeatsOf(table)[i].expires = table[i].expires
    <3>1. SeatsOf(table)[i] = [number |-> table[i].number, expires |-> table[i].expires]
      BY <1>4, <2>1
    <3>2. QED
      BY <3>1
  <2>2. QED
    BY <2>1
<1>7. Seats!NumbersOf(SeatsOf(table)) = SeatNumbers(table)
  <2>1. {j \in Import : SeatsOf(table)[j] # None} = {j \in Import : table[j] # None /\ table[j].type = "online"}
    BY <1>4
  <2>2. \A n : n \in Seats!NumbersOf(SeatsOf(table)) <=> n \in SeatNumbers(table)
    BY <1>6, <2>1 DEF Seats!NumbersOf, SeatNumbers
  <2>3. QED
    BY <2>2
<1>8. ASSUME NEW now PROVE Seats!Admitting(SeatsOf(table), now) = OnlineOf(table, now)
  BY <1>4, <1>6 DEF Seats!Admitting, OnlineOf, Unexpired
<1>9. QED
  BY <1>4, <1>5, <1>7, <1>8

LEMMA SameSeats ==
  ASSUME NEW one, NEW other, \A i \in Import : Same(one[i], other[i])
  PROVE  SeatsOf(one) = SeatsOf(other) /\ SeatNumbers(one) = SeatNumbers(other)
BY DEF SeatsOf, SeatNumbers, Same

(* Nothing staged, nothing drafted. *)
LEMMA NoDraft ==
  ASSUME staged = NothingStaged PROVE Draft = {} /\ SeatNumbers(staged.rows) = {}
BY DEF Draft, SeatNumbers, NothingStaged

LEMMA InitDrafts == Init => Drafts
<1> SUFFICES ASSUME Init PROVE Drafts
  OBVIOUS
<1>1. capacityLock = None /\ staged = NothingStaged /\ \A i \in Import : rows[i] = None
  BY DEF Init, NothingStaged
<1>2. \A r \in Request : r # None
  BY IngressAssumption
<1>3. QED
  BY <1>1, <1>2 DEF Drafts

(* Recovery closes only leases that are over at its clock. *)
LEMMA SweptIsOver ==
  ASSUME IInv, NEW r \in Request, request[r] # Idle, NEW now \in Nat, now <= clock, NEW i \in Import
  PROVE  LET base == Swept(r, now)
         IN  \/ base.rows[i] = rows[i]
             \/ base.rows[i] = None /\ (rows[i] # None => rows[i].expires <= clock)
<1>1. rows[i] # None => rows[i].expires \in Nat
  <2>1. rows[i] # None => rows[i] \in Row
    BY DEF IInv, Types, Table
  <2>2. QED
    BY <2>1 DEF Row
<1>2. clock \in Nat
  BY DEF IInv, Types
<1> DEFINE import == request[r].import
           gone == ExpiredOnline(rows, Game_(r), now)
                     \cup IF rows[import] # None /\ ~Unexpired(rows[import], now)
                          THEN {import} ELSE {}
<1>3. /\ Swept(r, now) = Recovered(rows, access, gone)
      /\ i \in gone => rows[i] # None /\ ~(rows[i].expires > now)
  <2>1. Swept(r, now) = Recovered(rows, access, gone)
    BY DEF Swept
  <2>2. i \in ExpiredOnline(rows, Game_(r), now) => rows[i] # None /\ rows[i].expires <= now
    BY DEF ExpiredOnline
  <2>3. ASSUME i \in gone PROVE rows[i] # None /\ ~(rows[i].expires > now)
    BY <1>1, <2>2, <2>3 DEF Unexpired
  <2>4. QED
    BY <2>1, <2>3
<1> HIDE DEF gone
<1>4. Swept(r, now).rows[i] = IF i \in gone THEN None ELSE rows[i]
  BY <1>3 DEF Recovered
<1>5. QED
  BY <1>1, <1>2, <1>3, <1>4

Kept(r, i) ==
    \/ staged'.rows[i] = rows[i]
    \/ /\ staged'.rows[i] = None
       /\ i # request[r].import /\ rows[i] # None => rows[i].expires <= clock

(* What a request stages when it enters the transaction. *)
StagesOld(r) ==
    /\ created' = created
    /\ staged'.access \subseteq access
    /\ \A i \in Import : Kept(r, i)

StagesNew(r) ==
    LET i == request[r].import
    IN /\ created' = created + 1
       /\ staged'.rows[i] # None
       /\ staged'.rows[i].number = created + 1
       /\ staged'.rows[i].expires <= clock + Lease
       /\ rows[i] # None => rows[i].expires <= clock
       /\ staged'.access \subseteq
             access \cup IF staged'.rows[i].type = "online" THEN {created + 1} ELSE {}
       /\ \A j \in Import \ {i} : Kept(r, j)

LEMMA OpenStagesNew ==
  ASSUME IInv, NEW r \in Request, request[r] # Idle, OpenOnline(r) \/ OpenLocal(r)
  PROVE  StagesNew(r)
<1> DEFINE i == request[r].import
           now == request[r].now
           base == Swept(r, now)
<1>1. /\ i \in Import /\ now \in Nat /\ now <= clock /\ clock \in Nat /\ created \in Nat
      /\ Lease \in Nat
  BY BusyFacts, IngressAssumption DEF IInv, Types
<1>2. base = [rows |-> base.rows, access |-> base.access] /\ base.rows \in Table
  BY SweptFacts
<1>3. base.access \subseteq access
  BY RecoveredRevokes DEF Swept
<1>4. \A j \in Import : \/ base.rows[j] = rows[j]
                        \/ base.rows[j] = None /\ (rows[j] # None => rows[j].expires <= clock)
  BY <1>1, SweptIsOver
<1>5. PICK type \in {"online", "local"} :
        /\ base.rows[i] = None /\ created' = created + 1
        /\ staged' = IF type = "online"
                     THEN [rows |-> [base.rows EXCEPT ![i] = NewRow("online", now)],
                           access |-> base.access \cup {created + 1}]
                     ELSE [base EXCEPT !.rows[i] = NewRow("local", now)]
  BY DEF OpenOnline, OpenLocal, Proceed
<1> DEFINE row == NewRow(type, now)
<1>6. row \in Row /\ row # None /\ row.type = type /\ row.number = created + 1
      /\ row.expires = now + Lease
  BY <1>1, NewRowFacts DEF NewRow
<1> HIDE DEF base, i, now, row
<1>7. /\ staged'.rows = [base.rows EXCEPT ![i] = row]
      /\ staged'.access \subseteq base.access \cup IF type = "online" THEN {created + 1} ELSE {}
  <2>1. CASE type = "online"
    BY <1>5, <2>1 DEF row
  <2>2. CASE type = "local"
    BY <1>2, <1>5, <2>2 DEF row
  <2>3. QED
    BY <2>1, <2>2
<1>8. staged'.rows[i] = row /\ \A j \in Import \ {i} : staged'.rows[j] = base.rows[j]
  BY <1>1, <1>2, <1>7 DEF Table
<1>9. \A j \in Import \ {i} : Kept(r, j)
  BY <1>4, <1>8 DEF Kept
<1>10. rows[i] # None => rows[i].expires <= clock
  BY <1>1, <1>4, <1>5
<1>11. row.expires <= clock + Lease
  BY <1>1, <1>6
<1>12. QED
  BY <1>3, <1>5, <1>6, <1>7, <1>8, <1>9, <1>10, <1>11 DEF StagesNew, i

LEMMA EnterOutcome ==
  ASSUME IInv, NEW r \in Request, Enter(r)
  PROVE  \/ UNCHANGED <<capacityLock, staged, created>>
         \/ capacityLock' = r /\ (StagesOld(r) \/ StagesNew(r))
<1>1. request[r].at = "waiting" /\ request[r] # Idle
  BY DEF Enter, Idle
<1>2. /\ request[r].import \in Import /\ request[r].now \in Nat /\ request[r].now <= clock
      /\ clock \in Nat
  BY <1>1, BusyFacts DEF IInv, Types
<1>3. CASE OpenOnline(r) \/ OpenLocal(r)
  BY <1>1, <1>3, OpenStagesNew DEF OpenOnline, OpenLocal, Proceed
<1>4. CASE Refuse(r)
  BY <1>4 DEF Refuse, lockVars
<1>5. CASE Reuse(r) /\ ~Refuse(r)
  <2>1. Proceed(r, Swept(r, request[r].now), FALSE) /\ UNCHANGED created
    BY <1>5 DEF Reuse
  <2>2. staged' = Swept(r, request[r].now) /\ capacityLock' = r /\ created' = created
    BY <2>1 DEF Proceed
  <2>3. staged'.access \subseteq access
    BY <2>2, RecoveredRevokes DEF Swept
  <2>4. \A i \in Import : Kept(r, i)
    BY <1>1, <1>2, <2>2, SweptIsOver DEF Kept
  <2>5. QED
    BY <2>2, <2>3, <2>4 DEF StagesOld
<1>6. ASSUME NEW j \in Import, rows[j] # None, NEW now \in Nat, now <= clock, rows[j].expires <= now
      PROVE  rows[j].expires <= clock
  <2>1. rows[j] \in Row
    BY <1>6 DEF IInv, Types, Table
  <2>2. QED
    BY <1>2, <1>6, <2>1 DEF Row
<1>7. CASE Overview(r)
  <2> DEFINE gone == ExpiredOnline(rows, Game_(r), clock)
  <2>1. /\ staged' = Recovered(rows, access, gone) /\ capacityLock' = r /\ created' = created
    BY <1>7 DEF Overview, Proceed
  <2>2. \A j \in gone : j \in Import /\ rows[j].expires <= clock
    BY DEF ExpiredOnline
  <2> HIDE DEF gone
  <2>3. \A j \in Import : staged'.rows[j] = IF j \in gone THEN None ELSE rows[j]
    BY <2>1 DEF Recovered
  <2>4. staged'.access \subseteq access
    BY <2>1, RecoveredRevokes
  <2>5. QED
    BY <2>1, <2>2, <2>3, <2>4 DEF StagesOld, Kept
<1>8. CASE Close(r)
  <2> DEFINE i == request[r].import
             shut == Recovered(rows, access, {i})
             gone == ExpiredOnline(shut.rows, Game_(r), request[r].now)
  <2>1. /\ \/ staged' = shut
           \/ staged' = Recovered(shut.rows, shut.access, gone)
        /\ capacityLock' = r /\ created' = created
    BY <1>8 DEF Close, Proceed
  <2>2. \A j \in Import : shut.rows[j] = IF j = i THEN None ELSE rows[j]
    BY DEF Recovered
  <2>3. \A j \in gone : j \in Import /\ shut.rows[j] # None /\ shut.rows[j].expires <= request[r].now
    BY DEF ExpiredOnline
  <2>4. staged'.access \subseteq access
    BY <2>1, RecoveredRevokes
  <2> HIDE DEF gone, shut, i
  <2>5. \A j \in gone : rows[j].expires <= clock
    BY <1>2, <1>6, <2>2, <2>3
  <2>6. \A j \in Import : staged'.rows[j] = shut.rows[j]
                          \/ (j \in gone /\ staged'.rows[j] = None)
    BY <2>1 DEF Recovered
  <2>7. \A j \in Import : Kept(r, j)
    BY <2>2, <2>5, <2>6 DEF Kept, i
  <2>8. QED
    BY <2>1, <2>4, <2>7 DEF StagesOld
<1>9. QED
  BY <1>3, <1>4, <1>5, <1>7, <1>8 DEF Enter, OpenOnlineFull, IngressFails, CloseRefused

(* The number of a new online assignment is the one that is drafted. *)
LEMMA EnterDraft ==
  ASSUME IInv, Drafts, NEW r \in Request, Enter(r), capacityLock' = r
  PROVE  /\ StagesOld(r) => Draft' = {}
         /\ StagesNew(r) => /\ Draft' \subseteq {created + 1}
                            /\ staged'.rows[request[r].import].type = "online"
                                  => Draft' = {created + 1}
<1>1. rows' = rows /\ created \in Nat /\ request[r].import \in Import
  BY BusyFacts DEF Enter, IInv, Types, Idle
<1>2. \A j \in Import : Kept(r, j) /\ staged'.rows[j] # None => staged'.rows[j] = rows[j]
  BY DEF Kept
<1>3. created + 1 \notin SeatNumbers(rows)
  <2>1. \A j \in Import : rows[j] # None => rows[j].number \in Nat /\ rows[j].number <= created
    BY DEF Drafts, IInv, Types, Table, Row
  <2>2. QED
    BY <1>1, <2>1 DEF SeatNumbers
<1>4. ASSUME StagesOld(r) PROVE Draft' = {}
  BY <1>1, <1>2, <1>4 DEF Draft, SeatNumbers, StagesOld
<1>5. ASSUME StagesNew(r)
      PROVE  /\ Draft' \subseteq {created + 1}
             /\ staged'.rows[request[r].import].type = "online" => Draft' = {created + 1}
  <2>1. SeatNumbers(staged.rows)' \subseteq SeatNumbers(rows) \cup {created + 1}
    BY <1>1, <1>2, <1>5 DEF SeatNumbers, StagesNew
  <2>2. staged'.rows[request[r].import].type = "online" => created + 1 \in SeatNumbers(staged.rows)'
    BY <1>1, <1>5 DEF SeatNumbers, StagesNew
  <2>3. SeatNumbers(rows)' = SeatNumbers(rows)
    BY <1>1
  <2>4. QED
    BY <1>3, <2>1, <2>2, <2>3 DEF Draft
<1>6. QED
  BY <1>4, <1>5

(* Heartbeats, time and the requests that wait leave what is staged as true as
   it was. *)
LEMMA DraftsKept ==
  ASSUME IInv, Drafts, UNCHANGED <<staged, created, access, capacityLock>>,
         clock' \in Nat, clock <= clock', \A i \in Import : Same(rows'[i], rows[i]),
         \A p \in Request : capacityLock = p => request'[p].import = request[p].import
  PROVE  Drafts'
<1>1. clock \in Nat /\ Lease \in Nat
  BY IngressAssumption DEF IInv, Types
<1>2. \A i \in Import : rows[i] # None => rows[i].expires \in Nat
  BY DEF IInv, Types, Table, Row
<1>3. \A i \in Import : /\ rows'[i] = None <=> rows[i] = None
                        /\ rows[i] # None => /\ rows'[i].type = rows[i].type
                                             /\ rows'[i].expires = rows[i].expires
                                             /\ rows'[i].number = rows[i].number
  BY DEF Same
<1>4. Draft' = Draft
  BY SameSeats DEF Draft
<1>5. ASSUME NEW r \in Request, capacityLock = r, NEW i \in Import
      PROVE  \/ Same(staged'.rows[i], rows'[i])
             \/ Closing(r, i)'
             \/ i = request'[r].import /\ NewAssignment(r)'
  <2>1. request'[r].import = request[r].import
    BY <1>5
  <2>2. CASE Same(staged.rows[i], rows[i])
    BY <1>3, <2>2 DEF Same
  <2>3. CASE Closing(r, i)
    BY <1>1, <1>2, <1>3, <2>1, <2>3 DEF Closing
  <2>4. CASE i = request[r].import /\ NewAssignment(r)
    <3>1. staged.rows[i].expires \in Nat
      BY <2>4 DEF NewAssignment, IInv, Types, Table, Row
    <3>2. QED
      BY <1>1, <1>2, <1>3, <2>1, <2>4, <3>1 DEF NewAssignment
  <2>5. QED
    BY <1>5, <2>2, <2>3, <2>4 DEF Drafts
<1>6. \A i \in Import : rows'[i] # None => rows'[i].number <= created'
  BY <1>3 DEF Drafts
<1>7. capacityLock' = None => staged' = NothingStaged'
  BY DEF Drafts, NothingStaged
<1>8. \A r \in Request : capacityLock = r => staged'.access \subseteq access' \cup Draft'
  BY <1>4 DEF Drafts
<1>9. QED
  BY <1>5, <1>6, <1>7, <1>8 DEF Drafts

(* Where a request stands tells which of its steps it can take. *)
LEMMA ImportKept ==
  ASSUME IInv, NEW r \in Request,
         Begin(r) \/ RecoverOther(r) \/ ReadClock(r) \/ LockIngress(r) \/ CountLinks(r)
           \/ ReadInstance(r) \/ StopIfCurrent(r)
  PROVE  \A p \in Request : capacityLock = p => request'[p].import = request[p].import
<1>0. Types /\ Locks
  BY DEF IInv
<1>1. CASE Begin(r)
  <2>1. PICK k \in Kind, i \in Import :
           request' = [request EXCEPT ![r] =
            [at |-> "others", kind |-> k, import |-> i, now |-> 0,
             left |-> Game \ {GameOf[i]},
             number |-> IF k = "close" THEN rows[i].number ELSE 0]]
    BY <1>1 DEF Begin
  <2>2. \A p \in Request \ {r} : request'[p] = request[p]
    BY <2>1
  <2>3. capacityLock # r
    BY <1>0, <1>1 DEF Begin, Locks, Idle, Inside
  <2>4. QED
    BY <2>2, <2>3
<1>2. CASE RecoverOther(r)
  <2>1. PICK g : request' = [request EXCEPT ![r].left = @ \ {g}]
    BY <1>2 DEF RecoverOther
  <2>2. request[r] \in Busy
    BY <1>0, <1>2 DEF RecoverOther, Types, Idle
  <2>3. request'[r] = [request[r] EXCEPT !.left = @ \ {g}]
        /\ \A p \in Request \ {r} : request'[p] = request[p]
    BY <2>1, OneRequest
  <2>4. QED
    BY <2>2, <2>3 DEF Busy
<1>3. CASE ReadClock(r)
  <2>1. request' = [request EXCEPT ![r] = [request[r] EXCEPT !.at = "waiting", !.now = clock]]
    BY <1>3 DEF ReadClock
  <2>2. request[r] \in Busy
    BY <1>0, <1>3 DEF ReadClock, Types, Idle
  <2>3. request'[r] = [request[r] EXCEPT !.at = "waiting", !.now = clock]
        /\ \A p \in Request \ {r} : request'[p] = request[p]
    BY <2>1, OneRequest
  <2>4. QED
    BY <2>2, <2>3 DEF Busy
<1>4. CASE LockIngress(r) \/ CountLinks(r) \/ ReadInstance(r) \/ StopIfCurrent(r)
  <2>1. PICK at : request' = [request EXCEPT ![r].at = at]
    BY <1>4 DEF LockIngress, CountLinks, ReadInstance, StopIfCurrent, Step
  <2>2. request[r] \in Busy
    BY <1>0, <1>4 DEF LockIngress, CountLinks, ReadInstance, StopIfCurrent, Step, Types, Idle
  <2>3. request'[r] = [request[r] EXCEPT !.at = at]
        /\ \A p \in Request \ {r} : request'[p] = request[p]
    BY <2>1, OneRequest
  <2>4. QED
    BY <2>2, <2>3 DEF Busy
<1>5. QED
  BY <1>1, <1>2, <1>3, <1>4

LEMMA SameRow == \A a : Same(a, a)
BY DEF Same

LEMMA DraftsStep ==
  ASSUME IInv, Drafts, [Next]_vars
  PROVE  Drafts'
<1>0. Types /\ Locks /\ clock \in Nat /\ created \in Nat
  BY DEF IInv, Types
<1>n. \A r \in Request : r # None
  BY IngressAssumption
<1> USE DEF lockVars, rowVars
<1>1. ASSUME UNCHANGED <<clock, rows, staged, created, access, capacityLock>>,
             \A p \in Request : capacityLock = p => request'[p].import = request[p].import
      PROVE  Drafts'
  <2>1. clock' \in Nat /\ clock <= clock' /\ \A i \in Import : Same(rows'[i], rows[i])
    BY <1>0, <1>1, SameRow
  <2>2. QED
    BY <1>1, <2>1, DraftsKept
<1>2. ASSUME NEW r \in Request,
             Begin(r) \/ ReadClock(r) \/ LockIngress(r) \/ CountLinks(r)
               \/ ReadInstance(r) \/ StopIfCurrent(r)
      PROVE  Drafts'
  <2>1. UNCHANGED <<clock, rows, staged, created, access, capacityLock>>
    BY <1>2 DEF Begin, ReadClock, LockIngress, CountLinks, ReadInstance, StopIfCurrent
  <2>2. QED
    BY <1>1, <1>2, <2>1, ImportKept
<1>3. ASSUME NEW r \in Request, RecoverOther(r) PROVE Drafts'
  <2>1. UNCHANGED <<clock, staged, created, capacityLock>>
    BY <1>3 DEF RecoverOther
  <2>2. CASE UNCHANGED rowVars
    BY <1>1, <1>3, <2>1, <2>2, ImportKept
  <2>3. CASE capacityLock = None /\ ~UNCHANGED rowVars
    <3>1. PICK gone : rows' = Recovered(rows, access, gone).rows
      BY <1>3, <2>3 DEF RecoverOther
    <3>2. \A i \in Import : rows'[i] = None \/ rows'[i] = rows[i]
      BY <3>1 DEF Recovered
    <3>3. QED
      BY <1>n, <2>1, <2>3, <3>2 DEF Drafts, NothingStaged
  <2>4. QED
    BY <1>3, <2>2, <2>3 DEF RecoverOther
<1>4. ASSUME NEW r \in Request, Enter(r) PROVE Drafts'
  <2>1. capacityLock = None /\ UNCHANGED <<clock, rows, access>> /\ request[r] \in Busy
    BY <1>4, EnterEffect
  <2>2. CASE UNCHANGED <<capacityLock, staged, created>>
    BY <1>1, <1>n, <2>1, <2>2
  <2>3. CASE capacityLock' = r /\ (StagesOld(r) \/ StagesNew(r))
    <3> DEFINE import == request[r].import
    <3>1. request'[r].import = import
      <4>1. PICK at : request' = [request EXCEPT ![r].at = at]
        BY <1>4, <1>n, <2>1, <2>3, EnterEffect DEF Staged
      <4>2. request'[r] = [request[r] EXCEPT !.at = at]
        BY <4>1, OneRequest
      <4>3. QED
        BY <2>1, <4>2 DEF Busy
    <3>2. capacityLock' # None
      BY <1>n, <2>3
    <3>3. \A i \in Import : Kept(r, i) => Same(staged'.rows[i], rows'[i]) \/ Closing(r, i)'
      BY <2>1, <3>1, SameRow DEF Kept, Closing
    <3>4. CASE StagesOld(r)
      <4>1. staged'.access \subseteq access' \cup Draft'
        BY <2>1, <3>4 DEF StagesOld
      <4>2. \A i \in Import : rows'[i] # None => rows'[i].number <= created'
        BY <2>1, <3>4 DEF StagesOld, Drafts
      <4>3. QED
        BY <2>3, <3>2, <3>3, <3>4, <4>1, <4>2 DEF Drafts, StagesOld
    <3>5. CASE StagesNew(r)
      <4>1. \A i \in Import : rows[i] # None => rows[i].number \in Nat /\ rows[i].number <= created
        BY <1>0 DEF Drafts, Types, Table, Row
      <4>2. NewAssignment(r)'
        BY <1>0, <2>1, <3>1, <3>5, <4>1 DEF NewAssignment, StagesNew
      <4>3. staged'.access \subseteq access' \cup Draft'
        BY <2>1, <2>3, <3>5, <1>4, EnterDraft DEF StagesNew
      <4>4. \A i \in Import : rows'[i] # None => rows'[i].number <= created'
        BY <1>0, <2>1, <3>5, <4>1 DEF StagesNew
      <4>5. \A i \in Import : \/ Same(staged'.rows[i], rows'[i])
                              \/ Closing(r, i)'
                              \/ i = request'[r].import /\ NewAssignment(r)'
        BY <3>1, <3>3, <3>5, <4>2 DEF StagesNew
      <4>6. QED
        BY <2>3, <3>2, <4>3, <4>4, <4>5 DEF Drafts
    <3>6. QED
      BY <2>3, <3>4, <3>5
  <2>4. QED
    BY <1>4, <2>2, <2>3, EnterOutcome
<1>5. ASSUME NEW r \in Request, Commit(r) \/ Rollback(r) PROVE Drafts'
  <2>1. capacityLock' = None /\ staged' = NothingStaged /\ created' = created
    BY <1>5 DEF Commit, Rollback
  <2>2. capacityLock = r
    BY <1>0, <1>5 DEF Commit, Rollback, Locks, Inside
  <2>3. \A i \in Import : /\ rows[i] # None => rows[i].number <= created
                          /\ staged.rows[i] # None => staged.rows[i].number <= created
    BY <1>0, <2>2 DEF Drafts, Same, Closing, NewAssignment
  <2>4. \A i \in Import : rows'[i] = rows[i] \/ rows'[i] = staged.rows[i]
    BY <1>5 DEF Commit, Rollback
  <2>5. \A i \in Import : rows'[i] # None => rows'[i].number <= created'
    BY <2>1, <2>3, <2>4
  <2>6. QED
    BY <1>n, <2>1, <2>5 DEF Drafts, NothingStaged
<1>6. ASSUME NEW i \in Import, Heartbeat(i) PROVE Drafts'
  <2>1. UNCHANGED <<staged, created, access, capacityLock, request, clock>>
    BY <1>6 DEF Heartbeat
  <2>2. QED
    BY <1>0, <1>6, <2>1, HeartbeatFacts, DraftsKept
<1>7. ASSUME UNCHANGED <<clock, rows, staged, created, access, capacityLock, request>>
      PROVE  Drafts'
  BY <1>1, <1>7
<1>8. ASSUME NEW l \in Link, StartLink(l) \/ CreateLink(l) \/ LinkFails(l) \/ EndLink(l) PROVE Drafts'
  BY <1>7, <1>8 DEF StartLink, CreateLink, LinkFails, EndLink
<1>9. CASE OperatorStop \/ OperatorStart \/ UNCHANGED vars
  BY <1>7, <1>9 DEF OperatorStop, OperatorStart, vars
<1>10. CASE Tick
  <2>1. UNCHANGED <<staged, created, access, capacityLock, request, rows>> /\ clock' = clock + 1
    BY <1>10 DEF Tick
  <2>2. clock' \in Nat /\ clock <= clock' /\ \A i \in Import : Same(rows'[i], rows[i])
    BY <1>0, <2>1, SameRow
  <2>3. QED
    BY <2>1, <2>2, DraftsKept
<1>11. CASE SessionsMove
  <2>1. /\ UNCHANGED <<clock, rows, created, request, capacityLock>>
        /\ staged' = [rows |-> staged.rows, access |-> staged'.access]
        /\ staged'.rows = staged.rows
    BY <1>11, SessionsMoveAlone
  <2>2. capacityLock = None => staged' = NothingStaged
    <3>1. ASSUME capacityLock = None PROVE staged'.access = {} /\ staged.rows = NothingStaged.rows
      <4>1. staged = NothingStaged
        BY <3>1 DEF Drafts
      <4>2. staged.access = {}
        BY <4>1 DEF NothingStaged
      <4>3. QED
        BY <1>11, <3>1, <4>1, <4>2 DEF SessionsMove, GiveSession, EndSession
    <3>2. QED
      BY <2>1, <3>1 DEF NothingStaged
  <2>3. ASSUME NEW r \in Request, capacityLock = r PROVE staged'.access \subseteq access' \cup Draft
    <3>1. staged.access \subseteq access \cup Draft /\ capacityLock # None
      BY <1>n, <2>3 DEF Drafts
    <3>2. ASSUME NEW x \in Standalone, GiveSession(x) PROVE staged'.access \subseteq access' \cup Draft
      BY <3>1, <3>2 DEF GiveSession
    <3>3. ASSUME NEW x \in access, EndSession(x) PROVE staged'.access \subseteq access' \cup Draft
      BY <3>1, <3>3 DEF EndSession
    <3>4. QED
      BY <1>11, <3>2, <3>3 DEF SessionsMove
  <2>4. Draft' = Draft
    BY <2>1 DEF Draft, SeatNumbers
  <2>5. ASSUME NEW r \in Request, capacityLock = r, NEW i \in Import
        PROVE  \/ Same(staged'.rows[i], rows'[i])
               \/ Closing(r, i)'
               \/ i = request'[r].import /\ NewAssignment(r)'
    BY <2>1, <2>5 DEF Drafts, Closing, NewAssignment
  <2>6. \A i \in Import : rows'[i] # None => rows'[i].number <= created'
    BY <2>1 DEF Drafts
  <2>7. NothingStaged' = NothingStaged
    BY DEF NothingStaged
  <2>8. QED
    BY <2>1, <2>2, <2>3, <2>4, <2>5, <2>6, <2>7 DEF Drafts
<1>12. QED
  BY <1>2, <1>3, <1>4, <1>5, <1>6, <1>8, <1>9, <1>10, <1>11 DEF Next, SessionsMove

-----------------------------------------------------------------------------
(* No two open assignments have the same number, and what is staged has ended
   no session but those of rows it closes. *)
Distinct(table) ==
    \A i, j \in Import :
        table[i] # None /\ table[j] # None /\ table[i].number = table[j].number => i = j

SparedBy(sessions, table, left) ==
    \A n \in sessions : n \in Standalone \cup SeatNumbers(table) => n \in left

Paired ==
    /\ Distinct(rows)
    /\ capacityLock # None => SparedBy(access, staged.rows, staged.access)

LEMMA RecoveredSpares ==
  ASSUME NEW table \in Table, Distinct(table), NEW sessions, NEW gone \in SUBSET Import,
         \A i \in gone : table[i] # None
  PROVE  LET done == Recovered(table, sessions, gone)
         IN  /\ SparedBy(sessions, done.rows, done.access)
             /\ Distinct(done.rows)
             /\ SeatNumbers(done.rows) \subseteq SeatNumbers(table)
<1> DEFINE done == Recovered(table, sessions, gone)
<1>1. /\ \A i \in Import : done.rows[i] = IF i \in gone THEN None ELSE table[i]
      /\ done.access = sessions \ {table[i].number : i \in gone}
  BY DEF Recovered
<1> HIDE DEF done
<1>2. \A i \in Import : table[i] # None => table[i].number \in Nat
  BY DEF Table, Row
<1>3. ASSUME NEW n \in sessions, n \in Standalone PROVE n \in done.access
  BY <1>1, <1>2, <1>3, IngressAssumption
<1>4. ASSUME NEW n \in sessions, n \in SeatNumbers(done.rows) PROVE n \in done.access
  <2>1. PICK j \in Import : done.rows[j] # None /\ done.rows[j].number = n
    BY <1>4 DEF SeatNumbers
  <2>2. j \notin gone /\ table[j] # None /\ table[j].number = n
    BY <1>1, <2>1
  <2>3. \A i \in gone : table[i].number # n
    BY <2>2 DEF Distinct
  <2>4. QED
    BY <1>1, <2>3
<1>5. SeatNumbers(done.rows) \subseteq SeatNumbers(table)
  BY <1>1 DEF SeatNumbers
<1>6. Distinct(done.rows)
  BY <1>1 DEF Distinct
<1>7. QED
  BY <1>3, <1>4, <1>5, <1>6 DEF SparedBy, done

LEMMA SweptSpares ==
  ASSUME IInv, Paired, NEW r \in Request, request[r] # Idle, NEW now
  PROVE  SparedBy(access, Swept(r, now).rows, Swept(r, now).access)
<1> DEFINE i == request[r].import
           gone == ExpiredOnline(rows, Game_(r), now)
                     \cup IF rows[i] # None /\ ~Unexpired(rows[i], now) THEN {i} ELSE {}
<1>1. i \in Import
  BY BusyFacts
<1>2. gone \in SUBSET Import /\ \A j \in gone : rows[j] # None
  BY <1>1 DEF ExpiredOnline
<1>3. rows \in Table /\ Distinct(rows)
  BY DEF IInv, Types, Paired
<1>4. Swept(r, now) = Recovered(rows, access, gone)
  BY DEF Swept
<1> HIDE DEF gone
<1>5. QED
  BY <1>2, <1>3, <1>4, RecoveredSpares

LEMMA EnterSpares ==
  ASSUME IInv, Paired, NEW r \in Request, Enter(r)
  PROVE  UNCHANGED lockVars \/ SparedBy(access, staged'.rows, staged'.access)
<1> DEFINE i == request[r].import
           now == request[r].now
           base == Swept(r, now)
<1>1. /\ request[r] # Idle /\ i \in Import /\ now \in Nat /\ rows \in Table /\ Distinct(rows)
  BY BusyFacts DEF Enter, Idle, IInv, Types, Paired
<1>2. /\ base = [rows |-> base.rows, access |-> base.access] /\ base.rows \in Table
      /\ SparedBy(access, base.rows, base.access)
  BY <1>1, SweptFacts, SweptSpares
<1>3. CASE OpenOnline(r) \/ OpenLocal(r)
  <2>1. PICK type \in {"online", "local"} :
          staged' = IF type = "online"
                    THEN [rows |-> [base.rows EXCEPT ![i] = NewRow("online", now)],
                          access |-> base.access \cup {created + 1}]
                    ELSE [base EXCEPT !.rows[i] = NewRow("local", now)]
    BY <1>3 DEF OpenOnline, OpenLocal, Proceed
  <2> DEFINE row == NewRow(type, now)
  <2>2. row.type = type /\ row.number = created + 1
    BY <1>1, NewRowFacts
  <2> HIDE DEF base, i, now, row
  <2>3. /\ staged'.rows = [base.rows EXCEPT ![i] = row]
        /\ staged'.access = base.access \cup IF type = "online" THEN {created + 1} ELSE {}
    <3>1. CASE type = "online"
      BY <2>1, <3>1 DEF row
    <3>2. CASE type = "local"
      BY <1>2, <2>1, <3>2 DEF row
    <3>3. QED
      BY <3>1, <3>2
  <2>4. \A n \in SeatNumbers(staged'.rows) : n \in SeatNumbers(base.rows)
                                             \/ (type = "online" /\ n = created + 1)
    BY <1>1, <1>2, <2>2, <2>3 DEF SeatNumbers, Table
  <2>5. QED
    BY <1>2, <2>3, <2>4 DEF SparedBy
<1>4. CASE Refuse(r)
  BY <1>4 DEF Refuse
<1>5. CASE Reuse(r) /\ ~Refuse(r)
  <2>1. staged' = base
    BY <1>5 DEF Reuse, Proceed
  <2>2. QED
    BY <1>2, <2>1
<1>6. CASE Overview(r)
  <2> DEFINE gone == ExpiredOnline(rows, Game_(r), clock)
  <2>1. staged' = Recovered(rows, access, gone)
    BY <1>6 DEF Overview, Proceed
  <2>2. gone \in SUBSET Import /\ \A j \in gone : rows[j] # None
    BY DEF ExpiredOnline
  <2> HIDE DEF gone
  <2>3. QED
    BY <1>1, <2>1, <2>2, RecoveredSpares
<1>7. CASE Close(r)
  <2> DEFINE shut == Recovered(rows, access, {i})
             gone == ExpiredOnline(shut.rows, Game_(r), now)
             done == Recovered(shut.rows, shut.access, gone)
  <2>1. staged' = shut \/ staged' = done
    BY <1>7 DEF Close, Proceed
  <2>2. {i} \in SUBSET Import /\ \A j \in {i} : rows[j] # None
    BY <1>1, <1>7 DEF Close, MayClose
  <2>3. gone \in SUBSET Import /\ \A j \in gone : shut.rows[j] # None
    BY DEF ExpiredOnline
  <2> HIDE DEF gone, i
  <2>4. SparedBy(access, shut.rows, shut.access) /\ Distinct(shut.rows) /\ shut.rows \in Table
    BY <1>1, <2>2, RecoveredSpares, RecoveredFacts
  <2> HIDE DEF shut
  <2>5. SparedBy(shut.access, done.rows, done.access)
        /\ SeatNumbers(done.rows) \subseteq SeatNumbers(shut.rows)
    BY <2>3, <2>4, RecoveredSpares
  <2>6. QED
    BY <2>1, <2>4, <2>5 DEF SparedBy
<1>8. QED
  BY <1>3, <1>4, <1>5, <1>6, <1>7 DEF Enter, OpenOnlineFull, IngressFails, CloseRefused

LEMMA InitPaired == Init => Paired
BY DEF Init, Paired, Distinct

LEMMA PairedStep ==
  ASSUME IInv, Drafts, Paired, [Next]_vars
  PROVE  Paired'
<1>0. Distinct(rows) /\ rows \in Table /\ \A r \in Request : r # None
  BY IngressAssumption DEF Paired, IInv, Types
<1> USE DEF lockVars, rowVars
<1>1. ASSUME UNCHANGED <<rows, access, staged, capacityLock>> PROVE Paired'
  BY <1>1 DEF Paired, Distinct, SparedBy, SeatNumbers
<1>2. ASSUME NEW r \in Request,
             \/ Begin(r) \/ ReadClock(r) \/ LockIngress(r) \/ CountLinks(r)
             \/ ReadInstance(r) \/ StopIfCurrent(r)
      PROVE  Paired'
  BY <1>1, <1>2 DEF Begin, ReadClock, LockIngress, CountLinks, ReadInstance, StopIfCurrent
<1>3. ASSUME NEW r \in Request, RecoverOther(r) PROVE Paired'
  <2>1. CASE UNCHANGED rowVars
    BY <1>1, <1>3, <2>1 DEF RecoverOther
  <2>2. CASE ~UNCHANGED rowVars
    <3>1. PICK gone : capacityLock' = None /\ rows' = Recovered(rows, access, gone).rows
      BY <1>3, <2>2 DEF RecoverOther
    <3>2. \A i \in Import : rows'[i] = None \/ rows'[i] = rows[i]
      BY <3>1 DEF Recovered
    <3>3. Distinct(rows')
      BY <1>0, <3>2 DEF Distinct
    <3>4. QED
      BY <3>1, <3>3 DEF Paired
  <2>3. QED
    BY <2>1, <2>2
<1>4. ASSUME NEW r \in Request, Enter(r) PROVE Paired'
  <2>1. UNCHANGED <<rows, access>>
    BY <1>4 DEF Enter
  <2>2. CASE UNCHANGED lockVars
    BY <1>1, <2>1, <2>2
  <2>3. CASE SparedBy(access, staged'.rows, staged'.access)
    BY <1>0, <2>1, <2>3 DEF Paired
  <2>4. QED
    BY <1>4, <2>2, <2>3, EnterSpares
<1>5. ASSUME NEW r \in Request, Commit(r) PROVE Paired'
  <2>1. capacityLock = r /\ \A i \in Import : Same(rows'[i], staged.rows[i])
    BY <1>5, CommitFacts
  <2>2. ASSUME NEW i \in Import
        PROVE  \/ Same(staged.rows[i], rows[i])
               \/ staged.rows[i] = None
               \/ i = request[r].import /\ NewAssignment(r)
    BY <1>5, <2>1, <2>2 DEF Drafts, Closing
  <2>3. \A i \in Import : rows[i] # None => rows[i].number \in Nat
    BY <1>0 DEF Table, Row
  <2>4. created \in Nat
    BY DEF IInv, Types
  <2>5. Distinct(staged.rows)
    <3>1. CASE NewAssignment(r)
      <4>1. \A j \in Import : rows[j] # None => rows[j].number # created
        BY <2>3, <2>4, <3>1 DEF NewAssignment
      <4>2. staged.rows[request[r].import].number = created
        BY <3>1 DEF NewAssignment
      <4>3. QED
        BY <1>0, <2>2, <4>1, <4>2 DEF Distinct, Same
    <3>2. CASE ~NewAssignment(r)
      BY <1>0, <2>2, <3>2 DEF Distinct, Same
    <3>3. QED
      BY <3>1, <3>2
  <2>6. Distinct(rows')
    BY <2>1, <2>5 DEF Distinct, Same
  <2>7. capacityLock' = None
    BY <1>5 DEF Commit
  <2>8. QED
    BY <2>6, <2>7 DEF Paired
<1>6. ASSUME NEW r \in Request, Rollback(r) PROVE Paired'
  BY <1>0, <1>6 DEF Rollback, Paired, Distinct
<1>7. ASSUME NEW i \in Import, Heartbeat(i) PROVE Paired'
  <2>1. \A j \in Import : Same(rows'[j], rows[j])
    BY <1>7, HeartbeatFacts
  <2>2. Distinct(rows')
    BY <1>0, <2>1 DEF Distinct, Same
  <2>3. UNCHANGED <<access, staged, capacityLock>>
    BY <1>7 DEF Heartbeat
  <2>4. QED
    BY <2>2, <2>3 DEF Paired, SparedBy, SeatNumbers
<1>8. ASSUME NEW l \in Link, StartLink(l) \/ CreateLink(l) \/ LinkFails(l) \/ EndLink(l) PROVE Paired'
  BY <1>1, <1>8 DEF StartLink, CreateLink, LinkFails, EndLink
<1>9. CASE OperatorStop \/ OperatorStart \/ Tick \/ UNCHANGED vars
  BY <1>1, <1>9 DEF OperatorStop, OperatorStart, Tick, vars
(* A session made or ended on the side is so for the transaction too. *)
<1>10. CASE SessionsMove
  <2>1. UNCHANGED <<rows, capacityLock>> /\ staged'.rows = staged.rows
    BY <1>10, SessionsMoveAlone
  <2>2. ASSUME capacityLock # None PROVE SparedBy(access', staged.rows, staged'.access)
    <3>1. SparedBy(access, staged.rows, staged.access)
      BY <2>2 DEF Paired
    <3>2. ASSUME NEW s \in Standalone, GiveSession(s)
          PROVE  SparedBy(access', staged.rows, staged'.access)
      BY <2>2, <3>1, <3>2 DEF GiveSession, SparedBy
    <3>3. ASSUME NEW n \in access, EndSession(n)
          PROVE  SparedBy(access', staged.rows, staged'.access)
      BY <3>1, <3>3 DEF EndSession, SparedBy
    <3>4. QED
      BY <1>10, <3>2, <3>3 DEF SessionsMove
  <2>3. QED
    BY <1>0, <2>1, <2>2 DEF Paired
<1>11. QED
  BY <1>2, <1>3, <1>4, <1>5, <1>6, <1>7, <1>8, <1>9, <1>10 DEF Next, SessionsMove

-----------------------------------------------------------------------------
(* Every step of the host is a step of the seats, or none. *)
LEMMA NoSeatMoves ==
  ASSUME UNCHANGED <<clock, access, created, staged>>,
         \A i \in Import : Same(rows'[i], rows[i])
  PROVE  /\ UNCHANGED <<clock, SeatsOf(rows), access, created, Draft>>
<1>1. SeatsOf(rows') = SeatsOf(rows) /\ SeatNumbers(rows') = SeatNumbers(rows)
  BY SameSeats
<1>2. QED
  BY <1>1 DEF Draft

LEMMA SessionsOfSeats ==
  ASSUME NEW table \in Table, NEW sessions, Sessions(table, sessions)
  PROVE  sessions \ Standalone \subseteq Seats!NumbersOf(SeatsOf(table))
<1>1. sessions \ Standalone \subseteq SeatNumbers(table)
  BY DEF Sessions, SeatNumbers
<1>2. QED
  BY <1>1, SeatFacts

(* The recovery of another game closes seats that are over. *)
LEMMA RecoverySeats ==
  ASSUME IInv, IInv', Drafts, Paired, NEW r \in Request, RecoverOther(r), capacityLock = None,
         NEW g, rows' = Recovered(rows, access, ExpiredOnline(rows, g, clock)).rows,
         access' = Recovered(rows, access, ExpiredOnline(rows, g, clock)).access
  PROVE  \E gone \in SUBSET Import : Seats!CloseSeats(gone)
<1> DEFINE gone == ExpiredOnline(rows, g, clock)
<1>1. rows \in Table /\ rows' \in Table /\ UNCHANGED <<clock, created, staged>>
  <2>1. rows \in Table /\ rows' \in Table
    BY DEF IInv, Types
  <2>2. UNCHANGED <<clock, lockVars>> /\ created' = created
    BY DEF RecoverOther, rowVars
  <2>3. QED
    BY <2>1, <2>2 DEF lockVars
<1>2. /\ gone \in SUBSET Import
      /\ \A j \in gone : rows[j] # None /\ rows[j].type = "online" /\ rows[j].expires <= clock
  BY DEF ExpiredOnline
<1>3. /\ \A j \in Import : rows'[j] = IF j \in gone THEN None ELSE rows[j]
      /\ access' \subseteq access
      /\ SparedBy(access, rows', access')
  <2>1. SparedBy(access, rows', access')
    <3> HIDE DEF gone
    <3>1. QED
      BY <1>1, <1>2, RecoveredSpares DEF Paired, gone
  <2>2. QED
    BY <2>1 DEF Recovered
<1> HIDE DEF gone
<1>4. request[r].import \in Import
  BY BusyFacts DEF RecoverOther, Idle
<1>5. \A j \in gone : Seats!Over(j)
  <2>1. ASSUME NEW j \in gone PROVE SeatsOf(rows)[j].expires <= clock
    <3>1. SeatsOf(rows)[j] = [number |-> rows[j].number, expires |-> rows[j].expires]
      BY <1>1, <1>2, <2>1, SeatFacts
    <3>2. QED
      BY <1>2, <2>1, <3>1
  <2>2. QED
    BY <2>1 DEF Seats!Over
<1>6. SeatsOf(rows') = [j \in Import |-> IF j \in gone THEN None ELSE SeatsOf(rows)[j]]
  BY <1>3 DEF SeatsOf
<1>7. Draft = {} /\ Draft' = {}
  BY <1>1, NoDraft DEF Drafts, Draft
<1>8. /\ access' \ Standalone \subseteq Seats!NumbersOf(SeatsOf(rows'))
      /\ access \cap (Standalone \cup Seats!NumbersOf(SeatsOf(rows'))) \subseteq access'
  <2>1. Seats!NumbersOf(SeatsOf(rows')) = SeatNumbers(rows')
    BY <1>1, SeatFacts
  <2>2. QED
    BY <1>1, <1>3, <2>1, SessionsOfSeats DEF IInv, SparedBy
<1>9. Seats!SessionsEnd
  BY <1>3, <1>8 DEF Seats!SessionsEnd, Seats!NumbersOf
<1>10. Seats!CloseSeats(gone)
  BY <1>1, <1>4, <1>5, <1>6, <1>7, <1>9 DEF Seats!CloseSeats, Draft
<1>11. QED
  BY <1>2, <1>10

(* What a commit makes of the seats: the staged table, whatever the rows that
   the transaction has not locked have become meanwhile. *)
LEMMA CommitSeats ==
  ASSUME IInv, IInv', Drafts, Paired, NEW r \in Request, Commit(r)
  PROVE  \E gone \in SUBSET Import :
            \/ Seats!CloseSeats(gone)
            \/ \E i \in Import, n \in Draft : Seats!TakeSeat(i, n, gone)
<1> DEFINE import == request[r].import
           old == SeatsOf(rows)
           new == SeatsOf(staged.rows)
           gone == {j \in Import : j # import /\ old[j] # None /\ new[j] = None}
<1>1. /\ capacityLock = r /\ request[r] # Idle /\ import \in Import
      /\ rows \in Table /\ rows' \in Table /\ staged.rows \in Table
      /\ clock \in Nat /\ created \in Nat
  <2>1. capacityLock = r /\ request[r] # Idle
    BY DEF Commit, IInv, Locks, Inside, Idle
  <2>2. QED
    BY <2>1, BusyFacts DEF IInv, Types
<1>2. UNCHANGED <<clock, created>> /\ staged' = NothingStaged /\ access' = staged.access
  BY DEF Commit
<1>3. \A j \in Import : \/ Same(staged.rows[j], rows[j])
                        \/ Closing(r, j)
                        \/ j = import /\ NewAssignment(r)
  BY <1>1 DEF Drafts
<1>4. SeatsOf(rows') = new
  <2>1. \A j \in Import : Same(rows'[j], staged.rows[j])
    BY <1>1 DEF Commit, IInv, Stages, Agree, Same
  <2>2. QED
    BY <2>1, SameSeats
<1>5. Draft' = {}
  <2>1. SeatNumbers(staged'.rows) = {}
    BY <1>2 DEF SeatNumbers, NothingStaged
  <2>2. QED
    BY <2>1 DEF Draft
<1>6. Seats!SessionsEnd
  <2>1. access' \ Standalone \subseteq Seats!NumbersOf(SeatsOf(rows'))
    BY <1>1, SessionsOfSeats DEF IInv
  <2>2. access' \subseteq access \cup Draft
    BY <1>1, <1>2 DEF Drafts
  <2>3. access \cap (Standalone \cup Seats!NumbersOf(SeatsOf(rows'))) \subseteq access'
    <3>1. Seats!NumbersOf(SeatsOf(rows')) = SeatNumbers(staged.rows)
      BY <1>1, <1>4, SeatFacts
    <3>2. SparedBy(access, staged.rows, access')
      BY <1>1, <1>2, IngressAssumption DEF Paired
    <3>3. QED
      BY <3>1, <3>2 DEF SparedBy
  <2>4. QED
    BY <2>1, <2>2, <2>3 DEF Seats!SessionsEnd, Seats!NumbersOf, Draft
<1>7. /\ \A j \in Import : Same(staged.rows[j], rows[j]) => new[j] = old[j]
      /\ \A j \in Import : staged.rows[j] = None => new[j] = None
  BY DEF SeatsOf, Same
<1>8. ASSUME NEW j \in Import, rows[j] # None => rows[j].expires <= clock PROVE Seats!Over(j)
  <2>1. CASE old[j] = None
    BY <2>1 DEF Seats!Over
  <2>2. CASE old[j] # None
    <3>1. rows[j] # None /\ old[j] = [number |-> rows[j].number, expires |-> rows[j].expires]
      BY <1>1, <2>2, SeatFacts
    <3>2. old[j].expires <= clock
      BY <1>8, <3>1
    <3>3. QED
      BY <3>2 DEF Seats!Over
  <2>3. QED
    BY <2>1, <2>2
<1>9. \A j \in gone : Seats!Over(j)
  <2>1. ASSUME NEW j \in gone PROVE rows[j] # None => rows[j].expires <= clock
    <3>1. j \in Import /\ j # import /\ new[j] # old[j]
      BY <2>1
    <3>2. Closing(r, j)
      BY <1>3, <1>7, <3>1
    <3>3. QED
      BY <3>1, <3>2 DEF Closing
  <2>2. QED
    BY <1>8, <2>1
<1>10. \A j \in Import \ {import} : new[j] = IF j \in gone THEN None ELSE old[j]
  <2>1. ASSUME NEW j \in Import \ {import}
        PROVE  new[j] = IF j \in gone THEN None ELSE old[j]
    <3>1. new[j] = old[j] \/ new[j] = None
      BY <1>3, <1>7, <2>1 DEF Closing
    <3>2. QED
      BY <2>1, <3>1
  <2>2. QED
    BY <2>1
<1>11. new = [j \in Import |-> new[j]]
  BY DEF SeatsOf
<1>12. gone \in SUBSET Import
  OBVIOUS
<1>13. CASE NewAssignment(r) /\ staged.rows[import].type = "online"
  <2> DEFINE e == staged.rows[import].expires
  <2>1. /\ staged.rows[import] # None /\ staged.rows[import].number = created
        /\ e <= clock + Lease
        /\ rows[import] # None => rows[import].expires <= clock
        /\ \A j \in Import : rows[j] # None => rows[j].number < created
    BY <1>13 DEF NewAssignment
  <2>2. e \in 0..(clock + Lease)
    <3>1. staged.rows[import] \in Row
      BY <1>1, <2>1 DEF Table
    <3>2. e \in Nat
      BY <3>1 DEF Row
    <3>3. QED
      BY <1>1, <2>1, <3>2, IngressAssumption
  <2>3. created \in Draft
    <3>1. created \in SeatNumbers(staged.rows)
      BY <1>1, <1>13, <2>1 DEF SeatNumbers
    <3>2. \A j \in Import : rows[j] # None => rows[j].number # created
      <4>1. \A j \in Import : rows[j] # None => rows[j].number \in Nat
        BY <1>1 DEF Table, Row
      <4>2. QED
        BY <1>1, <2>1, <4>1
    <3>3. QED
      BY <3>1, <3>2 DEF Draft, SeatNumbers
  <2>4. new[import] = [number |-> created, expires |-> e]
    BY <1>1, <1>13, <2>1, SeatFacts
  <2>5. Seats!Over(import)
    BY <1>1, <1>8, <2>1
  <2>6. Cardinality(Seats!Admitting(SeatsOf(rows'), clock)) <= MaxOnline
    <3>1. Seats!Admitting(SeatsOf(rows'), clock) = OnlineOf(rows', clock)
      BY <1>1, SeatFacts
    <3>2. Cardinality(OnlineOf(rows', clock)) <= MaxOnline
      BY <1>2 DEF IInv, CapacityRespected
    <3>3. QED
      BY <3>1, <3>2
  <2> HIDE DEF e, gone, old, new, import
  <2>7. new = [j \in Import |-> IF j = import THEN [number |-> created, expires |-> e]
                                ELSE IF j \in gone THEN None ELSE old[j]]
    BY <1>10, <1>11, <2>4
  <2>8. SeatsOf(rows') = [j \in Import |-> IF j = import THEN [number |-> created, expires |-> e]
                                           ELSE IF j \in gone THEN None ELSE SeatsOf(rows)[j]]
    BY <1>4, <2>7 DEF old
  <2>9. \A j \in gone \cup {import} : Seats!Over(j)
    BY <1>9, <2>5
  <2>a. \E x \in 0..(clock + Lease) :
           SeatsOf(rows') = [j \in Import |-> IF j = import THEN [number |-> created, expires |-> x]
                                              ELSE IF j \in gone THEN None ELSE SeatsOf(rows)[j]]
    BY <2>2, <2>8
  <2>b. Seats!Cardinality(Seats!Admitting(SeatsOf(rows'), clock)) <= MaxOnline
    BY <2>6 DEF Seats!Cardinality, Cardinality
  <2>10. Seats!TakeSeat(import, created, gone)
    BY <1>2, <1>5, <1>6, <2>a, <2>b, <2>3, <2>9
       DEF Seats!TakeSeat, Seats!Admitting, Draft
  <2>11. QED
    BY <1>1, <1>12, <2>3, <2>10
<1>14. CASE ~(NewAssignment(r) /\ staged.rows[import].type = "online")
  <2> DEFINE all == gone \cup IF new[import] = None THEN {import} ELSE {}
  <2>1. new[import] = None \/ new[import] = old[import]
    <3>1. CASE NewAssignment(r)
      BY <1>1, <1>14, <3>1, SeatFacts
    <3>2. CASE ~NewAssignment(r)
      BY <1>1, <1>3, <1>7, <3>2 DEF Closing
    <3>3. QED
      BY <3>1, <3>2
  <2>2. all \in SUBSET Import
    BY <1>1, <1>12
  <2>a. /\ import \in all <=> new[import] = None
        /\ \A j \in Import \ {import} : j \in all <=> j \in gone
    OBVIOUS
  <2> HIDE DEF gone, old, new, import
  <2>3. new = [j \in Import |-> IF j \in all THEN None ELSE old[j]]
    <3>1. ASSUME NEW j \in Import PROVE new[j] = IF j \in all THEN None ELSE old[j]
      BY <1>1, <1>10, <2>1, <2>a
    <3> HIDE DEF all
    <3>2. QED
      BY <1>11, <3>1
  <2>4. \A j \in all \ {import} : Seats!Over(j)
    BY <1>9
  <2> HIDE DEF all
  <2>5. SeatsOf(rows') = [j \in Import |-> IF j \in all THEN None ELSE SeatsOf(rows)[j]]
    BY <1>4, <2>3 DEF old
  <2>6. Seats!CloseSeats(all)
    BY <1>1, <1>2, <1>5, <1>6, <2>4, <2>5 DEF Seats!CloseSeats, Draft
  <2>7. QED
    BY <2>2, <2>6
<1>15. QED
  BY <1>13, <1>14

seatVars == <<clock, SeatsOf(rows), access, created, Draft>>

LEMMA SeatsStep ==
  ASSUME IInv, IInv', Drafts, Paired, [Next]_vars
  PROVE  Seats!SeatsNext \/ UNCHANGED seatVars
<1>1. ASSUME UNCHANGED <<clock, access, created, staged, rows>> PROVE UNCHANGED seatVars
  BY <1>1, SameRow, NoSeatMoves DEF seatVars
<1> USE DEF lockVars, rowVars
<1>2. ASSUME NEW r \in Request,
             Begin(r) \/ ReadClock(r) \/ LockIngress(r) \/ CountLinks(r)
               \/ ReadInstance(r) \/ StopIfCurrent(r)
      PROVE  UNCHANGED seatVars
  BY <1>1, <1>2 DEF Begin, ReadClock, LockIngress, CountLinks, ReadInstance, StopIfCurrent
<1>3. ASSUME NEW r \in Request, RecoverOther(r) PROVE Seats!SeatsNext \/ UNCHANGED seatVars
  <2>1. CASE UNCHANGED rowVars
    BY <1>1, <1>3, <2>1 DEF RecoverOther
  <2>2. CASE ~UNCHANGED rowVars
    <3>1. PICK g : /\ capacityLock = None
                   /\ rows' = Recovered(rows, access, ExpiredOnline(rows, g, clock)).rows
                   /\ access' = Recovered(rows, access, ExpiredOnline(rows, g, clock)).access
      BY <1>3, <2>2 DEF RecoverOther
    <3>2. \E gone \in SUBSET Import : Seats!CloseSeats(gone)
      BY <1>3, <3>1, RecoverySeats
    <3>3. QED
      BY <3>2 DEF Seats!SeatsNext
  <2>3. QED
    BY <2>1, <2>2
<1>4. ASSUME NEW r \in Request, Enter(r) PROVE Seats!SeatsNext \/ UNCHANGED seatVars
  <2>1. capacityLock = None /\ UNCHANGED <<clock, rows, access>>
    BY <1>4 DEF Enter
  <2>2. Draft = {}
    BY <2>1, NoDraft DEF Drafts
  <2>3. CASE UNCHANGED <<capacityLock, staged, created>>
    BY <1>1, <2>1, <2>3
  <2>4. CASE capacityLock' = r /\ StagesOld(r)
    <3>1. Draft' = {} /\ created' = created
      BY <1>4, <2>4, EnterDraft DEF StagesOld
    <3>2. QED
      BY <2>1, <2>2, <3>1 DEF seatVars
  <2>5. CASE capacityLock' = r /\ StagesNew(r)
    <3>1. Draft' \subseteq {created'} /\ created' = created + 1
      BY <1>4, <2>5, EnterDraft DEF StagesNew
    <3>2. Seats!IssueNumber
      BY <2>1, <2>2, <3>1 DEF Seats!IssueNumber, Draft
    <3>3. QED
      BY <3>2 DEF Seats!SeatsNext
  <2>6. QED
    BY <1>4, <2>3, <2>4, <2>5, EnterOutcome
<1>5. ASSUME NEW r \in Request, Commit(r) PROVE Seats!SeatsNext
  BY <1>5, CommitSeats DEF Seats!SeatsNext, Draft
<1>6. ASSUME NEW r \in Request, Rollback(r) PROVE Seats!SeatsNext
  <2>1. SeatNumbers(staged'.rows) = {}
    BY <1>6 DEF Rollback, SeatNumbers, NothingStaged
  <2>2. Draft' = {} /\ UNCHANGED <<clock, rows, access, created>>
    BY <1>6, <2>1 DEF Rollback, Draft
  <2>3. Seats!Abandon
    BY <2>2 DEF Seats!Abandon, Draft
  <2>4. QED
    BY <2>3 DEF Seats!SeatsNext
<1>7. ASSUME NEW i \in Import, Heartbeat(i) PROVE UNCHANGED seatVars
  <2>1. UNCHANGED <<clock, access, created, staged>>
    BY <1>7 DEF Heartbeat
  <2>2. QED
    BY <1>7, <2>1, HeartbeatFacts, NoSeatMoves DEF seatVars
<1>8. ASSUME NEW l \in Link, StartLink(l) \/ CreateLink(l) \/ LinkFails(l) \/ EndLink(l) PROVE UNCHANGED seatVars
  BY <1>1, <1>8 DEF StartLink, CreateLink, LinkFails, EndLink
<1>9. CASE OperatorStop \/ OperatorStart \/ UNCHANGED vars
  BY <1>1, <1>9 DEF OperatorStop, OperatorStart, vars
<1>10. CASE Tick
  <2>1. Seats!Pass
    BY <1>10 DEF Tick, Seats!Pass
  <2>2. QED
    BY <2>1 DEF Seats!SeatsNext
<1>11. CASE SessionsMove
  <2>1. UNCHANGED <<clock, rows, created>> /\ staged'.rows = staged.rows
    BY <1>11, SessionsMoveAlone
  <2>2. UNCHANGED <<clock, SeatsOf(rows), created, Draft>>
    BY <2>1 DEF SeatsOf, Draft, SeatNumbers
  <2>3. ASSUME NEW s \in Standalone, GiveSession(s) PROVE Seats!GiveSession
    BY <2>2, <2>3 DEF GiveSession, Seats!GiveSession, Draft
  <2>4. ASSUME NEW n \in access, EndSession(n) PROVE Seats!EndSession
    BY <2>2, <2>4 DEF EndSession, Seats!EndSession, Draft
  <2>5. QED
    BY <1>11, <2>3, <2>4 DEF SessionsMove, Seats!SeatsNext
<1>12. QED
  BY <1>2, <1>3, <1>4, <1>5, <1>6, <1>7, <1>8, <1>9, <1>10, <1>11 DEF Next, SessionsMove

(* The transactions of ReviewerWorkAssignmentService, with their clocks read
   early, their sweeps of other games and a lock that does not cover heartbeats,
   are steps of OnlineSeats: no seat is taken over while its lease runs, none is
   lost but by its own close, no ended session is brought back, and none ends
   but with its seat unless it is ended for itself. *)
THEOREM TransactionsAreSteps == Spec => ImplementsSeats
<1>1. Init => Seats!SeatsInit
  <2> SUFFICES ASSUME Init PROVE Seats!SeatsInit
    OBVIOUS
  <2>1. SeatsOf(rows) = [i \in Import |-> None] /\ SeatNumbers(staged.rows) = {}
    BY DEF Init, SeatsOf, SeatNumbers
  <2>2. QED
    BY <2>1 DEF Init, Seats!SeatsInit
<1>2. IInv /\ IInv' /\ Drafts /\ Paired /\ [Next]_vars
         => [Seats!SeatsNext]_<<clock, SeatsOf(rows), access, created,
                                SeatNumbers(staged.rows) \ SeatNumbers(rows)>>
  BY SeatsStep DEF seatVars, Draft
<1>3. IInv /\ Drafts /\ [Next]_vars => Drafts'
  BY DraftsStep
<1>4. IInv /\ Drafts /\ Paired /\ [Next]_vars => Paired'
  BY PairedStep
<1>5. QED
  BY InitInv, StepInv, InitDrafts, InitPaired, <1>1, <1>2, <1>3, <1>4, PTL DEF Spec, ImplementsSeats, Seats!SeatsSpec
=============================================================================
