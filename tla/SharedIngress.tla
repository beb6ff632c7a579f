--------------------------- MODULE SharedIngress ---------------------------
(***************************************************************************)
(* Reviewer work assignments of several games and the one public tunnel    *)
(* they share with management links, board-search shares and remote        *)
(* selection links.                                                        *)
(*                                                                         *)
(* A request is a transaction: it recovers the expired leases of the other *)
(* games, reads its clock, takes the online-capacity lock (kept to the     *)
(* commit), decides on staged rows, may stop the tunnel, and commits or    *)
(* rolls back.  The tunnel is outside the database: a rollback does not    *)
(* bring it back.                                                          *)
(***************************************************************************)
EXTENDS Integers, FiniteSets

CONSTANTS
    Request,     \* API requests that may run at the same time
    Import,      \* image-directory imports ready for review
    GameOf,      \* the game of each import
    Standalone,  \* access sessions the owner may make without an assignment
    Management, Share, Remote,   \* links of each kind
    MaxOnline,   \* MAX_ACTIVE_ONLINE_REVIEWER_ASSIGNMENTS
    Lease,       \* lifetime of an assignment in clock units
    MaxClock,    \* bound: the last instant of the model
    MaxRows,     \* bound: assignments ever created
    MaxStarts,   \* bound: tunnel instances ever started
    None         \* no row, no holder

(* An open assignment; its number tells it and its access session from others. *)
Row == [type : {"online", "local"}, expires : Nat, beat : Nat, number : Nat \ {0}]

(* What a row is to those outside: an online assignment is a seat. *)
Seat == [number : Nat \ {0}, expires : Nat]

ASSUME IngressAssumption ==
    /\ MaxOnline \in Nat \ {0} /\ Lease \in Nat \ {0}
    /\ MaxClock \in Nat /\ MaxRows \in Nat /\ MaxStarts \in Nat
    /\ DOMAIN GameOf = Import /\ IsFiniteSet(Import) /\ IsFiniteSet(Request)
    /\ Request \cap (Management \cup Share \cup Remote) = {}
    /\ Standalone \cap Nat = {}
    /\ None \notin Request \cup Management \cup Share \cup Remote \cup Row \cup Seat

Link == Management \cup Share \cup Remote
Game == {GameOf[i] : i \in Import}

VARIABLES
    clock,
    rows,          \* Import -> its open assignment, committed
    access,        \* the live reviewer access sessions, committed: the one of an
                   \* assignment has its number, the others are Standalone
    created,       \* assignments created so far
    request,       \* Request -> its kind, import, row number, clock and place
    capacityLock,  \* the request holding the online-capacity lock
    staged,        \* rows and sessions as the holder's transaction sees them
    ingressLock,   \* the request or management link holding the ingress lock
    seen,          \* the instance read by the stop in progress
    tunnel,        \* the running tunnel instance, 0 when it is down
    starts,        \* instances started so far
    link           \* Link -> none, starting or live

rowVars == <<rows, access, created>>
lockVars == <<capacityLock, staged>>
tunnelVars == <<tunnel, starts>>
vars == <<clock, rows, access, created, request, capacityLock, staged,
          ingressLock, seen, tunnel, starts, link>>

Idle == [at |-> "idle"]
Kind == {"open_online", "open_local", "close", "overview"}

Unexpired(row, now) == row.expires > now
OnlineOf(table, now) ==
    {i \in Import : /\ table[i] # None
                    /\ table[i].type = "online"
                    /\ Unexpired(table[i], now)}

Init ==
    /\ clock = 0
    /\ rows = [i \in Import |-> None]
    /\ access = {}
    /\ created = 0
    /\ request = [r \in Request |-> Idle]
    /\ capacityLock = None
    /\ staged = [rows |-> [i \in Import |-> None], access |-> {}]
    /\ ingressLock = None
    /\ seen = 0
    /\ tunnel = 0 /\ starts = 0
    /\ link = [l \in Link |-> "none"]

(***************************************************************************)
(* The tunnel: start is a no-op when a ready instance runs.                *)
(***************************************************************************)
EnsureOnline ==
    \/ tunnel # 0 /\ UNCHANGED tunnelVars
    \/ tunnel = 0 /\ starts < MaxStarts /\ tunnel' = starts + 1 /\ starts' = starts + 1

(***************************************************************************)
(* Expired online rows of one game are closed and their sessions revoked.  *)
(***************************************************************************)
ExpiredOnline(table, g, now) ==
    {i \in Import : /\ GameOf[i] = g /\ table[i] # None
                    /\ table[i].type = "online" /\ table[i].expires <= now}

RecoveredWithoutRevoke(table, sessions, gone) ==
    [rows |-> [i \in Import |-> IF i \in gone THEN None ELSE table[i]],
     access |-> sessions]

Recovered(table, sessions, gone) ==
    [rows |-> [i \in Import |-> IF i \in gone THEN None ELSE table[i]],
     access |-> sessions \ {table[i].number : i \in gone}]

(***************************************************************************)
(* A request arrives: an import to open, an assignment to close, or the    *)
(* overview of a game.  The number names the assignment row to close.      *)
(***************************************************************************)
Opening == {q \in Request : /\ request[q] # Idle
                            /\ request[q].kind \in {"open_online", "open_local"}}
RowsLeft == MaxRows - created - Cardinality(Opening)   \* keeps the bound

Begin(r) ==
    /\ request[r] = Idle
    /\ \E k \in Kind, i \in Import :
        /\ k = "close" => rows[i] # None
        /\ k \in {"open_online", "open_local"} => RowsLeft > 0
        /\ request' = [request EXCEPT ![r] =
            [at |-> "others", kind |-> k, import |-> i, now |-> 0,
             left |-> Game \ {GameOf[i]},
             number |-> IF k = "close" THEN rows[i].number ELSE 0]]
    /\ UNCHANGED <<clock, rowVars, lockVars, ingressLock, seen, tunnelVars, link>>

(* Another game's expired leases, in a transaction of their own under the
   capacity lock; a game under storage maintenance is skipped. *)
RecoverOther(r) ==
    /\ request[r].at = "others"
    /\ \E g \in request[r].left :
        /\ request' = [request EXCEPT ![r].left = @ \ {g}]
        /\ \/ UNCHANGED rowVars
           \/ /\ capacityLock = None
              /\ LET done == Recovered(rows, access, ExpiredOnline(rows, g, clock))
                 IN rows' = done.rows /\ access' = done.access
              /\ UNCHANGED created
    /\ UNCHANGED <<clock, lockVars, ingressLock, seen, tunnelVars, link>>

(* open and close read their clock before they wait for the capacity lock. *)
ReadClock(r) ==
    /\ request[r].at = "others" /\ request[r].left = {}
    /\ request' = [request EXCEPT ![r].at = "waiting", ![r].now = clock]
    /\ UNCHANGED <<clock, rowVars, lockVars, ingressLock, seen, tunnelVars, link>>

(***************************************************************************)
(* The transaction body, on the rows as they are when the lock is granted. *)
(***************************************************************************)
Game_(r) == GameOf[request[r].import]

CountedOwnGame(r, table, now) == {i \in OnlineOf(table, now) : GameOf[i] = Game_(r)}
Counted(r, table, now) == OnlineOf(table, now)

(* Goes on to stop the tunnel or straight to the commit, with the lock held. *)
Proceed(r, table, stop) ==
    /\ capacityLock' = r
    /\ staged' = table
    /\ request' = [request EXCEPT ![r].at = IF stop THEN "stopping" ELSE "committing"]

(* An error: the transaction rolls back and the lock is free again. *)
Refuse(r) ==
    /\ request' = [request EXCEPT ![r] = Idle]
    /\ UNCHANGED <<lockVars, created, tunnelVars>>

NewRow(type, now) ==
    [type |-> type, expires |-> now + Lease, beat |-> now, number |-> created + 1]

SweptAnyway(r, now) ==
    LET i == request[r].import
    IN Recovered(rows, access, ExpiredOnline(rows, Game_(r), now)
                                 \cup IF rows[i] # None THEN {i} ELSE {})

(* Own-game online leases first, then whatever lease the import still has. *)
Swept(r, now) ==
    LET own == ExpiredOnline(rows, Game_(r), now)
        i == request[r].import
        old == IF rows[i] # None /\ ~Unexpired(rows[i], now) THEN {i} ELSE {}
    IN Recovered(rows, access, own \cup old)

OpenOnline(r) ==
    LET i == request[r].import
        now == request[r].now
        base == Swept(r, now)
    IN /\ request[r].kind = "open_online"
       /\ base.rows[i] = None
       /\ Cardinality(Counted(r, base.rows, now)) < MaxOnline
       /\ EnsureOnline
       /\ created' = created + 1
       /\ Proceed(r, [rows |-> [base.rows EXCEPT ![i] = NewRow("online", now)],
                      access |-> base.access \cup {created + 1}], FALSE)

OpenOnlineFull(r) ==
    /\ request[r].kind = "open_online"
    /\ LET base == Swept(r, request[r].now)
       IN /\ base.rows[request[r].import] = None
          /\ Cardinality(Counted(r, base.rows, request[r].now)) >= MaxOnline
    /\ Refuse(r)

(* The controller could not bring a ready tunnel up. *)
IngressFails(r) ==
    /\ request[r].kind = "open_online"
    /\ tunnel = 0
    /\ Refuse(r)

OpenLocal(r) ==
    LET i == request[r].import
        now == request[r].now
        base == Swept(r, now)
    IN /\ request[r].kind = "open_local"
       /\ base.rows[i] = None
       /\ created' = created + 1
       /\ Proceed(r, [base EXCEPT !.rows[i] = NewRow("local", now)],
                  Counted(r, base.rows, now) = {})
       /\ UNCHANGED tunnelVars

(* The import already has an unexpired assignment: the same type is reused,
   unless its lease ran out meanwhile, and an online one gets its tunnel. *)
Reuse(r) ==
    LET i == request[r].import
        base == Swept(r, request[r].now)
        wanted == IF request[r].kind = "open_online" THEN "online" ELSE "local"
    IN /\ request[r].kind \in {"open_online", "open_local"}
       /\ base.rows[i] # None
       /\ \/ /\ base.rows[i].type = wanted /\ Unexpired(base.rows[i], clock)
             /\ IF wanted = "online" THEN EnsureOnline ELSE UNCHANGED tunnelVars
             /\ Proceed(r, base, FALSE)
             /\ UNCHANGED created
          \/ /\ base.rows[i].type # wanted \/ ~Unexpired(base.rows[i], clock)
             /\ Refuse(r)

(* Only the row named, still open, unexpired, and not heartbeaten later than
   the clock the request read. *)
MayClose(r) ==
    LET row == rows[request[r].import]
    IN /\ row # None
       /\ row.number = request[r].number
       /\ Unexpired(row, request[r].now)
       /\ row.beat <= request[r].now

Close(r) ==
    LET i == request[r].import
        now == request[r].now
        shut == Recovered(rows, access, {i})
        swept == IF rows[i].type = "online"
                 THEN Recovered(shut.rows, shut.access,
                                ExpiredOnline(shut.rows, Game_(r), now))
                 ELSE shut
    IN /\ request[r].kind = "close"
       /\ MayClose(r)
       /\ Proceed(r, swept, rows[i].type = "online" /\ Counted(r, swept.rows, now) = {})
       /\ UNCHANGED <<created, tunnelVars>>

CloseRefused(r) ==
    /\ request[r].kind = "close"
    /\ ~MayClose(r)
    /\ Refuse(r)

(* The overview recovers with a clock read under the lock. *)
Overview(r) ==
    LET base == Recovered(rows, access, ExpiredOnline(rows, Game_(r), clock))
    IN /\ request[r].kind = "overview"
       /\ Proceed(r, base, Counted(r, base.rows, clock) = {})
       /\ UNCHANGED <<created, tunnelVars>>

Enter(r) ==
    /\ request[r].at = "waiting"
    /\ capacityLock = None
    /\ \/ OpenOnline(r)
       \/ OpenOnlineFull(r)
       \/ IngressFails(r)
       \/ OpenLocal(r)
       \/ Reuse(r)
       \/ Close(r)
       \/ CloseRefused(r)
       \/ Overview(r)
    /\ UNCHANGED <<clock, rows, access, ingressLock, seen, link>>

(***************************************************************************)
(* stop_unused_shared_ingress: a session of its own under the ingress      *)
(* lock counts live links, reads the running instance and stops it.        *)
(***************************************************************************)
Step(r, from, to) ==
    request[r].at = from /\ request' = [request EXCEPT ![r].at = to]

LockIngress(r) ==
    /\ Step(r, "stopping", "counting")
    /\ ingressLock = None
    /\ ingressLock' = r
    /\ UNCHANGED <<clock, rowVars, lockVars, seen, tunnelVars, link>>

UncountedLinks == Share
CountedLinks == Management \cup Share

CountLinks(r) ==
    LET busy == \E l \in CountedLinks : link[l] = "live"
    IN /\ Step(r, "counting", IF busy THEN "committing" ELSE "reading")
       /\ ingressLock' = IF busy THEN None ELSE r
       /\ UNCHANGED <<clock, rowVars, lockVars, seen, tunnelVars, link>>

ReadInstance(r) ==
    /\ Step(r, "reading", IF tunnel = 0 THEN "committing" ELSE "cutting")
    /\ seen' = tunnel
    /\ ingressLock' = IF tunnel = 0 THEN None ELSE r
    /\ UNCHANGED <<clock, rowVars, lockVars, tunnelVars, link>>

(* stop_if_current: only the instance that was read. *)
StopIfCurrent(r) ==
    /\ Step(r, "cutting", "committing")
    /\ tunnel' = IF tunnel = seen THEN 0 ELSE tunnel
    /\ ingressLock' = None
    /\ seen' = 0
    /\ UNCHANGED <<clock, rowVars, lockVars, starts, link>>

NothingStaged == [rows |-> [i \in Import |-> None], access |-> {}]

(* Rows the transaction has locked for update; heartbeats of them wait. *)
LockedRows(r) ==
    {i \in Import : /\ GameOf[i] = Game_(r)
                    /\ \/ i = request[r].import
                       \/ rows[i] # None /\ rows[i].type = "online"}

Commit(r) ==
    /\ request[r].at = "committing"
    /\ rows' = [i \in Import |-> IF i \in LockedRows(r) THEN staged.rows[i] ELSE rows[i]]
    /\ access' = staged.access
    /\ request' = [request EXCEPT ![r] = Idle]
    /\ capacityLock' = None
    /\ staged' = NothingStaged
    /\ UNCHANGED <<clock, created, ingressLock, seen, tunnelVars, link>>

RollbackInside(r) ==
    /\ request[r].at \in {"stopping", "counting", "reading", "cutting", "committing"}
    /\ request' = [request EXCEPT ![r] = Idle]
    /\ capacityLock' = None
    /\ staged' = NothingStaged
    /\ UNCHANGED <<clock, rowVars, ingressLock, seen, tunnelVars, link>>

(* A controller error, a failed commit or the death of the process. *)
Rollback(r) ==
    /\ request[r].at \in {"stopping", "counting", "reading", "cutting", "committing"}
    /\ request' = [request EXCEPT ![r] = Idle]
    /\ capacityLock' = None
    /\ staged' = NothingStaged
    /\ ingressLock' = IF ingressLock = r THEN None ELSE ingressLock
    /\ seen' = IF ingressLock = r THEN 0 ELSE seen
    /\ UNCHANGED <<clock, rowVars, tunnelVars, link>>

(***************************************************************************)
(* The other users of the tunnel and the environment.                      *)
(***************************************************************************)
(* The heartbeat keeps the expiry it read and only moves heartbeat_at. *)
Heartbeat(i) ==
    /\ rows[i] # None /\ Unexpired(rows[i], clock)
    /\ rows[i].beat # clock
    /\ capacityLock # None => i \notin LockedRows(capacityLock)
    /\ rows' = [rows EXCEPT ![i].beat = clock]
    /\ UNCHANGED <<clock, access, created, request, lockVars, ingressLock, seen,
                   tunnelVars, link>>

(* The owner makes a session of its own for an import, without assignment, lock
   or tunnel; a transaction that runs sees it once it is committed. *)
GiveSession(s) ==
    /\ s \notin access
    /\ access' = access \cup {s}
    /\ staged' = [rows |-> staged.rows,
                  access |-> IF capacityLock = None THEN {} ELSE staged.access \cup {s}]
    /\ UNCHANGED <<clock, rows, created, request, capacityLock, ingressLock, seen,
                   tunnelVars, link>>

(* A session of either kind is revoked by the owner, locked after five wrong
   codes, or expires; its assignment, if it has one, stays open. *)
EndSession(n) ==
    /\ access' = access \ {n}
    /\ staged' = [rows |-> staged.rows, access |-> staged.access \ {n}]
    /\ UNCHANGED <<clock, rows, created, request, capacityLock, ingressLock, seen,
                   tunnelVars, link>>

(* A management link starts the tunnel under the ingress lock, which its
   transaction keeps until the link exists; the others take no lock. *)
StartLink(l) ==
    /\ link[l] = "none"
    /\ IF l \in Management
       THEN ingressLock = None /\ ingressLock' = l
       ELSE UNCHANGED ingressLock
    /\ EnsureOnline
    /\ link' = [link EXCEPT ![l] = "starting"]
    /\ UNCHANGED <<clock, rowVars, request, lockVars, seen>>

CreateLink(l) ==
    /\ link[l] = "starting"
    /\ link' = [link EXCEPT ![l] = "live"]
    /\ ingressLock' = IF l \in Management THEN None ELSE ingressLock
    /\ UNCHANGED <<clock, rowVars, request, lockVars, seen, tunnelVars>>

(* The link cannot be made: its transaction rolls back and frees the lock, the
   tunnel it started stays up. *)
LinkFails(l) ==
    /\ link[l] = "starting"
    /\ link' = [link EXCEPT ![l] = "none"]
    /\ ingressLock' = IF l \in Management THEN None ELSE ingressLock
    /\ UNCHANGED <<clock, rowVars, request, lockVars, seen, tunnelVars>>

(* Revoked, locked or expired; another of the kind may be made after it. *)
EndLink(l) ==
    /\ link[l] = "live"
    /\ link' = [link EXCEPT ![l] = "none"]
    /\ UNCHANGED <<clock, rowVars, request, lockVars, ingressLock, seen, tunnelVars>>

(* The operator's stop button asks nobody. *)
OperatorStop ==
    /\ tunnel # 0 /\ tunnel' = 0
    /\ UNCHANGED <<clock, rowVars, request, lockVars, ingressLock, seen, starts, link>>

OperatorStart ==
    /\ EnsureOnline
    /\ UNCHANGED <<clock, rowVars, request, lockVars, ingressLock, seen, link>>

Tick ==
    /\ clock < MaxClock /\ clock' = clock + 1
    /\ UNCHANGED <<rowVars, request, lockVars, ingressLock, seen, tunnelVars, link>>

Next ==
    \/ \E r \in Request :
        \/ Begin(r) \/ RecoverOther(r) \/ ReadClock(r) \/ Enter(r)
        \/ LockIngress(r) \/ CountLinks(r) \/ ReadInstance(r) \/ StopIfCurrent(r)
        \/ Commit(r) \/ Rollback(r)
    \/ \E i \in Import : Heartbeat(i)
    \/ \E l \in Link : StartLink(l) \/ CreateLink(l) \/ LinkFails(l) \/ EndLink(l)
    \/ \E s \in Standalone : GiveSession(s)
    \/ \E n \in access : EndSession(n)
    \/ OperatorStop \/ OperatorStart
    \/ Tick

Spec == Init /\ [][Next]_vars

-----------------------------------------------------------------------------
(* Every variable keeps its type; a request that stops the tunnel holds the
   capacity lock, and the ingress lock has a holder that is inside its section. *)
TypeOK ==
    /\ clock \in 0..MaxClock
    /\ rows \in [Import -> Row \cup {None}]
    /\ access \subseteq (1..created) \cup Standalone /\ created \in 0..MaxRows
    /\ \A r \in Request : request[r] # Idle => request[r].kind \in Kind
    /\ capacityLock \in Request \cup {None}
    /\ \A r \in Request :
          (request[r].at \in {"stopping", "counting", "reading", "cutting", "committing"})
             <=> (capacityLock = r)
    /\ ingressLock \in Request => request[ingressLock].at \in {"counting", "reading", "cutting"}
    /\ ingressLock \in Link => link[ingressLock] = "starting"
    /\ tunnel \in {0, starts} /\ starts \in 0..MaxStarts
    /\ link \in [Link -> {"none", "starting", "live"}]

(* The cap spans the games: whatever requests run at once, in whatever game,
   and whatever clock each of them read, no more than MaxOnline committed
   online assignments have an unexpired lease. *)
CapacityRespected == Cardinality(OnlineOf(rows, clock)) <= MaxOnline

(* A session that an assignment made and that still admits somebody belongs to
   an online assignment that is still open: closing, expiring and losing a
   transaction never leave a session behind.  The sessions the owner makes with
   POST /admin/reviewer-sessions have no assignment and are not meant. *)
NoOrphanSession ==
    \A n \in access \ Standalone :
        \E i \in Import : rows[i] # None /\ rows[i].type = "online" /\ rows[i].number = n

Cuts(r) ==
    request[r].at = "cutting" /\ request'[r].at = "committing" /\ tunnel # 0 /\ tunnel' = 0

(* The automatic stop never takes the tunnel from a management link, live or
   being created, nor from a reviewer of any game whose lease is unexpired
   once the stopping transaction is done. *)
StopOnlyWhenUnused ==
    [][\A r \in Request : Cuts(r) =>
          /\ OnlineOf(staged.rows, clock) = {}
          /\ \A l \in Management : link[l] \notin {"starting", "live"}]_vars

(* management_ingress.py:1 says the ingress is retained while any live
   capability still needs it: a stop goes past its count of live links only
   when no link that was given the tunnel is live. *)
RetainedForAnyCapability ==
    [][\A r \in Request :
          (request[r].at = "counting" /\ request'[r].at = "reading")
             => \A l \in Link : link[l] # "live"]_vars

(* A table as those outside see it. *)
SeatsOf(table) ==
    [i \in Import |-> IF table[i] # None /\ table[i].type = "online"
                      THEN [number |-> table[i].number, expires |-> table[i].expires]
                      ELSE None]
SeatNumbers(table) ==
    {table[i].number : i \in {j \in Import : table[j] # None /\ table[j].type = "online"}}

Seats == INSTANCE OnlineSeats WITH
    seats <- SeatsOf(rows), sessions <- access, issued <- created,
    draft <- SeatNumbers(staged.rows) \ SeatNumbers(rows)

(* Seen from outside a transaction is one step: what it counted under the lock,
   the leases it found over and the sessions it found live are still so when it
   commits.  An unexpired seat is given up only by its own close, a seat that is
   taken was free or over and has a new number, and a session that has ended is
   never brought back by what another transaction had staged.  A transaction ends
   the sessions of the seats it closes and no others: not that of a seat that
   stays, and none that the owner made without an assignment. *)
ImplementsSeats == Seats!SeatsSpec

=============================================================================
