---------------------------- MODULE OnlineSeats ----------------------------
(***************************************************************************)
(* What the host promises the reviewers it lets in from outside.  An       *)
(* import has at most one seat, a seat has a number nobody had before and  *)
(* a time at which it is over, and a session admits somebody to a seat.    *)
(* Some sessions are given without a seat, and any session may end early.  *)
(* Nothing here knows of games, transactions, locks or the tunnel.         *)
(***************************************************************************)
EXTENDS Integers, FiniteSets

CONSTANTS Import, Standalone, MaxOnline, Lease, None

VARIABLES
    clock,
    seats,      \* Import -> its seat, as [number, expires], or None
    sessions,   \* those that still admit somebody: of a seat, by its number, or Standalone
    issued,     \* the numbers given away so far
    draft       \* the number of the seat that is being taken

Over(i) == seats[i] = None \/ seats[i].expires <= clock
Admitting(table, now) == {i \in Import : table[i] # None /\ table[i].expires > now}
NumbersOf(table) == {table[i].number : i \in {j \in Import : table[j] # None}}

SeatsInit ==
    /\ clock = 0
    /\ seats = [i \in Import |-> None]
    /\ sessions = {} /\ issued = 0 /\ draft = {}

(* A number is given away; the attempt it is for may be of no interest here. *)
IssueNumber ==
    /\ draft = {}
    /\ issued' = issued + 1
    /\ draft' \subseteq {issued'}
    /\ UNCHANGED <<clock, seats, sessions>>

Abandon == draft' = {} /\ UNCHANGED <<clock, seats, sessions, issued>>

(* A session without a seat. *)
GiveSession ==
    /\ \E s \in Standalone : sessions' = sessions \cup {s}
    /\ UNCHANGED <<clock, seats, issued, draft>>

(* A session may end before its seat does. *)
EndSession ==
    /\ \E n \in sessions : sessions' = sessions \ {n}
    /\ UNCHANGED <<clock, seats, issued, draft>>

(* Sessions end with their seats, the others stay, and none comes back. *)
SessionsEnd ==
    /\ sessions' \subseteq sessions \cup draft
    /\ sessions' \ Standalone \subseteq NumbersOf(seats')
    /\ sessions \cap (Standalone \cup NumbersOf(seats')) \subseteq sessions'

(* Seats that are over, and at most one that somebody gives up. *)
CloseSeats(gone) ==
    /\ \E i \in Import : \A j \in gone \ {i} : Over(j)
    /\ seats' = [j \in Import |-> IF j \in gone THEN None ELSE seats[j]]
    /\ SessionsEnd
    /\ draft' = {} /\ UNCHANGED <<clock, issued>>

(* A seat that is free or over is taken, for no longer than a lease from now,
   when there is a place for one more. *)
TakeSeat(i, n, gone) ==
    /\ n \in draft
    /\ \A j \in gone \cup {i} : Over(j)
    /\ \E e \in 0..(clock + Lease) :
          seats' = [j \in Import |-> IF j = i THEN [number |-> n, expires |-> e]
                                     ELSE IF j \in gone THEN None ELSE seats[j]]
    /\ Cardinality(Admitting(seats', clock)) <= MaxOnline
    /\ SessionsEnd
    /\ draft' = {} /\ UNCHANGED <<clock, issued>>

Pass == clock' = clock + 1 /\ UNCHANGED <<seats, sessions, issued, draft>>

SeatsNext ==
    \/ IssueNumber \/ Abandon \/ GiveSession \/ EndSession \/ Pass
    \/ \E gone \in SUBSET Import :
        \/ CloseSeats(gone)
        \/ \E i \in Import, n \in draft : TakeSeat(i, n, gone)

SeatsSpec == SeatsInit /\ [][SeatsNext]_<<clock, seats, sessions, issued, draft>>
=============================================================================
