-------------------------- MODULE DecisionDelivery --------------------------
(***************************************************************************)
(* What the offline outbox promises its operator: the host applies the     *)
(* decisions of each client in the order they were taken, each once,       *)
(* whatever is lost, sent again or done by another client meanwhile.       *)
(* Decisions that a repair of the client's clock overlapped are out of     *)
(* this order: they are applied at most once, at any time, or lost.        *)
(***************************************************************************)
EXTENDS Naturals, Sequences

CONSTANTS Client, OpsOf

VARIABLES
    decided,    \* Client -> its decisions in the order they were taken
    overlapped, \* decisions that are out of order
    log         \* what the host applied, as [client, op]

Done == {log[i].op : i \in DOMAIN log}

DeliveryInit ==
    /\ decided = [c \in Client |-> <<>>]
    /\ overlapped = {}
    /\ log = <<>>

TakeDecision(c, o) ==
    /\ decided' = [decided EXCEPT ![c] = Append(@, o)]
    /\ \A i \in DOMAIN decided[c] : decided[c][i] # o
    /\ UNCHANGED <<overlapped, log>>

(* Decisions of a client, already taken, lose their place in the order. *)
Overlap ==
    /\ overlapped \subseteq overlapped'
    /\ \A o \in overlapped' \ overlapped :
          \E c \in Client : \E i \in DOMAIN decided[c] : decided[c][i] = o
    /\ UNCHANGED <<decided, log>>

Deliver(c, i) ==
    LET o == decided[c][i]
    IN /\ log' = Append(log, [client |-> c, op |-> o])
       /\ o \notin Done
       /\ \/ o \in overlapped
          \/ \A j \in 1..(i - 1) : decided[c][j] \in Done \cup overlapped
       /\ UNCHANGED <<decided, overlapped>>

DeliveryNext ==
    \/ Overlap
    \/ \E c \in Client :
        \/ \E o \in OpsOf[c] : TakeDecision(c, o)
        \/ \E i \in DOMAIN decided[c] : Deliver(c, i)

DeliverySpec == DeliveryInit /\ [][DeliveryNext]_<<decided, overlapped, log>>
=============================================================================
