----------------------------- MODULE OperationLog -----------------------------
(***************************************************************************)
(* What a selector project promises its user: one growing log of           *)
(* operations, each of them legal where it was applied and applied once,   *)
(* and an answer only for what the log holds.  Nothing here knows of       *)
(* files, journals, mirrors, processes or their death.                     *)
(***************************************************************************)
EXTENDS Sequences

CONSTANTS
    OpId,           \* operation ids
    Command,        \* the commands that are asked for
    Takes(_, _)     \* whether a project with this log takes this command

VARIABLES
    log,            \* the applied operations, as [id, command]
    acked           \* the answers given, as [id, command, revision]

LogInit == log = <<>> /\ acked = {}

AppendOperation(id, c) ==
    /\ \A i \in DOMAIN log : log[i].id # id
    /\ Takes(log, c)
    /\ log' = Append(log, [id |-> id, command |-> c])
    /\ UNCHANGED acked

Answer(i) ==
    /\ acked' = acked \cup {[id |-> log[i].id, command |-> log[i].command, revision |-> i]}
    /\ UNCHANGED log

LogNext ==
    \/ \E id \in OpId, c \in Command : AppendOperation(id, c)
    \/ \E i \in DOMAIN log : Answer(i)

LogSpec == LogInit /\ [][LogNext]_<<log, acked>>
=============================================================================
