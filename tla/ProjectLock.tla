----------------------------- MODULE ProjectLock -----------------------------
(***************************************************************************)
(* The exclusive lock of a selector project folder                         *)
(* (src/apps/selector-desktop/src/project/project-lock.ts).                *)
(*                                                                         *)
(* Two files decide everything: the lock file, which names its owner, and  *)
(* the recovery claim, under which the lock of a process that has died may *)
(* be taken over.  No heartbeat and no age is used: a process has died     *)
(* when the operating system no longer knows its identity, and an identity *)
(* never comes back.  ProjectLock.acquire is one step per file or process  *)
(* access here, and the process may die between any two of them.           *)
(***************************************************************************)
EXTENDS Naturals

CONSTANTS
    Proc,           \* the process identities (pid and start time)
    Gone,           \* those that died before the behaviour starts
    NoFile,         \* the file does not exist
    Unwritten       \* the lock file exists, and no owner can be read from it

ASSUME LockAssumption ==
    NoFile \notin Proc /\ Unwritten \notin Proc /\ NoFile # Unwritten /\ Gone \subseteq Proc

VARIABLES
    lockFile,       \* selector-project.lock: NoFile, Unwritten or its owner
    claimFile,      \* selector-project-lock-recovery.lock: NoFile or its creator
    pc,             \* where each process stands in acquire
    seen            \* the owner each process read when the file existed

lockVars == <<lockFile, claimFile, pc, seen>>

Phases == {"idle", "create", "write", "exists", "inspect", "claim", "reread",
           "unlink", "recreate", "rewrite", "unclaim", "unclaimHeld", "held", "dead"}

LockTypeOK ==
    /\ lockFile \in Proc \cup {NoFile, Unwritten}
    /\ claimFile \in Proc \cup {NoFile}
    /\ pc \in [Proc -> Phases]
    /\ seen \in [Proc -> Proc \cup {NoFile}]

\* The folder may still hold the lock of a process that died.
LockInit ==
    /\ lockFile \in Gone \cup {NoFile}
    /\ claimFile = NoFile
    /\ pc = [p \in Proc |-> IF p \in Gone THEN "dead" ELSE "idle"]
    /\ seen = [p \in Proc |-> NoFile]

Dead(p) == pc[p] = "dead"

\* acquire has returned a lock to p, and p has neither released it nor died.
Holds(p) == pc[p] = "held"

\* The owner read is remembered until the call to acquire is over.
Goto(p, phase) ==
    /\ pc' = [pc EXCEPT ![p] = phase]
    /\ seen' = [seen EXCEPT ![p] = IF phase \in {"idle", "held", "dead"} THEN NoFile ELSE @]

----------------------------------------------------------------------------
\* acquire: a recovery claim of anybody refuses the call.
Ask(p) ==
    /\ pc[p] = "idle"
    /\ claimFile = NoFile
    /\ Goto(p, "create")
    /\ UNCHANGED <<lockFile, claimFile>>

\* The exclusive open creates the file empty ...
Create(p) ==
    /\ pc[p] = "create"
    /\ lockFile = NoFile
    /\ lockFile' = Unwritten
    /\ Goto(p, "write")
    /\ UNCHANGED claimFile

\* ... or reports that it exists.
CreateFindsFile(p) ==
    /\ pc[p] = "create"
    /\ lockFile # NoFile
    /\ Goto(p, "exists")
    /\ UNCHANGED <<lockFile, claimFile>>

WriteOwner(p) ==
    /\ pc[p] = "write"
    /\ lockFile' = p
    /\ Goto(p, "held")
    /\ UNCHANGED claimFile

\* A file or process access fails: the call is over, and under the claim only
\* after the claim has gone.  A file that was created stays as it is.
AccessFails(p) ==
    /\ \/ pc[p] \in {"create", "write", "exists", "inspect", "claim"} /\ Goto(p, "idle")
       \/ pc[p] \in {"reread", "unlink", "recreate", "rewrite"} /\ Goto(p, "unclaim")
    /\ UNCHANGED <<lockFile, claimFile>>

\* The owner is written and sync, close or syncDirectory fails: the file names a
\* process that was refused the lock, and while it lives nobody gets it.
SyncFails(p) ==
    /\ \/ pc[p] = "write" /\ Goto(p, "idle")
       \/ pc[p] = "rewrite" /\ Goto(p, "unclaim")
    /\ lockFile' = p
    /\ UNCHANGED claimFile

\* Mutant: the bytes of the file are taken for an owner unparsed.
ReadUnparsed(p) ==
    /\ pc[p] = "exists"
    /\ seen' = [seen EXCEPT ![p] = lockFile]
    /\ pc' = [pc EXCEPT ![p] = "inspect"]
    /\ UNCHANGED <<lockFile, claimFile>>

ReadOwner(p) ==
    /\ pc[p] = "exists"
    /\ lockFile \in Proc
    /\ seen' = [seen EXCEPT ![p] = lockFile]
    /\ pc' = [pc EXCEPT ![p] = "inspect"]
    /\ UNCHANGED <<lockFile, claimFile>>

\* LOCK_OWNER_UNKNOWN: nothing, or no owner, can be read from the file.
OwnerUnknown(p) ==
    /\ pc[p] = "exists"
    /\ lockFile \notin Proc
    /\ Goto(p, "idle")
    /\ UNCHANGED <<lockFile, claimFile>>

\* The identity of the owner that was read: PROJECT_LOCKED while it lives.
Inspect(p) ==
    /\ pc[p] = "inspect"
    /\ IF Dead(seen[p]) THEN Goto(p, "claim") ELSE Goto(p, "idle")
    /\ UNCHANGED <<lockFile, claimFile>>

\* The exclusive open of the recovery claim.
Claim(p) ==
    /\ pc[p] = "claim"
    /\ claimFile = NoFile
    /\ claimFile' = p
    /\ Goto(p, "reread")
    /\ UNCHANGED lockFile

ClaimRefused(p) ==
    /\ pc[p] = "claim"
    /\ claimFile # NoFile
    /\ Goto(p, "idle")
    /\ UNCHANGED <<lockFile, claimFile>>

\* Mutant: what was read before the claim is not read again.
RereadSkipped(p) ==
    /\ pc[p] = "reread"
    /\ Goto(p, "unlink")
    /\ UNCHANGED <<lockFile, claimFile>>

\* Mutant: a file that names nobody counts as left behind.
RereadOrUnwritten(p) ==
    /\ pc[p] = "reread"
    /\ IF lockFile \in {seen[p], Unwritten} THEN Goto(p, "unlink") ELSE Goto(p, "unclaim")
    /\ UNCHANGED <<lockFile, claimFile>>

\* Under the claim the owner must still be the one found dead.
Reread(p) ==
    /\ pc[p] = "reread"
    /\ IF lockFile = seen[p] THEN Goto(p, "unlink") ELSE Goto(p, "unclaim")
    /\ UNCHANGED <<lockFile, claimFile>>

Unlink(p) ==
    /\ pc[p] = "unlink"
    /\ lockFile' = NoFile
    /\ Goto(p, "recreate")
    /\ UNCHANGED claimFile

Recreate(p) ==
    /\ pc[p] = "recreate"
    /\ IF lockFile = NoFile
       THEN lockFile' = Unwritten /\ Goto(p, "rewrite")
       ELSE lockFile' = lockFile /\ Goto(p, "unclaim")
    /\ UNCHANGED claimFile

RewriteOwner(p) ==
    /\ pc[p] = "rewrite"
    /\ lockFile' = p
    /\ Goto(p, "unclaimHeld")
    /\ UNCHANGED claimFile

\* The finally block: the claim is removed whatever happened under it.
Unclaim(p) ==
    /\ \/ pc[p] = "unclaim" /\ Goto(p, "idle")
       \/ pc[p] = "unclaimHeld" /\ Goto(p, "held")
    /\ claimFile' = NoFile
    /\ UNCHANGED lockFile

\* The finally block fails: the claim stays, and a lock already taken over is not
\* returned.
UnclaimFails(p) ==
    /\ pc[p] \in {"unclaim", "unclaimHeld"}
    /\ Goto(p, "idle")
    /\ UNCHANGED <<lockFile, claimFile>>

\* release: only the owner the file names removes it.
Release(p) ==
    /\ pc[p] = "held"
    /\ lockFile = p
    /\ lockFile' = NoFile
    /\ Goto(p, "idle")
    /\ UNCHANGED claimFile

\* The process is killed: its files stay, its identity is gone for good.
Crash(p) ==
    /\ pc[p] \notin {"idle", "dead"}
    /\ Goto(p, "dead")
    /\ UNCHANGED <<lockFile, claimFile>>

Acquire(p) ==
    \/ Ask(p) \/ Create(p) \/ CreateFindsFile(p) \/ WriteOwner(p)
    \/ ReadOwner(p) \/ OwnerUnknown(p) \/ Inspect(p) \/ Claim(p) \/ ClaimRefused(p)
    \/ Reread(p) \/ Unlink(p) \/ Recreate(p) \/ RewriteOwner(p) \/ Unclaim(p)
    \/ AccessFails(p) \/ SyncFails(p) \/ UnclaimFails(p)

LockNext == \E p \in Proc : Acquire(p) \/ Release(p) \/ Crash(p)

LockSpec == LockInit /\ [][LockNext]_lockVars

----------------------------------------------------------------------------
(***************************************************************************)
(* At most one process holds the project, and the file names it, however   *)
(* many processes ask for it or take over the lock of a dead one at the    *)
(* same time.                                                              *)
(***************************************************************************)
LockExclusive ==
    \A p \in Proc : Holds(p) => lockFile = p

(***************************************************************************)
(* "unknown empty recovery guard is never reclaimed": a lock file without  *)
(* a readable owner changes only by the hand of the live process that is   *)
(* about to write it, and a claim left by a dead process is never removed. *)
(***************************************************************************)
UnknownKept ==
    [][/\ lockFile = Unwritten /\ lockFile' # lockFile =>
              \E p \in Proc : pc[p] \in {"write", "rewrite"} /\ lockFile' = p
       /\ claimFile \in Proc /\ Dead(claimFile) => claimFile' = claimFile]_lockVars
=============================================================================
