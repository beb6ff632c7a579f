----------------------------- MODULE ProjectStore -----------------------------
(***************************************************************************)
(* The selector project store: operations, journal, mirrors and recovery   *)
(* (project-store.ts and project-storage.ts under                          *)
(* src/apps/selector-desktop/src/project), under the lock of ProjectLock.  *)
(*                                                                         *)
(* The project folder holds a journal with the operation under way, two    *)
(* copies of the ledger (one record per operation) and two copies of the   *)
(* head, which commits to a prefix of the ledger by its hash chain: a head *)
(* is that prefix here.  The output folder holds the accepted images, a    *)
(* manifest and a lease.  Every write is a step of its own; it may fail,   *)
(* the process may die before or after it, and one copy of a mirrored file *)
(* may be found damaged.                                                   *)
(***************************************************************************)
EXTENDS ProjectLock, ProjectCommands

CONSTANTS
    Command,        \* the commands that are asked for
    OpId,           \* the ids of operations, one for each that a client asks for
    MaxRevision,    \* bound: operations a project has
    MaxDamage       \* bound: damaged files

ASSUME StoreAssumption ==
    /\ MaxRevision \in Nat /\ MaxDamage \in Nat
    /\ IsFiniteSet(OpId) /\ Cardinality(OpId) <= MaxRevision
    /\ Command \subseteq CommandShape
    /\ LET operation == [id : OpId, command : Command]
       IN NoFile \notin operation \cup [before : Seq(operation), record : operation]

VARIABLES
    journal,        \* the journal file: [before, record], or NoFile
    heads,          \* state and backup file: [history, damaged]
    ledgers,        \* both ledger files: [history, torn, damaged]
    output,         \* the output folder: board -> image, or 0
    manifest,       \* the history its manifest was written for
    lease,          \* the output folder's lock file
    step,           \* per process: where it stands with the project
    memory,         \* per process: the history it works on
    frozen,         \* per process: an issue stops its writes
    request,        \* per process: the operation it owes an answer, or NoFile
    acked,          \* the answers given: [id, command, revision]
    damages         \* how many files were damaged so far

diskVars == <<journal, heads, ledgers, output, manifest, lease>>
memVars == <<step, memory, frozen, request>>
storeVars == <<diskVars, memVars, acked, damages>>
vars == <<lockVars, storeVars>>

Operation == [id : OpId, command : Command]
History == UNION {[1..n -> Operation] : n \in 0..MaxRevision}
Copy == {"state", "backup"}
Ledger == {"A", "B"}

Steps == {"closed", "ready", "restate", "rebackup", "prepare", "lease", "recover", "mend",
          "output", "A", "B", "commit", "manifest", "backup", "release", "clear"}

\* The steps whose write may fail.
Writing == Steps \ {"closed", "ready"}

TypeOK ==
    /\ LockTypeOK
    /\ \/ journal = NoFile
       \/ journal.before \in History /\ journal.record \in Operation
    /\ \A c \in Copy : heads[c].history \in History /\ heads[c].damaged \in BOOLEAN
    /\ \A l \in Ledger : /\ ledgers[l].history \in History
                         /\ ledgers[l].torn \in BOOLEAN /\ ledgers[l].damaged \in BOOLEAN
    /\ output \in [Board -> 0..Images]
    /\ manifest \in History
    /\ lease \in Proc \cup {NoFile}
    /\ step \in [Proc -> Steps]
    /\ \A p \in Proc : memory[p] \in History /\ request[p] \in Operation \cup {NoFile}
    /\ frozen \in [Proc -> BOOLEAN]
    /\ acked \subseteq [id : OpId, command : Command, revision : 1..MaxRevision]
    /\ damages \in 0..MaxDamage

\* A project that has just been created: no operation, and no process has it open.
Init ==
    /\ LockInit
    /\ journal = NoFile
    /\ heads = [c \in Copy |-> [history |-> <<>>, damaged |-> FALSE]]
    /\ ledgers = [l \in Ledger |-> [history |-> <<>>, torn |-> FALSE, damaged |-> FALSE]]
    /\ output = [b \in Board |-> 0]
    /\ manifest = <<>>
    /\ lease = NoFile
    /\ step = [p \in Proc |-> "closed"]
    /\ memory = [p \in Proc |-> <<>>]
    /\ frozen = [p \in Proc |-> FALSE]
    /\ request = [p \in Proc |-> NoFile]
    /\ acked = {}
    /\ damages = 0

----------------------------------------------------------------------------
(* Reading the project back *)

After(j) == Append(j.before, j.record)
Pending == journal # NoFile

\* Replaying a ledger up to a head: every record applies, and no id comes twice.
Replays(l, head) ==
    /\ ~ledgers[l].damaged
    /\ IsPrefix(head, ledgers[l].history)
    /\ Cardinality(Ids(head)) = Len(head)

\* Bytes beyond the head may only be a beginning of the pending record.
TailExplained(l, head) ==
    LET beyond == SubSeq(ledgers[l].history, Len(head) + 1, Len(ledgers[l].history))
        expected == Pending /\ journal.before = head
    IN \/ beyond = <<>> /\ (ledgers[l].torn => expected)
       \/ expected /\ beyond = <<journal.record>> /\ ~ledgers[l].torn

\* A head file gives no project: its bytes are damaged, or no ledger replays to it.
Corrupt(head) == head.damaged \/ \A l \in Ledger : ~Replays(l, head.history)

\* The head a process opens the project with: the state file, else the backup.
OpenedHead == IF Corrupt(heads["state"]) THEN heads["backup"] ELSE heads["state"]

\* replay with a pending journal, for a head the ledgers are to be read up to.
Hydrates(head) ==
    /\ \E l \in Ledger : Replays(l, head)
    /\ \A l \in Ledger : Replays(l, head) => TailExplained(l, head)

\* Neither PROJECT_CORRUPT nor JOURNAL_CONFLICT.
Readable ==
    /\ ~Corrupt(OpenedHead)
    /\ Hydrates(OpenedHead.history)
    /\ Pending => /\ OpenedHead.history \in {journal.before, After(journal)}
                  /\ Hydrates(journal.before)
                  /\ Takes(journal.before, journal.record.command)

\* verifyOutput: the folder holds what one of the two histories accepts; only a
\* file the pending operation copies or removes may be missing.
OutputAgrees(before, after) ==
    /\ manifest \in {before, after}
    /\ \A b \in Board :
         LET old == OutputOf(before)[b]
             new == OutputOf(after)[b]
             managed == IF new # 0 THEN new ELSE old
         IN output[b] = managed \/ (output[b] = 0 /\ old # new)

Agrees == IF Pending THEN OutputAgrees(journal.before, After(journal))
          ELSE OutputAgrees(OpenedHead.history, OpenedHead.history)

\* Every damaged ledger is written again with the prefix the other one replays to.
Mended(head) ==
    [l \in Ledger |-> IF ledgers[l].damaged
                      THEN [history |-> head, torn |-> FALSE, damaged |-> FALSE]
                      ELSE ledgers[l]]

At(p, s) == Holds(p) /\ step[p] = s
Move(p, s) == step' = [step EXCEPT ![p] = s]


----------------------------------------------------------------------------
(* Opening, resuming and closing *)

\* open: the journal, a head and the ledgers are read under the lock.  Without a
\* journal a damaged ledger is replaced, once the output has been verified.
Open(p) ==
    /\ At(p, "closed")
    /\ Readable /\ Agrees
    /\ memory' = [memory EXCEPT ![p] = OpenedHead.history]
    /\ IF Pending
       THEN Move(p, "recover") /\ UNCHANGED ledgers
       ELSE Move(p, "restate") /\ ledgers' = Mended(OpenedHead.history)
    /\ frozen' = [frozen EXCEPT ![p] = TRUE]
    /\ UNCHANGED <<lockVars, journal, heads, output, manifest, lease, request, acked, damages>>

\* resume: the pending operation is finished, or the two heads are written again.
Resume(p) ==
    /\ At(p, "ready") /\ frozen[p]
    /\ IF Pending THEN Move(p, "recover") ELSE Move(p, "restate")
    /\ UNCHANGED <<lockVars, diskVars, memory, frozen, request, acked, damages>>

WriteHead(p, s, c, next) ==
    /\ At(p, s)
    /\ heads' = [heads EXCEPT ![c] = [history |-> memory[p], damaged |-> FALSE]]
    /\ Move(p, next)

RestoreState(p) ==
    /\ WriteHead(p, "restate", "state", "rebackup")
    /\ UNCHANGED <<lockVars, journal, ledgers, output, manifest, lease, memory, frozen, request, acked, damages>>

RestoreBackup(p) ==
    /\ WriteHead(p, "rebackup", "backup", "ready")
    /\ frozen' = [frozen EXCEPT ![p] = FALSE]
    /\ UNCHANGED <<lockVars, journal, ledgers, output, manifest, lease, memory, request, acked, damages>>

Forget(p) ==
    /\ Move(p, "closed")
    /\ memory' = [memory EXCEPT ![p] = <<>>]
    /\ frozen' = [frozen EXCEPT ![p] = FALSE]
    /\ request' = [request EXCEPT ![p] = NoFile]

Close(p) ==
    /\ At(p, "ready")
    /\ Release(p)
    /\ Forget(p)
    /\ UNCHANGED <<diskVars, acked, damages>>

----------------------------------------------------------------------------
(* Executing a command *)

AnswerOf(history, id) ==
    LET i == CHOOSE n \in DOMAIN history : history[n].id = id
    IN [id |-> id, command |-> history[i].command, revision |-> i]

\* The operation was applied before: its receipt is the answer, once nothing of it
\* is pending.  The same id with other arguments is refused.
Repeat(p, id, c) ==
    /\ At(p, "ready")
    /\ \E i \in DOMAIN memory[p] : memory[p][i].id = id /\ memory[p][i].command = c
    /\ IF Pending
       THEN /\ Move(p, "recover")
            /\ request' = [request EXCEPT ![p] = [id |-> id, command |-> c]]
            /\ UNCHANGED acked
       ELSE /\ acked' = acked \cup {AnswerOf(memory[p], id)}
            /\ UNCHANGED <<step, request>>
    /\ UNCHANGED <<lockVars, diskVars, memory, frozen, damages>>

\* Mutant: the receipts are not looked at.
ExecuteAgain(p, id, c) ==
    /\ At(p, "ready") /\ ~frozen[p]
    /\ Len(memory[p]) < MaxRevision
    /\ Takes(memory[p], c)
    /\ request' = [request EXCEPT ![p] = [id |-> id, command |-> c]]
    /\ Move(p, "prepare")
    /\ UNCHANGED <<lockVars, diskVars, memory, frozen, acked, damages>>

\* PROJECT_FROZEN refuses a new operation until the project is resumed.
Execute(p, id, c) ==
    /\ At(p, "ready") /\ ~frozen[p]
    /\ id \notin Ids(memory[p])
    /\ Len(memory[p]) < MaxRevision
    /\ Takes(memory[p], c)
    /\ request' = [request EXCEPT ![p] = [id |-> id, command |-> c]]
    /\ Move(p, "prepare")
    /\ UNCHANGED <<lockVars, diskVars, memory, frozen, acked, damages>>

\* prepare: from here on the operation will be applied, whatever happens.
Prepare(p) ==
    /\ At(p, "prepare")
    /\ journal' = [before |-> memory[p], record |-> request[p]]
    /\ Move(p, "lease")
    /\ UNCHANGED <<lockVars, heads, ledgers, output, manifest, lease, memory, frozen, request, acked, damages>>

\* The output folder's lock, acquired as the project's; a dead owner loses it.
TakeLease(p) ==
    /\ step[p] \in {"lease", "recover"} /\ Holds(p)
    /\ lease # NoFile => Dead(lease)
    /\ lease' = p
    /\ IF step[p] = "lease" THEN Move(p, "output") ELSE Move(p, "mend")
    /\ UNCHANGED <<lockVars, journal, heads, ledgers, output, manifest, memory, frozen, request, acked, damages>>

MendLedgers(p) ==
    /\ At(p, "mend")
    /\ ledgers' = Mended(journal.before)
    /\ Move(p, "output")
    /\ UNCHANGED <<lockVars, journal, heads, output, manifest, lease, memory, frozen, request, acked, damages>>

\* copyJpeg and removeOwned: one file of the output folder.
WriteFile(p) ==
    /\ At(p, "output")
    /\ \E b \in Board :
         /\ output[b] # OutputOf(After(journal))[b]
         /\ output' = [output EXCEPT ![b] = OutputOf(After(journal))[b]]
    /\ UNCHANGED <<lockVars, journal, heads, ledgers, manifest, lease, memVars, acked, damages>>

\* Mutant: the files a command removes are left for later.
OutputAssumed(p) ==
    /\ At(p, "output")
    /\ Move(p, "A")
    /\ UNCHANGED <<lockVars, diskVars, memory, frozen, request, acked, damages>>

OutputWritten(p) ==
    /\ At(p, "output")
    /\ output = OutputOf(After(journal))
    /\ Move(p, "A")
    /\ UNCHANGED <<lockVars, diskVars, memory, frozen, request, acked, damages>>

\* appendExact writes the missing part of the record in two halves.
AppendLedger(p) ==
    /\ Holds(p) /\ step[p] \in Ledger
    /\ LET l == step[p]
           next == IF l = "A" THEN "B" ELSE "commit"
           full == ledgers[l].history = After(journal)
       IN /\ ~ledgers[l].damaged
          /\ \/ ~full /\ ~ledgers[l].torn
                /\ ledgers' = [ledgers EXCEPT ![l].torn = TRUE]
                /\ UNCHANGED step
             \/ ledgers[l].torn
                /\ ledgers' = [ledgers EXCEPT ![l] = [history |-> After(journal), torn |-> FALSE, damaged |-> FALSE]]
                /\ Move(p, next)
             \/ full
                /\ UNCHANGED ledgers
                /\ Move(p, next)
    /\ UNCHANGED <<lockVars, journal, heads, output, manifest, lease, memory, frozen, request, acked, damages>>

\* The state file commits the record; the process works on the new history.
Commit(p) ==
    /\ At(p, "commit")
    /\ heads' = [heads EXCEPT !["state"] = [history |-> After(journal), damaged |-> FALSE]]
    /\ memory' = [memory EXCEPT ![p] = After(journal)]
    /\ Move(p, "manifest")
    /\ UNCHANGED <<lockVars, journal, ledgers, output, manifest, lease, frozen, request, acked, damages>>

\* Mutant: the second copy of the head is written by the next operation only.
WriteManifestOnly(p) ==
    /\ At(p, "manifest")
    /\ manifest' = After(journal)
    /\ Move(p, "release")
    /\ UNCHANGED <<lockVars, journal, heads, ledgers, output, lease, memory, frozen, request, acked, damages>>

WriteManifest(p) ==
    /\ At(p, "manifest")
    /\ manifest' = After(journal)
    /\ Move(p, "backup")
    /\ UNCHANGED <<lockVars, journal, heads, ledgers, output, lease, memory, frozen, request, acked, damages>>

Backup(p) ==
    /\ WriteHead(p, "backup", "backup", "release")
    /\ UNCHANGED <<lockVars, journal, ledgers, output, manifest, lease, memory, frozen, request, acked, damages>>

\* Mutant: the lease is left to the finally block, behind the end of the journal.
ReleaseLater(p) ==
    /\ At(p, "release")
    /\ Move(p, "clear")
    /\ UNCHANGED <<lockVars, diskVars, memory, frozen, request, acked, damages>>

\* "Release while the journal still exists."
ReleaseLease(p) ==
    /\ At(p, "release")
    /\ lease' = NoFile
    /\ Move(p, "clear")
    /\ UNCHANGED <<lockVars, journal, heads, ledgers, output, manifest, memory, frozen, request, acked, damages>>

\* The journal goes, the issue is over, and the operation is answered.
ClearJournal(p) ==
    /\ At(p, "clear")
    /\ journal' = NoFile
    /\ Move(p, "ready")
    /\ frozen' = [frozen EXCEPT ![p] = FALSE]
    /\ request' = [request EXCEPT ![p] = NoFile]
    /\ acked' = IF request[p] = NoFile THEN acked
                ELSE acked \cup {AnswerOf(memory[p], request[p].id)}
    /\ UNCHANGED <<lockVars, heads, ledgers, output, manifest, lease, memory, damages>>

----------------------------------------------------------------------------
(* Failures *)

\* A write fails, or a ledger has changed under the process: the project freezes
\* and the operation is answered with an error.  The lease is given back; where
\* that fails too, its file stays.
Fail(p) ==
    /\ Holds(p) /\ step[p] \in Writing
    /\ lease' = lease \/ (lease = p /\ lease' = NoFile)
    /\ Move(p, "ready")
    /\ frozen' = [frozen EXCEPT ![p] = TRUE]
    /\ request' = [request EXCEPT ![p] = NoFile]
    /\ UNCHANGED <<lockVars, journal, heads, ledgers, output, manifest, memory, acked, damages>>

Die(p) ==
    /\ Crash(p)
    /\ Forget(p)
    /\ UNCHANGED <<diskVars, acked, damages>>

\* One copy of a mirrored file is found damaged or missing.
DamageHead(c) ==
    /\ damages < MaxDamage
    /\ \A d \in Copy : ~heads[d].damaged
    /\ heads' = [heads EXCEPT ![c].damaged = TRUE]
    /\ damages' = damages + 1
    /\ UNCHANGED <<lockVars, journal, ledgers, output, manifest, lease, memVars, acked>>

DamageLedger(l) ==
    /\ damages < MaxDamage
    /\ \A k \in Ledger : ~ledgers[k].damaged
    /\ ledgers' = [ledgers EXCEPT ![l].damaged = TRUE]
    /\ damages' = damages + 1
    /\ UNCHANGED <<lockVars, journal, heads, output, manifest, lease, memVars, acked>>

AcquireProject(p) == step[p] = "closed" /\ Acquire(p) /\ UNCHANGED storeVars

Work(p) ==
    \/ Open(p) \/ Resume(p) \/ RestoreState(p) \/ RestoreBackup(p) \/ Close(p)
    \/ \E id \in OpId, c \in Command : Repeat(p, id, c) \/ Execute(p, id, c)
    \/ Prepare(p) \/ TakeLease(p) \/ MendLedgers(p) \/ WriteFile(p) \/ OutputWritten(p)
    \/ AppendLedger(p) \/ Commit(p) \/ WriteManifest(p) \/ Backup(p) \/ ReleaseLease(p)
    \/ ClearJournal(p)

Next ==
    \/ \E p \in Proc : AcquireProject(p) \/ Work(p) \/ Fail(p) \/ Die(p)
    \/ \E c \in Copy : DamageHead(c)
    \/ \E l \in Ledger : DamageLedger(l)

Spec == Init /\ [][Next]_vars

----------------------------------------------------------------------------
(***************************************************************************)
(* "fault ... preserves confirmed work; explicit recovery and identical    *)
(* retry apply once": whatever has happened to the process or to one copy  *)
(* of a file, the next open reads the project, finds the journal to match  *)
(* it and the output folder to agree with it.                              *)
(***************************************************************************)
AlwaysRecoverable ==
    /\ Readable /\ Agrees
    /\ \A p \in Proc : At(p, "ready") /\ Pending => /\ memory[p] \in {journal.before, After(journal)}
                                                    /\ frozen[p]

(***************************************************************************)
(* The operations the project has, in the order of their revisions: what   *)
(* the heads commit to, and what the journal is about to add.              *)
(***************************************************************************)
Durable ==
    IF Pending THEN After(journal)
    ELSE IF heads["state"].damaged THEN heads["backup"].history ELSE heads["state"].history

(***************************************************************************)
(* Without a journal every copy of everything tells the same story.        *)
(***************************************************************************)
Finalised ==
    ~Pending =>
        /\ \A c \in Copy : heads[c].damaged \/ heads[c].history = Durable
        /\ \A l \in Ledger : \/ ledgers[l].damaged
                            \/ (ledgers[l].history = Durable /\ ~ledgers[l].torn)
        /\ manifest = Durable
        /\ output = OutputOf(Durable)

(***************************************************************************)
(* "A killed process can never leave an unaccounted output lease after a   *)
(* successfully finalized transaction."                                    *)
(***************************************************************************)
LeaseAccounted == lease # NoFile => Pending

(***************************************************************************)
(* Crashes, failed writes, damage, takeovers, retries and lost answers     *)
(* included, clients see one log: every operation applied at most once and *)
(* where it was legal, and no answered operation ever lost.                *)
(***************************************************************************)
Log == INSTANCE OperationLog WITH log <- Durable
ImplementsLog == Log!LogSpec
=============================================================================
