------------------------- MODULE ProjectStore_proofs -------------------------
(***************************************************************************)
(* Proofs about ProjectStore, for any number of processes, operations and  *)
(* failures, and any sequence of damages of one copy at a time.            *)
(*                                                                         *)
(* The invariant says, for the one process that holds the project, what    *)
(* its place in the write protocol has already put on the disk, and, for   *)
(* the disk alone, how far the copies may be apart: without a journal not  *)
(* at all, with one by the operation it names.                             *)
(***************************************************************************)
EXTENDS ProjectStore, ProjectLock_proofs

Entry == [before : Seq(Operation), record : Operation]

Types ==
    /\ journal \in Entry \cup {NoFile}
    /\ heads \in [Copy -> [history : Seq(Operation), damaged : BOOLEAN]]
    /\ ledgers \in [Ledger -> [history : Seq(Operation), torn : BOOLEAN, damaged : BOOLEAN]]
    /\ step \in [Proc -> Steps]
    /\ memory \in [Proc -> Seq(Operation)]
    /\ frozen \in [Proc -> BOOLEAN]
    /\ request \in [Proc -> Operation \cup {NoFile}]

(* From one step of the protocol to its end. *)
Cleaning == {"release", "clear"}
Settling == {"backup"} \cup Cleaning
Committed == {"manifest"} \cup Settling
Written == {"commit"} \cup Committed
Applying == {"lease", "recover", "mend", "output", "A", "B"} \cup Written

Stated == heads["state"].history
Full(l) == ledgers[l].damaged \/ (ledgers[l].history = After(journal) /\ ~ledgers[l].torn)

(* What the place of a process says. *)
Place(p) ==
    /\ step[p] # "closed" => Holds(p)
    /\ step[p] \in Applying => Pending
    /\ step[p] \in {"restate", "rebackup", "prepare"} => ~Pending
    /\ (step[p] = "ready" /\ ~frozen[p]) => ~Pending

Memory(p) ==
    /\ step[p] # "closed" /\ Pending => memory[p] \in {journal.before, After(journal)}
    /\ step[p] # "closed" /\ ~Pending => memory[p] = Stated
    /\ step[p] \in Committed => memory[p] = After(journal)

Asked(p) ==
    /\ step[p] = "closed" => request[p] = NoFile
    /\ step[p] \in {"closed", "ready", "restate", "rebackup"} => request[p] = NoFile
    /\ step[p] = "prepare" => /\ request[p] \in Operation
                              /\ request[p].id \notin Ids(memory[p])
                              /\ Takes(memory[p], request[p].command)
    /\ step[p] \in Applying /\ request[p] # NoFile => request[p].id \in Ids(After(journal))

Done(p) ==
    /\ step[p] \in {"A", "B"} \cup Written => output = OutputOf(After(journal))
    /\ step[p] \in {"B"} \cup Written => Full("A")
    /\ step[p] \in Written => Full("B")
    /\ step[p] \in Committed => Stated = After(journal)
    /\ step[p] \in Settling => manifest = After(journal)
    /\ step[p] \in Cleaning => heads["backup"].history = After(journal)
    /\ step[p] = "clear" => lease = NoFile

(* How far the copies are apart. *)
Quiet ==
    ~Pending => /\ heads["backup"].history = Stated /\ manifest = Stated
                /\ output = OutputOf(Stated) /\ lease = NoFile
                /\ \A l \in Ledger :
                     ledgers[l].damaged \/ (ledgers[l].history = Stated /\ ~ledgers[l].torn)

Apart ==
    Pending => \A l \in Ledger :
        \/ ledgers[l].damaged
        \/ /\ ledgers[l].history \in {journal.before, After(journal)}
           /\ ledgers[l].torn => ledgers[l].history = journal.before

IInv ==
    /\ LockInv /\ Types
    /\ \A p \in Proc : Place(p) /\ Memory(p) /\ Asked(p) /\ Done(p)
    /\ Quiet /\ Apart

-----------------------------------------------------------------------------
(* The journal's operation lengthens the history by itself. *)
LEMMA AfterFacts ==
  ASSUME NEW j \in Entry
  PROVE  /\ After(j) \in Seq(Operation) /\ After(j) # j.before
         /\ Ids(After(j)) = Ids(j.before) \cup {j.record.id}
<1>1. j.before \in Seq(Operation) /\ j.record \in Operation
  BY DEF Entry
<1>2. After(j) \in Seq(Operation) /\ Len(After(j)) = Len(j.before) + 1
  BY <1>1 DEF After
<1>3. After(j) # j.before
  BY <1>1, <1>2
<1>4. /\ DOMAIN After(j) = 1..(Len(j.before) + 1) /\ DOMAIN j.before = 1..Len(j.before)
      /\ \A i \in 1..Len(j.before) : After(j)[i] = j.before[i]
      /\ After(j)[Len(j.before) + 1] = j.record
      /\ Len(j.before) \in Nat
  BY <1>1 DEF After
<1>5. Ids(After(j)) = Ids(j.before) \cup {j.record.id}
  <2> DEFINE long == After(j)  short == j.before  n == Len(j.before)
  <2>1. DOMAIN long = DOMAIN short \cup {n + 1}
    BY <1>4
  <2>2. \A i \in DOMAIN short : long[i] = short[i]
    BY <1>4
  <2>3. long[n + 1] = j.record
    BY <1>4
  <2> HIDE DEF long, short, n
  <2>4. {long[i].id : i \in DOMAIN long} = {short[i].id : i \in DOMAIN short} \cup {j.record.id}
    BY <2>1, <2>2, <2>3
  <2>5. QED
    BY <2>4 DEF long, short, Ids
<1>6. QED
  BY <1>2, <1>3, <1>5

LEMMA NoFileFacts == NoFile \notin Operation /\ NoFile \notin Entry
BY StoreAssumption DEF Operation, Entry

(* The lock lets one process work at a time. *)
LEMMA OneWorks ==
  ASSUME IInv, NEW p \in Proc, Holds(p), NEW q \in Proc, q # p
  PROVE  step[q] = "closed"
<1>1. step[q] # "closed" => Holds(q)
  BY DEF IInv, Place
<1>2. Holds(q) => lockFile = q
  BY DEF IInv, LockInv, Owning, Holds
<1>3. lockFile = p
  BY DEF IInv, LockInv, Owning, Holds
<1>4. QED
  BY <1>1, <1>2, <1>3

(* A project without operations accepts no image. *)
LEMMA NothingYet == OutputOf(<<>>) = [b \in Board |-> 0]
<1> DEFINE R(f) == f = [n \in 0..Len(<<>>) |-> IF n = 0 THEN NewProject
                                             ELSE Apply(f[n - 1], <<>>[n].command)]
<1>1. Len(<<>>) = 0
  OBVIOUS
<1>2. R([n \in 0..0 |-> NewProject])
  BY <1>1
<1>3. R(CHOOSE f : R(f))
  BY <1>2
<1>4. Project(<<>>) = NewProject
  BY <1>1, <1>3 DEF Project
<1>5. QED
  BY <1>4 DEF OutputOf, Kept, NewProject

LEMMA InitInv == Init => IInv
<1> SUFFICES ASSUME Init PROVE IInv
  OBVIOUS
<1>1. LockInv
  BY LockInitInv DEF Init
<1>2. Types
  BY DEF Init, Types, Steps
<1>3. \A p \in Proc : Place(p) /\ Memory(p) /\ Asked(p) /\ Done(p)
  BY DEF Init, Place, Memory, Asked, Done, Applying, Written, Committed, Settling, Cleaning
<1>4. ~Pending /\ Stated = <<>> /\ output = OutputOf(Stated)
  BY NothingYet DEF Init, Pending, Stated, Copy
<1>5. Quiet /\ Apart
  BY <1>4 DEF Init, Quiet, Apart, Copy
<1>6. QED
  BY <1>1, <1>2, <1>3, <1>5 DEF IInv

-----------------------------------------------------------------------------
(* A step of the process that works leaves the others closed. *)
LEMMA StepOfOne ==
  ASSUME IInv, NEW p \in Proc, Holds(p), \A q \in Proc \ {p} : step'[q] = step[q] /\ request'[q] = request[q],
         LockInv', Types', Place(p)', Memory(p)', Asked(p)', Done(p)', Quiet', Apart'
  PROVE  IInv'
<1>1. ASSUME NEW q \in Proc, q # p PROVE (Place(q) /\ Memory(q) /\ Asked(q) /\ Done(q))'
  <2>1. step'[q] = "closed"
    BY <1>1, OneWorks
  <2>2. request'[q] = NoFile
    BY <1>1, OneWorks DEF IInv, Asked
  <2>3. QED
    BY <2>1, <2>2 DEF Place, Memory, Asked, Done, Applying, Written, Committed, Settling, Cleaning
<1>2. QED
  BY <1>1 DEF IInv

(* The steps that leave the lock to its holder. *)
LEMMA LockKept ==
  ASSUME IInv, UNCHANGED lockVars
  PROVE  LockInv' /\ \A p \in Proc : Holds(p)' = Holds(p)
<1>1. LockInv'
  BY LockStepInv DEF IInv
<1>2. QED
  BY <1>1 DEF lockVars, Holds

(* What the holder knows. *)
LEMMA HolderFacts ==
  ASSUME IInv, NEW p \in Proc
  PROVE  /\ Types /\ Place(p) /\ Memory(p) /\ Asked(p) /\ Done(p) /\ Quiet /\ Apart
         /\ Pending => journal \in Entry /\ After(journal) \in Seq(Operation)
                       /\ After(journal) # journal.before
                       /\ Ids(After(journal)) = Ids(journal.before) \cup {journal.record.id}
         /\ memory[p] \in Seq(Operation) /\ Stated \in Seq(Operation)
<1>1. Pending => journal \in Entry
  BY DEF IInv, Types, Pending
<1>2. QED
  BY <1>1, AfterFacts DEF IInv, Types, Stated, Copy

LEMMA OpenStep ==
  ASSUME IInv, NEW p \in Proc, Open(p)
  PROVE  IInv'
<1> USE HolderFacts DEF Types
<1>1. Holds(p) /\ step[p] = "closed" /\ UNCHANGED <<journal, heads, output, manifest, lease, request>>
  BY DEF Open, At
<1>2. LockInv' /\ Holds(p)' = Holds(p)
  BY LockKept DEF Open
<1>3. OpenedHead \in [history : Seq(Operation), damaged : BOOLEAN]
      /\ OpenedHead.history \in {Stated, heads["backup"].history}
  BY DEF OpenedHead, Stated, Copy
<1> DEFINE h == OpenedHead.history
<1>4. h \in Seq(Operation) /\ memory' = [memory EXCEPT ![p] = h]
      /\ frozen' = [frozen EXCEPT ![p] = TRUE]
  BY <1>3 DEF Open
<1>5. /\ Pending => Move(p, "recover") /\ UNCHANGED ledgers /\ h \in {journal.before, After(journal)}
      /\ ~Pending => Move(p, "restate") /\ ledgers' = Mended(h) /\ h = Stated
  BY <1>3 DEF Open, Readable, Quiet
<1> HIDE DEF h
<1>6. ledgers' \in [Ledger -> [history : Seq(Operation), torn : BOOLEAN, damaged : BOOLEAN]]
  <2>1. CASE Pending
    BY <1>5, <2>1
  <2>2. Mended(h) \in [Ledger -> [history : Seq(Operation), torn : BOOLEAN, damaged : BOOLEAN]]
    BY <1>4 DEF Mended
  <2>3. QED
    BY <1>5, <2>1, <2>2
<1>7. Types'
  BY <1>1, <1>4, <1>5, <1>6 DEF Move, Steps
<1>8. /\ \A q \in Proc \ {p} : step'[q] = step[q] /\ request'[q] = request[q]
      /\ Pending => step'[p] = "recover"
      /\ ~Pending => step'[p] = "restate"
      /\ memory'[p] = h /\ frozen'[p] /\ Pending' = Pending /\ Stated' = Stated
  BY <1>1, <1>4, <1>5 DEF Move, Pending, Stated
<1>9. (Place(p) /\ Memory(p) /\ Asked(p) /\ Done(p))'
  <2> USE DEF Applying, Written, Committed, Settling, Cleaning
  <2>1. Place(p)'
    BY <1>1, <1>2, <1>8 DEF Place
  <2>2. Memory(p)'
    BY <1>1, <1>5, <1>8 DEF Memory
  <2>3. Asked(p)'
    BY <1>1, <1>8 DEF Asked
  <2>4. Done(p)'
    BY <1>8 DEF Done
  <2>5. QED
    BY <2>1, <2>2, <2>3, <2>4
<1>10. Quiet'
  BY <1>1, <1>5, <1>8 DEF Quiet, Mended
<1>11. Apart'
  BY <1>1, <1>5, <1>8 DEF Apart
<1>12. QED
  BY <1>1, <1>2, <1>7, <1>8, <1>9, <1>10, <1>11, StepOfOne

-----------------------------------------------------------------------------
(* One lemma per step of the protocol: what it leaves alone, what it does to
   the place of its process, and what becomes of each part of the invariant. *)
LEMMA ResumeStep ==
  ASSUME IInv, NEW p \in Proc, Resume(p)
  PROVE  IInv'
<1> USE HolderFacts DEF Types
<1>1. Holds(p) /\ UNCHANGED <<lockVars, journal, heads, ledgers, output, manifest, lease, memory, frozen, request>>
  BY DEF Resume, At, memVars, diskVars
<1>2. LockInv' /\ Holds(p)' = Holds(p)
  BY <1>1, LockKept
<1>3. /\ \A q \in Proc \ {p} : step'[q] = step[q] /\ request'[q] = request[q]
      /\ step[p] = "ready" /\ frozen[p]
      /\ step' \in [Proc -> Steps] /\ step'[p] = IF Pending THEN "recover" ELSE "restate"
  BY DEF Resume, At, Move, Writing, Steps, memVars
<1>4. Types'
  BY <1>1, <1>3 DEF Steps
<1>5. (Place(p) /\ Memory(p) /\ Asked(p) /\ Done(p))'
  <2> USE DEF Pending, Stated, Applying, Written, Committed, Settling, Cleaning
  <2>1. Place(p)'
    BY <1>1, <1>2, <1>3 DEF Place
  <2>2. Memory(p)'
    BY <1>1, <1>2, <1>3 DEF Memory
  <2>3. Asked(p)'
    BY <1>1, <1>2, <1>3 DEF Asked
  <2>4. Done(p)'
    BY <1>1, <1>2, <1>3 DEF Done, Full
  <2>5. QED
    BY <2>1, <2>2, <2>3, <2>4
<1>6. Quiet'
  BY <1>1, <1>3 DEF Quiet, Pending, Stated, Memory, Place, Done, Full, Applying, Written,
     Committed, Settling, Cleaning
<1>7. Apart'
  BY <1>1, <1>3 DEF Apart, Pending
<1>8. QED
  BY <1>1, <1>2, <1>3, <1>4, <1>5, <1>6, <1>7, StepOfOne

LEMMA RestoreStateStep ==
  ASSUME IInv, NEW p \in Proc, RestoreState(p)
  PROVE  IInv'
<1> USE HolderFacts DEF Types
<1>1. Holds(p) /\ UNCHANGED <<lockVars, journal, ledgers, output, manifest, lease, memory, request>>
  BY DEF RestoreState, At, memVars, diskVars, WriteHead
<1>2. LockInv' /\ Holds(p)' = Holds(p)
  BY <1>1, LockKept
<1>3. /\ \A q \in Proc \ {p} : step'[q] = step[q] /\ request'[q] = request[q]
      /\ step[p] = "restate"
      /\ step' = [step EXCEPT ![p] = "rebackup"] /\ step'[p] = "rebackup"
      /\ frozen' = frozen
      /\ heads' = [heads EXCEPT !["state"] = [history |-> memory[p], damaged |-> FALSE]]
  BY DEF RestoreState, At, Move, Writing, Steps, memVars, WriteHead
<1>4. /\ heads'["state"].history = memory[p]
      /\ \A c \in Copy \ {"state"} : heads'[c] = heads[c]
      /\ Stated' = Stated
      /\ step[p] = "backup" => memory[p] = After(journal)
  BY <1>3 DEF Copy, Stated, Place, Memory, Committed, Settling, Applying, Written
<1>5. Types'
  BY <1>1, <1>3, <1>4 DEF Steps, Copy
<1>6. (Place(p) /\ Memory(p) /\ Asked(p) /\ Done(p))'
  <2> USE DEF Pending, Stated, Applying, Written, Committed, Settling, Cleaning
  <2>1. Place(p)'
    BY <1>1, <1>2, <1>3, <1>4 DEF Place
  <2>2. Memory(p)'
    BY <1>1, <1>2, <1>3, <1>4 DEF Memory
  <2>3. Asked(p)'
    BY <1>1, <1>2, <1>3, <1>4 DEF Asked
  <2>4. Done(p)'
    BY <1>1, <1>2, <1>3, <1>4 DEF Done, Full
  <2>5. QED
    BY <2>1, <2>2, <2>3, <2>4
<1>7. Quiet'
  BY <1>1, <1>3, <1>4 DEF Quiet, Pending, Stated, Memory, Place, Done, Full, Applying, Written,
     Committed, Settling, Cleaning
<1>8. Apart'
  BY <1>1, <1>3, <1>4 DEF Apart, Pending
<1>9. QED
  BY <1>1, <1>2, <1>3, <1>5, <1>6, <1>7, <1>8, StepOfOne

LEMMA RestoreBackupStep ==
  ASSUME IInv, NEW p \in Proc, RestoreBackup(p)
  PROVE  IInv'
<1> USE HolderFacts DEF Types
<1>1. Holds(p) /\ UNCHANGED <<lockVars, journal, ledgers, output, manifest, lease, memory, request>>
  BY DEF RestoreBackup, At, memVars, diskVars, WriteHead
<1>2. LockInv' /\ Holds(p)' = Holds(p)
  BY <1>1, LockKept
<1>3. /\ \A q \in Proc \ {p} : step'[q] = step[q] /\ request'[q] = request[q]
      /\ step[p] = "rebackup"
      /\ step' = [step EXCEPT ![p] = "ready"] /\ step'[p] = "ready"
      /\ frozen' = [frozen EXCEPT ![p] = FALSE]
      /\ heads' = [heads EXCEPT !["backup"] = [history |-> memory[p], damaged |-> FALSE]]
  BY DEF RestoreBackup, At, Move, Writing, Steps, memVars, WriteHead
<1>4. /\ heads'["backup"].history = memory[p]
      /\ \A c \in Copy \ {"backup"} : heads'[c] = heads[c]
      /\ Stated' = Stated
      /\ step[p] = "backup" => memory[p] = After(journal)
  BY <1>3 DEF Copy, Stated, Place, Memory, Committed, Settling, Applying, Written
<1>5. Types'
  BY <1>1, <1>3, <1>4 DEF Steps, Copy
<1>6. (Place(p) /\ Memory(p) /\ Asked(p) /\ Done(p))'
  <2> USE DEF Pending, Stated, Applying, Written, Committed, Settling, Cleaning
  <2>1. Place(p)'
    BY <1>1, <1>2, <1>3, <1>4 DEF Place
  <2>2. Memory(p)'
    BY <1>1, <1>2, <1>3, <1>4 DEF Memory
  <2>3. Asked(p)'
    BY <1>1, <1>2, <1>3, <1>4 DEF Asked
  <2>4. Done(p)'
    BY <1>1, <1>2, <1>3, <1>4 DEF Done, Full
  <2>5. QED
    BY <2>1, <2>2, <2>3, <2>4
<1>7. Quiet'
  BY <1>1, <1>3, <1>4 DEF Quiet, Pending, Stated, Memory, Place, Done, Full, Applying, Written,
     Committed, Settling, Cleaning
<1>8. Apart'
  BY <1>1, <1>3, <1>4 DEF Apart, Pending
<1>9. QED
  BY <1>1, <1>2, <1>3, <1>5, <1>6, <1>7, <1>8, StepOfOne

LEMMA BackupStep ==
  ASSUME IInv, NEW p \in Proc, Backup(p)
  PROVE  IInv'
<1> USE HolderFacts DEF Types
<1>1. Holds(p) /\ UNCHANGED <<lockVars, journal, ledgers, output, manifest, lease, memory, request>>
  BY DEF Backup, At, memVars, diskVars, WriteHead
<1>2. LockInv' /\ Holds(p)' = Holds(p)
  BY <1>1, LockKept
<1>3. /\ \A q \in Proc \ {p} : step'[q] = step[q] /\ request'[q] = request[q]
      /\ step[p] = "backup"
      /\ step' = [step EXCEPT ![p] = "release"] /\ step'[p] = "release"
      /\ frozen' = frozen
      /\ heads' = [heads EXCEPT !["backup"] = [history |-> memory[p], damaged |-> FALSE]]
  BY DEF Backup, At, Move, Writing, Steps, memVars, WriteHead
<1>4. /\ heads'["backup"].history = memory[p]
      /\ \A c \in Copy \ {"backup"} : heads'[c] = heads[c]
      /\ Stated' = Stated
      /\ step[p] = "backup" => memory[p] = After(journal)
  BY <1>3 DEF Copy, Stated, Place, Memory, Committed, Settling, Applying, Written
<1>5. Types'
  BY <1>1, <1>3, <1>4 DEF Steps, Copy
<1>6. (Place(p) /\ Memory(p) /\ Asked(p) /\ Done(p))'
  <2> USE DEF Pending, Stated, Applying, Written, Committed, Settling, Cleaning
  <2>1. Place(p)'
    BY <1>1, <1>2, <1>3, <1>4 DEF Place
  <2>2. Memory(p)'
    BY <1>1, <1>2, <1>3, <1>4 DEF Memory
  <2>3. Asked(p)'
    BY <1>1, <1>2, <1>3, <1>4 DEF Asked
  <2>4. Done(p)'
    BY <1>1, <1>2, <1>3, <1>4 DEF Done, Full
  <2>5. QED
    BY <2>1, <2>2, <2>3, <2>4
<1>7. Quiet'
  BY <1>1, <1>3, <1>4 DEF Quiet, Pending, Stated, Memory, Place, Done, Full, Applying, Written,
     Committed, Settling, Cleaning
<1>8. Apart'
  BY <1>1, <1>3, <1>4 DEF Apart, Pending
<1>9. QED
  BY <1>1, <1>2, <1>3, <1>5, <1>6, <1>7, <1>8, StepOfOne

LEMMA ExecuteStep ==
  ASSUME IInv, NEW p \in Proc, NEW id \in OpId, NEW c \in Command, Execute(p, id, c)
  PROVE  IInv'
<1> USE HolderFacts DEF Types
<1>1. Holds(p) /\ UNCHANGED <<lockVars, journal, heads, ledgers, output, manifest, lease, memory, frozen>>
  BY DEF Execute, At, memVars, diskVars
<1>2. LockInv' /\ Holds(p)' = Holds(p)
  BY <1>1, LockKept
<1>3. /\ \A q \in Proc \ {p} : step'[q] = step[q] /\ request'[q] = request[q]
      /\ step[p] = "ready" /\ ~frozen[p]
      /\ step' = [step EXCEPT ![p] = "prepare"] /\ step'[p] = "prepare"
      /\ request' = [request EXCEPT ![p] = [id |-> id, command |-> c]] /\ [id |-> id, command |-> c] \in Operation
      /\ id \notin Ids(memory[p]) /\ Takes(memory[p], c)
  BY DEF Execute, At, Move, Writing, Steps, memVars, Operation
<1>4. Types'
  BY <1>1, <1>3 DEF Steps
<1>5. (Place(p) /\ Memory(p) /\ Asked(p) /\ Done(p))'
  <2> USE DEF Pending, Stated, Applying, Written, Committed, Settling, Cleaning
  <2>1. Place(p)'
    BY <1>1, <1>2, <1>3 DEF Place
  <2>2. Memory(p)'
    BY <1>1, <1>2, <1>3 DEF Memory
  <2>3. Asked(p)'
    BY <1>1, <1>2, <1>3 DEF Asked
  <2>4. Done(p)'
    BY <1>1, <1>2, <1>3 DEF Done, Full
  <2>5. QED
    BY <2>1, <2>2, <2>3, <2>4
<1>6. Quiet'
  BY <1>1, <1>3 DEF Quiet, Pending, Stated, Memory, Place, Done, Full, Applying, Written,
     Committed, Settling, Cleaning
<1>7. Apart'
  BY <1>1, <1>3 DEF Apart, Pending
<1>8. QED
  BY <1>1, <1>2, <1>3, <1>4, <1>5, <1>6, <1>7, StepOfOne

LEMMA TakeLeaseStep ==
  ASSUME IInv, NEW p \in Proc, TakeLease(p)
  PROVE  IInv'
<1> USE HolderFacts DEF Types
<1>1. Holds(p) /\ UNCHANGED <<lockVars, journal, heads, ledgers, output, manifest, memory, frozen, request>>
  BY DEF TakeLease, At, memVars, diskVars
<1>2. LockInv' /\ Holds(p)' = Holds(p)
  BY <1>1, LockKept
<1>3. /\ \A q \in Proc \ {p} : step'[q] = step[q] /\ request'[q] = request[q]
      /\ \/ step[p] = "lease" /\ step'[p] = "output"
         \/ step[p] = "recover" /\ step'[p] = "mend"
      /\ step' \in [Proc -> Steps]
  BY DEF TakeLease, At, Move, Writing, Steps, memVars
<1>4. Types'
  BY <1>1, <1>3 DEF Steps
<1>5. (Place(p) /\ Memory(p) /\ Asked(p) /\ Done(p))'
  <2> USE DEF Pending, Stated, Applying, Written, Committed, Settling, Cleaning
  <2>1. Place(p)'
    BY <1>1, <1>2, <1>3 DEF Place
  <2>2. Memory(p)'
    BY <1>1, <1>2, <1>3 DEF Memory
  <2>3. Asked(p)'
    BY <1>1, <1>2, <1>3 DEF Asked
  <2>4. Done(p)'
    BY <1>1, <1>2, <1>3 DEF Done, Full
  <2>5. QED
    BY <2>1, <2>2, <2>3, <2>4
<1>6. Quiet'
  BY <1>1, <1>3 DEF Quiet, Pending, Stated, Memory, Place, Done, Full, Applying, Written,
     Committed, Settling, Cleaning
<1>7. Apart'
  BY <1>1, <1>3 DEF Apart, Pending
<1>8. QED
  BY <1>1, <1>2, <1>3, <1>4, <1>5, <1>6, <1>7, StepOfOne

LEMMA MendLedgersStep ==
  ASSUME IInv, NEW p \in Proc, MendLedgers(p)
  PROVE  IInv'
<1> USE HolderFacts DEF Types
<1>1. Holds(p) /\ UNCHANGED <<lockVars, journal, heads, output, manifest, lease, memory, frozen, request>>
  BY DEF MendLedgers, At, memVars, diskVars
<1>2. LockInv' /\ Holds(p)' = Holds(p)
  BY <1>1, LockKept
<1>3. /\ \A q \in Proc \ {p} : step'[q] = step[q] /\ request'[q] = request[q]
      /\ step[p] = "mend"
      /\ step' = [step EXCEPT ![p] = "output"] /\ step'[p] = "output"
      /\ ledgers' = Mended(journal.before)
  BY DEF MendLedgers, At, Move, Writing, Steps, memVars
<1>4. Pending /\ journal \in Entry /\ journal.before \in Seq(Operation)
  BY <1>3 DEF Place, Applying, Entry
<1>5. ledgers' \in [Ledger -> [history : Seq(Operation), torn : BOOLEAN, damaged : BOOLEAN]]
  BY <1>3, <1>4 DEF Mended
<1>6. /\ \A l \in Ledger : ledgers[l].damaged => /\ ledgers'[l].history = journal.before
                                                /\ ~ledgers'[l].damaged /\ ~ledgers'[l].torn
      /\ \A l \in Ledger : ~ledgers[l].damaged => ledgers'[l] = ledgers[l]
  BY <1>3 DEF Mended
<1>7. Types'
  BY <1>1, <1>3, <1>4, <1>5, <1>6 DEF Steps
<1>8. (Place(p) /\ Memory(p) /\ Asked(p) /\ Done(p))'
  <2> USE DEF Pending, Stated, Applying, Written, Committed, Settling, Cleaning
  <2>1. Place(p)'
    BY <1>1, <1>2, <1>3, <1>4, <1>5, <1>6 DEF Place
  <2>2. Memory(p)'
    BY <1>1, <1>2, <1>3, <1>4, <1>5, <1>6 DEF Memory
  <2>3. Asked(p)'
    BY <1>1, <1>2, <1>3, <1>4, <1>5, <1>6 DEF Asked
  <2>4. Done(p)'
    BY <1>1, <1>2, <1>3, <1>4, <1>5, <1>6 DEF Done, Full
  <2>5. QED
    BY <2>1, <2>2, <2>3, <2>4
<1>9. Quiet'
  BY <1>1, <1>3, <1>4, <1>5, <1>6 DEF Quiet, Pending, Stated, Memory, Place, Done, Full,
     Applying, Written, Committed, Settling, Cleaning
<1>10. Apart'
  BY <1>1, <1>3, <1>4, <1>5, <1>6 DEF Apart, Pending
<1>11. QED
  BY <1>1, <1>2, <1>3, <1>7, <1>8, <1>9, <1>10, StepOfOne

LEMMA WriteFileStep ==
  ASSUME IInv, NEW p \in Proc, WriteFile(p)
  PROVE  IInv'
<1> USE HolderFacts DEF Types
<1>1. Holds(p) /\ UNCHANGED <<lockVars, journal, heads, ledgers, manifest, lease, memory, frozen, request>>
  BY DEF WriteFile, At, memVars, diskVars
<1>2. LockInv' /\ Holds(p)' = Holds(p)
  BY <1>1, LockKept
<1>3. /\ step' = step
      /\ step[p] = "output"
  BY DEF WriteFile, At, Move, Writing, Steps, memVars
<1>4. Types'
  BY <1>1, <1>3 DEF Steps
<1>5. (Place(p) /\ Memory(p) /\ Asked(p) /\ Done(p))'
  <2> USE DEF Pending, Stated, Applying, Written, Committed, Settling, Cleaning
  <2>1. Place(p)'
    BY <1>1, <1>2, <1>3 DEF Place
  <2>2. Memory(p)'
    BY <1>1, <1>2, <1>3 DEF Memory
  <2>3. Asked(p)'
    BY <1>1, <1>2, <1>3 DEF Asked
  <2>4. Done(p)'
    BY <1>1, <1>2, <1>3 DEF Done, Full
  <2>5. QED
    BY <2>1, <2>2, <2>3, <2>4
<1>6. Quiet'
  BY <1>1, <1>3 DEF Quiet, Pending, Stated, Memory, Place, Done, Full, Applying, Written,
     Committed, Settling, Cleaning
<1>7. Apart'
  BY <1>1, <1>3 DEF Apart, Pending
<1>8. QED
  BY <1>1, <1>2, <1>3, <1>4, <1>5, <1>6, <1>7, StepOfOne

LEMMA OutputWrittenStep ==
  ASSUME IInv, NEW p \in Proc, OutputWritten(p)
  PROVE  IInv'
<1> USE HolderFacts DEF Types
<1>1. Holds(p) /\ UNCHANGED <<lockVars, journal, heads, ledgers, output, manifest, lease, memory, frozen, request>>
  BY DEF OutputWritten, At, memVars, diskVars
<1>2. LockInv' /\ Holds(p)' = Holds(p)
  BY <1>1, LockKept
<1>3. /\ \A q \in Proc \ {p} : step'[q] = step[q] /\ request'[q] = request[q]
      /\ step[p] = "output"
      /\ step' = [step EXCEPT ![p] = "A"] /\ step'[p] = "A"
      /\ output = OutputOf(After(journal))
  BY DEF OutputWritten, At, Move, Writing, Steps, memVars
<1>4. Types'
  BY <1>1, <1>3 DEF Steps
<1>5. (Place(p) /\ Memory(p) /\ Asked(p) /\ Done(p))'
  <2> USE DEF Pending, Stated, Applying, Written, Committed, Settling, Cleaning
  <2>1. Place(p)'
    BY <1>1, <1>2, <1>3 DEF Place
  <2>2. Memory(p)'
    BY <1>1, <1>2, <1>3 DEF Memory
  <2>3. Asked(p)'
    BY <1>1, <1>2, <1>3 DEF Asked
  <2>4. Done(p)'
    BY <1>1, <1>2, <1>3 DEF Done, Full
  <2>5. QED
    BY <2>1, <2>2, <2>3, <2>4
<1>6. Quiet'
  BY <1>1, <1>3 DEF Quiet, Pending, Stated, Memory, Place, Done, Full, Applying, Written,
     Committed, Settling, Cleaning
<1>7. Apart'
  BY <1>1, <1>3 DEF Apart, Pending
<1>8. QED
  BY <1>1, <1>2, <1>3, <1>4, <1>5, <1>6, <1>7, StepOfOne

LEMMA CommitStep ==
  ASSUME IInv, NEW p \in Proc, Commit(p)
  PROVE  IInv'
<1> USE HolderFacts DEF Types
<1>1. Holds(p) /\ UNCHANGED <<lockVars, journal, ledgers, output, manifest, lease, frozen, request>>
  BY DEF Commit, At, memVars, diskVars
<1>2. LockInv' /\ Holds(p)' = Holds(p)
  BY <1>1, LockKept
<1>3. /\ \A q \in Proc \ {p} : step'[q] = step[q] /\ request'[q] = request[q]
      /\ step[p] = "commit"
      /\ step' = [step EXCEPT ![p] = "manifest"] /\ step'[p] = "manifest"
      /\ memory' = [memory EXCEPT ![p] = After(journal)]
      /\ heads' = [heads EXCEPT !["state"] = [history |-> After(journal), damaged |-> FALSE]]
  BY DEF Commit, At, Move, Writing, Steps, memVars
<1>4. Pending
  BY <1>3 DEF Place, Applying, Written
<1>5. heads'["state"].history = After(journal) /\ heads'["backup"] = heads["backup"]
  BY <1>3 DEF Copy
<1>6. Types'
  BY <1>1, <1>3, <1>4, <1>5 DEF Steps, Copy
<1>7. (Place(p) /\ Memory(p) /\ Asked(p) /\ Done(p))'
  <2> USE DEF Pending, Stated, Applying, Written, Committed, Settling, Cleaning
  <2>1. Place(p)'
    BY <1>1, <1>2, <1>3, <1>4, <1>5 DEF Place
  <2>2. Memory(p)'
    BY <1>1, <1>2, <1>3, <1>4, <1>5 DEF Memory
  <2>3. Asked(p)'
    BY <1>1, <1>2, <1>3, <1>4, <1>5 DEF Asked
  <2>4. Done(p)'
    BY <1>1, <1>2, <1>3, <1>4, <1>5 DEF Done, Full
  <2>5. QED
    BY <2>1, <2>2, <2>3, <2>4
<1>8. Quiet'
  BY <1>1, <1>3, <1>4, <1>5 DEF Quiet, Pending, Stated, Memory, Place, Done, Full, Applying,
     Written, Committed, Settling, Cleaning
<1>9. Apart'
  BY <1>1, <1>3, <1>4, <1>5 DEF Apart, Pending
<1>10. QED
  BY <1>1, <1>2, <1>3, <1>6, <1>7, <1>8, <1>9, StepOfOne

LEMMA WriteManifestStep ==
  ASSUME IInv, NEW p \in Proc, WriteManifest(p)
  PROVE  IInv'
<1> USE HolderFacts DEF Types
<1>1. Holds(p) /\ UNCHANGED <<lockVars, journal, heads, ledgers, output, lease, memory, frozen, request>>
  BY DEF WriteManifest, At, memVars, diskVars
<1>2. LockInv' /\ Holds(p)' = Holds(p)
  BY <1>1, LockKept
<1>3. /\ \A q \in Proc \ {p} : step'[q] = step[q] /\ request'[q] = request[q]
      /\ step[p] = "manifest"
      /\ step' = [step EXCEPT ![p] = "backup"] /\ step'[p] = "backup"
      /\ manifest' = After(journal)
  BY DEF WriteManifest, At, Move, Writing, Steps, memVars
<1>4. Types'
  BY <1>1, <1>3 DEF Steps
<1>5. (Place(p) /\ Memory(p) /\ Asked(p) /\ Done(p))'
  <2> USE DEF Pending, Stated, Applying, Written, Committed, Settling, Cleaning
  <2>1. Place(p)'
    BY <1>1, <1>2, <1>3 DEF Place
  <2>2. Memory(p)'
    BY <1>1, <1>2, <1>3 DEF Memory
  <2>3. Asked(p)'
    BY <1>1, <1>2, <1>3 DEF Asked
  <2>4. Done(p)'
    BY <1>1, <1>2, <1>3 DEF Done, Full
  <2>5. QED
    BY <2>1, <2>2, <2>3, <2>4
<1>6. Quiet'
  BY <1>1, <1>3 DEF Quiet, Pending, Stated, Memory, Place, Done, Full, Applying, Written,
     Committed, Settling, Cleaning
<1>7. Apart'
  BY <1>1, <1>3 DEF Apart, Pending
<1>8. QED
  BY <1>1, <1>2, <1>3, <1>4, <1>5, <1>6, <1>7, StepOfOne

LEMMA ReleaseLeaseStep ==
  ASSUME IInv, NEW p \in Proc, ReleaseLease(p)
  PROVE  IInv'
<1> USE HolderFacts DEF Types
<1>1. Holds(p) /\ UNCHANGED <<lockVars, journal, heads, ledgers, output, manifest, memory, frozen, request>>
  BY DEF ReleaseLease, At, memVars, diskVars
<1>2. LockInv' /\ Holds(p)' = Holds(p)
  BY <1>1, LockKept
<1>3. /\ \A q \in Proc \ {p} : step'[q] = step[q] /\ request'[q] = request[q]
      /\ step[p] = "release"
      /\ step' = [step EXCEPT ![p] = "clear"] /\ step'[p] = "clear"
      /\ lease' = NoFile
  BY DEF ReleaseLease, At, Move, Writing, Steps, memVars
<1>4. Types'
  BY <1>1, <1>3 DEF Steps
<1>5. (Place(p) /\ Memory(p) /\ Asked(p) /\ Done(p))'
  <2> USE DEF Pending, Stated, Applying, Written, Committed, Settling, Cleaning
  <2>1. Place(p)'
    BY <1>1, <1>2, <1>3 DEF Place
  <2>2. Memory(p)'
    BY <1>1, <1>2, <1>3 DEF Memory
  <2>3. Asked(p)'
    BY <1>1, <1>2, <1>3 DEF Asked
  <2>4. Done(p)'
    BY <1>1, <1>2, <1>3 DEF Done, Full
  <2>5. QED
    BY <2>1, <2>2, <2>3, <2>4
<1>6. Quiet'
  BY <1>1, <1>3 DEF Quiet, Pending, Stated, Memory, Place, Done, Full, Applying, Written,
     Committed, Settling, Cleaning
<1>7. Apart'
  BY <1>1, <1>3 DEF Apart, Pending
<1>8. QED
  BY <1>1, <1>2, <1>3, <1>4, <1>5, <1>6, <1>7, StepOfOne

LEMMA ClearJournalStep ==
  ASSUME IInv, NEW p \in Proc, ClearJournal(p)
  PROVE  IInv'
<1> USE HolderFacts DEF Types
<1>1. Holds(p) /\ UNCHANGED <<lockVars, heads, ledgers, output, manifest, lease, memory>>
  BY DEF ClearJournal, At, memVars, diskVars
<1>2. LockInv' /\ Holds(p)' = Holds(p)
  BY <1>1, LockKept
<1>3. /\ \A q \in Proc \ {p} : step'[q] = step[q] /\ request'[q] = request[q]
      /\ step[p] = "clear"
      /\ step' = [step EXCEPT ![p] = "ready"] /\ step'[p] = "ready"
      /\ journal' = NoFile
      /\ frozen' = [frozen EXCEPT ![p] = FALSE]
      /\ request' = [request EXCEPT ![p] = NoFile]
  BY DEF ClearJournal, At, Move, Writing, Steps, memVars
<1>4. Pending
  BY <1>3 DEF Place, Applying, Written, Committed, Settling, Cleaning
<1>5. /\ memory[p] = After(journal) /\ Stated = After(journal)
      /\ heads["backup"].history = After(journal) /\ manifest = After(journal)
      /\ output = OutputOf(After(journal)) /\ lease = NoFile
      /\ \A l \in Ledger : ledgers[l].damaged \/ (ledgers[l].history = After(journal) /\ ~ledgers[l].torn)
  BY <1>3 DEF Memory, Done, Full, Ledger, Applying, Written, Committed, Settling, Cleaning
<1>6. Types'
  BY <1>1, <1>3, <1>4, <1>5 DEF Steps
<1>7. (Place(p) /\ Memory(p) /\ Asked(p) /\ Done(p))'
  <2> USE DEF Pending, Stated, Applying, Written, Committed, Settling, Cleaning
  <2>1. Place(p)'
    BY <1>1, <1>2, <1>3, <1>4, <1>5 DEF Place
  <2>2. Memory(p)'
    BY <1>1, <1>2, <1>3, <1>4, <1>5 DEF Memory
  <2>3. Asked(p)'
    BY <1>1, <1>2, <1>3, <1>4, <1>5 DEF Asked
  <2>4. Done(p)'
    BY <1>1, <1>2, <1>3, <1>4, <1>5 DEF Done, Full
  <2>5. QED
    BY <2>1, <2>2, <2>3, <2>4
<1>8. Quiet'
  BY <1>1, <1>3, <1>4, <1>5 DEF Quiet, Pending, Stated, Memory, Place, Done, Full, Applying,
     Written, Committed, Settling, Cleaning
<1>9. Apart'
  BY <1>1, <1>3, <1>4, <1>5 DEF Apart, Pending
<1>10. QED
  BY <1>1, <1>2, <1>3, <1>6, <1>7, <1>8, <1>9, StepOfOne

LEMMA FailStep ==
  ASSUME IInv, NEW p \in Proc, Fail(p)
  PROVE  IInv'
<1> USE HolderFacts DEF Types
<1>1. Holds(p) /\ UNCHANGED <<lockVars, journal, heads, ledgers, output, manifest, memory>>
  BY DEF Fail, At, memVars, diskVars
<1>2. LockInv' /\ Holds(p)' = Holds(p)
  BY <1>1, LockKept
<1>3. /\ \A q \in Proc \ {p} : step'[q] = step[q] /\ request'[q] = request[q]
      /\ step[p] \in Writing
      /\ step' = [step EXCEPT ![p] = "ready"] /\ step'[p] = "ready"
      /\ lease' = lease \/ (lease = p /\ lease' = NoFile)
      /\ frozen' = [frozen EXCEPT ![p] = TRUE]
      /\ request' = [request EXCEPT ![p] = NoFile]
  BY DEF Fail, At, Move, Writing, Steps, memVars
<1>4. step[p] # "closed" /\ step[p] # "ready"
  BY <1>3 DEF Writing
<1>5. Types'
  BY <1>1, <1>3, <1>4 DEF Steps
<1>6. (Place(p) /\ Memory(p) /\ Asked(p) /\ Done(p))'
  <2> USE DEF Pending, Stated, Applying, Written, Committed, Settling, Cleaning
  <2>1. Place(p)'
    BY <1>1, <1>2, <1>3, <1>4 DEF Place
  <2>2. Memory(p)'
    BY <1>1, <1>2, <1>3, <1>4 DEF Memory
  <2>3. Asked(p)'
    BY <1>1, <1>2, <1>3, <1>4 DEF Asked
  <2>4. Done(p)'
    BY <1>1, <1>2, <1>3, <1>4 DEF Done, Full
  <2>5. QED
    BY <2>1, <2>2, <2>3, <2>4
<1>7. Quiet'
  BY <1>1, <1>3, <1>4 DEF Quiet, Pending, Stated, Memory, Place, Done, Full, Applying, Written,
     Committed, Settling, Cleaning
<1>8. Apart'
  BY <1>1, <1>3, <1>4 DEF Apart, Pending
<1>9. QED
  BY <1>1, <1>2, <1>3, <1>5, <1>6, <1>7, <1>8, StepOfOne

LEMMA PrepareStep ==
  ASSUME IInv, NEW p \in Proc, Prepare(p)
  PROVE  IInv'
<1> USE HolderFacts DEF Types
<1>1. Holds(p) /\ UNCHANGED <<lockVars, heads, ledgers, output, manifest, lease, memory, frozen, request>>
  BY DEF Prepare, At, memVars, diskVars
<1>2. LockInv' /\ Holds(p)' = Holds(p)
  BY <1>1, LockKept
<1>3. /\ \A q \in Proc \ {p} : step'[q] = step[q] /\ request'[q] = request[q]
      /\ step[p] = "prepare"
      /\ step' = [step EXCEPT ![p] = "lease"] /\ step'[p] = "lease"
      /\ journal' = [before |-> memory[p], record |-> request[p]]
  BY DEF Prepare, At, Move, Writing, Steps, memVars
<1>4. /\ ~Pending /\ request[p] \in Operation /\ memory[p] = Stated
  BY <1>3 DEF Place, Asked, Memory
<1>5. /\ journal' \in Entry /\ journal'.before = Stated /\ memory[p] = Stated
      /\ journal'.record = request[p]
  BY <1>3, <1>4 DEF Entry
<1>6. /\ Pending' /\ Stated' = Stated
      /\ Ids(After(journal')) = Ids(journal'.before) \cup {request[p].id}
  BY <1>1, <1>5, AfterFacts, NoFileFacts DEF Pending, Stated
<1>7. \A l \in Ledger : ledgers[l].damaged \/ (ledgers[l].history = Stated /\ ~ledgers[l].torn)
  BY <1>4 DEF Quiet
<1>8. Types'
  BY <1>1, <1>3, <1>4, <1>5, <1>6, <1>7 DEF Steps
<1>9. (Place(p) /\ Memory(p) /\ Asked(p) /\ Done(p))'
  <2> USE DEF Pending, Stated, Applying, Written, Committed, Settling, Cleaning
  <2>1. Place(p)'
    BY <1>1, <1>2, <1>3, <1>4, <1>5, <1>6, <1>7 DEF Place
  <2>2. Memory(p)'
    BY <1>1, <1>2, <1>3, <1>4, <1>5, <1>6, <1>7 DEF Memory
  <2>3. Asked(p)'
    BY <1>1, <1>2, <1>3, <1>4, <1>5, <1>6, <1>7 DEF Asked
  <2>4. Done(p)'
    BY <1>1, <1>2, <1>3, <1>4, <1>5, <1>6, <1>7 DEF Done, Full
  <2>5. QED
    BY <2>1, <2>2, <2>3, <2>4
<1>10. Quiet'
  BY <1>1, <1>3, <1>4, <1>5, <1>6, <1>7 DEF Quiet, Pending, Stated, Memory, Place, Done, Full,
     Applying, Written, Committed, Settling, Cleaning
<1>11. Apart'
  BY <1>1, <1>3, <1>4, <1>5, <1>6, <1>7 DEF Apart, Pending
<1>12. QED
  BY <1>1, <1>2, <1>3, <1>8, <1>9, <1>10, <1>11, StepOfOne

LEMMA RepeatStep ==
  ASSUME IInv, NEW p \in Proc, NEW id \in OpId, NEW c \in Command, Repeat(p, id, c)
  PROVE  IInv'
<1> USE HolderFacts DEF Types
<1>1. Holds(p) /\ UNCHANGED <<lockVars, journal, heads, ledgers, output, manifest, lease, memory, frozen>>
  BY DEF Repeat, At, memVars, diskVars
<1>2. LockInv' /\ Holds(p)' = Holds(p)
  BY <1>1, LockKept
<1>3. /\ \A q \in Proc \ {p} : step'[q] = step[q] /\ request'[q] = request[q]
      /\ step[p] = "ready" /\ id \in Ids(memory[p])
      /\ \/ /\ Pending /\ step' = [step EXCEPT ![p] = "recover"] /\ step'[p] = "recover"
            /\ request' = [request EXCEPT ![p] = [id |-> id, command |-> c]]
            /\ [id |-> id, command |-> c] \in Operation
         \/ ~Pending /\ UNCHANGED <<step, request>>
  BY DEF Repeat, At, Move, Writing, Steps, memVars, Operation, Ids
<1>4. Pending => id \in Ids(After(journal))
  BY <1>3 DEF Memory
<1>5. Types'
  BY <1>1, <1>3, <1>4 DEF Steps
<1>6. (Place(p) /\ Memory(p) /\ Asked(p) /\ Done(p))'
  <2> USE DEF Pending, Stated, Applying, Written, Committed, Settling, Cleaning
  <2>1. Place(p)'
    BY <1>1, <1>2, <1>3, <1>4 DEF Place
  <2>2. Memory(p)'
    BY <1>1, <1>2, <1>3, <1>4 DEF Memory
  <2>3. Asked(p)'
    BY <1>1, <1>2, <1>3, <1>4 DEF Asked
  <2>4. Done(p)'
    BY <1>1, <1>2, <1>3, <1>4 DEF Done, Full
  <2>5. QED
    BY <2>1, <2>2, <2>3, <2>4
<1>7. Quiet'
  BY <1>1, <1>3, <1>4 DEF Quiet, Pending, Stated, Memory, Place, Done, Full, Applying, Written,
     Committed, Settling, Cleaning
<1>8. Apart'
  BY <1>1, <1>3, <1>4 DEF Apart, Pending
<1>9. QED
  BY <1>1, <1>2, <1>3, <1>5, <1>6, <1>7, <1>8, StepOfOne

LEMMA AppendLedgerStep ==
  ASSUME IInv, NEW p \in Proc, AppendLedger(p)
  PROVE  IInv'
<1> USE HolderFacts DEF Types
<1>1. Holds(p) /\ UNCHANGED <<lockVars, journal, heads, output, manifest, lease, memory, frozen, request>>
  BY DEF AppendLedger, At, memVars, diskVars
<1>2. LockInv' /\ Holds(p)' = Holds(p)
  BY <1>1, LockKept
<1>3. /\ \A q \in Proc \ {p} : step'[q] = step[q] /\ request'[q] = request[q]
      /\ step[p] \in Ledger /\ ~ledgers[step[p]].damaged
      /\ \/ step' = step /\ ledgers' = [ledgers EXCEPT ![step[p]].torn = TRUE] /\ ledgers[step[p]].history # After(journal)
         \/ /\ step' = [step EXCEPT ![p] = IF step[p] = "A" THEN "B" ELSE "commit"]
            /\ \/ ledgers' = [ledgers EXCEPT ![step[p]] = [history |-> After(journal), torn |-> FALSE, damaged |-> FALSE]]
               \/ ledgers' = ledgers /\ ledgers[step[p]].history = After(journal)
  BY DEF AppendLedger, At, Move, Writing, Steps, memVars
<1>4. step[p] \in {"A", "B"} /\ Pending /\ journal \in Entry
  BY <1>3 DEF Place, Ledger, Applying
<1>5. /\ \A l \in Ledger \ {step[p]} : ledgers'[l] = ledgers[l]
      /\ \/ /\ step' = step
            /\ ledgers'[step[p]].history = journal.before
         \/ /\ step'[p] = IF step[p] = "A" THEN "B" ELSE "commit"
            /\ ledgers'[step[p]].history = After(journal) /\ ~ledgers'[step[p]].torn
  <2>1. PICK l \in Ledger : l = step[p]
    BY <1>3
  <2>2. ledgers[l].history \in {journal.before, After(journal)} /\ ~ledgers[l].damaged
    BY <1>3, <1>4, <2>1 DEF Apart
  <2>3. CASE step' = step /\ ledgers' = [ledgers EXCEPT ![l].torn = TRUE] /\ ledgers[l].history # After(journal)
    <3>1. /\ \A m \in Ledger \ {l} : ledgers'[m] = ledgers[m]
          /\ ledgers'[l].history = ledgers[l].history
      BY <2>3
    <3>2. QED
      BY <2>1, <2>2, <2>3, <3>1
  <2>4. CASE /\ step' = [step EXCEPT ![p] = IF step[p] = "A" THEN "B" ELSE "commit"]
             /\ ledgers' = [ledgers EXCEPT ![l] = [history |-> After(journal), torn |-> FALSE, damaged |-> FALSE]]
    BY <2>1, <2>4
  <2>5. CASE /\ step' = [step EXCEPT ![p] = IF step[p] = "A" THEN "B" ELSE "commit"]
             /\ ledgers' = ledgers /\ ledgers[l].history = After(journal)
    <3>1. ~ledgers[l].torn
      BY <1>4, <2>2, <2>5 DEF Apart
    <3>2. QED
      BY <2>1, <2>5, <3>1
  <2>6. QED
    BY <1>3, <2>1, <2>3, <2>4, <2>5
<1>6. /\ ledgers' \in [Ledger -> [history : Seq(Operation), torn : BOOLEAN, damaged : BOOLEAN]]
      /\ step' \in [Proc -> Steps]
  <2>1. PICK l \in Ledger : l = step[p]
    BY <1>3
  <2>2. step' \in [Proc -> Steps]
    BY <1>3 DEF Steps
  <2>3. \/ ledgers' = [ledgers EXCEPT ![l].torn = TRUE]
        \/ ledgers' = [ledgers EXCEPT ![l] = [history |-> After(journal), torn |-> FALSE, damaged |-> FALSE]]
        \/ ledgers' = ledgers
    BY <1>3, <2>1
  <2>4. ledgers' \in [Ledger -> [history : Seq(Operation), torn : BOOLEAN, damaged : BOOLEAN]]
    <3>1. ledgers \in [Ledger -> [history : Seq(Operation), torn : BOOLEAN, damaged : BOOLEAN]]
          /\ After(journal) \in Seq(Operation)
      BY <1>4
    <3>2. /\ [ledgers[l] EXCEPT !.torn = TRUE] \in [history : Seq(Operation), torn : BOOLEAN, damaged : BOOLEAN]
          /\ [history |-> After(journal), torn |-> FALSE, damaged |-> FALSE] \in [history : Seq(Operation), torn : BOOLEAN, damaged : BOOLEAN]
      BY <3>1
    <3>3. QED
      BY <2>3, <3>1, <3>2
  <2>5. QED
    BY <2>2, <2>4
<1>7. Types'
  BY <1>1, <1>3, <1>4, <1>5, <1>6 DEF Steps
<1>8. (Place(p) /\ Memory(p) /\ Asked(p) /\ Done(p))'
  <2> USE DEF Pending, Stated, Applying, Written, Committed, Settling, Cleaning
  <2>1. Place(p)'
    BY <1>1, <1>2, <1>3, <1>4, <1>5, <1>6 DEF Place
  <2>2. Memory(p)'
    BY <1>1, <1>2, <1>3, <1>4, <1>5, <1>6 DEF Memory
  <2>3. Asked(p)'
    BY <1>1, <1>2, <1>3, <1>4, <1>5, <1>6 DEF Asked
  <2>4. Done(p)'
    BY <1>1, <1>2, <1>3, <1>4, <1>5, <1>6 DEF Done, Full, Ledger
  <2>5. QED
    BY <2>1, <2>2, <2>3, <2>4
<1>9. Quiet'
  BY <1>1, <1>3, <1>4, <1>5, <1>6 DEF Quiet, Pending, Stated, Memory, Place, Done, Full,
     Applying, Written, Committed, Settling, Cleaning
<1>10. Apart'
  BY <1>1, <1>3, <1>4, <1>5, <1>6 DEF Apart, Pending
<1>11. QED
  BY <1>1, <1>2, <1>3, <1>7, <1>8, <1>9, <1>10, StepOfOne

LEMMA LeaveStep ==
  ASSUME IInv, NEW p \in Proc, Close(p) \/ Die(p)
  PROVE  IInv'
<1> USE HolderFacts DEF Types
<1>1. /\ UNCHANGED <<journal, heads, ledgers, output, manifest, lease>>
      /\ step' = [step EXCEPT ![p] = "closed"]
      /\ memory' = [memory EXCEPT ![p] = <<>>] /\ frozen' = [frozen EXCEPT ![p] = FALSE]
      /\ request' = [request EXCEPT ![p] = NoFile]
  BY DEF Close, Die, Forget, Move, diskVars
<1>2. Release(p) \/ Crash(p)
  BY DEF Close, Die
<1>3. LockInv'
  BY <1>2, LockStepInv DEF IInv, LockNext
<1>4. Types'
  BY <1>1 DEF Steps
<1>5. ASSUME NEW q \in Proc PROVE (Place(q) /\ Memory(q) /\ Asked(q) /\ Done(q))'
  <2>1. CASE q = p
    BY <1>1, <2>1 DEF Place, Memory, Asked, Done, Applying, Written, Committed, Settling, Cleaning
  <2>2. CASE q # p
    <3>1. Place(q) /\ Memory(q) /\ Asked(q) /\ Done(q)
      BY DEF IInv
    <3>2. Holds(q) => Holds(q)'
      BY <1>2, <2>2, <1>3 DEF Holds, Release, Crash, Goto, IInv, LockInv, LockTypeOK
    <3>3. /\ step'[q] = step[q] /\ memory'[q] = memory[q] /\ frozen'[q] = frozen[q]
          /\ request'[q] = request[q]
      BY <1>1, <2>2
    <3>4. (Place(q) /\ Memory(q) /\ Asked(q))'
      BY <1>1, <3>1, <3>2, <3>3 DEF Place, Memory, Asked, Pending, Stated
    <3>5. Done(q)'
      BY <1>1, <3>1, <3>3 DEF Done, Stated, Full
    <3>6. QED
      BY <3>4, <3>5
  <2>3. QED
    BY <2>1, <2>2
<1>6. Quiet' /\ Apart'
  BY <1>1 DEF Quiet, Apart, Pending, Stated
<1>7. QED
  BY <1>3, <1>4, <1>5, <1>6 DEF IInv

LEMMA AcquireStep ==
  ASSUME IInv, NEW p \in Proc, AcquireProject(p)
  PROVE  IInv'
<1>1. step[p] = "closed" /\ Acquire(p) /\ UNCHANGED storeVars
  BY DEF AcquireProject
<1>2. LockInv'
  BY <1>1, LockStepInv DEF IInv, LockNext
<1>3. ASSUME NEW q \in Proc, q # p, Holds(q) PROVE Holds(q)'
  BY <1>1, <1>3 DEF Holds, Acquire, Ask, Create, CreateFindsFile, WriteOwner,
     AccessFails, SyncFails, UnclaimFails, ReadOwner,
     OwnerUnknown, Inspect, Claim, ClaimRefused, Reread, Unlink, Recreate, RewriteOwner, Unclaim,
     Goto, IInv, LockInv, LockTypeOK
<1>4. ASSUME NEW q \in Proc PROVE Place(q)'
  BY <1>1, <1>3 DEF IInv, Place, Pending, storeVars, diskVars, memVars
<1>5. Types' /\ Quiet' /\ Apart' /\ \A q \in Proc : (Memory(q) /\ Asked(q) /\ Done(q))'
  BY <1>1 DEF IInv, Types, Quiet, Apart, Memory, Asked, Done, Pending, Stated, Full,
     storeVars, diskVars, memVars
<1>6. QED
  BY <1>2, <1>4, <1>5 DEF IInv

LEMMA DamageStep ==
  ASSUME IInv,
         \/ \E c \in Copy : DamageHead(c)
         \/ \E l \in Ledger : DamageLedger(l)
  PROVE  IInv'
<1>0. Types /\ Quiet /\ Apart
  BY DEF IInv
<1>1. UNCHANGED <<lockVars, journal, output, manifest, lease, step, memory, frozen, request>>
  BY DEF DamageHead, DamageLedger, memVars
<1>2. /\ heads' \in [Copy -> [history : Seq(Operation), damaged : BOOLEAN]]
      /\ \A c \in Copy : heads'[c].history = heads[c].history
  <2>1. CASE heads' = heads
    BY <1>0, <2>1 DEF Types
  <2>2. ASSUME NEW c \in Copy, DamageHead(c)
        PROVE  /\ heads' \in [Copy -> [history : Seq(Operation), damaged : BOOLEAN]]
               /\ \A d \in Copy : heads'[d].history = heads[d].history
    <3>1. heads' = [heads EXCEPT ![c].damaged = TRUE]
      BY <2>2 DEF DamageHead
    <3>2. [heads[c] EXCEPT !.damaged = TRUE] \in [history : Seq(Operation), damaged : BOOLEAN]
      BY <1>0 DEF Types
    <3>3. QED
      BY <1>0, <3>1, <3>2 DEF Types
  <2>3. QED
    BY <2>1, <2>2 DEF DamageLedger
<1>3. /\ ledgers' \in [Ledger -> [history : Seq(Operation), torn : BOOLEAN, damaged : BOOLEAN]]
      /\ \A l \in Ledger : \/ ledgers'[l].damaged
                          \/ ledgers'[l] = ledgers[l]
  BY <1>0 DEF DamageHead, DamageLedger, Types
<1>4. LockInv' /\ \A p \in Proc : Holds(p)' = Holds(p)
  BY <1>1, LockKept
<1>5. Types'
  BY <1>0, <1>1, <1>2, <1>3 DEF Types
<1>6. "state" \in Copy /\ "backup" \in Copy /\ "A" \in Ledger /\ "B" \in Ledger
  BY DEF Copy, Ledger
<1>7. ASSUME NEW p \in Proc PROVE (Place(p) /\ Memory(p) /\ Asked(p) /\ Done(p))'
  <2>1. Place(p) /\ Memory(p) /\ Asked(p) /\ Done(p)
    BY DEF IInv
  <2>2. (Place(p) /\ Memory(p) /\ Asked(p))'
    BY <1>1, <1>2, <1>4, <1>6, <2>1 DEF Place, Memory, Asked, Pending, Stated
  <2>3. \A l \in {"A", "B"} : Full(l) => Full(l)'
    BY <1>1, <1>3, <1>6 DEF Full
  <2>4. Done(p)'
    BY <1>1, <1>2, <1>6, <2>1, <2>3 DEF Done, Stated
  <2>5. QED
    BY <2>2, <2>4
<1>8. Quiet' /\ Apart'
  BY <1>0, <1>1, <1>2, <1>3, <1>6 DEF Quiet, Apart, Pending, Stated
<1>9. QED
  BY <1>4, <1>5, <1>7, <1>8 DEF IInv

(* Every step keeps the invariant. *)
LEMMA StepInv == IInv /\ [Next]_vars => IInv'
<1> SUFFICES ASSUME IInv, [Next]_vars PROVE IInv'
  OBVIOUS
<1>1. CASE UNCHANGED vars
  <2>1. UNCHANGED <<lockVars, storeVars>>
    BY <1>1 DEF vars
  <2>2. LockInv' /\ \A p \in Proc : Holds(p)' = Holds(p)
    BY <2>1, LockKept
  <2>3. QED
    BY <2>1, <2>2 DEF IInv, Types, Quiet, Apart, Place, Memory, Asked, Done, Pending, Stated,
       Full,
       storeVars, diskVars, memVars
<1>2. ASSUME NEW p \in Proc, Work(p) PROVE IInv'
  BY <1>2, OpenStep, ResumeStep, RestoreStateStep, RestoreBackupStep, LeaveStep, RepeatStep,
     ExecuteStep, PrepareStep, TakeLeaseStep, MendLedgersStep, WriteFileStep, OutputWrittenStep,
     AppendLedgerStep, CommitStep, WriteManifestStep, BackupStep, ReleaseLeaseStep,
     ClearJournalStep DEF Work
<1>3. ASSUME NEW p \in Proc, AcquireProject(p) \/ Fail(p) \/ Die(p) PROVE IInv'
  BY <1>3, AcquireStep, FailStep, LeaveStep
<1>4. CASE (\E c \in Copy : DamageHead(c)) \/ \E l \in Ledger : DamageLedger(l)
  BY <1>4, DamageStep
<1>5. QED
  BY <1>1, <1>2, <1>3, <1>4 DEF Next

LEMMA Invariance == Spec => []IInv
<1>1. QED
  BY InitInv, StepInv, PTL DEF Spec

-----------------------------------------------------------------------------
(* Without a journal both heads tell the history the clients were told. *)
LEMMA DurableIsStated ==
  ASSUME IInv, ~Pending
  PROVE  Durable = Stated
BY DEF IInv, Quiet, Durable, Stated

(* project.test.mjs:616, "preserves confirmed work": whenever no journal is left,
   every undamaged copy, the manifest and the output folder tell the same history,
   however many processes died and writes failed before. *)
THEOREM EverythingIsFinalised == Spec => []Finalised
<1>1. IInv => Finalised
  <2>1. SUFFICES ASSUME IInv, ~Pending
                 PROVE  /\ \A c \in Copy : heads[c].damaged \/ heads[c].history = Durable
                        /\ \A l \in Ledger : \/ ledgers[l].damaged
                                             \/ (ledgers[l].history = Durable /\ ~ledgers[l].torn)
                        /\ manifest = Durable
                        /\ output = OutputOf(Durable)
    BY DEF Finalised
  <2>2. Durable = Stated
    BY <2>1, DurableIsStated
  <2>3. QED
    BY <2>1, <2>2 DEF IInv, Quiet, Stated, Copy
<1>2. QED
  BY <1>1, Invariance, PTL

(* "A killed process can never leave an unaccounted output lease after a
   successfully finalized transaction" (project-store.ts:938). *)
THEOREM LeaseIsAccounted == Spec => []LeaseAccounted
<1>1. IInv => LeaseAccounted
  BY DEF IInv, Quiet, LeaseAccounted
<1>2. QED
  BY <1>1, Invariance, PTL

-----------------------------------------------------------------------------
(* The store uses the lock as its own module says it may be used. *)
LEMMA LockIsUsed ==
  ASSUME [Next]_vars
  PROVE  [LockNext]_lockVars
<1>1. ASSUME NEW p \in Proc, Work(p) \/ Fail(p) PROVE [LockNext]_lockVars
  <2>1. CASE Close(p)
    BY <2>1 DEF Close, LockNext
  <2>2. CASE Work(p) /\ ~Close(p)
    BY <2>2 DEF Work, Open, Resume, RestoreState, RestoreBackup, Repeat, Execute, Prepare,
       TakeLease,
       MendLedgers, WriteFile, OutputWritten, AppendLedger, Commit, WriteManifest, Backup,
       ReleaseLease, ClearJournal
  <2>3. CASE Fail(p)
    BY <2>3 DEF Fail
  <2>4. QED
    BY <1>1, <2>1, <2>2, <2>3
<1>2. ASSUME NEW p \in Proc, AcquireProject(p) \/ Die(p) PROVE [LockNext]_lockVars
  BY <1>2 DEF AcquireProject, Die, LockNext
<1>3. CASE (\E c \in Copy : DamageHead(c)) \/ \E l \in Ledger : DamageLedger(l)
  BY <1>3 DEF DamageHead, DamageLedger
<1>4. CASE UNCHANGED vars
  BY <1>4 DEF vars
<1>5. QED
  BY <1>1, <1>2, <1>3, <1>4 DEF Next

(* Whatever a store does while it holds the project, dies in the middle of or
   closes, it is a behaviour of ProjectLock: its theorems hold of the store. *)
THEOREM StoreKeepsLock == Spec => []LockExclusive /\ UnknownKept
<1>1. Init => LockInit
  BY DEF Init
<1>2. Spec => LockSpec
  BY <1>1, LockIsUsed, PTL DEF Spec, LockSpec
<1>3. QED
  BY <1>2, LockIsExclusive, UnknownIsKept, PTL

-----------------------------------------------------------------------------
(* What a step does to the history clients are told, and to their answers. *)
LEMMA HistoryKept ==
  ASSUME IInv, IInv', journal' = journal, Stated' = Stated
  PROVE  Durable' = Durable
<1>1. CASE Pending
  BY <1>1 DEF Durable, Pending
<1>2. CASE ~Pending
  <2>1. Durable = Stated /\ Durable' = Stated'
    BY <1>2 DEF IInv, Quiet, Durable, Stated, Pending
  <2>2. QED
    BY <2>1
<1>3. QED
  BY <1>1, <1>2

(* The answer for an operation of the history is the answer the log gives. *)
LEMMA AnswerFacts ==
  ASSUME NEW history, NEW id \in Ids(history)
  PROVE  \E i \in DOMAIN history :
            AnswerOf(history, id) = [id |-> history[i].id, command |-> history[i].command, revision |-> i]
<1> DEFINE i == CHOOSE n \in DOMAIN history : history[n].id = id
<1>1. i \in DOMAIN history /\ history[i].id = id
  BY DEF Ids
<1>2. AnswerOf(history, id) = [id |-> history[i].id, command |-> history[i].command, revision |-> i]
  BY <1>1 DEF AnswerOf
<1>3. QED
  BY <1>1, <1>2

LEMMA LogStep ==
  ASSUME IInv, IInv', [Next]_vars
  PROVE  [Log!LogNext]_<<Durable, acked>>
<1>1. ASSUME journal' = journal, Stated' = Stated, acked' = acked
      PROVE  UNCHANGED <<Durable, acked>>
  BY <1>1, HistoryKept
<1>2. ASSUME NEW p \in Proc, Prepare(p) PROVE Log!LogNext
  <2>1. /\ ~Pending /\ memory[p] = Stated /\ request[p] \in Operation
        /\ request[p].id \notin Ids(memory[p]) /\ Takes(memory[p], request[p].command)
    BY <1>2, HolderFacts DEF Prepare, At, Place, Memory, Asked
  <2>2. Durable = memory[p]
    BY <2>1, DurableIsStated
  <2>3. journal' = [before |-> memory[p], record |-> request[p]] /\ acked' = acked
    BY <1>2 DEF Prepare
  <2>4. journal' \in Entry
    BY <2>1, <2>3, HolderFacts DEF Entry
  <2>5. Durable' = Append(memory[p], request[p])
    BY <2>3, <2>4, NoFileFacts DEF Durable, Pending, After
  <2>6. request[p] = [id |-> request[p].id, command |-> request[p].command]
        /\ request[p].id \in OpId /\ request[p].command \in Command
    BY <2>1 DEF Operation
  <2>7. Log!AppendOperation(request[p].id, request[p].command)
    BY <2>1, <2>2, <2>3, <2>5, <2>6 DEF Log!AppendOperation, Ids
  <2>8. QED
    BY <2>6, <2>7 DEF Log!LogNext
<1>3. ASSUME NEW p \in Proc, NEW id \in OpId, NEW c \in Command, Repeat(p, id, c)
      PROVE  Log!LogNext \/ UNCHANGED <<Durable, acked>>
  <2>1. journal' = journal /\ Stated' = Stated
    BY <1>3 DEF Repeat, diskVars, Stated
  <2>2. CASE Pending
    BY <1>1, <1>3, <2>1, <2>2 DEF Repeat
  <2>3. CASE ~Pending
    <3>1. memory[p] = Durable /\ id \in Ids(memory[p]) /\ acked' = acked \cup {AnswerOf(memory[p], id)}
      BY <1>3, <2>3, HolderFacts, DurableIsStated DEF Repeat, At, Memory, Ids
    <3>2. Durable' = Durable
      BY <2>1, HistoryKept
    <3>3. \E i \in DOMAIN Durable : Log!Answer(i)
      BY <3>1, <3>2, AnswerFacts DEF Log!Answer
    <3>4. QED
      BY <3>3 DEF Log!LogNext
  <2>4. QED
    BY <2>2, <2>3
<1>4. ASSUME NEW p \in Proc, ClearJournal(p) PROVE Log!LogNext \/ UNCHANGED <<Durable, acked>>
  <2>1. step[p] = "clear"
    BY <1>4 DEF ClearJournal, At
  <2>2. Pending /\ memory[p] = After(journal) /\ Stated = After(journal)
        /\ (request[p] # NoFile => request[p].id \in Ids(After(journal)))
    BY <2>1, HolderFacts DEF Place, Memory, Done, Asked, Applying, Written, Committed, Settling,
       Cleaning
  <2>3. Durable = memory[p] /\ ~Pending' /\ Stated' = Stated
    BY <1>4, <2>2 DEF ClearJournal, Durable, Pending, Stated
  <2>4. Durable' = Stated'
    BY <2>3 DEF IInv, Quiet, Durable, Stated
  <2>5. CASE request[p] = NoFile
    BY <1>4, <2>2, <2>3, <2>4, <2>5 DEF ClearJournal
  <2>6. CASE request[p] # NoFile
    <3>1. acked' = acked \cup {AnswerOf(Durable, request[p].id)} /\ request[p].id \in Ids(Durable)
      BY <1>4, <2>2, <2>3, <2>6 DEF ClearJournal
    <3>2. Durable' = Durable
      BY <2>2, <2>3, <2>4
    <3>3. \E i \in DOMAIN Durable : Log!Answer(i)
      BY <3>1, <3>2, AnswerFacts DEF Log!Answer
    <3>4. QED
      BY <3>3 DEF Log!LogNext
  <2>7. QED
    BY <2>5, <2>6
<1>5. ASSUME NEW p \in Proc, RestoreState(p) \/ RestoreBackup(p) \/ Backup(p)
      PROVE  UNCHANGED <<Durable, acked>>
  <2>1. CASE RestoreState(p)
    <3>1. Stated' = memory[p] /\ memory[p] = Stated
      BY <2>1, HolderFacts DEF RestoreState, WriteHead, At, Place, Memory, Stated, Copy, Types
    <3>2. QED
      BY <1>1, <2>1, <3>1 DEF RestoreState
  <2>2. CASE RestoreBackup(p) \/ Backup(p)
    <3>1. Stated' = Stated
      BY <2>2, HolderFacts DEF RestoreBackup, Backup, WriteHead, Stated, Copy, Types
    <3>2. QED
      BY <1>1, <2>2, <3>1 DEF RestoreBackup, Backup
  <2>3. QED
    BY <1>5, <2>1, <2>2
<1>6. ASSUME NEW p \in Proc, Commit(p) PROVE UNCHANGED <<Durable, acked>>
  <2>1. Pending /\ journal' = journal /\ acked' = acked
    BY <1>6, HolderFacts DEF Commit, At, Place, Applying, Written
  <2>2. QED
    BY <2>1 DEF Durable, Pending
<1>7. ASSUME NEW p \in Proc, Work(p) PROVE Log!LogNext \/ UNCHANGED <<Durable, acked>>
  <2>1. ASSUME UNCHANGED <<journal, heads, acked>> PROVE UNCHANGED <<Durable, acked>>
    BY <1>1, <2>1 DEF Stated
  <2>2. CASE \/ Open(p) \/ Resume(p) \/ Close(p) \/ TakeLease(p) \/ MendLedgers(p) \/ WriteFile(p)
             \/ OutputWritten(p) \/ AppendLedger(p) \/ WriteManifest(p) \/ ReleaseLease(p)
             \/ \E id \in OpId, c \in Command : Execute(p, id, c)
    BY <2>1, <2>2 DEF Open, Resume, Close, TakeLease, MendLedgers, WriteFile, OutputWritten,
       AppendLedger, WriteManifest, ReleaseLease, Execute, diskVars
  <2>3. QED
    BY <1>2, <1>3, <1>4, <1>5, <1>6, <1>7, <2>2 DEF Work
<1>8. ASSUME NEW p \in Proc, AcquireProject(p) \/ Fail(p) \/ Die(p)
      PROVE  UNCHANGED <<Durable, acked>>
  <2>1. UNCHANGED <<journal, heads, acked>>
    BY <1>8 DEF AcquireProject, Fail, Die, storeVars, diskVars
  <2>2. QED
    BY <1>1, <2>1 DEF Stated
<1>9. CASE (\E c \in Copy : DamageHead(c)) \/ \E l \in Ledger : DamageLedger(l)
  <2>1. Stated' = Stated
    <3>1. ASSUME NEW c \in Copy, DamageHead(c) PROVE Stated' = Stated
      <4>1. heads' = [heads EXCEPT ![c].damaged = TRUE] /\ Types
        BY <3>1 DEF DamageHead, IInv
      <4>2. "state" \in Copy /\ heads'["state"].history = heads["state"].history
        BY <4>1 DEF Copy, Types
      <4>3. QED
        BY <4>2 DEF Stated
    <3>2. QED
      BY <1>9, <3>1 DEF DamageLedger, Stated
  <2>2. QED
    BY <1>1, <1>9, <2>1 DEF DamageHead, DamageLedger
<1>10. CASE UNCHANGED vars
  BY <1>1, <1>10 DEF vars, storeVars, diskVars, Stated
<1>11. QED
  BY <1>7, <1>8, <1>9, <1>10 DEF Next

(* Clients of the store see one growing log: every operation is applied once and
   where it was legal, and what was answered is in it, for any number of processes,
   deaths, failed writes and damaged copies. *)
THEOREM StoreImplementsLog == Spec => ImplementsLog
<1>1. Init => Log!LogInit
  BY DEF Init, Log!LogInit, Durable, Pending, Copy
<1>2. QED
  BY <1>1, Invariance, LogStep, PTL DEF Spec, ImplementsLog, Log!LogSpec
=============================================================================
