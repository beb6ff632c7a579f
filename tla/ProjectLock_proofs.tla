-------------------------- MODULE ProjectLock_proofs --------------------------
(***************************************************************************)
(* Proofs about ProjectLock, for any number of processes.                  *)
(*                                                                         *)
(* LockExclusive is not inductive.  What makes it so is who may touch the  *)
(* two files when: a process that is about to write the lock file created  *)
(* it and it is still unwritten, the claim belongs to the process that     *)
(* works under it, and a process about to remove the lock file has seen    *)
(* under the claim that it still names a dead owner.                       *)
(***************************************************************************)
EXTENDS ProjectLock, TLAPS

Creating(p) == pc[p] \in {"write", "rewrite"}
Owning(p) == pc[p] \in {"unclaimHeld", "held"}
Claiming(p) == pc[p] \in {"reread", "unlink", "recreate", "rewrite", "unclaim", "unclaimHeld"}

LockInv ==
    /\ LockTypeOK
    /\ \A p \in Proc :
         /\ Creating(p) => lockFile = Unwritten
         /\ Owning(p) => lockFile = p
         /\ Claiming(p) => claimFile = p
         /\ pc[p] \in {"claim", "reread", "unlink"} => seen[p] \in Proc /\ Dead(seen[p])
         /\ pc[p] = "inspect" => seen[p] \in Proc
         /\ pc[p] = "unlink" => lockFile = seen[p]
    /\ \A p, q \in Proc : Creating(p) /\ Creating(q) => p = q

\* A free folder, or one left by a dead process, satisfies the invariant.
LEMMA LockInitInv == LockInit => LockInv
<1>1. SUFFICES ASSUME LockInit PROVE LockInv
  OBVIOUS
<1>2. \A p \in Proc : pc[p] \in {"idle", "dead"}
  BY <1>1 DEF LockInit
<1>3. LockTypeOK
  BY <1>1, LockAssumption DEF LockInit, LockTypeOK, Phases
<1>4. QED
  BY <1>2, <1>3 DEF LockInv, Creating, Owning, Claiming

\* Every step of acquire and release, and the death of a process, keeps it.
LEMMA LockStepInv == LockInv /\ [LockNext]_lockVars => LockInv'
<1>1. SUFFICES ASSUME LockInv, [LockNext]_lockVars PROVE LockInv'
  OBVIOUS
<1> USE LockAssumption
<1>2. CASE UNCHANGED lockVars
  BY <1>1, <1>2 DEF LockInv, LockTypeOK, Creating, Owning, Claiming, Dead, lockVars
<1>3. ASSUME NEW p \in Proc, Acquire(p) \/ Release(p) \/ Crash(p) PROVE LockInv'
  <2> USE <1>1 DEF LockInv, LockTypeOK, Phases, Creating, Owning, Claiming, Dead, Goto
  <2>1. CASE Ask(p)
    BY <2>1 DEF Ask
  <2>2. CASE Create(p)
    BY <2>2 DEF Create
  <2>3. CASE CreateFindsFile(p)
    BY <2>3 DEF CreateFindsFile
  <2>4. CASE WriteOwner(p)
    BY <2>4 DEF WriteOwner
  <2>5. CASE AccessFails(p) \/ SyncFails(p) \/ UnclaimFails(p)
    BY <2>5 DEF AccessFails, SyncFails, UnclaimFails
  <2>6. CASE ReadOwner(p)
    BY <2>6 DEF ReadOwner
  <2>7. CASE OwnerUnknown(p)
    BY <2>7 DEF OwnerUnknown
  <2>8. CASE Inspect(p)
    BY <2>8 DEF Inspect
  <2>9. CASE Claim(p)
    BY <2>9 DEF Claim
  <2>10. CASE ClaimRefused(p)
    BY <2>10 DEF ClaimRefused
  <2>11. CASE Reread(p)
    BY <2>11 DEF Reread
  <2>12. CASE Unlink(p)
    BY <2>12 DEF Unlink
  <2>13. CASE Recreate(p)
    BY <2>13 DEF Recreate
  <2>14. CASE RewriteOwner(p)
    BY <2>14 DEF RewriteOwner
  <2>15. CASE Unclaim(p)
    BY <2>15 DEF Unclaim
  <2>16. CASE Release(p)
    BY <2>16 DEF Release
  <2>17. CASE Crash(p)
    BY <2>17 DEF Crash
  <2>18. QED
    BY <1>3, <2>1, <2>2, <2>3, <2>4, <2>5, <2>6, <2>7, <2>8, <2>9, <2>10, <2>11, <2>12,
       <2>13, <2>14, <2>15, <2>16, <2>17 DEF Acquire
<1>4. QED
  BY <1>1, <1>2, <1>3 DEF LockNext

\* The invariant holds in every reachable state.
LEMMA LockInvariant == LockSpec => []LockInv
<1>1. QED
  BY LockInitInv, LockStepInv, PTL DEF LockSpec

\* ProjectLock.acquire: whoever it returns a lock to is the owner the file names,
\* so no two processes ever hold the project together.
THEOREM LockIsExclusive == LockSpec => [](LockTypeOK /\ LockExclusive)
<1>1. LockInv => LockTypeOK /\ LockExclusive
  BY DEF LockInv, LockExclusive, Owning, Holds
<1>2. QED
  BY <1>1, LockInvariant, PTL

\* A step from a state of the invariant leaves an ownerless lock file to its writer
\* and the recovery claim of a dead process where it is.
LEMMA UnknownStep ==
  ASSUME LockInv, [LockNext]_lockVars
  PROVE  [/\ lockFile = Unwritten /\ lockFile' # lockFile =>
                \E p \in Proc : pc[p] \in {"write", "rewrite"} /\ lockFile' = p
          /\ claimFile \in Proc /\ Dead(claimFile) => claimFile' = claimFile]_lockVars
<1> USE LockAssumption
<1>1. CASE UNCHANGED lockVars
  BY <1>1
<1>2. ASSUME NEW p \in Proc, Acquire(p) \/ Release(p) \/ Crash(p)
      PROVE /\ lockFile = Unwritten /\ lockFile' # lockFile =>
                  \E q \in Proc : pc[q] \in {"write", "rewrite"} /\ lockFile' = q
            /\ claimFile \in Proc /\ Dead(claimFile) => claimFile' = claimFile
  <2>1. /\ pc[p] = "unlink" => lockFile \in Proc
        /\ pc[p] \in {"unclaim", "unclaimHeld"} => claimFile = p
    BY DEF LockInv, Claiming
  <2>2. lockFile' # lockFile =>
           \/ lockFile \in Proc \cup {NoFile}
           \/ pc[p] \in {"write", "rewrite"} /\ lockFile' = p
    BY <1>2, <2>1 DEF Acquire, Ask, Create, CreateFindsFile, WriteOwner, ReadOwner,
       OwnerUnknown, Inspect, Claim, ClaimRefused, Reread, Unlink, Recreate, RewriteOwner,
       Unclaim, AccessFails, SyncFails, UnclaimFails, Release, Crash
  <2>3. claimFile' # claimFile => claimFile = NoFile \/ pc[p] \in {"unclaim", "unclaimHeld"}
    BY <1>2 DEF Acquire, Ask, Create, CreateFindsFile, WriteOwner, ReadOwner,
       OwnerUnknown, Inspect, Claim, ClaimRefused, Reread, Unlink, Recreate, RewriteOwner,
       Unclaim, AccessFails, SyncFails, UnclaimFails, Release, Crash, Goto
  <2>4. QED
    BY <2>1, <2>2, <2>3 DEF Dead
<1>3. QED
  BY <1>1, <1>2 DEF LockNext

\* "unknown empty recovery guard is never reclaimed", for any number of processes.
THEOREM UnknownIsKept == LockSpec => UnknownKept
<1>1. QED
  BY LockInvariant, UnknownStep, PTL DEF LockSpec, UnknownKept
=============================================================================
