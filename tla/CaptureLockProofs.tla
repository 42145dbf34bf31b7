-------------------------- MODULE CaptureLockProofs --------------------------
(***************************************************************************)
(* Proofs about _CaptureLock for any number of processes, pids, inodes and *)
(* crashes.                                                                *)
(***************************************************************************)
EXTENDS CaptureLock, TLAPS

\* No lock file, no process: the inductive invariant holds at first.
LEMMA InitIInv == Init => IInv
<1> SUFFICES ASSUME Init PROVE IInv
  OBVIOUS
<1> USE CaptureLockAssumption DEF Init, Owning, Reclaiming, Trying, Locations, Examining
<1>1. TypeOK
  BY DEF TypeOK
<1>2. QED
  BY <1>1 DEF IInv, MutualExclusion, PidsDiffer, OwnerFile, ReclaimerFlock,
              ExaminedIsDead, UnlinkTarget

\* Every step of acquire, reclaim and release keeps the types of the state.
LEMMA TypeStep == TypeOK /\ [Next]_vars => TypeOK'
<1> SUFFICES ASSUME TypeOK, [Next]_vars PROVE TypeOK'
  OBVIOUS
<1> USE CaptureLockAssumption DEF TypeOK, Owning, Reclaiming, Trying, Locations
<1>1. CASE UNCHANGED vars
  BY <1>1 DEF vars
<1>2. ASSUME NEW p \in Procs, BeginAcquire(p) PROVE TypeOK'
  BY <1>2 DEF BeginAcquire
<1>3. ASSUME NEW p \in Procs, Create(p) PROVE TypeOK'
  BY <1>3 DEF Create
<1>4. ASSUME NEW p \in Procs, WritePid(p) PROVE TypeOK'
  BY <1>4 DEF WritePid
<1>5. ASSUME NEW p \in Procs, WriteFails(p) PROVE TypeOK'
  BY <1>5 DEF WriteFails, Close
<1>6. ASSUME NEW p \in Procs, TimeOut(p) PROVE TypeOK'
  BY <1>6 DEF TimeOut
<1>7. ASSUME NEW p \in Procs, OpenExisting(p) PROVE TypeOK'
  BY <1>7 DEF OpenExisting
<1>8. ASSUME NEW p \in Procs, Flock(p) PROVE TypeOK'
  BY <1>8 DEF Flock, Close
<1>9. ASSUME NEW p \in Procs, ProbeOwner(p) PROVE TypeOK'
  BY <1>9 DEF ProbeOwner, PassOrRetry, Close
<1>10. ASSUME NEW p \in Procs, CompareDead(p) PROVE TypeOK'
  BY <1>10 DEF CompareDead, PassOrRetry, Close
<1>11. ASSUME NEW p \in Procs, UnlinkDead(p) PROVE TypeOK'
  BY <1>11 DEF UnlinkDead, Close
<1>12. ASSUME NEW p \in Procs, CompareOwn(p) PROVE TypeOK'
  BY <1>12 DEF CompareOwn, Close
<1>13. ASSUME NEW p \in Procs, UnlinkOwn(p) PROVE TypeOK'
  BY <1>13 DEF UnlinkOwn, Close
<1>14. ASSUME NEW p \in Procs, Start(p) PROVE TypeOK'
  BY <1>14 DEF Start
<1>15. ASSUME NEW p \in Procs, Crash(p) PROVE TypeOK'
  BY <1>15 DEF Crash, Close
<1>16. QED
  BY <1>1, <1>2, <1>3, <1>4, <1>5, <1>6, <1>7, <1>8, <1>9, <1>10, <1>11, <1>12,
     <1>13, <1>14, <1>15 DEF Next, Step

(***************************************************************************)
(* The inductive step, one action at a time.  The two that carry the       *)
(* argument: ProbeOwner finds no owner on the inode, since an owner's file *)
(* records nothing or its own, live pid; and while a reclaimer has the     *)
(* flock of the inode the path names, nobody else unlinks the path.        *)
(***************************************************************************)
LEMMA IInvStep == IInv /\ [Next]_vars => IInv'
<1> SUFFICES ASSUME IInv, [Next]_vars PROVE IInv'
  OBVIOUS
<1> TypeOK /\ TypeOK'
  BY TypeStep DEF IInv
<1> DEFINE Rest == /\ MutualExclusion /\ PidsDiffer /\ OwnerFile
                   /\ ReclaimerFlock /\ ExaminedIsDead /\ UnlinkTarget
<1> Rest
  BY DEF IInv
<1> SUFFICES Rest'
  BY DEF IInv
<1> USE CaptureLockAssumption
    DEF TypeOK, MutualExclusion, PidsDiffer, OwnerFile, ReclaimerFlock, ExaminedIsDead,
        UnlinkTarget, Owning, Reclaiming, Trying, Locations, Examining
<1>1. CASE UNCHANGED vars
  BY <1>1 DEF vars
<1>2. ASSUME NEW p \in Procs, BeginAcquire(p) PROVE Rest'
  BY <1>2 DEF BeginAcquire
<1>3. ASSUME NEW p \in Procs, Create(p) PROVE Rest'
  BY <1>3 DEF Create
<1>4. ASSUME NEW p \in Procs, WritePid(p) PROVE Rest'
  BY <1>4 DEF WritePid
<1>5. ASSUME NEW p \in Procs, WriteFails(p) PROVE Rest'
  BY <1>5 DEF WriteFails, Close
<1>6. ASSUME NEW p \in Procs, TimeOut(p) PROVE Rest'
  BY <1>6 DEF TimeOut
<1>7. ASSUME NEW p \in Procs, OpenExisting(p) PROVE Rest'
  BY <1>7 DEF OpenExisting
<1>8. ASSUME NEW p \in Procs, Flock(p) PROVE Rest'
  BY <1>8 DEF Flock, FlockGranted, Close
<1>9. ASSUME NEW p \in Procs, ProbeOwner(p) PROVE Rest'
  BY <1>9 DEF ProbeOwner, PassOrRetry, RecordsDeadOwner, Live, Close
<1>10. ASSUME NEW p \in Procs, CompareDead(p) PROVE Rest'
  BY <1>10 DEF CompareDead, PassOrRetry, SameFile, Close
<1>11. ASSUME NEW p \in Procs, UnlinkDead(p) PROVE Rest'
  BY <1>11 DEF UnlinkDead, Close
<1>12. ASSUME NEW p \in Procs, CompareOwn(p) PROVE Rest'
  BY <1>12 DEF CompareOwn, SameFile, Close
<1>13. ASSUME NEW p \in Procs, UnlinkOwn(p) PROVE Rest'
  BY <1>13 DEF UnlinkOwn, Close
<1>14. ASSUME NEW p \in Procs, Start(p) PROVE Rest'
  BY <1>14 DEF Start, Live
<1>15. ASSUME NEW p \in Procs, Crash(p) PROVE Rest'
  BY <1>15 DEF Crash, Close
<1>16. QED
  BY <1>1, <1>2, <1>3, <1>4, <1>5, <1>6, <1>7, <1>8, <1>9, <1>10, <1>11, <1>12, <1>13, <1>14, <1>15 DEF Next, Step

\* Every reachable state of the lock satisfies the inductive invariant.
THEOREM InductiveInvariant == Spec => []IInv
  BY InitIInv, IInvStep, PTL DEF Spec

\* Type correctness of the lock (_CaptureLock), for every number of processes.
THEOREM Typing == Spec => []TypeOK
<1>1. IInv => TypeOK
  BY DEF IInv
<1>2. QED
  BY <1>1, InductiveInvariant, PTL

\* Two processes never own the lock at once (_CaptureLock.acquire), for every
\* number of processes, crashes and reclaimers, and with pids and inode
\* numbers reused.
THEOREM MutualExclusionHolds == Spec => []MutualExclusion
<1>1. IInv => MutualExclusion
  BY DEF IInv
<1>2. QED
  BY <1>1, InductiveInvariant, PTL

(***************************************************************************)
(* Refinement.  The lock as LockFile sees it, by cases.                    *)
(***************************************************************************)
LockCases ==
    /\ \A p \in Procs : pc[p] \in Owning => LockOf = p /\ path # NoInode
    /\ path = NoInode => LockOf = "free"
    /\ path # NoInode /\ (\A p \in Procs : pc[p] \notin Owning) => LockOf = "orphan"

\* The invariant decides what the lock is to LockFile: its one owner, or nobody's
\* file, or no file; never stolen.
LEMMA LockOfCases == IInv => LockCases
<1> SUFFICES ASSUME IInv PROVE LockCases
  OBVIOUS
<1> USE CaptureLockAssumption DEF IInv, TypeOK, MutualExclusion, OwnerFile, Owning, Reclaiming
<1>1. ASSUME NEW p \in Procs, pc[p] \in Owning
      PROVE  LockOf = p /\ path # NoInode
  <2>1. open[p] = path /\ path # NoInode
    BY <1>1
  <2>2. Owners = {p}
    BY <1>1 DEF Owners
  <2>3. QED
    BY <2>1, <2>2 DEF LockOf
<1>2. ASSUME \A p \in Procs : pc[p] \notin Owning
      PROVE  LockOf = IF path = NoInode THEN "free" ELSE "orphan"
  BY <1>2 DEF LockOf, Owners
<1>3. QED
  BY <1>1, <1>2 DEF LockCases

\* Who owns the lock and whether the file is there decide which step of
\* LockFile a step of the lock is.
LEMMA RefineStep == IInv /\ IInv' /\ [Next]_vars => [Abstract!LockNext]_LockOf
<1> SUFFICES ASSUME IInv, IInv', [Next]_vars PROVE [Abstract!LockNext]_LockOf
  OBVIOUS
<1>a. LockCases /\ LockCases'
  BY LockOfCases, PTL
<1>b. TypeOK /\ MutualExclusion /\ OwnerFile /\ ExaminedIsDead /\ UnlinkTarget
  BY DEF IInv
<1> HIDE DEF LockOf
<1> USE CaptureLockAssumption, <1>a, <1>b
    DEF LockCases, TypeOK, Owning, Reclaiming, Trying, Locations
<1>0. ASSUME path' = path, \A q \in Procs : pc[q]' \in Owning <=> pc[q] \in Owning
      PROVE  LockOf' = LockOf
  BY <1>0
<1>1. CASE UNCHANGED vars
  BY <1>1, <1>0 DEF vars
<1>2. ASSUME NEW p \in Procs,
             \/ BeginAcquire(p) \/ WritePid(p) \/ TimeOut(p) \/ OpenExisting(p)
             \/ Flock(p) \/ ProbeOwner(p) \/ CompareDead(p) \/ Start(p)
      PROVE  LockOf' = LockOf
  BY <1>2, <1>0 DEF BeginAcquire, WritePid, TimeOut, OpenExisting, Flock, ProbeOwner,
                    CompareDead, PassOrRetry, Start
<1>3. ASSUME NEW p \in Procs, CompareOwn(p) PROVE LockOf' = LockOf
  BY <1>3, <1>0 DEF CompareOwn, SameFile, OwnerFile
<1>4. ASSUME NEW p \in Procs, Create(p) PROVE Abstract!Acquire(p)
  <2>1. LockOf = "free" /\ LockOf' = p
    BY <1>4 DEF Create
  <2>2. QED
    BY <2>1 DEF Abstract!Acquire
<1>5. ASSUME NEW p \in Procs, WriteFails(p) PROVE Abstract!Abandon(p)
  <2>1. LockOf = p /\ LockOf' = "orphan"
    BY <1>5 DEF WriteFails, MutualExclusion
  <2>2. QED
    BY <2>1 DEF Abstract!Abandon
<1>6. ASSUME NEW p \in Procs, UnlinkOwn(p) PROVE Abstract!Release(p)
  <2>1. LockOf = p /\ LockOf' = "free"
    BY <1>6 DEF UnlinkOwn
  <2>2. QED
    BY <2>1 DEF Abstract!Release
<1>7. ASSUME NEW p \in Procs, UnlinkDead(p) PROVE Abstract!Reclaim
  <2>1. \A q \in Procs : pc[q] \notin Owning
    BY <1>7 DEF UnlinkDead, OwnerFile, ExaminedIsDead, UnlinkTarget, Examining
  <2>2. path # NoInode
    BY <1>7 DEF UnlinkDead, UnlinkTarget
  <2>3. LockOf = "orphan" /\ LockOf' = "free"
    BY <1>7, <2>1, <2>2 DEF UnlinkDead
  <2>4. QED
    BY <2>3 DEF Abstract!Reclaim
<1>8. ASSUME NEW p \in Procs, Crash(p)
      PROVE  LockOf' = LockOf \/ Abstract!Abandon(p)
  <2>1. CASE pc[p] \in Owning
    <3>1. LockOf = p /\ LockOf' = "orphan"
      BY <1>8, <2>1 DEF Crash, MutualExclusion
    <3>2. QED
      BY <3>1 DEF Abstract!Abandon
  <2>2. CASE pc[p] \notin Owning
    BY <1>8, <2>2, <1>0 DEF Crash
  <2>3. QED
    BY <2>1, <2>2
<1>9. QED
  BY <1>1, <1>2, <1>3, <1>4, <1>5, <1>6, <1>7, <1>8
  DEF Next, Step, Abstract!LockNext

\* _CaptureLock implements LockFile for every number of processes: a live
\* owner's lock ends only by its own release, and a reclaimer removes nothing
\* but an orphan.
THEOREM LockFileRefined == Spec => ImplementsLockFile
<1>1. Init => Abstract!LockInit
  BY DEF Init, LockOf, Owners, Owning, Abstract!LockInit
<1>2. QED
  BY <1>1, RefineStep, InductiveInvariant, PTL DEF Spec, ImplementsLockFile, Abstract!LockSpec
=============================================================================
