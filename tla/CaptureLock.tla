----------------------------- MODULE CaptureLock -----------------------------
(***************************************************************************)
(* services._CaptureLock: the lock file that serializes synchronization,   *)
(* capture pushes and remote authority proposals of one repository and     *)
(* branch between the processes that share a state (or lock) directory.    *)
(*                                                                         *)
(* A process acquires the lock by creating the file with O_EXCL and then   *)
(* writing its pid into it, and releases it by unlinking the path if it    *)
(* still names the inode it created.  A process that finds the file there  *)
(* tries to reclaim it from a dead owner: it opens the inode, takes an     *)
(* flock on it, reads the pid, asks the kernel whether that process is     *)
(* alive, checks that the path still names the inode and unlinks it.  Each *)
(* system call is a step; a process may die between any two of them.       *)
(*                                                                         *)
(* Identities the kernel reuses are reused here: an inode number as soon   *)
(* as neither the path nor an open file refers to it, and a pid as soon as *)
(* its process is gone (unless PidReuse is FALSE).                         *)
(***************************************************************************)
EXTENDS Naturals

CONSTANTS
    Procs,          \* processes (a process that restarts keeps its name here)
    Pids,           \* pids the kernel may hand out
    Inodes,         \* inode numbers of the lock directory's file system
    NoPid,          \* the content of a created but not yet written lock file
    NoInode,        \* no file at the path / no file open
    NoProc,         \* nobody holds the flock
    PidReuse,       \* may the kernel hand out the pid of a dead process again?
    MaxCrashes      \* bound on crashes

ASSUME CaptureLockAssumption ==
    /\ NoPid \notin Pids /\ NoInode \notin Inodes /\ NoProc \notin Procs
    /\ {"free", "orphan", "stolen"} \cap Procs = {}
    /\ PidReuse \in BOOLEAN
    /\ MaxCrashes \in Nat

VARIABLES
    pc,             \* where each process is in acquire(), _reclaim_dead_owner(), release()
    pid,            \* the pid of each process, NoPid while it is down
    open,           \* the lock file inode each process has open
    path,           \* the inode the lock path names
    content,        \* what is written in each inode
    flock,          \* who holds the flock on each inode
    used,           \* pids handed out so far
    crashes

vars == <<pc, pid, open, path, content, flock, used, crashes>>

Owning == {"created", "held", "releasing"}
Reclaiming == {"opened", "flocked", "dead_owner", "same"}
Trying == {"create", "retry"}
Locations == {"down", "idle"} \cup Trying \cup Owning \cup Reclaiming

Live(n) == \E q \in Procs : pid[q] = n

TypeOK ==
    /\ pc \in [Procs -> Locations]
    /\ pid \in [Procs -> Pids \cup {NoPid}]
    /\ open \in [Procs -> Inodes \cup {NoInode}]
    /\ path \in Inodes \cup {NoInode}
    /\ content \in [Inodes -> Pids \cup {NoPid}]
    /\ flock \in [Inodes -> Procs \cup {NoProc}]
    /\ used \subseteq Pids
    /\ crashes \in 0..MaxCrashes
    /\ \A p \in Procs : /\ open[p] # NoInode <=> pc[p] \in Owning \cup Reclaiming
                        /\ pid[p] # NoPid <=> pc[p] # "down"

Init ==
    /\ pc = [p \in Procs |-> "down"]
    /\ pid = [p \in Procs |-> NoPid]
    /\ open = [p \in Procs |-> NoInode]
    /\ path = NoInode
    /\ content = [i \in Inodes |-> NoPid]
    /\ flock = [i \in Inodes |-> NoProc]
    /\ used = {}
    /\ crashes = 0

(***************************************************************************)
(* Closing the open file drops the flock the process has on it.            *)
(***************************************************************************)
CloseForgotten(p) == UNCHANGED <<open, flock>>

Close(p) ==
    /\ open' = [open EXCEPT ![p] = NoInode]
    /\ flock' = [i \in Inodes |-> IF flock[i] = p THEN NoProc ELSE flock[i]]

(***************************************************************************)
(* What the checks of the code ask, each with the slip that a property     *)
(* below must notice.                                                      *)
(***************************************************************************)
FlockIgnored(i) == TRUE
FlockGranted(i) == flock[i] = NoProc

EmptyMeansDead(n) == ~Live(n)
NeverDead(n) == FALSE
RecordsDeadOwner(n) == n \in Pids /\ ~Live(n)

AnyFileAtPath(p) == path # NoInode
SameFile(p) == path = open[p]

(***************************************************************************)
(* acquire()                                                               *)
(***************************************************************************)
BeginAcquire(p) ==
    /\ pc[p] = "idle"
    /\ pc' = [pc EXCEPT ![p] = "create"]
    /\ UNCHANGED <<pid, open, path, content, flock, used, crashes>>

\* os.open(O_CREAT | O_EXCL) succeeds: a new, empty inode at the path.
Create(p) ==
    /\ pc[p] \in Trying
    /\ path = NoInode
    /\ \E i \in Inodes :
        /\ \A q \in Procs : open[q] # i
        /\ path' = i
        /\ open' = [open EXCEPT ![p] = i]
        /\ content' = [content EXCEPT ![i] = NoPid]
    /\ pc' = [pc EXCEPT ![p] = "created"]
    /\ UNCHANGED <<pid, flock, used, crashes>>

WritePid(p) ==
    /\ pc[p] = "created"
    /\ content' = [content EXCEPT ![open[p]] = pid[p]]
    /\ pc' = [pc EXCEPT ![p] = "held"]
    /\ UNCHANGED <<pid, open, path, flock, used, crashes>>

\* os.write fails: acquire() reports the error and nobody removes the file.
WriteFails(p) ==
    /\ pc[p] = "created"
    /\ pc' = [pc EXCEPT ![p] = "idle"]
    /\ Close(p)
    /\ UNCHANGED <<pid, path, content, used, crashes>>

\* The deadline is looked at before each attempt to reclaim, but cannot have
\* passed before the first.
TimeOut(p) ==
    /\ pc[p] = "retry"
    /\ path # NoInode
    /\ pc' = [pc EXCEPT ![p] = "idle"]
    /\ UNCHANGED <<pid, open, path, content, flock, used, crashes>>

(***************************************************************************)
(* _reclaim_dead_owner(), and back to the loop of acquire()                *)
(***************************************************************************)
OpenExisting(p) ==
    /\ pc[p] \in Trying
    /\ path # NoInode
    /\ open' = [open EXCEPT ![p] = path]
    /\ pc' = [pc EXCEPT ![p] = "opened"]
    /\ UNCHANGED <<pid, path, content, flock, used, crashes>>

\* One more check passed, or give up this attempt and close the file.
PassOrRetry(p, check, next) ==
    IF check
    THEN /\ pc' = [pc EXCEPT ![p] = next]
         /\ UNCHANGED <<open, flock>>
    ELSE /\ pc' = [pc EXCEPT ![p] = "retry"]
         /\ Close(p)

\* flock(LOCK_EX | LOCK_NB) fails at once when another process has it.
Flock(p) ==
    /\ pc[p] = "opened"
    /\ IF FlockGranted(open[p])
       THEN /\ flock' = [flock EXCEPT ![open[p]] = p]
            /\ pc' = [pc EXCEPT ![p] = "flocked"]
            /\ UNCHANGED open
       ELSE /\ pc' = [pc EXCEPT ![p] = "retry"]
            /\ Close(p)
    /\ UNCHANGED <<pid, path, content, used, crashes>>

\* Read the pid and kill(pid, 0).  What is written never changes, so the two
\* calls are one step.
ProbeOwner(p) ==
    /\ pc[p] = "flocked"
    /\ PassOrRetry(p, RecordsDeadOwner(content[open[p]]), "dead_owner")
    /\ UNCHANGED <<pid, path, content, used, crashes>>

\* samestat(fstat(existing), stat(path))
CompareDead(p) ==
    /\ pc[p] = "dead_owner"
    /\ PassOrRetry(p, SameFile(p), "same")
    /\ UNCHANGED <<pid, path, content, used, crashes>>

UnlinkDead(p) ==
    /\ pc[p] = "same"
    /\ path' = NoInode
    /\ pc' = [pc EXCEPT ![p] = "retry"]
    /\ Close(p)
    /\ UNCHANGED <<pid, content, used, crashes>>

(***************************************************************************)
(* release()                                                               *)
(***************************************************************************)
CompareOwn(p) ==
    /\ pc[p] = "held"
    /\ IF SameFile(p)
       THEN pc' = [pc EXCEPT ![p] = "releasing"] /\ UNCHANGED <<open, flock>>
       ELSE pc' = [pc EXCEPT ![p] = "idle"] /\ Close(p)
    /\ UNCHANGED <<pid, path, content, used, crashes>>

UnlinkOwn(p) ==
    /\ pc[p] = "releasing"
    /\ path' = NoInode
    /\ pc' = [pc EXCEPT ![p] = "idle"]
    /\ Close(p)
    /\ UNCHANGED <<pid, content, used, crashes>>

(***************************************************************************)
(* The processes themselves: they start with a pid no live process has,    *)
(* and die between any two steps.  The kernel closes what they had open.   *)
(***************************************************************************)
Start(p) ==
    /\ pc[p] = "down"
    /\ \E n \in Pids :
        /\ ~Live(n)
        /\ PidReuse \/ n \notin used
        /\ pid' = [pid EXCEPT ![p] = n]
        /\ used' = used \cup {n}
    /\ pc' = [pc EXCEPT ![p] = "idle"]
    /\ UNCHANGED <<open, path, content, flock, crashes>>

Crash(p) ==
    /\ pc[p] # "down"
    /\ crashes < MaxCrashes
    /\ crashes' = crashes + 1
    /\ pc' = [pc EXCEPT ![p] = "down"]
    /\ pid' = [pid EXCEPT ![p] = NoPid]
    /\ Close(p)
    /\ UNCHANGED <<path, content, used>>

Step(p) ==
    \/ Create(p) \/ WritePid(p)
    \/ OpenExisting(p) \/ Flock(p) \/ ProbeOwner(p) \/ CompareDead(p) \/ UnlinkDead(p)
    \/ CompareOwn(p) \/ UnlinkOwn(p)

Next == \E p \in Procs :
    Step(p) \/ BeginAcquire(p) \/ WriteFails(p) \/ TimeOut(p) \/ Start(p) \/ Crash(p)

Spec == Init /\ [][Next]_vars

(***************************************************************************)
(* Fairness: a process inside acquire(), in its critical section or in     *)
(* release() goes on (git calls are bounded by timeouts), a process that   *)
(* is up tries again (the synchronization interval), and a process that is *)
(* down is started again.  Nothing makes a write fail or a process die.    *)
(***************************************************************************)
FairSpec ==
    /\ Spec
    /\ \A p \in Procs : WF_vars(Step(p)) /\ WF_vars(BeginAcquire(p)) /\ WF_vars(Start(p))

(***************************************************************************)
(* The inductive invariant behind the properties: what an owner, and what  *)
(* a reclaimer after each of its checks, may rely on.                      *)
(***************************************************************************)
Examining == {"dead_owner", "same"}

\* Live processes have different pids.
PidsDiffer ==
    \A p, q \in Procs : pid[p] = pid[q] /\ pid[p] # NoPid => p = q

\* An owner's file is the one at the path, and records its owner's pid as soon
\* as it records anything.
OwnerFile ==
    \A p \in Procs :
        /\ pc[p] \in Owning => open[p] = path
        /\ pc[p] = "created" => content[open[p]] = NoPid
        /\ pc[p] \in {"held", "releasing"} => content[open[p]] = pid[p]

\* A reclaimer that passed the flock has it until it closes the file.
ReclaimerFlock ==
    \A p \in Procs :
        pc[p] \in {"flocked"} \cup Examining => flock[open[p]] = p

\* The file a reclaimer found dead is no live owner's file, and stays so.
ExaminedIsDead ==
    \A p \in Procs : pc[p] \in Examining =>
        \A q \in Procs : pc[q] \in Owning => open[q] # open[p]

\* The path still names the inode a reclaimer is about to unlink.
UnlinkTarget == \A p \in Procs : pc[p] = "same" => open[p] = path
-----------------------------------------------------------------------------
\* At most one process is past O_EXCL and has not yet unlinked or abandoned
\* the file, whatever dies in between and however many reclaimers run at once
\* (_CaptureLock.acquire, _reclaim_dead_owner).
MutualExclusion ==
    \A p, q \in Procs : pc[p] \in Owning /\ pc[q] \in Owning => p = q

\* The invariant the proofs carry.
IInv ==
    /\ TypeOK
    /\ MutualExclusion
    /\ PidsDiffer
    /\ OwnerFile
    /\ ReclaimerFlock
    /\ ExaminedIsDead
    /\ UnlinkTarget

(***************************************************************************)
(* _CaptureLock implements LockFile: only an owner's release, or its death *)
(* followed by a reclaim, frees the lock; no reclaimer ever unlinks the    *)
(* file of a live owner, nor a file that replaced the one it examined.     *)
(***************************************************************************)
Owners == {p \in Procs : pc[p] \in Owning}
LockOf ==
    IF \E p \in Owners : open[p] # path THEN "stolen"      \* no state of LockFile
    ELSE IF Owners # {} THEN CHOOSE p \in Owners : TRUE
    ELSE IF path = NoInode THEN "free" ELSE "orphan"

Abstract == INSTANCE LockFile WITH Free <- "free", Orphan <- "orphan", lock <- LockOf

ImplementsLockFile == Abstract!LockSpec

Recorded == path # NoInode /\ content[path] # NoPid

\* Another process, not the one that wrote the file, now has the recorded pid.
PidTakenOver ==
    Recorded /\ \E q \in Procs : pid[q] = content[path] /\ pc[q] \notin Owning

\* A lock file that records a pid is freed in the end, unless its pid is given
\* to another process first.  (An empty file is kept for ever: its creator
\* died, or failed, between open and write.)
DeadOwnerReclaimed == Recorded ~> (path = NoInode \/ PidTakenOver)
=============================================================================
