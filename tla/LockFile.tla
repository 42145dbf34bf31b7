------------------------------ MODULE LockFile ------------------------------
(***************************************************************************)
(* What services._CaptureLock promises its callers, with the file system   *)
(* left out.  The lock is free, owned by one process, or an orphan: a lock *)
(* file whose owner is gone.  Only its owner or its owner's death ends an  *)
(* ownership, and an orphan is never handed over directly: it is removed,  *)
(* and whoever creates the file next owns the lock.                        *)
(***************************************************************************)
CONSTANTS
    Procs,      \* the processes that share the lock directory
    Free,       \* no lock file
    Orphan      \* a lock file nobody will release

VARIABLE lock

LockTypeOK == lock \in Procs \cup {Free, Orphan}

LockInit == lock = Free

Acquire(p) == lock = Free /\ lock' = p

Release(p) == lock = p /\ lock' = Free

\* The owner dies, or gives up without removing its file.
Abandon(p) == lock = p /\ lock' = Orphan

Reclaim == lock = Orphan /\ lock' = Free

LockNext ==
    \/ \E p \in Procs : Acquire(p) \/ Release(p) \/ Abandon(p)
    \/ Reclaim

LockSpec == LockInit /\ [][LockNext]_lock
=============================================================================
