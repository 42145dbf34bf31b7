\* Two processes and no spare pid: a pid is reused as soon as its process dies.
\* Two crashes: one owner, then one reclaimer.
CONSTANTS
    Procs = {p1, p2}
    Pids = {1, 2, 3}
    Inodes = {i1, i2, i3}
    NoPid = 0
    NoInode = NoInode
    NoProc = NoProc
    PidReuse = TRUE
    MaxCrashes = 2
SPECIFICATION FairSpec
INVARIANT TypeOK
INVARIANT MutualExclusion
INVARIANT IInv
PROPERTY ImplementsLockFile
PROPERTY DeadOwnerReclaimed
