\* Two servers on one state directory and one work repository.
CONSTANTS
    Procs = {s1, s2}
    Servers = {s1, s2}
    Indexers = {}
    Repos = {work}
    GraphRepos = {work}
    MaxCommit = 2
    MaxFaults = 2
    KillLeavesLock = TRUE
    Free = Free
    Orphan = Orphan
    Stuck = Stuck
SPECIFICATION Spec
INVARIANT IInv
PROPERTY FailedRefreshRestores
PROPERTY ServedNeverRegresses
PROPERTY CaptureLockRules
SYMMETRY Symmetry
