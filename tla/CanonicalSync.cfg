\* One server, an ops and a work repository.
CONSTANTS
    Procs = {server}
    Servers = {server}
    Indexers = {server}
    Repos = {ops, work}
    GraphRepos = {work}
    MaxCommit = 2
    MaxFaults = 2
    KillLeavesLock = TRUE
    Free = Free
    Orphan = Orphan
    Stuck = Stuck
SPECIFICATION FairSpec
INVARIANT TypeOK
INVARIANT AnswersMatchProvenance
INVARIANT IInv
PROPERTY FailedRefreshRestores
PROPERTY ImplementsCanonicalSource
PROPERTY Recovers
