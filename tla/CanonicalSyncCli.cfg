\* A server and the command line's index-project beside it.
CONSTANTS
    Procs = {server, cli}
    Servers = {server}
    Indexers = {cli}
    Repos = {work}
    GraphRepos = {work}
    MaxCommit = 2
    MaxFaults = 1
    KillLeavesLock = FALSE
    Free = Free
    Orphan = Orphan
    Stuck = Stuck
SPECIFICATION Spec
INVARIANT CurrentAnswersAreCurrent
