---------------------------- MODULE CanonicalSync ----------------------------
(***************************************************************************)
(* Synchronization of `source_mode: remote` repositories, the index they   *)
(* publish and the reads that are guarded by it: services.sync_project,    *)
(* check_project_staleness_from_config and _serialized, index.index_repo,  *)
(* and the schedule of server._synchronization_lifespan.                   *)
(*                                                                         *)
(* Several processes may share a state directory (every stdio client has a *)
(* server of its own, and the command line is one more process).  What is  *)
(* on disk is shared: the managed checkout of each repository, its         *)
(* CodeGraph, the SQLite index and the capture lock (LockFile).  The       *)
(* project lock and _sync_results belong to one process and die with it.   *)
(*                                                                         *)
(* A process has a synchronization thread (pc) and a tool thread (tool),   *)
(* which the project lock keeps apart.  One step of a thread is one git,   *)
(* CodeGraph or SQLite operation: it succeeds, fails leaving things as     *)
(* they were, or fails half done.                                          *)
(***************************************************************************)
EXTENDS Integers

CONSTANTS
    Procs,          \* processes sharing the state directory
    Servers,        \* those that synchronize; the others are command line tools
    Indexers,       \* those whose clients call index_project
    Repos,          \* repositories with source_mode remote
    GraphRepos,     \* those with role work and required CodeGraph
    MaxCommit,      \* bound on pushes: a canonical branch has commits 1..MaxCommit
    MaxFaults,      \* bound on failed operations, crashes and local edits together
    KillLeavesLock, \* does a git killed on timeout leave its index.lock behind?
    Free, Orphan,   \* the capture lock is not owned (LockFile)
    Stuck           \* an Orphan nobody can reclaim

ASSUME CanonicalSyncAssumption ==
    /\ Servers \subseteq Procs /\ Indexers \subseteq Procs
    /\ Repos # {} /\ GraphRepos \subseteq Repos
    /\ MaxCommit \in Nat \ {0} /\ MaxFaults \in Nat
    /\ KillLeavesLock \in BOOLEAN
    /\ Free # Orphan /\ Stuck \notin {Free, Orphan} /\ {Free, Orphan, Stuck} \cap Procs = {}

Commits == 1..MaxCommit
NoCommit == 0
Dirty == -1                 \* file contents that are no commit's

VARIABLES
    origin,         \* the head of the canonical branch at the remote
    tracking,       \* refs/remotes/origin/<branch> of the managed checkout
    head,           \* its HEAD, NoCommit before the clone
    tree,           \* the commit its files are, or Dirty
    gitLock,        \* a stale .git/index.lock is in the way of git
    graph,          \* what the files were when CodeGraph last read them
    stamp,          \* repos.last_indexed_commit in SQLite
    docs,           \* what the indexed documents really are
    lock,           \* capture lock of the repository's canonical branch
    plock,          \* project lock of each process: who holds it
    pc,             \* where sync_project is
    todo,           \* repositories the current synchronization has yet to visit
    repo,           \* the one it is at
    prior,          \* previous_commit
    commit,         \* the commit it fetched
    backup,         \* its in-memory copy of the SQLite index
    reindex,        \* status["reindex_needed"] after the reset
    result,         \* _sync_results of each process
    tool,           \* what the tool thread is doing
    served,         \* the last answer each process gave from each repository
    faults

checkout == <<tracking, head, tree, gitLock>>
index == <<stamp, docs>>
locals == <<todo, repo, prior, commit, backup, reindex>>
tools == <<plock, tool, served>>
vars == <<origin, checkout, graph, index, lock, tools, pc, locals, result, faults>>

NoTool == [kind |-> "none"]
Failure(safe) == [fetched |-> FALSE, safe |-> safe, commit |-> NoCommit]
NotServed == [fresh |-> FALSE, commit |-> NoCommit, docs |-> NoCommit, graph |-> NoCommit]

NoBackup == [stamp |-> [r \in Repos |-> NoCommit], docs |-> [r \in Repos |-> NoCommit]]

MaybeCommit == Commits \cup {NoCommit}
Content == Commits \cup {NoCommit, Dirty}

Locations == {"down", "idle", "ended", "next", "lock", "created", "open", "fetch", "reset",
              "assess", "graph", "index", "done", "undo_reset", "undo_graph", "undo_db", "release"}
Outcomes == [fetched : BOOLEAN, safe : BOOLEAN, commit : MaybeCommit]
Backups == [stamp : [Repos -> MaybeCommit], docs : [Repos -> Content]]

DiskTypeOK ==
    /\ origin \in [Repos -> Commits]
    /\ tracking \in [Repos -> MaybeCommit]
    /\ head \in [Repos -> MaybeCommit]
    /\ tree \in [Repos -> Content]
    /\ gitLock \in [Repos -> BOOLEAN]
    /\ graph \in [Repos -> Content]
    /\ stamp \in [Repos -> MaybeCommit]
    /\ docs \in [Repos -> Content]

SyncTypeOK ==
    /\ lock \in [Repos -> Procs \cup {Free, Orphan, Stuck}]
    /\ pc \in [Procs -> Locations]
    /\ todo \in [Procs -> SUBSET Repos]
    /\ repo \in [Procs -> Repos]
    /\ prior \in [Procs -> MaybeCommit]
    /\ commit \in [Procs -> MaybeCommit]
    /\ backup \in [Procs -> Backups]
    /\ reindex \in [Procs -> BOOLEAN]
    /\ result \in [Procs -> [Repos -> Outcomes]]

ToolTypeOK ==
    /\ plock \in [Procs -> {"free", "start", "sync", "tool"}]
    /\ tool \in [Procs -> {NoTool}
                     \cup [kind : {"read"}, repo : Repos, commit : Commits, fresh : BOOLEAN]
                     \cup [kind : {"index"}, repo : Repos, commit : Commits]]
    /\ served \in [Procs -> [Repos ->
                     [fresh : BOOLEAN, commit : MaybeCommit, docs : Content, graph : Content]]]

TypeOK == DiskTypeOK /\ SyncTypeOK /\ ToolTypeOK /\ faults \in 0..MaxFaults

Init ==
    /\ origin = [r \in Repos |-> 1]
    /\ tracking = [r \in Repos |-> NoCommit]
    /\ head = [r \in Repos |-> NoCommit]
    /\ tree = [r \in Repos |-> NoCommit]
    /\ gitLock = [r \in Repos |-> FALSE]
    /\ graph = [r \in Repos |-> NoCommit]
    /\ stamp = [r \in Repos |-> NoCommit]
    /\ docs = [r \in Repos |-> NoCommit]
    /\ lock = [r \in Repos |-> Free]
    /\ plock = [p \in Procs |-> "free"]
    /\ pc = [p \in Procs |-> "down"]
    /\ todo = [p \in Procs |-> {}]
    /\ repo = [p \in Procs |-> CHOOSE r \in Repos : TRUE]
    /\ prior = [p \in Procs |-> NoCommit]
    /\ commit = [p \in Procs |-> NoCommit]
    /\ backup = [p \in Procs |-> NoBackup]
    /\ reindex = [p \in Procs |-> FALSE]
    /\ result = [p \in Procs |-> [r \in Repos |-> Failure(FALSE)]]
    /\ tool = [p \in Procs |-> NoTool]
    /\ served = [p \in Procs |-> [r \in Repos |-> NotServed]]
    /\ faults = 0

(***************************************************************************)
(* _repo_staleness_status and check_project_staleness_from_config          *)
(***************************************************************************)

\* reindex_needed is FALSE: the provenance row names HEAD and the worktree has
\* the (clean) fingerprint it was indexed with.
IndexAligned(r) == stamp[r] # NoCommit /\ stamp[r] = head[r] /\ tree[r] = head[r]

\* canonical_status_ready: no pending changes.
GraphReady(r) == r \in GraphRepos => graph[r] = tree[r]

\* retrieval_available
ReadableUnaligned(p, r) == result[p][r].safe /\ stamp[r] # NoCommit
Readable(p, r) == result[p][r].safe /\ IndexAligned(r) /\ GraphReady(r)

\* not reindex_needed: freshness_state is "current"
Fresh(p, r) ==
    /\ IndexAligned(r) /\ GraphReady(r)
    /\ result[p][r].fetched
    /\ result[p][r].commit = head[r]
    /\ head[r] = tracking[r]

(***************************************************************************)
(* Faults                                                                  *)
(***************************************************************************)
Fault == faults < MaxFaults /\ faults' = faults + 1

\* A git that updates files dies on the timeout, and may leave its lock file.
GitKilled(r) ==
    /\ tree' = [tree EXCEPT ![r] = Dirty]
    /\ \E left \in {FALSE, KillLeavesLock} : gitLock' = [gitLock EXCEPT ![r] = left]

(***************************************************************************)
(* The ways one repository's turn goes on or ends                          *)
(***************************************************************************)
Goto(p, l) ==
    /\ pc' = [pc EXCEPT ![p] = l]
    /\ UNCHANGED <<result, lock, locals>>

\* The finally clause: the backup is closed, the capture lock still to release.
Finish(p, outcome) ==
    /\ result' = [result EXCEPT ![p][repo[p]] = outcome]
    /\ pc' = [pc EXCEPT ![p] = "release"]
    /\ prior' = [prior EXCEPT ![p] = NoCommit]
    /\ commit' = [commit EXCEPT ![p] = NoCommit]
    /\ backup' = [backup EXCEPT ![p] = NoBackup]
    /\ reindex' = [reindex EXCEPT ![p] = FALSE]
    /\ UNCHANGED <<todo, repo, lock>>

\* The except clause before `advanced` is set.
GiveUp(p, owned) == Finish(p, Failure(owned /\ prior[p] # NoCommit))

\* The except clause after that.
RollBackSkipped(p) == GiveUp(p, TRUE)
RollBack(p) ==
    IF prior[p] # NoCommit THEN Goto(p, "undo_reset") ELSE Finish(p, Failure(FALSE))

\* A git operation that sets HEAD and the files, unless its lock file is in
\* the way.
CheckOut(p, c, next, orElse) ==
    IF gitLock[repo[p]]
    THEN orElse /\ UNCHANGED checkout
    ELSE /\ head' = [head EXCEPT ![repo[p]] = c]
         /\ tree' = [tree EXCEPT ![repo[p]] = c]
         /\ Goto(p, next)
         /\ UNCHANGED <<tracking, gitLock>>

\* A tool thread holds SQLite's write lock from its first DELETE to its commit.
DbFree == \A q \in Procs : tool[q].kind # "index"

(***************************************************************************)
(* Processes: a server synchronizes before it serves, and then at every    *)
(* interval in which no tool holds the project lock.                       *)
(***************************************************************************)
Start(p) ==
    /\ pc[p] = "down"
    /\ IF p \in Servers
       THEN /\ pc' = [pc EXCEPT ![p] = "next"]
            /\ todo' = [todo EXCEPT ![p] = Repos]
            /\ plock' = [plock EXCEPT ![p] = "start"]
       ELSE /\ pc' = [pc EXCEPT ![p] = "idle"]
            /\ UNCHANGED <<todo, plock>>
    /\ UNCHANGED <<origin, checkout, graph, index, lock, tool, served,
                   repo, prior, commit, backup, reindex, result, faults>>

BeginSync(p) ==
    /\ p \in Servers
    /\ pc[p] = "idle"
    /\ plock[p] = "free"
    /\ plock' = [plock EXCEPT ![p] = "sync"]
    /\ pc' = [pc EXCEPT ![p] = "next"]
    /\ todo' = [todo EXCEPT ![p] = Repos]
    /\ UNCHANGED <<origin, checkout, graph, index, lock, tool, served,
                   repo, prior, commit, backup, reindex, result, faults>>

EndSync(p) ==
    /\ pc[p] = "next"
    /\ todo[p] = {}
    /\ plock' = [plock EXCEPT ![p] = "free"]
    /\ pc' = [pc EXCEPT ![p] = "idle"]
    /\ UNCHANGED <<origin, checkout, graph, index, lock, tool, served, locals, result, faults>>

\* Memory is lost, the disk stays.  The capture lock becomes an orphan, which
\* stays for ever when its pid was not written yet, or is another process's now.
Exit(p) ==
    /\ pc' = [pc EXCEPT ![p] = "down"]
    /\ plock' = [plock EXCEPT ![p] = "free"]
    /\ tool' = [tool EXCEPT ![p] = NoTool]
    /\ \E left \in {Orphan, Stuck} :
        lock' = [r \in Repos |-> IF lock[r] = p THEN left ELSE lock[r]]
    /\ result' = [result EXCEPT ![p] = [r \in Repos |-> Failure(FALSE)]]
    /\ todo' = [todo EXCEPT ![p] = {}]
    /\ prior' = [prior EXCEPT ![p] = NoCommit]
    /\ commit' = [commit EXCEPT ![p] = NoCommit]
    /\ backup' = [backup EXCEPT ![p] = NoBackup]
    /\ reindex' = [reindex EXCEPT ![p] = FALSE]
    /\ UNCHANGED <<origin, checkout, graph, index, served, repo>>

\* Also: an exception leaves the synchronization at startup.
Crash(p) == pc[p] # "down" /\ Fault /\ Exit(p)

\* The client goes; a synchronization under way would be waited for.
Stop(p) == pc[p] \in {"idle", "ended"} /\ tool[p] = NoTool /\ Exit(p) /\ UNCHANGED faults

(***************************************************************************)
(* sync_project, one repository at a time                                  *)
(***************************************************************************)
NextRepo(p) ==
    /\ pc[p] = "next"
    /\ \E r \in todo[p] :
        /\ todo' = [todo EXCEPT ![p] = @ \ {r}]
        /\ repo' = [repo EXCEPT ![p] = r]
    /\ pc' = [pc EXCEPT ![p] = "lock"]
    /\ UNCHANGED <<origin, checkout, graph, index, lock, tools,
                   prior, commit, backup, reindex, result, faults>>

\* os.open(O_CREAT | O_EXCL)
LockTaken(p) ==
    /\ pc[p] = "lock"
    /\ lock' = [lock EXCEPT ![repo[p]] = p]
    /\ pc' = [pc EXCEPT ![p] = "created"]
    /\ UNCHANGED <<origin, checkout, graph, index, tools, locals, result, faults>>

Lock(p) ==
    /\ pc[p] = "lock"
    /\ lock[repo[p]] = Free
    /\ lock' = [lock EXCEPT ![repo[p]] = p]
    /\ pc' = [pc EXCEPT ![p] = "created"]
    /\ UNCHANGED <<origin, checkout, graph, index, tools, locals, result, faults>>

\* The pid is written, and previous_commit read from the index.
WritePid(p) ==
    /\ pc[p] = "created"
    /\ prior' = [prior EXCEPT ![p] = stamp[repo[p]]]
    /\ pc' = [pc EXCEPT ![p] = "open"]
    /\ UNCHANGED <<origin, checkout, graph, index, lock, tools,
                   todo, repo, commit, backup, reindex, result, faults>>

\* _reclaim_dead_owner, before the lock file is created again
Reclaim(p) ==
    /\ pc[p] = "lock"
    /\ lock[repo[p]] = Orphan
    /\ lock' = [lock EXCEPT ![repo[p]] = Free]
    /\ UNCHANGED <<origin, checkout, graph, index, tools, pc, locals, result, faults>>

\* acquire() returns an error: the result has no "safe".
NotAcquired(p) ==
    /\ result' = [result EXCEPT ![p][repo[p]] = Failure(FALSE)]
    /\ pc' = [pc EXCEPT ![p] = "next"]
    /\ UNCHANGED <<origin, checkout, graph, index, tools, locals>>

\* The lock file is there until the deadline: owned, or nobody's for ever.
LockTimesOut(p) ==
    /\ pc[p] = "lock"
    /\ lock[repo[p]] \in Procs \cup {Stuck}
    /\ NotAcquired(p)
    /\ UNCHANGED <<lock, faults>>

\* os.open fails; or os.write does, and the empty file it leaves is nobody's.
LockFails(p) ==
    /\ Fault
    /\ \/ pc[p] = "lock" /\ UNCHANGED lock
       \/ pc[p] = "created" /\ lock' = [lock EXCEPT ![repo[p]] = Stuck]
    /\ NotAcquired(p)

Release(p) ==
    /\ pc[p] = "release"
    /\ lock' = [lock EXCEPT ![repo[p]] = Free]
    /\ pc' = [pc EXCEPT ![p] = "next"]
    /\ UNCHANGED <<origin, checkout, graph, index, tools, locals, result, faults>>

\* What is outside the try clause raises: mkdir before the lock file, opening
\* the index after it, unlink on release, the closing staleness check.  The
\* exception leaves sync_project and ends periodic(): this server synchronizes
\* no more, and a lock file it has made stays while it lives.
Escapes(p) ==
    /\ plock[p] = "sync"
    /\ pc[p] \in {"lock", "created", "release"} \/ (pc[p] = "next" /\ todo[p] = {})
    /\ Fault
    /\ pc' = [pc EXCEPT ![p] = "ended"]
    /\ plock' = [plock EXCEPT ![p] = "free"]
    /\ todo' = [todo EXCEPT ![p] = {}]
    /\ UNCHANGED <<origin, checkout, graph, index, lock, tool, served,
                   repo, prior, commit, backup, reindex, result>>

\* The ownership checks; a missing checkout is cloned beside its place and
\* renamed into it.
Open(p) ==
    /\ pc[p] = "open"
    /\ LET r == repo[p] IN
        IF head[r] = NoCommit
        THEN /\ head' = [head EXCEPT ![r] = origin[r]]
             /\ tree' = [tree EXCEPT ![r] = origin[r]]
             /\ tracking' = [tracking EXCEPT ![r] = origin[r]]
             /\ UNCHANGED gitLock
        ELSE UNCHANGED checkout
    /\ Goto(p, "fetch")
    /\ UNCHANGED <<origin, graph, index, tools, faults>>

OpenFails(p) ==
    /\ pc[p] = "open"
    /\ Fault
    /\ GiveUp(p, FALSE)
    /\ UNCHANGED <<origin, checkout, graph, index, tools>>

\* fetch, rev-parse and the backup of the whole database.
Fetch(p) ==
    /\ pc[p] = "fetch"
    /\ tracking' = [tracking EXCEPT ![repo[p]] = origin[repo[p]]]
    /\ commit' = [commit EXCEPT ![p] = origin[repo[p]]]
    /\ backup' = IF prior[p] = NoCommit THEN backup
                 ELSE [backup EXCEPT ![p] = [stamp |-> stamp, docs |-> docs]]
    /\ pc' = [pc EXCEPT ![p] = "reset"]
    /\ UNCHANGED <<origin, head, tree, gitLock, graph, index, lock, tools,
                   todo, repo, prior, reindex, result, faults>>

\* A fetch that is reported failed may have moved the tracking branch.
FetchFails(p) ==
    /\ pc[p] = "fetch"
    /\ Fault
    /\ \E c \in {tracking[repo[p]], origin[repo[p]]} :
        tracking' = [tracking EXCEPT ![repo[p]] = c]
    /\ GiveUp(p, TRUE)
    /\ UNCHANGED <<origin, head, tree, gitLock, graph, index, tools>>

\* reset --hard, checkout -B, branch --set-upstream-to, clean
Reset(p) ==
    /\ pc[p] = "reset"
    /\ CheckOut(p, commit[p], "assess", RollBack(p))
    /\ UNCHANGED <<origin, graph, index, tools, faults>>

ResetFails(p) ==
    /\ pc[p] = "reset"
    /\ ~gitLock[repo[p]]
    /\ Fault
    /\ \/ GitKilled(repo[p]) /\ UNCHANGED head
       \/ \E done \in BOOLEAN :     \* the reset went through, the checkout did not
            /\ head' = [head EXCEPT ![repo[p]] = IF done THEN commit[p] ELSE @]
            /\ tree' = [tree EXCEPT ![repo[p]] = IF done THEN commit[p] ELSE @]
            /\ UNCHANGED gitLock
    /\ RollBack(p)
    /\ UNCHANGED <<origin, tracking, graph, index, tools>>

RefreshWithIndexOnly(r, stale) == r \in GraphRepos /\ stale
RefreshNeeded(r, stale) == r \in GraphRepos /\ (stale \/ ~GraphReady(r))

\* What is left to do: refresh CodeGraph, reindex, both or nothing.
Assess(p) ==
    /\ pc[p] = "assess"
    /\ LET r == repo[p]
           stale == ~IndexAligned(r)
       IN /\ reindex' = [reindex EXCEPT ![p] = stale]
          /\ pc' = [pc EXCEPT ![p] =
                IF RefreshNeeded(r, stale) THEN "graph" ELSE IF stale THEN "index" ELSE "done"]
    /\ UNCHANGED <<origin, checkout, graph, index, lock, tools,
                   todo, repo, prior, commit, backup, result, faults>>

\* _refresh_graph
RefreshGraph(p) ==
    /\ pc[p] = "graph"
    /\ graph' = [graph EXCEPT ![repo[p]] = tree[repo[p]]]
    /\ Goto(p, IF reindex[p] THEN "index" ELSE "done")
    /\ UNCHANGED <<origin, checkout, index, tools, faults>>

GraphFails(p) ==
    /\ pc[p] = "graph"
    /\ Fault
    /\ \E g \in {graph[repo[p]], tree[repo[p]]} : graph' = [graph EXCEPT ![repo[p]] = g]
    /\ RollBack(p)
    /\ UNCHANGED <<origin, checkout, index, tools>>

\* index_repo: one SQLite transaction, refused when the worktree is not clean.
Index(p) ==
    /\ pc[p] = "index"
    /\ DbFree
    /\ LET r == repo[p] IN
        IF tree[r] = head[r]
        THEN /\ stamp' = [stamp EXCEPT ![r] = head[r]]
             /\ docs' = [docs EXCEPT ![r] = tree[r]]
             /\ Goto(p, "done")
        ELSE RollBack(p) /\ UNCHANGED index
    /\ UNCHANGED <<origin, checkout, graph, tools, faults>>

\* The transaction fails; without a fault, because the database stays locked.
IndexFails(p) ==
    /\ pc[p] = "index"
    /\ \/ DbFree /\ Fault
       \/ ~DbFree /\ UNCHANGED faults
    /\ RollBack(p)
    /\ UNCHANGED <<origin, checkout, graph, index, tools>>

Done(p) ==
    /\ pc[p] = "done"
    /\ Finish(p, [fetched |-> TRUE, safe |-> TRUE, commit |-> commit[p]])
    /\ UNCHANGED <<origin, checkout, graph, index, tools, faults>>

(***************************************************************************)
(* The except clause: checkout, CodeGraph and index back to `prior`.       *)
(***************************************************************************)
UndoReset(p) ==
    /\ pc[p] = "undo_reset"
    /\ CheckOut(p, prior[p], "undo_graph", Finish(p, Failure(FALSE)))
    /\ UNCHANGED <<origin, graph, index, tools, faults>>

UndoResetFails(p) ==
    /\ pc[p] = "undo_reset"
    /\ ~gitLock[repo[p]]
    /\ Fault
    /\ \/ GitKilled(repo[p]) /\ UNCHANGED head
       \/ UNCHANGED <<head, tree, gitLock>>
    /\ Finish(p, Failure(FALSE))
    /\ UNCHANGED <<origin, tracking, graph, index, tools>>

GraphNotRestored(p) ==
    /\ pc[p] = "undo_graph"
    /\ Goto(p, "undo_db")
    /\ UNCHANGED <<origin, checkout, graph, index, tools, faults>>

UndoGraph(p) ==
    /\ pc[p] = "undo_graph"
    /\ graph' = IF repo[p] \in GraphRepos THEN [graph EXCEPT ![repo[p]] = tree[repo[p]]] ELSE graph
    /\ Goto(p, "undo_db")
    /\ UNCHANGED <<origin, checkout, index, tools, faults>>

UndoGraphFails(p) ==
    /\ pc[p] = "undo_graph"
    /\ repo[p] \in GraphRepos
    /\ Fault
    /\ \E g \in {graph[repo[p]], tree[repo[p]]} : graph' = [graph EXCEPT ![repo[p]] = g]
    /\ Finish(p, Failure(FALSE))
    /\ UNCHANGED <<origin, checkout, index, tools>>

\* backup.backup(database) puts every repository's rows back, and waits for
\* the write lock.
UndoDb(p) ==
    /\ pc[p] = "undo_db"
    /\ DbFree
    /\ stamp' = backup[p].stamp
    /\ docs' = backup[p].docs
    /\ Finish(p, Failure(TRUE))
    /\ UNCHANGED <<origin, checkout, graph, tools, faults>>

UndoDbFails(p) ==
    /\ pc[p] = "undo_db"
    /\ Fault
    /\ Finish(p, Failure(FALSE))
    /\ UNCHANGED <<origin, checkout, graph, index, tools>>

(***************************************************************************)
(* Tools, one at a time under the project lock (_serialized).  A guarded   *)
(* read first checks staleness; it answers SYNC_UNAVAILABLE, and changes   *)
(* nothing, unless the repository is readable.                             *)
(***************************************************************************)
LockSkipped(p) == pc[p] # "down"
ProjectLockFree(p) == pc[p] # "down" /\ plock[p] = "free"

BeginRead(p, r) ==
    /\ ProjectLockFree(p) /\ tool[p] = NoTool
    /\ Readable(p, r)
    /\ plock' = [plock EXCEPT ![p] = "tool"]
    /\ tool' = [tool EXCEPT ![p] =
            [kind |-> "read", repo |-> r, commit |-> stamp[r], fresh |-> Fresh(p, r)]]
    /\ UNCHANGED <<origin, checkout, graph, index, lock, served, pc, locals, result, faults>>

EndRead(p) ==
    /\ tool[p].kind = "read"
    /\ LET r == tool[p].repo IN
        served' = [served EXCEPT ![p][r] =
            [fresh |-> tool[p].fresh, commit |-> tool[p].commit,
             docs |-> docs[r], graph |-> graph[r]]]
    /\ tool' = [tool EXCEPT ![p] = NoTool]
    /\ plock' = [plock EXCEPT ![p] = "free"]
    /\ UNCHANGED <<origin, checkout, graph, index, lock, pc, locals, result, faults>>

\* The index_project tool and command: HEAD and the fingerprint are read
\* first, the files afterwards.  It does not take the capture lock.
IndexUncloned(p, r) ==
    /\ p \in Indexers
    /\ ProjectLockFree(p) /\ tool[p] = NoTool
    /\ DbFree
    /\ tree[r] = head[r]
    /\ plock' = [plock EXCEPT ![p] = "tool"]
    /\ tool' = [tool EXCEPT ![p] = [kind |-> "index", repo |-> r, commit |-> head[r]]]
    /\ UNCHANGED <<origin, checkout, graph, index, lock, served, pc, locals, result, faults>>

BeginIndex(p, r) ==
    /\ p \in Indexers
    /\ ProjectLockFree(p) /\ tool[p] = NoTool
    /\ DbFree
    /\ head[r] # NoCommit /\ tree[r] = head[r]
    /\ plock' = [plock EXCEPT ![p] = "tool"]
    /\ tool' = [tool EXCEPT ![p] = [kind |-> "index", repo |-> r, commit |-> head[r]]]
    /\ UNCHANGED <<origin, checkout, graph, index, lock, served, pc, locals, result, faults>>

EndIndex(p) ==
    /\ tool[p].kind = "index"
    /\ stamp' = [stamp EXCEPT ![tool[p].repo] = tool[p].commit]
    /\ docs' = [docs EXCEPT ![tool[p].repo] = tree[tool[p].repo]]
    /\ tool' = [tool EXCEPT ![p] = NoTool]
    /\ plock' = [plock EXCEPT ![p] = "free"]
    /\ UNCHANGED <<origin, checkout, graph, lock, served, pc, locals, result, faults>>

(***************************************************************************)
(* Around the program: pushes to the canonical branch, edits in a managed  *)
(* checkout.                                                               *)
(***************************************************************************)
Push(r) ==
    /\ origin[r] < MaxCommit
    /\ origin' = [origin EXCEPT ![r] = @ + 1]
    /\ UNCHANGED <<checkout, graph, index, lock, tools, pc, locals, result, faults>>

\* Not while index_repo is between reading the worktree status and the files:
\* nothing there would notice (the command line race below shows the effect).
LocalEdit(r) ==
    /\ head[r] # NoCommit
    /\ DbFree
    /\ Fault
    /\ tree' = [tree EXCEPT ![r] = Dirty]
    /\ UNCHANGED <<origin, tracking, head, gitLock, graph, index, lock, tools, pc, locals, result>>

\* The synchronization thread, when nothing fails that does not have to.
SyncStep(p) ==
    \/ NextRepo(p) \/ Lock(p) \/ WritePid(p) \/ Reclaim(p) \/ LockTimesOut(p) \/ Open(p)
    \/ Fetch(p) \/ Reset(p) \/ Assess(p) \/ RefreshGraph(p) \/ Index(p) \/ Done(p)
    \/ UndoReset(p) \/ UndoGraph(p) \/ UndoDb(p) \/ Release(p) \/ EndSync(p)

SyncFails(p) ==
    \/ LockFails(p) \/ OpenFails(p) \/ FetchFails(p) \/ ResetFails(p) \/ GraphFails(p)
    \/ IndexFails(p) \/ UndoResetFails(p) \/ UndoGraphFails(p) \/ UndoDbFails(p)

EndTool(p) == EndRead(p) \/ EndIndex(p)

Next ==
    \/ \E p \in Procs :
        \/ Start(p) \/ BeginSync(p) \/ SyncStep(p) \/ SyncFails(p) \/ EndTool(p)
        \/ Escapes(p) \/ Crash(p) \/ Stop(p)
        \/ \E r \in Repos : BeginRead(p, r) \/ BeginIndex(p, r)
    \/ \E r \in Repos : Push(r) \/ LocalEdit(r)

Spec == Init /\ [][Next]_vars

(***************************************************************************)
(* Fairness: git, CodeGraph and SQLite calls return (they have timeouts),  *)
(* so both threads go on; a server that is down is started again.  An      *)
(* interval that finds the project lock taken is skipped, so that          *)
(* synchronization begins again and again needs strong fairness: reads     *)
(* leave the lock free at some interval, over and over.                    *)
(***************************************************************************)
FairSpec ==
    /\ Spec
    /\ \A p \in Servers : WF_vars(Start(p)) /\ SF_vars(BeginSync(p)) /\ WF_vars(SyncStep(p))
    /\ \A p \in Procs : WF_vars(EndTool(p))
-----------------------------------------------------------------------------
\* An answer is what its provenance says: documents and CodeGraph of the commit
\* that the staleness check reported before the read, although the check, the
\* search and the synchronizations around them are separate steps
\* (_serialized, _decorate_retrieval_freshness).
MatchesProvenance(r, answer) ==
    answer.docs = answer.commit /\ (r \in GraphRepos => answer.graph = answer.commit)

AnswersMatchProvenance ==
    \A p \in Procs, r \in Repos : MatchesProvenance(r, served[p][r])

\* The same of the answers that say freshness_state "current" only: what is
\* stale or partly indexed is never reported as current.
CurrentAnswersAreCurrent ==
    \A p \in Procs, r \in Repos : served[p][r].fresh => MatchesProvenance(r, served[p][r])

\* A failed refresh that leaves the repository readable has put checkout,
\* CodeGraph and index back to the commit indexed before it, unless it failed
\* before it touched them (sync_project's except clause; local edits made in
\* the meantime are not its doing, and keep the repository unreadable).
FailedRefreshRestores ==
    [][\A p \in Procs :
        LET r == repo[p] IN
        pc[p] # "release" /\ pc'[p] = "release" /\ result'[p][r] = Failure(TRUE) =>
            /\ stamp'[r] = prior[p] /\ docs'[r] = prior[p]
            /\ pc[p] = "fetch" \/ head'[r] = prior[p]
            /\ pc[p] = "fetch" \/ tree'[r] \in {prior[p], Dirty}
            /\ pc[p] = "fetch" \/ tree'[r] = Dirty \/ GraphReady(r)'
      ]_vars

\* Readers of one process never see a repository go back, through restarts,
\* interrupted synchronizations and restored backups of either server (with one
\* repository: a restored backup puts back the rows of all of them, which can
\* undo what another server indexed in the meantime).
ServedNeverRegresses ==
    [][\A p \in Procs, r \in Repos : served'[p][r].commit >= served[p][r].commit]_served

\* Whoever holds the capture lock got it by LockFile's rules.
Owner(r) == IF lock[r] = Stuck THEN Orphan ELSE lock[r]
CaptureLockOf(r) == INSTANCE LockFile WITH lock <- Owner(r)
CaptureLockRules ==
    /\ \A r \in Repos : CaptureLockOf(r)!LockInit
    /\ [][\A r \in Repos : [CaptureLockOf(r)!LockNext]_(Owner(r))]_lock

\* One server implements CanonicalSource for each repository.
Source(r) == INSTANCE CanonicalSource
    WITH origin <- origin[r], published <- docs[r],
         reading <- \E p \in Procs : tool[p].kind = "read" /\ tool[p].repo = r
ImplementsCanonicalSource ==
    /\ \A r \in Repos : Source(r)!SourceInit
    /\ [][\A r \in Repos : [Source(r)!SourceNext]_(Source(r)!sourceVars)]_vars

\* Once nothing fails any more, each server whose schedule goes on is current
\* again and again, at the heads of the canonical branches, whatever failed,
\* crashed or was edited before (sync_project, _synchronization_lifespan).  What
\* later intervals do not repair: a repository whose lock file nobody can
\* reclaim, one whose checkout a killed git left locked, and, until its restart,
\* a server whose schedule an exception ended.  It is assumed that intervals
\* find the project lock free over and over (FairSpec).
BeyondRepair(r) == lock[r] = Stuck \/ gitLock[r]
Synchronized(p, r) == Readable(p, r) /\ Fresh(p, r) /\ docs[r] = origin[r]
Recovers == \A p \in Servers : []<>(
    \/ pc[p] = "ended"
    \/ pc[p] = "idle" /\ \A r \in Repos : BeyondRepair(r) \/ Synchronized(p, r))
-----------------------------------------------------------------------------
(***************************************************************************)
(* Why the safety properties hold: the project lock keeps the threads of a *)
(* process apart, the capture lock the servers.  Two set-ups are sound: a  *)
(* state directory with one process that writes, or servers that share one *)
(* repository and whose clients do not call index_project.                 *)
(***************************************************************************)
OneServer == \A p, q \in Servers \cup Indexers : p = q
Sound == OneServer \/ (Indexers = {} /\ \A r, s \in Repos : r = s)

Undoing == {"undo_reset", "undo_graph", "undo_db"}
Refreshing == {"reset", "assess", "graph", "index"} \cup Undoing
Inside == {"created", "open", "fetch", "done", "release"} \cup Refreshing

\* Synchronization and tools of a process exclude each other; only servers
\* synchronize, and only what synchronized answers.
ProjectLockHeld(p) ==
    /\ plock[p] \in {"start", "sync"} <=> pc[p] \notin {"down", "idle", "ended"}
    /\ plock[p] = "tool" <=> tool[p] # NoTool
    /\ pc[p] = "down" => plock[p] = "free"
    /\ p \notin Servers => pc[p] \in {"down", "idle"} /\ \A r \in Repos : ~result[p][r].safe
    /\ tool[p].kind = "read" => p \in Servers
    /\ tool[p].kind = "index" => p \in Indexers

\* The capture lock is a process's own exactly while it works on the repository,
\* or when an exception made it leave the lock behind.
CaptureLockHeld(p) ==
    /\ pc[p] \in Inside => lock[repo[p]] = p
    /\ \A r \in Repos : lock[r] = p => pc[p] = "ended" \/ (pc[p] \in Inside /\ repo[p] = r)

\* What a synchronization may put back: the index is as it was found, and the
\* copy of it, when there was an index, is of all that it holds now.
NothingStoredYet(p) ==
    /\ pc[p] \in {"open", "fetch"} \cup Refreshing => stamp[repo[p]] = prior[p]
    /\ pc[p] \in Undoing => prior[p] # NoCommit
    /\ pc[p] \in Refreshing /\ prior[p] # NoCommit =>
        backup[p] = [stamp |-> stamp, docs |-> docs]

\* The commit to go to is not behind the index.
FetchedIsAhead(p) ==
    pc[p] = "reset" => stamp[repo[p]] <= commit[p] /\ commit[p] <= origin[repo[p]]

\* How far the except clause has come.
UndoneSoFar(p) ==
    LET r == repo[p] IN
    /\ pc[p] \in {"undo_graph", "undo_db"} => head[r] = prior[p] /\ tree[r] \in {prior[p], Dirty}
    /\ pc[p] = "undo_db" => tree[r] = Dirty \/ GraphReady(r)

\* The worktree stays as index_project found it.
IndexingIsClean(p) == tool[p].kind = "index" =>
    tree[tool[p].repo] = tool[p].commit /\ head[tool[p].repo] = tool[p].commit

\* A read that was admitted finds what was checked, if one process writes.
ReadIsAsChecked(p) == tool[p].kind = "read" =>
    /\ served[p][tool[p].repo].commit <= tool[p].commit
    /\ tool[p].commit <= stamp[tool[p].repo]
    /\ OneServer => /\ docs[tool[p].repo] = tool[p].commit
                    /\ tool[p].repo \in GraphRepos => graph[tool[p].repo] = tool[p].commit

\* The index is at one commit, which the checkout has not gone back from.
IndexIsBehind(r) == docs[r] = stamp[r] /\ stamp[r] <= head[r] /\ head[r] <= origin[r]

\* The invariant of synchronization, reads and index_project, through failures
\* and crashes at any step (sync_project, _serialized).
IInv ==
    /\ TypeOK
    /\ \A p \in Procs :
        /\ ProjectLockHeld(p) /\ CaptureLockHeld(p)
        /\ NothingStoredYet(p) /\ FetchedIsAhead(p) /\ UndoneSoFar(p)
        /\ IndexingIsClean(p) /\ ReadIsAsChecked(p)
        /\ \A r \in Repos : served[p][r].commit <= stamp[r]
    /\ \A r \in Repos : IndexIsBehind(r)
    /\ OneServer => AnswersMatchProvenance
=============================================================================
