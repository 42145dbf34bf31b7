# Verification of Project Knowledge MCP

TLA+ specifications of the server's own logic, the TLC configurations that check
them on small instances, and TLAPS proofs of what matters most for every size.
Sources are in `src/src/project_knowledge_mcp/`; `PROJECT.json` maps each
definition to the lines it stands for.

```
tlc -config CaptureLock.cfg MCCaptureLock        # any run: see "Runs"
tlapm CaptureLockProofs.tla
```

## The system

Project Knowledge MCP indexes the Markdown and code of a project's repositories
and answers questions about them, saying how fresh each answer is. It also
writes: low-authority notes and drafts, and branches with proposed changes.

| component | state it keeps | operations | with whom it interacts |
|---|---|---|---|
| capture lock (`_CaptureLock`) | a lock file per repository, remote and branch; its inode's content (a pid) and flock | `acquire`, `_reclaim_dead_owner`, `release` | synchronization, capture publishing, remote authority proposals, of every process on the state directory |
| canonical synchronization (`sync_project`, `_synchronization_lifespan`) | managed checkouts, tracking branches, CodeGraph, `_sync_results`, project lock | one round over the remote repositories, at startup and every interval; rollback of a failed refresh | capture lock; SQLite index; the tools, through the project lock |
| guarded reads (`_serialized`, `check_project_staleness`) | none | check, then search, under the project lock | everything synchronization writes |
| local index (`index_repo`, `index_document`, `_repo_staleness_status`) | SQLite: one row per repository (commit, worktree fingerprint, mode), the documents | reindex a repository, index one written document, say whether a reindex is needed | the worktree, which its users edit at any time |
| capture publishing (`_write_and_push_capture`) | temporary worktree, remote branch, active workspace | add note, create draft; retry once after a rejected push; fast-forward the workspace | capture lock, remote, local index, synchronization |
| authority proposals (`propose_authority_change`) | branches, the workspace or a temporary worktree | prepare a branch, push, open a pull request; cleanup on failure | capture lock (remote repositories), remote, `gh` |
| project-state packets, session brief | none | sections with retrieval, match and freshness states; packet status | the index, staleness, code search |
| parsing and ranking (`index.py`) | none | frontmatter to authority and status, ranking of results | the index |
| code search (`code_context.py`) | none | CodeGraph or text fallback, merged per repository | CodeGraph, the checkouts |
| configuration (`config.py`) | none | validation | all |
| setup, wizard, local UI, service manager | files, a child process | write artifacts, start and stop the service | the file system |
| CodeGraph installer | CodeGraph's index directories | install and initialize | npm, CodeGraph |
| server and command line | the schedule | tools, commands | all |

What is hard about it: several processes share one state directory (every stdio
client starts a server, and the command line is one more process) while the
project lock is process-local; external commands fail, time out half done, or
succeed and are reported failed; processes die between any two steps; the user's
editor and git change the worktree while it is being read; an answer must not
claim to be fresher or more complete than it is. `PROJECT.json` lists each of
these hazards at its line.

What makes each component correct:

* capture lock: one owner at a time; no live owner's file is removed; a dead
  owner's file is, in the end;
* synchronization: a failed refresh that leaves a repository readable has put
  back the checkout, CodeGraph and index of before; what readers see only moves
  forward; once failures stop the repository becomes current again, unless a
  failure has left what no later interval repairs;
* guarded reads: the documents and symbols of an answer are of the commit that
  its provenance names;
* local index: when no reindex is reported as needed, the index holds the source,
  if HEAD did not move while that was found out;
* capture publishing: a note reported published is on the branch and stays, none
  appears twice, none overwrites another; the user's workspace loses nothing;
* authority proposals: the canonical branch never moves; failure leaves no trace;
* packets: an unavailable, stale or partial search never reads as "no match"; a
  document is in the section its authority and status say, and in no other;
* parsing and ranking: whatever frontmatter says, the result is something the
  searches know; authority comes before relevance;
* configuration: one writable ops repository; managed clones apart from local
  repositories; what setup generates is accepted;
* setup page: one service process; a configuration names only what was
  installed; one token; nothing of the user's overwritten unasked.

## Modules

| module | models | stands on |
|---|---|---|
| `LockFile` | what the capture lock promises: free, owned, or an orphan | |
| `CaptureLock` | `_CaptureLock`, one system call per step | implements `LockFile` |
| `CaptureLockProofs` | TLAPS proofs about `CaptureLock` | `CaptureLock`, `TLAPS` |
| `CanonicalSource` | what readers of a remote repository may rely on | |
| `CanonicalSync` | `sync_project`, guarded reads, `index_project`, the schedule | uses the lock by the rules of `LockFile`; implements `CanonicalSource` |
| `CanonicalSyncProofs` | TLAPS proofs about `CanonicalSync` | `CanonicalSync`, `TLAPS` |
| `WorkspaceIndex` | `index_repo`, `index_document` and staleness of local repositories | |
| `WorkspaceIndexProofs` | TLAPS proofs about `WorkspaceIndex` | `WorkspaceIndex`, `TLAPS` |
| `NoteLog` | what a capture branch promises: a log that only grows | |
| `CapturePublish` | `add_project_note` and `create_draft_artifact`: `_write_and_push_capture`, `_write_local_capture` | holds the lock by the rules of `LockFile`, synchronizes as `CanonicalSync` does; implements `NoteLog` |
| `CapturePublishProofs` | TLAPS proofs about `CapturePublish` | `CapturePublish`, `TLAPS` |
| `ReviewBoard` | what proposals promise to reviewers: the canonical branch is theirs, a published proposal is only added to | |
| `AuthorityProposal` | `propose_authority_change` in a workspace and in a shared clone | holds the lock by the rules of `LockFile`; implements `ReviewBoard` |
| `AuthorityProposalProofs` | TLAPS proofs about `AuthorityProposal` | `AuthorityProposal`, `TLAPS` |
| `Documents` | types, statuses and authorities of documents, their rank, the sections of a packet (operators only) | |
| `ProjectState` | `get_project_state`, `generate_session_brief`, the searches and the staleness check behind them | `Documents` |
| `ProjectStateProofs` | TLAPS proofs about `Documents` and `ProjectState` | `ProjectState`, `TLAPS` |
| `ProjectConfig` | what configurations are accepted, and the one that setup generates (operators only) | |
| `ProjectConfigProofs` | TLAPS proofs about `ProjectConfig` | `ProjectConfig`, `TLAPS` |
| `SetupPage` | the requests of the local setup page: write, service, bridge; the CodeGraph installer | `ProjectConfig` |
| `SetupPageProofs` | TLAPS proofs about `SetupPage` | `SetupPage`, `TLAPS` |
| `MC*` | the same, with the sets of values the runs need | |

### CaptureLock

`pc` is the place in `acquire()`, `_reclaim_dead_owner()` or `release()`; `path`,
`content`, `flock` and `open` are what the kernel knows. `Create` is
`os.open(O_CREAT|O_EXCL)`, `WritePid` the write after it, `OpenExisting` to
`UnlinkDead` the five calls of the reclaimer, `CompareOwn` and `UnlinkOwn` those
of `release()`. `Crash` may come between any two; the kernel then closes the
process's files and drops its flock. Inode numbers are reused as soon as neither
the path nor an open file refers to them, which is what makes `samestat` a check
worth modelling, and so are pids. Two abstractions: reading the pid and probing
it are one step (what is written in an inode never changes afterwards), and so
are the failure of O_EXCL and the opening of the file that is there (if it has
gone in between, the code goes round its loop, a step back to `retry` or `create`).

`MutualExclusion` and `ImplementsLockFile` are the safety of the lock.
`ImplementsLockFile` says more: no step unlinks the file of a live owner or a
file that replaced the one that was examined; the refinement mapping `LockOf`
takes such a state to a value no state of `LockFile` has. `DeadOwnerReclaimed` is
its liveness: a file that records a pid goes away, or its pid is taken by another process.

### CanonicalSync

Per repository: the head of the canonical branch (`origin`), the managed
checkout (`tracking`, `head`, `tree`, `gitLock`), `graph` (the files CodeGraph
read last), and the row and documents in SQLite (`stamp`, `docs`). The contents
of a commit are its number, and `Dirty` is contents of no commit. Per process:
the project lock, the place in `sync_project` (`pc` and its locals), what the
tool thread does, and `_sync_results`, lost in a crash.

Each step of `sync_project` is one action with one that fails: `Fetch` and
`FetchFails`, `Reset` and `ResetFails`, and so on. A failure may leave its
operation undone, done, or, where files are written, half done (`Dirty`). The
except clause is `RollBack` and the three `Undo*` actions with their failures, the finally
clause `Finish` and `Release`. `RollBack` is taken only when there was an indexed commit; a
first synchronization that fails just leaves the repository unreadable. `UndoDb`
restores the whole database, as the code does. A guarded read is two steps,
`BeginRead` (the staleness check) and `EndRead` (the search); the project lock
is what keeps a synchronization out from between them.
The check itself is one step here, unlike in `WorkspaceIndex`: only synchronization moves the HEAD
of a managed checkout, and the project lock keeps that of the same server out. That of another
server may come between the check's reads of HEAD and status; the properties of `sync_two`
are about commits, which the check takes from the index's metadata, and not about contents.

`acquire()` is `Lock` (O_EXCL) and `WritePid`, with `Reclaim`, `LockTimesOut` and `LockFails`
beside them, seen from its caller: what `CaptureLock` has call by call is here one of the lock
values `Free`, a process, `Orphan`, and `Stuck`, an orphan nobody can reclaim, because the pid
was not written (a crash or a failed write after O_EXCL) or is another process's by now.
`Escapes` is an exception from what is outside the try clause: mkdir before the lock file
(services 2718), opening the index after it (204), the unlink of `release()`, the closing
staleness check (312). It leaves `sync_project` and ends `periodic()` for good: the server goes
on serving at `ended`, with its lock file left behind if it had made one, and synchronizes
again only after a restart (`Crash`, or `Stop` when its client goes). At startup the same
exception ends the server, which is a `Crash`.

Merged or left out: fetch, `rev-parse` and the database backup are one step;
`reset`, `checkout -B`, `--set-upstream-to` and `clean` are one step whose failure may come after
the first; ownership markers and path checks are the failure of `Open`; pushes are forward
only; a local edit does not fall between
`index_project`'s reading of the status and of the files.

### WorkspaceIndex

One local repository: `trees` (the contents of each commit), `head`, `files`,
and the index: `row` and `docs`. `Status` is `git status` with the contents of
the files it lists, which is what `worktree_fingerprint` digests; the digest is
taken to be injective, except that it does not see the contents of files whose
names git quotes. `index_repo` is `ReadHead`, `ReadStatus`, one `ReadFile` per
document, `StoreRepo`, with the user's `Edit`, `Commit`, `Pull` in between;
`index_document` reads the note first, then HEAD and status, then stores.
`_repo_staleness_status` is `BeginCheck`, `ReadHead` (or `MissHead`, when git fails: a warning)
and `EndCheck`, with the user's actions in between, also in configurations without `editing`;
the questions about branch and remote between the two reads change nothing. `ReindexNeeded` is
what it answers at its second read, the status. The digests of the files are taken with the status.

`CurrentMeansIndexed` excepts one thing (`HeadWasKept`): HEAD that moves between the two reads.
A commit or pull there leaves a clean status, as at indexing, and the HEAD that was compared is
the one before it, so that the answer is "current" while the index lacks the change. The next check sees it.
A check that could not read HEAD is excepted too; it has said so in a warning.

Every edit makes contents never seen before, so that an index can match only by
being right. In configurations with `editing` the user edits and commits while
the tools run; deletion, `git restore` and `checkout` of another commit, which
bring old contents back, happen between tools and during checks in the others. Where uncommitted
changes are excluded nothing changes during indexing: the code checks the
worktree first and reads the files afterwards, and has nothing to catch an edit
in between with (a hazard without a property).

### CapturePublish

The capture branch at its remote is the sequence of its commits, each of them
one file; a commit is the length of the branch with it. `tracking` is the
checkout's remote-tracking branch; `at`, `current` and `own` are the checkout:
the commit each of its two branches is at, the branch checked out, and the
uncommitted files, the user's and those written in place, with their contents. `indexed` and `stamp` are the index. Each server is at
one call of the tool; `pc` is its place in it, `base` the commit of its temporary
worktree, `commit` what it pushed, `reply` its last answer.

`Request` is the tool up to the check that the target is free in the checkout;
`Acquire` to `Cleanup` follow `_write_and_push_capture_once`: fetch, worktree,
the second check of the target and the commit (`Write`), the push, which the
remote takes only if the branch has not moved (`Push`, `Rejected`), then in a
workspace `CheckWorkspace`, `Refetch`, `Merge` and `IndexNote`, or in a remote
repository, with the lock released, `SyncAfterPush`, `Confirm` and
`ConfirmChunks`. `Retry` is `_is_push_rejection` with the loop around it: the first rejection
goes back to the fetch, the second answers `sync_conflict`. `Declined` is the
push that a hook refuses in the words of a rejection although the branch has not
moved; `PushFails` the one reported failed, or timed out, that may have landed.
A time-out leaves the tool by an exception (`raised`), through the finally
clauses. `SyncByOther`, `PushByOthers` and the `User*` actions are the world around.

In mode `local` (`capture_git_mode: local_only`), and for drafts in any workspace, a call goes to
`Truncate`, `Fill` and `IndexInPlace` instead: no lock, no commit, and nothing
looks at the target again after `Request`. A failure or a crash in between leaves the file
`Torn`. `raced` are the paths at which a file came (another call asked for it, or the user made
it) while a call was about to write there; it is a history variable, for the properties only.

Merged or left out: worktree, write, `add` and `commit` have one place each for
the check and for the failure; a `merge --ff-only` may always be refused (local
commits, a file in its way); the synchronization is atomic here, as
`CanonicalSync` shows it to be for readers, and one that fails has changed
nothing; the policy checks on paths, symbolic links and hard links; repositories
that are no git worktree. Nobody removes a note or rewrites the branch, and nobody
reindexes the workspace: then the answers of the past would not be
required to stay true. Notes written in place are not committed or removed by the user here.

`ImplementsNoteLog` is what the tool is for: a client that is told `push_failed`
asks again, and the note is still written once. `ReportedIsPublished` and
`IndexedIsRetrievable` say that the answers are true and stay so. The commit an
answer names may be missing, because the `rev-parse` before the push may fail.
In a workspace that is pushed to, the indexed document may be a file that is at the path of
the note by then: the user's, or a draft that the other server is about to write there (the
code asks only whether a file exists, and drafts are written without the lock). `DraftAt`
names the second case, which `IndexedIsRetrievable` allows as it allows the first. `WrittenIsKept` is the promise of writing in
place, except at `raced` paths: there one server overwrites what another, or the user, has just
written, and both answers may say written. A torn file stays until the user removes it, and
the note cannot be asked for again before (`TARGET_EXISTS`).
`LockHeldInside`, a part of `IInv`, says that no way out keeps the lock or releases another's.

### AuthorityProposal

In `ReviewBoard` a commit is the canonical commit it starts from and the changes
stacked on it; a change is the files it adds and those it replaces, with an
identity. `AuthorityProposal` has the remote (`canon`, `pub`), the clone (`ref`,
`tracking`, `main`), the checkouts (`head`, `detached`, `work`: each file clean,
written by the tool, or edited or staged by the user), the capture lock, and per server the
place in the call and its locals. In mode `local` the tool works in the user's
checkout; in mode `remote` in a worktree of its own, with the capture lock held.

`Acquire` to `AddWorktree` are `_prepare_remote_authority_change` up to its
worktree; `Status` to `Open` are `_prepare_authority_change`; `UndoReset`,
`UndoSwitch` and `UndoBranch` are `_cleanup_failed_authority_branch`;
`RemoveWorktree` and `DeleteBranch` the finally clause. Three kinds of failure
are told apart, as the code does: a command that returns nonzero (an answer, after
the clean-up), one that times out (an exception: `raised`, or
`GIT_PROPOSAL_FAILED` for a remote proposal, without the clean-up), and one of the clean-up's
own, whose result nobody looks at (`botched`). A push that is reported failed, or
whose time ran out, may have arrived. `Crash` comes between any two steps.

Assumed: one server works in a given workspace (nothing in the code keeps two
apart there), and its user moves branches only between calls. Edits and `git add` come at any time.

`FailureRestores` is what the clean-up is for. A call that fails before it has made anything
leaves everything as it found it, which after a crash includes what the crash left; `PreparedIsAsked` ties the answer
to the commit, through the check of the targets, the branch, the write and the
commit; `LockHeldInside` goes through every way out; `ImplementsReviewBoard` says
that a retried or repeated proposal never rewrites a published one. Seen in
the model, and promised away by nobody: a call in a workspace that times out
leaves branch and file; the clean-up's `git reset --hard` discards what the user has
edited since the check that the workspace was clean; files the user stages
meanwhile go into the commit; a push that arrived but was reported failed makes the name
unusable (`GIT_PUSH_FAILED` ever after, for the remote only takes fast-forwards);
a crash leaves a branch that answers `BRANCH_EXISTS`.

### Documents and ProjectState

`Documents` is the vocabulary: `Normalize` is `normalize_frontmatter` over
`Inferred`, the path rules; `Rank` and `Score` are the tables and the sum of `_row_to_search_result`, in
hundredths; `Finds` says which document a section's search finds.

In `ProjectState` a document is what its frontmatter says, its place and its
repository; `source` has the files, `rows` the index. A packet is one `Request`,
`Limit` (`_brief_result_limit`), the staleness check, the searches of `Plan`
in their order, and `Answer`. The check is `ReadMetadata` for both repositories, then `ReadHead` and
`Compare` for each: the index's metadata is read before git is asked, and HEAD before the
status. Around it the user edits and commits (`Edit`, `Commit`) and another process indexes: `Read`
takes HEAD and the files and `Store` puts them in the index later. A
code search goes to CodeGraph and then the full-text complement, or to the text
fallback, both behind their own check that the checkouts are as indexed (`CheckFor`, then the same
steps for each repository, and `RepoMatches`). Each call may fail,
and `warned` and `failed` record what a section's packet then carries. `Section` and `PacketState` are
the code's derivation of the three states and of the packet's.

`NoMatchWasTrue` is the promise of the packet as far as it goes: where neither
section nor staleness check carries a warning, "no match" was true at some moment
during the call for each search behind the section (the moments may differ), for the files
or for what the other process was about to store. It excepts sections whose repository's HEAD moved between
the two reads of the check (`Overtaken`, from the history `moved`): there the packet does say
current, complete and "no match" of a document that was committed in between and matched all
through the call. `OneSectionEach` is `SectionsAreDisjoint`
carried through a running packet. Assumed: all documents match the topic and fit the limits, and repositories
are workspaces indexed with uncommitted changes; for remote ones see `CanonicalSync`.

Not covered by a property but in the model or in the code as read: a
configuration that is invalid for a moment while the limit is read leaves no limit,
and merging several types then raises a `TypeError` (`Raises`); the status filter is
applied after the best 1000 candidates were taken, so that more documents than that can hide a match;
the text fallback drops code that the path rules call `text`; drafts of
decisions and documents whose authority alone is superseded are in no section.

### ProjectConfig

Two predicates and a function: `Loads` and `Accepted` (`load_project_config`,
`validate_project_config`), with the file system as an argument, and `Generated`
(`build_project_config`). Paths are sequences of names, so that containment is a prefix.

### SetupPage

The page's server handles each request in a thread of its own and nothing orders
them. A request stands for what it makes: its process, its token, its files.
`Plan`, `Check`, `FindCli` to `InitDone`, `Truncate`, `Fill`, `WriteArtifact`,
`Report` are a write, in the order of `write_setup_artifacts`: CodeGraph first,
then the configuration, then the bridge's four files. `Validate` to `Slept` are `start`, `Terminate` to `Kill` are `stop`;
`Bind`, `Exit` and `Die` the service process. `Compose` is the bridge. Failures are told
apart by whether `do_POST` catches them: a time-out of npm or Docker and a full disk are
not, and drop the connection. `Restart` ends the page but not the service (`start_new_session`).

`SingleService` and `StopLeavesNothing` hold while starts and stops come one at a
time (`overlapped`) and the page is not restarted. Otherwise they do not: two
starts at once make two processes of which one is forgotten, and after a restart
the running service is unknown. `TokensAgree` likewise excepts overlapping
writes. `NoUnconfirmedOverwrite` excepts a configuration that appears after the
request, between the second look and the write, while npm runs for up to two minutes: it is lost. Also in the
model: a failure while the configuration is written leaves it empty; `start`
answers running when the port will turn out to be taken; a running bridge keeps
the token it was started with.

## Runs

| run | question | bounds | result |
|---|---|---|---|
| `capture_lock` | is the lock safe and live under crashes, pid and inode reuse? | 2 processes, 3 pids, 3 inodes, 2 crashes | holds |
| `sync` | are answers what their provenance says, is a failed refresh undone, do readers only see published commits, does every repository recover that is not beyond repair? | 1 server, 2 repositories, 2 commits, 2 faults; a killed git may leave its lock | holds |
| `sync_two` | the same for two servers on one repository: no restore undoes the other's work | 2 servers, 1 repository, 2 commits, 2 faults | holds |
| `sync_cli` | and with `index-project` on the command line beside the server? | 1 server, 1 command line process | violated |
| `workspace` | does "no reindex needed" mean that the index holds the source? | 2 documents, 3 commits, 4 versions, 4 configurations | holds |
| `workspace_notes` | also when notes are indexed as they are written (the default)? | 2 documents | violated |
| `publish` | is a note published once, over no file, does what is written in place stay whole, and are the answers true? | 2 servers, a note and a draft, 1 push of others, 1 fault | holds |
| `authority` | is a prepared proposal what was asked for, does a failed one leave nothing, is nothing published rewritten? | 2 servers, 2 branch names, 3 requests, 2 commits, 1 push of reviewers, 1 act of the user, 1 fault | holds |
| `packets` | was "no match" true where nothing warns? is a document in one section? | 2 documents, 2 kinds of packet, 1 edit, 1 commit, 1 indexing, 1 fault | holds |
| `packet_trust` | also where only the staleness check carries the warning? | the same | violated |
| `packet_notes` | are notes in the discussions section only? | a note and a source file | violated |
| `setup` | one service, one token, a backed configuration, nothing overwritten unasked? | 3 requests, 2 code repositories, 1 failure or restart | holds |

Why the bounds are enough. Two processes are what a race in the lock takes: an
owner and a reclaimer, or two reclaimers of one dead owner's file (the dead
process is started again and reclaims too); with three inodes the file system
always has an unused number to hand out or an old one to reuse; two crashes kill
an owner and then a reclaimer. The proofs cover all other sizes. In
`CanonicalSync` the second commit is the one that a refresh is about to bring;
two faults make a refresh fail and then its rollback, or a crash follow a
failure, or leave a lock for good and then end the schedule; the second repository is what the rollback of the first must not
disturb. The two servers of `sync_two` are interchangeable (its properties are safety, so
that their symmetry may be used). In `WorkspaceIndex` one document is written by tools and one by the user only;
four versions and three commits let an edit, a commit and a pull fall between
any two reads, those of the check included. In `CapturePublish` both servers may be asked for the same note,
which is a conflict of paths and a repeated request at once; the draft is
for a path that the index leaves out; one push of others makes a push be
rejected, on the same path or elsewhere, and the other server's note a
second time; one fault is a lost answer, a crash or a time-out at any step. The
servers are interchangeable, so the run uses their symmetry. In mode `local` both are
written in place.

In `AuthorityProposal` two servers want the same branch name, for a file that one adds and
the other replaces, or two names; the file to be replaced may be one that only the user has
made; two commits suffice for a proposal repeated after a lost answer; one push of the reviewers makes the other's base old; one act of the
user falls at any step; one fault is a failure and, in the clean-up of a
failure that needs no fault (nothing to commit), its failure. In `ProjectState` the decision may be an
accepted one, a proposal or superseded, so that an edit moves it between three
sections; the commit comes between any two steps of the check and of the searches;
the source file is what the code searches find; one run of the other process may
be on when the packet is asked for. In `SetupPage` three requests are two that overlap and
the one that finds what they left; two code repositories let the
initialization stop half-way. Requests are interchangeable.

Fairness. `FairSpec` of `CaptureLock`: a process inside the lock's code goes on,
processes try again (the interval) and are restarted; nobody is forced to crash
and no write to fail. `FairSpec` of `CanonicalSync` (run `sync`): git, CodeGraph and SQLite
calls return because every one has a timeout, so both threads go on, `acquire()` has a deadline
(`LockTimesOut`), and a server that is down is started again. Nothing restarts a server that is up.
An interval finds the project lock free
infinitely often, which is strong fairness of `BeginSync`, because a busy
interval is skipped and not queued: a server whose tools never let an interval
through is outside `Recovers`. The faults are bounded: "once nothing fails any more".
The other modules state safety only: their calls are finite sequences of
calls with time-outs.

`Recovers` excepts what the code leaves unrepaired, and says so: a repository whose lock file
nobody can reclaim (`Stuck`) or whose checkout has a `.git/index.lock` left behind by a killed git, and a
server whose schedule an exception has ended, until it is started again. Without any one of
these exceptions TLC finds the counterexample.

## What the violated runs show

* `sync_cli`: `index-project` in its own process reads HEAD and status, the
  server's synchronization then moves the checkout, and the new files are stored under
  the old commit or, when the rollback moves it back, the other way round. The row is then
  consistent with HEAD, and the wrong documents are served as current.
* `workspace_notes`: `index_document` stores the present commit and fingerprint
  in the row of the whole repository, so that other documents, changed or never
  indexed, count as current.
* `packet_notes`: `search_code` without a repository adds full-text results of
  the ops repository, documents of every type, to the implementation evidence, which
  the doctrine view contains.
* `packet_trust`: a section is stale if the staleness check names a stale
  repository. A check that fails names none, or compares no commit, and the
  empty search of a stale index then reads complete, no match and current; the failure is elsewhere in
  the packet.

More disagreements stand behind a constant or behind an exception that a property names, and
are not runs of their own:

* HEAD and status read one after the other (`HeadWasKept`, `Overtaken`): without the exceptions
  TLC finds a pull or commit between the two reads after which a stale index is called current
  (`CurrentMeansIndexed`) and "no match" of a document that matches (`NoMatchWasTrue`);
* an exception outside the try clause of `sync_project` ends `periodic()`: without `pc[p] = "ended"`
  `Recovers` is violated;
* a lock file without its pid is never reclaimed, and a `.git/index.lock` that a `git reset`
  killed on its timeout leaves is never removed: every later interval fails on it, and
  `Recovers` is violated without `BeyondRepair`;
* `Quoted` not empty with `CurrentMeansIndexed`: git prints such a name with
  escapes, `_status_relative_path` strips the quotes only, and the contents of a file
  it then does not find are not digested, so that a second edit goes unnoticed;
* one process and one pid in `CaptureLock` (a container, where the server is
  pid 1 after every restart): a lock file that survived its owner looks alive
  for ever, which `DeadOwnerReclaimed` excepts as a pid taken over.

## Proofs

`CaptureLockProofs` proves, for any sets of processes, pids and inodes and any
number of crashes, under `CaptureLockAssumption` (the special values are no
members of the sets):

* `InductiveInvariant`: `Spec => []IInv`;
* `Typing`: `Spec => []TypeOK`;
* `MutualExclusionHolds`: `Spec => []MutualExclusion`;
* `LockFileRefined`: `Spec => ImplementsLockFile`.

The argument. `MutualExclusion` alone is not inductive: a reclaimer about to
unlink must be known not to unlink an owner's file. `IInv` adds, in this order:
live processes have different pids (`PidsDiffer`); an owner's file is the one at
the path and records the owner's pid once it records anything (`OwnerFile`); a
reclaimer past the flock has it (`ReclaimerFlock`); the inode it found dead is
no live owner's (`ExaminedIsDead`: an owner's pid is alive, so the probe cannot
have called it dead, and the inode stays open, so its number is not reused); and
when the comparison has passed, the path still names that inode until the
unlink (`UnlinkTarget`: another reclaimer would need the flock, the owner is
dead, and nobody creates a file while there is one). `TypeStep` and `IInvStep` take one step per action; `LockOfCases`
and `RefineStep` show that each step is one of `LockFile`'s or a stutter.
`IInv` is checked by TLC in `capture_lock` before it is proved.

`CapturePublishProofs` proves, for any servers, notes and paths and any number
of pushes of others and faults, under `CapturePublishAssumption` (the constants have their
types, `Nowhere` is no path, other people's texts are no notes, `Torn` and `Missing` are
neither, the special lock values are no servers):

* `Invariance`: `Spec => []IInv`, and from it `Typing` and `Published`
  (`Spec => []ReportedIsPublished`);
* `WrittenInPlaceIsKept`: `Spec => []WrittenIsKept`;
* `Retrievable`: `Spec => []IndexedIsRetrievable`;
* `NoteLogImplemented`: `Spec => ImplementsNoteLog`.

The argument. Nothing ties a worktree to the branch but the remote's own
check: a push lands only on top of the commit of its worktree. So `IInv` carries
that every worktree is of a commit the branch has had (`BasesArePast`), that
what is about to be pushed is for a path its worktree does not have
(`TargetIsFree`), and that after the push the call remembers the commit of its own note
(`PushedIsCommitted`). When the push lands, worktree and branch are equal, and
the path is free on the branch: a step of `NoteLog`. The lock is not needed for
this: `LockHeldInside` stands by itself. The branch only grows (`BranchStep`,
`BranchGrows`), so what was said of a commit stays true (`GrowsKeeps`,
`CallKept`); `AnswerKeeps`, `GotoKeeps` and `RetryKeeps` are the ways a call goes on, and
`CallStep` takes one step per action. For writing in place, `FileInPlace` says what each call
finds at its path and `OneInPlace` that two calls are at the same place of one file only at
`raced` paths; `PlaceStep` shows that a file changes only by the call at it, or is raced.

`Retrievable` needs to know where the indexed documents come from. A call is on the way its
mode has (`WayFitsMode`); the branch has one commit for a path (`OnePerPath`); both branches
of a workspace are at commits the capture branch has had (`CheckoutIsPast`); what lies there
uncommitted is the user's or a draft (`FilesAreTheUsers`); the index of a remote repository
is of one commit of the branch (`IndexIsOfCommit`), and a call that was told that its note is
indexed found it there (`FoundIsIndexed`). `AnswerKept` carries an answer past whatever
happens after it, `AnswerIsSo` shows that it is true when it is given.

`CanonicalSyncProofs` proves, for any processes, repositories and commits and any number of
faults, under `CanonicalSyncAssumption` (the constants have their types, there is a
repository, the special lock values are no processes):

* `Typing`: `Spec => []TypeOK`, and `LockRulesKept`: `Spec => CaptureLockRules`, in every set-up
  (a lock that is `Stuck` is an orphan to `LockFile`);
* `Invariance`, `NeverBack` (`ServedNeverRegresses`) and `RefreshRestores`
  (`FailedRefreshRestores`) if `Sound`: one process writes the state directory, or any number of
  servers share one repository and no client calls `index-project`;
* `AnswersMatch` (`Spec => []AnswersMatchProvenance`) and `ImplementsSource`
  (`Spec => ImplementsCanonicalSource`) if `OneServer`.

`Sound` leaves out what is false: the run `sync_cli` is the counterexample with a second
writer, and `UndoDb`, which restores the whole database, puts other repositories back
when two servers have several. The argument. First the two locks (`ProjectLockStep`, `CaptureLockStep`):
synchronization and tools of a process exclude each other, and a process that is at work
on a repository has its capture lock; one whose schedule an exception has ended may keep a lock
and does nothing with it. Then what nobody else can touch stays as it is:
until it has stored anything the row and the documents are as before (`NothingStoredYet`, which is
also why restoring the copy of the database restores this repository: `index_repo` is
one transaction, so that a failed one has stored nothing), the undo steps have
put back what their place says (`UndoneSoFar`), what was fetched is ahead of what is indexed
(`FetchedIsAhead`), and a read finds what its check has found (`ReadIsAsChecked`). From
`IndexIsBehind`, the index at one commit that is no later than the checkout's,
`SourceStep` takes each step to one of `CanonicalSource` or a stutter.

`WorkspaceIndexProofs` proves, for any documents, notes, commits and versions:

* `Typing`: `Spec => []TypeOK`, for every set of configurations;
* `Invariance` and `Currency` (`Spec => []CurrentMeansIndexed`) if `Sound`: git quotes no name,
  notes are not indexed as they are written where uncommitted changes count, and nobody edits
  while a repository is indexed without its uncommitted changes.

Each part of `Sound` excludes something false: the run `workspace_notes`, the quoted names
under "What the violated runs show", and the hazard noted under `WorkspaceIndex`. Of the order of edits, commits, pulls and reads nothing
is assumed but what `HeadWasKept` says: HEAD stays between the two reads of the check. The
argument. HEAD and status are read before any file, and no contents come back, so that a
file that changed before it was read makes the status of now differ from the stored one:
what was read is between the status and now (`ReadIsBetween`), and so is what was stored
(`IndexIsBetween`); where files cannot change meanwhile it is simply what the commit has (`ReadIsAsIs`,
`IndexIsAsDescribed`). `ContentsAreMade` says that new contents are new, and `ToolsInOrder`
that a tool has read nothing before its status. When the status is still the stored one, and the HEAD that the check read is the stored one
and still there, nothing has changed in between, and the index holds the source.

`AuthorityProposalProofs` proves, for any servers, branch names, files, changes and any
number of commits, pushes, edits and faults, under `AuthorityProposalAssumption`:

* `Invariance` and `Typing`: `Spec => []IInv`, `Spec => []TypeOK`;
* `LockHeld`: `Spec => []LockHeldInside`, and `PreparedAsAsked`: `Spec => []PreparedIsAsked`;
* `FailureLeavesNothing`: `Spec => FailureRestores`;
* `ReviewBoardImplemented`: `Spec => ImplementsReviewBoard`.

The argument. One call works at a time (`Alone`): remotely because of the lock, in a
workspace because one server works there. So the branch that a call found missing is its own
until it ends (`OnItsWay`, `OnItsBranch`), the way back is still there (`CanGoBack`), the
tool's files in the checkout are the ones asked for (`FilesAreAsked`) and so is the commit
(`MadeIsAsked`). Every commit anywhere starts from one the canonical branch has had
(`CommitsArePast`), and what is checked out exists (`HeadsExist`). The refinement needs one thing
of the commits: `IsAncestor` is transitive (`AncestorTrans`) and does not change when
reviewers push or merge (`AncestorGrows`), because a canonical commit is older than what is built on it. A
push that lands is then an extension of the branch, which `ReviewBoard` allows, or
a stutter. `FailureStep` follows the clean-up: each undo step
removes what its place in the call has made, and one that fails sets `botched`.

`ProjectStateProofs` proves, about the tables and for everything frontmatter may say:
`NormalizeIsTotal` (the result is known to the searches), `WithdrawnIsNotFound` (what its
frontmatter calls superseded or rejected no default search finds),
`TierDominates` (authority decides before relevance and exact titles: neighbouring tiers
are 105 apart or more, the rest adds 30 at most) and `SectionsAreDisjoint`. The path rules and the tables are cases over finite sets, and are expanded.

About packets it proves, for any documents, frontmatter and requests and any number of edits,
indexings and faults, under the assumption of `ProjectState` (the constants have their types, there is a
request): `Invariance`, `Typing`, `NoMatchIsEarned` (`Spec => []NoMatchWasTrue`) and
`OneSectionForEach` (`Spec => []OneSectionEach`). The argument. A
search of files is true of the files if those files were watched: the source since
the request, and what the other process had read by then or has read since (`Known`,
`QuietIsKnown`). The index is as the staleness check recorded it, or was stored since from
something watched; and whatever role the check does not call stale had, when its status was read, the source in
its rows, if HEAD was by then still the one that had been read (`KnownAgree`; the other roles
are in `moved`, and their sections excepted). So each search that returned nothing, of a section
that carries no warning, was true of something watched, and every step keeps that (`CallStep`);
`AnswerIsTrue` gathers the searches of a section (`PlanHolds`: those and no others).
`OneSectionEach` comes from `SectionsAreDisjoint`, as long as all sections search one index:
what a section has found is in the rows (`FoundIsInRows`). `IInv` is checked by TLC in `packets`.

`ProjectConfigProofs` proves of every accepted configuration `OneWriter` and
`ClonesAreApart`, and `GeneratedIsAccepted`: what setup generates is accepted for any
paths and any number of code repositories that are Git worktrees, if the ops
repository can be written and the project's name is a safe id. That last
condition is a real one: the page takes the id from the folder's name and may write a
configuration that it then reports invalid.

`SetupPageProofs` proves, for any number of requests, repositories and faults
under `SetupAssumption`: `TypeCorrect`, `BackedAlways`
(`ConfigIsBacked`), `OneProcess` (`SingleService`), `StopIsComplete`
(`StopLeavesNothing`), `OverwriteIsConfirmed` (`NoUnconfirmedOverwrite`) and `TokensAlwaysAgree` (`TokensAgree`).
The arguments. `BackedInv`: a thread that initializes has a CodeGraph and has done the
repositories before its `todo`, so that one that writes the configuration has done all; nobody
takes either away. `ServiceInv`: without overlap at most one thread is about the
service, the one that spawns has just found nothing alive, so that what lives is
tracked; a stop then reaches it, and `OnlyStops` says that only stops answer "stopped".
`ConfirmInv`: a thread past its second look was confirmed or found nothing when it came,
and a configuration that was found does not vanish. `TokenInv`: without overlap one write is
under way, the files it has passed are its own, and no earlier write's token is in
the first file once a later one has come past that; so that a first file that is a
finished write's own means that all four are.

Every safety property of the passing runs, invariants, action properties and
refinements, is stated by one of these theorems. Only model-checked is liveness
(`DeadOwnerReclaimed`, `Recovers`), which is out of the prover's reach: it
would take `ENABLED` and fairness. Whatever lies outside the hypotheses named above (`Sound`,
`OneServer`, and the exceptions `HeadWasKept`, `Overtaken`, `raced`, `overlapped` and `stored` that the properties make) is neither
proved nor promised.

## Plan

1. *Done:* all components of the table above with state of their own, and the proofs of their
   safety.
2. A failing `git status` and ignored files in `WorkspaceIndex`, which would break
   `CurrentMeansIndexed` as they break it in the code.
3. Proofs: what servers that share several repositories can still rely on, although the
   rollback of one restores the index of all (`CanonicalSync` outside `Sound`).

## Not modelled

Parsing of Markdown and of CodeGraph's output,
rendering, HTML, prompts, reading of YAML, registration of tools (pure
input and output); SQLite's full-text search (a library).
