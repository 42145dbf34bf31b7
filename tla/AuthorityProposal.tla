--------------------------- MODULE AuthorityProposal ---------------------------
(***************************************************************************)
(* propose_authority_change (services): a change of doctrine is committed  *)
(* on a branch of its own, pushed and opened as a pull request.  In a      *)
(* workspace this happens in the user's checkout, which must be clean and  *)
(* is put back if a step fails; for a remote repository it happens under   *)
(* the capture lock in a temporary worktree of the fetched canonical       *)
(* branch, in a clone that several servers share.                          *)
(*                                                                         *)
(* A call of git succeeds, is reported failed, or times out, which leaves  *)
(* by an exception; a push reported failed, or one whose time ran out, may *)
(* have reached the remote.  A server may die between any two steps.       *)
(*                                                                         *)
(* Assumed: one server works in a workspace, and its user edits, stages    *)
(* and reverts files at any time but moves branches only between calls.    *)
(***************************************************************************)
EXTENDS Naturals, Sequences, FiniteSets

CONSTANTS
    Writers,        \* the servers
    Names, Files, Tracked, None,                \* see ReviewBoard
    Asked,          \* the changes clients ask for: [adds, replaces]
    Requests,       \* the branch names they ask for them under
    Modes,          \* source modes of the writable repository
    MaxCommits,     \* bound on the commits of proposals
    MaxPushes,      \* bound on the commits of other people
    MaxFaults,      \* bound on failed calls and crashes
    MaxEdits,       \* bound on what the user does
    Free, Orphan    \* the capture lock is not owned (LockFile)

ASSUME AuthorityProposalAssumption ==
    /\ Tracked \subseteq Files
    /\ Asked \subseteq [adds : SUBSET Files, replaces : SUBSET Files]
    /\ Names # {} /\ Asked # {} /\ Requests \subseteq Names \X Asked
    /\ \A c \in Asked : c.adds \cap c.replaces = {}
    /\ Modes \subseteq {"local", "remote"}
    /\ MaxCommits \in Nat /\ MaxPushes \in Nat /\ MaxFaults \in Nat /\ MaxEdits \in Nat
    /\ Free # Orphan /\ {Free, Orphan} \cap Writers = {}
    /\ "workspace" \notin Writers
    /\ Names \cap {"main", "detached", "unknown"} = {}

VARIABLES
    mode,           \* source_mode of the repository
    canon,          \* the canonical branch at its remote
    pub,            \* the proposal branches at the remote
    ref,            \* the local branches
    tracking,       \* the canonical commit that is known: refs/remotes/origin/...
    main,           \* the canonical commit the workspace's own branch is at
    head,           \* what each checkout has out: a branch, "main" or "detached"
    detached,       \* the commit of a detached checkout
    work,           \* its files: clean, of the tool, or edited or staged by the user
    lock,           \* the capture lock
    pc,             \* where each call of the tool is
    asked, name,    \* its change and its branch name
    before,         \* what was checked out before it
    made,           \* the commit it made
    outcome,        \* what it will answer
    botched,        \* whether a clean-up of its own failed, history
    touched,        \* whether the user touched a file meanwhile, history
    reply,          \* what each server answered to its last call
    commits, pushes, faults, edits

board == <<canon, pub>>
clone == <<ref, tracking, main>>
trees == <<head, detached, work>>
call == <<asked, name, before, made, outcome, botched, touched>>
counts == <<commits, pushes, faults, edits>>
vars == <<mode, board, clone, trees, lock, pc, call, reply, counts>>

Board == INSTANCE ReviewBoard WITH canonical <- canon, proposals <- pub

ASSUME NoneAssumption == None \notin Board!Commit

\* Where a call works: the user's checkout, or a worktree of its own.
Tree(w) == IF mode = "local" THEN "workspace" ELSE w
Trees == Writers \cup {"workspace"}

CommitAt(c) == [base |-> c, stack |-> <<>>]
HeadCommit(t) ==
    CASE head[t] = "main" -> CommitAt(main)
      [] head[t] = "detached" -> detached[t]
      [] OTHER -> ref[head[t]]

AllClean == [f \in Files |-> "clean"]
InHead(t) == Board!FilesAt(HeadCommit(t))
Present(t) == InHead(t) \cup {f \in Files : work[t][f] # "clean"}

Holding == {"exists", "fetch", "worktree", "status", "validate", "branch", "write", "commit",
            "undo", "back", "drop", "gh", "push", "push and open", "pr", "remove", "delete"}
Locations == {"down", "idle", "lock"} \cup Holding
Prepared == {"branch_prepared_pr_not_opened", "pr_opened"}
Statuses == Prepared \cup {"none", "blocked", "INVALID_CHANGES", "BRANCH_EXISTS", "failed",
                           "GIT_LOCK_FAILED", "GIT_FETCH_FAILED", "GIT_STATUS_FAILED",
                           "GIT_PUSH_FAILED", "GIT_PROPOSAL_FAILED", "raised"}

NoCommit == CommitAt(0)
NoReply == [status |-> "none", name |-> CHOOSE n \in Names : TRUE, commit |-> NoCommit,
            asked |-> CHOOSE c \in Asked : TRUE, botched |-> FALSE, touched |-> FALSE]

TypeOK ==
    /\ mode \in Modes
    /\ canon \in Seq(Board!Commit) /\ pub \in [Names -> Board!Commit \cup {None}]
    /\ ref \in [Names -> Board!Commit \cup {None}]
    /\ tracking \in Nat /\ main \in Nat
    /\ head \in [Trees -> Names \cup {"main", "detached"}]
    /\ detached \in [Trees -> Board!Commit]
    /\ work \in [Trees -> [Files -> {"clean", "ours", "edited", "staged"}]]
    /\ lock \in Writers \cup {Free, Orphan}
    /\ pc \in [Writers -> Locations]
    /\ asked \in [Writers -> Asked] /\ name \in [Writers -> Names]
    /\ before \in [Writers -> Names \cup {"main", "detached", "unknown"}]
    /\ made \in [Writers -> Board!Commit]
    /\ outcome \in [Writers -> Statuses]
    /\ botched \in [Writers -> BOOLEAN] /\ touched \in [Writers -> BOOLEAN]
    /\ reply \in [Writers -> [status : Statuses, name : Names, commit : Board!Commit,
                              asked : Asked, botched : BOOLEAN, touched : BOOLEAN]]
    /\ commits \in Nat /\ pushes \in Nat /\ faults \in Nat /\ edits \in Nat

Init ==
    /\ mode \in Modes
    /\ Board!BoardInit
    /\ ref = [n \in Names |-> None]
    /\ tracking = 0 /\ main = 0
    /\ head = [t \in Trees |-> "main"]
    /\ detached = [t \in Trees |-> NoCommit]
    /\ work = [t \in Trees |-> AllClean]
    /\ lock = Free
    /\ pc = [w \in Writers |-> "idle"]
    /\ asked = [w \in Writers |-> NoReply.asked] /\ name = [w \in Writers |-> NoReply.name]
    /\ before = [w \in Writers |-> "unknown"]
    /\ made = [w \in Writers |-> NoCommit]
    /\ outcome = [w \in Writers |-> "none"]
    /\ botched = [w \in Writers |-> FALSE] /\ touched = [w \in Writers |-> FALSE]
    /\ reply = [w \in Writers |-> NoReply]
    /\ commits = 0 /\ pushes = 0 /\ faults = 0 /\ edits = 0

Fault == faults < MaxFaults /\ faults' = faults + 1

Goto(w, l) == pc' = [pc EXCEPT ![w] = l] /\ UNCHANGED <<lock, call, reply>>

Forget(w) ==
    /\ asked' = [asked EXCEPT ![w] = NoReply.asked] /\ name' = [name EXCEPT ![w] = NoReply.name]
    /\ before' = [before EXCEPT ![w] = "unknown"]
    /\ made' = [made EXCEPT ![w] = NoCommit]
    /\ outcome' = [outcome EXCEPT ![w] = "none"]
    /\ botched' = [botched EXCEPT ![w] = FALSE] /\ touched' = [touched EXCEPT ![w] = FALSE]

\* The finally clause.
LockKept(w) == UNCHANGED lock
LockReleased(w) == lock' = IF lock = w THEN Free ELSE lock

\* The tool answers.
AnswerAfter(w, s, b) ==
    /\ LockReleased(w)
    /\ pc' = [pc EXCEPT ![w] = "idle"]
    /\ reply' = [reply EXCEPT ![w] =
            [status |-> s, name |-> name[w], commit |-> made[w], asked |-> asked[w],
             botched |-> b, touched |-> touched[w]]]
    /\ Forget(w)

Answer(w, s) == AnswerAfter(w, s, botched[w])

\* The outcome is decided; a remote proposal still removes its worktree.
LeaveAfter(w, s, b) ==
    IF mode = "local"
    THEN AnswerAfter(w, s, b)
    ELSE /\ pc' = [pc EXCEPT ![w] = "remove"]
         /\ outcome' = [outcome EXCEPT ![w] = s]
         /\ botched' = [botched EXCEPT ![w] = b]
         /\ UNCHANGED <<lock, asked, name, before, made, touched, reply>>

Leave(w, s) == LeaveAfter(w, s, botched[w])

\* A call that ran out of time.
Raise(w) == Leave(w, IF mode = "local" THEN "raised" ELSE "GIT_PROPOSAL_FAILED")

\* A step failed: _cleanup_failed_authority_branch, then the error.
CleanUp(w) ==
    /\ pc' = [pc EXCEPT ![w] = "undo"]
    /\ outcome' = [outcome EXCEPT ![w] = "failed"]
    /\ UNCHANGED <<lock, asked, name, before, made, botched, touched, reply>>

Idle(w) == pc[w] \in {"down", "idle"}
Mine(w) == asked[w].adds \cup asked[w].replaces

(***************************************************************************)
(* propose_authority_change_from_config and _prepare_remote_authority_change *)
(***************************************************************************)

\* At the bound, only what leaves nothing to commit is asked for.
Bounded(c) ==
    c.adds = {} \/ commits + Cardinality({v \in Writers : ~Idle(v)}) < MaxCommits

Request(w, n, c) ==
    /\ pc[w] = "idle"
    /\ mode = "local" => \A v \in Writers : Idle(v)
    /\ Bounded(c)
    /\ pc' = [pc EXCEPT ![w] = IF mode = "local" THEN "status" ELSE "lock"]
    /\ name' = [name EXCEPT ![w] = n]
    /\ asked' = [asked EXCEPT ![w] = c]
    /\ reply' = [reply EXCEPT ![w] = NoReply]
    /\ UNCHANGED <<mode, board, clone, trees, lock, before, made, outcome, botched, touched, counts>>

Acquire(w) ==
    /\ pc[w] = "lock"
    /\ lock = Free
    /\ lock' = w
    /\ pc' = [pc EXCEPT ![w] = "exists"]
    /\ UNCHANGED <<mode, board, clone, trees, call, reply, counts>>

Reclaim(w) ==
    /\ pc[w] = "lock"
    /\ lock = Orphan
    /\ lock' = Free
    /\ UNCHANGED <<mode, board, clone, trees, pc, call, reply, counts>>

TimeOut(w) ==
    /\ pc[w] = "lock"
    /\ lock \in Writers
    /\ Answer(w, "GIT_LOCK_FAILED")
    /\ UNCHANGED <<mode, board, clone, trees, counts>>

ExistsUnchecked(w) ==
    /\ pc[w] = "exists"
    /\ Goto(w, "fetch")
    /\ UNCHANGED <<mode, board, clone, trees, counts>>

Exists(w) ==
    /\ pc[w] = "exists"
    /\ IF ref[name[w]] # None THEN Answer(w, "BRANCH_EXISTS") ELSE Goto(w, "fetch")
    /\ UNCHANGED <<mode, board, clone, trees, counts>>

Fetch(w) ==
    /\ pc[w] = "fetch"
    /\ tracking' = Len(canon)
    /\ Goto(w, "worktree")
    /\ UNCHANGED <<mode, board, ref, main, trees, counts>>

\* Nothing has been made yet that would have to be removed.
FetchFails(w) ==
    /\ pc[w] \in {"exists", "fetch"}
    /\ Fault
    /\ tracking' \in {tracking, Len(canon)}
    /\ \E s \in {"GIT_FETCH_FAILED", "GIT_PROPOSAL_FAILED"} : Answer(w, s)
    /\ UNCHANGED <<mode, board, ref, main, trees, commits, pushes, edits>>

AddWorktree(w) ==
    /\ pc[w] = "worktree"
    /\ head' = [head EXCEPT ![w] = "detached"]
    /\ detached' = [detached EXCEPT ![w] = CommitAt(tracking)]
    /\ work' = [work EXCEPT ![w] = AllClean]
    /\ Goto(w, "status")
    /\ UNCHANGED <<mode, board, clone, counts>>

AddWorktreeFails(w) ==
    /\ pc[w] = "worktree"
    /\ Fault
    /\ Leave(w, "failed") \/ Raise(w)
    /\ UNCHANGED <<mode, board, clone, trees, commits, pushes, edits>>

(***************************************************************************)
(* _prepare_authority_change                                               *)
(***************************************************************************)
Status(w) ==
    /\ pc[w] = "status"
    /\ IF work[Tree(w)] = AllClean THEN Goto(w, "validate") ELSE Leave(w, "blocked")
    /\ UNCHANGED <<mode, board, clone, trees, counts>>

StatusFails(w) ==
    /\ pc[w] = "status"
    /\ Fault
    /\ Leave(w, "GIT_STATUS_FAILED")
    /\ UNCHANGED <<mode, board, clone, trees, commits, pushes, edits>>

\* add_file of what is there or replace_file of what is not is refused.
ValidAnyway(w) == TRUE
Valid(w) ==
    /\ asked[w].adds \cap Present(Tree(w)) = {}
    /\ asked[w].replaces \subseteq Present(Tree(w))

Validate(w) ==
    /\ pc[w] = "validate"
    /\ \/ ~Valid(w) /\ Leave(w, "INVALID_CHANGES")
       \/ Valid(w) /\ ref[name[w]] # None /\ Leave(w, "BRANCH_EXISTS")
       \/ Valid(w) /\ ref[name[w]] = None /\ Goto(w, "branch")
    /\ UNCHANGED <<mode, board, clone, trees, counts>>

\* original_branch and original_head are read, and git switch -c.
SwitchToNew(w, b) ==
    LET t == Tree(w) IN
    /\ ref' = [ref EXCEPT ![name[w]] = HeadCommit(t)]
    /\ head' = [head EXCEPT ![t] = name[w]]
    /\ detached' = [detached EXCEPT ![t] = HeadCommit(t)]
    /\ before' = [before EXCEPT ![w] = b]

MakeBranch(w) ==
    /\ pc[w] = "branch"
    /\ SwitchToNew(w, head[Tree(w)])
    /\ pc' = [pc EXCEPT ![w] = "write"]
    /\ UNCHANGED <<mode, board, tracking, main, work, lock, asked, name, made, outcome, botched,
                   touched, reply, counts>>

\* The name of the branch, or that and its commit, cannot be read.
MakeBranchBlindly(w) ==
    /\ pc[w] = "branch"
    /\ Fault
    /\ \E b \in {"detached", "unknown"} : SwitchToNew(w, b)
    /\ pc' = [pc EXCEPT ![w] = "write"]
    /\ botched' = [botched EXCEPT ![w] = TRUE]
    /\ UNCHANGED <<mode, board, tracking, main, work, lock, asked, name, made, outcome, touched,
                   reply, commits, pushes, edits>>

BranchFails(w) ==
    /\ pc[w] = "branch"
    /\ Fault
    /\ \/ Leave(w, "failed") \/ Raise(w)
    /\ UNCHANGED <<mode, board, clone, trees, commits, pushes, edits>>

\* Files that are to be added and files that are replaced are written alike.
Written(w, s) ==
    work' = [work EXCEPT ![Tree(w)] = [f \in Files |-> IF f \in s THEN "ours" ELSE @[f]]]

Write(w) ==
    /\ pc[w] = "write"
    /\ Written(w, Mine(w))
    /\ Goto(w, "commit")
    /\ UNCHANGED <<mode, board, clone, head, detached, counts>>

WriteFails(w) ==
    /\ pc[w] = "write"
    /\ Fault
    /\ \E s \in SUBSET Mine(w) : Written(w, s)
    /\ CleanUp(w)
    /\ UNCHANGED <<mode, board, clone, head, detached, commits, pushes, edits>>

\* git add -- changed_paths, git commit: what the user has staged goes along.
Committed(w) ==
    LET t == Tree(w)
        in == Mine(w) \cup {f \in Files : work[t][f] = "staged"}
        change == [id |-> commits + 1, adds |-> in \ InHead(t), replaces |-> in \cap InHead(t)]
    IN  /\ commits' = commits + 1
        /\ ref' = [ref EXCEPT ![name[w]].stack = Append(@, change)]
        /\ work' = [work EXCEPT ![t] = [f \in Files |-> IF f \in in THEN "clean" ELSE @[f]]]

MakeCommit(w) ==
    /\ pc[w] = "commit"
    /\ commits < MaxCommits
    /\ Committed(w)
    /\ made' = [made EXCEPT ![w] = ref'[name[w]]]
    /\ pc' = [pc EXCEPT ![w] = "gh"]
    /\ UNCHANGED <<mode, board, tracking, main, head, detached, lock, asked, name, before, outcome,
                   botched, touched, reply, pushes, faults, edits>>

\* Files replaced by what they were leave nothing to commit.
NothingToCommit(w) ==
    /\ pc[w] = "commit"
    /\ asked[w].adds = {}
    /\ CleanUp(w)
    /\ UNCHANGED <<mode, board, clone, trees, counts>>

CommitFails(w) ==
    /\ pc[w] = "commit"
    /\ Fault
    /\ \/ CleanUp(w) /\ UNCHANGED <<ref, work, commits>>
       \/ Raise(w) /\ UNCHANGED <<ref, work, commits>>
       \/ Raise(w) /\ commits < MaxCommits /\ Committed(w)
    /\ UNCHANGED <<mode, board, tracking, main, head, detached, pushes, edits>>

(***************************************************************************)
(* _cleanup_failed_authority_branch: reset --hard, remove what was         *)
(* created, switch back, branch -D                                         *)
(***************************************************************************)
Undone(w) ==
    LET t == Tree(w)
        was(f) == work[t][f]
    IN  [f \in Files |->
            IF f \in asked[w].adds \/ was(f) = "staged" \/ f \in InHead(t)
            THEN "clean" ELSE was(f)]

UndoReset(w) ==
    /\ pc[w] = "undo"
    /\ work' = [work EXCEPT ![Tree(w)] = Undone(w)]
    /\ Goto(w, "back")
    /\ UNCHANGED <<mode, board, clone, head, detached, counts>>

UndoSwitchBlindly(w) ==
    /\ pc[w] = "back"
    /\ head' = [head EXCEPT ![Tree(w)] = before[w]]
    /\ Goto(w, "drop")
    /\ UNCHANGED <<mode, board, clone, detached, work, counts>>

UndoSwitch(w) ==
    /\ pc[w] = "back"
    /\ head' = [head EXCEPT ![Tree(w)] = IF before[w] = "unknown" THEN @ ELSE before[w]]
    /\ Goto(w, "drop")
    /\ UNCHANGED <<mode, board, clone, detached, work, counts>>

BranchKept(w) == UNCHANGED ref

\* git refuses to delete a branch that is checked out somewhere.
Deleted(w) ==
    ref' = IF \E t \in Trees : head[t] = name[w] THEN ref ELSE [ref EXCEPT ![name[w]] = None]

UndoBranch(w) ==
    /\ pc[w] = "drop"
    /\ Deleted(w)
    /\ Leave(w, "failed")
    /\ UNCHANGED <<mode, board, tracking, main, trees, counts>>

\* What a reported failure leaves undone the next calls do not know of.
UndoFails(w) ==
    /\ pc[w] \in {"undo", "back", "drop"}
    /\ Fault
    /\ \/ Raise(w)
       \/ pc[w] = "drop" /\ LeaveAfter(w, "failed", TRUE)
       \/ /\ pc[w] # "drop"
          /\ pc' = [pc EXCEPT ![w] = IF @ = "undo" THEN "back" ELSE "drop"]
          /\ botched' = [botched EXCEPT ![w] = TRUE]
          /\ UNCHANGED <<lock, asked, name, before, made, outcome, touched, reply>>
    /\ UNCHANGED <<mode, board, clone, trees, commits, pushes, edits>>

(***************************************************************************)
(* gh auth status, git push, gh pr create                                  *)
(***************************************************************************)
Authenticate(w) ==
    /\ pc[w] = "gh"
    /\ \/ Goto(w, "push and open")
       \/ mode = "remote" /\ Goto(w, "push")
       \/ mode = "local" /\ Leave(w, "branch_prepared_pr_not_opened")
    /\ UNCHANGED <<mode, board, clone, trees, counts>>

PushForced(w) ==
    /\ pc[w] \in {"push", "push and open"}
    /\ pub' = [pub EXCEPT ![name[w]] = ref[name[w]]]
    /\ IF pc[w] = "push" THEN Leave(w, "branch_prepared_pr_not_opened") ELSE Goto(w, "pr")
    /\ UNCHANGED <<mode, canon, clone, trees, counts>>

\* The remote takes a push that only adds to the branch.
Push(w) ==
    /\ pc[w] \in {"push", "push and open"}
    /\ Board!FastForward(name[w], ref[name[w]])
    /\ pub' = [pub EXCEPT ![name[w]] = ref[name[w]]]
    /\ IF pc[w] = "push" THEN Leave(w, "branch_prepared_pr_not_opened") ELSE Goto(w, "pr")
    /\ UNCHANGED <<mode, canon, clone, trees, counts>>

NotPushed(w) ==
    IF mode = "remote" THEN Leave(w, "GIT_PUSH_FAILED") ELSE Leave(w, "branch_prepared_pr_not_opened")

Rejected(w) ==
    /\ pc[w] \in {"push", "push and open"}
    /\ ~Board!FastForward(name[w], ref[name[w]])
    /\ NotPushed(w)
    /\ UNCHANGED <<mode, board, clone, trees, counts>>

PushFails(w) ==
    /\ pc[w] \in {"push", "push and open"}
    /\ Fault
    /\ \/ UNCHANGED pub
       \/ /\ Board!FastForward(name[w], ref[name[w]])
          /\ pub' = [pub EXCEPT ![name[w]] = ref[name[w]]]
    /\ NotPushed(w) \/ Raise(w)
    /\ UNCHANGED <<mode, canon, clone, trees, commits, pushes, edits>>

Open(w) ==
    /\ pc[w] = "pr"
    /\ \E s \in Prepared : Leave(w, s)
    /\ UNCHANGED <<mode, board, clone, trees, counts>>

\* gh auth status, or gh pr create, or what they follow, times out.
GhFails(w) ==
    /\ pc[w] \in {"gh", "pr"}
    /\ Fault
    /\ Raise(w)
    /\ UNCHANGED <<mode, board, clone, trees, commits, pushes, edits>>

(***************************************************************************)
(* The finally clause of a remote proposal                                 *)
(***************************************************************************)
RemoveWorktree(w) ==
    /\ pc[w] = "remove"
    /\ head' = [head EXCEPT ![w] = "main"]
    /\ work' = [work EXCEPT ![w] = AllClean]
    /\ Goto(w, "delete")
    /\ UNCHANGED <<mode, board, clone, detached, counts>>

DeleteBranch(w) ==
    /\ pc[w] = "delete"
    /\ Deleted(w)
    /\ Answer(w, outcome[w])
    /\ UNCHANGED <<mode, board, tracking, main, trees, counts>>

RemoveFails(w) ==
    /\ pc[w] \in {"remove", "delete"}
    /\ Fault
    /\ \/ Answer(w, "raised")
       \/ pc[w] = "delete" /\ AnswerAfter(w, outcome[w], TRUE)
       \/ /\ pc[w] = "remove"
          /\ pc' = [pc EXCEPT ![w] = "delete"]
          /\ botched' = [botched EXCEPT ![w] = TRUE]
          /\ UNCHANGED <<lock, asked, name, before, made, outcome, touched, reply>>
    /\ UNCHANGED <<mode, board, clone, trees, commits, pushes, edits>>

(***************************************************************************)
(* Servers, reviewers and the workspace's user                             *)
(***************************************************************************)
Crash(w) ==
    /\ pc[w] # "down"
    /\ Fault
    /\ pc' = [pc EXCEPT ![w] = "down"]
    /\ lock' = IF lock = w THEN Orphan ELSE lock
    /\ reply' = [reply EXCEPT ![w] = NoReply]
    /\ Forget(w)
    /\ UNCHANGED <<mode, board, clone, trees, commits, pushes, edits>>

Restart(w) ==
    /\ pc[w] = "down"
    /\ pc' = [pc EXCEPT ![w] = "idle"]
    /\ UNCHANGED <<mode, board, clone, trees, lock, call, reply, counts>>

Review ==
    /\ pushes < MaxPushes
    /\ pushes' = pushes + 1
    /\ \/ \E n \in Names : Board!Merge(n)
       \/ \E f \in Files : Board!PushOwn(f)
    /\ UNCHANGED <<mode, clone, trees, lock, pc, call, reply, commits, faults, edits>>

UserActs ==
    /\ mode = "local"
    /\ edits < MaxEdits
    /\ edits' = edits + 1

UserWrites(f, k) ==
    /\ UserActs
    /\ \/ k \in {"edited", "staged"}
       \/ k = "clean" /\ \/ work["workspace"][f] \in {"edited", "staged"}
                         \/ \A w \in Writers : Idle(w)
    /\ work' = [work EXCEPT !["workspace"][f] = k]
    /\ touched' = [w \in Writers |-> ~Idle(w)]
    /\ UNCHANGED <<mode, board, clone, head, detached, lock, pc, asked, name, before, made, outcome,
                   botched, reply, commits, pushes, faults>>

\* Pull, go to another branch, or delete one, with nothing uncommitted.
UserMoves ==
    /\ UserActs
    /\ \A w \in Writers : Idle(w)
    /\ work["workspace"] = AllClean
    /\ \/ /\ head["workspace"] = "main"
          /\ tracking' = Len(canon) /\ main' = Len(canon)
          /\ UNCHANGED <<ref, head>>
       \/ /\ \E h \in {"main"} \cup {n \in Names : ref[n] # None} :
                head' = [head EXCEPT !["workspace"] = h]
          /\ UNCHANGED clone
       \/ /\ \E n \in Names \ {head["workspace"]} : ref' = [ref EXCEPT ![n] = None]
          /\ UNCHANGED <<tracking, main, head>>
    /\ UNCHANGED <<mode, board, detached, work, lock, pc, call, reply, commits, pushes, faults>>

Step(w) ==
    \/ Acquire(w) \/ Reclaim(w) \/ Exists(w) \/ Fetch(w) \/ AddWorktree(w) \/ Status(w)
    \/ Validate(w) \/ MakeBranch(w) \/ Write(w) \/ MakeCommit(w) \/ NothingToCommit(w)
    \/ UndoReset(w) \/ UndoSwitch(w) \/ UndoBranch(w) \/ Authenticate(w) \/ Push(w) \/ Rejected(w)
    \/ Open(w) \/ RemoveWorktree(w) \/ DeleteBranch(w)

StepFails(w) ==
    \/ TimeOut(w) \/ FetchFails(w) \/ AddWorktreeFails(w) \/ StatusFails(w)
    \/ MakeBranchBlindly(w) \/ BranchFails(w) \/ WriteFails(w) \/ CommitFails(w) \/ UndoFails(w)
    \/ PushFails(w) \/ GhFails(w) \/ RemoveFails(w)

Next ==
    \/ \E w \in Writers :
        \/ Step(w) \/ StepFails(w) \/ Crash(w) \/ Restart(w)
        \/ \E r \in Requests : Request(w, r[1], r[2])
    \/ Review
    \/ UserMoves \/ \E f \in Files, k \in {"clean", "edited", "staged"} : UserWrites(f, k)

Spec == Init /\ [][Next]_vars

(***************************************************************************)
(* The inductive invariant behind the properties.                          *)
(***************************************************************************)
OnBranch == {"write", "commit", "undo", "back", "gh", "push", "push and open", "pr"}

\* One call works at a time, in a workspace as in a clone, each on its way.
Alone == \A v, w \in Writers : pc[v] \in Holding /\ pc[w] \in Holding => v = w
OnItsWay(w) ==
    /\ mode = "local" =>
        pc[w] \notin {"lock", "exists", "fetch", "worktree", "push", "remove", "delete"}
    /\ before[w] # "unknown" => pc[w] \in OnBranch \cup {"drop", "remove", "delete"}
    /\ \/ outcome[w] = "none"
       \/ outcome[w] = "failed" /\ pc[w] \in {"undo", "back", "drop"}
       \/ pc[w] \in {"remove", "delete"}

\* What was checked out before is a branch that is there, and not the call's own.
CanGoBack(w) == before[w] \in Names => ref[before[w]] # None /\ before[w] # name[w]

\* A call makes a branch that was not there, and works on it alone.
OnItsBranch(w, t) ==
    /\ pc[w] = "branch" \/ (mode = "remote" /\ pc[w] \in {"fetch", "worktree", "status", "validate"})
        => ref[name[w]] = None
    /\ pc[w] \in OnBranch => head[t] = name[w]
    /\ pc[w] \in OnBranch \cup {"drop", "remove", "delete"} => \A u \in Trees \ {t} : head[u] # name[w]
    /\ pc[w] \in OnBranch \cup {"drop"} /\ ~botched[w] => before[w] # "unknown"
    /\ pc[w] = "drop" /\ ~botched[w] => head[t] = before[w]
    /\ pc[w] = "delete" /\ ~botched[w] => head[w] = "main"
    /\ mode = "remote" /\ pc[w] \in {"status", "validate", "branch"}
        => head[w] = "detached" /\ detached[w].stack = <<>>
    /\ mode = "remote" /\ pc[w] \in {"write", "commit"} => ref[name[w]].stack = <<>>

\* Its files are those it was asked to change, unless the user touched some.
FilesAreAsked(w, t) ==
    ~touched[w] =>
        /\ pc[w] \in {"validate", "branch", "write"} => work[t] = AllClean
        /\ pc[w] \in {"branch", "write", "commit", "undo"}
            => asked[w].adds \cap InHead(t) = {} /\ asked[w].replaces \subseteq InHead(t)
        /\ pc[w] \in {"commit", "undo"}
            => \A f \in Files : work[t][f] = "clean" \/ (work[t][f] = "ours" /\ f \in Mine(w))
        /\ pc[w] \in {"back", "drop"} /\ ~botched[w] => \A f \in Files : work[t][f] # "ours"

\* Commit c changes what was asked for, and nothing else.
IsAsked(c, a) ==
    LET last == Board!Last(c)
        there == Board!FilesAt(Board!Parent(c))
    IN  /\ last.adds = a.adds /\ last.replaces = a.replaces
        /\ last.adds \cap there = {} /\ last.replaces \subseteq there

IsPublished(n, c) == pub[n] # None /\ Board!IsAncestor(c, pub[n])

\* What a call has made, and what of it is published.
MadeIsAsked(w) ==
    /\ pc[w] \in {"gh", "push", "push and open", "pr"} => made[w] = ref[name[w]]
    /\ pc[w] \in {"gh", "push", "push and open", "pr"} \/ outcome[w] \in Prepared =>
        /\ ~touched[w] => IsAsked(made[w], asked[w])
        /\ mode = "remote" => Len(made[w].stack) = 1
    /\ pc[w] = "pr" \/ outcome[w] \in Prepared => IsPublished(name[w], made[w])

CallsAreOrderly ==
    /\ Alone
    /\ \A w \in Writers : OnItsWay(w) /\ CanGoBack(w) /\ MadeIsAsked(w)
    /\ \A w \in Writers : \A t \in {Tree(w)} : OnItsBranch(w, t) /\ FilesAreAsked(w, t)

\* Commits start from what the canonical branch has had, those of its own too.
Past(c) == c.base <= Len(canon)
CommitsArePast ==
    /\ tracking <= Len(canon) /\ main <= Len(canon)
    /\ \A i \in 1..Len(canon) : canon[i].base < i
    /\ \A n \in Names : (ref[n] # None => Past(ref[n])) /\ (pub[n] # None => Past(pub[n]))
    /\ \A t \in Trees : Past(detached[t])
    /\ \A w \in Writers : Past(made[w]) /\ Past(reply[w].commit)

\* A branch that is checked out is there.
HeadsExist ==
    /\ \A t \in Trees : head[t] \in Names => ref[head[t]] # None
    /\ mode = "local" => \A w \in Writers : head[w] = "main"
-----------------------------------------------------------------------------
\* A proposal that was prepared is the change that was asked for: the commit
\* the answer names changes just those files, adds only files and replaces only
\* files that its parent has not and has, and starts from a commit the canonical
\* branch has had; what the user touches meanwhile in the workspace is the one
\* exception.  A remote proposal is of one commit, and it is published, as a
\* proposal is whose pull request is open (_prepare_authority_change).
PreparedIsAsked ==
    \A w \in Writers :
        LET r == reply[w] IN
        r.status \in Prepared =>
            /\ Past(r.commit)
            /\ ~r.touched => IsAsked(r.commit, r.asked)
            /\ mode = "remote" => Len(r.commit.stack) = 1
            /\ mode = "remote" \/ r.status = "pr_opened" => IsPublished(r.name, r.commit)

\* A proposal that failed leaves nothing of its own behind unless cleaning up
\* failed as well: no branch of its name, no file that it wrote unless the user
\* touched some meanwhile, the branch the user had checked out, no worktree; and
\* one that fails before it makes anything changes nothing
\* (_cleanup_failed_authority_branch and the finally clause of
\* _prepare_remote_authority_change).
FailureRestores ==
    [][\A w \in Writers :
        /\ reply'[w] # reply[w]
        /\ reply'[w].status \in {"failed", "GIT_PUSH_FAILED", "GIT_PROPOSAL_FAILED"}
        /\ ~reply'[w].botched
        => IF pc[w] \in {"exists", "fetch"}
           THEN UNCHANGED <<ref, trees>>
           ELSE /\ ref'[name[w]] = None
                /\ IF mode = "local"
                   THEN /\ reply'[w].touched \/ \A f \in Files : work'["workspace"][f] # "ours"
                        /\ before[w] # "unknown" => head'["workspace"] = before[w]
                   ELSE head'[w] = "main"]_vars

\* A remote proposal holds the capture lock while it works in the shared clone,
\* and every way out releases it, a removal that times out included (the nested
\* finally clauses of _prepare_remote_authority_change).
LockHeldInside ==
    mode = "remote" => \A w \in Writers : lock = w <=> pc[w] \in Holding

\* The invariant the proofs carry.
IInv ==
    /\ TypeOK
    /\ LockHeldInside
    /\ CallsAreOrderly
    /\ CommitsArePast
    /\ HeadsExist
    /\ PreparedIsAsked

\* Proposals never touch the canonical branch, and what was published for
\* review is only ever added to.
ImplementsReviewBoard == Board!BoardSpec
=============================================================================
