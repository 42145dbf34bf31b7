---------------------------- MODULE CapturePublish ----------------------------
(***************************************************************************)
(* add_project_note.  With capture_git_mode: direct_push                   *)
(* (services._write_and_push_capture) a note is committed, under the       *)
(* capture lock, in a temporary worktree of the fetched branch and pushed, *)
(* once more if the push is rejected.  A workspace is then fast-forwarded  *)
(* and the note indexed; a remote repository is synchronized and the       *)
(* answer says whether the note can be retrieved.  With local_only         *)
(* (_write_local_capture) the note is written into the workspace itself,   *)
(* without the lock, and indexed; so is, with either, a draft              *)
(* (create_draft_artifact), which in a remote repository is pushed.        *)
(*                                                                         *)
(* Several servers write, other people push to the branch, the workspace's *)
(* user works in it, and a client may ask again for what was already       *)
(* written.  A git call succeeds, is reported failed, or times out, which  *)
(* leaves the tool by an exception; a push reported failed, or one whose   *)
(* time ran out, may have reached the remote.  A server may die between    *)
(* any two steps.                                                          *)
(*                                                                         *)
(* The branch is the sequence of its commits, each writing one file; a     *)
(* commit is the length of the branch with it.  Nobody deletes a note or   *)
(* rewrites the branch.                                                    *)
(***************************************************************************)
EXTENDS Naturals, Sequences

CONSTANTS
    Writers,        \* the servers
    Notes, Paths, PathOf, Others, Nowhere,      \* see NoteLog
    Drafts,         \* which of the notes are drafts
    InScope,        \* the paths the index takes
    Modes,          \* workspace or remote, pushed to; local: local_only
    Torn, Missing,  \* a file that is not wholly written; no file
    MaxPushes,      \* bound on the commits of other people
    MaxFaults,      \* bound on failed calls and crashes
    Free, Orphan    \* the capture lock is not owned (LockFile)

ASSUME CapturePublishAssumption ==
    /\ Notes # {} /\ PathOf \in [Notes -> Paths]
    /\ Nowhere \notin Paths
    /\ Notes \cap Others = {}
    /\ Drafts \subseteq Notes
    /\ InScope \subseteq Paths
    /\ Modes \subseteq {"workspace", "remote", "local"}
    /\ Torn # Missing /\ {Torn, Missing} \cap (Notes \cup Others) = {}
    /\ MaxPushes \in Nat /\ MaxFaults \in Nat
    /\ Free # Orphan /\ {Free, Orphan} \cap Writers = {}

VARIABLES
    mode,           \* source_mode of the capture repository, or local
    branch,         \* the capture branch at its remote
    tracking,       \* refs/remotes/<remote>/<branch> in the checkout
    at,             \* the commit the checkout is at, of either of its branches
    current,        \* the branch that is checked out
    own,            \* the uncommitted files, of the user or written in place
    indexed,        \* the documents that have chunks in the index
    stamp,          \* the commit of a remote repository's index
    lock,           \* the capture lock
    pc,             \* where each call of the tool is
    note,           \* what it is to write
    attempt,        \* how often it has tried
    base,           \* the commit of its worktree
    commit,         \* the commit it pushed, 0 if it could not be named
    found,          \* whether the answer will say indexed
    reply,          \* what each server answered to its last call
    raced,          \* paths whose file came while a call was about to write it
    pushes, faults

checkout == <<tracking, at, current, own>>
index == <<indexed, stamp>>
call == <<note, attempt, base, commit, found>>
vars == <<mode, branch, checkout, index, lock, pc, call, reply, pushes, raced, faults>>

Log == INSTANCE NoteLog WITH log <- branch

\* The paths of the first c commits of a branch b.
PathsUpTo(b, c) == {b[i].path : i \in 1..c}
PathsAt(c) == PathsUpTo(branch, c)

\* The files of the checkout: what each path has, and which have something.
Files == Notes \cup Others \cup {Torn, Missing}
Own == {p \in Paths : own[p] # Missing}
Present == PathsAt(at[current]) \cup Own

TextAt(c, p) ==
    LET texts == {t \in Notes \cup Others : \E i \in 1..c : branch[i] = [path |-> p, text |-> t]}
    IN  IF texts = {} THEN Missing ELSE CHOOSE t \in texts : TRUE

File(p) == IF p \in Own THEN own[p] ELSE TextAt(at[current], p)

Holding == {"fetch", "add", "write", "push", "refresh", "refetch", "merge", "index", "cleanup"}
Locations ==
    {"down", "idle", "lock", "sync", "confirm", "chunks", "place", "fill", "reindex"} \cup Holding
Pushed == {"refresh", "refetch", "merge", "index", "cleanup", "sync", "confirm", "chunks"}
Statuses == {"none", "TARGET_EXISTS", "push_failed", "sync_conflict", "raised",
             "written_and_pushed", "WRITE_FAILED", "local_only", "written"}
InPlaceStatuses == {"local_only", "written"}

Replies == [status : Statuses, note : Notes, commit : Nat, indexed : BOOLEAN]

RepositoryTypeOK ==
    /\ mode \in Modes
    /\ branch \in Seq(Log!Change)
    /\ tracking \in Nat
    /\ at \in [{"capture", "other"} -> Nat]
    /\ current \in {"capture", "other"}
    /\ own \in [Paths -> Files]
    /\ indexed \in [Paths -> Files]
    /\ raced \subseteq Paths
    /\ stamp \in Nat
    /\ pushes \in Nat /\ faults \in Nat

CallTypeOK ==
    /\ lock \in Writers \cup {Free, Orphan}
    /\ pc \in [Writers -> Locations]
    /\ note \in [Writers -> Notes]
    /\ attempt \in [Writers -> 1..2]
    /\ base \in [Writers -> Nat]
    /\ commit \in [Writers -> Nat]
    /\ found \in [Writers -> BOOLEAN]
    /\ reply \in [Writers -> Replies]

TypeOK == RepositoryTypeOK /\ CallTypeOK

NoReply == [status |-> "none", note |-> CHOOSE n \in Notes : TRUE, commit |-> 0, indexed |-> FALSE]

Init ==
    /\ mode \in Modes
    /\ branch = <<>>
    /\ tracking = 0
    /\ at = [b \in {"capture", "other"} |-> 0]
    /\ current = "capture"
    /\ own = [p \in Paths |-> Missing]
    /\ indexed = [p \in Paths |-> Missing]
    /\ stamp = 0
    /\ lock = Free
    /\ pc = [w \in Writers |-> "idle"]
    /\ note = [w \in Writers |-> NoReply.note]
    /\ attempt = [w \in Writers |-> 1]
    /\ base = [w \in Writers |-> 0]
    /\ commit = [w \in Writers |-> 0]
    /\ found = [w \in Writers |-> FALSE]
    /\ reply = [w \in Writers |-> NoReply]
    /\ raced = {}
    /\ pushes = 0
    /\ faults = 0

Fault == faults < MaxFaults /\ faults' = faults + 1

Goto(w, l) == pc' = [pc EXCEPT ![w] = l] /\ UNCHANGED <<lock, call, reply>>

\* The finally clauses.
LockKept(w) == UNCHANGED lock
LockReleased(w) == lock' = IF lock = w THEN Free ELSE lock

\* The tool answers, whether the note is indexed included.
AnswerIndexed(w, s, i) ==
    /\ LockReleased(w)
    /\ pc' = [pc EXCEPT ![w] = "idle"]
    /\ reply' = [reply EXCEPT ![w] =
            [status |-> s, note |-> note[w], commit |-> commit[w], indexed |-> i]]
    /\ attempt' = [attempt EXCEPT ![w] = 1]
    /\ base' = [base EXCEPT ![w] = 0]
    /\ commit' = [commit EXCEPT ![w] = 0]
    /\ found' = [found EXCEPT ![w] = FALSE]
    /\ note' = [note EXCEPT ![w] = NoReply.note]

Answer(w, s) == AnswerIndexed(w, s, FALSE)

\* A call that failed, reported by git or by a time-out.
Fails(w) == \E s \in {"push_failed", "raised"} : Answer(w, s)

(***************************************************************************)
(* add_project_note_from_config, create_draft_artifact_from_config and the *)
(* capture lock                                                            *)
(***************************************************************************)
Awaited(p) == \E w \in Writers : pc[w] = "place" /\ PathOf[note[w]] = p

InPlace(n) == mode = "local" \/ (mode = "workspace" /\ n \in Drafts)

Begin(w, n) ==
    /\ pc' = [pc EXCEPT ![w] = IF InPlace(n) THEN "place" ELSE "lock"]
    /\ note' = [note EXCEPT ![w] = n]
    /\ reply' = [reply EXCEPT ![w] = NoReply]

RequestUnchecked(w, n) ==
    /\ pc[w] = "idle"
    /\ Begin(w, n)
    /\ raced' = IF Awaited(PathOf[n]) THEN raced \cup {PathOf[n]} ELSE raced
    /\ UNCHANGED <<mode, branch, checkout, index, lock, attempt, base, commit, found, pushes, faults>>

Request(w, n) ==
    /\ pc[w] = "idle"
    /\ IF PathOf[n] \in Present
       THEN /\ reply' = [reply EXCEPT ![w] =
                    [status |-> "TARGET_EXISTS", note |-> n, commit |-> 0, indexed |-> FALSE]]
            /\ UNCHANGED <<pc, note, raced>>
       ELSE /\ Begin(w, n)
            /\ raced' = IF Awaited(PathOf[n]) THEN raced \cup {PathOf[n]} ELSE raced
    /\ UNCHANGED <<mode, branch, checkout, index, lock, attempt, base, commit, found, pushes, faults>>

Acquire(w) ==
    /\ pc[w] = "lock"
    /\ lock = Free
    /\ lock' = w
    /\ pc' = [pc EXCEPT ![w] = "fetch"]
    /\ UNCHANGED <<mode, branch, checkout, index, call, reply, pushes, raced, faults>>

Reclaim(w) ==
    /\ pc[w] \in {"lock", "sync"}
    /\ lock = Orphan
    /\ lock' = Free
    /\ UNCHANGED <<mode, branch, checkout, index, pc, call, reply, pushes, raced, faults>>

TimeOut(w) ==
    /\ pc[w] = "lock"
    /\ lock \in Writers
    /\ Answer(w, "push_failed")
    /\ UNCHANGED <<mode, branch, checkout, index, pushes, raced, faults>>

(***************************************************************************)
(* _write_and_push_capture_once                                            *)
(***************************************************************************)
Fetch(w) ==
    /\ pc[w] = "fetch"
    /\ tracking' = Len(branch)
    /\ Goto(w, "add")
    /\ UNCHANGED <<mode, branch, at, current, own, index, pushes, raced, faults>>

\* remote get-url, fetch, rev-parse
FetchFails(w) ==
    /\ pc[w] = "fetch"
    /\ Fault
    /\ tracking' \in {tracking, Len(branch)}
    /\ Fails(w)
    /\ UNCHANGED <<mode, branch, at, current, own, index, pushes, raced>>

\* The worktree is of the tracking branch, as it is by then.
AddWorktree(w) ==
    /\ pc[w] = "add"
    /\ base' = [base EXCEPT ![w] = tracking]
    /\ pc' = [pc EXCEPT ![w] = "write"]
    /\ UNCHANGED <<mode, branch, checkout, index, lock, note, attempt, commit, found, reply,
                   pushes, raced, faults>>

\* _safe_repo_write_path in the worktree, write, add, commit
WriteUnchecked(w) ==
    /\ pc[w] = "write"
    /\ Goto(w, "push")
    /\ UNCHANGED <<mode, branch, checkout, index, pushes, raced, faults>>

Write(w) ==
    /\ pc[w] = "write"
    /\ IF PathOf[note[w]] \in PathsAt(base[w])
       THEN Answer(w, "TARGET_EXISTS")
       ELSE Goto(w, "push")
    /\ UNCHANGED <<mode, branch, checkout, index, pushes, raced, faults>>

WriteFails(w) ==
    /\ pc[w] \in {"add", "write"}
    /\ Fault
    /\ Fails(w)
    /\ UNCHANGED <<mode, branch, checkout, index, pushes, raced>>

\* The remote takes the push if the branch has not moved since the fetch.
Landed(w) ==
    /\ Len(branch) = base[w]
    /\ branch' = Append(branch, [path |-> PathOf[note[w]], text |-> note[w]])

\* The commit is named by a rev-parse before, whose failure leaves it unnamed.
Push(w) ==
    /\ pc[w] = "push"
    /\ Landed(w)
    /\ tracking' = base[w] + 1
    /\ \/ commit' = [commit EXCEPT ![w] = base[w] + 1] /\ UNCHANGED faults
       \/ commit' = [commit EXCEPT ![w] = 0] /\ Fault
    /\ pc' = [pc EXCEPT ![w] = IF mode = "workspace" THEN "refresh" ELSE "cleanup"]
    /\ UNCHANGED <<mode, at, current, own, index, lock, note, attempt, base, found, reply, pushes, raced>>

RetryForever(w) ==
    /\ attempt' = [attempt EXCEPT ![w] = @ + 1]
    /\ pc' = [pc EXCEPT ![w] = "fetch"]
    /\ UNCHANGED <<lock, note, base, commit, found, reply>>

\* _is_push_rejection: the first rejection is followed by another attempt.
Retry(w) ==
    IF attempt[w] = 1
    THEN /\ attempt' = [attempt EXCEPT ![w] = 2]
         /\ pc' = [pc EXCEPT ![w] = "fetch"]
         /\ UNCHANGED <<lock, note, base, commit, found, reply>>
    ELSE Answer(w, "sync_conflict")

RejectionIgnored(w) ==
    /\ pc[w] = "push"
    /\ Len(branch) # base[w]
    /\ commit' = [commit EXCEPT ![w] = base[w] + 1]
    /\ pc' = [pc EXCEPT ![w] = "cleanup"]
    /\ UNCHANGED <<mode, branch, checkout, index, lock, note, attempt, base, found, reply,
                   pushes, raced, faults>>

Rejected(w) ==
    /\ pc[w] = "push"
    /\ Len(branch) # base[w]
    /\ Retry(w)
    /\ UNCHANGED <<mode, branch, checkout, index, pushes, raced, faults>>

\* A hook declines the push, in words that look like a rejection.
Declined(w) ==
    /\ pc[w] = "push"
    /\ Fault
    /\ Retry(w)
    /\ UNCHANGED <<mode, branch, checkout, index, pushes, raced>>

PushFails(w) ==
    /\ pc[w] = "push"
    /\ Fault
    /\ Landed(w) \/ UNCHANGED branch
    /\ Fails(w)
    /\ UNCHANGED <<mode, checkout, index, pushes, raced>>

(***************************************************************************)
(* _maybe_fast_forward_capture_workspace and _index_written_document       *)
(***************************************************************************)
CheckWorkspace(w) ==
    /\ pc[w] = "refresh"
    /\ Goto(w, IF current = "capture" /\ Own = {} THEN "refetch" ELSE "index")
    /\ UNCHANGED <<mode, branch, checkout, index, pushes, raced, faults>>

Refetch(w) ==
    /\ pc[w] = "refetch"
    /\ tracking' = Len(branch)
    /\ Goto(w, "merge")
    /\ UNCHANGED <<mode, branch, at, current, own, index, pushes, raced, faults>>

RefetchFails(w) ==
    /\ pc[w] \in {"refresh", "refetch"}
    /\ Fault
    /\ Goto(w, "index")
    /\ UNCHANGED <<mode, branch, checkout, index, pushes, raced>>

\* merge --ff-only, of whichever branch is checked out by now; local commits
\* or files of the user may be in its way.
Merge(w) ==
    /\ pc[w] = "merge"
    /\ \/ /\ Own \cap (PathsAt(tracking) \ PathsAt(at[current])) = {}
          /\ at' = [at EXCEPT ![current] = IF @ < tracking THEN tracking ELSE @]
       \/ UNCHANGED at
    /\ Goto(w, "index")
    /\ UNCHANGED <<mode, branch, tracking, current, own, index, pushes, raced, faults>>

\* index_document: an error is caught, and a path that the index leaves out is one.
Index(p, done) ==
    /\ \/ done = (p \in Present \cap InScope) /\ UNCHANGED faults
       \/ done = FALSE /\ Fault
    /\ indexed' = IF done THEN [indexed EXCEPT ![p] = File(p)] ELSE indexed

IndexNote(w) ==
    /\ pc[w] = "index"
    /\ \E done \in BOOLEAN :
        /\ Index(PathOf[note[w]], done)
        /\ found' = [found EXCEPT ![w] = done]
    /\ pc' = [pc EXCEPT ![w] = "cleanup"]
    /\ UNCHANGED <<mode, branch, checkout, stamp, lock, note, attempt, base, commit, reply,
                   pushes, raced>>

\* The finally clauses: the worktree is removed, the lock released.
Cleanup(w) ==
    /\ pc[w] = "cleanup"
    /\ IF mode = "workspace"
       THEN AnswerIndexed(w, "written_and_pushed", found[w])
       ELSE /\ lock' = Free
            /\ pc' = [pc EXCEPT ![w] = "sync"]
            /\ UNCHANGED <<call, reply>>
    /\ UNCHANGED <<mode, branch, checkout, index, pushes, raced, faults>>

\* Any call after the push may time out, or SQLite fail.
RaisesLate(w) ==
    /\ pc[w] \in Pushed
    /\ Fault
    /\ Answer(w, "raised")
    /\ UNCHANGED <<mode, branch, checkout, index, pushes, raced>>

(***************************************************************************)
(* _write_local_capture, create_draft_artifact_from_config: write_text     *)
(* empties the file, then fills it                                         *)
(***************************************************************************)
Truncate(w) ==
    /\ pc[w] = "place"
    /\ own' = [own EXCEPT ![PathOf[note[w]]] = Torn]
    /\ Goto(w, "fill")
    /\ UNCHANGED <<mode, branch, tracking, at, current, index, pushes, raced, faults>>

\* Over what another server has written meanwhile, the result may be of both.
Fill(w) ==
    /\ pc[w] = "fill"
    /\ LET p == PathOf[note[w]] IN
        \/ own' = [own EXCEPT ![p] = note[w]]
        \/ own[p] # Torn /\ own' = [own EXCEPT ![p] = Torn]
    /\ Goto(w, "reindex")
    /\ UNCHANGED <<mode, branch, tracking, at, current, index, pushes, raced, faults>>

PlaceFails(w) ==
    /\ Fault
    /\ \/ pc[w] \in {"place", "fill"} /\ UNCHANGED own
       \/ pc[w] = "fill" /\ own' = [own EXCEPT ![PathOf[note[w]]] = Torn]
    /\ Answer(w, "WRITE_FAILED")
    /\ UNCHANGED <<mode, branch, tracking, at, current, index, pushes, raced>>

IndexInPlace(w) ==
    /\ pc[w] = "reindex"
    /\ \E done \in BOOLEAN :
        /\ Index(PathOf[note[w]], done)
        /\ AnswerIndexed(w, IF note[w] \in Drafts THEN "written" ELSE "local_only", done)
    /\ UNCHANGED <<mode, branch, checkout, stamp, pushes, raced>>

\* SQLite fails.
IndexRaises(w) ==
    /\ pc[w] = "reindex"
    /\ Fault
    /\ Answer(w, "raised")
    /\ UNCHANGED <<mode, branch, checkout, index, pushes, raced>>

(***************************************************************************)
(* sync_project (CanonicalSync), by this call or in another server         *)
(***************************************************************************)
Synchronize ==
    /\ lock = Free
    /\ tracking' = Len(branch)
    /\ at' = [at EXCEPT !["capture"] = Len(branch)]
    /\ stamp' = Len(branch)
    /\ indexed' = [p \in Paths |-> IF p \in InScope THEN TextAt(Len(branch), p) ELSE Missing]

SyncAfterPush(w) ==
    /\ pc[w] = "sync"
    /\ Synchronize
    /\ Goto(w, "confirm")
    /\ UNCHANGED <<mode, branch, current, own, pushes, raced, faults>>

\* The capture lock is taken, or the synchronization fails: reindex_needed.
SyncFails(w) ==
    /\ pc[w] = "sync"
    /\ \/ lock # Free /\ UNCHANGED faults
       \/ Fault
    /\ Answer(w, "written_and_pushed")
    /\ UNCHANGED <<mode, branch, checkout, index, pushes, raced>>

SyncByOther ==
    /\ mode = "remote"
    /\ Synchronize
    /\ UNCHANGED <<mode, branch, current, own, lock, pc, call, reply, pushes, raced, faults>>

\* last_indexed_commit is the pushed commit
Confirm(w) ==
    /\ pc[w] = "confirm"
    /\ IF stamp = commit[w]
       THEN Goto(w, "chunks")
       ELSE Answer(w, "written_and_pushed")
    /\ UNCHANGED <<mode, branch, checkout, index, pushes, raced, faults>>

ChunksAssumed(w) == TRUE
HasChunks(w) == indexed[PathOf[note[w]]] # Missing

ConfirmChunks(w) ==
    /\ pc[w] = "chunks"
    /\ AnswerIndexed(w, "written_and_pushed", HasChunks(w))
    /\ UNCHANGED <<mode, branch, checkout, index, pushes, raced, faults>>

(***************************************************************************)
(* Servers, other people and the workspace's user                          *)
(***************************************************************************)
Crash(w) ==
    /\ pc[w] # "down"
    /\ Fault
    /\ pc' = [pc EXCEPT ![w] = "down"]
    /\ lock' = IF lock = w THEN Orphan ELSE lock
    /\ reply' = [reply EXCEPT ![w] = NoReply]
    /\ note' = [note EXCEPT ![w] = NoReply.note]
    /\ attempt' = [attempt EXCEPT ![w] = 1]
    /\ base' = [base EXCEPT ![w] = 0]
    /\ commit' = [commit EXCEPT ![w] = 0]
    /\ found' = [found EXCEPT ![w] = FALSE]
    /\ UNCHANGED <<mode, branch, checkout, index, pushes, raced>>

Restart(w) ==
    /\ pc[w] = "down"
    /\ pc' = [pc EXCEPT ![w] = "idle"]
    /\ UNCHANGED <<mode, branch, checkout, index, lock, call, reply, pushes, raced, faults>>

PushByOthers ==
    /\ mode # "local"
    /\ pushes < MaxPushes
    /\ pushes' = pushes + 1
    /\ Log!PushedByOthers
    /\ UNCHANGED <<mode, checkout, index, lock, pc, call, reply, raced, faults>>

\* In a workspace: pull, switch branches, make or remove a file.  Notes written
\* in place are left where they are, and nothing is pulled around them.
UserPulls ==
    /\ mode = "workspace"
    /\ Own \cap (PathsAt(Len(branch)) \ PathsAt(at[current])) = {}
    /\ tracking' = Len(branch)
    /\ at' = [at EXCEPT ![current] = Len(branch)]
    /\ UNCHANGED <<mode, branch, current, own, index, lock, pc, call, reply, pushes, raced, faults>>

UserSwitches ==
    /\ mode = "workspace"
    /\ current' = IF current = "capture" THEN "other" ELSE "capture"
    /\ Own \cap PathsAt(at["capture"]) = Own \cap PathsAt(at["other"])
    /\ UNCHANGED <<mode, branch, tracking, at, own, index, lock, pc, call, reply, pushes, raced, faults>>

UserEdits(p) ==
    /\ mode # "remote"
    /\ \/ /\ p \notin Present
          /\ \E t \in Others : own' = [own EXCEPT ![p] = t]
          /\ raced' = IF Awaited(p) THEN raced \cup {p} ELSE raced
       \/ /\ own[p] \in Others \cup {Torn}
          /\ ~\E w \in Writers : pc[w] = "fill" /\ PathOf[note[w]] = p
          /\ own' = [own EXCEPT ![p] = Missing]
          /\ UNCHANGED raced
    /\ UNCHANGED <<mode, branch, tracking, at, current, index, lock, pc, call, reply, pushes, faults>>

Step(w) ==
    \/ Reclaim(w) \/ Fetch(w) \/ AddWorktree(w) \/ Write(w) \/ Push(w) \/ Rejected(w)
    \/ CheckWorkspace(w) \/ Refetch(w) \/ Merge(w) \/ IndexNote(w) \/ Cleanup(w)
    \/ SyncAfterPush(w) \/ SyncFails(w) \/ Confirm(w) \/ ConfirmChunks(w)
    \/ Truncate(w) \/ Fill(w) \/ IndexInPlace(w)

StepFails(w) ==
    \/ TimeOut(w) \/ FetchFails(w) \/ WriteFails(w) \/ Declined(w) \/ PushFails(w)
    \/ RefetchFails(w) \/ RaisesLate(w) \/ PlaceFails(w) \/ IndexRaises(w)

Next ==
    \/ \E w \in Writers :
        \/ Acquire(w) \/ Step(w) \/ StepFails(w) \/ Crash(w) \/ Restart(w)
        \/ \E n \in Notes : Request(w, n)
    \/ SyncByOther \/ PushByOthers
    \/ UserPulls \/ UserSwitches \/ \E p \in Paths : UserEdits(p)

Spec == Init /\ [][Next]_vars

(***************************************************************************)
(* The inductive invariant behind the properties.                          *)
(***************************************************************************)
\* Tracking branch and worktrees are of commits the branch has had.
BasesArePast ==
    /\ tracking <= Len(branch)
    /\ \A w \in Writers : base[w] <= Len(branch)

\* What is about to be pushed is for a path its worktree did not have.
TargetIsFree ==
    \A w \in Writers : pc[w] = "push" => PathOf[note[w]] \notin PathsAt(base[w])

IsCommitOf(b, c, n) == c \in 1..Len(b) /\ b[c] = [path |-> PathOf[n], text |-> n]

\* The note is in the branch, in commit c unless that is unknown.
IsPublished(b, c, n) == \E i \in 1..Len(b) : IsCommitOf(b, i, n) /\ c \in {0, i}

PushedIsCommitted ==
    \A w \in Writers : pc[w] \in Pushed => IsPublished(branch, commit[w], note[w])

\* What a call that writes in place has before it, after it was the first at
\* its path to look, to empty the file, and to fill it.
FileInPlace ==
    \A w \in Writers :
        LET p == PathOf[note[w]] IN
        \/ p \in raced
        \/ /\ pc[w] = "place" => own[p] = Missing
           /\ pc[w] = "fill" => own[p] = Torn
           /\ pc[w] = "reindex" => own[p] = note[w]

\* Two calls are at the same place of the same file only after a race.
OneInPlace ==
    \A v, w \in Writers :
        v # w /\ pc[v] = pc[w] /\ pc[w] \in {"place", "fill"} /\ PathOf[note[v]] = PathOf[note[w]]
            => PathOf[note[w]] \in raced

\* The drafts of a path, and what one that is being written leaves there.
DraftAt(p) ==
    LET drafts == {d \in Drafts : PathOf[d] = p}
    IN  IF drafts = {} THEN {} ELSE drafts \cup {Torn}

\* Each mode has its own way, and its own answers.
WayFitsMode ==
    \A w \in Writers :
        /\ pc[w] \in {"lock", "sync", "confirm", "chunks"} \cup Holding => ~InPlace(note[w])
        /\ pc[w] \in {"place", "fill", "reindex"} => InPlace(note[w])
        /\ pc[w] \in {"refresh", "refetch", "merge", "index"} => mode = "workspace"
        /\ pc[w] \in {"sync", "confirm", "chunks"} => mode = "remote"
        /\ found[w] => pc[w] = "cleanup" /\ mode = "workspace"
        /\ reply[w].status \in InPlaceStatuses => InPlace(reply[w].note)
        /\ reply[w].status = "written_and_pushed" => ~InPlace(reply[w].note)
        /\ reply[w].indexed => reply[w].status \in {"written_and_pushed"} \cup InPlaceStatuses

\* A path is written to once on the branch, and the checkout is of its past.
OnePerPath ==
    \A i, j \in 1..Len(branch) : branch[i].path = branch[j].path /\ branch[i].path \in Paths => i = j
CheckoutIsPast == \A b \in {"capture", "other"} : at[b] <= Len(branch)

\* In a workspace that is pushed to, only drafts and its user write in place.
FilesAreTheUsers ==
    mode = "workspace" => \A p \in Paths : own[p] \in {Missing} \cup Others \cup DraftAt(p)

\* A remote repository's index is of a commit of the branch.
IndexIsOfCommit ==
    mode = "remote" =>
        /\ stamp <= Len(branch)
        /\ \A p \in Paths : indexed[p] = IF p \in InScope THEN TextAt(stamp, p) ELSE Missing

\* What the index has at the path of a note that was pushed as commit c, or
\* written in place.
IndexHas(n, c) ==
    LET p == PathOf[n]  i == indexed[p] IN
    IF InPlace(n)
    THEN i = n \/ p \in raced
    ELSE CASE mode = "remote" -> i = n /\ stamp >= c
           [] mode = "workspace" -> i \in {n} \cup Others \cup DraftAt(p)

\* What a call was told of the index is so.
FoundIsIndexed ==
    \A w \in Writers :
        /\ found[w] => IndexHas(note[w], commit[w])
        /\ pc[w] = "chunks" => stamp >= commit[w]
-----------------------------------------------------------------------------
\* The note of an answer written_and_pushed is on the capture branch, in the
\* commit that the answer names if it names one, whatever was rejected and tried
\* again before (_write_and_push_capture).
ReportedIsPublished ==
    \A w \in Writers : reply[w].status = "written_and_pushed" =>
        IsPublished(branch, reply[w].commit, reply[w].note)

\* An answer that says indexed is true, and stays so.  The index has the note
\* at its path, of its commit or a later one where the repository is remote,
\* although other servers synchronize between the check of the commit and that of
\* the chunks.  In a workspace that is pushed to, a file that the user has made
\* there, or a draft that is being written there, keeps the fast-forward out and is
\* indexed in the note's place (_index_written_document is asked for a path).
IndexedIsRetrievable ==
    \A w \in Writers : reply[w].indexed =>
        LET p == PathOf[reply[w].note]  i == indexed[p] IN
        IF reply[w].status \in InPlaceStatuses
        THEN i = reply[w].note \/ p \in raced
        ELSE CASE mode = "remote" -> i = reply[w].note /\ stamp >= reply[w].commit
               [] mode = "workspace" -> i \in {reply[w].note} \cup Others \cup DraftAt(p)

\* A note written in place stays whole in its file, whatever is asked for or
\* fails or is killed later, at every path whose file did not come while a
\* call was between its look at the target and its write: nothing but the look
\* of _safe_repo_write_path keeps write_text from emptying a file.
WrittenIsKept ==
    \A w \in Writers : reply[w].status \in InPlaceStatuses =>
        LET p == PathOf[reply[w].note] IN own[p] = reply[w].note \/ p \in raced

\* The capture lock is held from the fetch to the removal of the worktree, and
\* released on every way out: answers, rejections, failures and exceptions
\* (the finally clause of _write_and_push_capture).
LockHeldInside == \A w \in Writers : lock = w <=> pc[w] \in Holding

\* The invariant the proofs carry.
IInv ==
    /\ TypeOK
    /\ LockHeldInside
    /\ BasesArePast
    /\ TargetIsFree
    /\ PushedIsCommitted
    /\ ReportedIsPublished
    /\ FileInPlace
    /\ OneInPlace
    /\ WrittenIsKept
    /\ WayFitsMode
    /\ OnePerPath
    /\ CheckoutIsPast
    /\ FilesAreTheUsers
    /\ IndexIsOfCommit
    /\ FoundIsIndexed
    /\ IndexedIsRetrievable

\* The capture branch only grows, a note gets on it at most once however often
\* it is asked for, and no note takes the place of a file that is there:
\* two servers, other people's pushes, and pushes that were reported failed but
\* reached the remote included.
ImplementsNoteLog == Log!LogSpec
=============================================================================
