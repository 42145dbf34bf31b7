---------------------------- MODULE WorkspaceIndex ----------------------------
(***************************************************************************)
(* The index of a local repository (`source_mode: workspace | snapshot`)   *)
(* and the check that calls it current: index.index_repo, the single       *)
(* document indexing after a note is written (index.index_document,        *)
(* services._write_local_capture) and services._repo_staleness_status.     *)
(*                                                                         *)
(* The files belong to the user, who edits, commits, pulls and discards    *)
(* while the server works.  The server reads HEAD, the worktree status and *)
(* every file one after the other, and stores what it read in one SQLite   *)
(* transaction; the check reads HEAD first and the status after other git  *)
(* calls.  The tools run one at a time under the project lock, so one of   *)
(* them is under way at most.                                              *)
(*                                                                         *)
(* A content is a version number; every edit makes a new one.              *)
(***************************************************************************)
EXTENDS Integers

CONSTANTS
    Docs,           \* paths of indexable documents
    Notes,          \* those the write tools may create
    Quoted,         \* those whose name `git status` prints quoted, with escapes
    Configs,        \* configurations of the repository, see Configuration
    MaxCommit,      \* bound on commits
    MaxVersion      \* bound on versions of contents

\* mode, includes_uncommitted_changes, auto_reindex_after_note_write; and
\* whether files change while they are being indexed (then no file goes back
\* to a content it had before).  They always may while they are being checked.
Configuration == [mode : {"workspace", "snapshot"}, includes : BOOLEAN,
                  auto : BOOLEAN, editing : BOOLEAN]

ASSUME WorkspaceAssumption ==
    /\ Notes \subseteq Docs /\ Quoted \subseteq Docs
    /\ Configs \subseteq {c \in Configuration : c.mode = "snapshot" => ~c.includes}
    /\ MaxCommit \in Nat \ {0} /\ MaxVersion \in Nat \ {0}

Commits == 1..MaxCommit
Pinned == 1                 \* snapshot_commit
NoCommit == 0
Absent == 0
Content == 0..MaxVersion
Contents == [Docs -> Content]
NoFiles == [d \in Docs |-> Absent]

VARIABLES
    config,
    head,           \* HEAD of the repository
    latest,         \* the last commit made
    trees,          \* the contents of every commit
    files,          \* the contents of the worktree
    version,        \* the last version made
    row,            \* the row of the repository in the table repos
    docs,           \* the documents in the index
    tool            \* the tool that is under way

disk == <<head, latest, trees, files, version>>
index == <<row, docs>>
vars == <<config, disk, index, tool>>

NoRow == [mode |-> "none", includes |-> FALSE, commit |-> NoCommit, status |-> NoFiles]

\* `git status` and the files it lists, those that are not as committed, each
\* with its content: what worktree_fingerprint digests.  It does not find a file
\* under its escaped name, and digests no more than that it changed.
Unchanged == -1
Changed == -2
Clean == [d \in Docs |-> Unchanged]
Digest(d) == IF d \in Quoted /\ files[d] # Absent THEN Changed ELSE files[d]
Status == [d \in Docs |-> IF files[d] = trees[head][d] THEN Unchanged ELSE Digest(d)]
Statuses == [Docs -> Content \cup {Unchanged, Changed}]

Idle == [kind |-> "none", step |-> "none", pending |-> {}, commit |-> NoCommit,
         status |-> Clean, read |-> NoFiles]

TypeOK ==
    /\ config \in Configs
    /\ head \in Commits /\ latest \in Commits
    /\ trees \in [Commits -> Contents]
    /\ files \in Contents
    /\ version \in Content
    /\ row \in [mode : {"none", "workspace", "snapshot"}, includes : BOOLEAN,
                commit : Commits \cup {NoCommit}, status : Statuses]
    /\ docs \in Contents
    /\ tool \in [kind : {"none", "index_repo", "index_document", "check"},
                 step : {"none", "head", "status", "files", "store"},
                 pending : SUBSET Docs, commit : Commits \cup {NoCommit},
                 status : Statuses, read : Contents]
    /\ tool.kind = "none" <=> tool.step = "none"
    /\ tool.kind = "index_repo" /\ tool.step = "store" => tool.pending = {}

Init ==
    /\ config \in Configs
    /\ head = Pinned /\ latest = Pinned
    /\ \E first \in [Docs -> {Absent, 1}] :
        /\ \A d \in Notes : first[d] = Absent
        /\ files = first
        /\ trees = [c \in Commits |-> IF c = Pinned THEN first ELSE NoFiles]
    /\ version = 1
    /\ row = NoRow
    /\ docs = NoFiles
    /\ tool = Idle

(***************************************************************************)
(* The user                                                                *)
(***************************************************************************)
Checking == tool.kind = "check"
MayChange == tool = Idle \/ Checking \/ config.editing
MayGoBack == (tool = Idle \/ Checking) /\ ~config.editing

Edit(d) ==
    /\ MayChange
    /\ version < MaxVersion
    /\ version' = version + 1
    /\ files' = [files EXCEPT ![d] = version + 1]
    /\ UNCHANGED <<config, head, latest, trees, index, tool>>

\* Any of the changes may be left out of the commit.
Commit ==
    /\ MayChange
    /\ latest < MaxCommit
    /\ Status # Clean
    /\ \E chosen \in SUBSET {d \in Docs : files[d] # trees[head][d]} :
        trees' = [trees EXCEPT ![latest + 1] =
            [d \in Docs |-> IF d \in chosen THEN files[d] ELSE trees[head][d]]]
    /\ latest' = latest + 1
    /\ head' = latest + 1
    /\ UNCHANGED <<config, files, version, index, tool>>

\* A commit from elsewhere, which changes a file that has no local changes.
Pull(d) ==
    /\ MayChange
    /\ latest < MaxCommit /\ version < MaxVersion
    /\ files[d] = trees[head][d]
    /\ version' = version + 1
    /\ trees' = [trees EXCEPT ![latest + 1] = [trees[head] EXCEPT ![d] = version + 1]]
    /\ files' = [files EXCEPT ![d] = version + 1]
    /\ latest' = latest + 1
    /\ head' = latest + 1
    /\ UNCHANGED <<config, index, tool>>

\* git restore, git clean
Discard(d) ==
    /\ MayGoBack
    /\ files[d] # trees[head][d]
    /\ files' = [files EXCEPT ![d] = trees[head][d]]
    /\ UNCHANGED <<config, head, latest, trees, version, index, tool>>

Delete(d) ==
    /\ MayGoBack
    /\ files[d] # Absent
    /\ files' = [files EXCEPT ![d] = Absent]
    /\ UNCHANGED <<config, head, latest, trees, version, index, tool>>

\* git checkout of a commit made before
Checkout(c) ==
    /\ MayGoBack
    /\ c <= latest /\ c # head
    /\ Status = Clean
    /\ head' = c
    /\ files' = trees[c]
    /\ UNCHANGED <<config, latest, trees, version, index, tool>>

(***************************************************************************)
(* index_repo: HEAD, status, checks, files, store.                         *)
(***************************************************************************)
BeginIndexRepo ==
    /\ tool = Idle
    /\ tool' = [Idle EXCEPT !.kind = "index_repo", !.step = "head", !.pending = Docs]
    /\ UNCHANGED <<config, disk, index>>

(***************************************************************************)
(* _write_local_capture: the note is written, then index_document reads    *)
(* it, HEAD and the status, and stores.  A file that exists is refused.    *)
(***************************************************************************)
WriteNote(d) ==
    /\ tool = Idle
    /\ files[d] = Absent
    /\ version < MaxVersion
    /\ version' = version + 1
    /\ files' = [files EXCEPT ![d] = version + 1]
    /\ tool' = IF config.auto
               THEN [Idle EXCEPT !.kind = "index_document", !.step = "files", !.pending = {d}]
               ELSE Idle
    /\ UNCHANGED <<config, head, latest, trees, index>>

ReadHead ==
    /\ tool.step = "head"
    /\ tool' = [tool EXCEPT !.commit = head, !.step = "status"]
    /\ UNCHANGED <<config, disk, index>>

\* index_repo leaves without storing anything: uncommitted changes although
\* the configuration excludes them, or not the pinned commit.
Refused ==
    \/ ~config.includes /\ Status # Clean
    \/ config.mode = "snapshot" /\ tool.commit # Pinned

ReadStatus ==
    /\ tool.step = "status" /\ ~Checking
    /\ tool' = IF tool.kind = "index_document" THEN [tool EXCEPT !.status = Status, !.step = "store"]
               ELSE IF Refused THEN Idle
               ELSE [tool EXCEPT !.status = Status, !.step = "files"]
    /\ UNCHANGED <<config, disk, index>>

ReadOneFile(d) ==
    /\ tool.step = "files"
    /\ d \in tool.pending
    /\ tool' = [tool EXCEPT
            !.read[d] = files[d],
            !.pending = @ \ {d},
            !.step = IF tool.kind = "index_repo" THEN "store" ELSE "head"]
    /\ UNCHANGED <<config, disk, index>>

ReadFile(d) ==
    /\ tool.step = "files"
    /\ d \in tool.pending
    /\ tool' = [tool EXCEPT
            !.read[d] = files[d],
            !.pending = @ \ {d},
            !.step = IF tool.pending # {d} THEN "files"
                     ELSE IF tool.kind = "index_repo" THEN "store" ELSE "head"]
    /\ UNCHANGED <<config, disk, index>>

\* The fingerprint that goes into the row.
FingerprintAtStore == Status
Fingerprint == tool.status

StoreRepo ==
    /\ tool.kind = "index_repo" /\ tool.step = "store"
    /\ row' = [mode |-> config.mode, includes |-> config.includes,
               commit |-> tool.commit, status |-> Fingerprint]
    /\ docs' = tool.read
    /\ tool' = Idle
    /\ UNCHANGED <<config, disk>>

\* index_document gives the whole repository's row the commit and fingerprint
\* it read, and replaces one document.
StoreDocument ==
    /\ tool.kind = "index_document" /\ tool.step = "store"
    /\ row' = [mode |-> "workspace", includes |-> TRUE,
               commit |-> tool.commit, status |-> Fingerprint]
    /\ docs' = [d \in Docs |-> IF tool.read[d] # Absent THEN tool.read[d] ELSE docs[d]]
    /\ tool' = Idle
    /\ UNCHANGED <<config, disk>>

(***************************************************************************)
(* _repo_staleness_status: HEAD, calls about branch and remote, then the   *)
(* status with its fingerprint, which is compared with what the row says.  *)
(***************************************************************************)
BeginCheck ==
    /\ tool = Idle
    /\ tool' = [Idle EXCEPT !.kind = "check", !.step = "head"]
    /\ UNCHANGED <<config, disk, index>>

\* git rev-parse HEAD fails: the check gives a warning and goes on without.
MissHead ==
    /\ Checking /\ tool.step = "head"
    /\ tool' = [tool EXCEPT !.step = "status"]
    /\ UNCHANGED <<config, disk, index>>

\* _repo_metadata_mismatch
MetadataMismatch == row.mode # config.mode \/ row.includes # config.includes

Expected == IF config.mode = "snapshot" THEN Pinned ELSE tool.commit

\* What the check answers when the status is as it is now.
ReindexNeeded ==
    \/ row.commit = NoCommit
    \/ MetadataMismatch
    \/ Expected # NoCommit /\ row.commit # Expected
    \/ config.mode = "snapshot" /\ tool.commit \notin {NoCommit, Pinned}
    \/ config.includes /\ row.status # Status

\* The status is the last thing read (one that fails is answered with a reindex
\* needed); the check stores nothing.
EndCheck ==
    /\ Checking /\ tool.step = "status"
    /\ tool' = Idle
    /\ UNCHANGED <<config, disk, index>>

FoundCurrent == Checking /\ tool.step = "status" /\ ~ReindexNeeded

Next ==
    \/ \E d \in Docs : Edit(d) \/ Pull(d) \/ Discard(d) \/ Delete(d) \/ ReadFile(d)
    \/ \E d \in Notes : WriteNote(d)
    \/ \E c \in Commits : Checkout(c)
    \/ Commit \/ BeginIndexRepo \/ ReadHead \/ ReadStatus \/ StoreRepo \/ StoreDocument
    \/ BeginCheck \/ MissHead \/ EndCheck

Spec == Init /\ [][Next]_vars
-----------------------------------------------------------------------------
\* What the index is meant to hold: the files as they are, or as in the commit
\* that the check read when uncommitted changes are excluded (decisions/0002).
Source == IF config.includes THEN files ELSE trees[tool.commit]

\* The check has read HEAD, and HEAD is still there when it reads a status that
\* counts.  A commit between the two reads moves changes that are in no index out
\* of the status, and the check compares the index with the commit before it.
HeadWasKept == tool.commit # NoCommit /\ (config.includes => tool.commit = head)

\* When check_project_staleness finds that a repository needs no reindex, every
\* document of the index is as in the source it was configured for, none is
\* missing and none is left over, whatever the user did before, during and
\* between index_repo and the check, except moving HEAD between the two reads of
\* the check itself.  The runs say for which configurations: not where notes are
\* indexed one at a time over a worktree that counts (Sound).
CurrentMeansIndexed == FoundCurrent /\ HeadWasKept => docs = Source
-----------------------------------------------------------------------------
(***************************************************************************)
(* Why it holds.                                                           *)
(***************************************************************************)
\* What the worktree held when HEAD was `commit` and the status `status`.
FilesOf(commit, status) ==
    [d \in Docs |-> IF status[d] = Unchanged THEN trees[commit][d] ELSE status[d]]

\* Every content there is was made: an edit makes one that is larger.
ContentsAreMade ==
    /\ head <= latest /\ tool.commit <= latest /\ row.commit <= latest
    /\ \A d \in Docs : files[d] <= version
    /\ \A c \in 1..latest, d \in Docs : trees[c][d] <= version

\* Nothing changes during a run of index_repo: what it has read is as it was.
ReadIsAsIs ==
    tool.kind = "index_repo" /\ ~config.editing =>
        /\ tool.step \in {"status", "files", "store"} => tool.commit = head
        /\ tool.step \in {"files", "store"} =>
            /\ tool.status = Status
            /\ config.includes \/ Status = Clean
            /\ \A d \in Docs \ tool.pending : tool.read[d] = files[d]

\* The index is what the row describes.
IndexIsAsDescribed ==
    ~config.editing /\ ~MetadataMismatch /\ row.commit # NoCommit =>
        /\ docs = FilesOf(row.commit, row.status)
        /\ config.includes \/ row.status = Clean

\* While files change, HEAD only moves on, and what was read lies between what
\* the status said before and what the files are now.
ReadIsBetween ==
    config.editing =>
        /\ head = latest
        /\ tool.step \in {"files", "store"} /\ tool.commit = head =>
            \A d \in Docs :
                /\ FilesOf(head, tool.status)[d] <= files[d]
                /\ d \notin tool.pending => /\ FilesOf(head, tool.status)[d] <= tool.read[d]
                                           /\ tool.read[d] <= files[d]

\* So does what was stored.
IndexIsBetween ==
    config.editing /\ row.commit = head =>
        \A d \in Docs : FilesOf(head, row.status)[d] <= docs[d] /\ docs[d] <= files[d]

\* index_document runs for notes only, and index_repo reads no file before HEAD
\* and the status.
ToolsInOrder ==
    /\ tool.kind = "index_document" => config.auto
    /\ tool.kind = "index_repo" /\ tool.step \in {"head", "status"} => tool.pending = Docs

\* The invariant of index and staleness check: whatever is under way, the row
\* never claims a commit and a fingerprint that the stored documents do not have
\* (index.index_repo reads HEAD and the status before any file).
IInv ==
    /\ TypeOK
    /\ ContentsAreMade
    /\ ReadIsAsIs /\ IndexIsAsDescribed
    /\ ReadIsBetween /\ IndexIsBetween
    /\ ToolsInOrder

\* The configurations for which the staleness check is sound: notes wait for
\* index_project where the whole worktree counts, files stay as they are while a
\* repository without uncommitted changes is indexed, and git quotes no name.
Sound ==
    /\ Quoted = {}
    /\ \A c \in Configs : (c.includes => ~c.auto) /\ (c.editing => c.includes)
=============================================================================
