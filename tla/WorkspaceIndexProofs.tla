------------------------- MODULE WorkspaceIndexProofs -------------------------
(***************************************************************************)
(* Proofs about WorkspaceIndex, for any documents, notes, commits and      *)
(* versions, and for every set of configurations that is Sound.            *)
(***************************************************************************)
EXTENDS WorkspaceIndex, TLAPS

USE WorkspaceAssumption

-----------------------------------------------------------------------------
(***************************************************************************)
(* Types                                                                   *)
(***************************************************************************)
\* A configuration has the fields the code reads.
LEMMA ConfigTypes ==
  ASSUME config \in Configs
  PROVE  /\ config.mode \in {"workspace", "snapshot"}
         /\ config.includes \in BOOLEAN /\ config.auto \in BOOLEAN
         /\ config.editing \in BOOLEAN
         /\ config.mode = "snapshot" => ~config.includes
  BY DEF Configuration

\* The status is of the type of a status, whatever git quotes.
LEMMA StatusTypes ==
  ASSUME files \in Contents
  PROVE  Status \in Statuses
<1>1. \A d \in Docs : Digest(d) \in Content \cup {Changed}
  BY DEF Digest, Contents
<1>2. QED
  BY <1>1 DEF Status, Statuses

\* No tool under way is a value of the variable that remembers one.
LEMMA IdleTypes ==
  /\ Idle \in [kind : {"none", "index_repo", "index_document", "check"},
               step : {"none", "head", "status", "files", "store"},
               pending : SUBSET Docs, commit : Commits \cup {NoCommit},
               status : Statuses, read : Contents]
  /\ Idle.kind = "none" /\ Idle.step = "none" /\ Idle.pending = {}
  /\ Idle.commit = NoCommit
<1>1. Clean \in Statuses /\ NoFiles \in Contents
  BY DEF Clean, NoFiles, Statuses, Contents, Content, Absent, Changed, Unchanged
<1>2. QED
  BY <1>1 DEF Idle

\* The first state is well-typed.
LEMMA InitTypeOK == Init => TypeOK
<1> SUFFICES ASSUME Init PROVE TypeOK
  OBVIOUS
<1>1. Pinned \in Commits /\ version \in Content
  BY DEF Init, Pinned, Commits, Content
<1>2. PICK first \in [Docs -> {Absent, 1}] :
        files = first /\ trees = [c \in Commits |-> IF c = Pinned THEN first ELSE NoFiles]
  BY DEF Init
<1>3. first \in Contents /\ NoFiles \in Contents
  BY <1>2 DEF Contents, Content, Absent, NoFiles
<1>4. trees \in [Commits -> Contents]
  BY <1>2, <1>3
<1>5. Clean \in Statuses /\ NoFiles \in Statuses
  BY DEF Clean, Statuses, Content, NoFiles, Absent, Unchanged
<1>6. row \in [mode : {"none", "workspace", "snapshot"}, includes : BOOLEAN,
               commit : Commits \cup {NoCommit}, status : Statuses]
  BY <1>5 DEF Init, NoRow
<1>7. QED
  BY <1>1, <1>2, <1>3, <1>4, <1>6, IdleTypes DEF Init, TypeOK

\* Every step keeps the types.
LEMMA TypeStep == TypeOK /\ [Next]_vars => TypeOK'
<1> SUFFICES ASSUME TypeOK, [Next]_vars PROVE TypeOK'
  OBVIOUS
<1> USE DEF TypeOK
<1>1. CASE UNCHANGED vars
  BY <1>1 DEF vars, disk, index
<1>2. ASSUME NEW d \in Docs, Edit(d) PROVE TypeOK'
  <2>1. version' \in Content /\ files' \in Contents
    BY <1>2 DEF Edit, Content, Contents
  <2>2. QED
    BY <1>2, <2>1 DEF Edit, index
<1>3. ASSUME NEW d \in Docs, Pull(d) PROVE TypeOK'
  <2>1. version' \in Content /\ files' \in Contents /\ trees[head] \in Contents
    BY <1>3 DEF Pull, Content, Contents
  <2>2. latest + 1 \in Commits
    BY <1>3 DEF Pull, Commits
  <2>3. [trees[head] EXCEPT ![d] = version + 1] \in Contents
    BY <1>3, <2>1 DEF Pull, Contents
  <2>4. QED
    BY <1>3, <2>1, <2>2, <2>3 DEF Pull, index
<1>4. ASSUME NEW d \in Docs, Discard(d) PROVE TypeOK'
  <2>1. files' \in Contents
    BY <1>4 DEF Discard, Contents
  <2>2. QED
    BY <1>4, <2>1 DEF Discard, index
<1>5. ASSUME NEW d \in Docs, Delete(d) PROVE TypeOK'
  <2>1. files' \in Contents
    BY <1>5 DEF Delete, Contents, Content, Absent
  <2>2. QED
    BY <1>5, <2>1 DEF Delete, index
<1>6. ASSUME NEW d \in Docs, ReadFile(d) PROVE TypeOK'
  <2>1. files[d] \in Content
    BY DEF Contents
  <2>2. [tool.read EXCEPT ![d] = files[d]] \in Contents
    BY <2>1 DEF Contents
  <2>3. QED
    BY <1>6, <2>2 DEF ReadFile, disk, index
<1>7. ASSUME NEW d \in Notes, WriteNote(d) PROVE TypeOK'
  <2>1. version' \in Content /\ files' \in Contents
    BY <1>7 DEF WriteNote, Content, Contents
  <2>2. QED
    BY <1>7, <2>1, IdleTypes DEF WriteNote, index
<1>8. ASSUME NEW c \in Commits, Checkout(c) PROVE TypeOK'
  BY <1>8 DEF Checkout, index
<1>9. CASE Commit
  <2>1. PICK chosen \in SUBSET {d \in Docs : files[d] # trees[head][d]} :
          trees' = [trees EXCEPT ![latest + 1] =
              [d \in Docs |-> IF d \in chosen THEN files[d] ELSE trees[head][d]]]
    BY <1>9 DEF Commit
  <2>2. [d \in Docs |-> IF d \in chosen THEN files[d] ELSE trees[head][d]] \in Contents
    BY DEF Contents
  <2>3. latest + 1 \in Commits
    BY <1>9 DEF Commit, Commits
  <2>4. QED
    BY <1>9, <2>1, <2>2, <2>3 DEF Commit, index
<1>10. CASE BeginIndexRepo
  BY <1>10, IdleTypes DEF BeginIndexRepo, disk, index
<1>11. CASE ReadHead
  BY <1>11 DEF ReadHead, disk, index
<1>12. CASE ReadStatus
  BY <1>12, StatusTypes, IdleTypes DEF ReadStatus, disk, index
<1>13. CASE StoreRepo
  BY <1>13, ConfigTypes, IdleTypes DEF StoreRepo, Fingerprint, disk
<1>14. CASE StoreDocument
  <2>1. docs' \in Contents
    BY <1>14 DEF StoreDocument, Contents
  <2>2. QED
    BY <1>14, <2>1, IdleTypes DEF StoreDocument, Fingerprint, disk
<1>15. CASE BeginCheck
  BY <1>15, IdleTypes DEF BeginCheck, disk, index
<1>16. CASE MissHead \/ EndCheck
  BY <1>16, IdleTypes DEF MissHead, EndCheck, Checking, disk, index
<1>17. QED
  BY <1>1, <1>2, <1>3, <1>4, <1>5, <1>6, <1>7, <1>8, <1>9, <1>10, <1>11, <1>12, <1>13, <1>14,
     <1>15, <1>16
  DEF Next

\* Every state is well-typed, for every configuration and whatever git quotes:
\* index_repo only stores when it has read every file.
THEOREM Typing == Spec => []TypeOK
<1>1. QED
  BY InitTypeOK, TypeStep, PTL DEF Spec
-----------------------------------------------------------------------------
(***************************************************************************)
(* What every step does with the commits and with the worktree             *)
(***************************************************************************)
\* HEAD and the status, taken together, are what the worktree holds.
LEMMA AsIs ==
  ASSUME Sound, TypeOK
  PROVE  FilesOf(head, Status) = files
<1>1. \A d \in Docs : Status[d] = IF files[d] = trees[head][d] THEN Unchanged ELSE files[d]
  BY DEF Sound, Status, Digest
<1>2. \A d \in Docs : FilesOf(head, Status)[d] = files[d]
  <2> SUFFICES ASSUME NEW d \in Docs PROVE FilesOf(head, Status)[d] = files[d]
    OBVIOUS
  <2>1. files[d] # Unchanged
    BY DEF TypeOK, Contents, Content, Unchanged
  <2>2. QED
    BY <1>1, <2>1 DEF FilesOf
<1>3. QED
  BY <1>2 DEF FilesOf, TypeOK, Contents

\* The configuration of the repository does not change.
LEMMA ConfigIsKept == [Next]_vars => config' = config
  BY DEF Next, vars, Edit, Pull, Discard, Delete, ReadFile, WriteNote, Checkout, Commit,
         BeginIndexRepo, ReadHead, ReadStatus, StoreRepo, StoreDocument,
         BeginCheck, MissHead, EndCheck

\* A commit that was made stays as it is.
LEMMA CommitsAreKept ==
  ASSUME TypeOK, [Next]_vars
  PROVE  /\ latest <= latest'
         /\ \A c \in 1..latest : trees'[c] = trees[c]
<1>1. latest \in Int
  BY DEF TypeOK, Commits
<1>2. ASSUME NEW d \in Docs, Pull(d)
      PROVE  latest' = latest + 1 /\ \A c \in 1..latest : trees'[c] = trees[c]
  BY <1>2, <1>1 DEF Pull, TypeOK, Commits
<1>3. CASE Commit
  <2>1. PICK new : trees' = [trees EXCEPT ![latest + 1] = new]
    BY <1>3 DEF Commit
  <2>2. QED
    BY <1>1, <1>3, <2>1 DEF Commit, TypeOK, Commits
<1>4. CASE UNCHANGED <<latest, trees>>
  BY <1>1, <1>4
<1>5. UNCHANGED <<latest, trees>> \/ Commit \/ \E d \in Docs : Pull(d)
  BY DEF Next, vars, disk, Edit, Discard, Delete, ReadFile, WriteNote, Checkout,
         BeginIndexRepo, ReadHead, ReadStatus, StoreRepo, StoreDocument,
         BeginCheck, MissHead, EndCheck
<1>6. QED
  BY <1>1, <1>2, <1>3, <1>4, <1>5

\* A step of the check changes nothing but what the check has read.
LEMMA CheckOnlyReads ==
  ASSUME TypeOK, BeginCheck \/ MissHead \/ EndCheck
  PROVE  /\ UNCHANGED <<config, disk, index>>
         /\ tool'.kind \in {"none", "check"} /\ tool'.step \in {"none", "head", "status"}
         /\ tool'.commit \in {NoCommit, tool.commit}
<1>1. CASE BeginCheck
  BY <1>1, IdleTypes DEF BeginCheck
<1>2. CASE MissHead
  BY <1>2 DEF MissHead, Checking, TypeOK
<1>3. CASE EndCheck
  BY <1>3, IdleTypes DEF EndCheck
<1>4. QED
  BY <1>1, <1>2, <1>3

\* A step of a user changes neither the index nor what a tool has read; a step
\* of a tool changes no file, except that WriteNote makes one.
LEMMA WhoseStep ==
  ASSUME [Next]_vars
  PROVE  \/ UNCHANGED <<row, docs, tool>>
         \/ BeginIndexRepo \/ \E d \in Notes : WriteNote(d)
         \/ BeginCheck \/ MissHead \/ EndCheck
         \/ /\ UNCHANGED disk /\ tool # Idle
            /\ \/ ReadHead \/ ReadStatus \/ StoreRepo \/ StoreDocument
               \/ \E d \in Docs : ReadFile(d)
<1>1. Idle.step = "none"
  BY DEF Idle
<1>2. QED
  BY <1>1 DEF Next, vars, disk, index, Edit, Pull, Discard, Delete, ReadFile, Checkout, Commit,
              ReadHead, ReadStatus, StoreRepo, StoreDocument

\* Reading a file takes note of its content and of nothing else.
LEMMA FileIsRead ==
  ASSUME TypeOK, NEW d \in Docs, ReadFile(d)
  PROVE  /\ tool.step = "files" /\ d \in tool.pending
         /\ tool'.kind = tool.kind /\ tool'.commit = tool.commit /\ tool'.status = tool.status
         /\ tool'.pending = tool.pending \ {d}
         /\ tool'.read[d] = files[d]
         /\ \A e \in Docs \ {d} : tool'.read[e] = tool.read[e]
         /\ UNCHANGED <<config, disk, index>>
  BY DEF ReadFile, TypeOK, Contents

\* Nothing moves under a tool that indexes while files are not being edited.
LEMMA NothingMoves ==
  ASSUME [Next]_vars, tool # Idle, ~Checking, ~config.editing
  PROVE  UNCHANGED disk
  BY DEF Next, vars, disk, Edit, Pull, Discard, Delete, ReadFile, WriteNote, Checkout, Commit,
         MayChange, MayGoBack, BeginIndexRepo, ReadHead, ReadStatus, StoreRepo, StoreDocument,
         BeginCheck, MissHead, EndCheck

\* While files are edited every change makes them larger, and HEAD moves on.
LEMMA FilesGrow ==
  ASSUME TypeOK, ContentsAreMade, [Next]_vars, config.editing, head = latest
  PROVE  /\ head' = latest' /\ head <= head'
         /\ \A d \in Docs : files[d] <= files'[d]
<1>1. head \in Int /\ \A d \in Docs : files[d] \in Int
  BY DEF TypeOK, Commits, Contents, Content
<1>2. CASE UNCHANGED disk
  BY <1>1, <1>2 DEF disk
<1>3. ASSUME NEW d \in Docs, files' = [files EXCEPT ![d] = version + 1]
      PROVE  \A e \in Docs : files[e] <= files'[e]
  BY <1>1, <1>3 DEF ContentsAreMade, TypeOK, Content, Contents
<1>4. ASSUME NEW d \in Docs, Edit(d) \/ (d \in Notes /\ WriteNote(d))
      PROVE  UNCHANGED <<head, latest>> /\ files' = [files EXCEPT ![d] = version + 1]
  BY <1>4 DEF Edit, WriteNote
<1>5. ASSUME NEW d \in Docs, Pull(d)
      PROVE  /\ head' = latest + 1 /\ latest' = latest + 1
             /\ files' = [files EXCEPT ![d] = version + 1]
  BY <1>5 DEF Pull
<1>6. CASE Commit
  BY <1>1, <1>6 DEF Commit
<1>7. \/ UNCHANGED disk
      \/ \E d \in Docs : Edit(d) \/ (d \in Notes /\ WriteNote(d)) \/ Pull(d)
      \/ Commit
  BY DEF Next, vars, disk, Discard, Delete, ReadFile, Checkout, MayGoBack, BeginIndexRepo,
         ReadHead, ReadStatus, StoreRepo, StoreDocument, BeginCheck, MissHead, EndCheck
<1>8. QED
  BY <1>1, <1>2, <1>3, <1>4, <1>5, <1>6, <1>7

-----------------------------------------------------------------------------
(***************************************************************************)
(* The inductive invariant                                                 *)
(***************************************************************************)
\* The first state satisfies the invariant.
LEMMA InitIInv == Init => IInv
<1> SUFFICES ASSUME Init PROVE IInv
  OBVIOUS
<1>1. TypeOK
  BY InitTypeOK
<1>2. ContentsAreMade
  <2>1. head = 1 /\ latest = 1 /\ version = 1 /\ tool.commit = 0 /\ row.commit = 0
    BY IdleTypes DEF Init, Pinned, NoRow, NoCommit
  <2>2. PICK first \in [Docs -> {Absent, 1}] :
          files = first /\ trees = [c \in Commits |-> IF c = Pinned THEN first ELSE NoFiles]
    BY DEF Init
  <2>3. trees[1] = first
    BY <2>2 DEF Commits, Pinned
  <2>4. QED
    BY <2>1, <2>2, <2>3 DEF ContentsAreMade, Absent
<1>3. tool.kind = "none" /\ tool.step = "none"
  BY IdleTypes DEF Init
<1>4. row.commit = NoCommit /\ head = Pinned /\ latest = Pinned /\ Pinned # NoCommit
  BY DEF Init, NoRow, NoCommit, Pinned
<1>5. QED
  BY <1>1, <1>2, <1>3, <1>4
  DEF IInv, ReadIsAsIs, IndexIsAsDescribed, ReadIsBetween, IndexIsBetween, ToolsInOrder

\* A new content is larger than all others.
LEMMA NewContent ==
  ASSUME TypeOK, ContentsAreMade, NEW d \in Docs
  PROVE  /\ \A e \in Docs : [files EXCEPT ![d] = version + 1][e] <= version + 1
         /\ \A c \in 1..latest, e \in Docs : trees[c][e] <= version + 1
         /\ \A e \in Docs : [trees[head] EXCEPT ![d] = version + 1][e] <= version + 1
<1>1. version \in Int /\ files \in [Docs -> Int] /\ trees[head] \in [Docs -> Int]
  BY DEF TypeOK, Contents, Content
<1>2. head \in 1..latest /\ \A c \in 1..latest, e \in Docs : trees[c][e] \in Int
  BY DEF TypeOK, ContentsAreMade, Commits, Contents, Content
<1>3. QED
  BY <1>1, <1>2 DEF ContentsAreMade

\* Contents and commits are numbered as they are made.
LEMMA MadeStep == TypeOK /\ ContentsAreMade /\ [Next]_vars => ContentsAreMade'
<1> SUFFICES ASSUME TypeOK, ContentsAreMade, [Next]_vars PROVE ContentsAreMade'
  OBVIOUS
<1>0. /\ head \in Int /\ latest \in Int /\ version \in Int /\ tool.commit \in Int /\ row.commit \in Int
      /\ \A d \in Docs : files[d] \in Int
      /\ \A c \in Commits, d \in Docs : trees[c][d] \in Int /\ trees[c][d] >= 0
      /\ 0 <= version /\ 1 <= head /\ head \in 1..latest
  BY DEF TypeOK, ContentsAreMade, Commits, Contents, Content, NoCommit
<1>1. CASE UNCHANGED disk /\ tool'.commit \in {NoCommit, head, tool.commit}
           /\ row'.commit \in {row.commit, tool.commit}
  BY <1>0, <1>1 DEF ContentsAreMade, disk, NoCommit
<1>2. ASSUME NEW d \in Docs, Edit(d) PROVE ContentsAreMade'
  BY <1>0, <1>2, NewContent DEF Edit, ContentsAreMade, index
<1>3. ASSUME NEW d \in Docs, Pull(d) PROVE ContentsAreMade'
  <2>1. \A c \in 1..latest + 1, e \in Docs : trees'[c][e] <= version + 1
    <3>1. \A e \in Docs : trees'[latest + 1][e] <= version + 1
      <4>1. trees'[latest + 1] = [trees[head] EXCEPT ![d] = version + 1]
        BY <1>0, <1>3 DEF Pull, TypeOK, Commits
      <4>2. QED
        BY <4>1, NewContent
    <3>2. \A c \in 1..latest, e \in Docs : trees'[c][e] <= version + 1
      BY <1>0, CommitsAreKept DEF ContentsAreMade, TypeOK, Commits
    <3>3. QED
      BY <1>0, <3>1, <3>2
  <2>2. QED
    BY <1>0, <1>3, <2>1, NewContent DEF Pull, ContentsAreMade, index
<1>4. ASSUME NEW d \in Docs, Discard(d) PROVE ContentsAreMade'
  BY <1>0, <1>4 DEF Discard, ContentsAreMade, index, TypeOK, Contents
<1>5. ASSUME NEW d \in Docs, Delete(d) PROVE ContentsAreMade'
  BY <1>0, <1>5 DEF Delete, ContentsAreMade, index, TypeOK, Contents, Absent
<1>6. ASSUME NEW d \in Notes, WriteNote(d) PROVE ContentsAreMade'
  <2>1. tool'.commit = NoCommit
    BY <1>6, IdleTypes DEF WriteNote
  <2>2. QED
    BY <1>0, <1>6, <2>1, NewContent DEF WriteNote, ContentsAreMade, index, NoCommit
<1>7. ASSUME NEW c \in Commits, Checkout(c) PROVE ContentsAreMade'
  BY <1>0, <1>7 DEF Checkout, ContentsAreMade, index, Commits
<1>8. CASE Commit
  <2>1. PICK chosen \in SUBSET {d \in Docs : files[d] # trees[head][d]} :
          trees' = [trees EXCEPT ![latest + 1] =
              [d \in Docs |-> IF d \in chosen THEN files[d] ELSE trees[head][d]]]
    BY <1>8 DEF Commit
  <2>2. \A e \in Docs : trees'[latest + 1][e] <= version
    BY <1>0, <1>8, <2>1 DEF Commit, ContentsAreMade, TypeOK, Commits
  <2>3. \A c \in 1..latest, e \in Docs : trees'[c][e] <= version
    BY <1>0, CommitsAreKept DEF ContentsAreMade, TypeOK, Commits
  <2>4. \A c \in 1..latest + 1, e \in Docs : trees'[c][e] <= version
    BY <1>0, <2>2, <2>3
  <2>5. QED
    BY <1>0, <1>8, <2>4 DEF Commit, ContentsAreMade, index
<1>9. ASSUME NEW d \in Docs, ReadFile(d) PROVE ContentsAreMade'
  <2>1. tool'.commit = tool.commit
    BY <1>9 DEF ReadFile, TypeOK
  <2>2. QED
    BY <1>1, <1>9, <2>1 DEF ReadFile, index
<1>10. CASE UNCHANGED vars
  BY <1>1, <1>10 DEF vars, index
<1>11. CASE BeginIndexRepo
  <2>1. tool'.commit = NoCommit
    BY <1>11, IdleTypes DEF BeginIndexRepo
  <2>2. QED
    BY <1>1, <1>11, <2>1 DEF BeginIndexRepo, index
<1>12. CASE ReadHead
  BY <1>1, <1>12 DEF ReadHead, index, TypeOK
<1>13. CASE ReadStatus
  BY <1>1, <1>13, IdleTypes DEF ReadStatus, index, TypeOK
<1>14. CASE StoreRepo
  BY <1>1, <1>14, IdleTypes DEF StoreRepo
<1>15. CASE StoreDocument
  BY <1>1, <1>15, IdleTypes DEF StoreDocument
<1>16. CASE BeginCheck \/ MissHead \/ EndCheck
  BY <1>1, <1>16, CheckOnlyReads DEF index
<1>17. QED
  BY <1>2, <1>3, <1>4, <1>5, <1>6, <1>7, <1>8, <1>9, <1>10, <1>11, <1>12, <1>13, <1>14, <1>15, <1>16
  DEF Next

\* What a run of index_repo has read stays as it is on disk when nothing moves.
LEMMA AsIsStep ==
  ASSUME TypeOK, ToolsInOrder, ReadIsAsIs, [Next]_vars
  PROVE  ReadIsAsIs'
<1> SUFFICES ASSUME tool'.kind = "index_repo", ~config.editing
             PROVE  /\ tool'.step \in {"status", "files", "store"} => tool'.commit = head'
                    /\ tool'.step \in {"files", "store"} =>
                        /\ tool'.status = Status'
                        /\ config.includes \/ Status' = Clean
                        /\ \A d \in Docs \ tool'.pending : tool'.read[d] = files'[d]
  BY ConfigIsKept DEF ReadIsAsIs
<1>1. CASE BeginIndexRepo
  BY <1>1, IdleTypes DEF BeginIndexRepo
<1>2. ASSUME NEW d \in Notes, WriteNote(d) PROVE FALSE
  BY <1>2, IdleTypes DEF WriteNote
<1>3. CASE UNCHANGED <<row, docs, tool>>
  <2>1. tool # Idle /\ ~Checking
    BY <1>3, IdleTypes DEF Checking
  <2>2. Status' = Status
    BY <2>1, NothingMoves DEF Status, Digest, disk
  <2>3. QED
    BY <1>3, <2>1, <2>2, NothingMoves DEF ReadIsAsIs, disk
<1>4. CASE /\ UNCHANGED disk /\ tool # Idle
           /\ \/ ReadHead \/ ReadStatus \/ StoreRepo \/ StoreDocument
              \/ \E d \in Docs : ReadFile(d)
  <2>0. Status' = Status /\ head' = head /\ files' = files
    BY <1>4 DEF Status, Digest, disk
  <2>1. CASE ReadHead
    BY <2>0, <2>1 DEF ReadHead, TypeOK
  <2>2. CASE ReadStatus
    <3>1. tool.kind = "index_repo" /\ ~Refused /\ tool' = [tool EXCEPT !.status = Status, !.step = "files"]
      BY <2>2, IdleTypes DEF ReadStatus, TypeOK
    <3>2. tool.step = "status" /\ tool.commit = head
      BY <2>2, <3>1 DEF ReadStatus, ReadIsAsIs
    <3>3. tool.pending = Docs
      BY <3>1, <3>2 DEF ToolsInOrder, TypeOK
    <3>4. QED
      BY <2>0, <3>1, <3>2, <3>3 DEF TypeOK, Refused
  <2>3. CASE StoreRepo \/ StoreDocument
    BY <2>3, IdleTypes DEF StoreRepo, StoreDocument
  <2>4. ASSUME NEW d \in Docs, ReadFile(d)
        PROVE  /\ tool'.commit = head /\ tool'.status = Status
               /\ config.includes \/ Status = Clean
               /\ \A e \in Docs \ tool'.pending : tool'.read[e] = files[e]
    BY <2>4, FileIsRead DEF ReadIsAsIs
  <2>5. QED
    BY <1>4, <2>0, <2>1, <2>2, <2>3, <2>4 DEF disk
<1>5. CASE BeginCheck \/ MissHead \/ EndCheck
  BY <1>5, CheckOnlyReads
<1>6. QED
  BY <1>1, <1>2, <1>3, <1>4, <1>5, WhoseStep

\* The stored index is described by its row, until something else is indexed.
LEMMA AsDescribedStep ==
  ASSUME Sound, TypeOK, ContentsAreMade, ToolsInOrder, ReadIsAsIs, IndexIsAsDescribed, [Next]_vars
  PROVE  IndexIsAsDescribed'
<1> SUFFICES ASSUME ~config.editing, ~MetadataMismatch', row'.commit # NoCommit
             PROVE  /\ docs' = FilesOf(row.commit, row.status)'
                    /\ config.includes \/ row'.status = Clean
  BY ConfigIsKept DEF IndexIsAsDescribed, FilesOf
<1>1. CASE StoreDocument
  <2>1. config.auto /\ config' = config /\ row'.includes = TRUE
    BY <1>1 DEF StoreDocument, ToolsInOrder
  <2>2. ~config.includes
    BY <2>1 DEF Sound, TypeOK
  <2>3. QED
    BY <2>1, <2>2 DEF MetadataMismatch
<1>2. CASE StoreRepo
  <2>1. /\ row'.commit = head /\ row'.status = Status /\ docs' = tool.read
        /\ config.includes \/ Status = Clean
    BY <1>2 DEF StoreRepo, Fingerprint, ReadIsAsIs
  <2>2. tool.read = files
    <3>1. \A d \in Docs : tool.read[d] = files[d]
      BY <1>2 DEF StoreRepo, ReadIsAsIs, TypeOK
    <3>2. QED
      BY <3>1 DEF TypeOK, Contents
  <2>3. trees' = trees
    BY <1>2 DEF StoreRepo, disk
  <2>4. QED
    BY <2>1, <2>2, <2>3, AsIs DEF FilesOf
<1>3. CASE UNCHANGED <<row, docs>>
  <2>1. ~MetadataMismatch
    BY <1>3, ConfigIsKept DEF MetadataMismatch
  <2>2. row.commit \in 1..latest
    BY <1>3 DEF TypeOK, ContentsAreMade, Commits, NoCommit
  <2>3. trees'[row.commit] = trees[row.commit]
    BY <2>2, CommitsAreKept
  <2>4. QED
    BY <1>3, <2>1, <2>3 DEF IndexIsAsDescribed, FilesOf
<1>4. QED
  BY <1>1, <1>2, <1>3, CheckOnlyReads, WhoseStep
  DEF BeginIndexRepo, WriteNote, ReadHead, ReadStatus, ReadFile, index

\* While files are edited, what was read stays between the status and the files.
LEMMA BetweenStep ==
  ASSUME Sound, TypeOK, ContentsAreMade, ToolsInOrder, ReadIsBetween, [Next]_vars
  PROVE  ReadIsBetween'
<1> SUFFICES ASSUME config.editing PROVE ReadIsBetween'
  BY ConfigIsKept DEF ReadIsBetween
<1>0. /\ head = latest /\ head' = latest' /\ head <= head'
      /\ \A d \in Docs : files[d] <= files'[d]
  BY FilesGrow DEF ReadIsBetween
<1>1. /\ head \in 1..latest /\ tool.commit <= head /\ tool.commit \in Int /\ head \in Int /\ head' \in Int
      /\ trees'[head] = trees[head]
      /\ \A d \in Docs : files[d] \in Int /\ files'[d] \in Int /\ tool.read[d] \in Int
      /\ \A d \in Docs : FilesOf(head, tool.status)[d] \in Int
  <2>1. TypeOK'
    BY TypeStep
  <2>2. \A d \in Docs : FilesOf(head, tool.status)[d] \in Int
    BY DEF FilesOf, TypeOK, Contents, Content, Statuses, Changed
  <2>3. head \in 1..latest
    BY <1>0 DEF TypeOK, Commits
  <2>4. trees'[head] = trees[head]
    BY <2>3, CommitsAreKept
  <2>5. tool.commit <= head /\ tool.commit \in Int /\ head \in Int /\ head' \in Int
    BY <1>0, <2>1 DEF ContentsAreMade, TypeOK, Commits, NoCommit
  <2>6. \A d \in Docs : files[d] \in Int /\ files'[d] \in Int /\ tool.read[d] \in Int
    BY <2>1 DEF TypeOK, Contents, Content
  <2>7. QED
    BY <2>2, <2>3, <2>4, <2>5, <2>6
<1> SUFFICES ASSUME tool'.step \in {"files", "store"}, tool'.commit = head', NEW d \in Docs
             PROVE  /\ FilesOf(head, tool.status)'[d] <= files'[d]
                    /\ d \notin tool'.pending => /\ FilesOf(head, tool.status)'[d] <= tool'.read[d]
                                                /\ tool'.read[d] <= files'[d]
  BY <1>0 DEF ReadIsBetween, FilesOf
<1>2. CASE BeginIndexRepo
  BY <1>2, IdleTypes DEF BeginIndexRepo
<1>3. ASSUME NEW e \in Notes, WriteNote(e) PROVE FALSE
  <2>1. config.auto
    BY <1>3, IdleTypes DEF WriteNote
  <2>2. QED
    BY <2>1 DEF Sound, TypeOK
<1>4. CASE UNCHANGED <<row, docs, tool>>
  <2>1. tool.commit = head /\ head' = head
    BY <1>0, <1>1, <1>4
  <2>2. FilesOf(head, tool.status)'[d] = FilesOf(head, tool.status)[d]
    BY <1>1, <1>4, <2>1 DEF FilesOf
  <2>3. QED
    BY <1>0, <1>1, <1>4, <2>1, <2>2 DEF ReadIsBetween
<1>5. CASE UNCHANGED disk /\ ReadStatus
  <2>1. tool.kind # "index_document"
    BY DEF ToolsInOrder, Sound, TypeOK
  <2>2. tool.step = "status" /\ tool' = [tool EXCEPT !.status = Status, !.step = "files"]
    BY <1>5, <2>1, IdleTypes DEF ReadStatus
  <2>3. tool.kind = "index_repo" /\ tool.pending = Docs /\ tool'.pending = Docs /\ tool'.status = Status
    BY <1>5, <2>1, <2>2 DEF ReadStatus, Checking, ToolsInOrder, TypeOK
  <2>4. FilesOf(head, tool.status)'[d] = files[d]
    BY <1>5, <2>3, AsIs DEF FilesOf, disk
  <2>5. QED
    BY <1>1, <1>5, <2>3, <2>4 DEF disk
<1>6. ASSUME NEW e \in Docs, ReadFile(e)
      PROVE  /\ FilesOf(head, tool.status)'[d] <= files'[d]
             /\ d \notin tool'.pending => /\ FilesOf(head, tool.status)'[d] <= tool'.read[d]
                                         /\ tool'.read[d] <= files'[d]
  <2>1. /\ tool.step = "files" /\ tool'.commit = tool.commit /\ tool'.status = tool.status
        /\ tool'.pending = tool.pending \ {e} /\ tool'.read[e] = files[e]
        /\ \A f \in Docs \ {e} : tool'.read[f] = tool.read[f]
        /\ UNCHANGED disk
    BY <1>6, FileIsRead
  <2>2. FilesOf(head, tool.status)'[d] = FilesOf(head, tool.status)[d]
    BY <2>1 DEF FilesOf, disk
  <2>3. /\ FilesOf(head, tool.status)[d] <= files[d]
        /\ d \notin tool.pending => FilesOf(head, tool.status)[d] <= tool.read[d] /\ tool.read[d] <= files[d]
    BY <2>1 DEF ReadIsBetween, disk
  <2>4. CASE d = e
    BY <1>1, <2>1, <2>2, <2>3, <2>4 DEF disk
  <2>5. CASE d # e
    BY <2>1, <2>2, <2>3, <2>5 DEF disk
  <2>6. QED
    BY <2>4, <2>5
<1>7. CASE ReadHead \/ StoreRepo \/ StoreDocument
  BY <1>7, IdleTypes DEF ReadHead, StoreRepo, StoreDocument, TypeOK
<1>8. CASE BeginCheck \/ MissHead \/ EndCheck
  BY <1>8, CheckOnlyReads
<1>9. QED
  BY <1>2, <1>3, <1>4, <1>5, <1>6, <1>7, <1>8, WhoseStep

\* And so does the stored index.
LEMMA IndexBetweenStep ==
  ASSUME Sound, TypeOK, ContentsAreMade, ToolsInOrder, ReadIsBetween, IndexIsBetween, [Next]_vars
  PROVE  IndexIsBetween'
<1> SUFFICES ASSUME config.editing, row'.commit = head', NEW d \in Docs
             PROVE  FilesOf(head, row.status)'[d] <= docs'[d] /\ docs'[d] <= files'[d]
  BY ConfigIsKept DEF IndexIsBetween
<1>0. head = latest /\ head <= head' /\ files[d] <= files'[d]
  BY FilesGrow DEF ReadIsBetween
<1>1. head \in 1..latest /\ head \in Int /\ row.commit \in Int /\ row.commit <= head
  BY <1>0 DEF ContentsAreMade, TypeOK, Commits, NoCommit
<1>2. CASE StoreDocument
  <2>1. tool.kind # "index_document"
    BY DEF ToolsInOrder, Sound, TypeOK
  <2>2. QED
    BY <1>2, <2>1 DEF StoreDocument
<1>3. CASE StoreRepo
  <2>1. /\ row'.commit = tool.commit /\ row'.status = tool.status /\ docs' = tool.read
        /\ UNCHANGED <<head, trees, files>> /\ tool.step = "store" /\ d \notin tool.pending
    BY <1>3 DEF StoreRepo, Fingerprint, disk, TypeOK
  <2>2. FilesOf(head, row.status)'[d] = FilesOf(head, tool.status)[d]
    BY <2>1 DEF FilesOf
  <2>3. QED
    BY <2>1, <2>2 DEF ReadIsBetween
<1>4. CASE UNCHANGED <<row, docs>>
  <2>1. head' \in Int /\ files[d] \in Int /\ files'[d] \in Int /\ docs[d] \in Int
    BY TypeStep DEF TypeOK, Commits, Contents, Content
  <2>2. row.commit = head /\ head' = head
    BY <1>0, <1>1, <1>4, <2>1
  <2>3. trees'[head] = trees[head]
    BY <1>1, CommitsAreKept
  <2>4. FilesOf(head, row.status)'[d] = FilesOf(head, row.status)[d]
    BY <1>4, <2>2, <2>3 DEF FilesOf
  <2>5. QED
    BY <1>0, <1>4, <2>1, <2>2, <2>4 DEF IndexIsBetween
<1>5. QED
  BY <1>2, <1>3, <1>4, CheckOnlyReads, WhoseStep
  DEF BeginIndexRepo, WriteNote, ReadHead, ReadStatus, ReadFile, index

\* index_repo and index_document begin with what they have to read.
LEMMA OrderStep == TypeOK /\ ToolsInOrder /\ [Next]_vars => ToolsInOrder'
<1> SUFFICES ASSUME TypeOK, ToolsInOrder, [Next]_vars PROVE ToolsInOrder'
  OBVIOUS
<1>1. CASE BeginIndexRepo
  <2>1. tool'.kind = "index_repo" /\ tool'.pending = Docs
    BY <1>1, IdleTypes DEF BeginIndexRepo
  <2>2. QED
    BY <2>1 DEF ToolsInOrder
<1>2. ASSUME NEW d \in Notes, WriteNote(d) PROVE ToolsInOrder'
  <2>1. config' = config /\ tool'.kind # "index_repo" /\ (tool'.kind = "index_document" => config.auto)
    BY <1>2, IdleTypes DEF WriteNote
  <2>2. QED
    BY <2>1 DEF ToolsInOrder
<1>3. CASE UNCHANGED <<row, docs, tool>>
  BY <1>3, ConfigIsKept DEF ToolsInOrder
<1>4. CASE ReadHead
  BY <1>4 DEF ReadHead, ToolsInOrder, TypeOK
<1>5. CASE ReadStatus
  BY <1>5, IdleTypes DEF ReadStatus, ToolsInOrder, TypeOK
<1>6. CASE StoreRepo \/ StoreDocument
  BY <1>6, IdleTypes DEF StoreRepo, StoreDocument, ToolsInOrder
<1>7. ASSUME NEW d \in Docs, ReadFile(d) PROVE ToolsInOrder'
  <2>1. tool'.kind = "index_repo" => tool'.step \in {"files", "store"}
    BY <1>7 DEF ReadFile, TypeOK
  <2>2. QED
    BY <1>7, <2>1, FileIsRead DEF ToolsInOrder
<1>8. CASE BeginCheck \/ MissHead \/ EndCheck
  BY <1>8, CheckOnlyReads DEF ToolsInOrder
<1>9. QED
  BY <1>1, <1>2, <1>3, <1>4, <1>5, <1>6, <1>7, <1>8, WhoseStep

\* The index and its row agree in every reachable state, whatever the tool that
\* is under way has read so far (index_repo, index_document).
THEOREM Invariance ==
  ASSUME Sound
  PROVE  Spec => []IInv
<1>1. Init => IInv
  BY InitIInv
<1>2. IInv /\ [Next]_vars => IInv'
  <2> SUFFICES ASSUME IInv, [Next]_vars PROVE IInv'
    OBVIOUS
  <2>1. TypeOK'
    BY TypeStep DEF IInv
  <2>2. ContentsAreMade' /\ ToolsInOrder'
    BY MadeStep, OrderStep DEF IInv
  <2>3. ReadIsAsIs'
    BY AsIsStep DEF IInv
  <2>4. IndexIsAsDescribed'
    BY AsDescribedStep DEF IInv
  <2>5. ReadIsBetween'
    BY BetweenStep DEF IInv
  <2>6. IndexIsBetween'
    BY IndexBetweenStep DEF IInv
  <2>7. QED
    BY <2>1, <2>2, <2>3, <2>4, <2>5, <2>6 DEF IInv
<1>3. QED
  BY <1>1, <1>2, PTL DEF Spec

\* A repository that the staleness check (_repo_staleness_status) finds current
\* has exactly its files in the index, although the files may have changed while
\* they were being indexed and between the two reads of the check, unless HEAD
\* moved between those.
THEOREM Currency ==
  ASSUME Sound
  PROVE  Spec => []CurrentMeansIndexed
<1>1. IInv => CurrentMeansIndexed
  <2> SUFFICES ASSUME IInv, FoundCurrent, HeadWasKept PROVE docs = Source
    BY DEF CurrentMeansIndexed
  <2>0. TypeOK /\ files \in Contents /\ docs \in Contents /\ tool.commit \in Commits
    BY DEF IInv, TypeOK, HeadWasKept
  <2>1. /\ row.commit = tool.commit /\ row.commit # NoCommit /\ ~MetadataMismatch
        /\ config.includes => row.status = Status /\ tool.commit = head
    <3>1. config.mode = "snapshot" => tool.commit = Pinned
      BY DEF FoundCurrent, ReindexNeeded, HeadWasKept
    <3>2. Expected = tool.commit
      BY <3>1 DEF Expected
    <3>3. QED
      BY <3>2 DEF FoundCurrent, ReindexNeeded, HeadWasKept
  <2>2. CASE ~config.editing /\ config.includes
    BY <2>0, <2>1, <2>2, AsIs DEF IInv, IndexIsAsDescribed, Source
  <2>3. CASE ~config.editing /\ ~config.includes
    <3>1. docs = FilesOf(tool.commit, Clean)
      BY <2>1, <2>3 DEF IInv, IndexIsAsDescribed
    <3>2. FilesOf(tool.commit, Clean) = trees[tool.commit]
      BY <2>0 DEF FilesOf, Clean, TypeOK, Contents
    <3>3. QED
      BY <2>3, <3>1, <3>2 DEF Source
  <2>4. CASE config.editing
    <3>1. config.includes
      BY <2>0, <2>4 DEF Sound, TypeOK
    <3>2. \A d \in Docs : files[d] <= docs[d] /\ docs[d] <= files[d]
      BY <2>0, <2>1, <2>4, <3>1, AsIs DEF IInv, IndexIsBetween
    <3>3. ASSUME NEW d \in Docs PROVE docs[d] = files[d]
      <4>1. files[d] \in Int /\ docs[d] \in Int
        BY <2>0 DEF Contents, Content
      <4>2. files[d] <= docs[d] /\ docs[d] <= files[d]
        BY <3>2
      <4>3. QED
        BY <4>1, <4>2
    <3>4. QED
      BY <2>0, <3>1, <3>3 DEF Source, Contents
  <2>5. QED
    BY <2>0, <2>2, <2>3, <2>4, ConfigTypes DEF TypeOK
<1>2. QED
  BY Invariance, <1>1, PTL
=============================================================================
