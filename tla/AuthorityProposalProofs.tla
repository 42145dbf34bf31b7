----------------------- MODULE AuthorityProposalProofs -----------------------
(***************************************************************************)
(* Proofs about AuthorityProposal, for any servers, branch names, changes, *)
(* pushes of others, edits of the user and failures.                       *)
(***************************************************************************)
EXTENDS AuthorityProposal, Integers, TLAPS

USE AuthorityProposalAssumption, NoneAssumption

\* What an answer is made of.
Replies == [status : Statuses, name : Names, commit : Board!Commit,
            asked : Asked, botched : BOOLEAN, touched : BOOLEAN]

\* An answer that was never given is well-formed.
LEMMA NoReplyType ==
  /\ NoReply \in Replies /\ NoReply.name \in Names /\ NoReply.asked \in Asked
  /\ NoCommit \in Board!Commit /\ NoCommit.base = 0
  BY DEF NoReply, NoCommit, CommitAt, Replies, Board!Commit, Board!Change, Statuses, Prepared

(***************************************************************************)
(* How the variables of a call change, call by call.                       *)
(***************************************************************************)
\* The other calls go on as they are.
Rest(w) ==
    \A v \in Writers \ {w} :
        /\ pc'[v] = pc[v] /\ asked'[v] = asked[v] /\ name'[v] = name[v]
        /\ before'[v] = before[v] /\ made'[v] = made[v] /\ outcome'[v] = outcome[v]
        /\ botched'[v] = botched[v] /\ touched'[v] = touched[v] /\ reply'[v] = reply[v]

\* So do all, except for where one is.
Same(w) ==
    /\ asked'[w] = asked[w] /\ name'[w] = name[w] /\ before'[w] = before[w] /\ made'[w] = made[w]
    /\ touched'[w] = touched[w] /\ reply'[w] = reply[w]

\* A call that went to l.
Went(w, l) ==
    Rest(w) /\ Same(w) /\ pc'[w] = l /\ outcome'[w] = outcome[w] /\ botched'[w] = botched[w]

\* A call that answered s.
Answered(w, s, b) ==
    /\ Rest(w)
    /\ pc'[w] = "idle" /\ before'[w] = "unknown" /\ outcome'[w] = "none" /\ made'[w] = NoCommit
    /\ botched'[w] = FALSE /\ touched'[w] = FALSE
    /\ reply'[w] = [status |-> s, name |-> name[w], commit |-> made[w], asked |-> asked[w],
                    botched |-> b, touched |-> touched[w]]

\* A call that decided on an answer, and has a worktree to remove.
Left(w, s, b) ==
    Rest(w) /\ Same(w) /\ pc'[w] = "remove" /\ outcome'[w] = s /\ botched'[w] = b

\* The types of the calls.
CallTypeOK ==
    /\ lock \in Writers \cup {Free, Orphan}
    /\ pc \in [Writers -> Locations]
    /\ asked \in [Writers -> Asked] /\ name \in [Writers -> Names]
    /\ before \in [Writers -> Names \cup {"main", "detached", "unknown"}]
    /\ made \in [Writers -> Board!Commit]
    /\ outcome \in [Writers -> Statuses]
    /\ botched \in [Writers -> BOOLEAN] /\ touched \in [Writers -> BOOLEAN]
    /\ reply \in [Writers -> Replies]

\* The types of the repositories.
RepositoryTypeOK ==
    /\ mode \in Modes
    /\ canon \in Seq(Board!Commit) /\ pub \in [Names -> Board!Commit \cup {None}]
    /\ ref \in [Names -> Board!Commit \cup {None}]
    /\ tracking \in Nat /\ main \in Nat
    /\ head \in [Trees -> Names \cup {"main", "detached"}]
    /\ detached \in [Trees -> Board!Commit]
    /\ work \in [Trees -> [Files -> {"clean", "ours", "edited", "staged"}]]
    /\ commits \in Nat /\ pushes \in Nat /\ faults \in Nat /\ edits \in Nat

\* TypeOK is of the one and the other.
LEMMA TypeParts ==
  /\ TypeOK <=> CallTypeOK /\ RepositoryTypeOK
  /\ TypeOK' <=> CallTypeOK' /\ RepositoryTypeOK'
  BY DEF TypeOK, CallTypeOK, RepositoryTypeOK, Replies

\* Goto, call by call.
LEMMA GotoFacts ==
  ASSUME CallTypeOK, NEW w \in Writers, NEW l, Goto(w, l)
  PROVE  Went(w, l)
  BY DEF CallTypeOK, Goto, call, Went, Rest, Same

\* AnswerAfter, call by call.
LEMMA AnswerFacts ==
  ASSUME CallTypeOK, NEW w \in Writers, NEW s, NEW b, AnswerAfter(w, s, b)
  PROVE  Answered(w, s, b)
<1>1. reply'[w] = [status |-> s, name |-> name[w], commit |-> made[w], asked |-> asked[w],
                   botched |-> b, touched |-> touched[w]]
  BY DEF CallTypeOK, AnswerAfter
<1>2. QED
  BY <1>1 DEF CallTypeOK, AnswerAfter, Forget, Answered, Rest

\* LeaveAfter, call by call.
LEMMA LeaveFacts ==
  ASSUME CallTypeOK, NEW w \in Writers, NEW s, NEW b, LeaveAfter(w, s, b)
  PROVE  IF mode = "local" THEN Answered(w, s, b) ELSE Left(w, s, b)
<1>1. CASE mode = "local"
  BY <1>1, AnswerFacts DEF LeaveAfter
<1>2. CASE mode # "local"
  BY <1>2 DEF CallTypeOK, LeaveAfter, Left, Rest, Same
<1>3. QED
  BY <1>1, <1>2

\* CleanUp, call by call.
LEMMA CleanUpFacts ==
  ASSUME CallTypeOK, NEW w \in Writers, CleanUp(w)
  PROVE  Rest(w) /\ Same(w) /\ pc'[w] = "undo" /\ outcome'[w] = "failed" /\ botched'[w] = botched[w]
  BY DEF CallTypeOK, CleanUp, Rest, Same

(***************************************************************************)
(* Type correctness.                                                       *)
(***************************************************************************)
\* An answer keeps the types of the calls.
LEMMA AnswerTypes ==
  ASSUME CallTypeOK, NEW w \in Writers, NEW s \in Statuses, NEW b \in BOOLEAN, AnswerAfter(w, s, b)
  PROVE  CallTypeOK'
<1>1. [status |-> s, name |-> name[w], commit |-> made[w], asked |-> asked[w],
       botched |-> b, touched |-> touched[w]] \in Replies
  BY DEF CallTypeOK, Replies
<1>2. reply' \in [Writers -> Replies]
  BY <1>1 DEF CallTypeOK, AnswerAfter
<1>3. QED
  BY <1>2, NoReplyType DEF CallTypeOK, AnswerAfter, Forget, LockReleased, Locations, Statuses

\* So does a decision.
LEMMA LeaveTypes ==
  ASSUME CallTypeOK, NEW w \in Writers, NEW s \in Statuses, NEW b \in BOOLEAN, LeaveAfter(w, s, b)
  PROVE  CallTypeOK'
<1>1. CASE mode = "local"
  BY <1>1, AnswerTypes DEF LeaveAfter
<1>2. CASE mode # "local"
  <2>1. /\ pc' = [pc EXCEPT ![w] = "remove"] /\ outcome' = [outcome EXCEPT ![w] = s]
        /\ botched' = [botched EXCEPT ![w] = b]
        /\ UNCHANGED <<lock, asked, name, before, made, touched, reply>>
    BY <1>2 DEF LeaveAfter
  <2>2. "remove" \in Locations
    BY DEF Locations, Holding
  <2>3. QED
    BY <2>1, <2>2 DEF CallTypeOK
<1>3. QED
  BY <1>1, <1>2

\* And going on.
LEMMA GotoTypes ==
  ASSUME CallTypeOK, NEW w \in Writers, NEW l \in Locations, Goto(w, l)
  PROVE  CallTypeOK'
  BY DEF CallTypeOK, Goto, call

\* And a step that leaves the calls alone.
LEMMA IdleTypes ==
  ASSUME CallTypeOK, lock' \in Writers \cup {Free, Orphan}, UNCHANGED <<pc, call, reply>>
  PROVE  CallTypeOK'
  BY DEF CallTypeOK, call

\* A checkout is of a commit, whether a branch of proposals or not.
LEMMA HeadTypes ==
  ASSUME TypeOK, HeadsExist, NEW t \in Trees
  PROVE  HeadCommit(t) \in Board!Commit
<1>1. CommitAt(main) \in Board!Commit
  BY DEF CommitAt, TypeOK, Board!Commit
<1>2. head[t] \in Names => ref[head[t]] \in Board!Commit
  BY DEF TypeOK, HeadsExist
<1>3. detached[t] \in Board!Commit /\ head[t] \in Names \cup {"main", "detached"}
  BY DEF TypeOK
<1>4. QED
  BY <1>1, <1>2, <1>3 DEF HeadCommit

\* The branch of a call that works on it is there.
LEMMA OwnBranchTypes ==
  ASSUME TypeOK, HeadsExist, CallsAreOrderly, NEW w \in Writers, pc[w] \in OnBranch
  PROVE  ref[name[w]] \in Board!Commit /\ name[w] \in Names /\ Tree(w) \in Trees
<1>1. Tree(w) \in Trees /\ name[w] \in Names /\ head[Tree(w)] = name[w]
  BY DEF TypeOK, CallsAreOrderly, OnItsBranch, Tree, Trees
<1>2. QED
  BY <1>1 DEF TypeOK, HeadsExist

\* The change that a commit makes.
ChangeOf(w) ==
    LET t == Tree(w)
        in == Mine(w) \cup {f \in Files : work[t][f] = "staged"}
    IN  [id |-> commits + 1, adds |-> in \ InHead(t), replaces |-> in \cap InHead(t)]

\* A commit adds one change to the branch of its call (git commit).
LEMMA CommittedFacts ==
  ASSUME TypeOK, HeadsExist, CallsAreOrderly, NEW w \in Writers, pc[w] = "commit", Committed(w)
  PROVE  /\ ref' \in [Names -> Board!Commit \cup {None}] /\ commits' = commits + 1
         /\ work' \in [Trees -> [Files -> {"clean", "ours", "edited", "staged"}]]
         /\ ref'[name[w]] \in Board!Commit
         /\ ref'[name[w]].base = ref[name[w]].base
         /\ ref'[name[w]].stack = Append(ref[name[w]].stack, ChangeOf(w))
         /\ ref[name[w]].stack \in Seq(Board!Change) /\ ChangeOf(w) \in Board!Change
         /\ \A n \in Names \ {name[w]} : ref'[n] = ref[n]
<1>1. ref[name[w]] \in Board!Commit /\ name[w] \in Names /\ Tree(w) \in Trees
  BY OwnBranchTypes DEF OnBranch
<1>2. Mine(w) \subseteq Files
  BY DEF Mine, TypeOK
<1>3. ChangeOf(w) \in Board!Change
  BY <1>2 DEF ChangeOf, Board!Change, TypeOK
<1>4. ref[name[w]].stack \in Seq(Board!Change) /\ ref[name[w]].base \in Nat
  BY <1>1 DEF Board!Commit
<1> DEFINE s == Append(ref[name[w]].stack, ChangeOf(w))
           c == [ref[name[w]] EXCEPT !.stack = s]
<1>5. ref' = [ref EXCEPT ![name[w]] = c]
  BY DEF Committed, ChangeOf
<1>6. s \in Seq(Board!Change)
  BY <1>3, <1>4
<1> HIDE DEF s
<1>7. c \in Board!Commit /\ c.base = ref[name[w]].base /\ c.stack = s
  BY <1>1, <1>4, <1>6 DEF Board!Commit
<1> HIDE DEF c
<1>8. work' \in [Trees -> [Files -> {"clean", "ours", "edited", "staged"}]] /\ commits' = commits + 1
  BY <1>1 DEF Committed, TypeOK
<1>9. ref \in [Names -> Board!Commit \cup {None}]
  BY DEF TypeOK
<1>10. QED
  BY <1>1, <1>3, <1>4, <1>5, <1>7, <1>8, <1>9 DEF s

\* What reviewers push is a commit (ReviewBoard).
LEMMA ReviewTypes ==
  ASSUME TypeOK, NEW f \in Files, Board!PushOwn(f)
  PROVE  canon' \in Seq(Board!Commit)
<1> DEFINE tip == [base |-> Len(canon), stack |-> <<>>]
           change == [id |-> 0, adds |-> {f} \ Board!FilesAt(tip), replaces |-> {f} \cap Board!FilesAt(tip)]
<1>1. Len(canon) \in Nat /\ canon \in Seq(Board!Commit)
  BY DEF TypeOK
<1>2. change \in Board!Change
  BY DEF Board!Change
<1>3. canon' = Append(canon, [tip EXCEPT !.stack = <<change>>])
  BY DEF Board!PushOwn
<1> HIDE DEF change
<1>4. <<change>> \in Seq(Board!Change)
  BY <1>2
<1>5. [tip EXCEPT !.stack = <<change>>] \in Board!Commit
  BY <1>1, <1>4 DEF Board!Commit
<1>6. QED
  BY <1>1, <1>3, <1>5

\* Every step keeps the types of the repositories.
LEMMA RepositoryTypeStep ==
  ASSUME TypeOK, HeadsExist, CallsAreOrderly, [Next]_vars
  PROVE  RepositoryTypeOK'
<1>0. /\ CallTypeOK /\ RepositoryTypeOK
      /\ \A w \in Writers : Tree(w) \in Trees /\ w \in Trees /\ name[w] \in Names
  BY TypeParts DEF Tree, Trees, CallTypeOK
<1> USE <1>0 DEF RepositoryTypeOK
<1>1. CASE UNCHANGED vars
  BY <1>1 DEF vars, board, clone, trees, counts
<1>2. ASSUME NEW w \in Writers, NEW r \in Requests, Request(w, r[1], r[2]) PROVE RepositoryTypeOK'
  BY <1>2 DEF Request, board, clone, trees, counts
<1>3. ASSUME NEW w \in Writers, Acquire(w) PROVE RepositoryTypeOK'
  BY <1>3 DEF Acquire, board, clone, trees, counts
<1>4. ASSUME NEW w \in Writers, Reclaim(w) PROVE RepositoryTypeOK'
  BY <1>4 DEF Reclaim, board, clone, trees, counts
<1>5. ASSUME NEW w \in Writers, Exists(w) PROVE RepositoryTypeOK'
  BY <1>5 DEF Exists, board, clone, trees, counts
<1>6. ASSUME NEW w \in Writers, Fetch(w) PROVE RepositoryTypeOK'
  BY <1>6 DEF Fetch, board, trees, counts
<1>7. ASSUME NEW w \in Writers, AddWorktree(w) PROVE RepositoryTypeOK'
  <2>1. CommitAt(tracking) \in Board!Commit /\ AllClean \in [Files -> {"clean", "ours", "edited", "staged"}] /\ w \in Trees
    BY DEF CommitAt, Board!Commit, AllClean, Trees
  <2>2. QED
    BY <1>7, <2>1 DEF AddWorktree, board, clone, counts
<1>8. ASSUME NEW w \in Writers, Status(w) PROVE RepositoryTypeOK'
  BY <1>8 DEF Status, board, clone, trees, counts
<1>9. ASSUME NEW w \in Writers, Validate(w) PROVE RepositoryTypeOK'
  BY <1>9 DEF Validate, board, clone, trees, counts
<1>10. ASSUME NEW w \in Writers, MakeBranch(w) PROVE RepositoryTypeOK'
  <2>1. HeadCommit(Tree(w)) \in Board!Commit /\ name[w] \in Names
    BY <1>0, HeadTypes DEF CallTypeOK
  <2>2. QED
    BY <1>0, <1>10, <2>1 DEF MakeBranch, SwitchToNew, Fault, board, counts
<1>11. ASSUME NEW w \in Writers, Write(w) PROVE RepositoryTypeOK'
  <2>1. work' \in [Trees -> [Files -> {"clean", "ours", "edited", "staged"}]]
    BY <1>0, <1>11 DEF Write, Written
  <2>2. QED
    BY <1>11, <2>1 DEF Write, board, clone, counts
<1>12. ASSUME NEW w \in Writers, MakeCommit(w) PROVE RepositoryTypeOK'
  <2>1. /\ ref' \in [Names -> Board!Commit \cup {None}] /\ commits' = commits + 1
        /\ work' \in [Trees -> [Files -> {"clean", "ours", "edited", "staged"}]]
    BY <1>12, CommittedFacts DEF MakeCommit
  <2>2. QED
    BY <1>12, <2>1 DEF MakeCommit, board
<1>13. ASSUME NEW w \in Writers, NothingToCommit(w) PROVE RepositoryTypeOK'
  BY <1>13 DEF NothingToCommit, board, clone, trees, counts
<1>14. ASSUME NEW w \in Writers, UndoReset(w) PROVE RepositoryTypeOK'
  <2>1. Undone(w) \in [Files -> {"clean", "ours", "edited", "staged"}]
    BY <1>0 DEF Undone
  <2>2. QED
    BY <1>0, <1>14, <2>1 DEF UndoReset, board, clone, counts
<1>15. ASSUME NEW w \in Writers, UndoSwitch(w) PROVE RepositoryTypeOK'
  <2>1. before[w] \in Names \cup {"main", "detached", "unknown"} /\ head[Tree(w)] \in Names \cup {"main", "detached"}
    BY <1>0 DEF CallTypeOK
  <2>2. (IF before[w] = "unknown" THEN head[Tree(w)] ELSE before[w]) \in Names \cup {"main", "detached"}
    BY <2>1
  <2>3. head' \in [Trees -> Names \cup {"main", "detached"}]
    BY <1>0, <1>15, <2>2 DEF UndoSwitch
  <2>4. QED
    BY <1>15, <2>3 DEF UndoSwitch, board, clone, counts
<1>16. ASSUME NEW w \in Writers, UndoBranch(w) PROVE RepositoryTypeOK'
  BY <1>16 DEF UndoBranch, Deleted, CallTypeOK, board, clone, trees, counts
<1>17. ASSUME NEW w \in Writers, Authenticate(w) PROVE RepositoryTypeOK'
  BY <1>17 DEF Authenticate, board, clone, trees, counts
<1>18. ASSUME NEW w \in Writers, Push(w) PROVE RepositoryTypeOK'
  <2>1. ref[name[w]] \in Board!Commit
    BY <1>18, OwnBranchTypes DEF Push, OnBranch
  <2>2. QED
    BY <1>18, <2>1 DEF Push, Fault, clone, trees, counts
<1>19. ASSUME NEW w \in Writers, Rejected(w) PROVE RepositoryTypeOK'
  BY <1>19 DEF Rejected, board, clone, trees, counts
<1>20. ASSUME NEW w \in Writers, Open(w) PROVE RepositoryTypeOK'
  BY <1>20 DEF Open, board, clone, trees, counts
<1>21. ASSUME NEW w \in Writers, RemoveWorktree(w) PROVE RepositoryTypeOK'
  <2>1. AllClean \in [Files -> {"clean", "ours", "edited", "staged"}]
    BY DEF AllClean
  <2>2. QED
    BY <1>21, <2>1 DEF RemoveWorktree, board, clone, counts
<1>22. ASSUME NEW w \in Writers, DeleteBranch(w) PROVE RepositoryTypeOK'
  BY <1>22 DEF DeleteBranch, Deleted, CallTypeOK, board, clone, trees, counts
<1>23. ASSUME NEW w \in Writers, TimeOut(w) PROVE RepositoryTypeOK'
  BY <1>23 DEF TimeOut, board, clone, trees, counts
<1>24. ASSUME NEW w \in Writers, FetchFails(w) PROVE RepositoryTypeOK'
  BY <1>24 DEF FetchFails, Fault, board, clone, trees, counts
<1>25. ASSUME NEW w \in Writers, AddWorktreeFails(w) PROVE RepositoryTypeOK'
  BY <1>25 DEF AddWorktreeFails, Fault, board, clone, trees, counts
<1>26. ASSUME NEW w \in Writers, StatusFails(w) PROVE RepositoryTypeOK'
  BY <1>26 DEF StatusFails, Fault, board, clone, trees, counts
<1>27. ASSUME NEW w \in Writers, MakeBranchBlindly(w) PROVE RepositoryTypeOK'
  <2>1. HeadCommit(Tree(w)) \in Board!Commit /\ name[w] \in Names
    BY <1>0, HeadTypes DEF CallTypeOK
  <2>2. QED
    BY <1>0, <1>27, <2>1 DEF MakeBranchBlindly, SwitchToNew, Fault, board, counts
<1>28. ASSUME NEW w \in Writers, BranchFails(w) PROVE RepositoryTypeOK'
  BY <1>28 DEF BranchFails, Fault, board, clone, trees, counts
<1>29. ASSUME NEW w \in Writers, WriteFails(w) PROVE RepositoryTypeOK'
  <2>1. work' \in [Trees -> [Files -> {"clean", "ours", "edited", "staged"}]]
    BY <1>0, <1>29 DEF WriteFails, Written
  <2>2. QED
    BY <1>29, <2>1 DEF WriteFails, Fault, board, clone
<1>30. ASSUME NEW w \in Writers, CommitFails(w) PROVE RepositoryTypeOK'
  <2>1. CASE UNCHANGED <<ref, work, commits>>
    BY <1>30, <2>1 DEF CommitFails, Fault, board
  <2>2. CASE Committed(w)
    <3>1. /\ ref' \in [Names -> Board!Commit \cup {None}] /\ commits' = commits + 1
          /\ work' \in [Trees -> [Files -> {"clean", "ours", "edited", "staged"}]]
      BY <1>30, <2>2, CommittedFacts DEF CommitFails
    <3>2. QED
      BY <1>30, <3>1 DEF CommitFails, Fault, board
  <2>3. QED
    BY <1>30, <2>1, <2>2 DEF CommitFails
<1>31. ASSUME NEW w \in Writers, UndoFails(w) PROVE RepositoryTypeOK'
  BY <1>31 DEF UndoFails, Fault, board, clone, trees, counts
<1>32. ASSUME NEW w \in Writers, PushFails(w) PROVE RepositoryTypeOK'
  <2>1. ref[name[w]] \in Board!Commit
    BY <1>32, OwnBranchTypes DEF PushFails, OnBranch
  <2>2. pub' \in [Names -> Board!Commit \cup {None}]
    <3>1. CASE UNCHANGED pub
      BY <3>1
    <3>2. CASE pub' = [pub EXCEPT ![name[w]] = ref[name[w]]]
      BY <3>2, <2>1
    <3>3. QED
      BY <1>32, <3>1, <3>2 DEF PushFails
  <2>3. UNCHANGED <<mode, canon, clone, trees, commits, pushes, edits>> /\ faults' = faults + 1
    BY <1>32 DEF PushFails, Fault
  <2>4. QED
    BY <2>2, <2>3 DEF clone, trees
<1>33. ASSUME NEW w \in Writers, GhFails(w) PROVE RepositoryTypeOK'
  BY <1>33 DEF GhFails, Fault, board, clone, trees, counts
<1>34. ASSUME NEW w \in Writers, RemoveFails(w) PROVE RepositoryTypeOK'
  BY <1>34 DEF RemoveFails, Fault, board, clone, trees, counts
<1>35. ASSUME NEW w \in Writers, Crash(w) PROVE RepositoryTypeOK'
  BY <1>35 DEF Crash, Fault, board, clone, trees, counts
<1>36. ASSUME NEW w \in Writers, Restart(w) PROVE RepositoryTypeOK'
  BY <1>36 DEF Restart, board, clone, trees, counts
<1>37. CASE Review
  <2>1. canon' \in Seq(Board!Commit) /\ UNCHANGED pub
    <3>1. ASSUME NEW n \in Names, Board!Merge(n) PROVE canon' \in Seq(Board!Commit) /\ UNCHANGED pub
      <4>1. canon' = Append(canon, pub[n]) /\ pub[n] # None /\ UNCHANGED pub
        BY <3>1 DEF Board!Merge
      <4>2. QED
        BY <4>1
    <3>2. ASSUME NEW f \in Files, Board!PushOwn(f) PROVE canon' \in Seq(Board!Commit) /\ UNCHANGED pub
      BY <3>2, ReviewTypes DEF Board!PushOwn
    <3>3. QED
      BY <1>37, <3>1, <3>2 DEF Review
  <2>3. QED
    BY <1>37, <2>1 DEF Review, clone, trees
<1>38. CASE UserMoves
  <2>1. Len(canon) \in Nat /\ "workspace" \in Trees
    BY DEF Trees
  <2>2. CASE tracking' = Len(canon) /\ main' = Len(canon) /\ UNCHANGED <<ref, head>>
    BY <1>38, <2>1, <2>2 DEF UserMoves, UserActs, board
  <2>3. ASSUME NEW h \in {"main"} \cup Names, head' = [head EXCEPT !["workspace"] = h], UNCHANGED clone
        PROVE  RepositoryTypeOK'
    BY <1>38, <2>1, <2>3 DEF UserMoves, UserActs, board, clone
  <2>4. ASSUME NEW n \in Names, ref' = [ref EXCEPT ![n] = None], UNCHANGED <<tracking, main, head>>
        PROVE  RepositoryTypeOK'
    BY <1>38, <2>1, <2>4 DEF UserMoves, UserActs, board
  <2>5. QED
    BY <1>38, <2>2, <2>3, <2>4 DEF UserMoves
<1>39. ASSUME NEW f \in Files, NEW k \in {"clean", "edited", "staged"}, UserWrites(f, k) PROVE RepositoryTypeOK'
  <2>1. work' \in [Trees -> [Files -> {"clean", "ours", "edited", "staged"}]]
    BY <1>39 DEF UserWrites, Trees
  <2>2. QED
    BY <1>39, <2>1 DEF UserWrites, UserActs, board, clone
<1>40. QED
  BY <1>1, <1>2, <1>3, <1>4, <1>5, <1>6, <1>7, <1>8, <1>9, <1>10, <1>11, <1>12, <1>13, <1>14, <1>15, <1>16, <1>17, <1>18, <1>19, <1>20, <1>21, <1>22, <1>23, <1>24, <1>25, <1>26, <1>27, <1>28, <1>29, <1>30, <1>31, <1>32, <1>33, <1>34, <1>35, <1>36, <1>37, <1>38, <1>39
  DEF Next, Step, StepFails

\* The statuses that decisions are made with, and the flag that goes along.
LEMMA Decided ==
  /\ Prepared \subseteq Statuses
  /\ {"failed", "blocked", "INVALID_CHANGES", "BRANCH_EXISTS", "GIT_LOCK_FAILED", "GIT_FETCH_FAILED",
      "GIT_STATUS_FAILED", "GIT_PUSH_FAILED", "GIT_PROPOSAL_FAILED", "raised",
      "branch_prepared_pr_not_opened"} \subseteq Statuses
  /\ CallTypeOK => \A w \in Writers : botched[w] \in BOOLEAN /\ outcome[w] \in Statuses
  BY DEF Statuses, Prepared, CallTypeOK

\* A call that timed out keeps the types.
LEMMA RaiseTypes ==
  ASSUME CallTypeOK, NEW w \in Writers, Raise(w)
  PROVE  CallTypeOK'
  BY Decided, LeaveTypes DEF Raise, Leave

\* A call that cleans up keeps the types.
LEMMA CleanUpTypes ==
  ASSUME CallTypeOK, NEW w \in Writers, CleanUp(w)
  PROVE  CallTypeOK'
<1>1. "undo" \in Locations /\ "failed" \in Statuses
  BY DEF Locations, Holding, Statuses
<1>2. QED
  BY <1>1 DEF CleanUp, CallTypeOK

\* Every step keeps the types of the calls.
LEMMA CallTypeStep ==
  ASSUME TypeOK, HeadsExist, CallsAreOrderly, [Next]_vars
  PROVE  CallTypeOK'
<1>0. CallTypeOK
  BY TypeParts
<1> USE <1>0
<1>1. CASE UNCHANGED vars
  BY <1>1, IdleTypes DEF vars, CallTypeOK
<1>2. ASSUME NEW w \in Writers, NEW r \in Requests, Request(w, r[1], r[2]) PROVE CallTypeOK'
  <2>1. r[1] \in Names /\ r[2] \in Asked /\ (IF mode = "local" THEN "status" ELSE "lock") \in Locations
    BY <1>2 DEF Locations, Holding
  <2>2. QED
    BY <1>2, <2>1, NoReplyType DEF Request, CallTypeOK
<1>3. ASSUME NEW w \in Writers, Acquire(w) PROVE CallTypeOK'
  <2>1. "exists" \in Locations
    BY DEF Locations, Holding
  <2>2. QED
    BY <1>3, <2>1 DEF Acquire, CallTypeOK, call
<1>4. ASSUME NEW w \in Writers, Reclaim(w) PROVE CallTypeOK'
  BY <1>4, IdleTypes DEF Reclaim, CallTypeOK
<1>5. ASSUME NEW w \in Writers, Exists(w) PROVE CallTypeOK'
  <2>1. "fetch" \in Locations
    BY DEF Locations, Holding
  <2>2. QED
    BY <1>5, <2>1, GotoTypes, RaiseTypes, LeaveTypes, AnswerTypes, Decided, CleanUpTypes DEF Exists, Leave, Answer
<1>6. ASSUME NEW w \in Writers, Fetch(w) PROVE CallTypeOK'
  <2>1. "worktree" \in Locations
    BY DEF Locations, Holding
  <2>2. QED
    BY <1>6, <2>1, GotoTypes, RaiseTypes, LeaveTypes, AnswerTypes, Decided, CleanUpTypes DEF Fetch, Leave, Answer
<1>7. ASSUME NEW w \in Writers, AddWorktree(w) PROVE CallTypeOK'
  <2>1. "status" \in Locations
    BY DEF Locations, Holding
  <2>2. QED
    BY <1>7, <2>1, GotoTypes, RaiseTypes, LeaveTypes, AnswerTypes, Decided, CleanUpTypes DEF AddWorktree, Leave, Answer
<1>8. ASSUME NEW w \in Writers, Status(w) PROVE CallTypeOK'
  <2>1. "validate" \in Locations
    BY DEF Locations, Holding
  <2>2. QED
    BY <1>8, <2>1, GotoTypes, RaiseTypes, LeaveTypes, AnswerTypes, Decided, CleanUpTypes DEF Status, Leave, Answer
<1>9. ASSUME NEW w \in Writers, Validate(w) PROVE CallTypeOK'
  <2>1. "branch" \in Locations
    BY DEF Locations, Holding
  <2>2. QED
    BY <1>9, <2>1, GotoTypes, RaiseTypes, LeaveTypes, AnswerTypes, Decided, CleanUpTypes DEF Validate, Leave, Answer
<1>10. ASSUME NEW w \in Writers, MakeBranch(w) PROVE CallTypeOK'
  <2>1. "write" \in Locations /\ head[Tree(w)] \in Names \cup {"main", "detached"}
    BY DEF Locations, Holding, TypeOK, Tree, Trees
  <2>2. before' = [before EXCEPT ![w] = head[Tree(w)]]
    BY <1>10 DEF MakeBranch, SwitchToNew
  <2>3. before' \in [Writers -> Names \cup {"main", "detached", "unknown"}]
    BY <2>1, <2>2 DEF CallTypeOK
  <2>4. QED
    BY <1>10, <2>1, <2>3 DEF MakeBranch, CallTypeOK
<1>11. ASSUME NEW w \in Writers, Write(w) PROVE CallTypeOK'
  <2>1. "commit" \in Locations
    BY DEF Locations, Holding
  <2>2. QED
    BY <1>11, <2>1, GotoTypes, RaiseTypes, LeaveTypes, AnswerTypes, Decided, CleanUpTypes DEF Write, Leave, Answer
<1>12. ASSUME NEW w \in Writers, MakeCommit(w) PROVE CallTypeOK'
  <2>1. "gh" \in Locations
    BY DEF Locations, Holding
  <2>2. ref'[name[w]] \in Board!Commit
    BY <1>12, CommittedFacts DEF MakeCommit
  <2>3. made' = [made EXCEPT ![w] = ref'[name[w]]]
    BY <1>12 DEF MakeCommit
  <2>4. made' \in [Writers -> Board!Commit]
    BY <2>2, <2>3 DEF CallTypeOK
  <2>5. QED
    BY <1>12, <2>1, <2>4 DEF MakeCommit, CallTypeOK
<1>13. ASSUME NEW w \in Writers, NothingToCommit(w) PROVE CallTypeOK'
  BY <1>13, LeaveTypes, AnswerTypes, Decided, RaiseTypes, CleanUpTypes DEF NothingToCommit, Leave, Answer
<1>14. ASSUME NEW w \in Writers, UndoReset(w) PROVE CallTypeOK'
  <2>1. "back" \in Locations
    BY DEF Locations, Holding
  <2>2. QED
    BY <1>14, <2>1, GotoTypes, RaiseTypes, LeaveTypes, AnswerTypes, Decided, CleanUpTypes DEF UndoReset, Leave, Answer
<1>15. ASSUME NEW w \in Writers, UndoSwitch(w) PROVE CallTypeOK'
  <2>1. "drop" \in Locations
    BY DEF Locations, Holding
  <2>2. QED
    BY <1>15, <2>1, GotoTypes, RaiseTypes, LeaveTypes, AnswerTypes, Decided, CleanUpTypes DEF UndoSwitch, Leave, Answer
<1>16. ASSUME NEW w \in Writers, UndoBranch(w) PROVE CallTypeOK'
  BY <1>16, LeaveTypes, AnswerTypes, Decided, RaiseTypes, CleanUpTypes DEF UndoBranch, Leave, Answer
<1>17. ASSUME NEW w \in Writers, Authenticate(w) PROVE CallTypeOK'
  <2>1. "push" \in Locations /\ "push and open" \in Locations
    BY DEF Locations, Holding
  <2>2. QED
    BY <1>17, <2>1, GotoTypes, RaiseTypes, LeaveTypes, AnswerTypes, Decided, CleanUpTypes DEF Authenticate, Leave, Answer
<1>18. ASSUME NEW w \in Writers, Push(w) PROVE CallTypeOK'
  <2>1. "pr" \in Locations
    BY DEF Locations, Holding
  <2>2. QED
    BY <1>18, <2>1, GotoTypes, RaiseTypes, LeaveTypes, AnswerTypes, Decided, CleanUpTypes DEF Push, Leave, Answer
<1>19. ASSUME NEW w \in Writers, Rejected(w) PROVE CallTypeOK'
  BY <1>19, LeaveTypes, AnswerTypes, Decided, RaiseTypes, CleanUpTypes DEF Rejected, Leave, Answer, NotPushed
<1>20. ASSUME NEW w \in Writers, Open(w) PROVE CallTypeOK'
  <2>1. PICK s \in Prepared : Leave(w, s)
    BY <1>20 DEF Open
  <2>2. s \in Statuses
    BY DEF Statuses
  <2>3. QED
    BY <2>1, <2>2, LeaveTypes, Decided DEF Leave
<1>21. ASSUME NEW w \in Writers, RemoveWorktree(w) PROVE CallTypeOK'
  <2>1. "delete" \in Locations
    BY DEF Locations, Holding
  <2>2. QED
    BY <1>21, <2>1, GotoTypes, RaiseTypes, LeaveTypes, AnswerTypes, Decided, CleanUpTypes DEF RemoveWorktree, Leave, Answer
<1>22. ASSUME NEW w \in Writers, DeleteBranch(w) PROVE CallTypeOK'
  BY <1>22, LeaveTypes, AnswerTypes, Decided, RaiseTypes, CleanUpTypes DEF DeleteBranch, Leave, Answer
<1>23. ASSUME NEW w \in Writers, TimeOut(w) PROVE CallTypeOK'
  BY <1>23, LeaveTypes, AnswerTypes, Decided, RaiseTypes, CleanUpTypes DEF TimeOut, Leave, Answer
<1>24. ASSUME NEW w \in Writers, FetchFails(w) PROVE CallTypeOK'
  BY <1>24, LeaveTypes, AnswerTypes, Decided, RaiseTypes, CleanUpTypes DEF FetchFails, Leave, Answer
<1>25. ASSUME NEW w \in Writers, AddWorktreeFails(w) PROVE CallTypeOK'
  BY <1>25, LeaveTypes, AnswerTypes, Decided, RaiseTypes, CleanUpTypes DEF AddWorktreeFails, Leave, Answer
<1>26. ASSUME NEW w \in Writers, StatusFails(w) PROVE CallTypeOK'
  BY <1>26, LeaveTypes, AnswerTypes, Decided, RaiseTypes, CleanUpTypes DEF StatusFails, Leave, Answer
<1>27. ASSUME NEW w \in Writers, MakeBranchBlindly(w) PROVE CallTypeOK'
  <2>1. "write" \in Locations
    BY DEF Locations, Holding
  <2>2. PICK b \in {"detached", "unknown"} : before' = [before EXCEPT ![w] = b]
    BY <1>27 DEF MakeBranchBlindly, SwitchToNew
  <2>3. before' \in [Writers -> Names \cup {"main", "detached", "unknown"}]
    BY <2>2 DEF CallTypeOK
  <2>4. QED
    BY <1>27, <2>1, <2>3 DEF MakeBranchBlindly, CallTypeOK
<1>28. ASSUME NEW w \in Writers, BranchFails(w) PROVE CallTypeOK'
  BY <1>28, LeaveTypes, AnswerTypes, Decided, RaiseTypes, CleanUpTypes DEF BranchFails, Leave, Answer
<1>29. ASSUME NEW w \in Writers, WriteFails(w) PROVE CallTypeOK'
  BY <1>29, LeaveTypes, AnswerTypes, Decided, RaiseTypes, CleanUpTypes DEF WriteFails, Leave, Answer
<1>30. ASSUME NEW w \in Writers, CommitFails(w) PROVE CallTypeOK'
  BY <1>30, LeaveTypes, AnswerTypes, Decided, RaiseTypes, CleanUpTypes DEF CommitFails, Leave, Answer
<1>31. ASSUME NEW w \in Writers, UndoFails(w) PROVE CallTypeOK'
  <2>1. CASE /\ pc' = [pc EXCEPT ![w] = IF @ = "undo" THEN "back" ELSE "drop"]
             /\ botched' = [botched EXCEPT ![w] = TRUE]
             /\ UNCHANGED <<lock, asked, name, before, made, outcome, touched, reply>>
    <3>1. (IF pc[w] = "undo" THEN "back" ELSE "drop") \in Locations
      BY DEF Locations, Holding
    <3>2. pc' \in [Writers -> Locations]
      BY <2>1, <3>1 DEF CallTypeOK
    <3>3. QED
      BY <2>1, <3>2 DEF CallTypeOK
  <2>2. QED
    BY <1>31, <2>1, LeaveTypes, AnswerTypes, Decided, RaiseTypes DEF UndoFails, Leave, Answer
<1>32. ASSUME NEW w \in Writers, PushFails(w) PROVE CallTypeOK'
  <2>1. CASE NotPushed(w)
    BY <2>1, LeaveTypes, Decided DEF Leave, NotPushed
  <2>2. CASE Raise(w)
    BY <2>2, RaiseTypes
  <2>3. QED
    BY <1>32, <2>1, <2>2 DEF PushFails
<1>33. ASSUME NEW w \in Writers, GhFails(w) PROVE CallTypeOK'
  BY <1>33, LeaveTypes, AnswerTypes, Decided, RaiseTypes, CleanUpTypes DEF GhFails, Leave, Answer
<1>34. ASSUME NEW w \in Writers, RemoveFails(w) PROVE CallTypeOK'
  <2>1. CASE /\ pc' = [pc EXCEPT ![w] = "delete"]
             /\ botched' = [botched EXCEPT ![w] = TRUE]
             /\ UNCHANGED <<lock, asked, name, before, made, outcome, touched, reply>>
    <3>1. "delete" \in Locations
      BY DEF Locations, Holding
    <3>2. pc' \in [Writers -> Locations]
      BY <2>1, <3>1 DEF CallTypeOK
    <3>3. QED
      BY <2>1, <3>2 DEF CallTypeOK
  <2>2. QED
    BY <1>34, <2>1, LeaveTypes, AnswerTypes, Decided, RaiseTypes DEF RemoveFails, Leave, Answer
<1>35. ASSUME NEW w \in Writers, Crash(w) PROVE CallTypeOK'
  <2>1. "down" \in Locations
    BY DEF Locations
  <2>2. lock' \in Writers \cup {Free, Orphan}
    BY <1>35 DEF Crash, CallTypeOK
  <2>3. QED
    BY <1>35, <2>1, <2>2, NoReplyType DEF Crash, Forget, CallTypeOK, Statuses
<1>36. ASSUME NEW w \in Writers, Restart(w) PROVE CallTypeOK'
  <2>1. "idle" \in Locations
    BY DEF Locations
  <2>3. QED
    BY <1>36, <2>1 DEF Restart, CallTypeOK, call
<1>37. CASE Review
  BY <1>37, IdleTypes DEF Review, CallTypeOK
<1>38. CASE UserMoves
  BY <1>38, IdleTypes DEF UserMoves, CallTypeOK
<1>39. ASSUME NEW f \in Files, NEW k \in {"clean", "edited", "staged"}, UserWrites(f, k) PROVE CallTypeOK'
  BY <1>39 DEF UserWrites, CallTypeOK
<1>40. QED
  BY <1>1, <1>2, <1>3, <1>4, <1>5, <1>6, <1>7, <1>8, <1>9, <1>10, <1>11, <1>12, <1>13, <1>14, <1>15, <1>16, <1>17, <1>18, <1>19, <1>20, <1>21, <1>22, <1>23, <1>24, <1>25, <1>26, <1>27, <1>28, <1>29, <1>30, <1>31, <1>32, <1>33, <1>34, <1>35, <1>36, <1>37, <1>38, <1>39
  DEF Next, Step, StepFails

\* Type correctness, step by step.
LEMMA TypeStep ==
  ASSUME TypeOK, HeadsExist, CallsAreOrderly, [Next]_vars
  PROVE  TypeOK'
  BY TypeParts, RepositoryTypeStep, CallTypeStep

(***************************************************************************)
(* What commits are, while the boards grow.                                *)
(***************************************************************************)
\* The first elements of a sequence.
LEMMA Prefixes ==
  ASSUME NEW S, NEW s \in Seq(S), NEW n \in Int, n <= Len(s)
  PROVE  /\ SubSeq(s, 1, n) \in Seq(S)
         /\ n >= 0 => Len(SubSeq(s, 1, n)) = n /\ \A i \in 1..n : SubSeq(s, 1, n)[i] = s[i]
<1>1. CASE n >= 0
  <2>1. SubSeq(s, 1, n) \in Seq(S)
    BY <1>1
  <2>2. Len(SubSeq(s, 1, n)) = n
    BY <1>1
  <2>3. \A i \in 1..n : SubSeq(s, 1, n)[i] = s[i]
    BY <1>1
  <2>4. QED
    BY <2>1, <2>2, <2>3
<1>2. CASE n < 0
  <2>1. SubSeq(s, 1, n) = <<>>
    BY <1>2
  <2>2. QED
    BY <1>2, <2>1
<1>3. QED
  BY <1>1, <1>2

\* A sequence is the first elements of itself, and of what is added to.
LEMMA WholePrefix ==
  ASSUME NEW S, NEW s \in Seq(S), NEW e \in S
  PROVE  SubSeq(s, 1, Len(s)) = s /\ SubSeq(Append(s, e), 1, Len(s)) = s
  OBVIOUS

\* The first elements of the first elements are the first elements.
LEMMA PrefixOfPrefix ==
  ASSUME NEW S, NEW s \in Seq(S), NEW m \in Nat, NEW n \in Nat, m <= n, n <= Len(s)
  PROVE  SubSeq(SubSeq(s, 1, n), 1, m) = SubSeq(s, 1, m)
  OBVIOUS

\* The canonical branch is added to, and never rewritten.
Grows ==
    /\ Len(canon) <= Len(canon')
    /\ \A i \in 1..Len(canon) : canon'[i] = canon[i]

\* The files at a commit stay what they are.
LEMMA FilesStay ==
  ASSUME TypeOK, TypeOK', Grows, NEW c \in Board!Commit, Past(c)
  PROVE  Board!FilesAt(c)' = Board!FilesAt(c)
<1>1. Len(canon) \in Nat /\ c.base \in Nat
  BY DEF TypeOK, Board!Commit
<1>2. \A i \in 1..c.base : canon'[i] = canon[i]
  BY <1>1 DEF Grows, Past
<1>3. \A i \in 1..c.base : Board!AddedBy(canon[i])' = Board!AddedBy(canon[i])
  BY <1>2 DEF Board!AddedBy
<1>4. UNION {Board!AddedBy(canon[i]) : i \in 1..c.base}' = UNION {Board!AddedBy(canon[i]) : i \in 1..c.base}
  BY <1>3
<1>5. Board!AddedBy(c)' = Board!AddedBy(c)
  BY DEF Board!AddedBy
<1>6. QED
  BY <1>4, <1>5 DEF Board!FilesAt

\* The commit that another was made on.
LEMMA ParentType ==
  ASSUME NEW c \in Board!Commit
  PROVE  /\ Board!Parent(c) \in Board!Commit /\ Board!Parent(c).base = c.base
         /\ Board!Parent(c).stack = SubSeq(c.stack, 1, Len(c.stack) - 1)
<1> DEFINE s == SubSeq(c.stack, 1, Len(c.stack) - 1)
<1>1. c.stack \in Seq(Board!Change)
  BY DEF Board!Commit
<1>2. Len(c.stack) - 1 \in Int /\ Len(c.stack) - 1 <= Len(c.stack)
  BY <1>1
<1>3. s \in Seq(Board!Change)
  BY <1>1, <1>2, Prefixes
<1>4. Board!Parent(c) = [c EXCEPT !.stack = s]
  BY DEF Board!Parent
<1> HIDE DEF s
<1>5. Board!Parent(c) \in Board!Commit /\ Board!Parent(c).base = c.base /\ Board!Parent(c).stack = s
  BY <1>3, <1>4 DEF Board!Commit
<1>6. QED
  BY <1>5 DEF s

\* Whether a commit is what was asked for stays as it is.
LEMMA AskedStays ==
  ASSUME TypeOK, TypeOK', Grows, NEW c \in Board!Commit, Past(c), NEW a
  PROVE  IsAsked(c, a)' <=> IsAsked(c, a)
<1>1. Board!Parent(c) \in Board!Commit /\ Past(Board!Parent(c))
  BY ParentType DEF Past
<1>2. Board!FilesAt(Board!Parent(c))' = Board!FilesAt(Board!Parent(c))
  <2>1. PICK p \in Board!Commit : p = Board!Parent(c) /\ p = Board!Parent(c)' /\ Past(p)
    BY <1>1 DEF Board!Parent
  <2>2. Board!FilesAt(p)' = Board!FilesAt(p)
    BY <2>1, FilesStay
  <2>3. QED
    BY <2>1, <2>2
<1>3. QED
  BY <1>2 DEF IsAsked

\* A stack that another one starts with, which a third one starts with.
LEMMA PrefixTrans ==
  ASSUME NEW c \in Board!Commit, NEW d \in Board!Commit, NEW e \in Board!Commit,
         Len(c.stack) <= Len(d.stack), c.stack = SubSeq(d.stack, 1, Len(c.stack)),
         Len(d.stack) <= Len(e.stack), d.stack = SubSeq(e.stack, 1, Len(d.stack))
  PROVE  Len(c.stack) <= Len(e.stack) /\ c.stack = SubSeq(e.stack, 1, Len(c.stack))
<1>1. e.stack \in Seq(Board!Change) /\ Len(c.stack) \in Nat /\ Len(d.stack) \in Nat /\ Len(e.stack) \in Nat
  BY DEF Board!Commit
<1>2. SubSeq(SubSeq(e.stack, 1, Len(d.stack)), 1, Len(c.stack)) = SubSeq(e.stack, 1, Len(c.stack))
  BY <1>1, PrefixOfPrefix
<1>3. QED
  BY <1>1, <1>2

\* Being in the history of a commit goes on (the reviewers' fast forwards).
LEMMA AncestorTrans ==
  ASSUME TypeOK, CommitsArePast, NEW c \in Board!Commit, NEW d \in Board!Commit, NEW e \in Board!Commit,
         Past(e), Board!IsAncestor(c, d), Board!IsAncestor(d, e)
  PROVE  Board!IsAncestor(c, e)
<1>0. /\ \A i \in 1..Len(canon) : canon[i] \in Board!Commit /\ canon[i].base < i /\ canon[i].base \in Nat
      /\ Len(canon) \in Nat /\ c.base \in Nat /\ d.base \in Nat /\ e.base \in Nat /\ e.base <= Len(canon)
  <2>1. canon \in Seq(Board!Commit) /\ Len(canon) \in Nat
    BY DEF TypeOK
  <2>2. \A b \in Board!Commit : b.base \in Nat
    BY DEF Board!Commit
  <2>3. \A i \in 1..Len(canon) : canon[i] \in Board!Commit /\ canon[i].base < i
    BY <2>1 DEF CommitsArePast
  <2>4. e.base <= Len(canon)
    BY DEF Past
  <2>5. QED
    BY <2>1, <2>2, <2>3, <2>4
<1>1. CASE d.base = e.base /\ Len(d.stack) <= Len(e.stack) /\ d.stack = SubSeq(e.stack, 1, Len(d.stack))
  <2>1. CASE c.base = d.base /\ Len(c.stack) <= Len(d.stack) /\ c.stack = SubSeq(d.stack, 1, Len(c.stack))
    BY <1>1, <2>1, PrefixTrans DEF Board!IsAncestor
  <2>2. CASE \E i \in 1..d.base : /\ c.base = canon[i].base /\ Len(c.stack) <= Len(canon[i].stack)
                                  /\ c.stack = SubSeq(canon[i].stack, 1, Len(c.stack))
    BY <1>1, <2>2 DEF Board!IsAncestor
  <2>3. QED
    BY <2>1, <2>2 DEF Board!IsAncestor
<1>2. ASSUME NEW j \in 1..e.base, d.base = canon[j].base, Len(d.stack) <= Len(canon[j].stack),
             d.stack = SubSeq(canon[j].stack, 1, Len(d.stack))
      PROVE  Board!IsAncestor(c, e)
  <2>0. canon[j] \in Board!Commit /\ canon[j].base < j /\ j <= e.base
    BY <1>0, <1>2
  <2>1. CASE c.base = d.base /\ Len(c.stack) <= Len(d.stack) /\ c.stack = SubSeq(d.stack, 1, Len(c.stack))
    <3>1. Len(c.stack) <= Len(canon[j].stack) /\ c.stack = SubSeq(canon[j].stack, 1, Len(c.stack))
      BY <1>2, <2>0, <2>1, PrefixTrans
    <3>2. QED
      BY <1>2, <2>1, <3>1 DEF Board!IsAncestor
  <2>2. ASSUME NEW i \in 1..d.base, c.base = canon[i].base, Len(c.stack) <= Len(canon[i].stack),
               c.stack = SubSeq(canon[i].stack, 1, Len(c.stack))
        PROVE  Board!IsAncestor(c, e)
    <3>1. i \in 1..e.base
      BY <1>0, <1>2, <2>0
    <3>2. QED
      BY <2>2, <3>1 DEF Board!IsAncestor
  <2>3. QED
    BY <2>1, <2>2 DEF Board!IsAncestor
<1>3. QED
  BY <1>1, <1>2 DEF Board!IsAncestor

\* It goes on as well when the canonical branch grows.
LEMMA AncestorGrows ==
  ASSUME TypeOK, Grows, NEW c \in Board!Commit, NEW d \in Board!Commit, Past(d)
  PROVE  Board!IsAncestor(c, d)' <=> Board!IsAncestor(c, d)
<1>1. \A i \in 1..d.base : canon'[i] = canon[i]
  BY DEF TypeOK, Board!Commit, Grows, Past
<1>2. QED
  BY <1>1 DEF Board!IsAncestor

\* A commit is in its own history.
LEMMA AncestorSelf ==
  ASSUME NEW c \in Board!Commit
  PROVE  Board!IsAncestor(c, c)
<1>1. c.stack \in Seq(Board!Change) /\ Len(c.stack) \in Nat
  BY DEF Board!Commit
<1>2. SubSeq(c.stack, 1, Len(c.stack)) = c.stack
  BY <1>1
<1>3. QED
  BY <1>1, <1>2 DEF Board!IsAncestor

\* The published branches are added to, or published.
Advances ==
    \A n \in Names : pub[n] # None => pub'[n] # None /\ Board!IsAncestor(pub[n], pub'[n])

\* What is published stays published.
LEMMA PublishedStays ==
  ASSUME TypeOK, TypeOK', CommitsArePast, Grows, \A n \in Names : pub'[n] # None => Past(pub'[n]), Advances,
         NEW n \in Names, NEW c \in Board!Commit, IsPublished(n, c)
  PROVE  IsPublished(n, c)'
<1>1. pub[n] \in Board!Commit /\ pub'[n] \in Board!Commit /\ Past(pub'[n]) /\ pub'[n] # None
  BY DEF IsPublished, TypeOK, Advances
<1>2. Board!IsAncestor(c, pub'[n])
  BY <1>1, AncestorTrans DEF Advances, IsPublished
<1>3. PICK d \in Board!Commit : d = pub'[n]
  BY <1>1
<1>4. Board!IsAncestor(c, d)'
  BY <1>1, <1>2, <1>3, AncestorGrows
<1>5. QED
  BY <1>1, <1>3, <1>4 DEF IsPublished, Board!IsAncestor

(***************************************************************************)
(* The boards: proposals are proposed, and reviewed.                       *)
(***************************************************************************)
BoardMoves == mode' = mode /\ (UNCHANGED board \/ Board!BoardNext)

\* Every step proposes, is a review, or leaves the boards alone.
LEMMA BoardStep ==
  ASSUME TypeOK, HeadsExist, CallsAreOrderly, CommitsArePast, [Next]_vars
  PROVE  BoardMoves
<1>1. CASE UNCHANGED vars
  BY <1>1 DEF vars, BoardMoves
<1>2. ASSUME NEW w \in Writers, NEW r \in Requests, Request(w, r[1], r[2]) PROVE BoardMoves
  BY <1>2 DEF Request, BoardMoves
<1>3. ASSUME NEW w \in Writers, Acquire(w) PROVE BoardMoves
  BY <1>3 DEF Acquire, BoardMoves
<1>4. ASSUME NEW w \in Writers, Reclaim(w) PROVE BoardMoves
  BY <1>4 DEF Reclaim, BoardMoves
<1>5. ASSUME NEW w \in Writers, Exists(w) PROVE BoardMoves
  BY <1>5 DEF Exists, BoardMoves
<1>6. ASSUME NEW w \in Writers, Fetch(w) PROVE BoardMoves
  BY <1>6 DEF Fetch, BoardMoves
<1>7. ASSUME NEW w \in Writers, AddWorktree(w) PROVE BoardMoves
  BY <1>7 DEF AddWorktree, BoardMoves
<1>8. ASSUME NEW w \in Writers, Status(w) PROVE BoardMoves
  BY <1>8 DEF Status, BoardMoves
<1>9. ASSUME NEW w \in Writers, Validate(w) PROVE BoardMoves
  BY <1>9 DEF Validate, BoardMoves
<1>10. ASSUME NEW w \in Writers, MakeBranch(w) PROVE BoardMoves
  BY <1>10 DEF MakeBranch, BoardMoves
<1>11. ASSUME NEW w \in Writers, Write(w) PROVE BoardMoves
  BY <1>11 DEF Write, BoardMoves
<1>12. ASSUME NEW w \in Writers, MakeCommit(w) PROVE BoardMoves
  BY <1>12 DEF MakeCommit, BoardMoves
<1>13. ASSUME NEW w \in Writers, NothingToCommit(w) PROVE BoardMoves
  BY <1>13 DEF NothingToCommit, BoardMoves
<1>14. ASSUME NEW w \in Writers, UndoReset(w) PROVE BoardMoves
  BY <1>14 DEF UndoReset, BoardMoves
<1>15. ASSUME NEW w \in Writers, UndoSwitch(w) PROVE BoardMoves
  BY <1>15 DEF UndoSwitch, BoardMoves
<1>16. ASSUME NEW w \in Writers, UndoBranch(w) PROVE BoardMoves
  BY <1>16 DEF UndoBranch, BoardMoves
<1>17. ASSUME NEW w \in Writers, Authenticate(w) PROVE BoardMoves
  BY <1>17 DEF Authenticate, BoardMoves
<1>18. ASSUME NEW w \in Writers, Push(w) PROVE BoardMoves
  <2>1. CASE Board!FastForward(name[w], ref[name[w]]) /\ pub' = [pub EXCEPT ![name[w]] = ref[name[w]]]
    <3>1. ref[name[w]] \in Board!Commit /\ name[w] \in Names
      BY <1>18, OwnBranchTypes DEF Push, OnBranch
    <3>2. ref[name[w]].base <= Len(canon)
      BY <3>1 DEF CommitsArePast, Past
    <3>3. pub'[name[w]] = ref[name[w]] /\ UNCHANGED canon /\ mode' = mode
      BY <1>18, <2>1, <3>1 DEF Push, TypeOK
    <3>4. Board!Propose(name[w], ref[name[w]])
      BY <2>1, <3>1, <3>2, <3>3 DEF Board!Propose
    <3>5. QED
      BY <3>1, <3>3, <3>4 DEF Board!BoardNext, BoardMoves
  <2>2. CASE UNCHANGED pub
    BY <1>18, <2>2 DEF Push, BoardMoves, board
  <2>3. QED
    BY <1>18, <2>1, <2>2 DEF Push
<1>19. ASSUME NEW w \in Writers, Rejected(w) PROVE BoardMoves
  BY <1>19 DEF Rejected, BoardMoves
<1>20. ASSUME NEW w \in Writers, Open(w) PROVE BoardMoves
  BY <1>20 DEF Open, BoardMoves
<1>21. ASSUME NEW w \in Writers, RemoveWorktree(w) PROVE BoardMoves
  BY <1>21 DEF RemoveWorktree, BoardMoves
<1>22. ASSUME NEW w \in Writers, DeleteBranch(w) PROVE BoardMoves
  BY <1>22 DEF DeleteBranch, BoardMoves
<1>23. ASSUME NEW w \in Writers, TimeOut(w) PROVE BoardMoves
  BY <1>23 DEF TimeOut, BoardMoves
<1>24. ASSUME NEW w \in Writers, FetchFails(w) PROVE BoardMoves
  BY <1>24 DEF FetchFails, BoardMoves
<1>25. ASSUME NEW w \in Writers, AddWorktreeFails(w) PROVE BoardMoves
  BY <1>25 DEF AddWorktreeFails, BoardMoves
<1>26. ASSUME NEW w \in Writers, StatusFails(w) PROVE BoardMoves
  BY <1>26 DEF StatusFails, BoardMoves
<1>27. ASSUME NEW w \in Writers, MakeBranchBlindly(w) PROVE BoardMoves
  BY <1>27 DEF MakeBranchBlindly, BoardMoves
<1>28. ASSUME NEW w \in Writers, BranchFails(w) PROVE BoardMoves
  BY <1>28 DEF BranchFails, BoardMoves
<1>29. ASSUME NEW w \in Writers, WriteFails(w) PROVE BoardMoves
  BY <1>29 DEF WriteFails, BoardMoves
<1>30. ASSUME NEW w \in Writers, CommitFails(w) PROVE BoardMoves
  BY <1>30 DEF CommitFails, BoardMoves
<1>31. ASSUME NEW w \in Writers, UndoFails(w) PROVE BoardMoves
  BY <1>31 DEF UndoFails, BoardMoves
<1>32. ASSUME NEW w \in Writers, PushFails(w) PROVE BoardMoves
  <2>1. CASE Board!FastForward(name[w], ref[name[w]]) /\ pub' = [pub EXCEPT ![name[w]] = ref[name[w]]]
    <3>1. ref[name[w]] \in Board!Commit /\ name[w] \in Names
      BY <1>32, OwnBranchTypes DEF PushFails, OnBranch
    <3>2. ref[name[w]].base <= Len(canon)
      BY <3>1 DEF CommitsArePast, Past
    <3>3. pub'[name[w]] = ref[name[w]] /\ UNCHANGED canon /\ mode' = mode
      BY <1>32, <2>1, <3>1 DEF PushFails, TypeOK
    <3>4. Board!Propose(name[w], ref[name[w]])
      BY <2>1, <3>1, <3>2, <3>3 DEF Board!Propose
    <3>5. QED
      BY <3>1, <3>3, <3>4 DEF Board!BoardNext, BoardMoves
  <2>2. CASE UNCHANGED pub
    BY <1>32, <2>2 DEF PushFails, BoardMoves, board
  <2>3. QED
    BY <1>32, <2>1, <2>2 DEF PushFails
<1>33. ASSUME NEW w \in Writers, GhFails(w) PROVE BoardMoves
  BY <1>33 DEF GhFails, BoardMoves
<1>34. ASSUME NEW w \in Writers, RemoveFails(w) PROVE BoardMoves
  BY <1>34 DEF RemoveFails, BoardMoves
<1>35. ASSUME NEW w \in Writers, Crash(w) PROVE BoardMoves
  BY <1>35 DEF Crash, BoardMoves
<1>36. ASSUME NEW w \in Writers, Restart(w) PROVE BoardMoves
  BY <1>36 DEF Restart, BoardMoves
<1>37. CASE Review
  BY <1>37 DEF Review, BoardMoves, Board!BoardNext
<1>38. CASE UserMoves
  BY <1>38 DEF UserMoves, UserActs, BoardMoves
<1>39. ASSUME NEW f \in Files, NEW k \in {"clean", "edited", "staged"}, UserWrites(f, k) PROVE BoardMoves
  BY <1>39 DEF UserWrites, UserActs, BoardMoves
<1>40. QED
  BY <1>1, <1>2, <1>3, <1>4, <1>5, <1>6, <1>7, <1>8, <1>9, <1>10, <1>11, <1>12, <1>13, <1>14, <1>15, <1>16, <1>17, <1>18, <1>19, <1>20, <1>21, <1>22, <1>23, <1>24, <1>25, <1>26, <1>27, <1>28, <1>29, <1>30, <1>31, <1>32, <1>33, <1>34, <1>35, <1>36, <1>37, <1>38, <1>39
  DEF Next, Step, StepFails

\* What was published stays so, and the canonical branch grows by commits that
\* start from what it has had.
LEMMA BoardGrows ==
  ASSUME TypeOK, CommitsArePast, BoardMoves
  PROVE  /\ Grows /\ Advances
         /\ \A i \in 1..Len(canon') : canon'[i].base < i
         /\ \A n \in Names : pub'[n] # None => Past(pub'[n])
<1>0. /\ canon \in Seq(Board!Commit) /\ Len(canon) \in Nat /\ \A i \in 1..Len(canon) : canon[i].base < i
      /\ \A n \in Names : pub[n] # None => pub[n] \in Board!Commit /\ pub[n].base <= Len(canon)
      /\ \A n \in Names : pub[n] # None => Board!IsAncestor(pub[n], pub[n])
  BY AncestorSelf DEF TypeOK, CommitsArePast, Past
<1>1. CASE UNCHANGED board
  BY <1>0, <1>1 DEF board, Grows, Advances, Past
<1>2. ASSUME NEW c \in Board!Commit, c.base <= Len(canon), canon' = Append(canon, c), UNCHANGED pub
      PROVE  /\ Grows /\ Advances
             /\ \A i \in 1..Len(canon') : canon'[i].base < i
             /\ \A n \in Names : pub'[n] # None => Past(pub'[n])
  <2>1. Len(canon') = Len(canon) + 1 /\ canon'[Len(canon) + 1] = c /\ \A i \in 1..Len(canon) : canon'[i] = canon[i]
    BY <1>0, <1>2
  <2>2. c.base \in Nat
    BY <1>2 DEF Board!Commit
  <2>3. \A i \in 1..Len(canon') : canon'[i].base < i
    BY <1>0, <1>2, <2>1, <2>2
  <2>4. QED
    BY <1>0, <1>2, <2>1, <2>3 DEF Grows, Advances, Past
<1>3. ASSUME NEW n \in Names, Board!Merge(n)
      PROVE  /\ Grows /\ Advances
             /\ \A i \in 1..Len(canon') : canon'[i].base < i
             /\ \A m \in Names : pub'[m] # None => Past(pub'[m])
  BY <1>0, <1>2, <1>3 DEF Board!Merge
<1>4. ASSUME NEW f \in Files, Board!PushOwn(f)
      PROVE  /\ Grows /\ Advances
             /\ \A i \in 1..Len(canon') : canon'[i].base < i
             /\ \A n \in Names : pub'[n] # None => Past(pub'[n])
  <2> DEFINE tip == [base |-> Len(canon), stack |-> <<>>]
             change == [id |-> 0, adds |-> {f} \ Board!FilesAt(tip), replaces |-> {f} \cap Board!FilesAt(tip)]
             c == [tip EXCEPT !.stack = <<change>>]
  <2>1. canon' = Append(canon, c) /\ UNCHANGED pub
    BY <1>4 DEF Board!PushOwn
  <2>2. change \in Board!Change
    BY DEF Board!Change
  <2> HIDE DEF change
  <2>3. <<change>> \in Seq(Board!Change)
    BY <2>2
  <2>4. c \in Board!Commit /\ c.base = Len(canon)
    BY <1>0, <2>3 DEF Board!Commit
  <2> HIDE DEF c
  <2>5. QED
    BY <1>0, <1>2, <2>1, <2>4
<1>5. ASSUME NEW n \in Names, Board!Propose(n, pub'[n])
      PROVE  /\ Grows /\ Advances
             /\ \A i \in 1..Len(canon') : canon'[i].base < i
             /\ \A m \in Names : pub'[m] # None => Past(pub'[m])
  <2>1. PICK c \in Board!Commit : /\ c = pub'[n] /\ c.base <= Len(canon) /\ UNCHANGED canon
                                  /\ pub' = [pub EXCEPT ![n] = c]
                                  /\ pub[n] # None => Board!IsAncestor(pub[n], c)
    BY <1>5 DEF Board!Propose, Board!FastForward
  <2>2. \A m \in Names \ {n} : pub'[m] = pub[m]
    BY <2>1 DEF TypeOK
  <2>3. c # None
    OBVIOUS
  <2>4. QED
    BY <1>0, <2>1, <2>2, <2>3 DEF Grows, Advances, Past
<1>6. QED
  BY <1>1, <1>3, <1>4, <1>5 DEF BoardMoves, Board!BoardNext

(***************************************************************************)
(* Commits start from what the canonical branch has had.                   *)
(***************************************************************************)
\* What the repositories have after a step starts so.
RepositoryPast ==
    /\ tracking' <= Len(canon) /\ main' <= Len(canon)
    /\ \A n \in Names : ref'[n] # None => ref'[n].base <= Len(canon)
    /\ \A t \in Trees : detached'[t].base <= Len(canon)

\* So does what the calls have made, and answered.
CallPast ==
    \A w \in Writers : made'[w].base <= Len(canon) /\ reply'[w].commit.base <= Len(canon)

\* A checkout is of a commit that starts so.
LEMMA HeadPast ==
  ASSUME TypeOK, HeadsExist, CommitsArePast, NEW t \in Trees
  PROVE  HeadCommit(t).base <= Len(canon)
<1>1. CommitAt(main).base <= Len(canon)
  BY DEF CommitAt, CommitsArePast
<1>2. head[t] \in Names => ref[head[t]].base <= Len(canon)
  BY DEF HeadsExist, CommitsArePast, Past
<1>3. detached[t].base <= Len(canon) /\ head[t] \in Names \cup {"main", "detached"}
  BY DEF TypeOK, CommitsArePast, Past
<1>4. QED
  BY <1>1, <1>2, <1>3 DEF HeadCommit

\* Every step keeps it so in the repositories.
LEMMA RepositoryPastStep ==
  ASSUME TypeOK, HeadsExist, CallsAreOrderly, CommitsArePast, [Next]_vars
  PROVE  RepositoryPast
<1>0. /\ tracking <= Len(canon) /\ main <= Len(canon) /\ Len(canon) \in Nat
      /\ \A n \in Names : ref[n] # None => ref[n].base <= Len(canon)
      /\ \A t \in Trees : detached[t].base <= Len(canon)
  BY DEF CommitsArePast, Past, TypeOK
<1>1. CASE UNCHANGED vars
  BY <1>0, <1>1 DEF vars, RepositoryPast, clone, trees
<1>2. ASSUME NEW w \in Writers, NEW r \in Requests, Request(w, r[1], r[2]) PROVE RepositoryPast
  BY <1>0, <1>2 DEF Request, RepositoryPast, clone, trees
<1>3. ASSUME NEW w \in Writers, Acquire(w) PROVE RepositoryPast
  BY <1>0, <1>3 DEF Acquire, RepositoryPast, clone, trees
<1>4. ASSUME NEW w \in Writers, Reclaim(w) PROVE RepositoryPast
  BY <1>0, <1>4 DEF Reclaim, RepositoryPast, clone, trees
<1>5. ASSUME NEW w \in Writers, Exists(w) PROVE RepositoryPast
  BY <1>0, <1>5 DEF Exists, RepositoryPast, clone, trees
<1>6. ASSUME NEW w \in Writers, Fetch(w) PROVE RepositoryPast
  BY <1>0, <1>6 DEF Fetch, RepositoryPast, clone, trees
<1>7. ASSUME NEW w \in Writers, AddWorktree(w) PROVE RepositoryPast
  <2>1. CommitAt(tracking).base <= Len(canon)
    BY <1>0 DEF CommitAt
  <2>2. \A t \in Trees : detached'[t].base <= Len(canon)
    BY <1>0, <1>7, <2>1 DEF AddWorktree, TypeOK
  <2>3. QED
    BY <1>0, <1>7, <2>2 DEF AddWorktree, RepositoryPast, clone
<1>8. ASSUME NEW w \in Writers, Status(w) PROVE RepositoryPast
  BY <1>0, <1>8 DEF Status, RepositoryPast, clone, trees
<1>9. ASSUME NEW w \in Writers, Validate(w) PROVE RepositoryPast
  BY <1>0, <1>9 DEF Validate, RepositoryPast, clone, trees
<1>10. ASSUME NEW w \in Writers, MakeBranch(w) PROVE RepositoryPast
  <2>1. HeadCommit(Tree(w)).base <= Len(canon)
    BY HeadPast DEF Tree, Trees
  <2>2. /\ ref' = [ref EXCEPT ![name[w]] = HeadCommit(Tree(w))]
        /\ detached' = [detached EXCEPT ![Tree(w)] = HeadCommit(Tree(w))]
    BY <1>10 DEF MakeBranch, SwitchToNew
  <2>3. (\A n \in Names : ref'[n] # None => ref'[n].base <= Len(canon)) /\ (\A t \in Trees : detached'[t].base <= Len(canon))
    BY <1>0, <2>1, <2>2 DEF TypeOK
  <2>4. QED
    BY <1>0, <1>10, <2>3 DEF MakeBranch, RepositoryPast
<1>11. ASSUME NEW w \in Writers, Write(w) PROVE RepositoryPast
  BY <1>0, <1>11 DEF Write, RepositoryPast, clone, trees
<1>12. ASSUME NEW w \in Writers, MakeCommit(w) PROVE RepositoryPast
  <2>1. \A n \in Names : ref'[n] # None => ref'[n].base <= Len(canon)
    <3>1. ref'[name[w]].base = ref[name[w]].base /\ (\A n \in Names \ {name[w]} : ref'[n] = ref[n]) /\ ref[name[w]] # None
      BY <1>12, CommittedFacts, OwnBranchTypes DEF MakeCommit, OnBranch
    <3>2. QED
      BY <1>0, <3>1
  <2>2. QED
    BY <1>0, <1>12, <2>1 DEF MakeCommit, RepositoryPast, trees
<1>13. ASSUME NEW w \in Writers, NothingToCommit(w) PROVE RepositoryPast
  BY <1>0, <1>13 DEF NothingToCommit, RepositoryPast, clone, trees
<1>14. ASSUME NEW w \in Writers, UndoReset(w) PROVE RepositoryPast
  BY <1>0, <1>14 DEF UndoReset, RepositoryPast, clone, trees
<1>15. ASSUME NEW w \in Writers, UndoSwitch(w) PROVE RepositoryPast
  BY <1>0, <1>15 DEF UndoSwitch, RepositoryPast, clone, trees
<1>16. ASSUME NEW w \in Writers, UndoBranch(w) PROVE RepositoryPast
  <2>1. \A n \in Names : ref'[n] # None => ref'[n] = ref[n]
    BY <1>16 DEF UndoBranch, Deleted, TypeOK
  <2>2. QED
    BY <1>0, <1>16, <2>1 DEF UndoBranch, RepositoryPast, trees
<1>17. ASSUME NEW w \in Writers, Authenticate(w) PROVE RepositoryPast
  BY <1>0, <1>17 DEF Authenticate, RepositoryPast, clone, trees
<1>18. ASSUME NEW w \in Writers, Push(w) PROVE RepositoryPast
  BY <1>0, <1>18 DEF Push, RepositoryPast, clone, trees
<1>19. ASSUME NEW w \in Writers, Rejected(w) PROVE RepositoryPast
  BY <1>0, <1>19 DEF Rejected, RepositoryPast, clone, trees
<1>20. ASSUME NEW w \in Writers, Open(w) PROVE RepositoryPast
  BY <1>0, <1>20 DEF Open, RepositoryPast, clone, trees
<1>21. ASSUME NEW w \in Writers, RemoveWorktree(w) PROVE RepositoryPast
  BY <1>0, <1>21 DEF RemoveWorktree, RepositoryPast, clone, trees
<1>22. ASSUME NEW w \in Writers, DeleteBranch(w) PROVE RepositoryPast
  <2>1. \A n \in Names : ref'[n] # None => ref'[n] = ref[n]
    BY <1>22 DEF DeleteBranch, Deleted, TypeOK
  <2>2. QED
    BY <1>0, <1>22, <2>1 DEF DeleteBranch, RepositoryPast, trees
<1>23. ASSUME NEW w \in Writers, TimeOut(w) PROVE RepositoryPast
  BY <1>0, <1>23 DEF TimeOut, RepositoryPast, clone, trees
<1>24. ASSUME NEW w \in Writers, FetchFails(w) PROVE RepositoryPast
  BY <1>0, <1>24 DEF FetchFails, RepositoryPast, clone, trees
<1>25. ASSUME NEW w \in Writers, AddWorktreeFails(w) PROVE RepositoryPast
  BY <1>0, <1>25 DEF AddWorktreeFails, RepositoryPast, clone, trees
<1>26. ASSUME NEW w \in Writers, StatusFails(w) PROVE RepositoryPast
  BY <1>0, <1>26 DEF StatusFails, RepositoryPast, clone, trees
<1>27. ASSUME NEW w \in Writers, MakeBranchBlindly(w) PROVE RepositoryPast
  <2>1. HeadCommit(Tree(w)).base <= Len(canon)
    BY HeadPast DEF Tree, Trees
  <2>2. /\ ref' = [ref EXCEPT ![name[w]] = HeadCommit(Tree(w))]
        /\ detached' = [detached EXCEPT ![Tree(w)] = HeadCommit(Tree(w))]
    BY <1>27 DEF MakeBranchBlindly, SwitchToNew
  <2>3. (\A n \in Names : ref'[n] # None => ref'[n].base <= Len(canon)) /\ (\A t \in Trees : detached'[t].base <= Len(canon))
    BY <1>0, <2>1, <2>2 DEF TypeOK
  <2>4. QED
    BY <1>0, <1>27, <2>3 DEF MakeBranchBlindly, RepositoryPast
<1>28. ASSUME NEW w \in Writers, BranchFails(w) PROVE RepositoryPast
  BY <1>0, <1>28 DEF BranchFails, RepositoryPast, clone, trees
<1>29. ASSUME NEW w \in Writers, WriteFails(w) PROVE RepositoryPast
  BY <1>0, <1>29 DEF WriteFails, RepositoryPast, clone, trees
<1>30. ASSUME NEW w \in Writers, CommitFails(w) PROVE RepositoryPast
  <2>1. CASE Committed(w)
    <3>1. ref'[name[w]].base = ref[name[w]].base /\ (\A n \in Names \ {name[w]} : ref'[n] = ref[n]) /\ ref[name[w]] # None
      BY <1>30, <2>1, CommittedFacts, OwnBranchTypes DEF CommitFails, OnBranch
    <3>2. \A n \in Names : ref'[n] # None => ref'[n].base <= Len(canon)
      BY <1>0, <3>1
    <3>3. QED
      BY <1>0, <1>30, <3>2 DEF CommitFails, RepositoryPast
  <2>2. CASE UNCHANGED <<ref, work, commits>>
    BY <1>0, <1>30, <2>2 DEF CommitFails, RepositoryPast
  <2>3. QED
    BY <1>30, <2>1, <2>2 DEF CommitFails
<1>31. ASSUME NEW w \in Writers, UndoFails(w) PROVE RepositoryPast
  BY <1>0, <1>31 DEF UndoFails, RepositoryPast, clone, trees
<1>32. ASSUME NEW w \in Writers, PushFails(w) PROVE RepositoryPast
  BY <1>0, <1>32 DEF PushFails, RepositoryPast, clone, trees
<1>33. ASSUME NEW w \in Writers, GhFails(w) PROVE RepositoryPast
  BY <1>0, <1>33 DEF GhFails, RepositoryPast, clone, trees
<1>34. ASSUME NEW w \in Writers, RemoveFails(w) PROVE RepositoryPast
  BY <1>0, <1>34 DEF RemoveFails, RepositoryPast, clone, trees
<1>35. ASSUME NEW w \in Writers, Crash(w) PROVE RepositoryPast
  BY <1>0, <1>35 DEF Crash, RepositoryPast, clone, trees
<1>36. ASSUME NEW w \in Writers, Restart(w) PROVE RepositoryPast
  BY <1>0, <1>36 DEF Restart, RepositoryPast, clone, trees
<1>37. CASE Review
  BY <1>0, <1>37 DEF Review, RepositoryPast, clone, trees
<1>38. CASE UserMoves
  <2>1. \A n \in Names : ref'[n] # None => ref'[n] = ref[n]
    BY <1>38 DEF UserMoves, TypeOK, clone
  <2>2. tracking' \in {tracking, Len(canon)} /\ main' \in {main, Len(canon)} /\ UNCHANGED detached
    BY <1>38 DEF UserMoves, clone
  <2>3. QED
    BY <1>0, <2>1, <2>2 DEF RepositoryPast
<1>39. ASSUME NEW f \in Files, NEW k \in {"clean", "edited", "staged"}, UserWrites(f, k) PROVE RepositoryPast
  BY <1>0, <1>39 DEF UserWrites, RepositoryPast, clone
<1>40. QED
  BY <1>1, <1>2, <1>3, <1>4, <1>5, <1>6, <1>7, <1>8, <1>9, <1>10, <1>11, <1>12, <1>13, <1>14, <1>15, <1>16, <1>17, <1>18, <1>19, <1>20, <1>21, <1>22, <1>23, <1>24, <1>25, <1>26, <1>27, <1>28, <1>29, <1>30, <1>31, <1>32, <1>33, <1>34, <1>35, <1>36, <1>37, <1>38, <1>39
  DEF Next, Step, StepFails

\* An answer keeps it so in the calls.
LEMMA AnswerPast ==
  ASSUME TypeOK, CommitsArePast, NEW w \in Writers, NEW s, NEW b, AnswerAfter(w, s, b)
  PROVE  CallPast
<1>1. Answered(w, s, b) /\ Len(canon) \in Nat
  BY AnswerFacts, TypeParts DEF TypeOK
<1>2. reply'[w].commit = made[w] /\ made'[w].base = 0
  BY <1>1, NoReplyType DEF Answered
<1>3. QED
  BY <1>1, <1>2 DEF Answered, Rest, CallPast, CommitsArePast, Past

\* So does a decision.
LEMMA LeavePast ==
  ASSUME TypeOK, CommitsArePast, NEW w \in Writers, NEW s, NEW b, LeaveAfter(w, s, b)
  PROVE  CallPast
<1>1. CASE mode = "local"
  BY <1>1, AnswerPast DEF LeaveAfter
<1>2. CASE mode # "local"
  BY <1>2 DEF LeaveAfter, CallPast, CommitsArePast, Past
<1>3. QED
  BY <1>1, <1>2

\* And a step that makes no commit and answers nothing.
LEMMA SamePast ==
  ASSUME CommitsArePast, UNCHANGED <<made, reply>>
  PROVE  CallPast
  BY DEF CommitsArePast, Past, CallPast

\* So do a time-out, a clean-up and going on.
LEMMA RaisePast ==
  ASSUME TypeOK, CommitsArePast, NEW w \in Writers, Raise(w) \/ CleanUp(w) \/ \E l \in Locations : Goto(w, l)
  PROVE  CallPast
<1>1. CASE Raise(w)
  BY <1>1, LeavePast DEF Raise, Leave
<1>2. CASE CleanUp(w)
  BY <1>2, SamePast DEF CleanUp
<1>3. CASE \E l \in Locations : Goto(w, l)
  BY <1>3, SamePast DEF Goto, call
<1>4. QED
  BY <1>1, <1>2, <1>3

\* Every step keeps it so in the calls.
LEMMA CallPastStep ==
  ASSUME TypeOK, HeadsExist, CallsAreOrderly, CommitsArePast, [Next]_vars
  PROVE  CallPast
<1>1. CASE UNCHANGED vars
  BY <1>1, SamePast DEF vars, call
<1>2. ASSUME NEW w \in Writers, NEW r \in Requests, Request(w, r[1], r[2]) PROVE CallPast
  <2>1. NoReply.commit.base = 0 /\ Len(canon) \in Nat
    BY NoReplyType DEF NoReply, TypeOK
  <2>2. \A v \in Writers : (reply'[v] = reply[v] \/ reply'[v] = NoReply) /\ made'[v] = made[v]
    BY <1>2 DEF Request, TypeOK
  <2>3. QED
    BY <2>1, <2>2 DEF CallPast, CommitsArePast, Past
<1>3. ASSUME NEW w \in Writers, Acquire(w) PROVE CallPast
  BY <1>3, SamePast DEF Acquire, call
<1>4. ASSUME NEW w \in Writers, Reclaim(w) PROVE CallPast
  BY <1>4, SamePast DEF Reclaim, call
<1>5. ASSUME NEW w \in Writers, Exists(w) PROVE CallPast
  BY <1>5, LeavePast, AnswerPast, SamePast, RaisePast DEF Exists, Leave, Answer, CleanUp, Goto, call
<1>6. ASSUME NEW w \in Writers, Fetch(w) PROVE CallPast
  BY <1>6, LeavePast, AnswerPast, SamePast, RaisePast DEF Fetch, Leave, Answer, CleanUp, Goto, call
<1>7. ASSUME NEW w \in Writers, AddWorktree(w) PROVE CallPast
  BY <1>7, LeavePast, AnswerPast, SamePast, RaisePast DEF AddWorktree, Leave, Answer, CleanUp, Goto, call
<1>8. ASSUME NEW w \in Writers, Status(w) PROVE CallPast
  BY <1>8, LeavePast, AnswerPast, SamePast, RaisePast DEF Status, Leave, Answer, CleanUp, Goto, call
<1>9. ASSUME NEW w \in Writers, Validate(w) PROVE CallPast
  BY <1>9, LeavePast, AnswerPast, SamePast, RaisePast DEF Validate, Leave, Answer, CleanUp, Goto, call
<1>10. ASSUME NEW w \in Writers, MakeBranch(w) PROVE CallPast
  BY <1>10, SamePast DEF MakeBranch, call
<1>11. ASSUME NEW w \in Writers, Write(w) PROVE CallPast
  BY <1>11, LeavePast, AnswerPast, SamePast, RaisePast DEF Write, Leave, Answer, CleanUp, Goto, call
<1>12. ASSUME NEW w \in Writers, MakeCommit(w) PROVE CallPast
  <2>1. ref'[name[w]].base = ref[name[w]].base /\ ref[name[w]] # None /\ name[w] \in Names
    BY <1>12, CommittedFacts, OwnBranchTypes DEF MakeCommit, OnBranch
  <2>2. \A v \in Writers : reply'[v] = reply[v] /\ (made'[v] = made[v] \/ made'[v] = ref'[name[w]])
    BY <1>12 DEF MakeCommit, TypeOK
  <2>3. QED
    BY <2>1, <2>2 DEF CallPast, CommitsArePast, Past
<1>13. ASSUME NEW w \in Writers, NothingToCommit(w) PROVE CallPast
  BY <1>13, LeavePast, AnswerPast, SamePast, RaisePast DEF NothingToCommit, Leave, Answer, CleanUp, Goto, call
<1>14. ASSUME NEW w \in Writers, UndoReset(w) PROVE CallPast
  BY <1>14, LeavePast, AnswerPast, SamePast, RaisePast DEF UndoReset, Leave, Answer, CleanUp, Goto, call
<1>15. ASSUME NEW w \in Writers, UndoSwitch(w) PROVE CallPast
  BY <1>15, LeavePast, AnswerPast, SamePast, RaisePast DEF UndoSwitch, Leave, Answer, CleanUp, Goto, call
<1>16. ASSUME NEW w \in Writers, UndoBranch(w) PROVE CallPast
  BY <1>16, LeavePast, AnswerPast, SamePast, RaisePast DEF UndoBranch, Leave, Answer, CleanUp, Goto, call
<1>17. ASSUME NEW w \in Writers, Authenticate(w) PROVE CallPast
  BY <1>17, LeavePast, AnswerPast, SamePast, RaisePast DEF Authenticate, Leave, Answer, CleanUp, Goto, call
<1>18. ASSUME NEW w \in Writers, Push(w) PROVE CallPast
  BY <1>18, LeavePast, AnswerPast, SamePast, RaisePast DEF Push, Leave, Answer, CleanUp, Goto, call
<1>19. ASSUME NEW w \in Writers, Rejected(w) PROVE CallPast
  BY <1>19, LeavePast, RaisePast DEF Rejected, NotPushed, Leave
<1>20. ASSUME NEW w \in Writers, Open(w) PROVE CallPast
  BY <1>20, LeavePast, AnswerPast, SamePast, RaisePast DEF Open, Leave, Answer, CleanUp, Goto, call
<1>21. ASSUME NEW w \in Writers, RemoveWorktree(w) PROVE CallPast
  BY <1>21, LeavePast, AnswerPast, SamePast, RaisePast DEF RemoveWorktree, Leave, Answer, CleanUp, Goto, call
<1>22. ASSUME NEW w \in Writers, DeleteBranch(w) PROVE CallPast
  BY <1>22, LeavePast, AnswerPast, SamePast, RaisePast DEF DeleteBranch, Leave, Answer, CleanUp, Goto, call
<1>23. ASSUME NEW w \in Writers, TimeOut(w) PROVE CallPast
  BY <1>23, LeavePast, AnswerPast, SamePast, RaisePast DEF TimeOut, Leave, Answer, CleanUp, Goto, call
<1>24. ASSUME NEW w \in Writers, FetchFails(w) PROVE CallPast
  BY <1>24, LeavePast, AnswerPast, SamePast, RaisePast DEF FetchFails, Leave, Answer, CleanUp, Goto, call
<1>25. ASSUME NEW w \in Writers, AddWorktreeFails(w) PROVE CallPast
  BY <1>25, LeavePast, AnswerPast, SamePast, RaisePast DEF AddWorktreeFails, Leave, Answer, CleanUp, Goto, call
<1>26. ASSUME NEW w \in Writers, StatusFails(w) PROVE CallPast
  BY <1>26, LeavePast, AnswerPast, SamePast, RaisePast DEF StatusFails, Leave, Answer, CleanUp, Goto, call
<1>27. ASSUME NEW w \in Writers, MakeBranchBlindly(w) PROVE CallPast
  BY <1>27, SamePast DEF MakeBranchBlindly, call
<1>28. ASSUME NEW w \in Writers, BranchFails(w) PROVE CallPast
  BY <1>28, LeavePast, AnswerPast, SamePast, RaisePast DEF BranchFails, Leave, Answer, CleanUp, Goto, call
<1>29. ASSUME NEW w \in Writers, WriteFails(w) PROVE CallPast
  BY <1>29, LeavePast, AnswerPast, SamePast, RaisePast DEF WriteFails, Leave, Answer, CleanUp, Goto, call
<1>30. ASSUME NEW w \in Writers, CommitFails(w) PROVE CallPast
  BY <1>30, LeavePast, AnswerPast, SamePast, RaisePast DEF CommitFails, Leave, Answer, CleanUp, Goto, call
<1>31. ASSUME NEW w \in Writers, UndoFails(w) PROVE CallPast
  <2>1. CASE UNCHANGED <<lock, asked, name, before, made, outcome, touched, reply>>
    BY <2>1, SamePast
  <2>2. QED
    BY <1>31, <2>1, LeavePast, AnswerPast, RaisePast DEF UndoFails, Leave, Answer
<1>32. ASSUME NEW w \in Writers, PushFails(w) PROVE CallPast
  <2>1. CASE NotPushed(w)
    BY <2>1, LeavePast DEF Leave, NotPushed
  <2>2. QED
    BY <1>32, <2>1, RaisePast DEF PushFails
<1>33. ASSUME NEW w \in Writers, GhFails(w) PROVE CallPast
  BY <1>33, LeavePast, AnswerPast, SamePast, RaisePast DEF GhFails, Leave, Answer, CleanUp, Goto, call
<1>34. ASSUME NEW w \in Writers, RemoveFails(w) PROVE CallPast
  <2>1. CASE UNCHANGED <<lock, asked, name, before, made, outcome, touched, reply>>
    BY <2>1, SamePast
  <2>2. QED
    BY <1>34, <2>1, LeavePast, AnswerPast, RaisePast DEF RemoveFails, Leave, Answer
<1>35. ASSUME NEW w \in Writers, Crash(w) PROVE CallPast
  <2>1. NoReply.commit.base = 0 /\ NoCommit.base = 0 /\ Len(canon) \in Nat
    BY NoReplyType DEF NoReply, TypeOK
  <2>2. \A v \in Writers : (reply'[v] = reply[v] \/ reply'[v] = NoReply) /\ (made'[v] = made[v] \/ made'[v] = NoCommit)
    BY <1>35 DEF Crash, Forget, TypeOK
  <2>3. QED
    BY <2>1, <2>2 DEF CallPast, CommitsArePast, Past
<1>36. ASSUME NEW w \in Writers, Restart(w) PROVE CallPast
  BY <1>36, SamePast DEF Restart, call
<1>37. CASE Review
  BY <1>37, SamePast DEF Review, call
<1>38. CASE UserMoves
  BY <1>38, SamePast DEF UserMoves, call
<1>39. ASSUME NEW f \in Files, NEW k \in {"clean", "edited", "staged"}, UserWrites(f, k) PROVE CallPast
  BY <1>39, SamePast DEF UserWrites, call
<1>40. QED
  BY <1>1, <1>2, <1>3, <1>4, <1>5, <1>6, <1>7, <1>8, <1>9, <1>10, <1>11, <1>12, <1>13, <1>14, <1>15, <1>16, <1>17, <1>18, <1>19, <1>20, <1>21, <1>22, <1>23, <1>24, <1>25, <1>26, <1>27, <1>28, <1>29, <1>30, <1>31, <1>32, <1>33, <1>34, <1>35, <1>36, <1>37, <1>38, <1>39
  DEF Next, Step, StepFails

\* Commits start from what the canonical branch has had, step by step.
LEMMA PastStep ==
  ASSUME TypeOK, TypeOK', HeadsExist, CallsAreOrderly, CommitsArePast, [Next]_vars
  PROVE  CommitsArePast'
<1>1. /\ Len(canon) <= Len(canon')
      /\ \A i \in 1..Len(canon') : canon'[i].base < i
      /\ \A n \in Names : pub'[n] # None => Past(pub'[n])
  BY BoardStep, BoardGrows DEF Grows
<1>2. RepositoryPast /\ CallPast
  BY RepositoryPastStep, CallPastStep
<1>3. Len(canon) \in Nat /\ Len(canon') \in Nat /\ tracking' \in Nat /\ main' \in Nat
  BY DEF TypeOK
<1>4. \A c \in Board!Commit : c.base \in Nat
  BY DEF Board!Commit
<1>5. \A n \in Names : (ref'[n] # None => ref'[n] \in Board!Commit) /\ (pub'[n] # None => pub'[n] \in Board!Commit)
  BY DEF TypeOK
<1>6. /\ \A t \in Trees : detached'[t] \in Board!Commit
      /\ \A w \in Writers : made'[w] \in Board!Commit /\ reply'[w].commit \in Board!Commit
  BY DEF TypeOK
<1>7. \A n \in Names : (ref'[n] # None => ref'[n].base <= Len(canon')) /\ (pub'[n] # None => pub'[n].base <= Len(canon'))
  BY <1>1, <1>2, <1>3, <1>4, <1>5 DEF RepositoryPast, Past
<1>8. \A t \in Trees : detached'[t].base <= Len(canon')
  BY <1>1, <1>2, <1>3, <1>4, <1>6 DEF RepositoryPast
<1>9. \A w \in Writers : made'[w].base <= Len(canon') /\ reply'[w].commit.base <= Len(canon')
  BY <1>1, <1>2, <1>3, <1>4, <1>6 DEF CallPast
<1>10. tracking' <= Len(canon') /\ main' <= Len(canon')
  BY <1>1, <1>2, <1>3 DEF RepositoryPast
<1>11. QED
  BY <1>1, <1>7, <1>8, <1>9, <1>10 DEF CommitsArePast, Past

(***************************************************************************)
(* The calls are orderly.                                                  *)
(***************************************************************************)
\* What is kept of one call, whose tree is t.
CallOK(w, t) ==
    OnItsWay(w) /\ CanGoBack(w) /\ OnItsBranch(w, t) /\ FilesAreAsked(w, t) /\ MadeIsAsked(w)

\* Calls that do not work, or have just begun to, or have ended.
Fresh(w) ==
    /\ before[w] = "unknown" /\ outcome[w] = "none"
    /\ pc[w] \in {"down", "idle", "lock", "exists", "status"}
    /\ mode = "local" => pc[w] \notin {"lock", "exists"}
    /\ mode # "local" => pc[w] # "status"

\* Nothing is asked of those.
LEMMA FreshIsOK ==
  ASSUME NEW w, NEW t
  PROVE  /\ Fresh(w) => CallOK(w, t)
         /\ Fresh(w)' => CallOK(w, t)'
<1>1. Fresh(w) => OnItsWay(w) /\ FilesAreAsked(w, t) /\ MadeIsAsked(w)
  BY DEF Fresh, OnItsWay, FilesAreAsked, MadeIsAsked, Prepared
<1>2. Fresh(w) => CanGoBack(w) /\ OnItsBranch(w, t)
  BY DEF Fresh, CanGoBack, OnItsBranch, OnBranch
<1>3. Fresh(w)' => OnItsWay(w)' /\ FilesAreAsked(w, t)' /\ MadeIsAsked(w)'
  BY DEF Fresh, OnItsWay, FilesAreAsked, MadeIsAsked, Prepared
<1>4. Fresh(w)' => CanGoBack(w)' /\ OnItsBranch(w, t)'
  BY DEF Fresh, CanGoBack, OnItsBranch, OnBranch
<1>5. QED
  BY <1>1, <1>2, <1>3, <1>4 DEF CallOK

\* A call that does not work is one of them.
LEMMA IdleIsFresh ==
  ASSUME TypeOK, CallsAreOrderly, NEW w \in Writers, pc[w] \notin Holding
  PROVE  Fresh(w)
  BY DEF TypeOK, CallsAreOrderly, OnItsWay, Locations, Holding, Fresh, OnBranch

\* The calls are orderly if each is.
LEMMA OrderlyParts ==
  /\ CallsAreOrderly <=> Alone /\ \A w \in Writers : \A t \in {Tree(w)} : CallOK(w, t)
  /\ CallsAreOrderly' <=> Alone' /\ \A w \in Writers : \A t \in {Tree(w)'} : CallOK(w, t)'
  BY DEF CallsAreOrderly, CallOK

\* A tree stays what it is.
LEMMA TreeStays ==
  ASSUME mode' = mode, NEW w \in Writers
  PROVE  Tree(w)' = Tree(w) /\ Tree(w) \in Trees
  BY DEF Tree, Trees

\* While one call works, the others do nothing.
LEMMA OneWorks ==
  ASSUME TypeOK, CallsAreOrderly, mode' = mode, NEW w \in Writers, NEW t, t = Tree(w),
         pc[w] \in Holding, Rest(w), CallOK(w, t)'
  PROVE  CallsAreOrderly'
<1>1. ASSUME NEW v \in Writers, v # w PROVE Fresh(v)' /\ pc'[v] \notin Holding
  <2>1. pc[v] \notin Holding
    BY <1>1 DEF CallsAreOrderly, Alone
  <2>2. Fresh(v)
    BY <2>1, IdleIsFresh
  <2>3. QED
    BY <1>1, <2>1, <2>2 DEF Rest, Fresh
<1>2. Alone'
  BY <1>1 DEF Alone
<1>3. ASSUME NEW v \in Writers, NEW u \in {Tree(v)'} PROVE CallOK(v, u)'
  BY <1>1, <1>3, FreshIsOK, TreeStays
<1>4. QED
  BY <1>2, <1>3, OrderlyParts

\* Staying is growing.
LEMMA SameGrows ==
  ASSUME TypeOK, UNCHANGED canon
  PROVE  Grows
  BY DEF TypeOK, Grows

\* What a call has made is a commit like others.
LEMMA MadeArgs ==
  ASSUME NEW w, NEW c, NEW a, c = made'[w], a = asked'[w]
  PROVE  IsAsked(made[w], asked[w])' <=> IsAsked(c, a)'
  BY DEF IsAsked, Board!Last, Board!Parent, Board!FilesAt, Board!AddedBy

\* What a commit is, and where it is published, while the boards stay.
LEMMA MadeStays ==
  ASSUME TypeOK, TypeOK', CommitsArePast, NEW w \in Writers, UNCHANGED canon,
         name'[w] = name[w], made'[w] = made[w], asked'[w] = asked[w]
  PROVE  /\ IsAsked(made[w], asked[w]) => IsAsked(made[w], asked[w])'
         /\ pub' = pub /\ IsPublished(name[w], made[w]) => IsPublished(name[w], made[w])'
<1>1. PICK c \in Board!Commit : c = made[w] /\ c = made'[w] /\ Past(c)
  BY DEF TypeOK, CommitsArePast
<1>2. PICK a : a = asked[w] /\ a = asked'[w]
  OBVIOUS
<1>3. PICK n : n = name[w] /\ n = name'[w]
  OBVIOUS
<1>4. IsAsked(c, a) => IsAsked(c, a)'
  BY <1>1, SameGrows, AskedStays
<1>5. IsAsked(made[w], asked[w])' <=> IsAsked(c, a)'
  BY <1>1, <1>2, MadeArgs
<1>6. pub' = pub /\ IsPublished(n, c) => IsPublished(n, c)'
  BY DEF IsPublished, Board!IsAncestor
<1>7. IsPublished(name[w], made[w])' <=> IsPublished(n, c)'
  BY <1>1, <1>3 DEF IsPublished, Board!IsAncestor
<1>8. QED
  BY <1>1, <1>2, <1>3, <1>4, <1>5, <1>6, <1>7

\* The files of a checkout, while that stays at its commit.
LEMMA InHeadStays ==
  ASSUME TypeOK, TypeOK', Grows, NEW t, HeadCommit(t)' = HeadCommit(t),
         HeadCommit(t) \in Board!Commit, Past(HeadCommit(t))
  PROVE  InHead(t)' = InHead(t)
<1>1. PICK c \in Board!Commit : c = HeadCommit(t) /\ c = HeadCommit(t)' /\ Past(c)
  OBVIOUS
<1>2. Board!FilesAt(c)' = Board!FilesAt(c)
  BY <1>1, FilesStay
<1>3. InHead(t) = Board!FilesAt(c)
  BY <1>1 DEF InHead
<1>4. InHead(t)' = Board!FilesAt(c)'
  BY <1>1 DEF InHead
<1>5. QED
  BY <1>2, <1>3, <1>4

\* A call that the step leaves alone, with the repositories.
LEMMA CallStays ==
  ASSUME TypeOK, TypeOK', CommitsArePast, HeadsExist, mode' = mode, UNCHANGED <<board, clone, trees>>,
         NEW w \in Writers, NEW t \in Trees, CallOK(w, t),
         pc'[w] = pc[w], asked'[w] = asked[w], name'[w] = name[w], before'[w] = before[w],
         made'[w] = made[w], outcome'[w] = outcome[w], botched'[w] = botched[w], touched'[w] = touched[w]
  PROVE  CallOK(w, t)'
<1>1. UNCHANGED <<canon, pub, ref, head, detached, work, main>>
  BY DEF board, clone, trees
<1>2. OnItsWay(w)' /\ CanGoBack(w)'
  BY <1>1 DEF CallOK, OnItsWay, CanGoBack
<1>3. OnItsBranch(w, t)'
  BY <1>1 DEF CallOK, OnItsBranch
<1>4. InHead(t)' = InHead(t)
  <2>1. HeadCommit(t)' = HeadCommit(t)
    BY <1>1 DEF HeadCommit, CommitAt
  <2>2. HeadCommit(t) \in Board!Commit /\ Past(HeadCommit(t))
    BY HeadTypes, HeadPast DEF Past
  <2>3. QED
    BY <1>1, <2>1, <2>2, InHeadStays, SameGrows
<1>5. FilesAreAsked(w, t)'
  BY <1>1, <1>4 DEF CallOK, FilesAreAsked, Mine, AllClean
<1>6. MadeIsAsked(w)'
  BY <1>1, MadeStays DEF CallOK, MadeIsAsked
<1>7. QED
  BY <1>2, <1>3, <1>5, <1>6 DEF CallOK

\* A call that begins or ends while another may be at work.
LEMMA StepsAside ==
  ASSUME TypeOK, TypeOK', CommitsArePast, HeadsExist, CallsAreOrderly, mode' = mode,
         UNCHANGED <<board, clone, trees>>, NEW w \in Writers, Rest(w), Fresh(w)',
         pc'[w] \in Holding => \A v \in Writers \ {w} : pc[v] \notin Holding
  PROVE  CallsAreOrderly'
<1>1. Alone'
  BY DEF CallsAreOrderly, Alone, Rest
<1>2. ASSUME NEW v \in Writers, NEW t \in {Tree(v)'} PROVE CallOK(v, t)'
  <2>1. t \in Trees /\ CallOK(v, t)
    BY <1>2, TreeStays, OrderlyParts
  <2>2. CASE v = w
    BY <2>2, FreshIsOK
  <2>3. CASE v # w
    BY <2>1, <2>3, CallStays DEF Rest
  <2>4. QED
    BY <2>2, <2>3
<1>3. QED
  BY <1>1, <1>2, OrderlyParts

\* A call that ends while it works.
LEMMA WorkIsOver ==
  ASSUME TypeOK, CallsAreOrderly, mode' = mode, NEW w \in Writers, pc[w] \in Holding, Rest(w), Fresh(w)'
  PROVE  CallsAreOrderly'
  BY OneWorks, FreshIsOK DEF Trees

\* A call that answers is over.
LEMMA AnswerIsOver ==
  ASSUME TypeOK, TypeOK', CommitsArePast, HeadsExist, CallsAreOrderly, mode' = mode, NEW w \in Writers,
         pc[w] \in Holding \/ UNCHANGED <<board, clone, trees>>,
         NEW s, NEW b, AnswerAfter(w, s, b)
  PROVE  CallsAreOrderly'
<1>1. Answered(w, s, b)
  BY AnswerFacts, TypeParts
<1>2. Rest(w) /\ Fresh(w)' /\ pc'[w] \notin Holding
  BY <1>1 DEF Answered, Fresh, Holding
<1>3. QED
  BY <1>2, WorkIsOver, StepsAside

\* Where a call works it works alone on a branch, or there is none yet.
LEMMA NotCheckedOut ==
  ASSUME TypeOK, HeadsExist, CallsAreOrderly, NEW w \in Writers, mode = "remote",
         pc[w] \in Holding \ {"exists", "fetch", "remove", "delete"}
  PROVE  \A u \in Trees \ {w} : head[u] # name[w]
<1>1. Tree(w) = w /\ OnItsBranch(w, w)
  BY OrderlyParts DEF Tree, CallOK
<1>2. CASE pc[w] \in {"worktree", "status", "validate", "branch"}
  BY <1>1, <1>2 DEF OnItsBranch, HeadsExist, TypeOK
<1>3. CASE pc[w] \in OnBranch \cup {"drop"}
  BY <1>1, <1>3 DEF OnItsBranch
<1>4. QED
  BY <1>2, <1>3 DEF Holding, OnBranch

\* A call that decides on an answer with nothing prepared.
LEMMA LeavesWithNothing ==
  ASSUME TypeOK, TypeOK', CommitsArePast, HeadsExist, CallsAreOrderly, mode' = mode, NEW w \in Writers,
         pc[w] \in Holding \ {"exists", "fetch", "remove", "delete"},
         UNCHANGED head, \A n \in Names \ {name[w]} : ref'[n] = ref[n],
         NEW s, mode = "remote" => s \notin Prepared, NEW b, LeaveAfter(w, s, b)
  PROVE  CallsAreOrderly'
<1>1. CASE mode = "local"
  BY <1>1, AnswerIsOver DEF LeaveAfter
<1>2. CASE mode = "remote"
  <2>1. Left(w, s, b) /\ Tree(w) = w
    BY <1>2, LeaveFacts, TypeParts DEF Tree
  <2>2. CallOK(w, w)
    BY <2>1, OrderlyParts
  <2>3. OnItsWay(w)' /\ CanGoBack(w)'
    BY <1>2, <2>1, <2>2 DEF CallOK, OnItsWay, CanGoBack, Left, Same, Holding
  <2>4. OnItsBranch(w, w)'
    BY <1>2, <2>1, NotCheckedOut DEF OnItsBranch, Left, Same, OnBranch
  <2>5. FilesAreAsked(w, w)'
    BY <2>1 DEF FilesAreAsked, Left
  <2>6. MadeIsAsked(w)'
    BY <1>2, <2>1 DEF MadeIsAsked, Left
  <2>7. QED
    BY <2>1, <2>3, <2>4, <2>5, <2>6, OneWorks DEF CallOK, Left
<1>3. QED
  BY <1>1, <1>2 DEF TypeOK

\* A remote call that decides on an answer with something prepared.
LEMMA LeavesPrepared ==
  ASSUME TypeOK, TypeOK', CommitsArePast, HeadsExist, CallsAreOrderly, mode' = mode, NEW w \in Writers,
         mode = "remote", pc[w] \in {"push", "pr"}, UNCHANGED <<canon, head, ref>>,
         IsPublished(name[w], made[w])',
         NEW s, NEW b, LeaveAfter(w, s, b)
  PROVE  CallsAreOrderly'
<1>1. Left(w, s, b) /\ Tree(w) = w
  BY LeaveFacts, TypeParts DEF Tree
<1>2. CallOK(w, w) /\ pc[w] \in Holding
  BY <1>1, OrderlyParts DEF Holding
<1>3. OnItsWay(w)' /\ CanGoBack(w)'
  BY <1>1, <1>2 DEF CallOK, OnItsWay, CanGoBack, Left, Same, Holding
<1>4. OnItsBranch(w, w)'
  BY <1>1, NotCheckedOut DEF OnItsBranch, Left, Same, OnBranch, Holding
<1>5. FilesAreAsked(w, w)'
  BY <1>1 DEF FilesAreAsked, Left
<1>6. MadeIsAsked(w)'
  BY <1>1, <1>2, MadeStays DEF CallOK, MadeIsAsked, Left, Same
<1>7. QED
  BY <1>1, <1>2, <1>3, <1>4, <1>5, <1>6, OneWorks DEF CallOK, Left

\* A call that goes on with its branch.
LEMMA GoesOnWithBranch ==
  ASSUME TypeOK, TypeOK', CallsAreOrderly, mode' = mode, NEW w \in Writers, NEW t, t = Tree(w),
         pc[w] \in OnBranch, pc'[w] \in OnBranch, mode = "local" => pc'[w] # "push",
         pc'[w] = "write" => FALSE, pc'[w] = "commit" => pc[w] = "write" /\ ref'[name[w]] = ref[name[w]],
         name'[w] = name[w], before'[w] = before[w],
         outcome'[w] = "none" \/ (outcome'[w] = "failed" /\ pc'[w] \in {"undo", "back"}),
         botched'[w] = botched[w] \/ botched'[w] = TRUE, UNCHANGED head,
         \A n \in Names \ {name[w]} : ref'[n] = ref[n]
  PROVE  OnItsWay(w)' /\ CanGoBack(w)' /\ OnItsBranch(w, t)'
<1>1. CallOK(w, t) /\ t \in Trees
  BY OrderlyParts, TreeStays
<1>2. OnItsWay(w)' /\ CanGoBack(w)'
  BY <1>1 DEF CallOK, OnItsWay, CanGoBack, OnBranch, Holding
<1>3. OnItsBranch(w, t)'
  BY <1>1 DEF CallOK, OnItsBranch, OnBranch
<1>4. QED
  BY <1>2, <1>3

\* A call on its way to a branch of its own.
LEMMA ComesToBranch ==
  ASSUME TypeOK, CallsAreOrderly, mode' = mode, NEW w \in Writers, NEW t, t = Tree(w),
         pc[w] \in {"exists", "fetch", "worktree", "status", "validate"},
         NEW l \in {"fetch", "worktree", "status", "validate", "branch"}, Went(w, l), UNCHANGED ref,
         mode = "local" => l \in {"validate", "branch"},
         mode = "remote" \/ l = "branch" => ref[name[w]] = None,
         mode = "remote" /\ l \in {"status", "validate", "branch"}
            => head'[w] = "detached" /\ detached'[w].stack = <<>>,
         FilesAreAsked(w, t)'
  PROVE  CallsAreOrderly'
<1>1. CallOK(w, t) /\ pc[w] \in Holding /\ l \in Holding
  BY OrderlyParts DEF Holding
<1>2. OnItsWay(w)' /\ CanGoBack(w)'
  BY <1>1 DEF CallOK, OnItsWay, CanGoBack, Went, Same, OnBranch
<1>3. OnItsBranch(w, t)'
  BY DEF OnItsBranch, OnBranch, Went, Same
<1>4. MadeIsAsked(w)'
  BY <1>1 DEF CallOK, OnItsWay, MadeIsAsked, Went, Same, Prepared
<1>5. QED
  BY <1>1, <1>2, <1>3, <1>4, OneWorks DEF CallOK, Went

\* A call that makes its branch and goes to it.
LEMMA Branches ==
  ASSUME TypeOK, TypeOK', CommitsArePast, HeadsExist, CallsAreOrderly, mode' = mode, NEW w \in Writers,
         pc[w] = "branch", NEW b, SwitchToNew(w, b),
         b = head[Tree(w)] \/ (b \in {"detached", "unknown"} /\ botched'[w] = TRUE),
         pc'[w] = "write", Rest(w), asked'[w] = asked[w], name'[w] = name[w], outcome'[w] = outcome[w],
         touched'[w] = touched[w], UNCHANGED <<canon, main, work>>
  PROVE  CallsAreOrderly'
<1>1. PICK t \in Trees : t = Tree(w) /\ CallOK(w, t)
  BY TreeStays, OrderlyParts
<1>2. /\ name[w] \in Names /\ name[w] \notin {"main", "detached"} /\ ref[name[w]] = None
      /\ \A u \in Trees : head[u] # name[w]
  BY <1>1 DEF CallOK, OnItsBranch, HeadsExist, TypeOK
<1>3. /\ ref'[name[w]] = HeadCommit(t) /\ \A n \in Names \ {name[w]} : ref'[n] = ref[n]
      /\ head'[t] = name[w] /\ \A u \in Trees \ {t} : head'[u] = head[u]
      /\ before'[w] = b
  BY <1>1, <1>2 DEF SwitchToNew, TypeOK
<1>4. OnItsWay(w)'
  BY <1>1 DEF CallOK, OnItsWay, Holding, OnBranch
<1>5. CanGoBack(w)'
  BY <1>1, <1>2, <1>3 DEF CanGoBack, HeadsExist
<1>6. OnItsBranch(w, t)'
  <2>1. b = head[t] => b # "unknown"
    <3>1. head[t] \in Names \cup {"main", "detached"}
      BY DEF TypeOK
    <3>2. QED
      BY <3>1
  <2>2. mode = "remote" => HeadCommit(t).stack = <<>>
    BY <1>1 DEF CallOK, OnItsBranch, HeadCommit, Tree
  <2>3. QED
    BY <1>1, <1>2, <1>3, <2>1, <2>2 DEF OnItsBranch, OnBranch
<1>7. InHead(t)' = InHead(t)
  <2>1. HeadCommit(t)' = HeadCommit(t)
    BY <1>2, <1>3 DEF HeadCommit
  <2>2. HeadCommit(t) \in Board!Commit /\ Past(HeadCommit(t))
    BY HeadTypes, HeadPast DEF Past
  <2>3. QED
    BY <2>1, <2>2, InHeadStays, SameGrows
<1>8. FilesAreAsked(w, t)'
  BY <1>1, <1>7 DEF CallOK, FilesAreAsked, AllClean
<1>9. MadeIsAsked(w)'
  BY <1>1 DEF CallOK, OnItsWay, MadeIsAsked, Prepared
<1>10. QED
  BY <1>1, <1>4, <1>5, <1>6, <1>8, <1>9, OneWorks DEF CallOK, Holding

\* While a call works on its branch, its checkout stays at that.
LEMMA InHeadOnBranch ==
  ASSUME TypeOK, TypeOK', CommitsArePast, HeadsExist, NEW t \in Trees,
         UNCHANGED <<canon, head, ref, main, detached>>
  PROVE  InHead(t)' = InHead(t)
<1>1. HeadCommit(t)' = HeadCommit(t)
  BY DEF HeadCommit, CommitAt
<1>2. HeadCommit(t) \in Board!Commit /\ Past(HeadCommit(t))
  BY HeadTypes, HeadPast DEF Past
<1>3. QED
  BY <1>1, <1>2, InHeadStays, SameGrows

\* A commit is what was asked for (git commit), unless the user touched files.
LEMMA CommitIsAsked ==
  ASSUME TypeOK, TypeOK', CommitsArePast, CommitsArePast', HeadsExist, CallsAreOrderly, NEW w \in Writers,
         pc[w] = "commit", Committed(w), ~touched[w], UNCHANGED canon,
         NEW c, c = ref'[name[w]], NEW a, a = asked[w]
  PROVE  IsAsked(c, a)'
<1>1. PICK t \in Trees : t = Tree(w) /\ CallOK(w, t)
  BY OrderlyParts DEF Tree, Trees
<1>2. /\ ref[name[w]] \in Board!Commit /\ name[w] \in Names /\ head[t] = name[w]
      /\ name[w] \notin {"main", "detached"}
  BY <1>1, OwnBranchTypes DEF OnBranch, CallOK, OnItsBranch
<1>3. /\ c \in Board!Commit /\ c.base = ref[name[w]].base
      /\ c.stack = Append(ref[name[w]].stack, ChangeOf(w))
      /\ ref[name[w]].stack \in Seq(Board!Change) /\ ChangeOf(w) \in Board!Change
  BY CommittedFacts
<1>4. /\ Len(c.stack) - 1 = Len(ref[name[w]].stack)
      /\ SubSeq(c.stack, 1, Len(c.stack) - 1) = ref[name[w]].stack
      /\ Board!Last(c) = ChangeOf(w)
  <2>1. PICK s \in Seq(Board!Change), e \in Board!Change : s = ref[name[w]].stack /\ e = ChangeOf(w)
    BY <1>3
  <2>2. Len(Append(s, e)) - 1 = Len(s) /\ Append(s, e)[Len(Append(s, e))] = e
    BY <2>1
  <2>3. SubSeq(Append(s, e), 1, Len(s)) = s
    BY WholePrefix
  <2>4. QED
    BY <1>3, <2>1, <2>2, <2>3 DEF Board!Last
<1>5. Board!Parent(c) = ref[name[w]]
  <2>1. \A x, y \in Board!Commit : x.base = y.base /\ x.stack = y.stack => x = y
    BY DEF Board!Commit
  <2>2. /\ Board!Parent(c) \in Board!Commit /\ Board!Parent(c).base = c.base
        /\ Board!Parent(c).stack = SubSeq(c.stack, 1, Len(c.stack) - 1)
    BY <1>3, ParentType
  <2>3. Board!Parent(c).base = ref[name[w]].base /\ Board!Parent(c).stack = ref[name[w]].stack
    BY <1>3, <1>4, <2>2
  <2>4. QED
    BY <1>2, <2>1, <2>2, <2>3
<1>6. Board!FilesAt(Board!Parent(c)) = InHead(t)
  BY <1>2, <1>5 DEF InHead, HeadCommit
<1>7. /\ asked[w].adds \cap InHead(t) = {} /\ asked[w].replaces \subseteq InHead(t)
      /\ \A f \in Files : work[t][f] # "staged"
  BY <1>1 DEF CallOK, FilesAreAsked
<1>8. ChangeOf(w).adds = a.adds /\ ChangeOf(w).replaces = a.replaces
  BY <1>1, <1>7 DEF ChangeOf, Mine
<1>9. IsAsked(c, a)
  BY <1>4, <1>6, <1>7, <1>8 DEF IsAsked
<1>10. Past(c)
  BY <1>2, <1>3 DEF CommitsArePast, Past
<1>11. QED
  BY <1>3, <1>9, <1>10, AskedStays, SameGrows

\* Where nothing of it changes, the calls stay orderly.
LEMMA Undisturbed ==
  ASSUME TypeOK, TypeOK', CommitsArePast, HeadsExist, CallsAreOrderly, mode' = mode,
         UNCHANGED <<board, clone, trees, pc, call>>
  PROVE  CallsAreOrderly'
<1>1. Alone'
  BY DEF CallsAreOrderly, Alone
<1>2. ASSUME NEW v \in Writers, NEW t \in {Tree(v)'} PROVE CallOK(v, t)'
  <2>1. t \in Trees /\ CallOK(v, t)
    BY <1>2, TreeStays, OrderlyParts
  <2>2. QED
    BY <2>1, CallStays DEF call
<1>3. QED
  BY <1>1, <1>2, OrderlyParts

\* Every step keeps the calls orderly.
LEMMA OrderlyStep ==
  ASSUME TypeOK, TypeOK', HeadsExist, CallsAreOrderly, CommitsArePast, CommitsArePast', LockHeldInside, [Next]_vars
  PROVE  CallsAreOrderly'
<1>0. /\ TypeOK /\ TypeOK' /\ HeadsExist /\ CallsAreOrderly /\ CommitsArePast /\ CommitsArePast' /\ LockHeldInside
      /\ CallTypeOK /\ BoardMoves /\ mode' = mode /\ mode \in {"local", "remote"}
  BY BoardStep, TypeParts DEF BoardMoves, TypeOK
<1>1. CASE UNCHANGED vars
  BY <1>0, <1>1, Undisturbed DEF vars
<1>2. ASSUME NEW w \in Writers, NEW r \in Requests, Request(w, r[1], r[2]) PROVE CallsAreOrderly'
  <2>1. Fresh(w) /\ Rest(w) /\ Fresh(w)'
    <3>1. Fresh(w) /\ pc'[w] = (IF mode = "local" THEN "status" ELSE "lock")
      BY <1>0, <1>2, IdleIsFresh DEF Request, TypeOK, Holding
    <3>2. Rest(w)
      BY <1>0, <1>2 DEF Request, Rest, TypeOK
    <3>3. Fresh(w)'
      BY <1>0, <1>2, <3>1 DEF Request, Fresh
    <3>4. QED
      BY <3>1, <3>2, <3>3
  <2>2. pc'[w] \in Holding => \A v \in Writers : pc[v] \notin Holding
    BY <1>0, <1>2 DEF Request, Idle, Holding, TypeOK
  <2>3. QED
    BY <1>0, <1>2, <2>1, <2>2, StepsAside DEF Request
<1>3. ASSUME NEW w \in Writers, Acquire(w) PROVE CallsAreOrderly'
  <2>1. Fresh(w) /\ Rest(w) /\ Fresh(w)'
    BY <1>0, <1>3, IdleIsFresh DEF Acquire, Fresh, Rest, call, TypeOK, Holding
  <2>2. \A v \in Writers : pc[v] \notin Holding
    BY <1>0, <1>3, <2>1 DEF Acquire, LockHeldInside, Fresh, TypeOK
  <2>3. QED
    BY <1>0, <1>3, <2>1, <2>2, StepsAside DEF Acquire
<1>4. ASSUME NEW w \in Writers, Reclaim(w) PROVE CallsAreOrderly'
  BY <1>0, <1>4, Undisturbed DEF Reclaim
<1>5. ASSUME NEW w \in Writers, Exists(w) PROVE CallsAreOrderly'
  <2>0. mode = "remote" /\ Tree(w) = w
    BY <1>0, <1>5 DEF Exists, CallsAreOrderly, OnItsWay, Tree, TypeOK
  <2>1. CASE Answer(w, "BRANCH_EXISTS")
    BY <1>0, <1>5, <2>1, AnswerIsOver DEF Exists, Answer
  <2>2. CASE ref[name[w]] = None /\ Goto(w, "fetch")
    <3>1. Went(w, "fetch") /\ FilesAreAsked(w, w)'
      BY <1>0, <2>2, GotoFacts DEF FilesAreAsked, Went
    <3>2. QED
      BY <1>0, <1>5, <2>0, <2>2, <3>1, ComesToBranch DEF Exists, clone
  <2>3. QED
    BY <1>5, <2>1, <2>2 DEF Exists
<1>6. ASSUME NEW w \in Writers, Fetch(w) PROVE CallsAreOrderly'
  <2>0. mode = "remote" /\ Tree(w) = w /\ CallOK(w, w)
    BY <1>0, <1>6, OrderlyParts DEF Fetch, CallsAreOrderly, OnItsWay, Tree, TypeOK
  <2>1. Went(w, "worktree") /\ FilesAreAsked(w, w)'
    BY <1>0, <1>6, GotoFacts DEF Fetch, FilesAreAsked, Went
  <2>2. ref[name[w]] = None
    BY <1>6, <2>0 DEF Fetch, CallOK, OnItsBranch
  <2>3. QED
    BY <1>0, <1>6, <2>0, <2>1, <2>2, ComesToBranch DEF Fetch
<1>7. ASSUME NEW w \in Writers, AddWorktree(w) PROVE CallsAreOrderly'
  <2>0. mode = "remote" /\ Tree(w) = w /\ CallOK(w, w)
    BY <1>0, <1>7, OrderlyParts DEF AddWorktree, CallsAreOrderly, OnItsWay, Tree, TypeOK
  <2>1. Went(w, "status") /\ FilesAreAsked(w, w)'
    BY <1>0, <1>7, GotoFacts DEF AddWorktree, FilesAreAsked, Went
  <2>2. ref[name[w]] = None
    BY <1>7, <2>0 DEF AddWorktree, CallOK, OnItsBranch
  <2>3. head'[w] = "detached" /\ detached'[w].stack = <<>>
    BY <1>0, <1>7 DEF AddWorktree, TypeOK, Trees, CommitAt
  <2>4. QED
    BY <1>0, <1>7, <2>0, <2>1, <2>2, <2>3, ComesToBranch DEF AddWorktree, clone
<1>8. ASSUME NEW w \in Writers, Status(w) PROVE CallsAreOrderly'
  <2>1. CASE Leave(w, "blocked")
    BY <1>0, <1>8, <2>1, LeavesWithNothing DEF Status, Leave, trees, clone, Holding, Prepared
  <2>2. CASE work[Tree(w)] = AllClean /\ Goto(w, "validate")
    <3>1. PICK t \in Trees : t = Tree(w) /\ CallOK(w, t)
      BY <1>0, TreeStays, OrderlyParts
    <3>2. Went(w, "validate") /\ work' = work
      BY <1>0, <1>8, <2>2, GotoFacts DEF Status, trees
    <3>3. FilesAreAsked(w, t)'
      BY <2>2, <3>1, <3>2 DEF FilesAreAsked, Went, AllClean
    <3>4. UNCHANGED <<ref, head, detached>>
      BY <1>8 DEF Status, trees, clone
    <3>5. mode = "remote" => ref[name[w]] = None /\ head[w] = "detached" /\ detached[w].stack = <<>>
      BY <1>8, <3>1 DEF Status, CallOK, OnItsBranch
    <3>6. QED
      BY <1>0, <1>8, <3>1, <3>2, <3>3, <3>4, <3>5, ComesToBranch DEF Status
  <2>3. QED
    BY <1>8, <2>1, <2>2 DEF Status
<1>9. ASSUME NEW w \in Writers, Validate(w) PROVE CallsAreOrderly'
  <2>1. CASE Leave(w, "INVALID_CHANGES") \/ Leave(w, "BRANCH_EXISTS")
    BY <1>0, <1>9, <2>1, LeavesWithNothing DEF Validate, Leave, trees, clone, Holding, Prepared
  <2>2. CASE Valid(w) /\ ref[name[w]] = None /\ Goto(w, "branch")
    <3>1. PICK t \in Trees : t = Tree(w) /\ CallOK(w, t)
      BY <1>0, TreeStays, OrderlyParts
    <3>2. Went(w, "branch") /\ UNCHANGED <<canon, ref, main, head, detached, work>>
      BY <1>0, <1>9, <2>2, GotoFacts DEF Validate, trees, clone, board
    <3>3. InHead(t)' = InHead(t)
      BY <1>0, <3>2, InHeadOnBranch
    <3>4. ~touched[w] => work[t] = AllClean
      BY <1>9, <3>1 DEF Validate, CallOK, FilesAreAsked
    <3>5. ~touched[w] => asked[w].adds \cap InHead(t) = {} /\ asked[w].replaces \subseteq InHead(t)
      BY <2>2, <3>1, <3>4 DEF Valid, Present, AllClean
    <3>6. FilesAreAsked(w, t)'
      BY <3>2, <3>3, <3>4, <3>5 DEF FilesAreAsked, Went, Same, AllClean
    <3>7. mode = "remote" => head[w] = "detached" /\ detached[w].stack = <<>>
      BY <1>9, <3>1 DEF Validate, CallOK, OnItsBranch
    <3>8. QED
      BY <1>0, <1>9, <2>2, <3>1, <3>2, <3>6, <3>7, ComesToBranch DEF Validate
  <2>3. QED
    BY <1>9, <2>1, <2>2 DEF Validate
<1>10. ASSUME NEW w \in Writers, MakeBranch(w) PROVE CallsAreOrderly'
  <2>1. Rest(w) /\ asked'[w] = asked[w] /\ name'[w] = name[w] /\ outcome'[w] = outcome[w] /\ touched'[w] = touched[w]
        /\ pc'[w] = "write" /\ pc[w] = "branch"
    BY <1>0, <1>10 DEF MakeBranch, SwitchToNew, Rest, TypeOK
  <2>2. SwitchToNew(w, head[Tree(w)]) /\ UNCHANGED <<canon, main, work>>
    BY <1>10 DEF MakeBranch, board
  <2>3. QED
    BY <1>0, <2>1, <2>2, Branches
<1>11. ASSUME NEW w \in Writers, Write(w) PROVE CallsAreOrderly'
  <2>0. PICK t \in Trees : t = Tree(w) /\ CallOK(w, t)
    BY <1>0, TreeStays, OrderlyParts
  <2>1. Went(w, "commit") /\ UNCHANGED <<canon, ref, main, head, detached>> /\ pc[w] = "write"
    BY <1>0, <1>11, GotoFacts DEF Write, clone, board
  <2>2. work'[t] = [f \in Files |-> IF f \in Mine(w) THEN "ours" ELSE work[t][f]]
    BY <1>0, <1>11, <2>0 DEF Write, Written, TypeOK
  <2>3. InHead(t)' = InHead(t) /\ Mine(w)' = Mine(w)
    BY <1>0, <2>1, InHeadOnBranch DEF Mine, Went, Same
  <2>4. FilesAreAsked(w, t)'
    BY <2>0, <2>1, <2>2, <2>3 DEF CallOK, FilesAreAsked, Went, Same, AllClean
  <2>5. OnItsWay(w)' /\ CanGoBack(w)' /\ OnItsBranch(w, t)'
    BY <1>0, <2>0, <2>1, GoesOnWithBranch DEF Went, Same, CallOK, OnItsWay, OnBranch
  <2>6. MadeIsAsked(w)'
    BY <2>0, <2>1 DEF CallOK, OnItsWay, MadeIsAsked, Went, Same, Prepared
  <2>7. QED
    BY <1>0, <2>0, <2>1, <2>4, <2>5, <2>6, OneWorks DEF CallOK, Went, Holding
<1>12. ASSUME NEW w \in Writers, MakeCommit(w) PROVE CallsAreOrderly'
  <2>0. PICK t \in Trees : t = Tree(w) /\ CallOK(w, t)
    BY <1>0, TreeStays, OrderlyParts
  <2>1. Rest(w) /\ pc'[w] = "gh" /\ made'[w] = ref'[name[w]] /\ pc[w] = "commit"
        /\ asked'[w] = asked[w] /\ name'[w] = name[w] /\ before'[w] = before[w] /\ touched'[w] = touched[w]
        /\ botched'[w] = botched[w] /\ outcome'[w] = outcome[w]
    BY <1>0, <1>12 DEF MakeCommit, Rest, TypeOK
  <2>2. Committed(w) /\ UNCHANGED <<canon, pub, head>>
    BY <1>12 DEF MakeCommit, board
  <2>3. /\ \A n \in Names \ {name[w]} : ref'[n] = ref[n]
        /\ ref'[name[w]].stack = Append(ref[name[w]].stack, ChangeOf(w))
    BY <1>0, <2>1, <2>2, CommittedFacts
  <2>4. FilesAreAsked(w, t)'
    BY <2>1 DEF FilesAreAsked
  <2>5. OnItsWay(w)' /\ CanGoBack(w)' /\ OnItsBranch(w, t)'
    BY <1>0, <2>0, <2>1, <2>2, <2>3, GoesOnWithBranch DEF CallOK, OnItsWay, OnBranch
  <2>6. ~touched'[w] => IsAsked(made[w], asked[w])'
    <3>1. PICK c, a : c = ref'[name[w]] /\ a = asked[w]
      OBVIOUS
    <3>2. ~touched[w] => IsAsked(c, a)'
      BY <1>0, <2>1, <2>2, <3>1, CommitIsAsked
    <3>3. QED
      BY <2>1, <3>1, <3>2, MadeArgs
  <2>7. mode = "remote" => Len(made'[w].stack) = 1
    BY <2>0, <2>1, <2>3 DEF CallOK, OnItsBranch
  <2>8. MadeIsAsked(w)'
    BY <1>0, <2>0, <2>1, <2>6, <2>7 DEF CallOK, OnItsWay, MadeIsAsked, Prepared
  <2>9. QED
    BY <1>0, <2>0, <2>1, <2>4, <2>5, <2>8, OneWorks DEF CallOK, Holding
<1>13. ASSUME NEW w \in Writers, NothingToCommit(w) PROVE CallsAreOrderly'
  <2>0. PICK t \in Trees : t = Tree(w) /\ CallOK(w, t)
    BY <1>0, TreeStays, OrderlyParts
  <2>1. Rest(w) /\ Same(w) /\ pc'[w] = "undo" /\ outcome'[w] = "failed" /\ botched'[w] = botched[w]
        /\ UNCHANGED <<canon, ref, main, head, detached, work>> /\ pc[w] = "commit"
    BY <1>0, <1>13, CleanUpFacts DEF NothingToCommit, clone, board, trees
  <2>3. InHead(t)' = InHead(t) /\ Mine(w)' = Mine(w)
    BY <1>0, <2>1, InHeadOnBranch DEF Mine, Same
  <2>4. FilesAreAsked(w, t)'
    BY <2>0, <2>1, <2>3 DEF CallOK, FilesAreAsked, Same, AllClean
  <2>5. OnItsWay(w)' /\ CanGoBack(w)' /\ OnItsBranch(w, t)'
    BY <1>0, <2>0, <2>1, GoesOnWithBranch DEF Same, OnBranch
  <2>6. MadeIsAsked(w)'
    BY <2>1 DEF MadeIsAsked, Prepared
  <2>7. QED
    BY <1>0, <2>0, <2>1, <2>4, <2>5, <2>6, OneWorks DEF CallOK, Holding
<1>14. ASSUME NEW w \in Writers, UndoReset(w) PROVE CallsAreOrderly'
  <2>0. PICK t \in Trees : t = Tree(w) /\ CallOK(w, t)
    BY <1>0, TreeStays, OrderlyParts
  <2>1. Went(w, "back") /\ UNCHANGED <<canon, ref, main, head, detached>> /\ pc[w] = "undo"
    BY <1>0, <1>14, GotoFacts DEF UndoReset, clone, board
  <2>2. work'[t] = [f \in Files |-> IF f \in asked[w].adds \/ work[t][f] = "staged" \/ f \in InHead(t)
                                  THEN "clean" ELSE work[t][f]]
    BY <1>0, <1>14, <2>0 DEF UndoReset, Undone, TypeOK
  <2>4. FilesAreAsked(w, t)'
    BY <2>0, <2>1, <2>2 DEF CallOK, FilesAreAsked, Went, Same, Mine
  <2>5. OnItsWay(w)' /\ CanGoBack(w)' /\ OnItsBranch(w, t)'
    BY <1>0, <2>0, <2>1, GoesOnWithBranch DEF Went, Same, CallOK, OnItsWay, OnBranch
  <2>6. MadeIsAsked(w)'
    BY <2>0, <2>1 DEF CallOK, OnItsWay, MadeIsAsked, Went, Same, Prepared
  <2>7. QED
    BY <1>0, <2>0, <2>1, <2>4, <2>5, <2>6, OneWorks DEF CallOK, Went, Holding
<1>15. ASSUME NEW w \in Writers, UndoSwitch(w) PROVE CallsAreOrderly'
  <2>0. PICK t \in Trees : t = Tree(w) /\ CallOK(w, t)
    BY <1>0, TreeStays, OrderlyParts
  <2>1. Went(w, "drop") /\ UNCHANGED <<canon, ref, work>> /\ pc[w] = "back"
    BY <1>0, <1>15, GotoFacts DEF UndoSwitch, clone, board
  <2>2. /\ head'[t] = (IF before[w] = "unknown" THEN head[t] ELSE before[w])
        /\ \A u \in Trees \ {t} : head'[u] = head[u]
    BY <1>0, <1>15, <2>0 DEF UndoSwitch, TypeOK
  <2>4. FilesAreAsked(w, t)'
    BY <2>0, <2>1 DEF CallOK, FilesAreAsked, Went, Same
  <2>5. OnItsWay(w)' /\ CanGoBack(w)'
    BY <2>0, <2>1, <1>0 DEF Went, Same, CallOK, OnItsWay, CanGoBack, Holding
  <2>6. OnItsBranch(w, t)'
    BY <2>0, <2>1, <2>2 DEF Went, Same, CallOK, OnItsBranch, OnBranch
  <2>7. MadeIsAsked(w)'
    BY <2>0, <2>1 DEF CallOK, OnItsWay, MadeIsAsked, Went, Same, Prepared
  <2>8. QED
    BY <1>0, <2>0, <2>1, <2>4, <2>5, <2>6, <2>7, OneWorks DEF CallOK, Went, Holding
<1>16. ASSUME NEW w \in Writers, UndoBranch(w) PROVE CallsAreOrderly'
  <2>1. \A n \in Names \ {name[w]} : ref'[n] = ref[n]
    BY <1>16 DEF UndoBranch, Deleted, TypeOK
  <2>2. QED
    BY <1>0, <1>16, <2>1, LeavesWithNothing DEF UndoBranch, Leave, trees, Holding, Prepared
<1>17. ASSUME NEW w \in Writers, Authenticate(w) PROVE CallsAreOrderly'
  <2>0. PICK t \in Trees : t = Tree(w) /\ CallOK(w, t)
    BY <1>0, TreeStays, OrderlyParts
  <2>1. CASE mode = "local" /\ Leave(w, "branch_prepared_pr_not_opened")
    BY <1>0, <1>17, <2>1, LeavesWithNothing DEF Authenticate, Leave, trees, clone, Holding
  <2>2. ASSUME NEW l \in {"push", "push and open"}, Goto(w, l), mode = "remote" \/ l # "push"
        PROVE  CallsAreOrderly'
    <3>1. Went(w, l) /\ UNCHANGED <<canon, pub, ref, head>> /\ pc[w] = "gh"
      BY <1>0, <1>17, <2>2, GotoFacts DEF Authenticate, clone, board, trees
    <3>2. FilesAreAsked(w, t)'
      BY <3>1 DEF FilesAreAsked, Went
    <3>3. OnItsWay(w)' /\ CanGoBack(w)' /\ OnItsBranch(w, t)'
      BY <1>0, <2>0, <2>2, <3>1, GoesOnWithBranch DEF Went, Same, CallOK, OnItsWay, OnBranch
    <3>4. MadeIsAsked(w)'
      BY <1>0, <2>0, <3>1, MadeStays DEF CallOK, OnItsWay, MadeIsAsked, Went, Same, Prepared
    <3>5. QED
      BY <1>0, <2>0, <2>2, <3>1, <3>2, <3>3, <3>4, OneWorks DEF CallOK, Went, Holding
  <2>3. QED
    BY <1>17, <2>1, <2>2 DEF Authenticate
<1>18. ASSUME NEW w \in Writers, Push(w) PROVE CallsAreOrderly'
  <2>0. PICK t \in Trees : t = Tree(w) /\ CallOK(w, t)
    BY <1>0, TreeStays, OrderlyParts
  <2>1. ref[name[w]] \in Board!Commit /\ name[w] \in Names /\ made[w] = ref[name[w]]
    BY <1>0, <1>18, <2>0, OwnBranchTypes DEF Push, OnBranch, CallOK, MadeIsAsked
  <2>2. /\ pub'[name[w]] = ref[name[w]] /\ UNCHANGED <<canon, head, ref>>
        /\ pc[w] \in {"push", "push and open"}
    BY <1>0, <1>18, <2>1 DEF Push, TypeOK, clone, trees
  <2>3. ASSUME name'[w] = name[w], made'[w] = made[w] PROVE IsPublished(name[w], made[w])'
    <3>1. PICK n \in Names, c \in Board!Commit : n = name[w] /\ c = made[w]
      BY <2>1
    <3>2. pub'[n] = c /\ Board!IsAncestor(c, c) /\ c # None
      BY <2>1, <2>2, <3>1, AncestorSelf
    <3>3. QED
      BY <2>2, <2>3, <3>1, <3>2 DEF IsPublished, Board!IsAncestor
  <2>4. CASE pc[w] = "push"
    <3>1. mode = "remote" /\ Leave(w, "branch_prepared_pr_not_opened")
      BY <1>0, <1>18, <2>0, <2>4 DEF Push, CallOK, OnItsWay, TypeOK
    <3>2. Left(w, "branch_prepared_pr_not_opened", botched[w])
      BY <1>0, <3>1, LeaveFacts DEF Leave
    <3>3. IsPublished(name[w], made[w])'
      BY <2>3, <3>2 DEF Left, Same
    <3>4. QED
      BY <1>0, <2>2, <2>4, <3>1, <3>3, LeavesPrepared DEF Leave
  <2>5. CASE pc[w] = "push and open"
    <3>1. Went(w, "pr")
      BY <1>0, <1>18, <2>5, GotoFacts DEF Push
    <3>2. FilesAreAsked(w, t)'
      BY <3>1 DEF FilesAreAsked, Went
    <3>3. OnItsWay(w)' /\ CanGoBack(w)' /\ OnItsBranch(w, t)'
      BY <1>0, <2>0, <2>2, <2>5, <3>1, GoesOnWithBranch DEF Went, Same, CallOK, OnItsWay, OnBranch
    <3>4. IsPublished(name[w], made[w])'
      BY <2>3, <3>1 DEF Went, Same
    <3>5. MadeIsAsked(w)'
      BY <1>0, <2>0, <2>2, <2>5, <3>1, <3>4, MadeStays DEF CallOK, OnItsWay, MadeIsAsked, Went, Same, Prepared
    <3>6. QED
      BY <1>0, <2>0, <2>5, <3>1, <3>2, <3>3, <3>5, OneWorks DEF CallOK, Went, Holding
  <2>6. QED
    BY <2>2, <2>4, <2>5
<1>19. ASSUME NEW w \in Writers, Rejected(w) PROVE CallsAreOrderly'
  BY <1>0, <1>19, LeavesWithNothing DEF Rejected, Leave, Raise, NotPushed, trees, clone, Holding, Prepared
<1>20. ASSUME NEW w \in Writers, Open(w) PROVE CallsAreOrderly'
  <2>0. PICK t \in Trees : t = Tree(w) /\ CallOK(w, t)
    BY <1>0, TreeStays, OrderlyParts
  <2>1. PICK s \in Prepared : Leave(w, s)
    BY <1>20 DEF Open
  <2>2. UNCHANGED <<canon, pub, head, ref>> /\ pc[w] = "pr"
    BY <1>20 DEF Open, board, clone, trees
  <2>3. CASE mode = "local"
    BY <1>0, <2>1, <2>2, <2>3, LeavesWithNothing DEF Leave, Holding
  <2>4. CASE mode = "remote"
    <3>1. Left(w, s, botched[w])
      BY <1>0, <2>1, <2>4, LeaveFacts DEF Leave
    <3>2. IsPublished(name[w], made[w])'
      BY <1>0, <2>0, <2>2, <3>1, MadeStays DEF CallOK, MadeIsAsked, Left, Same
    <3>3. QED
      BY <1>0, <2>1, <2>2, <2>4, <3>2, LeavesPrepared DEF Leave
  <2>5. QED
    BY <1>0, <2>3, <2>4 DEF TypeOK
<1>21. ASSUME NEW w \in Writers, RemoveWorktree(w) PROVE CallsAreOrderly'
  <2>0. mode = "remote" /\ Tree(w) = w /\ CallOK(w, w)
    BY <1>0, <1>21, OrderlyParts DEF RemoveWorktree, CallsAreOrderly, OnItsWay, Tree, TypeOK
  <2>1. Went(w, "delete") /\ UNCHANGED <<canon, pub, ref>> /\ pc[w] = "remove"
    BY <1>0, <1>21, GotoFacts DEF RemoveWorktree, clone, board
  <2>2. head'[w] = "main" /\ \A u \in Trees \ {w} : head'[u] = head[u]
    BY <1>0, <1>21 DEF RemoveWorktree, TypeOK, Trees
  <2>3. FilesAreAsked(w, w)'
    BY <2>1 DEF FilesAreAsked, Went
  <2>4. OnItsWay(w)' /\ CanGoBack(w)'
    BY <1>0, <2>0, <2>1 DEF Went, Same, CallOK, OnItsWay, CanGoBack, Holding
  <2>5. OnItsBranch(w, w)'
    BY <2>0, <2>1, <2>2 DEF Went, Same, CallOK, OnItsBranch, OnBranch
  <2>6. MadeIsAsked(w)'
    BY <1>0, <2>0, <2>1, MadeStays DEF CallOK, MadeIsAsked, Went, Same
  <2>7. QED
    BY <1>0, <2>0, <2>1, <2>3, <2>4, <2>5, <2>6, OneWorks DEF CallOK, Went, Holding
<1>22. ASSUME NEW w \in Writers, DeleteBranch(w) PROVE CallsAreOrderly'
  BY <1>0, <1>22, AnswerIsOver DEF DeleteBranch, Answer, Holding
<1>23. ASSUME NEW w \in Writers, TimeOut(w) PROVE CallsAreOrderly'
  BY <1>0, <1>23, AnswerIsOver DEF TimeOut, Answer, Holding
<1>24. ASSUME NEW w \in Writers, FetchFails(w) PROVE CallsAreOrderly'
  BY <1>0, <1>24, AnswerIsOver DEF FetchFails, Answer, Holding
<1>25. ASSUME NEW w \in Writers, AddWorktreeFails(w) PROVE CallsAreOrderly'
  BY <1>0, <1>25, LeavesWithNothing DEF AddWorktreeFails, Leave, Raise, NotPushed, trees, clone, Holding, Prepared
<1>26. ASSUME NEW w \in Writers, StatusFails(w) PROVE CallsAreOrderly'
  BY <1>0, <1>26, LeavesWithNothing DEF StatusFails, Leave, Raise, NotPushed, trees, clone, Holding, Prepared
<1>27. ASSUME NEW w \in Writers, MakeBranchBlindly(w) PROVE CallsAreOrderly'
  <2>1. PICK b \in {"detached", "unknown"} : SwitchToNew(w, b)
    BY <1>27 DEF MakeBranchBlindly
  <2>2. Rest(w) /\ asked'[w] = asked[w] /\ name'[w] = name[w] /\ outcome'[w] = outcome[w] /\ touched'[w] = touched[w]
        /\ pc'[w] = "write" /\ pc[w] = "branch" /\ botched'[w] = TRUE
    BY <1>0, <1>27, <2>1 DEF MakeBranchBlindly, SwitchToNew, Rest, TypeOK
  <2>3. UNCHANGED <<canon, main, work>>
    BY <1>27 DEF MakeBranchBlindly, board
  <2>4. QED
    BY <1>0, <2>1, <2>2, <2>3, Branches
<1>28. ASSUME NEW w \in Writers, BranchFails(w) PROVE CallsAreOrderly'
  BY <1>0, <1>28, LeavesWithNothing DEF BranchFails, Leave, Raise, NotPushed, trees, clone, Holding, Prepared
<1>29. ASSUME NEW w \in Writers, WriteFails(w) PROVE CallsAreOrderly'
  <2>0. PICK t \in Trees : t = Tree(w) /\ CallOK(w, t)
    BY <1>0, TreeStays, OrderlyParts
  <2>1. Rest(w) /\ Same(w) /\ pc'[w] = "undo" /\ outcome'[w] = "failed" /\ botched'[w] = botched[w]
        /\ UNCHANGED <<canon, ref, main, head, detached>> /\ pc[w] = "write"
    BY <1>0, <1>29, CleanUpFacts DEF WriteFails, clone, board
  <2>2. PICK s \in SUBSET Mine(w) : Written(w, s)
    BY <1>29 DEF WriteFails
  <2>3. work'[t] = [f \in Files |-> IF f \in s THEN "ours" ELSE work[t][f]]
    BY <1>0, <2>0, <2>2 DEF Written, TypeOK
  <2>4. InHead(t)' = InHead(t) /\ Mine(w)' = Mine(w)
    BY <1>0, <2>1, InHeadOnBranch DEF Mine, Same
  <2>5. FilesAreAsked(w, t)'
    BY <2>0, <2>1, <2>3, <2>4 DEF CallOK, FilesAreAsked, Same, AllClean
  <2>6. OnItsWay(w)' /\ CanGoBack(w)' /\ OnItsBranch(w, t)'
    BY <1>0, <2>0, <2>1, GoesOnWithBranch DEF Same, OnBranch
  <2>7. MadeIsAsked(w)'
    BY <2>1 DEF MadeIsAsked, Prepared
  <2>8. QED
    BY <1>0, <2>0, <2>1, <2>5, <2>6, <2>7, OneWorks DEF CallOK, Holding
<1>30. ASSUME NEW w \in Writers, CommitFails(w) PROVE CallsAreOrderly'
  <2>0. PICK t \in Trees : t = Tree(w) /\ CallOK(w, t)
    BY <1>0, TreeStays, OrderlyParts
  <2>1. CASE CleanUp(w) /\ UNCHANGED <<ref, work, commits>>
    <3>1. Rest(w) /\ Same(w) /\ pc'[w] = "undo" /\ outcome'[w] = "failed" /\ botched'[w] = botched[w]
          /\ UNCHANGED <<canon, ref, main, head, detached, work>> /\ pc[w] = "commit"
      BY <1>0, <1>30, <2>1, CleanUpFacts DEF CommitFails, clone, board, trees
    <3>3. InHead(t)' = InHead(t) /\ Mine(w)' = Mine(w)
      BY <1>0, <3>1, InHeadOnBranch DEF Mine, Same
    <3>4. FilesAreAsked(w, t)'
      BY <2>0, <3>1, <3>3 DEF CallOK, FilesAreAsked, Same, AllClean
    <3>5. OnItsWay(w)' /\ CanGoBack(w)' /\ OnItsBranch(w, t)'
      BY <1>0, <2>0, <3>1, GoesOnWithBranch DEF Same, OnBranch
    <3>6. MadeIsAsked(w)'
      BY <3>1 DEF MadeIsAsked, Prepared
    <3>7. QED
      BY <1>0, <2>0, <3>1, <3>4, <3>5, <3>6, OneWorks DEF CallOK, Holding
  <2>2. CASE Raise(w) /\ UNCHANGED <<ref, work, commits>>
    BY <1>0, <1>30, <2>2, LeavesWithNothing DEF CommitFails, Raise, Leave, Holding, Prepared
  <2>3. CASE Raise(w) /\ Committed(w)
    <3>1. \A n \in Names \ {name[w]} : ref'[n] = ref[n]
      BY <1>0, <1>30, <2>3, CommittedFacts DEF CommitFails
    <3>2. QED
      BY <1>0, <1>30, <2>3, <3>1, LeavesWithNothing DEF CommitFails, Raise, Leave, Holding, Prepared
  <2>4. QED
    BY <1>30, <2>1, <2>2, <2>3 DEF CommitFails
<1>31. ASSUME NEW w \in Writers, UndoFails(w) PROVE CallsAreOrderly'
  <2>0. PICK t \in Trees : t = Tree(w) /\ CallOK(w, t)
    BY <1>0, TreeStays, OrderlyParts
  <2>1. UNCHANGED <<canon, pub, ref, head, work>> /\ pc[w] \in {"undo", "back", "drop"}
    BY <1>31 DEF UndoFails, clone, board, trees
  <2>2. CASE Raise(w) \/ LeaveAfter(w, "failed", TRUE)
    BY <1>0, <2>1, <2>2, LeavesWithNothing DEF Raise, Leave, Holding, Prepared
  <2>3. CASE /\ pc[w] # "drop"
             /\ pc' = [pc EXCEPT ![w] = IF @ = "undo" THEN "back" ELSE "drop"]
             /\ botched' = [botched EXCEPT ![w] = TRUE]
             /\ UNCHANGED <<lock, asked, name, before, made, outcome, touched, reply>>
    <3>1. Rest(w) /\ Same(w) /\ outcome'[w] = outcome[w] /\ botched'[w] = TRUE
      BY <1>0, <2>3 DEF Rest, Same, TypeOK
    <3>2. (pc[w] = "undo" /\ pc'[w] = "back") \/ (pc[w] = "back" /\ pc'[w] = "drop")
      BY <1>0, <2>1, <2>3 DEF TypeOK
    <3>3. FilesAreAsked(w, t)'
      BY <3>1, <3>2 DEF FilesAreAsked
    <3>4. OnItsWay(w)' /\ CanGoBack(w)'
      BY <1>0, <2>0, <2>1, <3>1, <3>2 DEF Same, CallOK, OnItsWay, CanGoBack, Holding, OnBranch
    <3>5. OnItsBranch(w, t)'
      BY <2>0, <2>1, <3>1, <3>2 DEF Same, CallOK, OnItsBranch, OnBranch
    <3>6. MadeIsAsked(w)'
      BY <2>0, <3>1, <3>2 DEF CallOK, OnItsWay, MadeIsAsked, Prepared
    <3>7. QED
      BY <1>0, <2>0, <3>1, <3>2, <3>3, <3>4, <3>5, <3>6, OneWorks DEF CallOK, Holding
  <2>4. QED
    BY <1>31, <2>2, <2>3 DEF UndoFails
<1>32. ASSUME NEW w \in Writers, PushFails(w) PROVE CallsAreOrderly'
  <2>1. UNCHANGED <<head, ref>> /\ pc[w] \in {"push", "push and open"}
    BY <1>32 DEF PushFails, trees, clone
  <2>2. CASE NotPushed(w)
    BY <1>0, <2>1, <2>2, LeavesWithNothing DEF NotPushed, Leave, Holding, Prepared
  <2>3. CASE Raise(w)
    BY <1>0, <2>1, <2>3, LeavesWithNothing DEF Raise, Leave, Holding, Prepared
  <2>4. QED
    BY <1>32, <2>2, <2>3 DEF PushFails
<1>33. ASSUME NEW w \in Writers, GhFails(w) PROVE CallsAreOrderly'
  BY <1>0, <1>33, LeavesWithNothing DEF GhFails, Leave, Raise, NotPushed, trees, clone, Holding, Prepared
<1>34. ASSUME NEW w \in Writers, RemoveFails(w) PROVE CallsAreOrderly'
  <2>0. mode = "remote" /\ Tree(w) = w /\ CallOK(w, w)
    BY <1>0, <1>34, OrderlyParts DEF RemoveFails, CallsAreOrderly, OnItsWay, Tree, TypeOK
  <2>1. UNCHANGED <<canon, pub, ref, head>> /\ pc[w] \in {"remove", "delete"}
    BY <1>34 DEF RemoveFails, clone, board, trees
  <2>2. CASE Answer(w, "raised") \/ AnswerAfter(w, outcome[w], TRUE)
    BY <1>0, <2>1, <2>2, AnswerIsOver DEF Answer, Holding
  <2>3. CASE /\ pc[w] = "remove"
             /\ pc' = [pc EXCEPT ![w] = "delete"]
             /\ botched' = [botched EXCEPT ![w] = TRUE]
             /\ UNCHANGED <<lock, asked, name, before, made, outcome, touched, reply>>
    <3>1. Rest(w) /\ Same(w) /\ outcome'[w] = outcome[w] /\ botched'[w] = TRUE /\ pc'[w] = "delete"
      BY <1>0, <2>3 DEF Rest, Same, TypeOK
    <3>2. FilesAreAsked(w, w)'
      BY <3>1 DEF FilesAreAsked
    <3>3. OnItsWay(w)' /\ CanGoBack(w)'
      BY <1>0, <2>0, <2>1, <2>3, <3>1 DEF Same, CallOK, OnItsWay, CanGoBack, Holding
    <3>4. OnItsBranch(w, w)'
      BY <2>0, <2>1, <2>3, <3>1 DEF Same, CallOK, OnItsBranch, OnBranch
    <3>5. MadeIsAsked(w)'
      BY <1>0, <2>0, <2>1, <2>3, <3>1, MadeStays DEF CallOK, MadeIsAsked, Same
    <3>6. QED
      BY <1>0, <2>0, <2>3, <3>1, <3>2, <3>3, <3>4, <3>5, OneWorks DEF CallOK, Holding
  <2>4. QED
    BY <1>34, <2>2, <2>3 DEF RemoveFails
<1>35. ASSUME NEW w \in Writers, Crash(w) PROVE CallsAreOrderly'
  <2>1. Rest(w) /\ Fresh(w)' /\ pc'[w] \notin Holding
    BY <1>0, <1>35 DEF Crash, Forget, Fresh, Rest, TypeOK, Holding
  <2>2. QED
    BY <1>0, <1>35, <2>1, StepsAside DEF Crash
<1>36. ASSUME NEW w \in Writers, Restart(w) PROVE CallsAreOrderly'
  <2>1. Fresh(w) /\ Rest(w) /\ Fresh(w)' /\ pc'[w] \notin Holding
    BY <1>0, <1>36, IdleIsFresh DEF Restart, Fresh, Rest, call, TypeOK, Holding
  <2>2. QED
    BY <1>0, <1>36, <2>1, StepsAside DEF Restart
<1>37. CASE Review
  <2>1. UNCHANGED <<mode, ref, main, head, detached, work, pc, asked, name, before, made, outcome, botched, touched>>
    BY <1>37 DEF Review, clone, trees, call
  <2>2. Grows
    BY <1>0, BoardGrows
  <2>3. Alone'
    BY <1>0, <2>1 DEF CallsAreOrderly, Alone
  <2>4. ASSUME NEW w \in Writers, NEW t \in {Tree(w)'} PROVE CallOK(w, t)'
    <3>1. t \in Trees /\ CallOK(w, t)
      BY <1>0, <2>4, TreeStays, OrderlyParts
    <3>2. OnItsWay(w)' /\ CanGoBack(w)' /\ OnItsBranch(w, t)'
      BY <2>1, <3>1 DEF CallOK, OnItsWay, CanGoBack, OnItsBranch
    <3>3. InHead(t)' = InHead(t)
      <4>1. HeadCommit(t)' = HeadCommit(t)
        BY <2>1 DEF HeadCommit, CommitAt
      <4>2. HeadCommit(t) \in Board!Commit /\ Past(HeadCommit(t))
        BY <1>0, <3>1, HeadTypes, HeadPast DEF Past
      <4>3. QED
        BY <1>0, <2>2, <4>1, <4>2, InHeadStays
    <3>4. FilesAreAsked(w, t)'
      BY <2>1, <3>1, <3>3 DEF CallOK, FilesAreAsked, Mine, AllClean
    <3>5. PICK c \in Board!Commit, n \in Names, a \in Asked :
             /\ c = made[w] /\ c = made'[w] /\ n = name[w] /\ n = name'[w]
             /\ a = asked[w] /\ a = asked'[w] /\ Past(c)
      BY <1>0, <2>1 DEF TypeOK, CommitsArePast
    <3>6. IsAsked(c, a) => IsAsked(made[w], asked[w])'
      <4>1. IsAsked(c, a) => IsAsked(c, a)'
        BY <1>0, <2>2, <3>5, AskedStays
      <4>2. QED
        BY <3>5, <4>1, MadeArgs
    <3>7. IsPublished(n, c) => IsPublished(name[w], made[w])'
      <4>1. IsPublished(n, c) => IsPublished(n, c)'
        BY <1>0, <2>2, <3>5, PublishedStays, BoardGrows
      <4>2. QED
        BY <3>5, <4>1 DEF IsPublished, Board!IsAncestor
    <3>8. MadeIsAsked(w)'
      BY <2>1, <3>1, <3>5, <3>6, <3>7 DEF CallOK, MadeIsAsked
    <3>9. QED
      BY <3>2, <3>4, <3>8 DEF CallOK
  <2>5. QED
    BY <2>3, <2>4, OrderlyParts
<1>38. CASE UserMoves
  <2>1. \A w \in Writers : pc[w] \notin Holding
    BY <1>38 DEF UserMoves, Idle, Holding
  <2>2. UNCHANGED <<mode, pc, call>>
    BY <1>38 DEF UserMoves, UserActs
  <2>3. \A w \in Writers : Fresh(w)'
    BY <1>0, <2>1, <2>2, IdleIsFresh DEF Fresh, call
  <2>4. Alone'
    BY <2>1, <2>2 DEF Alone
  <2>5. QED
    BY <2>3, <2>4, FreshIsOK, OrderlyParts
<1>39. ASSUME NEW f \in Files, NEW k \in {"clean", "edited", "staged"}, UserWrites(f, k) PROVE CallsAreOrderly'
  <2>1. /\ UNCHANGED <<mode, canon, pub, ref, head, detached, pc, asked, name, before, made, outcome, botched>>
        /\ mode = "local" /\ touched' = [w \in Writers |-> ~Idle(w)]
    BY <1>39 DEF UserWrites, UserActs, board, clone
  <2>2. Alone'
    BY <1>0, <2>1 DEF CallsAreOrderly, Alone
  <2>3. ASSUME NEW w \in Writers, NEW t \in {Tree(w)'} PROVE CallOK(w, t)'
    <3>1. t \in Trees /\ CallOK(w, t)
      BY <1>0, <2>3, TreeStays, OrderlyParts
    <3>2. CASE pc[w] \in Holding
      <4>1. touched'[w] = TRUE
        BY <2>1, <3>2 DEF Idle, Holding
      <4>2. OnItsWay(w)' /\ CanGoBack(w)' /\ OnItsBranch(w, t)'
        BY <2>1, <3>1 DEF CallOK, OnItsWay, CanGoBack, OnItsBranch
      <4>3. FilesAreAsked(w, t)'
        BY <4>1 DEF FilesAreAsked
      <4>4. MadeIsAsked(w)'
        BY <1>0, <2>1, <3>1, <4>1, MadeStays DEF CallOK, MadeIsAsked
      <4>5. QED
        BY <4>2, <4>3, <4>4 DEF CallOK
    <3>3. CASE pc[w] \notin Holding
      BY <1>0, <2>1, <3>3, IdleIsFresh, FreshIsOK DEF Fresh
    <3>4. QED
      BY <3>2, <3>3
  <2>4. QED
    BY <2>2, <2>3, OrderlyParts
<1>40. QED
  BY <1>1, <1>2, <1>3, <1>4, <1>5, <1>6, <1>7, <1>8, <1>9, <1>10, <1>11, <1>12, <1>13, <1>14, <1>15, <1>16, <1>17, <1>18, <1>19, <1>20, <1>21, <1>22, <1>23, <1>24, <1>25, <1>26, <1>27, <1>28, <1>29, <1>30, <1>31, <1>32, <1>33, <1>34, <1>35, <1>36, <1>37, <1>38, <1>39
  DEF Next, Step, StepFails

(***************************************************************************)
(* The branches that are checked out, the lock, and the answers.           *)
(***************************************************************************)
\* Where neither the checkouts nor the branches change, the heads exist still.
LEMMA SameHeads ==
  ASSUME HeadsExist, mode' = mode, UNCHANGED <<ref, head>>
  PROVE  HeadsExist'
  BY DEF HeadsExist

\* Every step leaves the branches that are checked out.
LEMMA HeadsStep ==
  ASSUME TypeOK, HeadsExist, CallsAreOrderly, CommitsArePast, [Next]_vars
  PROVE  HeadsExist'
<1>0. TypeOK /\ HeadsExist /\ CallsAreOrderly /\ CommitsArePast /\ mode' = mode
  BY BoardStep DEF BoardMoves
<1>1. CASE UNCHANGED vars
  BY <1>0, <1>1, SameHeads DEF vars, clone, trees
<1>2. ASSUME NEW w \in Writers, NEW r \in Requests, Request(w, r[1], r[2]) PROVE HeadsExist'
  BY <1>0, <1>2, SameHeads DEF Request, clone, trees
<1>3. ASSUME NEW w \in Writers, Acquire(w) PROVE HeadsExist'
  BY <1>0, <1>3, SameHeads DEF Acquire, clone, trees
<1>4. ASSUME NEW w \in Writers, Reclaim(w) PROVE HeadsExist'
  BY <1>0, <1>4, SameHeads DEF Reclaim, clone, trees
<1>5. ASSUME NEW w \in Writers, Exists(w) PROVE HeadsExist'
  BY <1>0, <1>5, SameHeads DEF Exists, clone, trees
<1>6. ASSUME NEW w \in Writers, Fetch(w) PROVE HeadsExist'
  BY <1>0, <1>6, SameHeads DEF Fetch, trees
<1>7. ASSUME NEW w \in Writers, AddWorktree(w) PROVE HeadsExist'
  <2>1. mode = "remote"
    BY <1>0, <1>7, OrderlyParts DEF AddWorktree, CallsAreOrderly, OnItsWay, TypeOK
  <2>2. head' = [head EXCEPT ![w] = "detached"] /\ UNCHANGED <<mode, ref>>
    BY <1>7 DEF AddWorktree, clone
  <2>3. QED
    BY <1>0, <2>1, <2>2 DEF HeadsExist, TypeOK
<1>8. ASSUME NEW w \in Writers, Status(w) PROVE HeadsExist'
  BY <1>0, <1>8, SameHeads DEF Status, clone, trees
<1>9. ASSUME NEW w \in Writers, Validate(w) PROVE HeadsExist'
  BY <1>0, <1>9, SameHeads DEF Validate, clone, trees
<1>10. ASSUME NEW w \in Writers, MakeBranch(w) PROVE HeadsExist'
  <2>1. PICK b : SwitchToNew(w, b)
    BY <1>10 DEF MakeBranch
  <2>2. PICK t \in Trees : t = Tree(w) /\ (mode = "local" => t = "workspace")
    BY DEF Tree, Trees
  <2>3. HeadCommit(t) # None /\ name[w] \in Names
    BY <1>0, HeadTypes DEF TypeOK
  <2>4. ref' = [ref EXCEPT ![name[w]] = HeadCommit(t)] /\ head' = [head EXCEPT ![t] = name[w]] /\ mode' = mode
    BY <1>0, <2>1, <2>2 DEF SwitchToNew
  <2>5. QED
    BY <1>0, <2>2, <2>3, <2>4 DEF HeadsExist, TypeOK
<1>11. ASSUME NEW w \in Writers, Write(w) PROVE HeadsExist'
  BY <1>0, <1>11, SameHeads DEF Write, clone
<1>12. ASSUME NEW w \in Writers, MakeCommit(w) PROVE HeadsExist'
  <2>1. Committed(w)
    BY <1>12 DEF MakeCommit
  <2>2. ref'[name[w]] # None /\ \A n \in Names \ {name[w]} : ref'[n] = ref[n]
    BY <1>0, <1>12, <2>1, CommittedFacts DEF MakeCommit
  <2>3. QED
    BY <1>0, <1>12, <2>2 DEF MakeCommit, HeadsExist
<1>13. ASSUME NEW w \in Writers, NothingToCommit(w) PROVE HeadsExist'
  BY <1>0, <1>13, SameHeads DEF NothingToCommit, clone, trees
<1>14. ASSUME NEW w \in Writers, UndoReset(w) PROVE HeadsExist'
  BY <1>0, <1>14, SameHeads DEF UndoReset, clone
<1>15. ASSUME NEW w \in Writers, UndoSwitch(w) PROVE HeadsExist'
  <2>1. PICK t \in Trees : t = Tree(w) /\ (mode = "local" => t = "workspace") /\ CanGoBack(w)
    BY <1>0 DEF Tree, Trees, CallsAreOrderly
  <2>2. UNCHANGED <<mode, ref>> /\ head' = [head EXCEPT ![t] = IF before[w] = "unknown" THEN @ ELSE before[w]]
    BY <1>15, <2>1 DEF UndoSwitch, clone
  <2>3. QED
    BY <1>0, <2>1, <2>2 DEF HeadsExist, TypeOK, CanGoBack
<1>16. ASSUME NEW w \in Writers, UndoBranch(w) PROVE HeadsExist'
  <2>1. UNCHANGED <<mode, head>> /\ Deleted(w)
    BY <1>16 DEF UndoBranch, trees
  <2>2. QED
    BY <1>0, <2>1 DEF Deleted, HeadsExist, TypeOK
<1>17. ASSUME NEW w \in Writers, Authenticate(w) PROVE HeadsExist'
  BY <1>0, <1>17, SameHeads DEF Authenticate, clone, trees
<1>18. ASSUME NEW w \in Writers, Push(w) PROVE HeadsExist'
  BY <1>0, <1>18, SameHeads DEF Push, clone, trees
<1>19. ASSUME NEW w \in Writers, Rejected(w) PROVE HeadsExist'
  BY <1>0, <1>19, SameHeads DEF Rejected, clone, trees
<1>20. ASSUME NEW w \in Writers, Open(w) PROVE HeadsExist'
  BY <1>0, <1>20, SameHeads DEF Open, clone, trees
<1>21. ASSUME NEW w \in Writers, RemoveWorktree(w) PROVE HeadsExist'
  <2>1. mode = "remote"
    BY <1>0, <1>21, OrderlyParts DEF RemoveWorktree, CallsAreOrderly, OnItsWay, TypeOK
  <2>2. head' = [head EXCEPT ![w] = "main"] /\ UNCHANGED <<mode, ref>>
    BY <1>21 DEF RemoveWorktree, clone
  <2>3. QED
    BY <1>0, <2>1, <2>2 DEF HeadsExist, TypeOK
<1>22. ASSUME NEW w \in Writers, DeleteBranch(w) PROVE HeadsExist'
  <2>1. UNCHANGED <<mode, head>> /\ Deleted(w)
    BY <1>22 DEF DeleteBranch, trees
  <2>2. QED
    BY <1>0, <2>1 DEF Deleted, HeadsExist, TypeOK
<1>23. ASSUME NEW w \in Writers, TimeOut(w) PROVE HeadsExist'
  BY <1>0, <1>23, SameHeads DEF TimeOut, clone, trees
<1>24. ASSUME NEW w \in Writers, FetchFails(w) PROVE HeadsExist'
  BY <1>0, <1>24, SameHeads DEF FetchFails, trees
<1>25. ASSUME NEW w \in Writers, AddWorktreeFails(w) PROVE HeadsExist'
  BY <1>0, <1>25, SameHeads DEF AddWorktreeFails, clone, trees
<1>26. ASSUME NEW w \in Writers, StatusFails(w) PROVE HeadsExist'
  BY <1>0, <1>26, SameHeads DEF StatusFails, clone, trees
<1>27. ASSUME NEW w \in Writers, MakeBranchBlindly(w) PROVE HeadsExist'
  <2>1. PICK b : SwitchToNew(w, b)
    BY <1>27 DEF MakeBranchBlindly
  <2>2. PICK t \in Trees : t = Tree(w) /\ (mode = "local" => t = "workspace")
    BY DEF Tree, Trees
  <2>3. HeadCommit(t) # None /\ name[w] \in Names
    BY <1>0, HeadTypes DEF TypeOK
  <2>4. ref' = [ref EXCEPT ![name[w]] = HeadCommit(t)] /\ head' = [head EXCEPT ![t] = name[w]] /\ mode' = mode
    BY <1>0, <2>1, <2>2 DEF SwitchToNew
  <2>5. QED
    BY <1>0, <2>2, <2>3, <2>4 DEF HeadsExist, TypeOK
<1>28. ASSUME NEW w \in Writers, BranchFails(w) PROVE HeadsExist'
  BY <1>0, <1>28, SameHeads DEF BranchFails, clone, trees
<1>29. ASSUME NEW w \in Writers, WriteFails(w) PROVE HeadsExist'
  BY <1>0, <1>29, SameHeads DEF WriteFails, clone
<1>30. ASSUME NEW w \in Writers, CommitFails(w) PROVE HeadsExist'
  <2>1. CASE Committed(w)
    <3>1. ref'[name[w]] # None /\ \A n \in Names \ {name[w]} : ref'[n] = ref[n]
      BY <1>0, <1>30, <2>1, CommittedFacts DEF CommitFails
    <3>2. QED
      BY <1>0, <1>30, <3>1 DEF CommitFails, HeadsExist
  <2>2. CASE UNCHANGED <<ref, work, commits>>
    BY <1>0, <1>30, <2>2, SameHeads DEF CommitFails
  <2>3. QED
    BY <1>30, <2>1, <2>2 DEF CommitFails
<1>31. ASSUME NEW w \in Writers, UndoFails(w) PROVE HeadsExist'
  BY <1>0, <1>31, SameHeads DEF UndoFails, clone, trees
<1>32. ASSUME NEW w \in Writers, PushFails(w) PROVE HeadsExist'
  BY <1>0, <1>32, SameHeads DEF PushFails, clone, trees
<1>33. ASSUME NEW w \in Writers, GhFails(w) PROVE HeadsExist'
  BY <1>0, <1>33, SameHeads DEF GhFails, clone, trees
<1>34. ASSUME NEW w \in Writers, RemoveFails(w) PROVE HeadsExist'
  BY <1>0, <1>34, SameHeads DEF RemoveFails, clone, trees
<1>35. ASSUME NEW w \in Writers, Crash(w) PROVE HeadsExist'
  BY <1>0, <1>35, SameHeads DEF Crash, clone, trees
<1>36. ASSUME NEW w \in Writers, Restart(w) PROVE HeadsExist'
  BY <1>0, <1>36, SameHeads DEF Restart, clone, trees
<1>37. CASE Review
  BY <1>0, <1>37, SameHeads DEF Review, clone, trees
<1>38. CASE UserMoves
  <2>0. mode = "local" /\ mode' = mode /\ "workspace" \in Trees
    BY <1>38 DEF UserMoves, UserActs, Trees
  <2>1. CASE UNCHANGED <<ref, head>>
    BY <1>0, <2>0, <2>1, SameHeads
  <2>2. ASSUME NEW h \in {"main"} \cup {n \in Names : ref[n] # None}, head' = [head EXCEPT !["workspace"] = h],
               UNCHANGED clone
        PROVE  HeadsExist'
    BY <1>0, <2>0, <2>2 DEF HeadsExist, TypeOK, clone, Trees
  <2>3. ASSUME NEW n \in Names \ {head["workspace"]}, ref' = [ref EXCEPT ![n] = None], UNCHANGED head
        PROVE  HeadsExist'
    <3>1. \A t \in Trees : head[t] # n
      BY <1>0, <2>0, <2>3 DEF HeadsExist, Trees
    <3>2. QED
      BY <1>0, <2>0, <2>3, <3>1 DEF HeadsExist, TypeOK
  <2>4. QED
    BY <1>38, <2>1, <2>2, <2>3 DEF UserMoves
<1>39. ASSUME NEW f \in Files, NEW k \in {"clean", "edited", "staged"}, UserWrites(f, k) PROVE HeadsExist'
  BY <1>0, <1>39, SameHeads DEF UserWrites, clone
<1>40. QED
  BY <1>1, <1>2, <1>3, <1>4, <1>5, <1>6, <1>7, <1>8, <1>9, <1>10, <1>11, <1>12, <1>13, <1>14, <1>15, <1>16, <1>17, <1>18, <1>19, <1>20, <1>21, <1>22, <1>23, <1>24, <1>25, <1>26, <1>27, <1>28, <1>29, <1>30, <1>31, <1>32, <1>33, <1>34, <1>35, <1>36, <1>37, <1>38, <1>39
  DEF Next, Step, StepFails

\* A call that answers releases the lock.
LEMMA LockAnswer ==
  ASSUME TypeOK, LockHeldInside, mode' = mode, NEW w \in Writers, NEW s, NEW b, AnswerAfter(w, s, b)
  PROVE  LockHeldInside'
  BY DEF TypeOK, LockHeldInside, AnswerAfter, LockReleased, Holding

\* A call that goes on keeps it.
LEMMA LockStays ==
  ASSUME TypeOK, LockHeldInside, mode' = mode, NEW w \in Writers, pc[w] \in Holding, UNCHANGED lock,
         NEW l \in Holding, pc' = [pc EXCEPT ![w] = l]
  PROVE  LockHeldInside'
  BY DEF TypeOK, LockHeldInside

\* So does one that goes to its next step,
LEMMA LockGoto ==
  ASSUME TypeOK, LockHeldInside, mode' = mode, NEW w \in Writers, pc[w] \in Holding,
         NEW l \in Holding, Goto(w, l)
  PROVE  LockHeldInside'
  BY LockStays DEF Goto

\* and one that has decided on its answer does either.
LEMMA LockLeave ==
  ASSUME TypeOK, LockHeldInside, mode' = mode, NEW w \in Writers, pc[w] \in Holding, NEW s, NEW b, LeaveAfter(w, s, b)
  PROVE  LockHeldInside'
  BY LockAnswer, LockStays DEF LeaveAfter, Holding

\* Every step that begins or ends a call's work takes or releases the lock.
LEMMA LockStep ==
  ASSUME TypeOK, HeadsExist, CallsAreOrderly, CommitsArePast, LockHeldInside, [Next]_vars
  PROVE  LockHeldInside'
<1>0. TypeOK /\ LockHeldInside /\ mode' = mode
  BY BoardStep DEF BoardMoves
<1>1. CASE UNCHANGED vars
  BY <1>0, <1>1 DEF vars, LockHeldInside
<1>2. ASSUME NEW w \in Writers, NEW r \in Requests, Request(w, r[1], r[2]) PROVE LockHeldInside'
  BY <1>0, <1>2 DEF Request, LockHeldInside, TypeOK, Holding
<1>3. ASSUME NEW w \in Writers, Acquire(w) PROVE LockHeldInside'
  BY <1>0, <1>3 DEF Acquire, LockHeldInside, TypeOK, Holding
<1>4. ASSUME NEW w \in Writers, Reclaim(w) PROVE LockHeldInside'
  BY <1>0, <1>4 DEF Reclaim, LockHeldInside, TypeOK, Holding
<1>5. ASSUME NEW w \in Writers, Exists(w) PROVE LockHeldInside'
  BY <1>0, <1>5, LockAnswer, LockLeave, LockGoto DEF Exists, Answer, Leave, Holding
<1>6. ASSUME NEW w \in Writers, Fetch(w) PROVE LockHeldInside'
  BY <1>0, <1>6, LockAnswer, LockLeave, LockGoto DEF Fetch, Answer, Leave, Holding
<1>7. ASSUME NEW w \in Writers, AddWorktree(w) PROVE LockHeldInside'
  BY <1>0, <1>7, LockAnswer, LockLeave, LockGoto DEF AddWorktree, Answer, Leave, Holding
<1>8. ASSUME NEW w \in Writers, Status(w) PROVE LockHeldInside'
  BY <1>0, <1>8, LockAnswer, LockLeave, LockGoto DEF Status, Answer, Leave, Holding
<1>9. ASSUME NEW w \in Writers, Validate(w) PROVE LockHeldInside'
  BY <1>0, <1>9, LockAnswer, LockLeave, LockGoto DEF Validate, Answer, Leave, Holding
<1>10. ASSUME NEW w \in Writers, MakeBranch(w) PROVE LockHeldInside'
  BY <1>0, <1>10, LockStays DEF MakeBranch, Holding
<1>11. ASSUME NEW w \in Writers, Write(w) PROVE LockHeldInside'
  BY <1>0, <1>11, LockAnswer, LockLeave, LockGoto DEF Write, Answer, Leave, Holding
<1>12. ASSUME NEW w \in Writers, MakeCommit(w) PROVE LockHeldInside'
  BY <1>0, <1>12, LockStays DEF MakeCommit, Holding
<1>13. ASSUME NEW w \in Writers, NothingToCommit(w) PROVE LockHeldInside'
  BY <1>0, <1>13, LockStays DEF NothingToCommit, CleanUp, Holding
<1>14. ASSUME NEW w \in Writers, UndoReset(w) PROVE LockHeldInside'
  BY <1>0, <1>14, LockAnswer, LockLeave, LockGoto DEF UndoReset, Answer, Leave, Holding
<1>15. ASSUME NEW w \in Writers, UndoSwitch(w) PROVE LockHeldInside'
  BY <1>0, <1>15, LockAnswer, LockLeave, LockGoto DEF UndoSwitch, Answer, Leave, Holding
<1>16. ASSUME NEW w \in Writers, UndoBranch(w) PROVE LockHeldInside'
  BY <1>0, <1>16, LockAnswer, LockLeave, LockGoto, LockStays DEF UndoBranch, Answer, Leave, Raise, CleanUp, Holding
<1>17. ASSUME NEW w \in Writers, Authenticate(w) PROVE LockHeldInside'
  BY <1>0, <1>17, LockAnswer, LockLeave, LockGoto DEF Authenticate, Answer, Leave, Holding
<1>18. ASSUME NEW w \in Writers, Push(w) PROVE LockHeldInside'
  BY <1>0, <1>18, LockAnswer, LockLeave, LockGoto DEF Push, Answer, Leave, Holding
<1>19. ASSUME NEW w \in Writers, Rejected(w) PROVE LockHeldInside'
  BY <1>0, <1>19, LockLeave DEF Rejected, NotPushed, Leave, Holding
<1>20. ASSUME NEW w \in Writers, Open(w) PROVE LockHeldInside'
  BY <1>0, <1>20, LockAnswer, LockLeave, LockGoto, LockStays DEF Open, Answer, Leave, Raise, CleanUp, Holding
<1>21. ASSUME NEW w \in Writers, RemoveWorktree(w) PROVE LockHeldInside'
  BY <1>0, <1>21, LockAnswer, LockLeave, LockGoto DEF RemoveWorktree, Answer, Leave, Holding
<1>22. ASSUME NEW w \in Writers, DeleteBranch(w) PROVE LockHeldInside'
  BY <1>0, <1>22, LockAnswer, LockLeave, LockGoto, LockStays DEF DeleteBranch, Answer, Leave, Raise, CleanUp, Holding
<1>23. ASSUME NEW w \in Writers, TimeOut(w) PROVE LockHeldInside'
  BY <1>0, <1>23, LockAnswer, LockLeave, LockGoto, LockStays DEF TimeOut, Answer, Leave, Raise, CleanUp, Holding
<1>24. ASSUME NEW w \in Writers, FetchFails(w) PROVE LockHeldInside'
  BY <1>0, <1>24, LockAnswer, LockLeave, LockGoto, LockStays DEF FetchFails, Answer, Leave, Raise, CleanUp, Holding
<1>25. ASSUME NEW w \in Writers, AddWorktreeFails(w) PROVE LockHeldInside'
  BY <1>0, <1>25, LockAnswer, LockLeave, LockGoto, LockStays DEF AddWorktreeFails, Answer, Leave, Raise, CleanUp, Holding
<1>26. ASSUME NEW w \in Writers, StatusFails(w) PROVE LockHeldInside'
  BY <1>0, <1>26, LockAnswer, LockLeave, LockGoto, LockStays DEF StatusFails, Answer, Leave, Raise, CleanUp, Holding
<1>27. ASSUME NEW w \in Writers, MakeBranchBlindly(w) PROVE LockHeldInside'
  BY <1>0, <1>27, LockStays DEF MakeBranchBlindly, Holding
<1>28. ASSUME NEW w \in Writers, BranchFails(w) PROVE LockHeldInside'
  BY <1>0, <1>28, LockAnswer, LockLeave, LockGoto, LockStays DEF BranchFails, Answer, Leave, Raise, CleanUp, Holding
<1>29. ASSUME NEW w \in Writers, WriteFails(w) PROVE LockHeldInside'
  BY <1>0, <1>29, LockStays DEF WriteFails, CleanUp, Holding
<1>30. ASSUME NEW w \in Writers, CommitFails(w) PROVE LockHeldInside'
  <2>1. CASE CleanUp(w)
    BY <1>0, <1>30, <2>1, LockStays DEF CommitFails, CleanUp, Holding
  <2>2. CASE Raise(w)
    BY <1>0, <1>30, <2>2, LockLeave DEF CommitFails, Raise, Leave, Holding
  <2>3. QED
    BY <1>30, <2>1, <2>2 DEF CommitFails
<1>31. ASSUME NEW w \in Writers, UndoFails(w) PROVE LockHeldInside'
  <2>1. CASE pc' = [pc EXCEPT ![w] = IF @ = "undo" THEN "back" ELSE "drop"] /\ UNCHANGED <<lock, asked, name, before, made, outcome, touched, reply>>
    <3>1. PICK l \in Holding : pc' = [pc EXCEPT ![w] = l]
      BY <1>0, <1>31, <2>1 DEF Holding, TypeOK
    <3>2. QED
      BY <1>0, <1>31, <2>1, <3>1, LockStays DEF UndoFails, Holding
  <2>2. CASE Raise(w) \/ (\E s, b : LeaveAfter(w, s, b) \/ AnswerAfter(w, s, b))
    BY <1>0, <1>31, <2>2, LockLeave, LockAnswer DEF UndoFails, Raise, Leave, Holding
  <2>3. QED
    BY <1>31, <2>1, <2>2 DEF UndoFails, Answer
<1>32. ASSUME NEW w \in Writers, PushFails(w) PROVE LockHeldInside'
  <2>1. CASE NotPushed(w)
    BY <1>0, <1>32, <2>1, LockLeave DEF PushFails, NotPushed, Leave, Holding
  <2>2. CASE Raise(w)
    BY <1>0, <1>32, <2>2, LockLeave DEF PushFails, Raise, Leave, Holding
  <2>3. QED
    BY <1>32, <2>1, <2>2 DEF PushFails
<1>33. ASSUME NEW w \in Writers, GhFails(w) PROVE LockHeldInside'
  BY <1>0, <1>33, LockAnswer, LockLeave, LockGoto, LockStays DEF GhFails, Answer, Leave, Raise, CleanUp, Holding
<1>34. ASSUME NEW w \in Writers, RemoveFails(w) PROVE LockHeldInside'
  <2>1. CASE pc' = [pc EXCEPT ![w] = "delete"] /\ UNCHANGED <<lock, asked, name, before, made, outcome, touched, reply>>
    <3>1. PICK l \in Holding : pc' = [pc EXCEPT ![w] = l]
      BY <1>0, <1>34, <2>1 DEF Holding, TypeOK
    <3>2. QED
      BY <1>0, <1>34, <2>1, <3>1, LockStays DEF RemoveFails, Holding
  <2>2. CASE Raise(w) \/ (\E s, b : LeaveAfter(w, s, b) \/ AnswerAfter(w, s, b))
    BY <1>0, <1>34, <2>2, LockLeave, LockAnswer DEF RemoveFails, Raise, Leave, Holding
  <2>3. QED
    BY <1>34, <2>1, <2>2 DEF RemoveFails, Answer
<1>35. ASSUME NEW w \in Writers, Crash(w) PROVE LockHeldInside'
  BY <1>0, <1>35 DEF Crash, LockHeldInside, TypeOK, Holding
<1>36. ASSUME NEW w \in Writers, Restart(w) PROVE LockHeldInside'
  BY <1>0, <1>36 DEF Restart, LockHeldInside, TypeOK, Holding
<1>37. CASE Review
  BY <1>0, <1>37 DEF Review, LockHeldInside
<1>38. CASE UserMoves
  BY <1>0, <1>38 DEF UserMoves, LockHeldInside
<1>39. ASSUME NEW f \in Files, NEW k \in {"clean", "edited", "staged"}, UserWrites(f, k) PROVE LockHeldInside'
  BY <1>0, <1>39 DEF UserWrites, LockHeldInside
<1>40. QED
  BY <1>1, <1>2, <1>3, <1>4, <1>5, <1>6, <1>7, <1>8, <1>9, <1>10, <1>11, <1>12, <1>13, <1>14, <1>15, <1>16, <1>17, <1>18, <1>19, <1>20, <1>21, <1>22, <1>23, <1>24, <1>25, <1>26, <1>27, <1>28, <1>29, <1>30, <1>31, <1>32, <1>33, <1>34, <1>35, <1>36, <1>37, <1>38, <1>39
  DEF Next, Step, StepFails

(***************************************************************************)
(* What is answered.                                                       *)
(***************************************************************************)
\* What a call has made is what it may say it has prepared.
IsPrepared(w, s) ==
    /\ ~touched[w] => IsAsked(made[w], asked[w])
    /\ mode = "remote" => Len(made[w].stack) = 1
    /\ mode = "remote" \/ s = "pr_opened" => IsPublished(name[w], made[w])

\* Every answer was given before, prepares nothing, or is of what was made.
RepliesTellTrue ==
    \A w \in Writers :
        \/ reply'[w] = reply[w]
        \/ reply'[w].status \notin Prepared
        \/ /\ IsPrepared(w, reply'[w].status)
           /\ reply'[w].name = name[w] /\ reply'[w].commit = made[w] /\ reply'[w].asked = asked[w]
           /\ reply'[w].touched = touched[w]

\* One that tells the truth does.
LEMMA AnswerTellsTrue ==
  ASSUME TypeOK, NEW w \in Writers, NEW s, s \in Prepared => IsPrepared(w, s), NEW b, AnswerAfter(w, s, b)
  PROVE  RepliesTellTrue
<1>1. Answered(w, s, b)
  BY AnswerFacts, TypeParts
<1>2. QED
  BY <1>1 DEF Answered, Rest, RepliesTellTrue

\* So does a decision, which is an answer in a workspace only.
LEMMA LeaveTellsTrue ==
  ASSUME TypeOK, NEW w \in Writers, NEW s, mode = "local" /\ s \in Prepared => IsPrepared(w, s), NEW b,
         LeaveAfter(w, s, b)
  PROVE  RepliesTellTrue
<1>1. CASE mode = "local"
  BY <1>1, AnswerTellsTrue DEF LeaveAfter
<1>2. CASE mode # "local"
  BY <1>2 DEF LeaveAfter, RepliesTellTrue
<1>3. QED
  BY <1>1, <1>2

\* So does a step that answers nothing.
LEMMA SameTellsTrue ==
  ASSUME UNCHANGED reply
  PROVE  RepliesTellTrue
  BY DEF RepliesTellTrue

\* Every answer tells the truth.
LEMMA ReplyStep ==
  ASSUME TypeOK, HeadsExist, CallsAreOrderly, CommitsArePast, [Next]_vars
  PROVE  RepliesTellTrue
<1>0. TypeOK /\ CallsAreOrderly
  OBVIOUS
<1>1. CASE UNCHANGED vars
  BY <1>1, SameTellsTrue DEF vars
<1>2. ASSUME NEW w \in Writers, NEW r \in Requests, Request(w, r[1], r[2]) PROVE RepliesTellTrue
  BY <1>0, <1>2 DEF Request, RepliesTellTrue, TypeOK, NoReply, Prepared
<1>3. ASSUME NEW w \in Writers, Acquire(w) PROVE RepliesTellTrue
  BY <1>3, SameTellsTrue DEF Acquire
<1>4. ASSUME NEW w \in Writers, Reclaim(w) PROVE RepliesTellTrue
  BY <1>4, SameTellsTrue DEF Reclaim
<1>5. ASSUME NEW w \in Writers, Exists(w) PROVE RepliesTellTrue
  BY <1>0, <1>5, AnswerTellsTrue, LeaveTellsTrue, SameTellsTrue DEF Exists, Answer, Leave, Raise, CleanUp, Goto, Prepared
<1>6. ASSUME NEW w \in Writers, Fetch(w) PROVE RepliesTellTrue
  BY <1>0, <1>6, AnswerTellsTrue, LeaveTellsTrue, SameTellsTrue DEF Fetch, Answer, Leave, Raise, CleanUp, Goto, Prepared
<1>7. ASSUME NEW w \in Writers, AddWorktree(w) PROVE RepliesTellTrue
  BY <1>0, <1>7, AnswerTellsTrue, LeaveTellsTrue, SameTellsTrue DEF AddWorktree, Answer, Leave, Raise, CleanUp, Goto, Prepared
<1>8. ASSUME NEW w \in Writers, Status(w) PROVE RepliesTellTrue
  BY <1>0, <1>8, AnswerTellsTrue, LeaveTellsTrue, SameTellsTrue DEF Status, Answer, Leave, Raise, CleanUp, Goto, Prepared
<1>9. ASSUME NEW w \in Writers, Validate(w) PROVE RepliesTellTrue
  BY <1>0, <1>9, AnswerTellsTrue, LeaveTellsTrue, SameTellsTrue DEF Validate, Answer, Leave, Raise, CleanUp, Goto, Prepared
<1>10. ASSUME NEW w \in Writers, MakeBranch(w) PROVE RepliesTellTrue
  BY <1>10, SameTellsTrue DEF MakeBranch
<1>11. ASSUME NEW w \in Writers, Write(w) PROVE RepliesTellTrue
  BY <1>0, <1>11, AnswerTellsTrue, LeaveTellsTrue, SameTellsTrue DEF Write, Answer, Leave, Raise, CleanUp, Goto, Prepared
<1>12. ASSUME NEW w \in Writers, MakeCommit(w) PROVE RepliesTellTrue
  BY <1>12, SameTellsTrue DEF MakeCommit
<1>13. ASSUME NEW w \in Writers, NothingToCommit(w) PROVE RepliesTellTrue
  BY <1>0, <1>13, AnswerTellsTrue, LeaveTellsTrue, SameTellsTrue DEF NothingToCommit, Answer, Leave, Raise, CleanUp, Goto, Prepared
<1>14. ASSUME NEW w \in Writers, UndoReset(w) PROVE RepliesTellTrue
  BY <1>0, <1>14, AnswerTellsTrue, LeaveTellsTrue, SameTellsTrue DEF UndoReset, Answer, Leave, Raise, CleanUp, Goto, Prepared
<1>15. ASSUME NEW w \in Writers, UndoSwitch(w) PROVE RepliesTellTrue
  BY <1>0, <1>15, AnswerTellsTrue, LeaveTellsTrue, SameTellsTrue DEF UndoSwitch, Answer, Leave, Raise, CleanUp, Goto, Prepared
<1>16. ASSUME NEW w \in Writers, UndoBranch(w) PROVE RepliesTellTrue
  BY <1>0, <1>16, AnswerTellsTrue, LeaveTellsTrue, SameTellsTrue DEF UndoBranch, Answer, Leave, Raise, CleanUp, Goto, Prepared
<1>17. ASSUME NEW w \in Writers, Authenticate(w) PROVE RepliesTellTrue
  <2>1. mode = "local" => IsPrepared(w, "branch_prepared_pr_not_opened")
    BY <1>0, <1>17 DEF Authenticate, CallsAreOrderly, MadeIsAsked, IsPrepared
  <2>2. QED
    BY <1>0, <1>17, <2>1, LeaveTellsTrue, SameTellsTrue DEF Authenticate, Leave, Goto
<1>18. ASSUME NEW w \in Writers, Push(w) PROVE RepliesTellTrue
  <2>1. mode = "local" => IsPrepared(w, "branch_prepared_pr_not_opened")
    BY <1>0, <1>18 DEF Push, CallsAreOrderly, MadeIsAsked, IsPrepared
  <2>2. QED
    BY <1>0, <1>18, <2>1, LeaveTellsTrue, SameTellsTrue DEF Push, Leave, Goto
<1>19. ASSUME NEW w \in Writers, Rejected(w) PROVE RepliesTellTrue
  <2>1. mode = "local" => IsPrepared(w, "branch_prepared_pr_not_opened")
    BY <1>0, <1>19 DEF Rejected, CallsAreOrderly, MadeIsAsked, IsPrepared
  <2>2. CASE NotPushed(w)
    BY <1>0, <2>1, <2>2, LeaveTellsTrue DEF NotPushed, Leave
  <2>3. CASE Raise(w)
    BY <1>0, <2>3, LeaveTellsTrue DEF Raise, Leave, Prepared
  <2>4. QED
    BY <1>19, <2>2, <2>3 DEF Rejected
<1>20. ASSUME NEW w \in Writers, Open(w) PROVE RepliesTellTrue
  <2>1. PICK s \in Prepared : Leave(w, s)
    BY <1>20 DEF Open
  <2>2. mode = "local" => IsPrepared(w, s)
    BY <1>0, <1>20 DEF Open, CallsAreOrderly, MadeIsAsked, IsPrepared
  <2>3. QED
    BY <1>0, <2>1, <2>2, LeaveTellsTrue DEF Leave
<1>21. ASSUME NEW w \in Writers, RemoveWorktree(w) PROVE RepliesTellTrue
  BY <1>0, <1>21, AnswerTellsTrue, LeaveTellsTrue, SameTellsTrue DEF RemoveWorktree, Answer, Leave, Raise, CleanUp, Goto, Prepared
<1>22. ASSUME NEW w \in Writers, DeleteBranch(w) PROVE RepliesTellTrue
  <2>1. outcome[w] \in Prepared => IsPrepared(w, outcome[w])
    BY <1>0 DEF CallsAreOrderly, MadeIsAsked, IsPrepared
  <2>2. QED
    BY <1>0, <1>22, <2>1, AnswerTellsTrue, SameTellsTrue DEF DeleteBranch, Answer, Prepared
<1>23. ASSUME NEW w \in Writers, TimeOut(w) PROVE RepliesTellTrue
  BY <1>0, <1>23, AnswerTellsTrue, LeaveTellsTrue, SameTellsTrue DEF TimeOut, Answer, Leave, Raise, CleanUp, Goto, Prepared
<1>24. ASSUME NEW w \in Writers, FetchFails(w) PROVE RepliesTellTrue
  BY <1>0, <1>24, AnswerTellsTrue, LeaveTellsTrue, SameTellsTrue DEF FetchFails, Answer, Leave, Raise, CleanUp, Goto, Prepared
<1>25. ASSUME NEW w \in Writers, AddWorktreeFails(w) PROVE RepliesTellTrue
  BY <1>0, <1>25, AnswerTellsTrue, LeaveTellsTrue, SameTellsTrue DEF AddWorktreeFails, Answer, Leave, Raise, CleanUp, Goto, Prepared
<1>26. ASSUME NEW w \in Writers, StatusFails(w) PROVE RepliesTellTrue
  BY <1>0, <1>26, AnswerTellsTrue, LeaveTellsTrue, SameTellsTrue DEF StatusFails, Answer, Leave, Raise, CleanUp, Goto, Prepared
<1>27. ASSUME NEW w \in Writers, MakeBranchBlindly(w) PROVE RepliesTellTrue
  BY <1>27, SameTellsTrue DEF MakeBranchBlindly
<1>28. ASSUME NEW w \in Writers, BranchFails(w) PROVE RepliesTellTrue
  BY <1>0, <1>28, AnswerTellsTrue, LeaveTellsTrue, SameTellsTrue DEF BranchFails, Answer, Leave, Raise, CleanUp, Goto, Prepared
<1>29. ASSUME NEW w \in Writers, WriteFails(w) PROVE RepliesTellTrue
  BY <1>0, <1>29, AnswerTellsTrue, LeaveTellsTrue, SameTellsTrue DEF WriteFails, Answer, Leave, Raise, CleanUp, Goto, Prepared
<1>30. ASSUME NEW w \in Writers, CommitFails(w) PROVE RepliesTellTrue
  BY <1>0, <1>30, AnswerTellsTrue, LeaveTellsTrue, SameTellsTrue DEF CommitFails, Answer, Leave, Raise, CleanUp, Goto, Prepared
<1>31. ASSUME NEW w \in Writers, UndoFails(w) PROVE RepliesTellTrue
  BY <1>0, <1>31, AnswerTellsTrue, LeaveTellsTrue, SameTellsTrue DEF UndoFails, Answer, Leave, Raise, CleanUp, Goto, Prepared
<1>32. ASSUME NEW w \in Writers, PushFails(w) PROVE RepliesTellTrue
  <2>1. mode = "local" => IsPrepared(w, "branch_prepared_pr_not_opened")
    BY <1>0, <1>32 DEF PushFails, CallsAreOrderly, MadeIsAsked, IsPrepared
  <2>2. CASE NotPushed(w)
    BY <1>0, <2>1, <2>2, LeaveTellsTrue DEF NotPushed, Leave
  <2>3. CASE Raise(w)
    BY <1>0, <2>3, LeaveTellsTrue DEF Raise, Leave, Prepared
  <2>4. QED
    BY <1>32, <2>2, <2>3 DEF PushFails
<1>33. ASSUME NEW w \in Writers, GhFails(w) PROVE RepliesTellTrue
  BY <1>0, <1>33, AnswerTellsTrue, LeaveTellsTrue, SameTellsTrue DEF GhFails, Answer, Leave, Raise, CleanUp, Goto, Prepared
<1>34. ASSUME NEW w \in Writers, RemoveFails(w) PROVE RepliesTellTrue
  <2>1. outcome[w] \in Prepared => IsPrepared(w, outcome[w])
    BY <1>0 DEF CallsAreOrderly, MadeIsAsked, IsPrepared
  <2>2. QED
    BY <1>0, <1>34, <2>1, AnswerTellsTrue, SameTellsTrue DEF RemoveFails, Answer, Prepared
<1>35. ASSUME NEW w \in Writers, Crash(w) PROVE RepliesTellTrue
  BY <1>0, <1>35 DEF Crash, RepliesTellTrue, TypeOK, NoReply, Prepared
<1>36. ASSUME NEW w \in Writers, Restart(w) PROVE RepliesTellTrue
  BY <1>36, SameTellsTrue DEF Restart
<1>37. CASE Review
  BY <1>37, SameTellsTrue DEF Review
<1>38. CASE UserMoves
  BY <1>38, SameTellsTrue DEF UserMoves
<1>39. ASSUME NEW f \in Files, NEW k \in {"clean", "edited", "staged"}, UserWrites(f, k) PROVE RepliesTellTrue
  BY <1>39, SameTellsTrue DEF UserWrites
<1>40. QED
  BY <1>1, <1>2, <1>3, <1>4, <1>5, <1>6, <1>7, <1>8, <1>9, <1>10, <1>11, <1>12, <1>13, <1>14, <1>15, <1>16, <1>17, <1>18, <1>19, <1>20, <1>21, <1>22, <1>23, <1>24, <1>25, <1>26, <1>27, <1>28, <1>29, <1>30, <1>31, <1>32, <1>33, <1>34, <1>35, <1>36, <1>37, <1>38, <1>39
  DEF Next, Step, StepFails

\* And stays true.
LEMMA PreparedStep ==
  ASSUME TypeOK, TypeOK', HeadsExist, CallsAreOrderly, CommitsArePast, CommitsArePast', PreparedIsAsked, [Next]_vars
  PROVE  PreparedIsAsked'
<1>1. RepliesTellTrue /\ mode' = mode /\ Grows /\ Advances /\ \A n \in Names : pub'[n] # None => Past(pub'[n])
  BY ReplyStep, BoardStep, BoardGrows DEF BoardMoves
<1>2. ASSUME NEW w \in Writers, NEW r, r = reply'[w], r.status \in Prepared
      PROVE  /\ Past(r.commit)'
             /\ ~r.touched => IsAsked(r.commit, r.asked)'
             /\ mode' = "remote" => Len(r.commit.stack) = 1
             /\ mode' = "remote" \/ r.status = "pr_opened" => IsPublished(r.name, r.commit)'
  <2>1. PICK c, n, a, s, u : c = r.commit /\ n = r.name /\ a = r.asked /\ s = r.status /\ u = r.touched
    OBVIOUS
  <2>2. c \in Board!Commit /\ n \in Names /\ c.base <= Len(canon')
    BY <1>2, <2>1 DEF TypeOK, CommitsArePast, Past
  <2>3. /\ c.base <= Len(canon)
        /\ ~u => IsAsked(c, a)
        /\ mode = "remote" => Len(c.stack) = 1
        /\ mode = "remote" \/ s = "pr_opened" => IsPublished(n, c)
    <3>1. CASE reply'[w] = reply[w]
      BY <1>2, <2>1, <3>1 DEF PreparedIsAsked, Past
    <3>2. CASE /\ IsPrepared(w, reply'[w].status)
               /\ reply'[w].name = name[w] /\ reply'[w].commit = made[w] /\ reply'[w].asked = asked[w]
               /\ reply'[w].touched = touched[w]
      BY <1>2, <2>1, <3>2 DEF IsPrepared, CommitsArePast, Past
    <3>3. QED
      BY <1>1, <1>2, <3>1, <3>2 DEF RepliesTellTrue
  <2>4. ~u => IsAsked(c, a)'
    BY <1>1, <2>2, <2>3, AskedStays DEF Past
  <2>5. mode = "remote" \/ s = "pr_opened" => IsPublished(n, c)'
    BY <1>1, <2>2, <2>3, PublishedStays
  <2>6. QED
    BY <1>1, <2>1, <2>2, <2>3, <2>4, <2>5 DEF Past
<1>3. QED
  BY <1>2 DEF PreparedIsAsked

(***************************************************************************)
(* What a failure leaves.                                                  *)
(***************************************************************************)
\* The answers that say so.
Failed == {"failed", "GIT_PUSH_FAILED", "GIT_PROPOSAL_FAILED"}

\* Where the call worked nothing of its own is left.
Restored(w) ==
    IF pc[w] \in {"exists", "fetch"}
    THEN UNCHANGED <<ref, trees>>
    ELSE /\ ref'[name[w]] = None
         /\ IF mode = "local"
            THEN /\ reply'[w].touched \/ \A f \in Files : work'["workspace"][f] # "ours"
                 /\ before[w] # "unknown" => head'["workspace"] = before[w]
            ELSE head'[w] = "main"

\* Every failure that is answered, with every clean-up done, restored things.
FailuresRestore ==
    \A w \in Writers :
        reply'[w] # reply[w] /\ reply'[w].status \in Failed /\ ~reply'[w].botched => Restored(w)

\* An answer of something else, or of a clean-up that failed, restores nothing.
LEMMA AnswerRestores ==
  ASSUME TypeOK, NEW w \in Writers, NEW s, NEW b,
         s \in Failed /\ b # TRUE => (reply'[w].touched = touched[w] => Restored(w)),
         AnswerAfter(w, s, b)
  PROVE  FailuresRestore
<1>1. Answered(w, s, b)
  BY AnswerFacts, TypeParts
<1>2. reply'[w].status = s /\ reply'[w].botched = b /\ reply'[w].touched = touched[w]
  BY <1>1 DEF Answered
<1>3. QED
  BY <1>1, <1>2 DEF Rest, Answered, FailuresRestore

\* A decision answers in a workspace only.
LEMMA LeaveRestores ==
  ASSUME TypeOK, NEW w \in Writers, NEW s, NEW b,
         mode = "local" /\ s \in Failed /\ b # TRUE => (reply'[w].touched = touched[w] => Restored(w)),
         LeaveAfter(w, s, b)
  PROVE  FailuresRestore
<1>1. CASE mode = "local"
  BY <1>1, AnswerRestores DEF LeaveAfter
<1>2. CASE mode # "local"
  BY <1>2 DEF LeaveAfter, FailuresRestore
<1>3. QED
  BY <1>1, <1>2

\* So does a step that answers nothing.
LEMMA SameRestores ==
  ASSUME UNCHANGED reply
  PROVE  FailuresRestore
  BY DEF FailuresRestore

\* Every step does (_cleanup_failed_authority_branch, and the finally clause).
LEMMA FailureStep ==
  ASSUME TypeOK, HeadsExist, CallsAreOrderly, [Next]_vars
  PROVE  FailuresRestore
<1>0. TypeOK /\ CallsAreOrderly /\ mode \in {"local", "remote"}
  BY DEF TypeOK
<1>1. CASE UNCHANGED vars
  BY <1>1, SameRestores DEF vars
<1>2. ASSUME NEW w \in Writers, NEW r \in Requests, Request(w, r[1], r[2]) PROVE FailuresRestore
  BY <1>0, <1>2 DEF Request, FailuresRestore, TypeOK, NoReply, Failed
<1>3. ASSUME NEW w \in Writers, Acquire(w) PROVE FailuresRestore
  BY <1>3, SameRestores DEF Acquire
<1>4. ASSUME NEW w \in Writers, Reclaim(w) PROVE FailuresRestore
  BY <1>4, SameRestores DEF Reclaim
<1>5. ASSUME NEW w \in Writers, Exists(w) PROVE FailuresRestore
  BY <1>0, <1>5, AnswerRestores, LeaveRestores, SameRestores DEF Exists, Answer, Leave, Raise, CleanUp, Goto, Failed
<1>6. ASSUME NEW w \in Writers, Fetch(w) PROVE FailuresRestore
  BY <1>0, <1>6, AnswerRestores, LeaveRestores, SameRestores DEF Fetch, Answer, Leave, Raise, CleanUp, Goto, Failed
<1>7. ASSUME NEW w \in Writers, AddWorktree(w) PROVE FailuresRestore
  BY <1>0, <1>7, AnswerRestores, LeaveRestores, SameRestores DEF AddWorktree, Answer, Leave, Raise, CleanUp, Goto, Failed
<1>8. ASSUME NEW w \in Writers, Status(w) PROVE FailuresRestore
  BY <1>0, <1>8, AnswerRestores, LeaveRestores, SameRestores DEF Status, Answer, Leave, Raise, CleanUp, Goto, Failed
<1>9. ASSUME NEW w \in Writers, Validate(w) PROVE FailuresRestore
  BY <1>0, <1>9, AnswerRestores, LeaveRestores, SameRestores DEF Validate, Answer, Leave, Raise, CleanUp, Goto, Failed
<1>10. ASSUME NEW w \in Writers, MakeBranch(w) PROVE FailuresRestore
  BY <1>10, SameRestores DEF MakeBranch
<1>11. ASSUME NEW w \in Writers, Write(w) PROVE FailuresRestore
  BY <1>0, <1>11, AnswerRestores, LeaveRestores, SameRestores DEF Write, Answer, Leave, Raise, CleanUp, Goto, Failed
<1>12. ASSUME NEW w \in Writers, MakeCommit(w) PROVE FailuresRestore
  BY <1>12, SameRestores DEF MakeCommit
<1>13. ASSUME NEW w \in Writers, NothingToCommit(w) PROVE FailuresRestore
  BY <1>0, <1>13, AnswerRestores, LeaveRestores, SameRestores DEF NothingToCommit, Answer, Leave, Raise, CleanUp, Goto, Failed
<1>14. ASSUME NEW w \in Writers, UndoReset(w) PROVE FailuresRestore
  BY <1>0, <1>14, AnswerRestores, LeaveRestores, SameRestores DEF UndoReset, Answer, Leave, Raise, CleanUp, Goto, Failed
<1>15. ASSUME NEW w \in Writers, UndoSwitch(w) PROVE FailuresRestore
  BY <1>0, <1>15, AnswerRestores, LeaveRestores, SameRestores DEF UndoSwitch, Answer, Leave, Raise, CleanUp, Goto, Failed
<1>16. ASSUME NEW w \in Writers, UndoBranch(w) PROVE FailuresRestore
  <2>1. mode = "local" /\ botched[w] # TRUE => (reply'[w].touched = touched[w] => Restored(w))
    <3>1. PICK t \in Trees : t = Tree(w) /\ (mode = "local" => t = "workspace") /\ CallOK(w, t)
      BY <1>0, OrderlyParts DEF Tree, Trees
    <3>2. /\ pc[w] = "drop" /\ Deleted(w) /\ UNCHANGED <<head, work>>
          /\ botched[w] \in BOOLEAN /\ touched[w] \in BOOLEAN /\ name[w] \in Names
      BY <1>0, <1>16 DEF UndoBranch, trees, TypeOK
    <3>3. botched[w] # TRUE => head[t] = before[w] /\ before[w] # "unknown" /\ before[w] # name[w]
      BY <3>1, <3>2 DEF CallOK, OnItsBranch, CanGoBack
    <3>4. botched[w] # TRUE => \A u \in Trees : head[u] # name[w]
      BY <3>1, <3>2, <3>3 DEF CallOK, OnItsBranch
    <3>5. botched[w] # TRUE => ref'[name[w]] = None
      BY <1>0, <3>2, <3>4 DEF Deleted, TypeOK
    <3>6. botched[w] # TRUE /\ ~touched[w] => \A f \in Files : work[t][f] # "ours"
      BY <3>1, <3>2 DEF CallOK, FilesAreAsked
    <3>7. QED
      BY <3>1, <3>2, <3>3, <3>5, <3>6 DEF Restored
  <2>2. QED
    BY <1>0, <1>16, <2>1, LeaveRestores DEF UndoBranch, Leave
<1>17. ASSUME NEW w \in Writers, Authenticate(w) PROVE FailuresRestore
  BY <1>0, <1>17, AnswerRestores, LeaveRestores, SameRestores DEF Authenticate, Answer, Leave, Raise, CleanUp, Goto, Failed
<1>18. ASSUME NEW w \in Writers, Push(w) PROVE FailuresRestore
  BY <1>0, <1>18, AnswerRestores, LeaveRestores, SameRestores DEF Push, Answer, Leave, Raise, CleanUp, Goto, Failed
<1>19. ASSUME NEW w \in Writers, Rejected(w) PROVE FailuresRestore
  <2>2. CASE NotPushed(w)
    BY <1>0, <2>2, LeaveRestores DEF NotPushed, Leave, Failed
  <2>3. CASE Raise(w)
    BY <1>0, <2>3, LeaveRestores DEF Raise, Leave, Failed
  <2>4. QED
    BY <1>19, <2>2, <2>3 DEF Rejected
<1>20. ASSUME NEW w \in Writers, Open(w) PROVE FailuresRestore
  BY <1>0, <1>20, LeaveRestores DEF Open, Leave, Prepared, Failed
<1>21. ASSUME NEW w \in Writers, RemoveWorktree(w) PROVE FailuresRestore
  BY <1>0, <1>21, AnswerRestores, LeaveRestores, SameRestores DEF RemoveWorktree, Answer, Leave, Raise, CleanUp, Goto, Failed
<1>22. ASSUME NEW w \in Writers, DeleteBranch(w) PROVE FailuresRestore
  <2>0. mode = "remote" /\ CallOK(w, w)
    BY <1>0, <1>22, OrderlyParts DEF DeleteBranch, CallsAreOrderly, OnItsWay, Tree, TypeOK
  <2>1. /\ pc[w] = "delete" /\ Deleted(w) /\ UNCHANGED head
        /\ botched[w] \in BOOLEAN /\ name[w] \in Names
    BY <1>0, <1>22 DEF DeleteBranch, trees, TypeOK
  <2>2. botched[w] # TRUE => head[w] = "main" /\ \A u \in Trees : head[u] # name[w]
    BY <2>0, <2>1 DEF CallOK, OnItsBranch
  <2>3. botched[w] # TRUE => ref'[name[w]] = None
    BY <1>0, <2>1, <2>2 DEF Deleted, TypeOK
  <2>4. botched[w] # TRUE => Restored(w)
    BY <2>0, <2>1, <2>2, <2>3 DEF Restored
  <2>5. QED
    BY <1>0, <1>22, <2>4, AnswerRestores DEF DeleteBranch, Answer
<1>23. ASSUME NEW w \in Writers, TimeOut(w) PROVE FailuresRestore
  BY <1>0, <1>23, AnswerRestores, LeaveRestores, SameRestores DEF TimeOut, Answer, Leave, Raise, CleanUp, Goto, Failed
<1>24. ASSUME NEW w \in Writers, FetchFails(w) PROVE FailuresRestore
  <2>1. Restored(w)
    BY <1>24 DEF FetchFails, Restored
  <2>2. QED
    BY <1>0, <1>24, <2>1, AnswerRestores DEF FetchFails, Answer
<1>25. ASSUME NEW w \in Writers, AddWorktreeFails(w) PROVE FailuresRestore
  <2>1. mode = "remote"
    BY <1>0, <1>25 DEF AddWorktreeFails, CallsAreOrderly, OnItsWay
  <2>2. QED
    BY <1>0, <1>25, <2>1, LeaveRestores DEF AddWorktreeFails, Raise, Leave
<1>26. ASSUME NEW w \in Writers, StatusFails(w) PROVE FailuresRestore
  BY <1>0, <1>26, AnswerRestores, LeaveRestores, SameRestores DEF StatusFails, Answer, Leave, Raise, CleanUp, Goto, Failed
<1>27. ASSUME NEW w \in Writers, MakeBranchBlindly(w) PROVE FailuresRestore
  BY <1>27, SameRestores DEF MakeBranchBlindly
<1>28. ASSUME NEW w \in Writers, BranchFails(w) PROVE FailuresRestore
  <2>1. mode = "local" => (reply'[w].touched = touched[w] => Restored(w))
    <3>1. /\ before[w] = "unknown" /\ ref[name[w]] = None /\ UNCHANGED <<ref, work>> /\ pc[w] = "branch"
          /\ mode = "local" /\ ~touched[w] => work["workspace"] = AllClean
      BY <1>0, <1>28 DEF BranchFails, CallsAreOrderly, OnItsWay, OnItsBranch, FilesAreAsked, OnBranch, clone, trees, Tree
    <3>2. work["workspace"] = AllClean => \A f \in Files : work["workspace"][f] # "ours"
      BY DEF AllClean
    <3>3. touched[w] \in BOOLEAN
      BY <1>0 DEF TypeOK
    <3>4. QED
      BY <3>1, <3>2, <3>3 DEF Restored
  <2>2. QED
    BY <1>0, <1>28, <2>1, LeaveRestores DEF BranchFails, Raise, Leave, Failed
<1>29. ASSUME NEW w \in Writers, WriteFails(w) PROVE FailuresRestore
  BY <1>0, <1>29, AnswerRestores, LeaveRestores, SameRestores DEF WriteFails, Answer, Leave, Raise, CleanUp, Goto, Failed
<1>30. ASSUME NEW w \in Writers, CommitFails(w) PROVE FailuresRestore
  BY <1>0, <1>30, AnswerRestores, LeaveRestores, SameRestores DEF CommitFails, Answer, Leave, Raise, CleanUp, Goto, Failed
<1>31. ASSUME NEW w \in Writers, UndoFails(w) PROVE FailuresRestore
  BY <1>0, <1>31, AnswerRestores, LeaveRestores, SameRestores DEF UndoFails, Answer, Leave, Raise, CleanUp, Goto, Failed
<1>32. ASSUME NEW w \in Writers, PushFails(w) PROVE FailuresRestore
  <2>2. CASE NotPushed(w)
    BY <1>0, <2>2, LeaveRestores DEF NotPushed, Leave, Failed
  <2>3. CASE Raise(w)
    BY <1>0, <2>3, LeaveRestores DEF Raise, Leave, Failed
  <2>4. QED
    BY <1>32, <2>2, <2>3 DEF PushFails
<1>33. ASSUME NEW w \in Writers, GhFails(w) PROVE FailuresRestore
  BY <1>0, <1>33, AnswerRestores, LeaveRestores, SameRestores DEF GhFails, Answer, Leave, Raise, CleanUp, Goto, Failed
<1>34. ASSUME NEW w \in Writers, RemoveFails(w) PROVE FailuresRestore
  BY <1>0, <1>34, AnswerRestores, LeaveRestores, SameRestores DEF RemoveFails, Answer, Leave, Raise, CleanUp, Goto, Failed
<1>35. ASSUME NEW w \in Writers, Crash(w) PROVE FailuresRestore
  BY <1>0, <1>35 DEF Crash, FailuresRestore, TypeOK, NoReply, Failed
<1>36. ASSUME NEW w \in Writers, Restart(w) PROVE FailuresRestore
  BY <1>36, SameRestores DEF Restart
<1>37. CASE Review
  BY <1>37, SameRestores DEF Review
<1>38. CASE UserMoves
  BY <1>38, SameRestores DEF UserMoves
<1>39. ASSUME NEW f \in Files, NEW k \in {"clean", "edited", "staged"}, UserWrites(f, k) PROVE FailuresRestore
  BY <1>39, SameRestores DEF UserWrites
<1>40. QED
  BY <1>1, <1>2, <1>3, <1>4, <1>5, <1>6, <1>7, <1>8, <1>9, <1>10, <1>11, <1>12, <1>13, <1>14, <1>15, <1>16, <1>17, <1>18, <1>19, <1>20, <1>21, <1>22, <1>23, <1>24, <1>25, <1>26, <1>27, <1>28, <1>29, <1>30, <1>31, <1>32, <1>33, <1>34, <1>35, <1>36, <1>37, <1>38, <1>39
  DEF Next, Step, StepFails

(***************************************************************************)
(* The theorems.                                                           *)
(***************************************************************************)
\* At first nothing has been asked for, made or published.
LEMMA Initial ==
  ASSUME Init
  PROVE  IInv
<1>1. TypeOK
  <2>1. canon = <<>> /\ pub = [n \in Names |-> None]
    BY DEF Init, Board!BoardInit
  <2>2. NoReply \in Replies /\ NoReply.name \in Names /\ NoReply.asked \in Asked /\ NoCommit \in Board!Commit
    BY NoReplyType
  <2>3. CallTypeOK
    BY <2>2 DEF Init, CallTypeOK, Locations, Statuses
  <2>4. RepositoryTypeOK
    BY <2>1, <2>2 DEF Init, RepositoryTypeOK, Trees, AllClean
  <2>5. QED
    BY <2>3, <2>4, TypeParts
<1>2. LockHeldInside
  BY DEF Init, LockHeldInside, Holding
<1>3. CallsAreOrderly
  <2>1. \A w \in Writers : Fresh(w)
    BY DEF Init, Fresh
  <2>2. Alone
    BY DEF Init, Alone, Holding
  <2>3. QED
    BY <2>1, <2>2, FreshIsOK, OrderlyParts
<1>4. CommitsArePast
  <2>1. canon = <<>> /\ pub = [n \in Names |-> None] /\ Len(canon) = 0
    BY DEF Init, Board!BoardInit
  <2>2. NoCommit.base = 0 /\ NoReply.commit.base = 0
    BY NoReplyType DEF NoReply
  <2>3. QED
    BY <2>1, <2>2 DEF Init, CommitsArePast, Past
<1>5. HeadsExist
  BY DEF Init, HeadsExist, Trees
<1>6. PreparedIsAsked
  BY DEF Init, PreparedIsAsked, NoReply, Prepared
<1>7. QED
  BY <1>1, <1>2, <1>3, <1>4, <1>5, <1>6 DEF IInv

\* Every step keeps the inductive invariant.
LEMMA Inductive ==
  ASSUME IInv, [Next]_vars
  PROVE  IInv'
<1>1. TypeOK /\ LockHeldInside /\ CallsAreOrderly /\ CommitsArePast /\ HeadsExist /\ PreparedIsAsked
  BY DEF IInv
<1>2. TypeOK'
  BY <1>1, TypeStep
<1>3. CommitsArePast'
  BY <1>1, <1>2, PastStep
<1>4. HeadsExist' /\ LockHeldInside'
  BY <1>1, HeadsStep, LockStep
<1>5. CallsAreOrderly' /\ PreparedIsAsked'
  BY <1>1, <1>2, <1>3, OrderlyStep, PreparedStep
<1>6. QED
  BY <1>2, <1>3, <1>4, <1>5 DEF IInv

\* The inductive invariant holds: calls work one at a time, on branches of
\* their own, from commits the canonical branch has had.
THEOREM Invariance == Spec => []IInv
<1>1. IInv /\ [Next]_vars => IInv'
  BY Inductive
<1>2. QED
  BY <1>1, Initial, PTL DEF Spec

\* Variables, calls and answers keep their types, for any servers and requests.
THEOREM Typing == Spec => []TypeOK
  BY Invariance, PTL DEF IInv

\* A remote proposal works under the capture lock, and every way out of it
\* releases that: the nested finally clauses of _prepare_remote_authority_change.
THEOREM LockHeld == Spec => []LockHeldInside
  BY Invariance, PTL DEF IInv

\* Whatever the servers, reviewers and the user do, a proposal that was prepared
\* is the change that was asked for, and is published if it says so
\* (_prepare_authority_change).
THEOREM PreparedAsAsked == Spec => []PreparedIsAsked
  BY Invariance, PTL DEF IInv

\* However many steps fail, a proposal that failed leaves nothing of its own
\* behind unless cleaning up failed as well (_cleanup_failed_authority_branch).
THEOREM FailureLeavesNothing == Spec => FailureRestores
<1>1. ASSUME IInv, [Next]_vars PROVE FailuresRestore
  BY <1>1, FailureStep DEF IInv
<1>2. FailuresRestore =>
        \A w \in Writers :
            /\ reply'[w] # reply[w]
            /\ reply'[w].status \in {"failed", "GIT_PUSH_FAILED", "GIT_PROPOSAL_FAILED"}
            /\ ~reply'[w].botched
            => IF pc[w] \in {"exists", "fetch"}
               THEN UNCHANGED <<ref, trees>>
               ELSE /\ ref'[name[w]] = None
                    /\ IF mode = "local"
                       THEN /\ reply'[w].touched \/ \A f \in Files : work'["workspace"][f] # "ours"
                            /\ before[w] # "unknown" => head'["workspace"] = before[w]
                       ELSE head'[w] = "main"
  BY DEF FailuresRestore, Restored, Failed
<1>3. QED
  BY <1>1, <1>2, Invariance, PTL DEF Spec, FailureRestores

\* Proposals are only ever added to, and the canonical branch moves by what the
\* reviewers do: every step is one of ReviewBoard, or none.
THEOREM ReviewBoardImplemented == Spec => ImplementsReviewBoard
<1>1. Init => Board!BoardInit
  BY DEF Init
<1>2. ASSUME IInv, [Next]_vars PROVE [Board!BoardNext]_<<canon, pub>>
  BY <1>2, BoardStep DEF IInv, BoardMoves, board
<1>3. QED
  BY <1>1, <1>2, Invariance, PTL DEF Spec, ImplementsReviewBoard, Board!BoardSpec
=============================================================================
