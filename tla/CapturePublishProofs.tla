------------------------- MODULE CapturePublishProofs -------------------------
(***************************************************************************)
(* Proofs about CapturePublish, for any servers, notes, paths, pushes of   *)
(* others and failures.                                                    *)
(***************************************************************************)
EXTENDS CapturePublish, TLAPS

USE CapturePublishAssumption

\* An answer that was never given is well-formed.
LEMMA NoReplyType == NoReply \in Replies /\ NoReply.note \in Notes
  BY DEF NoReply, Replies, Statuses

\* Init establishes the invariant.
LEMMA InitIInv == Init => IInv
<1> SUFFICES ASSUME Init PROVE IInv
  OBVIOUS
<1> USE DEF Init
<1>1. TypeOK
  BY NoReplyType DEF TypeOK, RepositoryTypeOK, CallTypeOK, Holding, Locations, Files
<1>2. LockHeldInside
  BY DEF LockHeldInside, Holding
<1>3. BasesArePast
  BY DEF BasesArePast
<1>4. TargetIsFree
  BY DEF TargetIsFree
<1>5. PushedIsCommitted
  BY DEF PushedIsCommitted, Pushed
<1>6. ReportedIsPublished
  BY DEF ReportedIsPublished, NoReply
<1>7. FileInPlace /\ OneInPlace /\ WrittenIsKept
  BY DEF FileInPlace, OneInPlace, WrittenIsKept, NoReply, InPlaceStatuses
<1>8. WayFitsMode /\ FoundIsIndexed /\ IndexedIsRetrievable
  BY DEF WayFitsMode, FoundIsIndexed, IndexedIsRetrievable, NoReply, InPlaceStatuses, Holding
<1>9. OnePerPath /\ CheckoutIsPast /\ FilesAreTheUsers
  BY DEF OnePerPath, CheckoutIsPast, FilesAreTheUsers
<1>10. IndexIsOfCommit
  BY DEF IndexIsOfCommit, TextAt
<1>11. QED
  BY <1>1, <1>2, <1>3, <1>4, <1>5, <1>6, <1>7, <1>8, <1>9, <1>10 DEF IInv

\* The tool's answer is well-formed (AnswerIndexed).
LEMMA AnswerTypes ==
  ASSUME CallTypeOK, NEW w \in Writers, NEW s \in Statuses, NEW i \in BOOLEAN,
         AnswerIndexed(w, s, i)
  PROVE  CallTypeOK'
<1>1. [status |-> s, note |-> note[w], commit |-> commit[w], indexed |-> i] \in Replies
  BY DEF CallTypeOK, Replies
<1>2. QED
  BY <1>1, NoReplyType DEF CallTypeOK, AnswerIndexed, LockReleased, Locations

\* So is what a call remembers when it goes on.
LEMMA GotoTypes ==
  ASSUME CallTypeOK, NEW w \in Writers, NEW l \in Locations, Goto(w, l)
  PROVE  CallTypeOK'
  BY DEF CallTypeOK, Goto, call

\* And when it tries again (Retry).
LEMMA RetryTypes ==
  ASSUME CallTypeOK, NEW w \in Writers, Retry(w)
  PROVE  CallTypeOK'
<1>1. CASE attempt[w] = 1
  BY <1>1 DEF CallTypeOK, Retry, Locations, Holding
<1>2. CASE attempt[w] # 1
  BY <1>2, AnswerTypes DEF Retry, Answer, Statuses
<1>3. QED
  BY <1>1, <1>2

\* One more commit leaves those before it as they are.
LEMMA Appended ==
  ASSUME NEW S, NEW s \in Seq(S), NEW c \in S
  PROVE  /\ Append(s, c) \in Seq(S)
         /\ Len(Append(s, c)) = Len(s) + 1
         /\ Append(s, c)[Len(s) + 1] = c
         /\ \A i \in 1..Len(s) : Append(s, c)[i] = s[i]
  OBVIOUS

\* A push that lands writes a change to the branch (Landed).
LEMMA LandedTypes ==
  ASSUME TypeOK, NEW w \in Writers, Landed(w)
  PROVE  branch' \in Seq(Log!Change)
<1>1. [path |-> PathOf[note[w]], text |-> note[w]] \in Log!Change
  BY DEF TypeOK, CallTypeOK, Log!Change
<1>2. QED
  BY <1>1, Appended DEF TypeOK, RepositoryTypeOK, Landed

\* So does a push of other people.
LEMMA OthersTypes ==
  ASSUME TypeOK, Log!PushedByOthers
  PROVE  branch' \in Seq(Log!Change)
<1>1. PICK p \in Paths \cup {Nowhere}, t \in Others :
        branch' = Append(branch, [path |-> p, text |-> t])
  BY DEF Log!PushedByOthers
<1>2. [path |-> p, text |-> t] \in Log!Change
  BY <1>1 DEF Log!Change
<1>3. QED
  BY <1>1, <1>2, Appended DEF TypeOK, RepositoryTypeOK

\* A commit has a file at a path, or none (TextAt).
LEMMA TextTypes == \A c, p : TextAt(c, p) \in Files
  BY DEF TextAt, Files

\* So has the checkout (File).
LEMMA FileTypes == TypeOK => \A p \in Paths : File(p) \in Files
  BY TextTypes DEF File, TypeOK, RepositoryTypeOK

\* Indexing one document keeps the type of the index.
LEMMA IndexTypes ==
  ASSUME TypeOK, NEW p \in Paths, NEW done \in BOOLEAN, Index(p, done)
  PROVE  indexed' \in [Paths -> Files] /\ faults' \in Nat
  BY FileTypes DEF Index, Fault, TypeOK, RepositoryTypeOK

\* Every step keeps the types of the repository and of the index.
LEMMA RepositoryTypeStep == TypeOK /\ [Next]_vars => RepositoryTypeOK'
<1> SUFFICES ASSUME TypeOK, [Next]_vars PROVE RepositoryTypeOK'
  OBVIOUS
<1> RepositoryTypeOK /\ base \in [Writers -> Nat]
  BY DEF TypeOK, CallTypeOK
<1> USE DEF RepositoryTypeOK, checkout, index
<1>1. CASE UNCHANGED vars
  BY <1>1 DEF vars, checkout, index, call
<1>2. ASSUME NEW w \in Writers, NEW n \in Notes, Request(w, n) PROVE RepositoryTypeOK'
  BY <1>2 DEF Request
<1>3. ASSUME NEW w \in Writers, Acquire(w) PROVE RepositoryTypeOK'
  BY <1>3 DEF Acquire
<1>4. ASSUME NEW w \in Writers, Reclaim(w) PROVE RepositoryTypeOK'
  BY <1>4 DEF Reclaim
<1>5. ASSUME NEW w \in Writers, TimeOut(w) PROVE RepositoryTypeOK'
  BY <1>5 DEF TimeOut
<1>6. ASSUME NEW w \in Writers, Fetch(w) PROVE RepositoryTypeOK'
  BY <1>6 DEF Fetch
<1>7. ASSUME NEW w \in Writers, FetchFails(w) PROVE RepositoryTypeOK'
  BY <1>7 DEF FetchFails, Fault
<1>8. ASSUME NEW w \in Writers, AddWorktree(w) PROVE RepositoryTypeOK'
  BY <1>8 DEF AddWorktree
<1>9. ASSUME NEW w \in Writers, Write(w) PROVE RepositoryTypeOK'
  BY <1>9 DEF Write
<1>10. ASSUME NEW w \in Writers, WriteFails(w) PROVE RepositoryTypeOK'
  BY <1>10 DEF WriteFails, Fault
<1>11. ASSUME NEW w \in Writers, Push(w) PROVE RepositoryTypeOK'
  BY <1>11, LandedTypes DEF Push, Fault
<1>12. ASSUME NEW w \in Writers, Rejected(w) PROVE RepositoryTypeOK'
  BY <1>12 DEF Rejected
<1>13. ASSUME NEW w \in Writers, Declined(w) PROVE RepositoryTypeOK'
  BY <1>13 DEF Declined, Fault
<1>14. ASSUME NEW w \in Writers, PushFails(w) PROVE RepositoryTypeOK'
  BY <1>14, LandedTypes DEF PushFails, Fault
<1>15. ASSUME NEW w \in Writers, CheckWorkspace(w) PROVE RepositoryTypeOK'
  BY <1>15 DEF CheckWorkspace
<1>16. ASSUME NEW w \in Writers, Refetch(w) PROVE RepositoryTypeOK'
  BY <1>16 DEF Refetch
<1>17. ASSUME NEW w \in Writers, RefetchFails(w) PROVE RepositoryTypeOK'
  BY <1>17 DEF RefetchFails, Fault
<1>18. ASSUME NEW w \in Writers, Merge(w) PROVE RepositoryTypeOK'
  BY <1>18 DEF Merge
<1>19. ASSUME NEW w \in Writers, IndexNote(w) PROVE RepositoryTypeOK'
  BY <1>19, IndexTypes DEF IndexNote, TypeOK, CallTypeOK
<1>20. ASSUME NEW w \in Writers, Cleanup(w) PROVE RepositoryTypeOK'
  BY <1>20 DEF Cleanup
<1>21. ASSUME NEW w \in Writers, RaisesLate(w) PROVE RepositoryTypeOK'
  BY <1>21 DEF RaisesLate, Fault
<1>22. ASSUME NEW w \in Writers, SyncAfterPush(w) PROVE RepositoryTypeOK'
  BY <1>22, TextTypes DEF SyncAfterPush, Synchronize, Files
<1>23. ASSUME NEW w \in Writers, SyncFails(w) PROVE RepositoryTypeOK'
  BY <1>23 DEF SyncFails, Fault
<1>24. ASSUME NEW w \in Writers, Confirm(w) PROVE RepositoryTypeOK'
  BY <1>24 DEF Confirm
<1>25. ASSUME NEW w \in Writers, ConfirmChunks(w) PROVE RepositoryTypeOK'
  BY <1>25 DEF ConfirmChunks
<1>26. ASSUME NEW w \in Writers, Crash(w) PROVE RepositoryTypeOK'
  BY <1>26 DEF Crash, Fault
<1>27. ASSUME NEW w \in Writers, Restart(w) PROVE RepositoryTypeOK'
  BY <1>27 DEF Restart
<1>28. CASE SyncByOther
  BY <1>28, TextTypes DEF SyncByOther, Synchronize, Files
<1>29. CASE PushByOthers
  BY <1>29, OthersTypes DEF PushByOthers
<1>30. CASE UserPulls
  BY <1>30 DEF UserPulls
<1>31. CASE UserSwitches
  BY <1>31 DEF UserSwitches
<1>32. ASSUME NEW p \in Paths, UserEdits(p) PROVE RepositoryTypeOK'
  BY <1>32 DEF UserEdits, Files
<1>33. ASSUME NEW w \in Writers, Truncate(w) PROVE RepositoryTypeOK'
  BY <1>33 DEF Truncate, TypeOK, CallTypeOK, Files
<1>34. ASSUME NEW w \in Writers, Fill(w) PROVE RepositoryTypeOK'
  BY <1>34 DEF Fill, TypeOK, CallTypeOK, Files
<1>35. ASSUME NEW w \in Writers, PlaceFails(w) PROVE RepositoryTypeOK'
  <2>1. PathOf[note[w]] \in Paths /\ Torn \in Files
    BY DEF TypeOK, CallTypeOK, Files
  <2>2. own' \in [Paths -> Files]
    BY <1>35, <2>1 DEF PlaceFails
  <2>3. QED
    BY <1>35, <2>2 DEF PlaceFails, Fault
<1>36. ASSUME NEW w \in Writers, IndexInPlace(w) PROVE RepositoryTypeOK'
  BY <1>36, IndexTypes DEF IndexInPlace, TypeOK, CallTypeOK
<1>37. ASSUME NEW w \in Writers, IndexRaises(w) PROVE RepositoryTypeOK'
  BY <1>37 DEF IndexRaises, Fault
<1>38. QED
  BY <1>1, <1>2, <1>3, <1>4, <1>5, <1>6, <1>7, <1>8, <1>9, <1>10, <1>11, <1>12, <1>13, <1>14, <1>15, <1>16, <1>17, <1>18, <1>19, <1>20, <1>21, <1>22, <1>23, <1>24, <1>25, <1>26, <1>27, <1>28, <1>29, <1>30, <1>31, <1>32, <1>33, <1>34, <1>35, <1>36, <1>37
  DEF Next, Step, StepFails

\* Every step keeps the types of the calls under way and of the lock.
LEMMA CallTypeStep == TypeOK /\ [Next]_vars => CallTypeOK'
<1> SUFFICES ASSUME TypeOK, [Next]_vars PROVE CallTypeOK'
  OBVIOUS
<1> CallTypeOK /\ tracking \in Nat
  BY DEF TypeOK, RepositoryTypeOK
<1>1. CASE UNCHANGED vars
  BY <1>1 DEF vars, checkout, index, call, CallTypeOK
<1>2. ASSUME NEW w \in Writers, NEW n \in Notes, Request(w, n) PROVE CallTypeOK'
  <2>1. [status |-> "TARGET_EXISTS", note |-> n, commit |-> 0, indexed |-> FALSE] \in Replies
    BY DEF Replies, Statuses
  <2>2. CASE PathOf[n] \in Present
    <3>1. UNCHANGED <<lock, pc, note, attempt, base, commit, found>>
      BY <1>2, <2>2 DEF Request
    <3>2. \E r \in Replies : reply' = [reply EXCEPT ![w] = r]
      BY <1>2, <2>1, <2>2 DEF Request
    <3>3. QED
      BY <3>1, <3>2 DEF CallTypeOK
  <2>3. CASE PathOf[n] \notin Present
    <3>1. Begin(w, n)
      BY <1>2, <2>3 DEF Request
    <3>2. pc' = [pc EXCEPT ![w] = "place"] \/ pc' = [pc EXCEPT ![w] = "lock"]
      BY <3>1 DEF Begin
    <3>3. pc' \in [Writers -> Locations]
      BY <3>2 DEF CallTypeOK, Locations
    <3>4. note' \in [Writers -> Notes] /\ reply' \in [Writers -> Replies]
      BY <3>1, NoReplyType DEF CallTypeOK, Begin
    <3>5. QED
      BY <1>2, <3>3, <3>4 DEF Request, CallTypeOK
  <2>4. QED
    BY <2>2, <2>3
<1>3. ASSUME NEW w \in Writers, Acquire(w) PROVE CallTypeOK'
  BY <1>3 DEF Acquire, CallTypeOK, call, Locations, Holding
<1>4. ASSUME NEW w \in Writers, Reclaim(w) PROVE CallTypeOK'
  BY <1>4 DEF Reclaim, CallTypeOK, call, Locations, Holding
<1>5. ASSUME NEW w \in Writers, TimeOut(w) PROVE CallTypeOK'
  BY <1>5, AnswerTypes DEF TimeOut, Answer, Statuses
<1>6. ASSUME NEW w \in Writers, Fetch(w) PROVE CallTypeOK'
  BY <1>6, GotoTypes DEF Fetch, Locations, Holding
<1>7. ASSUME NEW w \in Writers, FetchFails(w) PROVE CallTypeOK'
  BY <1>7, AnswerTypes DEF FetchFails, Fails, Answer, Statuses
<1>8. ASSUME NEW w \in Writers, AddWorktree(w) PROVE CallTypeOK'
  BY <1>8 DEF AddWorktree, CallTypeOK, call, Locations, Holding
<1>9. ASSUME NEW w \in Writers, Write(w) PROVE CallTypeOK'
  BY <1>9, AnswerTypes, GotoTypes DEF Write, Answer, Statuses, Locations, Holding
<1>10. ASSUME NEW w \in Writers, WriteFails(w) PROVE CallTypeOK'
  BY <1>10, AnswerTypes DEF WriteFails, Fails, Answer, Statuses
<1>11. ASSUME NEW w \in Writers, Push(w) PROVE CallTypeOK'
  BY <1>11 DEF Push, CallTypeOK, call, Locations, Holding
<1>12. ASSUME NEW w \in Writers, Rejected(w) PROVE CallTypeOK'
  BY <1>12, RetryTypes DEF Rejected
<1>13. ASSUME NEW w \in Writers, Declined(w) PROVE CallTypeOK'
  BY <1>13, RetryTypes DEF Declined
<1>14. ASSUME NEW w \in Writers, PushFails(w) PROVE CallTypeOK'
  BY <1>14, AnswerTypes DEF PushFails, Fails, Answer, Statuses
<1>15. ASSUME NEW w \in Writers, CheckWorkspace(w) PROVE CallTypeOK'
  BY <1>15, GotoTypes DEF CheckWorkspace, Locations, Holding
<1>16. ASSUME NEW w \in Writers, Refetch(w) PROVE CallTypeOK'
  BY <1>16, GotoTypes DEF Refetch, Locations, Holding
<1>17. ASSUME NEW w \in Writers, RefetchFails(w) PROVE CallTypeOK'
  BY <1>17, GotoTypes DEF RefetchFails, Locations, Holding
<1>18. ASSUME NEW w \in Writers, Merge(w) PROVE CallTypeOK'
  BY <1>18, GotoTypes DEF Merge, Locations, Holding
<1>19. ASSUME NEW w \in Writers, IndexNote(w) PROVE CallTypeOK'
  BY <1>19 DEF IndexNote, CallTypeOK, call, Locations, Holding
<1>20. ASSUME NEW w \in Writers, Cleanup(w) PROVE CallTypeOK'
  <2>1. CASE mode = "workspace"
    <3>1. found[w] \in BOOLEAN
      BY DEF CallTypeOK
    <3>2. QED
      BY <1>20, <2>1, <3>1, AnswerTypes DEF Cleanup, Statuses
  <2>2. CASE mode # "workspace"
    BY <1>20, <2>2 DEF Cleanup, CallTypeOK, call, Locations
  <2>3. QED
    BY <2>1, <2>2
<1>21. ASSUME NEW w \in Writers, RaisesLate(w) PROVE CallTypeOK'
  BY <1>21, AnswerTypes DEF RaisesLate, Answer, Statuses
<1>22. ASSUME NEW w \in Writers, SyncAfterPush(w) PROVE CallTypeOK'
  BY <1>22, GotoTypes DEF SyncAfterPush, Locations, Holding
<1>23. ASSUME NEW w \in Writers, SyncFails(w) PROVE CallTypeOK'
  BY <1>23, AnswerTypes DEF SyncFails, Answer, Statuses
<1>24. ASSUME NEW w \in Writers, Confirm(w) PROVE CallTypeOK'
  BY <1>24, AnswerTypes, GotoTypes DEF Confirm, Answer, Statuses, Locations, Holding
<1>25. ASSUME NEW w \in Writers, ConfirmChunks(w) PROVE CallTypeOK'
  <2>1. HasChunks(w) \in BOOLEAN
    BY DEF HasChunks
  <2>2. QED
    BY <1>25, <2>1, AnswerTypes DEF ConfirmChunks, Statuses
<1>26. ASSUME NEW w \in Writers, Crash(w) PROVE CallTypeOK'
  BY <1>26, NoReplyType DEF Crash, CallTypeOK, call, Locations, Holding
<1>27. ASSUME NEW w \in Writers, Restart(w) PROVE CallTypeOK'
  BY <1>27 DEF Restart, CallTypeOK, call, Locations, Holding
<1>28. CASE SyncByOther
  BY <1>28 DEF SyncByOther, CallTypeOK, call, Locations, Holding
<1>29. CASE PushByOthers
  BY <1>29 DEF PushByOthers, CallTypeOK, call, Locations, Holding
<1>30. CASE UserPulls
  BY <1>30 DEF UserPulls, CallTypeOK, call, Locations, Holding
<1>31. CASE UserSwitches
  BY <1>31 DEF UserSwitches, CallTypeOK, call, Locations, Holding
<1>32. ASSUME NEW p \in Paths, UserEdits(p) PROVE CallTypeOK'
  BY <1>32 DEF UserEdits, CallTypeOK, call
<1>33. ASSUME NEW w \in Writers, Truncate(w) PROVE CallTypeOK'
  BY <1>33, GotoTypes DEF Truncate, Locations
<1>34. ASSUME NEW w \in Writers, Fill(w) PROVE CallTypeOK'
  BY <1>34, GotoTypes DEF Fill, Locations
<1>35. ASSUME NEW w \in Writers, PlaceFails(w) PROVE CallTypeOK'
  BY <1>35, AnswerTypes DEF PlaceFails, Answer, Statuses
<1>36. ASSUME NEW w \in Writers, IndexInPlace(w) PROVE CallTypeOK'
  BY <1>36, AnswerTypes DEF IndexInPlace, Statuses
<1>37. ASSUME NEW w \in Writers, IndexRaises(w) PROVE CallTypeOK'
  BY <1>37, AnswerTypes DEF IndexRaises, Answer, Statuses
<1>38. QED
  BY <1>1, <1>2, <1>3, <1>4, <1>5, <1>6, <1>7, <1>8, <1>9, <1>10, <1>11, <1>12, <1>13, <1>14, <1>15, <1>16, <1>17, <1>18, <1>19, <1>20, <1>21, <1>22, <1>23, <1>24, <1>25, <1>26, <1>27, <1>28, <1>29, <1>30, <1>31, <1>32, <1>33, <1>34, <1>35, <1>36, <1>37
  DEF Next, Step, StepFails

\* Type correctness: an inductive invariant by itself.
LEMMA TypeStep == TypeOK /\ [Next]_vars => TypeOK'
  BY RepositoryTypeStep, CallTypeStep DEF TypeOK

\* The branch at the remote grows, by a note or by a push of other people.
LEMMA BranchStep ==
  ASSUME [Next]_vars
  PROVE  \/ UNCHANGED branch
         \/ Log!PushedByOthers
         \/ \E w \in Writers : pc[w] = "push" /\ Landed(w)
  BY DEF vars, Next, Step, StepFails, Request, Acquire, Reclaim, TimeOut, Fetch, FetchFails,
     AddWorktree, Write, WriteFails, Push, Rejected, Declined, PushFails, CheckWorkspace,
     Refetch, RefetchFails, Merge, IndexNote, Cleanup, RaisesLate, SyncAfterPush, SyncFails,
     Confirm, ConfirmChunks, Crash, Restart, SyncByOther, PushByOthers, UserPulls,
     UserSwitches, UserEdits, Truncate, Fill, PlaceFails, IndexInPlace,
     IndexRaises

\* What grows keeps the commits it had.
Grows(b, c) ==
    /\ Len(b) <= Len(c)
    /\ \A i \in 1..Len(b) : c[i] = b[i]

\* Every step lets the branch grow.
LEMMA BranchGrows ==
  ASSUME TypeOK, [Next]_vars
  PROVE  Grows(branch, branch')
<1>1. CASE UNCHANGED branch
  BY <1>1 DEF Grows, TypeOK, RepositoryTypeOK
<1>2. ASSUME NEW c \in Log!Change, branch' = Append(branch, c) PROVE Grows(branch, branch')
  BY <1>2, Appended DEF Grows, TypeOK, RepositoryTypeOK
<1>3. CASE Log!PushedByOthers
  BY <1>2, <1>3 DEF Log!PushedByOthers, Log!Change
<1>4. ASSUME NEW w \in Writers, Landed(w) PROVE Grows(branch, branch')
  BY <1>2, <1>4 DEF Landed, TypeOK, CallTypeOK, Log!Change
<1>5. QED
  BY <1>1, <1>3, <1>4, BranchStep

\* What is published stays published, and the files of a commit the same.
LEMMA GrowsKeeps ==
  ASSUME NEW b \in Seq(Log!Change), NEW c \in Seq(Log!Change), Grows(b, c)
  PROVE  /\ \A i \in Nat, n \in Notes : IsPublished(b, i, n) => IsPublished(c, i, n)
         /\ \A i \in 0..Len(b) : PathsUpTo(c, i) = PathsUpTo(b, i)
  BY DEF Grows, IsPublished, IsCommitOf, PathsUpTo

\* The lock's owner is the call inside (LockHeldInside), at every step.
LEMMA LockStep == TypeOK /\ LockHeldInside /\ [Next]_vars => LockHeldInside'
<1> SUFFICES ASSUME TypeOK, LockHeldInside, [Next]_vars PROVE LockHeldInside'
  OBVIOUS
<1> lock \in Writers \cup {Free, Orphan} /\ pc \in [Writers -> Locations]
  BY DEF TypeOK, CallTypeOK
<1> USE DEF LockHeldInside, Holding, Locations
<1>1. CASE UNCHANGED vars
  BY <1>1 DEF vars, checkout, index, call
<1>2. ASSUME NEW w \in Writers, NEW n \in Notes, Request(w, n) PROVE LockHeldInside'
  BY <1>2 DEF Request, Begin
<1>3. ASSUME NEW w \in Writers, Acquire(w) PROVE LockHeldInside'
  BY <1>3 DEF Acquire
<1>4. ASSUME NEW w \in Writers, Reclaim(w) PROVE LockHeldInside'
  BY <1>4 DEF Reclaim
<1>5. ASSUME NEW w \in Writers, TimeOut(w) PROVE LockHeldInside'
  BY <1>5 DEF TimeOut, Answer, AnswerIndexed, LockReleased
<1>6. ASSUME NEW w \in Writers, Fetch(w) PROVE LockHeldInside'
  BY <1>6 DEF Fetch, Goto
<1>7. ASSUME NEW w \in Writers, FetchFails(w) PROVE LockHeldInside'
  BY <1>7 DEF FetchFails, Fails, Answer, AnswerIndexed, LockReleased
<1>8. ASSUME NEW w \in Writers, AddWorktree(w) PROVE LockHeldInside'
  BY <1>8 DEF AddWorktree
<1>9. ASSUME NEW w \in Writers, Write(w) PROVE LockHeldInside'
  BY <1>9 DEF Write, Goto, Answer, AnswerIndexed, LockReleased
<1>10. ASSUME NEW w \in Writers, WriteFails(w) PROVE LockHeldInside'
  BY <1>10 DEF WriteFails, Fails, Answer, AnswerIndexed, LockReleased
<1>11. ASSUME NEW w \in Writers, Push(w) PROVE LockHeldInside'
  BY <1>11 DEF Push
<1>12. ASSUME NEW w \in Writers, Rejected(w) PROVE LockHeldInside'
  BY <1>12 DEF Rejected, Retry, Answer, AnswerIndexed, LockReleased
<1>13. ASSUME NEW w \in Writers, Declined(w) PROVE LockHeldInside'
  BY <1>13 DEF Declined, Retry, Answer, AnswerIndexed, LockReleased
<1>14. ASSUME NEW w \in Writers, PushFails(w) PROVE LockHeldInside'
  BY <1>14 DEF PushFails, Fails, Answer, AnswerIndexed, LockReleased
<1>15. ASSUME NEW w \in Writers, CheckWorkspace(w) PROVE LockHeldInside'
  BY <1>15 DEF CheckWorkspace, Goto
<1>16. ASSUME NEW w \in Writers, Refetch(w) PROVE LockHeldInside'
  BY <1>16 DEF Refetch, Goto
<1>17. ASSUME NEW w \in Writers, RefetchFails(w) PROVE LockHeldInside'
  BY <1>17 DEF RefetchFails, Goto
<1>18. ASSUME NEW w \in Writers, Merge(w) PROVE LockHeldInside'
  BY <1>18 DEF Merge, Goto
<1>19. ASSUME NEW w \in Writers, IndexNote(w) PROVE LockHeldInside'
  BY <1>19 DEF IndexNote
<1>20. ASSUME NEW w \in Writers, Cleanup(w) PROVE LockHeldInside'
  BY <1>20 DEF Cleanup, AnswerIndexed, LockReleased
<1>21. ASSUME NEW w \in Writers, RaisesLate(w) PROVE LockHeldInside'
  BY <1>21 DEF RaisesLate, Answer, AnswerIndexed, LockReleased
<1>22. ASSUME NEW w \in Writers, SyncAfterPush(w) PROVE LockHeldInside'
  BY <1>22 DEF SyncAfterPush, Goto
<1>23. ASSUME NEW w \in Writers, SyncFails(w) PROVE LockHeldInside'
  BY <1>23 DEF SyncFails, Answer, AnswerIndexed, LockReleased
<1>24. ASSUME NEW w \in Writers, Confirm(w) PROVE LockHeldInside'
  BY <1>24 DEF Confirm, Goto, Answer, AnswerIndexed, LockReleased
<1>25. ASSUME NEW w \in Writers, ConfirmChunks(w) PROVE LockHeldInside'
  BY <1>25 DEF ConfirmChunks, AnswerIndexed, LockReleased
<1>26. ASSUME NEW w \in Writers, Crash(w) PROVE LockHeldInside'
  BY <1>26 DEF Crash
<1>27. ASSUME NEW w \in Writers, Restart(w) PROVE LockHeldInside'
  BY <1>27 DEF Restart
<1>28. CASE SyncByOther
  BY <1>28 DEF SyncByOther
<1>29. CASE PushByOthers
  BY <1>29 DEF PushByOthers
<1>30. CASE UserPulls
  BY <1>30 DEF UserPulls
<1>31. CASE UserSwitches
  BY <1>31 DEF UserSwitches
<1>32. ASSUME NEW p \in Paths, UserEdits(p) PROVE LockHeldInside'
  BY <1>32 DEF UserEdits
<1>33. ASSUME NEW w \in Writers, Truncate(w) PROVE LockHeldInside'
  BY <1>33 DEF Truncate, Goto
<1>34. ASSUME NEW w \in Writers, Fill(w) PROVE LockHeldInside'
  BY <1>34 DEF Fill, Goto
<1>35. ASSUME NEW w \in Writers, PlaceFails(w) PROVE LockHeldInside'
  BY <1>35 DEF PlaceFails, Answer, AnswerIndexed, LockReleased
<1>36. ASSUME NEW w \in Writers, IndexInPlace(w) PROVE LockHeldInside'
  BY <1>36 DEF IndexInPlace, AnswerIndexed, LockReleased
<1>37. ASSUME NEW w \in Writers, IndexRaises(w) PROVE LockHeldInside'
  BY <1>37 DEF IndexRaises, Answer, AnswerIndexed, LockReleased
<1>38. QED
  BY <1>1, <1>2, <1>3, <1>4, <1>5, <1>6, <1>7, <1>8, <1>9, <1>10, <1>11, <1>12, <1>13, <1>14, <1>15, <1>16, <1>17, <1>18, <1>19, <1>20, <1>21, <1>22, <1>23, <1>24, <1>25, <1>26, <1>27, <1>28, <1>29, <1>30, <1>31, <1>32, <1>33, <1>34, <1>35, <1>36, <1>37
  DEF Next, Step, StepFails

(***************************************************************************)
(* What the invariant says of one call and its last answer.                *)
(***************************************************************************)
CallInv(w) ==
    /\ base[w] <= Len(branch)
    /\ pc[w] = "push" => PathOf[note[w]] \notin PathsUpTo(branch, base[w])
    /\ pc[w] \in Pushed => IsPublished(branch, commit[w], note[w])
    /\ reply[w].status = "written_and_pushed" =>
            IsPublished(branch, reply[w].commit, reply[w].note)

\* The invariant, call by call.
LEMMA CallByCall ==
  (BasesArePast /\ TargetIsFree /\ PushedIsCommitted /\ ReportedIsPublished)
    <=> (tracking <= Len(branch) /\ \A w \in Writers : CallInv(w))
  BY DEF BasesArePast, TargetIsFree, PushedIsCommitted, ReportedIsPublished, CallInv, PathsAt

\* A call that does nothing keeps it while the branch grows.
LEMMA CallKept ==
  ASSUME TypeOK, TypeOK', Grows(branch, branch'), NEW w \in Writers, CallInv(w),
         pc'[w] = pc[w], note'[w] = note[w], base'[w] = base[w], commit'[w] = commit[w],
         reply'[w] = reply[w]
  PROVE  CallInv(w)'
<1>1. /\ branch \in Seq(Log!Change) /\ branch' \in Seq(Log!Change)
      /\ note[w] \in Notes /\ base[w] \in Nat /\ commit[w] \in Nat /\ reply[w] \in Replies
  BY DEF TypeOK, RepositoryTypeOK, CallTypeOK
<1>2. reply[w].commit \in Nat /\ reply[w].note \in Notes
  BY <1>1 DEF Replies
<1>3. Len(branch) \in Nat /\ Len(branch') \in Nat /\ Len(branch) <= Len(branch')
  BY <1>1 DEF Grows
<1>4. base[w] <= Len(branch)
  BY DEF CallInv
<1>5. base[w] <= Len(branch')
  BY <1>1, <1>3, <1>4
<1>6. PathsUpTo(branch', base[w]) = PathsUpTo(branch, base[w])
  BY <1>1, <1>3, <1>4, GrowsKeeps
<1>7. IsPublished(branch, commit[w], note[w]) => IsPublished(branch', commit[w], note[w])
  BY <1>1, GrowsKeeps
<1>8. IsPublished(branch, reply[w].commit, reply[w].note)
        => IsPublished(branch', reply[w].commit, reply[w].note)
  BY <1>1, <1>2, GrowsKeeps
<1>9. QED
  BY <1>5, <1>6, <1>7, <1>8 DEF CallInv

\* A call that answers keeps it; written_and_pushed is only said after a push.
LEMMA AnswerKeeps ==
  ASSUME TypeOK, TypeOK', Grows(branch, branch'), \A v \in Writers : CallInv(v),
         NEW w \in Writers, NEW s \in Statuses, NEW i \in BOOLEAN, AnswerIndexed(w, s, i),
         s = "written_and_pushed" => pc[w] \in Pushed
  PROVE  \A v \in Writers : CallInv(v)'
<1>1. SUFFICES ASSUME NEW v \in Writers PROVE CallInv(v)'
  OBVIOUS
<1>2. CASE v # w
  BY <1>2, CallKept DEF AnswerIndexed, TypeOK, CallTypeOK
<1>3. CASE v = w
  <2>1. /\ branch \in Seq(Log!Change) /\ branch' \in Seq(Log!Change)
        /\ note[w] \in Notes /\ commit[w] \in Nat
    BY DEF TypeOK, RepositoryTypeOK, CallTypeOK
  <2>2. pc'[w] = "idle" /\ base'[w] = 0
    BY DEF AnswerIndexed, TypeOK, CallTypeOK
  <2>3. reply'[w].status = s /\ reply'[w].note = note[w] /\ reply'[w].commit = commit[w]
    BY DEF AnswerIndexed, TypeOK, CallTypeOK
  <2>4. s = "written_and_pushed" => IsPublished(branch', commit[w], note[w])
    BY <2>1, GrowsKeeps DEF CallInv
  <2>5. QED
    BY <1>3, <2>1, <2>2, <2>3, <2>4 DEF CallInv, Pushed
<1>4. QED
  BY <1>2, <1>3

\* A call that goes on keeps it, except to a push it has not prepared.
LEMMA GotoKeeps ==
  ASSUME TypeOK, TypeOK', UNCHANGED branch, \A v \in Writers : CallInv(v),
         NEW w \in Writers, NEW l, l \in Pushed => pc[w] \in Pushed,
         l = "push" => PathOf[note[w]] \notin PathsUpTo(branch, base[w]),
         Goto(w, l)
  PROVE  \A v \in Writers : CallInv(v)'
  BY DEF CallInv, Goto, call, TypeOK, CallTypeOK

\* A call that tries again keeps it.
LEMMA RetryKeeps ==
  ASSUME TypeOK, TypeOK', UNCHANGED branch, Grows(branch, branch'),
         \A v \in Writers : CallInv(v), NEW w \in Writers, Retry(w)
  PROVE  \A v \in Writers : CallInv(v)'
<1>1. CASE attempt[w] = 1
  BY <1>1 DEF Retry, CallInv, TypeOK, CallTypeOK, Pushed
<1>2. CASE attempt[w] # 1
  BY <1>2, AnswerKeeps DEF Retry, Answer, Statuses
<1>3. QED
  BY <1>1, <1>2

\* The tracking branch is of a commit the branch has had.
LEMMA TrackingStep ==
  TypeOK /\ tracking <= Len(branch) /\ (\A w \in Writers : CallInv(w)) /\ [Next]_vars
    => tracking' <= Len(branch')
<1> SUFFICES ASSUME TypeOK, tracking <= Len(branch), \A w \in Writers : CallInv(w), [Next]_vars
             PROVE  tracking' <= Len(branch')
  OBVIOUS
<1>1. /\ tracking \in Nat /\ Len(branch) \in Nat /\ Len(branch') \in Nat
      /\ Len(branch) <= Len(branch')
  BY BranchGrows, TypeStep DEF Grows, TypeOK, RepositoryTypeOK
<1>2. CASE tracking' \in {tracking, Len(branch)}
  BY <1>1, <1>2
<1>3. ASSUME NEW w \in Writers, Push(w) PROVE tracking' <= Len(branch')
  <2>1. Len(branch') = Len(branch) + 1 /\ Len(branch) = base[w]
    BY <1>3, Appended DEF Push, Landed, TypeOK, RepositoryTypeOK
  <2>2. QED
    BY <1>1, <1>3, <2>1 DEF Push
<1>4. QED
  BY <1>2, <1>3 DEF vars, checkout, Next, Step, StepFails, Request, Acquire, Reclaim, TimeOut, Fetch,
     FetchFails, AddWorktree, Write, WriteFails, Rejected, Declined, PushFails,
     CheckWorkspace, Refetch, RefetchFails, Merge, IndexNote, Cleanup, RaisesLate,
     SyncAfterPush, Synchronize, SyncFails, Confirm, ConfirmChunks, Crash, Restart,
     SyncByOther, PushByOthers, UserPulls, UserSwitches, UserEdits, Truncate, Fill, PlaceFails, IndexInPlace,
     IndexRaises

\* Every step keeps what the invariant says of the calls.
LEMMA CallStep ==
  TypeOK /\ tracking <= Len(branch) /\ (\A v \in Writers : CallInv(v)) /\ [Next]_vars
    => \A v \in Writers : CallInv(v)'
<1> SUFFICES ASSUME TypeOK, tracking <= Len(branch), \A v \in Writers : CallInv(v), [Next]_vars
             PROVE  \A v \in Writers : CallInv(v)'
  OBVIOUS
<1>0. TypeOK' /\ Grows(branch, branch')
  BY TypeStep, BranchGrows
<1> DEFINE Kept == \A v \in Writers : CallInv(v)'
<1>1. CASE UNCHANGED vars
  BY <1>0, <1>1, CallKept DEF vars, call
<1>2. ASSUME NEW w \in Writers, NEW n \in Notes, Request(w, n) PROVE Kept
  <2>1. SUFFICES ASSUME NEW v \in Writers PROVE CallInv(v)'
    OBVIOUS
  <2>2. CASE v # w
    BY <1>0, <1>2, <2>2, CallKept DEF Request, Begin, TypeOK, CallTypeOK
  <2>3. CASE v = w
    <3>1. pc'[w] \in {"idle", "lock", "place"} /\ reply'[w].status \in {"none", "TARGET_EXISTS"}
      BY <1>2 DEF Request, Begin, TypeOK, CallTypeOK, NoReply
    <3>2. base'[w] = base[w] /\ branch' = branch
      BY <1>2 DEF Request
    <3>3. QED
      BY <2>3, <3>1, <3>2 DEF CallInv, Pushed
  <2>4. QED
    BY <2>2, <2>3
<1>3. ASSUME NEW w \in Writers, Acquire(w) PROVE Kept
  BY <1>0, <1>3, CallKept DEF Acquire, call, CallInv, TypeOK, CallTypeOK, Pushed
<1>4. ASSUME NEW w \in Writers, Reclaim(w) PROVE Kept
  BY <1>0, <1>4, CallKept DEF Reclaim, call, CallInv, TypeOK, CallTypeOK, Pushed
<1>5. ASSUME NEW w \in Writers, TimeOut(w) PROVE Kept
  BY <1>0, <1>5, AnswerKeeps DEF TimeOut, Answer, Statuses
<1>6. ASSUME NEW w \in Writers, Fetch(w) PROVE Kept
  BY <1>0, <1>6, GotoKeeps DEF Fetch, Pushed
<1>7. ASSUME NEW w \in Writers, FetchFails(w) PROVE Kept
  BY <1>0, <1>7, AnswerKeeps DEF FetchFails, Fails, Answer, Statuses
<1>8. ASSUME NEW w \in Writers, AddWorktree(w) PROVE Kept
  <2>1. tracking \in Nat /\ branch \in Seq(Log!Change)
    BY DEF TypeOK, RepositoryTypeOK
  <2>2. QED
    BY <1>8, <2>1 DEF AddWorktree, CallInv, TypeOK, CallTypeOK, Pushed
<1>9. ASSUME NEW w \in Writers, Write(w) PROVE Kept
  <2>1. CASE PathOf[note[w]] \in PathsAt(base[w])
    BY <1>0, <1>9, <2>1, AnswerKeeps DEF Write, Answer, Statuses
  <2>2. CASE PathOf[note[w]] \notin PathsAt(base[w])
    BY <1>0, <1>9, <2>2, GotoKeeps DEF Write, PathsAt, Pushed
  <2>3. QED
    BY <2>1, <2>2
<1>10. ASSUME NEW w \in Writers, WriteFails(w) PROVE Kept
  BY <1>0, <1>10, AnswerKeeps DEF WriteFails, Fails, Answer, Statuses
<1>11. ASSUME NEW w \in Writers, Push(w) PROVE Kept
  <2>1. SUFFICES ASSUME NEW v \in Writers PROVE CallInv(v)'
    OBVIOUS
  <2>2. CASE v # w
    BY <1>0, <1>11, <2>2, CallKept DEF Push, TypeOK, CallTypeOK
  <2>3. CASE v = w
    <3> DEFINE c == [path |-> PathOf[note[w]], text |-> note[w]]
    <3>1. /\ branch \in Seq(Log!Change) /\ c \in Log!Change
          /\ branch' = Append(branch, c) /\ Len(branch) = base[w]
      BY <1>11 DEF Push, Landed, TypeOK, RepositoryTypeOK, CallTypeOK, Log!Change
    <3>2. Len(branch') = base[w] + 1 /\ branch'[base[w] + 1] = c
      BY <3>1, Appended
    <3>3. IsCommitOf(branch', base[w] + 1, note[w]) /\ base[w] + 1 \in 1..Len(branch')
      BY <3>1, <3>2 DEF IsCommitOf
    <3>4. commit'[w] \in {0, base[w] + 1} /\ pc'[w] # "push" /\ base'[w] <= Len(branch')
      BY <1>11, <3>1, <3>2 DEF Push, TypeOK, CallTypeOK
    <3>5. IsPublished(branch', commit'[w], note[w])
      BY <3>3, <3>4 DEF IsPublished
    <3>6. /\ branch \in Seq(Log!Change) /\ branch' \in Seq(Log!Change) /\ reply[w] \in Replies
          /\ reply'[w] = reply[w] /\ note'[w] = note[w]
      BY <1>0, <1>11 DEF Push, TypeOK, RepositoryTypeOK, CallTypeOK
    <3>7. reply'[w].status = "written_and_pushed" =>
            IsPublished(branch', reply'[w].commit, reply'[w].note)
      <4>1. reply[w].commit \in Nat /\ reply[w].note \in Notes
        BY <3>6 DEF Replies
      <4>2. IsPublished(branch, reply[w].commit, reply[w].note)
              => IsPublished(branch', reply[w].commit, reply[w].note)
        BY <1>0, <3>6, <4>1, GrowsKeeps
      <4>3. QED
        BY <3>6, <4>2 DEF CallInv
    <3>8. QED
      BY <2>3, <3>4, <3>5, <3>6, <3>7 DEF CallInv
  <2>4. QED
    BY <2>2, <2>3
<1>12. ASSUME NEW w \in Writers, Rejected(w) PROVE Kept
  BY <1>0, <1>12, RetryKeeps DEF Rejected
<1>13. ASSUME NEW w \in Writers, Declined(w) PROVE Kept
  BY <1>0, <1>13, RetryKeeps DEF Declined
<1>14. ASSUME NEW w \in Writers, PushFails(w) PROVE Kept
  BY <1>0, <1>14, AnswerKeeps DEF PushFails, Fails, Answer, Statuses
<1>15. ASSUME NEW w \in Writers, CheckWorkspace(w) PROVE Kept
  BY <1>0, <1>15, GotoKeeps DEF CheckWorkspace, Pushed
<1>16. ASSUME NEW w \in Writers, Refetch(w) PROVE Kept
  BY <1>0, <1>16, GotoKeeps DEF Refetch, Pushed
<1>17. ASSUME NEW w \in Writers, RefetchFails(w) PROVE Kept
  BY <1>0, <1>17, GotoKeeps DEF RefetchFails, Pushed
<1>18. ASSUME NEW w \in Writers, Merge(w) PROVE Kept
  BY <1>0, <1>18, GotoKeeps DEF Merge, Pushed
<1>19. ASSUME NEW w \in Writers, IndexNote(w) PROVE Kept
  BY <1>0, <1>19, CallKept DEF IndexNote, call, CallInv, TypeOK, CallTypeOK, Pushed
<1>20. ASSUME NEW w \in Writers, Cleanup(w) PROVE Kept
  <2>1. CASE mode = "workspace"
    <3>1. found[w] \in BOOLEAN
      BY DEF TypeOK, CallTypeOK
    <3>2. QED
      BY <1>0, <1>20, <2>1, <3>1, AnswerKeeps DEF Cleanup, Statuses, Pushed
  <2>2. CASE mode # "workspace"
    BY <1>20, <2>2 DEF Cleanup, call, CallInv, TypeOK, CallTypeOK, Pushed
  <2>3. QED
    BY <2>1, <2>2
<1>21. ASSUME NEW w \in Writers, RaisesLate(w) PROVE Kept
  BY <1>0, <1>21, AnswerKeeps DEF RaisesLate, Answer, Statuses
<1>22. ASSUME NEW w \in Writers, SyncAfterPush(w) PROVE Kept
  BY <1>0, <1>22, GotoKeeps DEF SyncAfterPush, Pushed
<1>23. ASSUME NEW w \in Writers, SyncFails(w) PROVE Kept
  BY <1>0, <1>23, AnswerKeeps DEF SyncFails, Answer, Statuses, Pushed
<1>24. ASSUME NEW w \in Writers, Confirm(w) PROVE Kept
  <2>1. CASE stamp = commit[w]
    BY <1>0, <1>24, <2>1, GotoKeeps DEF Confirm, Pushed
  <2>2. CASE stamp # commit[w]
    BY <1>0, <1>24, <2>2, AnswerKeeps DEF Confirm, Answer, Statuses, Pushed
  <2>3. QED
    BY <2>1, <2>2
<1>25. ASSUME NEW w \in Writers, ConfirmChunks(w) PROVE Kept
  <2>1. HasChunks(w) \in BOOLEAN
    BY DEF HasChunks
  <2>2. QED
    BY <1>0, <1>25, <2>1, AnswerKeeps DEF ConfirmChunks, Statuses, Pushed
<1>26. ASSUME NEW w \in Writers, Crash(w) PROVE Kept
  <2>1. branch \in Seq(Log!Change)
    BY DEF TypeOK, RepositoryTypeOK
  <2>2. QED
    BY <1>26, <2>1 DEF Crash, CallInv, TypeOK, CallTypeOK, Pushed, NoReply
<1>27. ASSUME NEW w \in Writers, Restart(w) PROVE Kept
  BY <1>0, <1>27, CallKept DEF Restart, call, CallInv, TypeOK, CallTypeOK, Pushed
<1>28. CASE SyncByOther
  BY <1>0, <1>28, CallKept DEF SyncByOther, call
<1>29. CASE PushByOthers
  BY <1>0, <1>29, CallKept DEF PushByOthers, call
<1>30. CASE UserPulls
  BY <1>0, <1>30, CallKept DEF UserPulls, call
<1>31. CASE UserSwitches
  BY <1>0, <1>31, CallKept DEF UserSwitches, call
<1>32. ASSUME NEW p \in Paths, UserEdits(p) PROVE Kept
  BY <1>0, <1>32, CallKept DEF UserEdits, call
<1>33. ASSUME NEW w \in Writers, Truncate(w) PROVE Kept
  BY <1>0, <1>33, GotoKeeps DEF Truncate, Pushed
<1>34. ASSUME NEW w \in Writers, Fill(w) PROVE Kept
  BY <1>0, <1>34, GotoKeeps DEF Fill, Pushed
<1>35. ASSUME NEW w \in Writers, PlaceFails(w) PROVE Kept
  BY <1>0, <1>35, AnswerKeeps DEF PlaceFails, Answer, Statuses
<1>36. ASSUME NEW w \in Writers, IndexInPlace(w) PROVE Kept
  BY <1>0, <1>36, AnswerKeeps DEF IndexInPlace, Statuses
<1>37. ASSUME NEW w \in Writers, IndexRaises(w) PROVE Kept
  BY <1>0, <1>37, AnswerKeeps DEF IndexRaises, Answer, Statuses
<1>38. QED
  BY <1>1, <1>2, <1>3, <1>4, <1>5, <1>6, <1>7, <1>8, <1>9, <1>10, <1>11, <1>12, <1>13, <1>14, <1>15, <1>16, <1>17, <1>18, <1>19, <1>20, <1>21, <1>22, <1>23, <1>24, <1>25, <1>26, <1>27, <1>28, <1>29, <1>30, <1>31, <1>32, <1>33, <1>34, <1>35, <1>36, <1>37 DEF Next, Step, StepFails

\* What is written in place, file by file.
PlaceInv == FileInPlace /\ OneInPlace /\ WrittenIsKept

\* A call that is not, and will not be, at a file in place keeps that.
LEMMA PlaceKept ==
  ASSUME PlaceInv, UNCHANGED <<own, raced>>, NEW w,
         \A v \in Writers \ {w} : pc'[v] = pc[v] /\ note'[v] = note[v] /\ reply'[v] = reply[v],
         pc'[w] \notin {"place", "fill", "reindex"},
         reply'[w].status \in InPlaceStatuses => reply'[w] = reply[w]
  PROVE  PlaceInv'
<1>1. FileInPlace'
  BY DEF PlaceInv, FileInPlace
<1>2. OneInPlace'
  BY DEF PlaceInv, OneInPlace
<1>3. WrittenIsKept'
  BY DEF PlaceInv, WrittenIsKept
<1>4. QED
  BY <1>1, <1>2, <1>3 DEF PlaceInv

\* A step of nobody's call keeps it.
LEMMA PlaceUntouched ==
  ASSUME PlaceInv, UNCHANGED <<own, raced, pc, note, reply>>
  PROVE  PlaceInv'
  BY DEF PlaceInv, FileInPlace, OneInPlace, WrittenIsKept

\* So does a call that goes on to some other place.
LEMMA GotoPlace ==
  ASSUME CallTypeOK, PlaceInv, UNCHANGED <<own, raced>>, NEW w \in Writers, NEW l,
         l \notin {"place", "fill", "reindex"}, Goto(w, l)
  PROVE  PlaceInv'
  BY PlaceKept DEF Goto, call, CallTypeOK

\* And one that answers anything but local_only and written.
LEMMA AnswerPlace ==
  ASSUME CallTypeOK, PlaceInv, UNCHANGED <<own, raced>>, NEW w \in Writers, NEW s, NEW i,
         s \notin InPlaceStatuses, AnswerIndexed(w, s, i)
  PROVE  PlaceInv'
  BY PlaceKept DEF AnswerIndexed, CallTypeOK

\* Or tries again.
LEMMA RetryPlace ==
  ASSUME CallTypeOK, PlaceInv, UNCHANGED <<own, raced>>, NEW w \in Writers, Retry(w)
  PROVE  PlaceInv'
<1>1. CASE attempt[w] = 1
  BY <1>1, PlaceKept DEF Retry, CallTypeOK
<1>2. CASE attempt[w] # 1
  BY <1>2, AnswerPlace DEF Retry, Answer, InPlaceStatuses
<1>3. QED
  BY <1>1, <1>2

\* A file in place changes by the calls at it, which are one unless they raced,
\* and by a user, whom a call at it keeps away or marks.
LEMMA PlaceStep == TypeOK /\ PlaceInv /\ [Next]_vars => PlaceInv'
<1> SUFFICES ASSUME TypeOK, PlaceInv, [Next]_vars PROVE PlaceInv'
  OBVIOUS
<1> CallTypeOK /\ own \in [Paths -> Files]
  BY DEF TypeOK, RepositoryTypeOK
<1> USE DEF checkout
<1>1. CASE UNCHANGED vars
  BY <1>1, PlaceUntouched DEF vars, call
<1>2. ASSUME NEW w \in Writers, NEW n \in Notes, Request(w, n) PROVE PlaceInv'
  <2> DEFINE p == PathOf[n]
  <2>1. CASE p \in Present
    BY <1>2, <2>1, PlaceKept DEF Request, CallTypeOK, Locations, InPlaceStatuses
  <2>2. CASE p \notin Present
    <3>1. own[p] = Missing
      BY <2>2 DEF Present, Own
    <3>2. UNCHANGED own /\ raced \subseteq raced'
      BY <1>2 DEF Request
    <3>3. p \in raced' \/ ~Awaited(p)
      BY <1>2, <2>2 DEF Request
    <3>4. /\ note'[w] = n /\ pc'[w] \in {"place", "lock"} /\ reply'[w].status = "none"
          /\ \A v \in Writers \ {w} : pc'[v] = pc[v] /\ note'[v] = note[v] /\ reply'[v] = reply[v]
      BY <1>2, <2>2 DEF Request, Begin, CallTypeOK, NoReply
    <3>5. FileInPlace'
      BY <3>1, <3>2, <3>4 DEF PlaceInv, FileInPlace
    <3>6. OneInPlace'
      BY <3>2, <3>3, <3>4 DEF PlaceInv, OneInPlace, Awaited
    <3>7. WrittenIsKept'
      BY <3>2, <3>4 DEF PlaceInv, WrittenIsKept, InPlaceStatuses
    <3>8. QED
      BY <3>5, <3>6, <3>7 DEF PlaceInv
  <2>3. QED
    BY <2>1, <2>2
<1>3. ASSUME NEW w \in Writers, Acquire(w) PROVE PlaceInv'
  BY <1>3, PlaceKept DEF Acquire, call, CallTypeOK
<1>4. ASSUME NEW w \in Writers, Reclaim(w) PROVE PlaceInv'
  BY <1>4, PlaceUntouched DEF Reclaim, call
<1>5. ASSUME NEW w \in Writers, TimeOut(w) PROVE PlaceInv'
  BY <1>5, AnswerPlace DEF TimeOut, Answer, InPlaceStatuses
<1>6. ASSUME NEW w \in Writers, Fetch(w) PROVE PlaceInv'
  BY <1>6, GotoPlace DEF Fetch
<1>7. ASSUME NEW w \in Writers, FetchFails(w) PROVE PlaceInv'
  BY <1>7, AnswerPlace DEF FetchFails, Fails, Answer, InPlaceStatuses
<1>8. ASSUME NEW w \in Writers, AddWorktree(w) PROVE PlaceInv'
  BY <1>8, PlaceKept DEF AddWorktree, call, CallTypeOK
<1>9. ASSUME NEW w \in Writers, Write(w) PROVE PlaceInv'
  BY <1>9, GotoPlace, AnswerPlace DEF Write, Answer, InPlaceStatuses
<1>10. ASSUME NEW w \in Writers, WriteFails(w) PROVE PlaceInv'
  BY <1>10, AnswerPlace DEF WriteFails, Fails, Answer, InPlaceStatuses
<1>11. ASSUME NEW w \in Writers, Push(w) PROVE PlaceInv'
  BY <1>11, PlaceKept DEF Push, call, CallTypeOK
<1>12. ASSUME NEW w \in Writers, Rejected(w) PROVE PlaceInv'
  BY <1>12, RetryPlace DEF Rejected
<1>13. ASSUME NEW w \in Writers, Declined(w) PROVE PlaceInv'
  BY <1>13, RetryPlace DEF Declined
<1>14. ASSUME NEW w \in Writers, PushFails(w) PROVE PlaceInv'
  BY <1>14, AnswerPlace DEF PushFails, Fails, Answer, InPlaceStatuses
<1>15. ASSUME NEW w \in Writers, CheckWorkspace(w) PROVE PlaceInv'
  BY <1>15, GotoPlace DEF CheckWorkspace
<1>16. ASSUME NEW w \in Writers, Refetch(w) PROVE PlaceInv'
  BY <1>16, GotoPlace DEF Refetch
<1>17. ASSUME NEW w \in Writers, RefetchFails(w) PROVE PlaceInv'
  BY <1>17, GotoPlace DEF RefetchFails
<1>18. ASSUME NEW w \in Writers, Merge(w) PROVE PlaceInv'
  BY <1>18, GotoPlace DEF Merge
<1>19. ASSUME NEW w \in Writers, IndexNote(w) PROVE PlaceInv'
  BY <1>19, PlaceKept DEF IndexNote, call, CallTypeOK
<1>20. ASSUME NEW w \in Writers, Cleanup(w) PROVE PlaceInv'
  <2>1. CASE mode = "workspace"
    BY <1>20, <2>1, AnswerPlace DEF Cleanup, InPlaceStatuses
  <2>2. CASE mode # "workspace"
    BY <1>20, <2>2, PlaceKept DEF Cleanup, call, CallTypeOK
  <2>3. QED
    BY <2>1, <2>2
<1>21. ASSUME NEW w \in Writers, RaisesLate(w) PROVE PlaceInv'
  BY <1>21, AnswerPlace DEF RaisesLate, Answer, InPlaceStatuses
<1>22. ASSUME NEW w \in Writers, SyncAfterPush(w) PROVE PlaceInv'
  BY <1>22, GotoPlace DEF SyncAfterPush
<1>23. ASSUME NEW w \in Writers, SyncFails(w) PROVE PlaceInv'
  BY <1>23, AnswerPlace DEF SyncFails, Answer, InPlaceStatuses
<1>24. ASSUME NEW w \in Writers, Confirm(w) PROVE PlaceInv'
  BY <1>24, GotoPlace, AnswerPlace DEF Confirm, Answer, InPlaceStatuses
<1>25. ASSUME NEW w \in Writers, ConfirmChunks(w) PROVE PlaceInv'
  BY <1>25, AnswerPlace DEF ConfirmChunks, InPlaceStatuses
<1>26. ASSUME NEW w \in Writers, Crash(w) PROVE PlaceInv'
  BY <1>26, PlaceKept DEF Crash, CallTypeOK, NoReply, InPlaceStatuses
<1>27. ASSUME NEW w \in Writers, Restart(w) PROVE PlaceInv'
  BY <1>27, PlaceKept DEF Restart, call, CallTypeOK
<1>28. CASE SyncByOther
  BY <1>28, PlaceUntouched DEF SyncByOther, call
<1>29. CASE PushByOthers
  BY <1>29, PlaceUntouched DEF PushByOthers, call
<1>30. CASE UserPulls
  BY <1>30, PlaceUntouched DEF UserPulls, call
<1>31. CASE UserSwitches
  BY <1>31, PlaceUntouched DEF UserSwitches, call
<1>32. ASSUME NEW p \in Paths, UserEdits(p) PROVE PlaceInv'
  <2>1. UNCHANGED <<pc, note, reply>> /\ raced \subseteq raced'
    BY <1>32 DEF UserEdits, call
  <2>2. \A q \in Paths \ {p} : own'[q] = own[q]
    BY <1>32 DEF UserEdits
  <2>3. CASE p \notin Present
    <3>1. own[p] = Missing /\ p \notin {q \in Paths : own[q] \in Others \cup {Torn}}
      BY <2>3 DEF Present, Own
    <3>2. p \in raced' \/ ~Awaited(p)
      BY <1>32, <2>3, <3>1 DEF UserEdits
    <3>3. QED
      BY <2>1, <2>2, <3>1, <3>2 DEF PlaceInv, FileInPlace, OneInPlace, WrittenIsKept, Awaited, CallTypeOK, Replies
  <2>4. CASE p \in Present
    <3>1. /\ own[p] \in Others \cup {Torn} /\ own'[p] = Missing
          /\ ~\E w \in Writers : pc[w] = "fill" /\ PathOf[note[w]] = p
      BY <1>32, <2>4 DEF UserEdits
    <3>2. QED
      BY <2>1, <2>2, <3>1 DEF PlaceInv, FileInPlace, OneInPlace, WrittenIsKept, CallTypeOK, Replies
  <2>5. QED
    BY <2>3, <2>4
<1>33. ASSUME NEW w \in Writers, Truncate(w) PROVE PlaceInv'
  <2> DEFINE p == PathOf[note[w]]
  <2>1. /\ UNCHANGED <<note, reply, raced>> /\ pc[w] = "place" /\ pc' = [pc EXCEPT ![w] = "fill"]
        /\ own' = [own EXCEPT ![p] = Torn]
    BY <1>33 DEF Truncate, Goto, call
  <2>2. p \in Paths /\ own'[p] = Torn /\ \A q \in Paths \ {p} : own'[q] = own[q]
    BY <2>1 DEF CallTypeOK
  <2>3. p \in raced \/ own[p] = Missing
    BY <2>1 DEF PlaceInv, FileInPlace
  <2>4. p \in raced \/ \A v \in Writers \ {w} : PathOf[note[v]] = p => pc[v] \notin {"place", "fill", "reindex"}
    BY <2>1, <2>3 DEF PlaceInv, FileInPlace, OneInPlace, CallTypeOK
  <2>5. FileInPlace'
    BY <2>1, <2>2, <2>4 DEF PlaceInv, FileInPlace, CallTypeOK
  <2>6. OneInPlace'
    BY <2>1, <2>4 DEF PlaceInv, OneInPlace, CallTypeOK
  <2>7. WrittenIsKept'
    BY <2>1, <2>2, <2>3 DEF PlaceInv, WrittenIsKept, CallTypeOK, Replies
  <2>8. QED
    BY <2>5, <2>6, <2>7 DEF PlaceInv
<1>34. ASSUME NEW w \in Writers, Fill(w) PROVE PlaceInv'
  <2> DEFINE p == PathOf[note[w]]
  <2>1. /\ UNCHANGED <<note, reply, raced>> /\ pc[w] = "fill" /\ pc' = [pc EXCEPT ![w] = "reindex"]
        /\ own' = [own EXCEPT ![p] = note[w]] \/ (own[p] # Torn /\ own' = [own EXCEPT ![p] = Torn])
    BY <1>34 DEF Fill, Goto, call
  <2>2. p \in Paths /\ \A q \in Paths \ {p} : own'[q] = own[q]
    BY <2>1 DEF CallTypeOK
  <2>3. p \in raced \/ (own[p] = Torn /\ own'[p] = note[w])
    BY <2>1, <2>2 DEF PlaceInv, FileInPlace
  <2>4. p \in raced \/ \A v \in Writers \ {w} : PathOf[note[v]] = p => pc[v] \notin {"place", "fill", "reindex"}
    BY <2>1, <2>3 DEF PlaceInv, FileInPlace, OneInPlace, CallTypeOK
  <2>5. FileInPlace'
    BY <2>1, <2>2, <2>3, <2>4 DEF PlaceInv, FileInPlace, CallTypeOK
  <2>6. OneInPlace'
    BY <2>1, <2>4 DEF PlaceInv, OneInPlace, CallTypeOK
  <2>7. WrittenIsKept'
    BY <2>1, <2>2, <2>3 DEF PlaceInv, WrittenIsKept, CallTypeOK, Replies
  <2>8. QED
    BY <2>5, <2>6, <2>7 DEF PlaceInv
<1>35. ASSUME NEW w \in Writers, PlaceFails(w) PROVE PlaceInv'
  <2> DEFINE p == PathOf[note[w]]
  <2>1. Answer(w, "WRITE_FAILED") /\ UNCHANGED raced
    BY <1>35 DEF PlaceFails
  <2>2. CASE UNCHANGED own
    BY <2>1, <2>2, AnswerPlace DEF Answer, InPlaceStatuses
  <2>3. CASE pc[w] = "fill" /\ own' = [own EXCEPT ![p] = Torn]
    <3>1. p \in raced \/ own[p] = Torn
      BY <2>3 DEF PlaceInv, FileInPlace
    <3>2. CASE own[p] = Torn
      <4>1. UNCHANGED own
        BY <2>3, <3>2
      <4>2. QED
        BY <2>2, <4>1
    <3>3. CASE p \in raced
      <4>1. /\ pc'[w] = "idle" /\ reply'[w].status \notin InPlaceStatuses
            /\ \A v \in Writers \ {w} : pc'[v] = pc[v] /\ note'[v] = note[v] /\ reply'[v] = reply[v]
        BY <2>1 DEF Answer, AnswerIndexed, CallTypeOK, InPlaceStatuses
      <4>2. \A q \in Paths \ raced : own'[q] = own[q]
        BY <2>3, <3>3
      <4>3. \A v \in Writers : PathOf[note[v]] \in Paths /\ PathOf[reply[v].note] \in Paths
        BY DEF CallTypeOK, Replies
      <4>4. FileInPlace'
        BY <2>1, <4>1, <4>2, <4>3 DEF PlaceInv, FileInPlace
      <4>5. OneInPlace'
        BY <2>1, <4>1 DEF PlaceInv, OneInPlace
      <4>6. WrittenIsKept'
        BY <2>1, <4>1, <4>2, <4>3 DEF PlaceInv, WrittenIsKept
      <4>7. QED
        BY <4>4, <4>5, <4>6 DEF PlaceInv
    <3>4. QED
      BY <3>1, <3>2, <3>3
  <2>4. QED
    BY <1>35, <2>2, <2>3 DEF PlaceFails
<1>36. ASSUME NEW w \in Writers, IndexInPlace(w) PROVE PlaceInv'
  <2> DEFINE p == PathOf[note[w]]
  <2>1. UNCHANGED <<own, raced>> /\ pc[w] = "reindex" /\ \E s, i : AnswerIndexed(w, s, i)
    BY <1>36 DEF IndexInPlace
  <2>2. p \in raced \/ own[p] = note[w]
    BY <2>1 DEF PlaceInv, FileInPlace
  <2>3. /\ pc'[w] = "idle" /\ reply'[w].note = note[w]
        /\ \A v \in Writers \ {w} : pc'[v] = pc[v] /\ note'[v] = note[v] /\ reply'[v] = reply[v]
    BY <2>1 DEF AnswerIndexed, CallTypeOK
  <2>4. QED
    BY <2>1, <2>2, <2>3 DEF PlaceInv, FileInPlace, OneInPlace, WrittenIsKept
<1>37. ASSUME NEW w \in Writers, IndexRaises(w) PROVE PlaceInv'
  BY <1>37, AnswerPlace DEF IndexRaises, Answer, InPlaceStatuses
<1>38. QED
  BY <1>1, <1>2, <1>3, <1>4, <1>5, <1>6, <1>7, <1>8, <1>9, <1>10, <1>11, <1>12, <1>13, <1>14, <1>15, <1>16, <1>17, <1>18, <1>19, <1>20, <1>21, <1>22, <1>23, <1>24, <1>25, <1>26, <1>27, <1>28, <1>29, <1>30, <1>31, <1>32, <1>33, <1>34, <1>35, <1>36, <1>37
  DEF Next, Step, StepFails

(***************************************************************************)
(* What the invariant says of the lock, the branch and the files.          *)
(***************************************************************************)
CoreInv ==
    /\ TypeOK
    /\ LockHeldInside
    /\ BasesArePast
    /\ TargetIsFree
    /\ PushedIsCommitted
    /\ ReportedIsPublished
    /\ PlaceInv

\* That much is inductive by itself.
LEMMA CoreStep == CoreInv /\ [Next]_vars => CoreInv'
<1> SUFFICES ASSUME CoreInv, [Next]_vars PROVE CoreInv'
  OBVIOUS
<1>1. TypeOK' /\ LockHeldInside'
  BY TypeStep, LockStep DEF CoreInv
<1>2. tracking <= Len(branch) /\ \A w \in Writers : CallInv(w)
  BY CallByCall DEF CoreInv
<1>3. tracking' <= Len(branch') /\ \A w \in Writers : CallInv(w)'
  BY <1>2, TrackingStep, CallStep DEF CoreInv
<1>4. (BasesArePast /\ TargetIsFree /\ PushedIsCommitted /\ ReportedIsPublished)'
  BY <1>3 DEF BasesArePast, TargetIsFree, PushedIsCommitted, ReportedIsPublished, CallInv, PathsAt
<1>5. PlaceInv'
  BY PlaceStep DEF CoreInv
<1>6. QED
  BY <1>1, <1>4, <1>5 DEF CoreInv

\* A step on the branch is one of the log: what is pushed on top of the commit
\* of its worktree is for a path the branch does not have.
LEMMA LogStep ==
  ASSUME TypeOK, TargetIsFree, [Next]_vars
  PROVE  [Log!LogNext]_branch
<1>1. CASE UNCHANGED branch
  BY <1>1
<1>2. CASE Log!PushedByOthers
  BY <1>2 DEF Log!LogNext
<1>3. ASSUME NEW w \in Writers, pc[w] = "push", Landed(w) PROVE Log!LogNext
  <2>1. note[w] \in Notes
    BY DEF TypeOK, CallTypeOK
  <2>2. PathOf[note[w]] \notin PathsUpTo(branch, Len(branch))
    BY <1>3 DEF TargetIsFree, PathsAt, Landed
  <2>3. Log!Publish(note[w])
    BY <1>3, <2>2 DEF Log!Publish, Log!PathsIn, PathsUpTo, Landed
  <2>4. QED
    BY <2>1, <2>3 DEF Log!LogNext
<1>4. QED
  BY <1>1, <1>2, <1>3, BranchStep

(***************************************************************************)
(* Which way a call goes is a matter of the mode and of its note.          *)
(***************************************************************************)
\* Nothing changes the capture mode.
LEMMA ModeStays == [Next]_vars => mode' = mode
  BY DEF vars, Next, Step, StepFails, Request, Acquire, Reclaim, TimeOut, Fetch, FetchFails,
     AddWorktree, Write, WriteFails, Push, Rejected, Declined, PushFails, CheckWorkspace,
     Refetch, RefetchFails, Merge, IndexNote, Cleanup, RaisesLate, SyncAfterPush, SyncFails,
     Confirm, ConfirmChunks, Crash, Restart, SyncByOther, PushByOthers, UserPulls,
     UserSwitches, UserEdits, Truncate, Fill, PlaceFails, IndexInPlace,
     IndexRaises

\* The places that a call for a note n comes to.
OnWay(l, n) ==
    /\ l \in {"lock", "sync", "confirm", "chunks"} \cup Holding => ~InPlace(n)
    /\ l \in {"place", "fill", "reindex"} => InPlace(n)
    /\ l \in {"refresh", "refetch", "merge", "index"} => mode = "workspace"
    /\ l \in {"sync", "confirm", "chunks"} => mode = "remote"

\* The answers it may give.
OwnAnswer(s, n, i) ==
    /\ s \in InPlaceStatuses => InPlace(n)
    /\ s = "written_and_pushed" => ~InPlace(n)
    /\ i => s \in {"written_and_pushed"} \cup InPlaceStatuses

\* The same of one call.
WayFits(w) ==
    /\ OnWay(pc[w], note[w])
    /\ found[w] => pc[w] = "cleanup" /\ mode = "workspace"
    /\ OwnAnswer(reply[w].status, reply[w].note, reply[w].indexed)

\* WayFitsMode, call by call.
LEMMA WayByCall ==
  /\ WayFitsMode <=> \A w \in Writers : WayFits(w)
  /\ WayFitsMode' <=> \A w \in Writers : WayFits(w)'
  BY DEF WayFitsMode, WayFits, OnWay, OwnAnswer

\* The way is a matter of the mode, which stays.
LEMMA WayStays ==
  ASSUME mode' = mode
  PROVE  /\ \A l, n : OnWay(l, n)' <=> OnWay(l, n)
         /\ \A s, n, i : OwnAnswer(s, n, i)' <=> OwnAnswer(s, n, i)
  BY DEF OnWay, OwnAnswer, InPlace

\* A call that only moves along its way keeps to it.
LEMMA WayMoves ==
  ASSUME mode' = mode, \A v \in Writers : WayFits(v), NEW w \in Writers,
         \A v \in Writers \ {w} :
            pc'[v] = pc[v] /\ note'[v] = note[v] /\ found'[v] = found[v] /\ reply'[v] = reply[v],
         OnWay(pc'[w], note'[w]),
         found'[w] => pc'[w] = "cleanup" /\ mode = "workspace",
         OwnAnswer(reply'[w].status, reply'[w].note, reply'[w].indexed)
  PROVE  \A v \in Writers : WayFits(v)'
  BY DEF WayFits, OnWay, OwnAnswer, InPlace

\* A step of nobody's call keeps everybody to their way.
LEMMA WayUntouched ==
  ASSUME mode' = mode, \A v \in Writers : WayFits(v), UNCHANGED <<pc, note, found, reply>>
  PROVE  \A v \in Writers : WayFits(v)'
  BY DEF WayFits, OnWay, OwnAnswer, InPlace

\* A call that answers as it may keeps to its way.
LEMMA AnswerFits ==
  ASSUME TypeOK, mode' = mode, \A v \in Writers : WayFits(v), NEW w \in Writers, NEW s, NEW i,
         AnswerIndexed(w, s, i), OwnAnswer(s, note[w], i)
  PROVE  \A v \in Writers : WayFits(v)'
<1>1. /\ pc'[w] = "idle" /\ found'[w] = FALSE
      /\ reply'[w].status = s /\ reply'[w].note = note[w] /\ reply'[w].indexed = i
      /\ \A v \in Writers \ {w} :
            pc'[v] = pc[v] /\ note'[v] = note[v] /\ found'[v] = found[v] /\ reply'[v] = reply[v]
  BY DEF AnswerIndexed, TypeOK, CallTypeOK
<1>2. OnWay(pc'[w], note'[w])
  BY <1>1 DEF OnWay, Holding
<1>3. QED
  BY <1>1, <1>2, WayMoves

\* So does one that fails, or says what any call may say.
LEMMA OtherAnswerFits ==
  ASSUME TypeOK, mode' = mode, \A v \in Writers : WayFits(v), NEW w \in Writers, NEW s,
         s \notin {"written_and_pushed"} \cup InPlaceStatuses, Answer(w, s)
  PROVE  \A v \in Writers : WayFits(v)'
<1>1. OwnAnswer(s, note[w], FALSE)
  BY DEF OwnAnswer
<1>2. QED
  BY <1>1, AnswerFits DEF Answer

\* And one that goes on, before its note is indexed.
LEMMA GotoFits ==
  ASSUME TypeOK, mode' = mode, \A v \in Writers : WayFits(v), NEW w \in Writers, NEW l,
         Goto(w, l), pc[w] # "cleanup", OnWay(l, note[w])
  PROVE  \A v \in Writers : WayFits(v)'
<1>1. /\ pc'[w] = l /\ UNCHANGED <<note, found, reply>>
      /\ \A v \in Writers \ {w} : pc'[v] = pc[v]
  BY DEF Goto, call, TypeOK, CallTypeOK
<1>2. ~found[w] /\ OwnAnswer(reply[w].status, reply[w].note, reply[w].indexed)
  BY DEF WayFits
<1>3. QED
  BY <1>1, <1>2, WayMoves

\* Or tries again.
LEMMA RetryFits ==
  ASSUME TypeOK, mode' = mode, \A v \in Writers : WayFits(v), NEW w \in Writers,
         pc[w] = "push", Retry(w)
  PROVE  \A v \in Writers : WayFits(v)'
<1>1. CASE attempt[w] = 1
  <2>1. pc' = [pc EXCEPT ![w] = "fetch"] /\ UNCHANGED <<note, found, reply>>
    BY <1>1 DEF Retry
  <2>2. pc'[w] = "fetch" /\ \A v \in Writers \ {w} : pc'[v] = pc[v]
    BY <2>1 DEF TypeOK, CallTypeOK
  <2>3. WayFits(w)
    OBVIOUS
  <2>4. OnWay("fetch", note[w]) /\ ~found[w]
    BY <2>3 DEF WayFits, OnWay, Holding
  <2>5. QED
    BY <2>1, <2>2, <2>3, <2>4, WayMoves DEF WayFits
<1>2. CASE attempt[w] # 1
  BY <1>2, OtherAnswerFits DEF Retry, InPlaceStatuses
<1>3. QED
  BY <1>1, <1>2

\* Every call keeps to the way of its note.
LEMMA WayStep == TypeOK /\ WayFitsMode /\ [Next]_vars => WayFitsMode'
<1> DEFINE Fits == \A v \in Writers : WayFits(v)
<1> SUFFICES ASSUME TypeOK, Fits, [Next]_vars PROVE Fits'
  BY WayByCall
<1>0. mode' = mode /\ Fits
  BY ModeStays
<1>1. CASE UNCHANGED vars
  BY <1>0, <1>1, WayUntouched DEF vars, call
<1>2. ASSUME NEW w \in Writers, NEW n \in Notes, Request(w, n) PROVE Fits'
  <2>1. WayFits(w) /\ pc[w] = "idle" /\ UNCHANGED found
    BY <1>0, <1>2 DEF Request
  <2>2. \A v \in Writers \ {w} : pc'[v] = pc[v] /\ note'[v] = note[v] /\ reply'[v] = reply[v]
    BY <1>2 DEF Request, Begin, TypeOK, CallTypeOK
  <2>3. OnWay(pc'[w], note'[w])
    BY <1>2, <2>1 DEF Request, Begin, OnWay, Holding, WayFits, TypeOK, CallTypeOK
  <2>4. reply'[w].status \in {"TARGET_EXISTS", "none"} /\ ~reply'[w].indexed
    BY <1>2 DEF Request, Begin, NoReply, TypeOK, CallTypeOK
  <2>5. ~found[w] /\ OwnAnswer(reply'[w].status, reply'[w].note, reply'[w].indexed)
    BY <2>1, <2>4 DEF WayFits, OwnAnswer, InPlaceStatuses
  <2>6. QED
    BY <1>0, <2>1, <2>2, <2>3, <2>5, WayMoves
<1>3. ASSUME NEW w \in Writers, Acquire(w) PROVE Fits'
  <2>1. WayFits(w)
    BY <1>0
  <2>2. QED
    BY <1>0, <1>3, <2>1, WayMoves DEF Acquire, call, WayFits, OnWay, Holding, TypeOK, CallTypeOK
<1>4. ASSUME NEW w \in Writers, Reclaim(w) PROVE Fits'
  BY <1>0, <1>4, WayUntouched DEF Reclaim, call
<1>5. ASSUME NEW w \in Writers, TimeOut(w) PROVE Fits'
  BY <1>0, <1>5, OtherAnswerFits DEF TimeOut, Answer, InPlaceStatuses
<1>6. ASSUME NEW w \in Writers, Fetch(w) PROVE Fits'
  <2>1. OnWay(pc[w], note[w])
    BY <1>0 DEF WayFits
  <2>2. QED
    BY <1>0, <1>6, <2>1, GotoFits DEF Fetch, OnWay, Holding
<1>7. ASSUME NEW w \in Writers, FetchFails(w) PROVE Fits'
  BY <1>0, <1>7, OtherAnswerFits DEF FetchFails, Fails, Answer, InPlaceStatuses
<1>8. ASSUME NEW w \in Writers, AddWorktree(w) PROVE Fits'
  <2>1. WayFits(w)
    BY <1>0
  <2>2. QED
    BY <1>0, <1>8, <2>1, WayMoves DEF AddWorktree, call, WayFits, OnWay, Holding, TypeOK, CallTypeOK
<1>9. ASSUME NEW w \in Writers, Write(w) PROVE Fits'
  <2>1. OnWay(pc[w], note[w])
    BY <1>0 DEF WayFits
  <2>2. CASE Answer(w, "TARGET_EXISTS")
    BY <1>0, <2>2, OtherAnswerFits DEF InPlaceStatuses
  <2>3. CASE Goto(w, "push")
    BY <1>0, <1>9, <2>1, <2>3, GotoFits DEF Write, OnWay, Holding
  <2>4. QED
    BY <1>9, <2>2, <2>3 DEF Write
<1>10. ASSUME NEW w \in Writers, WriteFails(w) PROVE Fits'
  BY <1>0, <1>10, OtherAnswerFits DEF WriteFails, Fails, Answer, InPlaceStatuses
<1>11. ASSUME NEW w \in Writers, Push(w) PROVE Fits'
  <2>1. WayFits(w)
    BY <1>0
  <2>2. /\ pc[w] = "push" /\ UNCHANGED <<note, found, reply>>
        /\ pc' = [pc EXCEPT ![w] = IF mode = "workspace" THEN "refresh" ELSE "cleanup"]
    BY <1>11 DEF Push
  <2>3. pc'[w] = (IF mode = "workspace" THEN "refresh" ELSE "cleanup") /\ \A v \in Writers \ {w} : pc'[v] = pc[v]
    BY <2>2 DEF TypeOK, CallTypeOK
  <2>4. OnWay(pc'[w], note[w]) /\ ~found[w]
    BY <2>1, <2>2, <2>3 DEF WayFits, OnWay, Holding
  <2>5. QED
    BY <1>0, <2>1, <2>2, <2>3, <2>4, WayMoves DEF WayFits
<1>12. ASSUME NEW w \in Writers, Rejected(w) PROVE Fits'
  BY <1>0, <1>12, RetryFits DEF Rejected
<1>13. ASSUME NEW w \in Writers, Declined(w) PROVE Fits'
  BY <1>0, <1>13, RetryFits DEF Declined
<1>14. ASSUME NEW w \in Writers, PushFails(w) PROVE Fits'
  BY <1>0, <1>14, OtherAnswerFits DEF PushFails, Fails, Answer, InPlaceStatuses
<1>15. ASSUME NEW w \in Writers, CheckWorkspace(w) PROVE Fits'
  <2>1. OnWay(pc[w], note[w])
    BY <1>0 DEF WayFits
  <2>2. QED
    BY <1>0, <1>15, <2>1, GotoFits DEF CheckWorkspace, OnWay, Holding
<1>16. ASSUME NEW w \in Writers, Refetch(w) PROVE Fits'
  <2>1. OnWay(pc[w], note[w])
    BY <1>0 DEF WayFits
  <2>2. QED
    BY <1>0, <1>16, <2>1, GotoFits DEF Refetch, OnWay, Holding
<1>17. ASSUME NEW w \in Writers, RefetchFails(w) PROVE Fits'
  <2>1. OnWay(pc[w], note[w])
    BY <1>0 DEF WayFits
  <2>2. QED
    BY <1>0, <1>17, <2>1, GotoFits DEF RefetchFails, OnWay, Holding
<1>18. ASSUME NEW w \in Writers, Merge(w) PROVE Fits'
  <2>1. OnWay(pc[w], note[w])
    BY <1>0 DEF WayFits
  <2>2. QED
    BY <1>0, <1>18, <2>1, GotoFits DEF Merge, OnWay, Holding
<1>19. ASSUME NEW w \in Writers, IndexNote(w) PROVE Fits'
  <2>1. WayFits(w)
    BY <1>0
  <2>2. /\ pc[w] = "index" /\ UNCHANGED <<note, reply>> /\ pc' = [pc EXCEPT ![w] = "cleanup"]
        /\ \A v \in Writers \ {w} : found'[v] = found[v]
    BY <1>19 DEF IndexNote, TypeOK, CallTypeOK
  <2>3. pc'[w] = "cleanup" /\ \A v \in Writers \ {w} : pc'[v] = pc[v]
    BY <2>2 DEF TypeOK, CallTypeOK
  <2>4. OnWay("cleanup", note[w]) /\ mode = "workspace"
    BY <2>1, <2>2 DEF WayFits, OnWay, Holding
  <2>5. QED
    BY <1>0, <2>1, <2>2, <2>3, <2>4, WayMoves DEF WayFits
<1>20. ASSUME NEW w \in Writers, Cleanup(w) PROVE Fits'
  <2>1. WayFits(w) /\ pc[w] = "cleanup"
    BY <1>0, <1>20 DEF Cleanup
  <2>2. ~InPlace(note[w])
    BY <2>1 DEF WayFits, OnWay, Holding
  <2>3. CASE mode = "workspace"
    <3>1. OwnAnswer("written_and_pushed", note[w], found[w])
      BY <2>2 DEF OwnAnswer, InPlaceStatuses
    <3>2. QED
      BY <1>0, <1>20, <2>3, <3>1, AnswerFits DEF Cleanup
  <2>4. CASE mode # "workspace"
    <3>1. pc' = [pc EXCEPT ![w] = "sync"] /\ UNCHANGED <<note, found, reply>>
      BY <1>20, <2>4 DEF Cleanup, call
    <3>2. pc'[w] = "sync" /\ \A v \in Writers \ {w} : pc'[v] = pc[v]
      BY <3>1 DEF TypeOK, CallTypeOK
    <3>3. mode = "remote"
      BY <2>2, <2>4 DEF InPlace, TypeOK, RepositoryTypeOK
    <3>4. OnWay("sync", note[w]) /\ ~found[w]
      BY <2>1, <2>2, <2>4, <3>3 DEF WayFits, OnWay, Holding
    <3>5. QED
      BY <1>0, <2>1, <3>1, <3>2, <3>4, WayMoves DEF WayFits
  <2>5. QED
    BY <2>3, <2>4
<1>21. ASSUME NEW w \in Writers, RaisesLate(w) PROVE Fits'
  BY <1>0, <1>21, OtherAnswerFits DEF RaisesLate, Answer, InPlaceStatuses
<1>22. ASSUME NEW w \in Writers, SyncAfterPush(w) PROVE Fits'
  <2>1. OnWay(pc[w], note[w])
    BY <1>0 DEF WayFits
  <2>2. QED
    BY <1>0, <1>22, <2>1, GotoFits DEF SyncAfterPush, OnWay, Holding
<1>23. ASSUME NEW w \in Writers, SyncFails(w) PROVE Fits'
  <2>1. OnWay(pc[w], note[w])
    BY <1>0 DEF WayFits
  <2>2. \A i : OwnAnswer("written_and_pushed", note[w], i)
    BY <1>23, <2>1 DEF SyncFails, OnWay, OwnAnswer, InPlaceStatuses
  <2>3. QED
    BY <1>0, <1>23, <2>2, AnswerFits DEF SyncFails, Answer
<1>24. ASSUME NEW w \in Writers, Confirm(w) PROVE Fits'
  <2>1. OnWay(pc[w], note[w])
    BY <1>0 DEF WayFits
  <2>2. \A i : OwnAnswer("written_and_pushed", note[w], i)
    BY <1>24, <2>1 DEF Confirm, OnWay, OwnAnswer, InPlaceStatuses
  <2>3. CASE Goto(w, "chunks")
    BY <1>0, <1>24, <2>1, <2>3, GotoFits DEF Confirm, OnWay, Holding
  <2>4. CASE Answer(w, "written_and_pushed")
    BY <1>0, <2>2, <2>4, AnswerFits DEF Answer
  <2>5. QED
    BY <1>24, <2>3, <2>4 DEF Confirm
<1>25. ASSUME NEW w \in Writers, ConfirmChunks(w) PROVE Fits'
  <2>1. OnWay(pc[w], note[w])
    BY <1>0 DEF WayFits
  <2>2. \A i : OwnAnswer("written_and_pushed", note[w], i)
    BY <1>25, <2>1 DEF ConfirmChunks, OnWay, OwnAnswer, InPlaceStatuses
  <2>3. QED
    BY <1>0, <1>25, <2>2, AnswerFits DEF ConfirmChunks
<1>26. ASSUME NEW w \in Writers, Crash(w) PROVE Fits'
  <2>1. /\ pc'[w] = "down" /\ ~found'[w] /\ reply'[w] = NoReply
        /\ \A v \in Writers \ {w} :
              pc'[v] = pc[v] /\ note'[v] = note[v] /\ found'[v] = found[v] /\ reply'[v] = reply[v]
    BY <1>26 DEF Crash, TypeOK, CallTypeOK
  <2>2. OnWay(pc'[w], note'[w]) /\ OwnAnswer(reply'[w].status, reply'[w].note, reply'[w].indexed)
    BY <2>1 DEF OnWay, OwnAnswer, NoReply, InPlaceStatuses, Holding
  <2>3. QED
    BY <1>0, <2>1, <2>2, WayMoves
<1>27. ASSUME NEW w \in Writers, Restart(w) PROVE Fits'
  <2>1. WayFits(w)
    BY <1>0
  <2>2. QED
    BY <1>0, <1>27, <2>1, WayMoves DEF Restart, call, WayFits, OnWay, Holding, TypeOK, CallTypeOK
<1>28. CASE SyncByOther
  BY <1>0, <1>28, WayUntouched DEF SyncByOther, call
<1>29. CASE PushByOthers
  BY <1>0, <1>29, WayUntouched DEF PushByOthers, call
<1>30. CASE UserPulls
  BY <1>0, <1>30, WayUntouched DEF UserPulls, call
<1>31. CASE UserSwitches
  BY <1>0, <1>31, WayUntouched DEF UserSwitches, call
<1>32. ASSUME NEW p \in Paths, UserEdits(p) PROVE Fits'
  BY <1>0, <1>32, WayUntouched DEF UserEdits, call
<1>33. ASSUME NEW w \in Writers, Truncate(w) PROVE Fits'
  <2>1. OnWay(pc[w], note[w])
    BY <1>0 DEF WayFits
  <2>2. QED
    BY <1>0, <1>33, <2>1, GotoFits DEF Truncate, OnWay, Holding
<1>34. ASSUME NEW w \in Writers, Fill(w) PROVE Fits'
  <2>1. OnWay(pc[w], note[w])
    BY <1>0 DEF WayFits
  <2>2. QED
    BY <1>0, <1>34, <2>1, GotoFits DEF Fill, OnWay, Holding
<1>35. ASSUME NEW w \in Writers, PlaceFails(w) PROVE Fits'
  BY <1>0, <1>35, OtherAnswerFits DEF PlaceFails, Answer, InPlaceStatuses
<1>36. ASSUME NEW w \in Writers, IndexInPlace(w) PROVE Fits'
  <2>1. OnWay(pc[w], note[w])
    BY <1>0 DEF WayFits
  <2>2. \A s \in InPlaceStatuses, i \in BOOLEAN : OwnAnswer(s, note[w], i)
    BY <1>36, <2>1 DEF IndexInPlace, OnWay, OwnAnswer, InPlaceStatuses
  <2>3. PICK i \in BOOLEAN : AnswerIndexed(w, IF note[w] \in Drafts THEN "written" ELSE "local_only", i)
    BY <1>36 DEF IndexInPlace
  <2>4. PICK s \in InPlaceStatuses : AnswerIndexed(w, s, i)
    BY <2>3 DEF InPlaceStatuses
  <2>5. QED
    BY <1>0, <2>2, <2>4, AnswerFits
<1>37. ASSUME NEW w \in Writers, IndexRaises(w) PROVE Fits'
  BY <1>0, <1>37, OtherAnswerFits DEF IndexRaises, Answer, InPlaceStatuses
<1>38. QED
  BY <1>1, <1>2, <1>3, <1>4, <1>5, <1>6, <1>7, <1>8, <1>9, <1>10, <1>11, <1>12, <1>13, <1>14, <1>15, <1>16, <1>17, <1>18, <1>19, <1>20, <1>21, <1>22, <1>23, <1>24, <1>25, <1>26, <1>27, <1>28, <1>29, <1>30, <1>31, <1>32, <1>33, <1>34, <1>35, <1>36, <1>37
  DEF Next, Step, StepFails

(***************************************************************************)
(* The checkout, the user's files and the index.                           *)
(***************************************************************************)
\* A path is written to once on the branch (NoteLog never writes over a file).
LEMMA OnePerPathStep == TypeOK /\ TargetIsFree /\ OnePerPath /\ [Next]_vars => OnePerPath'
<1> SUFFICES ASSUME TypeOK, TargetIsFree, OnePerPath, [Next]_vars PROVE OnePerPath'
  OBVIOUS
<1>1. branch \in Seq(Log!Change)
  BY DEF TypeOK, RepositoryTypeOK
<1>2. ASSUME NEW c \in Log!Change, c.path \in Paths => c.path \notin Log!PathsIn(branch),
             branch' = Append(branch, c)
      PROVE  OnePerPath'
  <2>1. /\ Len(branch') = Len(branch) + 1 /\ branch'[Len(branch) + 1] = c /\ Len(branch) \in Nat
        /\ \A i \in 1..Len(branch) : branch'[i] = branch[i]
    BY <1>1, <1>2, Appended
  <2>2. \A i \in 1..Len(branch) : branch[i].path \in Log!PathsIn(branch)
    BY DEF Log!PathsIn
  <2>3. SUFFICES ASSUME NEW i \in 1..Len(branch'), NEW j \in 1..Len(branch'),
                        branch'[i].path = branch'[j].path, branch'[i].path \in Paths
                 PROVE  i = j
    BY DEF OnePerPath
  <2>4. CASE i \in 1..Len(branch) /\ j \in 1..Len(branch)
    BY <2>1, <2>3, <2>4 DEF OnePerPath
  <2>5. CASE i = Len(branch) + 1 /\ j \in 1..Len(branch)
    BY <1>2, <2>1, <2>2, <2>3, <2>5
  <2>6. CASE j = Len(branch) + 1 /\ i \in 1..Len(branch)
    BY <1>2, <2>1, <2>2, <2>3, <2>6
  <2>7. QED
    BY <2>1, <2>4, <2>5, <2>6
<1>3. ASSUME NEW n \in Notes, Log!Publish(n) PROVE OnePerPath'
  <2>1. [path |-> PathOf[n], text |-> n] \in Log!Change
    BY DEF Log!Change
  <2>2. QED
    BY <1>2, <1>3, <2>1 DEF Log!Publish
<1>4. CASE Log!PushedByOthers
  <2>1. PICK p \in Paths \cup {Nowhere}, t \in Others :
          /\ p = Nowhere \/ p \notin Log!PathsIn(branch)
          /\ branch' = Append(branch, [path |-> p, text |-> t])
    BY <1>4 DEF Log!PushedByOthers
  <2>2. [path |-> p, text |-> t] \in Log!Change
    BY <2>1 DEF Log!Change
  <2>3. QED
    BY <1>2, <2>1, <2>2
<1>5. CASE UNCHANGED branch
  BY <1>5 DEF OnePerPath
<1>6. QED
  BY <1>3, <1>4, <1>5, LogStep DEF Log!LogNext

\* The checkout is moved to where the tracking branch or the branch is.
LEMMA CheckoutMoves ==
  ASSUME [Next]_vars
  PROVE  \/ at' = at
         \/ at' = [at EXCEPT !["capture"] = Len(branch)]
         \/ at' = [at EXCEPT ![current] = Len(branch)]
         \/ at' = [at EXCEPT ![current] = IF @ < tracking THEN tracking ELSE @]
  BY DEF vars, checkout, Next, Step, StepFails, Request, Acquire, Reclaim, TimeOut, Fetch,
     FetchFails, AddWorktree, Write, WriteFails, Push, Rejected, Declined, PushFails,
     CheckWorkspace, Refetch, RefetchFails, Merge, IndexNote, Cleanup, RaisesLate,
     SyncAfterPush, Synchronize, SyncFails, Confirm, ConfirmChunks, Crash, Restart,
     SyncByOther, PushByOthers, UserPulls, UserSwitches, UserEdits, Truncate, Fill,
     PlaceFails, IndexInPlace, IndexRaises

\* So it is at a commit the branch has had.
LEMMA CheckoutStep ==
  TypeOK /\ BasesArePast /\ CheckoutIsPast /\ [Next]_vars => CheckoutIsPast'
<1> SUFFICES ASSUME TypeOK, BasesArePast, CheckoutIsPast, [Next]_vars,
                    NEW b \in {"capture", "other"}
             PROVE  at'[b] <= Len(branch')
  BY DEF CheckoutIsPast
<1>1. /\ Len(branch) \in Nat /\ Len(branch') \in Nat /\ Len(branch) <= Len(branch')
      /\ tracking \in Nat /\ tracking <= Len(branch) /\ at \in [{"capture", "other"} -> Nat]
  BY BranchGrows, TypeStep DEF Grows, BasesArePast, TypeOK, RepositoryTypeOK
<1>2. at[b] \in Nat /\ at[b] <= Len(branch)
  BY <1>1 DEF CheckoutIsPast
<1>3. at'[b] \in {at[b], tracking, Len(branch)}
  BY <1>1, CheckoutMoves
<1>4. QED
  BY <1>1, <1>2, <1>3

\* A file of the checkout is written by a user or a call in place.
LEMMA FilesMove ==
  ASSUME TypeOK, WayFitsMode, [Next]_vars
  PROVE  \/ own' = own
         \/ \E p \in Paths, t \in Others \cup {Missing} : own' = [own EXCEPT ![p] = t]
         \/ \E n \in Notes, t \in Notes \cup {Torn} :
                InPlace(n) /\ t \in {n, Torn} /\ own' = [own EXCEPT ![PathOf[n]] = t]
<1> DEFINE Placed == \E n \in Notes, t \in Notes \cup {Torn} :
                InPlace(n) /\ t \in {n, Torn} /\ own' = [own EXCEPT ![PathOf[n]] = t]
<1>1. ASSUME NEW w \in Writers, Truncate(w) PROVE Placed
  <2>1. note[w] \in Notes /\ InPlace(note[w]) /\ own' = [own EXCEPT ![PathOf[note[w]]] = Torn]
    BY <1>1 DEF Truncate, WayFitsMode, TypeOK, CallTypeOK
  <2>2. QED
    BY <2>1
<1>2. ASSUME NEW w \in Writers, Fill(w) PROVE Placed
  <2>1. /\ note[w] \in Notes /\ InPlace(note[w])
        /\ \/ own' = [own EXCEPT ![PathOf[note[w]]] = note[w]]
           \/ own' = [own EXCEPT ![PathOf[note[w]]] = Torn]
    BY <1>2 DEF Fill, WayFitsMode, TypeOK, CallTypeOK
  <2>2. QED
    BY <2>1
<1>3. ASSUME NEW w \in Writers, PlaceFails(w) PROVE own' = own \/ Placed
  <2>1. \/ own' = own
        \/ /\ note[w] \in Notes /\ InPlace(note[w])
           /\ own' = [own EXCEPT ![PathOf[note[w]]] = Torn]
    BY <1>3 DEF PlaceFails, WayFitsMode, TypeOK, CallTypeOK
  <2>2. QED
    BY <2>1
<1>4. ASSUME NEW p \in Paths, UserEdits(p)
      PROVE  \E t \in Others \cup {Missing} : own' = [own EXCEPT ![p] = t]
  BY <1>4 DEF UserEdits
<1>5. QED
  BY <1>1, <1>2, <1>3, <1>4 DEF vars, checkout, Next, Step, StepFails, Request, Acquire, Reclaim, TimeOut, Fetch,
     FetchFails, AddWorktree, Write, WriteFails, Push, Rejected, Declined, PushFails,
     CheckWorkspace, Refetch, RefetchFails, Merge, IndexNote, Cleanup, RaisesLate,
     SyncAfterPush, SyncFails, Confirm, ConfirmChunks, Crash, Restart,
     SyncByOther, PushByOthers, UserPulls, UserSwitches, IndexInPlace, IndexRaises

\* In a workspace that is pushed to, what is written in place are drafts.
LEMMA FilesStep ==
  TypeOK /\ WayFitsMode /\ FilesAreTheUsers /\ [Next]_vars => FilesAreTheUsers'
<1> SUFFICES ASSUME TypeOK, WayFitsMode, FilesAreTheUsers, [Next]_vars, mode = "workspace",
                    NEW p \in Paths
             PROVE  own'[p] \in {Missing} \cup Others \cup DraftAt(p)
  BY ModeStays DEF FilesAreTheUsers
<1>1. own \in [Paths -> Files] /\ own[p] \in {Missing} \cup Others \cup DraftAt(p)
  BY DEF FilesAreTheUsers, TypeOK, RepositoryTypeOK
<1>2. ASSUME NEW n \in Notes, InPlace(n) PROVE {n, Torn} \subseteq DraftAt(PathOf[n])
  BY <1>2 DEF InPlace, DraftAt
<1>3. CASE own' = own
  BY <1>1, <1>3
<1>4. ASSUME NEW q \in Paths, NEW t \in Others \cup {Missing}, own' = [own EXCEPT ![q] = t]
      PROVE  own'[p] \in {Missing} \cup Others \cup DraftAt(p)
  BY <1>1, <1>4
<1>5. ASSUME NEW n \in Notes, NEW t \in Notes \cup {Torn}, InPlace(n), t \in {n, Torn},
             own' = [own EXCEPT ![PathOf[n]] = t]
      PROVE  own'[p] \in {Missing} \cup Others \cup DraftAt(p)
  BY <1>1, <1>2, <1>5
<1>6. QED
  BY <1>3, <1>4, <1>5, FilesMove

\* The texts that commits up to c of a branch b gave to a path, and one of them.
TextsUpTo(b, c, p) == {t \in Notes \cup Others : \E i \in 1..c : b[i] = [path |-> p, text |-> t]}
OneOf(texts) == IF texts = {} THEN Missing ELSE CHOOSE t \in texts : TRUE

\* What a commit has at a path is one of the texts up to it.
LEMMA TextIsOne ==
  ASSUME NEW c, NEW p
  PROVE  /\ TextAt(c, p) = OneOf(TextsUpTo(branch, c, p))
         /\ TextAt(c, p)' = OneOf(TextsUpTo(branch', c, p))
  BY DEF TextAt, OneOf, TextsUpTo

\* The text of a path up to a commit stays what it is.
LEMMA TextStays ==
  ASSUME TypeOK, [Next]_vars, NEW c \in Nat, c <= Len(branch), NEW p
  PROVE  TextAt(c, p)' = TextAt(c, p)
<1>1. Len(branch) \in Nat /\ \A i \in 1..c : branch'[i] = branch[i]
  BY BranchGrows DEF Grows, TypeOK, RepositoryTypeOK
<1>2. TextsUpTo(branch', c, p) = TextsUpTo(branch, c, p)
  BY <1>1 DEF TextsUpTo
<1>3. QED
  BY <1>2, TextIsOne

\* A note of the branch is the text of its path from its commit on.
LEMMA TextIsNote ==
  ASSUME TypeOK, OnePerPath, NEW n \in Notes, NEW i \in Nat, IsCommitOf(branch, i, n),
         NEW c \in Nat, i <= c, c <= Len(branch)
  PROVE  TextAt(c, PathOf[n]) = n
<1> DEFINE p == PathOf[n]
<1> DEFINE Texts == TextsUpTo(branch, c, p)
<1>1. i \in 1..Len(branch) /\ i \in 1..c /\ branch[i] = [path |-> p, text |-> n] /\ p \in Paths
  BY DEF IsCommitOf, TypeOK, RepositoryTypeOK
<1>2. ASSUME NEW t \in Texts PROVE t = n
  <2>1. PICK j \in 1..c : branch[j] = [path |-> p, text |-> t]
    BY DEF TextsUpTo
  <2>2. j \in 1..Len(branch)
    BY DEF TypeOK, RepositoryTypeOK
  <2>3. branch[j].path = p /\ branch[i].path = p
    BY <1>1, <2>1
  <2>4. j = i
    BY <1>1, <2>2, <2>3 DEF OnePerPath
  <2>5. [path |-> p, text |-> t] = [path |-> p, text |-> n]
    BY <1>1, <2>1, <2>4
  <2>6. QED
    BY <2>5
<1>3. n \in Texts
  BY <1>1 DEF TextsUpTo
<1>4. Texts = {n}
  BY <1>2, <1>3
<1>5. OneOf({n}) = n
  BY DEF OneOf
<1>6. QED
  BY <1>4, <1>5, TextIsOne

\* The index of a remote repository is made anew, or one document of the
\* checkout is indexed elsewhere.
LEMMA IndexMoves ==
  ASSUME TypeOK, WayFitsMode, [Next]_vars
  PROVE  \/ UNCHANGED <<indexed, stamp>>
         \/ mode = "remote" /\ Synchronize /\ UNCHANGED branch
         \/ /\ mode # "remote" /\ UNCHANGED stamp
            /\ \E p \in Present \cap InScope : indexed' = [indexed EXCEPT ![p] = File(p)]
<1> DEFINE Indexed == /\ mode # "remote" /\ UNCHANGED stamp
                      /\ \E p \in Present \cap InScope : indexed' = [indexed EXCEPT ![p] = File(p)]
<1>1. ASSUME NEW p, NEW done \in BOOLEAN, Index(p, done)
      PROVE  indexed' = indexed \/ (p \in Present \cap InScope /\ indexed' = [indexed EXCEPT ![p] = File(p)])
  BY <1>1 DEF Index
<1>2. ASSUME NEW w \in Writers, IndexNote(w) PROVE UNCHANGED <<indexed, stamp>> \/ Indexed
  <2>1. mode = "workspace" /\ stamp' = stamp /\ \E done \in BOOLEAN : Index(PathOf[note[w]], done)
    BY <1>2 DEF IndexNote, WayFitsMode
  <2>2. QED
    BY <1>1, <2>1
<1>3. ASSUME NEW w \in Writers, IndexInPlace(w) PROVE UNCHANGED <<indexed, stamp>> \/ Indexed
  <2>1. InPlace(note[w]) /\ stamp' = stamp /\ \E done \in BOOLEAN : Index(PathOf[note[w]], done)
    BY <1>3 DEF IndexInPlace, WayFitsMode
  <2>2. mode # "remote"
    BY <2>1 DEF InPlace
  <2>3. QED
    BY <1>1, <2>1, <2>2
<1>4. ASSUME NEW w \in Writers, SyncAfterPush(w) PROVE mode = "remote" /\ Synchronize /\ UNCHANGED branch
  BY <1>4 DEF SyncAfterPush, WayFitsMode
<1>5. ASSUME SyncByOther PROVE mode = "remote" /\ Synchronize /\ UNCHANGED branch
  BY <1>5 DEF SyncByOther
<1>6. QED
  BY <1>2, <1>3, <1>4, <1>5 DEF vars, index, Next, Step, StepFails, Request, Acquire, Reclaim, TimeOut,
     Fetch, FetchFails, AddWorktree, Write, WriteFails, Push, Rejected, Declined, PushFails,
     CheckWorkspace, Refetch, RefetchFails, Merge, Cleanup, RaisesLate, SyncFails, Confirm,
     ConfirmChunks, Crash, Restart, PushByOthers, UserPulls, UserSwitches, UserEdits, Truncate,
     Fill, PlaceFails, IndexRaises

\* A race is not forgotten.
LEMMA RacedStays == [Next]_vars => raced \subseteq raced'
  BY DEF vars, Next, Step, StepFails, Request, Acquire, Reclaim, TimeOut, Fetch, FetchFails,
     AddWorktree, Write, WriteFails, Push, Rejected, Declined, PushFails, CheckWorkspace,
     Refetch, RefetchFails, Merge, IndexNote, Cleanup, RaisesLate, SyncAfterPush, SyncFails,
     Confirm, ConfirmChunks, Crash, Restart, SyncByOther, PushByOthers, UserPulls,
     UserSwitches, UserEdits, Truncate, Fill, PlaceFails, IndexInPlace,
     IndexRaises

\* The index of a remote repository stays of a commit, and goes forward.
LEMMA IndexStep ==
  TypeOK /\ WayFitsMode /\ IndexIsOfCommit /\ [Next]_vars
    => IndexIsOfCommit' /\ (mode = "remote" => stamp <= stamp')
<1> SUFFICES ASSUME TypeOK, WayFitsMode, IndexIsOfCommit, [Next]_vars, mode = "remote"
             PROVE  IndexIsOfCommit' /\ stamp <= stamp'
  BY ModeStays DEF IndexIsOfCommit
<1>1. /\ stamp \in Nat /\ stamp <= Len(branch)
      /\ \A p \in Paths : indexed[p] = IF p \in InScope THEN TextAt(stamp, p) ELSE Missing
      /\ Len(branch) \in Nat /\ Len(branch') \in Nat /\ Len(branch) <= Len(branch')
  BY BranchGrows, TypeStep DEF Grows, IndexIsOfCommit, TypeOK, RepositoryTypeOK
<1>2. CASE UNCHANGED <<indexed, stamp>>
  <2>1. ASSUME NEW p \in Paths PROVE TextAt(stamp, p)' = TextAt(stamp, p)
    <3>1. ASSUME NEW c \in Nat, c = stamp PROVE TextAt(stamp, p)' = TextAt(stamp, p)
      <4>1. TextAt(c, p)' = TextAt(c, p)
        BY <1>1, <3>1, TextStays
      <4>2. stamp' = c /\ stamp = c
        BY <1>2, <3>1
      <4>3. QED
        BY <4>1, <4>2 DEF TextAt
    <3>2. QED
      BY <1>1, <3>1
  <2>2. QED
    BY <1>1, <1>2, <2>1 DEF IndexIsOfCommit
<1>3. CASE Synchronize /\ UNCHANGED branch
  <2>1. ASSUME NEW p \in Paths PROVE TextAt(stamp, p)' = TextAt(Len(branch), p)
    BY <1>3 DEF Synchronize, TextAt
  <2>2. \A p \in Paths : indexed'[p] = IF p \in InScope THEN TextAt(Len(branch), p) ELSE Missing
    BY <1>3 DEF Synchronize
  <2>3. stamp' = Len(branch) /\ Len(branch') = Len(branch)
    BY <1>3 DEF Synchronize
  <2>4. QED
    BY <1>1, <2>1, <2>2, <2>3 DEF IndexIsOfCommit
<1>4. QED
  BY <1>2, <1>3, IndexMoves

(***************************************************************************)
(* What the invariant says of the files and the index.                     *)
(***************************************************************************)
FilesInv ==
    /\ WayFitsMode
    /\ OnePerPath
    /\ CheckoutIsPast
    /\ FilesAreTheUsers
    /\ IndexIsOfCommit

\* It is inductive, given what it says of the branch.
LEMMA FilesInvStep == CoreInv /\ FilesInv /\ [Next]_vars => FilesInv'
  BY WayStep, OnePerPathStep, CheckoutStep, FilesStep, IndexStep DEF CoreInv, FilesInv

\* The note is where it is written to: whole in its file, or on the branch.
IsWritten(n) ==
    IF InPlace(n)
    THEN own[PathOf[n]] = n \/ PathOf[n] \in raced
    ELSE \E i \in Nat : IsCommitOf(branch, i, n)

\* In a workspace the file at the path of a note on the branch is the note, a
\* file of the user's, or a draft.
LEMMA FileOfNote ==
  ASSUME TypeOK, FilesInv, NEW n \in Notes, mode = "workspace", IsWritten(n), ~InPlace(n),
         PathOf[n] \in Present
  PROVE  File(PathOf[n]) \in {n} \cup Others \cup DraftAt(PathOf[n])
<1> DEFINE p == PathOf[n]
<1>1. p \in Paths
  OBVIOUS
<1>2. CASE p \in Own
  BY <1>1, <1>2 DEF FilesInv, FilesAreTheUsers, Own, File
<1>3. CASE p \notin Own
  <2>1. PICK i \in Nat : IsCommitOf(branch, i, n)
    BY DEF IsWritten
  <2>2. current \in {"capture", "other"} /\ at[current] \in Nat /\ Len(branch) \in Nat
    BY DEF TypeOK, RepositoryTypeOK
  <2>3. at[current] <= Len(branch)
    BY <2>2 DEF FilesInv, CheckoutIsPast
  <2>4. PICK j \in 1..at[current] : branch[j].path = p
    BY <1>3 DEF Present, PathsAt, PathsUpTo
  <2>5. j \in 1..Len(branch) /\ i \in 1..Len(branch) /\ branch[i].path = p
    BY <2>1, <2>2, <2>3, <2>4 DEF IsCommitOf
  <2>6. i = j
    BY <1>1, <2>4, <2>5 DEF FilesInv, OnePerPath
  <2>7. TextAt(at[current], p) = n
    BY <2>1, <2>2, <2>3, <2>4, <2>6, TextIsNote DEF FilesInv
  <2>8. QED
    BY <1>3, <2>7 DEF File
<1>4. QED
  BY <1>2, <1>3

\* What the index has of a written note, it keeps.
LEMMA HasKept ==
  ASSUME CoreInv, FilesInv, [Next]_vars, NEW n \in Notes, NEW c \in Nat,
         IsWritten(n), IndexHas(n, c)
  PROVE  IndexHas(n, c)'
<1> DEFINE p == PathOf[n]
<1>1. /\ TypeOK /\ WayFitsMode /\ p \in Paths /\ mode' = mode /\ raced \subseteq raced'
      /\ mode \in {"workspace", "remote", "local"}
      /\ indexed \in [Paths -> Files] /\ stamp \in Nat /\ stamp' \in Nat
      /\ (InPlace(n)' <=> InPlace(n)) /\ DraftAt(p)' = DraftAt(p)
  BY ModeStays, RacedStays, TypeStep DEF CoreInv, FilesInv, TypeOK, RepositoryTypeOK, InPlace, DraftAt
<1>2. CASE UNCHANGED <<indexed, stamp>>
  <2>1. CASE InPlace(n)
    BY <1>1, <1>2, <2>1 DEF IndexHas
  <2>2. CASE ~InPlace(n) /\ mode = "remote"
    BY <1>1, <1>2, <2>2 DEF IndexHas
  <2>3. CASE ~InPlace(n) /\ mode = "workspace"
    BY <1>1, <1>2, <2>3 DEF IndexHas
  <2>4. QED
    BY <1>1, <2>1, <2>2, <2>3 DEF InPlace
<1>3. CASE mode = "remote" /\ Synchronize /\ UNCHANGED branch
  <2>1. ~InPlace(n)
    BY <1>3 DEF InPlace
  <2>2. indexed[p] = n /\ stamp >= c
    BY <1>3, <2>1 DEF IndexHas
  <2>3. p \in InScope /\ stamp <= Len(branch) /\ Len(branch) \in Nat
    BY <1>1, <1>3, <2>2 DEF FilesInv, IndexIsOfCommit, TypeOK, RepositoryTypeOK
  <2>4. PICK i \in Nat : IsCommitOf(branch, i, n)
    BY <2>1 DEF IsWritten
  <2>5. i <= Len(branch)
    BY <2>3, <2>4 DEF IsCommitOf
  <2>6. TextAt(Len(branch), p) = n
    BY <1>1, <2>3, <2>4, <2>5, TextIsNote DEF FilesInv
  <2>7. indexed'[p] = n /\ stamp' >= c
    BY <1>1, <1>3, <2>2, <2>3, <2>6 DEF Synchronize
  <2>8. QED
    BY <1>1, <1>3, <2>1, <2>7 DEF IndexHas
<1>4. ASSUME mode # "remote", UNCHANGED stamp,
             NEW q \in Present \cap InScope, indexed' = [indexed EXCEPT ![q] = File(q)]
      PROVE  IndexHas(n, c)'
  <2>1. p # q => indexed'[p] = indexed[p]
    BY <1>1, <1>4
  <2>2. p = q => indexed'[p] = File(p) /\ p \in Present
    BY <1>1, <1>4
  <2>3. CASE InPlace(n)
    <3>1. own[p] = n => File(p) = n
      BY <1>1 DEF File, Own
    <3>2. indexed'[p] = n \/ p \in raced
      BY <2>1, <2>2, <2>3, <3>1 DEF IsWritten, IndexHas
    <3>3. QED
      BY <1>1, <2>3, <3>2 DEF IndexHas
  <2>4. CASE ~InPlace(n)
    <3>1. mode = "workspace"
      BY <1>1, <1>4, <2>4 DEF InPlace
    <3>2. p \in Present => File(p) \in {n} \cup Others \cup DraftAt(p)
      BY <1>1, <2>4, <3>1, FileOfNote
    <3>3. indexed'[p] \in {n} \cup Others \cup DraftAt(p)
      BY <2>1, <2>2, <2>4, <3>1, <3>2 DEF IndexHas
    <3>4. QED
      BY <1>1, <2>4, <3>1, <3>3 DEF IndexHas
  <2>5. QED
    BY <2>3, <2>4
<1>5. QED
  BY <1>1, <1>2, <1>3, <1>4, IndexMoves

\* The note of a call that is past its push is on the branch.
LEMMA PushedIsWritten ==
  ASSUME CoreInv, FilesInv, NEW w \in Writers, pc[w] \in Pushed
  PROVE  /\ note[w] \in Notes /\ commit[w] \in Nat /\ ~InPlace(note[w]) /\ IsWritten(note[w])
         /\ \E i \in Nat : IsCommitOf(branch, i, note[w]) /\ commit[w] \in {0, i}
<1>1. note[w] \in Notes /\ commit[w] \in Nat /\ branch \in Seq(Log!Change)
  BY DEF CoreInv, TypeOK, CallTypeOK, RepositoryTypeOK
<1>2. ~InPlace(note[w])
  BY DEF FilesInv, WayFitsMode, Pushed, Holding
<1>3. PICK i \in 1..Len(branch) : IsCommitOf(branch, i, note[w]) /\ commit[w] \in {0, i}
  BY DEF CoreInv, PushedIsCommitted, IsPublished
<1>4. i \in Nat
  BY <1>1
<1>5. QED
  BY <1>1, <1>2, <1>3, <1>4 DEF IsWritten

\* So is, or whole in its file, the note of an answer that says indexed.
LEMMA AnsweredIsWritten ==
  ASSUME CoreInv, FilesInv, NEW w \in Writers, reply[w].indexed
  PROVE  reply[w].note \in Notes /\ reply[w].commit \in Nat /\ IsWritten(reply[w].note)
<1>1. reply[w].note \in Notes /\ reply[w].commit \in Nat /\ branch \in Seq(Log!Change)
  BY DEF CoreInv, TypeOK, CallTypeOK, RepositoryTypeOK, Replies
<1>2. CASE reply[w].status \in InPlaceStatuses
  BY <1>1, <1>2 DEF CoreInv, PlaceInv, WrittenIsKept, FilesInv, WayFitsMode, IsWritten
<1>3. CASE reply[w].status = "written_and_pushed"
  <2>1. ~InPlace(reply[w].note)
    BY <1>3 DEF FilesInv, WayFitsMode
  <2>2. PICK i \in 1..Len(branch) : IsCommitOf(branch, i, reply[w].note)
    BY <1>3 DEF CoreInv, ReportedIsPublished, IsPublished
  <2>3. QED
    BY <1>1, <2>1, <2>2 DEF IsWritten
<1>4. QED
  BY <1>2, <1>3 DEF FilesInv, WayFitsMode

(***************************************************************************)
(* What calls were told of the index.                                      *)
(***************************************************************************)
\* A call was told of the index no more than it was before.
NotTold(w) ==
    /\ found'[w] => found[w] /\ note'[w] = note[w] /\ commit'[w] = commit[w]
    /\ pc'[w] = "chunks" => pc[w] = "chunks" /\ note'[w] = note[w] /\ commit'[w] = commit[w]
    /\ reply'[w].indexed => reply'[w] = reply[w]

\* What a call was told does not change by a step that is not its own.
LEMMA Untold ==
  ASSUME UNCHANGED <<pc, call, reply>>
  PROVE  \A v \in Writers : NotTold(v)
  BY DEF NotTold, call

\* Going on tells nothing but that the index is of the commit.
LEMMA GotoTellsNot ==
  ASSUME TypeOK, NEW w \in Writers, NEW l, Goto(w, l)
  PROVE  /\ \A v \in Writers \ {w} : NotTold(v)
         /\ l # "chunks" => NotTold(w)
  BY DEF NotTold, Goto, call, TypeOK, CallTypeOK

\* An answer tells the client only.
LEMMA AnswerTells ==
  ASSUME TypeOK, NEW w \in Writers, NEW s, NEW i, AnswerIndexed(w, s, i)
  PROVE  /\ \A v \in Writers \ {w} : NotTold(v)
         /\ ~i => NotTold(w)
  BY DEF NotTold, AnswerIndexed, TypeOK, CallTypeOK

\* A failure tells nothing of the index.
LEMMA AnswerTellsNot ==
  ASSUME TypeOK, NEW w \in Writers, NEW s, Answer(w, s)
  PROVE  \A v \in Writers : NotTold(v)
  BY AnswerTells DEF Answer

\* Nor does another attempt.
LEMMA RetryTellsNot ==
  ASSUME TypeOK, NEW w \in Writers, Retry(w)
  PROVE  \A v \in Writers : NotTold(v)
<1>1. CASE attempt[w] = 1
  BY <1>1 DEF Retry, NotTold, TypeOK, CallTypeOK
<1>2. CASE attempt[w] # 1
  BY <1>2, AnswerTellsNot DEF Retry
<1>3. QED
  BY <1>1, <1>2

\* The steps that tell a call, or its client, of the index.
Tells(w) == Confirm(w) \/ IndexNote(w) \/ Cleanup(w) \/ IndexInPlace(w) \/ ConfirmChunks(w)

\* No other step tells anyone.
LEMMA TellingSteps ==
  ASSUME TypeOK, WayFitsMode, [Next]_vars
  PROVE  \/ \A v \in Writers : NotTold(v)
         \/ \E w \in Writers : Tells(w) /\ \A v \in Writers \ {w} : NotTold(v)
<1> DEFINE None == \A v \in Writers : NotTold(v)
<1> DEFINE Told(w) == Tells(w) /\ \A v \in Writers \ {w} : NotTold(v)
<1>0. \A v \in Writers : found[v] => pc[v] = "cleanup"
  BY DEF WayFitsMode
<1>1. CASE UNCHANGED vars
  BY <1>1, Untold DEF vars
<1>2. ASSUME NEW w \in Writers, NEW n \in Notes, Request(w, n) PROVE None
  <2>1. pc[w] = "idle" /\ UNCHANGED <<found, commit>>
    BY <1>2 DEF Request
  <2>2. \A v \in Writers \ {w} : pc'[v] = pc[v] /\ note'[v] = note[v] /\ reply'[v] = reply[v]
    BY <1>2 DEF Request, Begin, TypeOK, CallTypeOK
  <2>3. pc'[w] \in {"idle", "place", "lock"} /\ ~reply'[w].indexed
    BY <1>2 DEF Request, Begin, NoReply, TypeOK, CallTypeOK
  <2>4. QED
    BY <1>0, <2>1, <2>2, <2>3 DEF NotTold
<1>3. ASSUME NEW w \in Writers, Acquire(w) PROVE None
  BY <1>0, <1>3 DEF Acquire, call, NotTold, TypeOK, CallTypeOK
<1>4. ASSUME NEW w \in Writers, Reclaim(w) PROVE None
  BY <1>4, Untold DEF Reclaim
<1>5. ASSUME NEW w \in Writers, TimeOut(w) PROVE None
  BY <1>5, AnswerTellsNot DEF TimeOut
<1>6. ASSUME NEW w \in Writers, Fetch(w) PROVE None
  BY <1>6, GotoTellsNot DEF Fetch
<1>7. ASSUME NEW w \in Writers, FetchFails(w) PROVE None
  BY <1>7, AnswerTellsNot DEF FetchFails, Fails
<1>8. ASSUME NEW w \in Writers, AddWorktree(w) PROVE None
  BY <1>0, <1>8 DEF AddWorktree, call, NotTold, TypeOK, CallTypeOK
<1>9. ASSUME NEW w \in Writers, Write(w) PROVE None
  BY <1>9, AnswerTellsNot, GotoTellsNot DEF Write
<1>10. ASSUME NEW w \in Writers, WriteFails(w) PROVE None
  BY <1>10, AnswerTellsNot DEF WriteFails, Fails
<1>11. ASSUME NEW w \in Writers, Push(w) PROVE None
  <2>1. /\ pc[w] = "push" /\ UNCHANGED <<note, found, reply>>
        /\ pc' = [pc EXCEPT ![w] = IF mode = "workspace" THEN "refresh" ELSE "cleanup"]
    BY <1>11 DEF Push
  <2>2. pc'[w] # "chunks" /\ \A v \in Writers \ {w} : pc'[v] = pc[v]
    BY <2>1 DEF TypeOK, CallTypeOK
  <2>3. \A v \in Writers \ {w} : commit'[v] = commit[v]
    BY <1>11 DEF Push, TypeOK, CallTypeOK
  <2>4. QED
    BY <1>0, <2>1, <2>2, <2>3 DEF NotTold
<1>12. ASSUME NEW w \in Writers, Rejected(w) PROVE None
  BY <1>12, RetryTellsNot DEF Rejected
<1>13. ASSUME NEW w \in Writers, Declined(w) PROVE None
  BY <1>13, RetryTellsNot DEF Declined
<1>14. ASSUME NEW w \in Writers, PushFails(w) PROVE None
  BY <1>14, AnswerTellsNot DEF PushFails, Fails
<1>15. ASSUME NEW w \in Writers, CheckWorkspace(w) PROVE None
  BY <1>15, GotoTellsNot DEF CheckWorkspace
<1>16. ASSUME NEW w \in Writers, Refetch(w) PROVE None
  BY <1>16, GotoTellsNot DEF Refetch
<1>17. ASSUME NEW w \in Writers, RefetchFails(w) PROVE None
  BY <1>17, GotoTellsNot DEF RefetchFails
<1>18. ASSUME NEW w \in Writers, Merge(w) PROVE None
  BY <1>18, GotoTellsNot DEF Merge
<1>19. ASSUME NEW w \in Writers, IndexNote(w) PROVE Told(w)
  BY <1>19 DEF IndexNote, Tells, NotTold, TypeOK, CallTypeOK
<1>20. ASSUME NEW w \in Writers, Cleanup(w) PROVE Told(w)
  <2>1. CASE mode = "workspace"
    BY <1>20, <2>1, AnswerTells DEF Cleanup, Tells
  <2>2. CASE mode # "workspace"
    BY <1>20, <2>2 DEF Cleanup, Tells, call, NotTold, TypeOK, CallTypeOK
  <2>3. QED
    BY <2>1, <2>2
<1>21. ASSUME NEW w \in Writers, RaisesLate(w) PROVE None
  BY <1>21, AnswerTellsNot DEF RaisesLate
<1>22. ASSUME NEW w \in Writers, SyncAfterPush(w) PROVE None
  BY <1>22, GotoTellsNot DEF SyncAfterPush
<1>23. ASSUME NEW w \in Writers, SyncFails(w) PROVE None
  BY <1>23, AnswerTellsNot DEF SyncFails
<1>24. ASSUME NEW w \in Writers, Confirm(w) PROVE Told(w)
  BY <1>24, GotoTellsNot, AnswerTellsNot DEF Confirm, Tells
<1>25. ASSUME NEW w \in Writers, ConfirmChunks(w) PROVE Told(w)
  BY <1>25, AnswerTells DEF ConfirmChunks, Tells
<1>26. ASSUME NEW w \in Writers, Crash(w) PROVE None
  BY <1>26 DEF Crash, NotTold, NoReply, TypeOK, CallTypeOK
<1>27. ASSUME NEW w \in Writers, Restart(w) PROVE None
  BY <1>0, <1>27 DEF Restart, call, NotTold, TypeOK, CallTypeOK
<1>28. CASE SyncByOther
  BY <1>28, Untold DEF SyncByOther
<1>29. CASE PushByOthers
  BY <1>29, Untold DEF PushByOthers
<1>30. CASE UserPulls
  BY <1>30, Untold DEF UserPulls
<1>31. CASE UserSwitches
  BY <1>31, Untold DEF UserSwitches
<1>32. ASSUME NEW p \in Paths, UserEdits(p) PROVE None
  BY <1>32, Untold DEF UserEdits
<1>33. ASSUME NEW w \in Writers, Truncate(w) PROVE None
  BY <1>33, GotoTellsNot DEF Truncate
<1>34. ASSUME NEW w \in Writers, Fill(w) PROVE None
  BY <1>34, GotoTellsNot DEF Fill
<1>35. ASSUME NEW w \in Writers, PlaceFails(w) PROVE None
  BY <1>35, AnswerTellsNot DEF PlaceFails
<1>36. ASSUME NEW w \in Writers, IndexInPlace(w) PROVE Told(w)
  BY <1>36, AnswerTells DEF IndexInPlace, Tells
<1>37. ASSUME NEW w \in Writers, IndexRaises(w) PROVE None
  BY <1>37, AnswerTellsNot DEF IndexRaises
<1>38. QED
  BY <1>1, <1>2, <1>3, <1>4, <1>5, <1>6, <1>7, <1>8, <1>9, <1>10, <1>11, <1>12, <1>13, <1>14, <1>15, <1>16, <1>17, <1>18, <1>19, <1>20, <1>21, <1>22, <1>23, <1>24, <1>25, <1>26, <1>27, <1>28, <1>29, <1>30, <1>31, <1>32, <1>33, <1>34, <1>35, <1>36, <1>37
  DEF Next, Step, StepFails

\* IndexedIsRetrievable, answer by answer.
AnswersHave == \A w \in Writers : reply[w].indexed => IndexHas(reply[w].note, reply[w].commit)

\* The way of an answer's note is that of its status.
LEMMA AnswerByAnswer ==
  /\ WayFitsMode => (IndexedIsRetrievable <=> AnswersHave)
  /\ WayFitsMode' => (IndexedIsRetrievable' <=> AnswersHave')
  BY DEF WayFitsMode, IndexedIsRetrievable, AnswersHave, IndexHas, InPlaceStatuses

\* What a call found, it keeps.
LEMMA FoundKept ==
  ASSUME CoreInv, FilesInv, FoundIsIndexed, [Next]_vars, NEW w \in Writers,
         found[w], note'[w] = note[w], commit'[w] = commit[w]
  PROVE  IndexHas(note[w], commit[w])'
<1>1. pc[w] \in Pushed
  BY DEF FilesInv, WayFitsMode, Pushed
<1>2. note[w] \in Notes /\ commit[w] \in Nat /\ IsWritten(note[w]) /\ IndexHas(note[w], commit[w])
  BY <1>1, PushedIsWritten DEF FoundIsIndexed
<1>3. ASSUME NEW n \in Notes, NEW c \in Nat, n = note[w], c = commit[w]
      PROVE  IndexHas(note[w], commit[w])'
  <2>1. IndexHas(n, c)'
    BY <1>2, <1>3, HasKept
  <2>2. note'[w] = n /\ commit'[w] = c
    BY <1>3
  <2>3. QED
    BY <2>1, <2>2 DEF IndexHas, InPlace
<1>4. QED
  BY <1>2, <1>3

\* The commit of the index stays past one that it was seen to be.
LEMMA ChunksKept ==
  ASSUME CoreInv, FilesInv, [Next]_vars, NEW w \in Writers,
         mode = "remote", stamp >= commit[w], commit'[w] = commit[w]
  PROVE  stamp' >= commit'[w]
<1>1. stamp \in Nat /\ stamp' \in Nat /\ commit[w] \in Nat
  BY TypeStep DEF CoreInv, TypeOK, RepositoryTypeOK, CallTypeOK
<1>2. stamp <= stamp'
  BY IndexStep DEF CoreInv, FilesInv
<1>3. QED
  BY <1>1, <1>2

\* An answer that says indexed stays so.
LEMMA AnswerKept ==
  ASSUME CoreInv, FilesInv, AnswersHave, [Next]_vars, NEW w \in Writers,
         reply[w].indexed, reply'[w] = reply[w]
  PROVE  IndexHas(reply[w].note, reply[w].commit)'
<1>1. /\ reply[w].note \in Notes /\ reply[w].commit \in Nat /\ IsWritten(reply[w].note)
      /\ IndexHas(reply[w].note, reply[w].commit)
  BY AnsweredIsWritten DEF AnswersHave
<1>2. ASSUME NEW n \in Notes, NEW c \in Nat, n = reply[w].note, c = reply[w].commit
      PROVE  IndexHas(reply[w].note, reply[w].commit)'
  <2>1. IndexHas(n, c)'
    BY <1>1, <1>2, HasKept
  <2>2. reply'[w].note = n /\ reply'[w].commit = c
    BY <1>2
  <2>3. QED
    BY <2>1, <2>2 DEF IndexHas, InPlace
<1>3. QED
  BY <1>1, <1>2

\* An answer that says what the call had found is so.
LEMMA AnswerIsSo ==
  ASSUME CoreInv, FilesInv, [Next]_vars, NEW w \in Writers, NEW s, NEW i,
         pc[w] \in Pushed, IndexHas(note[w], commit[w]), AnswerIndexed(w, s, i)
  PROVE  IndexHas(reply[w].note, reply[w].commit)'
<1>1. note[w] \in Notes /\ commit[w] \in Nat /\ IsWritten(note[w])
  BY PushedIsWritten
<1>2. reply'[w].note = note[w] /\ reply'[w].commit = commit[w]
  BY DEF AnswerIndexed, CoreInv, TypeOK, CallTypeOK
<1>3. ASSUME NEW n \in Notes, NEW c \in Nat, n = note[w], c = commit[w]
      PROVE  IndexHas(reply[w].note, reply[w].commit)'
  <2>1. IndexHas(n, c)'
    BY <1>1, <1>3, HasKept
  <2>2. reply'[w].note = n /\ reply'[w].commit = c
    BY <1>2, <1>3
  <2>3. QED
    BY <2>1, <2>2 DEF IndexHas, InPlace
<1>4. QED
  BY <1>1, <1>3

\* A pushed note is indexed with its file, or what keeps it out (index_document).
LEMMA NoteIsIndexed ==
  ASSUME CoreInv, FilesInv, [Next]_vars, NEW w \in Writers, IndexNote(w), found'[w]
  PROVE  IndexHas(note[w], commit[w])'
<1> DEFINE p == PathOf[note[w]]
<1>1. /\ note[w] \in Notes /\ ~InPlace(note[w]) /\ IsWritten(note[w]) /\ mode = "workspace"
      /\ p \in Paths /\ indexed \in [Paths -> Files] /\ note' = note /\ mode' = mode
  BY PushedIsWritten DEF IndexNote, Pushed, FilesInv, WayFitsMode, CoreInv, TypeOK, RepositoryTypeOK
<1>2. p \in Present /\ indexed' = [indexed EXCEPT ![p] = File(p)]
  BY DEF IndexNote, Index, CoreInv, TypeOK, CallTypeOK
<1>3. indexed'[p] \in {note[w]} \cup Others \cup DraftAt(p)
  BY <1>1, <1>2, FileOfNote DEF CoreInv
<1>4. QED
  BY <1>1, <1>3 DEF IndexHas, InPlace, DraftAt

\* A note in place is indexed with its file.
LEMMA PlacedIsIndexed ==
  ASSUME CoreInv, FilesInv, [Next]_vars, NEW w \in Writers, IndexInPlace(w), reply'[w].indexed
  PROVE  IndexHas(reply[w].note, reply[w].commit)'
<1> DEFINE p == PathOf[note[w]]
<1>1. /\ note[w] \in Notes /\ InPlace(note[w]) /\ mode' = mode /\ UNCHANGED raced
      /\ p \in Paths /\ indexed \in [Paths -> Files] /\ own \in [Paths -> Files]
  BY ModeStays DEF IndexInPlace, FilesInv, WayFitsMode, CoreInv, TypeOK, RepositoryTypeOK, CallTypeOK
<1>2. PICK done \in BOOLEAN, s \in {"written", "local_only"} : Index(p, done) /\ AnswerIndexed(w, s, done)
  BY DEF IndexInPlace
<1>3. reply'[w].note = note[w] /\ done
  BY <1>2 DEF AnswerIndexed, CoreInv, TypeOK, CallTypeOK
<1>4. indexed'[p] = File(p)
  BY <1>1, <1>2, <1>3 DEF Index
<1>5. own[p] = note[w] \/ p \in raced
  BY DEF CoreInv, PlaceInv, FileInPlace, IndexInPlace
<1>6. own[p] = note[w] => File(p) = note[w]
  BY <1>1 DEF File, Own
<1>7. indexed'[p] = note[w] \/ p \in raced
  BY <1>4, <1>5, <1>6
<1>8. QED
  BY <1>1, <1>3, <1>7 DEF IndexHas, InPlace

\* A path of a pushed note with chunks has the note's (HasChunks).
LEMMA ChunksAreOfNote ==
  ASSUME CoreInv, FilesInv, FoundIsIndexed, NEW w \in Writers, pc[w] = "chunks", HasChunks(w)
  PROVE  IndexHas(note[w], commit[w])
<1> DEFINE p == PathOf[note[w]]
<1>1. /\ note[w] \in Notes /\ ~InPlace(note[w]) /\ IsWritten(note[w]) /\ mode = "remote"
      /\ p \in Paths /\ stamp >= commit[w] /\ stamp \in Nat /\ Len(branch) \in Nat
  BY PushedIsWritten DEF Pushed, FilesInv, WayFitsMode, FoundIsIndexed, CoreInv, TypeOK, RepositoryTypeOK
<1>2. stamp <= Len(branch) /\ indexed[p] = TextAt(stamp, p) /\ indexed[p] # Missing
  BY <1>1 DEF FilesInv, IndexIsOfCommit, HasChunks
<1>3. PICK i \in Nat : IsCommitOf(branch, i, note[w])
  BY <1>1 DEF IsWritten
<1>4. TextsUpTo(branch, stamp, p) # {}
  BY <1>2, TextIsOne DEF OneOf
<1>5. PICK j \in 1..stamp : branch[j].path = p
  <2>1. PICK t \in Notes \cup Others : \E k \in 1..stamp : branch[k] = [path |-> p, text |-> t]
    BY <1>4 DEF TextsUpTo
  <2>2. QED
    BY <2>1
<1>6. j \in 1..Len(branch) /\ i \in 1..Len(branch) /\ branch[i].path = p
  BY <1>1, <1>2, <1>3, <1>5 DEF IsCommitOf
<1>7. i = j
  BY <1>1, <1>5, <1>6 DEF FilesInv, OnePerPath
<1>8. indexed[p] = note[w]
  BY <1>1, <1>2, <1>3, <1>5, <1>7, TextIsNote DEF CoreInv, FilesInv
<1>9. QED
  BY <1>1, <1>8 DEF IndexHas

\* What calls and clients were told of the index stays so, and what they are
\* told by a step is so.
LEMMA ToldStep ==
  ASSUME CoreInv, FilesInv, FoundIsIndexed, AnswersHave, [Next]_vars, NEW w \in Writers
  PROVE  /\ found'[w] => IndexHas(note[w], commit[w])'
         /\ pc'[w] = "chunks" => stamp' >= commit'[w]
         /\ reply'[w].indexed => IndexHas(reply[w].note, reply[w].commit)'
<1> DEFINE FoundKeeps == found'[w] => found[w] /\ note'[w] = note[w] /\ commit'[w] = commit[w]
<1> DEFINE ChunksKeep == pc'[w] = "chunks" => pc[w] = "chunks" /\ commit'[w] = commit[w]
<1> DEFINE ReplyKeeps == reply'[w].indexed => reply'[w] = reply[w]
<1> DEFINE Found == found'[w] => IndexHas(note[w], commit[w])'
<1> DEFINE Chunks == pc'[w] = "chunks" => stamp' >= commit'[w]
<1> DEFINE Told == reply'[w].indexed => IndexHas(reply[w].note, reply[w].commit)'
<1>0. found \in [Writers -> BOOLEAN] /\ \A v \in Writers : reply[v].indexed \in BOOLEAN
  BY DEF CoreInv, TypeOK, CallTypeOK, Replies
<1>1. FoundKeeps => Found
  BY FoundKept
<1>2. ChunksKeep => Chunks
  BY ChunksKept DEF FilesInv, WayFitsMode, FoundIsIndexed
<1>3. ReplyKeeps => Told
  <2>1. CASE reply[w].indexed /\ reply'[w] = reply[w]
    BY <2>1, AnswerKept
  <2>2. CASE ~reply'[w].indexed
    BY <2>2
  <2>3. QED
    BY <2>1, <2>2
<1>4. CASE NotTold(w)
  BY <1>1, <1>2, <1>3, <1>4 DEF NotTold
<1>5. CASE Confirm(w)
  <2>1. /\ pc'[w] = "chunks" => stamp = commit[w] /\ UNCHANGED <<stamp, commit>>
        /\ FoundKeeps /\ ReplyKeeps
    BY <1>5 DEF Confirm, Goto, Answer, AnswerIndexed, call, index, CoreInv, TypeOK, CallTypeOK
  <2>2. stamp \in Nat
    BY DEF CoreInv, TypeOK, RepositoryTypeOK
  <2>3. QED
    BY <1>1, <1>3, <2>1, <2>2
<1>6. CASE IndexNote(w)
  <2>1. ChunksKeep /\ ReplyKeeps
    BY <1>6 DEF IndexNote, CoreInv, TypeOK, CallTypeOK
  <2>2. QED
    BY <1>2, <1>3, <1>6, <2>1, NoteIsIndexed
<1>7. ASSUME NEW s, NEW i, AnswerIndexed(w, s, i), pc[w] \in Pushed,
             i => IndexHas(note[w], commit[w])
      PROVE  Found /\ Chunks /\ Told
  <2>1. FoundKeeps /\ ChunksKeep /\ (reply'[w].indexed => i)
    BY <1>7 DEF AnswerIndexed, CoreInv, TypeOK, CallTypeOK
  <2>2. QED
    BY <1>1, <1>2, <1>7, <2>1, AnswerIsSo
<1>8. CASE Cleanup(w)
  <2>1. CASE mode = "workspace"
    BY <1>7, <1>8, <2>1 DEF Cleanup, Pushed, FoundIsIndexed
  <2>2. CASE mode # "workspace"
    <3>1. FoundKeeps /\ ChunksKeep /\ ReplyKeeps
      BY <1>8, <2>2 DEF Cleanup, call, CoreInv, TypeOK, CallTypeOK
    <3>2. QED
      BY <1>1, <1>2, <1>3, <3>1
  <2>3. QED
    BY <2>1, <2>2
<1>9. CASE IndexInPlace(w)
  <2>1. PICK s, i : AnswerIndexed(w, s, i)
    BY <1>9 DEF IndexInPlace
  <2>2. FoundKeeps /\ ChunksKeep
    BY <2>1 DEF AnswerIndexed, CoreInv, TypeOK, CallTypeOK
  <2>3. QED
    BY <1>1, <1>2, <1>9, <2>2, PlacedIsIndexed
<1>10. CASE ConfirmChunks(w)
  BY <1>7, <1>10, ChunksAreOfNote DEF ConfirmChunks, Pushed
<1>11. QED
  BY <1>4, <1>5, <1>6, <1>8, <1>9, <1>10, TellingSteps DEF Tells, CoreInv, FilesInv

\* The invariant is inductive.
LEMMA IInvStep == IInv /\ [Next]_vars => IInv'
<1> SUFFICES ASSUME IInv, [Next]_vars PROVE IInv'
  OBVIOUS
<1>1. CoreInv /\ FilesInv /\ FoundIsIndexed
  BY DEF IInv, CoreInv, FilesInv, PlaceInv
<1>2. AnswersHave
  BY AnswerByAnswer DEF IInv
<1>3. CoreInv' /\ FilesInv'
  BY <1>1, CoreStep, FilesInvStep
<1>4. FoundIsIndexed'
  BY <1>1, <1>2, ToldStep DEF FoundIsIndexed
<1>5. AnswersHave'
  BY <1>1, <1>2, ToldStep DEF AnswersHave
<1>6. IndexedIsRetrievable'
  BY <1>3, <1>5, AnswerByAnswer DEF FilesInv
<1>7. QED
  BY <1>3, <1>4, <1>6 DEF IInv, CoreInv, FilesInv, PlaceInv

\* The invariant holds of every state of captures: types, the lock
\* held from fetch to cleanup and released on every way out, worktrees of
\* commits the branch has had, answers that name the note's own commit, and an
\* index that is of the files and commits it was made from.
THEOREM Invariance == Spec => []IInv
<1>1. QED
  BY InitIInv, IInvStep, PTL DEF Spec

\* Every state of captures is well-typed.
THEOREM Typing == Spec => []TypeOK
<1>1. IInv => TypeOK
  BY DEF IInv
<1>2. QED
  BY <1>1, Invariance, PTL

\* A client told written_and_pushed finds its note on the capture branch, in
\* the commit it was told, for any number of servers, notes, rejections and
\* failures (_write_and_push_capture).
THEOREM Published == Spec => []ReportedIsPublished
<1>1. IInv => ReportedIsPublished
  BY DEF IInv
<1>2. QED
  BY <1>1, Invariance, PTL

\* A note written in place stays whole in its file, for any number of servers,
\* notes, failures and crashes, wherever no file came between a call's look at
\* its target and its write (_write_local_capture).
THEOREM WrittenInPlaceIsKept == Spec => []WrittenIsKept
<1>1. IInv => WrittenIsKept
  BY DEF IInv
<1>2. QED
  BY <1>1, Invariance, PTL

\* A client told indexed can retrieve its note: the index has it, or in a
\* workspace what the user or a draft has put at its path, and keeps it whatever
\* is synchronized, merged, indexed or written later.
THEOREM Retrievable == Spec => []IndexedIsRetrievable
<1>1. IInv => IndexedIsRetrievable
  BY DEF IInv
<1>2. QED
  BY <1>1, Invariance, PTL

\* direct_push captures implement the append-only log: no note is published
\* twice or over a file of the branch, whatever the servers, the pushes of
\* others, the rejections, the time-outs and the crashes.
THEOREM NoteLogImplemented == Spec => ImplementsNoteLog
<1>1. Init => Log!LogInit
  BY DEF Init, Log!LogInit
<1>2. IInv /\ [Next]_vars => [Log!LogNext]_branch
  BY LogStep DEF IInv
<1>3. QED
  BY <1>1, <1>2, Invariance, PTL DEF Spec, ImplementsNoteLog, Log!LogSpec
=============================================================================
