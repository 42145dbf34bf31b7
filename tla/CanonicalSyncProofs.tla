------------------------- MODULE CanonicalSyncProofs -------------------------
(***************************************************************************)
(* Proofs about CanonicalSync, for any processes, repositories, commits    *)
(* and failures.                                                           *)
(***************************************************************************)
EXTENDS CanonicalSync, TLAPS

USE CanonicalSyncAssumption

-----------------------------------------------------------------------------
(***************************************************************************)
(* Types                                                                   *)
(***************************************************************************)
\* What is not there yet is well-typed.
LEMMA NothingTypes ==
  /\ NoCommit \in MaybeCommit /\ NoCommit \in Content /\ Dirty \in Content
  /\ MaybeCommit \subseteq Content /\ Commits \subseteq MaybeCommit
  /\ NoBackup \in Backups
  /\ \A b \in BOOLEAN : Failure(b) \in Outcomes
  /\ NotServed \in [fresh : BOOLEAN, commit : MaybeCommit, docs : Content, graph : Content]
<1>1. /\ NoCommit \in MaybeCommit /\ NoCommit \in Content /\ Dirty \in Content
      /\ MaybeCommit \subseteq Content /\ Commits \subseteq MaybeCommit
  BY DEF MaybeCommit, Content
<1>2. QED
  BY <1>1 DEF NoBackup, Backups, Failure, Outcomes, NotServed

\* The first state is well-typed.
LEMMA InitTypeOK == Init => TypeOK
<1> SUFFICES ASSUME Init PROVE TypeOK
  OBVIOUS
<1> USE NothingTypes DEF Init
<1>1. DiskTypeOK
  BY DEF DiskTypeOK, Commits
<1>2. SyncTypeOK
  <2>1. (CHOOSE r \in Repos : TRUE) \in Repos
    OBVIOUS
  <2>2. QED
    BY <2>1 DEF SyncTypeOK, Locations
<1>3. ToolTypeOK
  BY DEF ToolTypeOK
<1>4. QED
  BY <1>1, <1>2, <1>3 DEF TypeOK

\* However a repository's turn goes on, what is remembered is well-typed.
LEMMA GotoTypes ==
  ASSUME SyncTypeOK, NEW p \in Procs, NEW l \in Locations, Goto(p, l)
  PROVE  SyncTypeOK'
  BY DEF SyncTypeOK, Goto, locals

LEMMA FinishTypes ==
  ASSUME SyncTypeOK, NEW p \in Procs, NEW outcome \in Outcomes, Finish(p, outcome)
  PROVE  SyncTypeOK'
  BY NothingTypes DEF SyncTypeOK, Finish, Locations

LEMMA GiveUpTypes ==
  ASSUME SyncTypeOK, NEW p \in Procs, NEW owned \in BOOLEAN, GiveUp(p, owned)
  PROVE  SyncTypeOK'
<1>1. Failure(owned /\ prior[p] # NoCommit) \in Outcomes
  BY NothingTypes
<1>2. QED
  BY <1>1, FinishTypes DEF GiveUp

LEMMA RollBackTypes ==
  ASSUME SyncTypeOK, NEW p \in Procs, RollBack(p)
  PROVE  SyncTypeOK'
<1>1. "undo_reset" \in Locations /\ Failure(FALSE) \in Outcomes
  BY NothingTypes DEF Locations
<1>2. QED
  BY <1>1, GotoTypes, FinishTypes DEF RollBack

\* So is what a git that was killed leaves.
LEMMA KilledTypes ==
  ASSUME DiskTypeOK, NEW r \in Repos, GitKilled(r)
  PROVE  tree' \in [Repos -> Content] /\ gitLock' \in [Repos -> BOOLEAN]
<1>1. tree' \in [Repos -> Content]
  BY NothingTypes DEF GitKilled, DiskTypeOK
<1>2. PICK left \in {FALSE, KillLeavesLock} : gitLock' = [gitLock EXCEPT ![r] = left]
  BY DEF GitKilled
<1>3. left \in BOOLEAN
  OBVIOUS
<1>4. QED
  BY <1>1, <1>2, <1>3 DEF DiskTypeOK

\* Every step of a synchronization keeps the types.
LEMMA SyncTypeStep ==
  ASSUME TypeOK, NEW p \in Procs, SyncStep(p) \/ SyncFails(p)
  PROVE  DiskTypeOK' /\ SyncTypeOK'
<1> DiskTypeOK /\ SyncTypeOK /\ repo[p] \in Repos
  BY DEF TypeOK, SyncTypeOK
<1> USE NothingTypes
<1> HIDE DEF DiskTypeOK, SyncTypeOK
<1>1. CASE NextRepo(p)
  BY <1>1 DEF NextRepo, checkout, index, DiskTypeOK, SyncTypeOK, Locations
<1>2. CASE Lock(p)
  BY <1>2 DEF Lock, checkout, index, locals, DiskTypeOK, SyncTypeOK, Locations
<1>3. CASE Reclaim(p) \/ WritePid(p) \/ Release(p)
  <2>1. DiskTypeOK'
    BY <1>3 DEF Reclaim, WritePid, Release, checkout, index, DiskTypeOK
  <2>2. CASE Reclaim(p)
    BY <2>1, <2>2 DEF Reclaim, locals, SyncTypeOK
  <2>3. CASE WritePid(p)
    <3>1. stamp[repo[p]] \in MaybeCommit /\ "open" \in Locations
      BY DEF DiskTypeOK, Locations
    <3>2. QED
      BY <2>1, <2>3, <3>1 DEF WritePid, SyncTypeOK
  <2>4. CASE Release(p)
    BY <2>1, <2>4 DEF Release, locals, SyncTypeOK, Locations
  <2>5. QED
    BY <1>3, <2>2, <2>3, <2>4
<1>4. CASE Open(p)
  <2>1. SyncTypeOK'
    BY <1>4, GotoTypes DEF Open, Locations
  <2>2. DiskTypeOK'
    BY <1>4 DEF Open, checkout, index, DiskTypeOK
  <2>3. QED
    BY <2>1, <2>2
<1>5. CASE Fetch(p)
  <2>1. [stamp |-> stamp, docs |-> docs] \in Backups
    BY DEF Backups, DiskTypeOK
  <2>2. QED
    BY <1>5, <2>1 DEF Fetch, index, DiskTypeOK, SyncTypeOK, Locations
<1>6. CASE Reset(p)
  <2>1. RollBack(p) => SyncTypeOK'
    BY RollBackTypes
  <2>2. commit[p] \in MaybeCommit /\ "assess" \in Locations
    BY DEF SyncTypeOK, Locations
  <2>3. CASE gitLock[repo[p]]
    BY <1>6, <2>1, <2>3 DEF Reset, CheckOut, checkout, index, DiskTypeOK
  <2>4. CASE ~gitLock[repo[p]]
    BY <1>6, <2>2, <2>4, GotoTypes DEF Reset, CheckOut, index, DiskTypeOK
  <2>5. QED
    BY <2>3, <2>4
<1>7. CASE Assess(p)
  BY <1>7 DEF Assess, checkout, index, DiskTypeOK, SyncTypeOK, Locations, IndexAligned
<1>8. CASE RefreshGraph(p)
  <2>1. SyncTypeOK'
    BY <1>8, GotoTypes DEF RefreshGraph, Locations
  <2>2. DiskTypeOK'
    BY <1>8 DEF RefreshGraph, checkout, index, DiskTypeOK
  <2>3. QED
    BY <2>1, <2>2
<1>9. CASE Index(p)
  <2>1. SyncTypeOK'
    BY <1>9, GotoTypes, RollBackTypes DEF Index, Locations
  <2>2. DiskTypeOK'
    BY <1>9 DEF Index, checkout, index, DiskTypeOK
  <2>3. QED
    BY <2>1, <2>2
<1>10. CASE Done(p)
  <2>1. [fetched |-> TRUE, safe |-> TRUE, commit |-> commit[p]] \in Outcomes
    BY DEF Outcomes, SyncTypeOK
  <2>2. QED
    BY <1>10, <2>1, FinishTypes DEF Done, checkout, index, DiskTypeOK
<1>11. CASE EndSync(p)
  BY <1>11 DEF EndSync, checkout, index, locals, DiskTypeOK, SyncTypeOK, Locations
<1>12. CASE UndoReset(p)
  <2>1. prior[p] \in MaybeCommit /\ "undo_graph" \in Locations
    BY DEF SyncTypeOK, Locations
  <2>2. CASE gitLock[repo[p]]
    BY <1>12, <2>2, FinishTypes DEF UndoReset, CheckOut, checkout, index, DiskTypeOK
  <2>3. CASE ~gitLock[repo[p]]
    BY <1>12, <2>1, <2>3, GotoTypes DEF UndoReset, CheckOut, index, DiskTypeOK
  <2>4. QED
    BY <2>2, <2>3
<1>13. CASE UndoGraph(p)
  <2>1. SyncTypeOK'
    BY <1>13, GotoTypes DEF UndoGraph, Locations
  <2>2. DiskTypeOK'
    BY <1>13 DEF UndoGraph, checkout, index, DiskTypeOK
  <2>3. QED
    BY <2>1, <2>2
<1>14. CASE UndoDb(p)
  <2>1. SyncTypeOK'
    BY <1>14, FinishTypes DEF UndoDb
  <2>2. DiskTypeOK'
    BY <1>14 DEF UndoDb, checkout, DiskTypeOK, SyncTypeOK, Backups
  <2>3. QED
    BY <2>1, <2>2
<1>15. CASE LockTimesOut(p) \/ LockFails(p)
  <2>1. NotAcquired(p)
    BY <1>15 DEF LockTimesOut, LockFails
  <2>2. DiskTypeOK'
    BY <2>1 DEF NotAcquired, checkout, index, DiskTypeOK
  <2>3. lock' \in [Repos -> Procs \cup {Free, Orphan, Stuck}]
    BY <1>15 DEF LockTimesOut, LockFails, SyncTypeOK
  <2>4. QED
    BY <2>1, <2>2, <2>3 DEF NotAcquired, locals, SyncTypeOK, Locations
<1>16. CASE OpenFails(p)
  BY <1>16, GiveUpTypes DEF OpenFails, checkout, index, DiskTypeOK
<1>17. CASE FetchFails(p)
  <2>1. SyncTypeOK'
    BY <1>17, GiveUpTypes DEF FetchFails
  <2>2. DiskTypeOK'
    BY <1>17 DEF FetchFails, index, DiskTypeOK
  <2>3. QED
    BY <2>1, <2>2
<1>18. CASE ResetFails(p)
  <2>1. SyncTypeOK'
    BY <1>18, RollBackTypes DEF ResetFails
  <2>2. DiskTypeOK'
    <3>1. commit[p] \in MaybeCommit
      BY DEF SyncTypeOK
    <3>2. CASE GitKilled(repo[p]) /\ UNCHANGED head
      BY <1>18, <3>2, KilledTypes DEF ResetFails, index, DiskTypeOK
    <3>3. CASE ~(GitKilled(repo[p]) /\ UNCHANGED head)
      BY <1>18, <3>1, <3>3 DEF ResetFails, index, DiskTypeOK
    <3>4. QED
      BY <3>2, <3>3
  <2>3. QED
    BY <2>1, <2>2
<1>19. CASE GraphFails(p)
  <2>1. SyncTypeOK'
    BY <1>19, RollBackTypes DEF GraphFails
  <2>2. DiskTypeOK'
    BY <1>19 DEF GraphFails, checkout, index, DiskTypeOK
  <2>3. QED
    BY <2>1, <2>2
<1>20. CASE IndexFails(p)
  BY <1>20, RollBackTypes DEF IndexFails, checkout, index, DiskTypeOK
<1>21. CASE UndoResetFails(p)
  <2>1. SyncTypeOK'
    BY <1>21, FinishTypes DEF UndoResetFails
  <2>2. DiskTypeOK'
    <3>1. tree' \in [Repos -> Content] /\ gitLock' \in [Repos -> BOOLEAN]
      BY <1>21, KilledTypes DEF UndoResetFails, DiskTypeOK
    <3>2. QED
      BY <1>21, <3>1 DEF UndoResetFails, index, DiskTypeOK
  <2>3. QED
    BY <2>1, <2>2
<1>22. CASE UndoGraphFails(p)
  <2>1. SyncTypeOK'
    BY <1>22, FinishTypes DEF UndoGraphFails
  <2>2. DiskTypeOK'
    BY <1>22 DEF UndoGraphFails, checkout, index, DiskTypeOK
  <2>3. QED
    BY <2>1, <2>2
<1>23. CASE UndoDbFails(p)
  BY <1>23, FinishTypes DEF UndoDbFails, checkout, index, DiskTypeOK
<1>24. QED
  BY <1>1, <1>2, <1>3, <1>4, <1>5, <1>6, <1>7, <1>8, <1>9, <1>10, <1>11, <1>12, <1>13, <1>14, <1>15,
     <1>16, <1>17, <1>18, <1>19, <1>20, <1>21, <1>22, <1>23 DEF SyncStep, SyncFails

\* A synchronization does not touch the tools, except that it gives the project
\* lock back.
LEMMA SyncKeepsTools ==
  ASSUME NEW p \in Procs, SyncStep(p) \/ SyncFails(p)
  PROVE  /\ UNCHANGED <<origin, tool, served>>
         /\ UNCHANGED plock \/ (EndSync(p) /\ plock' = [plock EXCEPT ![p] = "free"])
         /\ faults' = faults \/ (faults < MaxFaults /\ faults' = faults + 1)
  BY DEF SyncStep, SyncFails, tools, Fault,
         NextRepo, Lock, WritePid, Reclaim, LockTimesOut, NotAcquired, Open, Fetch, Reset, Assess,
         RefreshGraph, Index, Done, Release, EndSync, UndoReset, UndoGraph, UndoDb, LockFails,
         OpenFails, FetchFails, ResetFails, GraphFails, IndexFails, UndoResetFails, UndoGraphFails,
         UndoDbFails

\* Every step keeps the types.
LEMMA TypeStep == TypeOK /\ [Next]_vars => TypeOK'
<1> SUFFICES ASSUME TypeOK, [Next]_vars PROVE TypeOK'
  OBVIOUS
<1> DiskTypeOK /\ SyncTypeOK /\ ToolTypeOK /\ faults \in 0..MaxFaults
  BY DEF TypeOK
<1> USE NothingTypes
<1>1. CASE UNCHANGED vars
  BY <1>1 DEF vars, checkout, index, locals, tools, TypeOK, DiskTypeOK, SyncTypeOK, ToolTypeOK
<1>2. ASSUME NEW p \in Procs, Start(p) PROVE TypeOK'
  <2>1. DiskTypeOK' /\ ToolTypeOK' /\ faults' = faults
    BY <1>2 DEF Start, checkout, index, DiskTypeOK, ToolTypeOK
  <2>2. SyncTypeOK'
    <3>1. CASE p \in Servers
      <4>1. /\ pc' = [pc EXCEPT ![p] = "next"] /\ todo' = [todo EXCEPT ![p] = Repos]
            /\ UNCHANGED <<lock, repo, prior, commit, backup, reindex, result>>
        BY <1>2, <3>1 DEF Start
      <4>2. QED
        BY <4>1 DEF SyncTypeOK, Locations
    <3>2. CASE p \notin Servers
      BY <1>2, <3>2 DEF Start, SyncTypeOK, Locations
    <3>3. QED
      BY <3>1, <3>2
  <2>3. QED
    BY <2>1, <2>2 DEF TypeOK
<1>3. ASSUME NEW p \in Procs, BeginSync(p) PROVE TypeOK'
  BY <1>3 DEF BeginSync, checkout, index, TypeOK, DiskTypeOK, SyncTypeOK, ToolTypeOK, Locations
<1>4. ASSUME NEW p \in Procs, SyncStep(p) \/ SyncFails(p) PROVE TypeOK'
  <2>1. ToolTypeOK'
    BY <1>4, SyncKeepsTools DEF ToolTypeOK
  <2>2. faults' \in 0..MaxFaults
    BY <1>4, SyncKeepsTools
  <2>3. QED
    BY <1>4, <2>1, <2>2, SyncTypeStep DEF TypeOK
<1>5. ASSUME NEW p \in Procs, EndRead(p) PROVE TypeOK'
  <2>1. DiskTypeOK' /\ SyncTypeOK' /\ faults' = faults
    BY <1>5 DEF EndRead, checkout, index, locals, DiskTypeOK, SyncTypeOK
  <2>2. /\ tool[p].repo \in Repos /\ tool[p].commit \in MaybeCommit /\ tool[p].fresh \in BOOLEAN
        /\ docs[tool[p].repo] \in Content /\ graph[tool[p].repo] \in Content
    BY <1>5 DEF EndRead, ToolTypeOK, DiskTypeOK, NoTool
  <2>3. [fresh |-> tool[p].fresh, commit |-> tool[p].commit, docs |-> docs[tool[p].repo],
         graph |-> graph[tool[p].repo]]
          \in [fresh : BOOLEAN, commit : MaybeCommit, docs : Content, graph : Content]
    BY <2>2
  <2>4. ToolTypeOK'
    BY <1>5, <2>2, <2>3 DEF EndRead, ToolTypeOK
  <2>5. QED
    BY <2>1, <2>4 DEF TypeOK
<1>6. ASSUME NEW p \in Procs, EndIndex(p) PROVE TypeOK'
  <2>1. tool[p].repo \in Repos /\ tool[p].commit \in Commits
    BY <1>6 DEF EndIndex, ToolTypeOK, NoTool
  <2>2. DiskTypeOK'
    BY <1>6, <2>1 DEF EndIndex, checkout, DiskTypeOK
  <2>3. SyncTypeOK' /\ ToolTypeOK' /\ faults' = faults
    BY <1>6 DEF EndIndex, locals, SyncTypeOK, ToolTypeOK
  <2>4. QED
    BY <2>2, <2>3 DEF TypeOK
<1>7. ASSUME NEW p \in Procs, Crash(p) \/ Stop(p) \/ Escapes(p) PROVE TypeOK'
  <2>1. faults' \in 0..MaxFaults
    BY <1>7 DEF Crash, Stop, Escapes, Fault
  <2>2. CASE Exit(p)
    <3>1. DiskTypeOK' /\ ToolTypeOK'
      BY <2>2 DEF Exit, checkout, index, DiskTypeOK, ToolTypeOK
    <3>2. SyncTypeOK'
      BY <2>2 DEF Exit, SyncTypeOK, Locations
    <3>3. QED
      BY <2>1, <3>1, <3>2 DEF TypeOK
  <2>3. CASE Escapes(p)
    <3>1. DiskTypeOK' /\ ToolTypeOK'
      BY <2>3 DEF Escapes, checkout, index, DiskTypeOK, ToolTypeOK
    <3>2. SyncTypeOK'
      BY <2>3 DEF Escapes, SyncTypeOK, Locations
    <3>3. QED
      BY <2>1, <3>1, <3>2 DEF TypeOK
  <2>4. QED
    BY <1>7, <2>2, <2>3 DEF Crash, Stop
<1>8. ASSUME NEW p \in Procs, NEW r \in Repos, BeginRead(p, r) PROVE TypeOK'
  <2>1. stamp[r] \in Commits /\ Fresh(p, r) \in BOOLEAN
    BY <1>8 DEF BeginRead, Readable, IndexAligned, Fresh, DiskTypeOK, MaybeCommit
  <2>2. DiskTypeOK' /\ SyncTypeOK' /\ faults' = faults
    BY <1>8 DEF BeginRead, checkout, index, locals, DiskTypeOK, SyncTypeOK
  <2>3. ToolTypeOK'
    BY <1>8, <2>1 DEF BeginRead, ToolTypeOK
  <2>4. QED
    BY <2>2, <2>3 DEF TypeOK
<1>9. ASSUME NEW p \in Procs, NEW r \in Repos, BeginIndex(p, r) PROVE TypeOK'
  <2>1. head[r] \in Commits
    BY <1>9 DEF BeginIndex, DiskTypeOK, MaybeCommit
  <2>2. DiskTypeOK' /\ SyncTypeOK' /\ faults' = faults
    BY <1>9 DEF BeginIndex, checkout, index, locals, DiskTypeOK, SyncTypeOK
  <2>3. ToolTypeOK'
    BY <1>9, <2>1 DEF BeginIndex, ToolTypeOK
  <2>4. QED
    BY <2>2, <2>3 DEF TypeOK
<1>10. ASSUME NEW r \in Repos, Push(r) PROVE TypeOK'
  <2>1. DiskTypeOK'
    BY <1>10 DEF Push, checkout, index, DiskTypeOK, Commits
  <2>2. SyncTypeOK' /\ ToolTypeOK' /\ faults' = faults
    BY <1>10 DEF Push, locals, tools, SyncTypeOK, ToolTypeOK
  <2>3. QED
    BY <2>1, <2>2 DEF TypeOK
<1>11. ASSUME NEW r \in Repos, LocalEdit(r) PROVE TypeOK'
  <2>1. DiskTypeOK'
    BY <1>11 DEF LocalEdit, index, DiskTypeOK
  <2>2. SyncTypeOK' /\ ToolTypeOK' /\ faults' \in 0..MaxFaults
    BY <1>11 DEF LocalEdit, Fault, locals, tools, SyncTypeOK, ToolTypeOK
  <2>3. QED
    BY <2>1, <2>2 DEF TypeOK
<1>12. QED
  BY <1>1, <1>2, <1>3, <1>4, <1>5, <1>6, <1>7, <1>8, <1>9, <1>10, <1>11 DEF Next, EndTool

\* Every state is well-typed, for any number of servers and command line
\* processes on one state directory.
THEOREM Typing == Spec => []TypeOK
<1>1. QED
  BY InitTypeOK, TypeStep, PTL DEF Spec

-----------------------------------------------------------------------------
(***************************************************************************)
(* What a step of a synchronization leaves alone                           *)
(***************************************************************************)
\* The ways a turn goes on or ends change the memory of their process only.
LEMMA GotoFrame ==
  ASSUME SyncTypeOK, NEW p \in Procs, NEW l, Goto(p, l)
  PROVE  /\ pc' = [pc EXCEPT ![p] = l] /\ pc'[p] = l
         /\ UNCHANGED <<result, lock, locals>>
  BY DEF Goto, SyncTypeOK

LEMMA FinishFrame ==
  ASSUME SyncTypeOK, NEW p \in Procs, NEW outcome, Finish(p, outcome)
  PROVE  /\ pc' = [pc EXCEPT ![p] = "release"] /\ pc'[p] = "release"
         /\ result'[p][repo[p]] = outcome
         /\ \A r \in Repos \ {repo[p]} : result'[p][r] = result[p][r]
         /\ UNCHANGED <<todo, repo, lock>>
         /\ \A q \in Procs \ {p} :
              /\ pc'[q] = pc[q] /\ result'[q] = result[q] /\ prior'[q] = prior[q]
              /\ commit'[q] = commit[q] /\ backup'[q] = backup[q]
  BY DEF Finish, SyncTypeOK

\* The steps of acquire().
Locking(p) == Lock(p) \/ Reclaim(p) \/ LockTimesOut(p) \/ LockFails(p)

\* Nothing of other processes' memory changes.
LEMMA SyncFrame ==
  ASSUME SyncTypeOK, NEW p \in Procs, SyncStep(p) \/ SyncFails(p), NEW q \in Procs \ {p}
  PROVE  /\ pc'[q] = pc[q] /\ repo'[q] = repo[q] /\ prior'[q] = prior[q]
         /\ commit'[q] = commit[q] /\ backup'[q] = backup[q] /\ result'[q] = result[q]
<1> USE DEF SyncTypeOK
<1>1. CASE NextRepo(p)
  BY <1>1 DEF NextRepo
<1>2. CASE Locking(p) \/ WritePid(p) \/ Release(p)
  BY <1>2 DEF Locking, Lock, WritePid, Reclaim, LockTimesOut, LockFails, NotAcquired, Release, locals
<1>3. CASE Fetch(p)
  BY <1>3 DEF Fetch
<1>4. CASE Assess(p)
  BY <1>4 DEF Assess
<1>5. CASE EndSync(p)
  BY <1>5 DEF EndSync, locals
<1>6. CASE \/ \E l : Goto(p, l)
           \/ \E outcome : Finish(p, outcome)
  BY <1>6, FinishFrame, GotoFrame DEF locals
<1>7. RollBack(p) => (\E l : Goto(p, l)) \/ (\E outcome : Finish(p, outcome))
  BY DEF RollBack
<1>8. \A owned : GiveUp(p, owned) => \E outcome : Finish(p, outcome)
  BY DEF GiveUp
<1>9. \/ NextRepo(p) \/ Locking(p) \/ WritePid(p) \/ Release(p) \/ Fetch(p) \/ Assess(p) \/ EndSync(p)
      \/ (\E l : Goto(p, l)) \/ RollBack(p) \/ (\E owned : GiveUp(p, owned))
      \/ \E outcome : Finish(p, outcome)
  BY DEF SyncStep, SyncFails, Locking, Open, Reset, RefreshGraph, Index, Done, UndoReset, UndoGraph, UndoDb,
         OpenFails, FetchFails, ResetFails, GraphFails, IndexFails, UndoResetFails, UndoGraphFails,
         UndoDbFails, CheckOut
<1>10. QED
  BY <1>1, <1>2, <1>3, <1>4, <1>5, <1>6, <1>7, <1>8, <1>9

\* A synchronization is not idle, and only its end makes it so.
LEMMA SyncPlaces ==
  ASSUME SyncTypeOK, NEW p \in Procs, SyncStep(p) \/ SyncFails(p)
  PROVE  /\ pc[p] \notin {"down", "idle", "ended"} /\ pc'[p] \notin {"down", "ended"}
         /\ pc'[p] = "idle" <=> EndSync(p)
<1> DEFINE Resting == {"down", "idle", "ended"}
<1> USE DEF SyncTypeOK
<1>1. CASE NextRepo(p) \/ Locking(p) \/ WritePid(p) \/ Release(p) \/ Fetch(p) \/ EndSync(p)
  BY <1>1 DEF NextRepo, Locking, Lock, WritePid, Reclaim, LockTimesOut, LockFails, NotAcquired, Release,
              Fetch, EndSync, locals
<1>2. CASE Assess(p)
  BY <1>2 DEF Assess, EndSync
<1>3. ASSUME NEW l \in Locations \ Resting, Goto(p, l), pc[p] \notin Resting \cup {"next"}
      PROVE  pc'[p] = l /\ ~EndSync(p)
  BY <1>3, GotoFrame DEF EndSync
<1>4. ASSUME NEW outcome, Finish(p, outcome), pc[p] \notin Resting \cup {"next"}
      PROVE  pc'[p] = "release" /\ ~EndSync(p)
  BY <1>4, FinishFrame DEF EndSync
<1>5. RollBack(p) => (\E l \in Locations \ Resting : Goto(p, l)) \/ (\E outcome : Finish(p, outcome))
  BY DEF RollBack, Locations
<1>6. \A owned : GiveUp(p, owned) => \E outcome : Finish(p, outcome)
  BY DEF GiveUp
<1>7. \/ NextRepo(p) \/ Locking(p) \/ WritePid(p) \/ Release(p) \/ Fetch(p) \/ Assess(p) \/ EndSync(p)
      \/ /\ pc[p] \notin Resting \cup {"next"}
         /\ \/ \E l \in Locations \ Resting : Goto(p, l)
            \/ RollBack(p)
            \/ \E owned : GiveUp(p, owned)
            \/ \E outcome : Finish(p, outcome)
  BY DEF SyncStep, SyncFails, Locking, Open, Reset, RefreshGraph, Index, Done, UndoReset, UndoGraph,
         UndoDb, OpenFails, FetchFails, ResetFails, GraphFails, IndexFails, UndoResetFails,
         UndoGraphFails, UndoDbFails, CheckOut, Locations
<1>8. QED
  BY <1>1, <1>2, <1>3, <1>4, <1>5, <1>6, <1>7

-----------------------------------------------------------------------------
(***************************************************************************)
(* The project lock                                                        *)
(***************************************************************************)
\* What the tool of a process is doing.
LEMMA ToolKinds ==
  ASSUME ToolTypeOK, NEW p \in Procs
  PROVE  /\ tool[p].kind \in {"none", "read", "index"}
         /\ tool[p].kind = "none" <=> tool[p] = NoTool
         /\ tool[p].kind # "none" => tool[p].repo \in Repos /\ tool[p].commit \in Commits
  BY DEF ToolTypeOK, NoTool

\* Synchronization and tool of a process exclude each other (_serialized,
\* sync_project's first lock), and processes that do not synchronize answer
\* nothing.
LEMMA ProjectLockStep ==
  ASSUME TypeOK, \A p \in Procs : ProjectLockHeld(p), [Next]_vars, NEW q \in Procs
  PROVE  ProjectLockHeld(q)'
<1> SyncTypeOK /\ ToolTypeOK /\ ProjectLockHeld(q)
  BY DEF TypeOK
<1>1. CASE UNCHANGED vars
  BY <1>1 DEF vars, tools, ProjectLockHeld
<1>2. ASSUME NEW p \in Procs, Start(p) PROVE ProjectLockHeld(q)'
  <2>1. tool[p] = NoTool
    BY <1>2 DEF Start, ProjectLockHeld, ToolTypeOK
  <2>2. CASE p \in Servers
    <3>1. /\ pc' = [pc EXCEPT ![p] = "next"] /\ plock' = [plock EXCEPT ![p] = "start"]
          /\ UNCHANGED <<tool, result>>
      BY <1>2, <2>2 DEF Start
    <3>2. QED
      BY <2>1, <2>2, <3>1 DEF ProjectLockHeld, SyncTypeOK, ToolTypeOK, NoTool
  <2>3. CASE p \notin Servers
    <3>1. /\ pc' = [pc EXCEPT ![p] = "idle"] /\ UNCHANGED <<plock, tool, result>> /\ pc[p] = "down"
      BY <1>2, <2>3 DEF Start
    <3>2. QED
      BY <2>1, <2>3, <3>1 DEF ProjectLockHeld, SyncTypeOK, ToolTypeOK
  <2>4. QED
    BY <2>2, <2>3
<1>3. ASSUME NEW p \in Procs, BeginSync(p) PROVE ProjectLockHeld(q)'
  <2>1. tool[p] = NoTool
    BY <1>3 DEF BeginSync, ProjectLockHeld, ToolTypeOK
  <2>2. QED
    BY <1>3, <2>1 DEF BeginSync, ProjectLockHeld, SyncTypeOK, ToolTypeOK, NoTool
<1>4. ASSUME NEW p \in Procs, SyncStep(p) \/ SyncFails(p) PROVE ProjectLockHeld(q)'
  <2>1. CASE q = p
    <3>1. /\ pc[p] \notin {"down", "idle", "ended"} /\ p \in Servers /\ tool[p] = NoTool
          /\ plock[p] \in {"start", "sync"}
      BY <1>4, <2>1, SyncPlaces DEF ProjectLockHeld, ToolTypeOK
    <3>2. tool' = tool /\ pc'[p] \notin {"down", "ended"}
      BY <1>4, SyncKeepsTools, SyncPlaces
    <3>3. CASE pc'[p] = "idle"
      <4>1. plock'[p] = "free"
        BY <1>4, <3>3, SyncPlaces DEF EndSync, ToolTypeOK
      <4>2. QED
        BY <2>1, <3>1, <3>2, <3>3, <4>1 DEF ProjectLockHeld, NoTool
    <3>4. CASE pc'[p] # "idle"
      <4>1. plock'[p] \in {"start", "sync"}
        BY <1>4, <3>1, <3>4, SyncPlaces, SyncKeepsTools
      <4>2. QED
        BY <2>1, <3>1, <3>2, <3>4, <4>1 DEF ProjectLockHeld, NoTool
    <3>5. QED
      BY <3>3, <3>4
  <2>2. CASE q # p
    <3>1. pc'[q] = pc[q] /\ result'[q] = result[q]
      BY <1>4, <2>2, SyncFrame
    <3>2. tool' = tool /\ plock'[q] = plock[q]
      BY <1>4, <2>2, SyncKeepsTools DEF ToolTypeOK
    <3>3. QED
      BY <3>1, <3>2 DEF ProjectLockHeld
  <2>3. QED
    BY <2>1, <2>2
<1>5. ASSUME NEW p \in Procs, EndTool(p) PROVE ProjectLockHeld(q)'
  <2>1. /\ tool' = [tool EXCEPT ![p] = NoTool] /\ plock' = [plock EXCEPT ![p] = "free"]
        /\ tool[p] # NoTool /\ UNCHANGED <<pc, result>>
    BY <1>5 DEF EndTool, EndRead, EndIndex, NoTool
  <2>2. QED
    BY <2>1 DEF ProjectLockHeld, ToolTypeOK, NoTool
<1>6. ASSUME NEW p \in Procs, Exit(p) PROVE ProjectLockHeld(q)'
  <2>1. \A r \in Repos : ~[x \in Repos |-> Failure(FALSE)][r].safe
    BY DEF Failure
  <2>2. /\ pc' = [pc EXCEPT ![p] = "down"] /\ plock' = [plock EXCEPT ![p] = "free"]
        /\ tool' = [tool EXCEPT ![p] = NoTool]
        /\ result' = [result EXCEPT ![p] = [x \in Repos |-> Failure(FALSE)]]
    BY <1>6 DEF Exit
  <2>3. CASE q = p
    <3>1. pc'[p] = "down" /\ plock'[p] = "free" /\ tool'[p] = NoTool /\ \A r \in Repos : ~result'[p][r].safe
      BY <2>1, <2>2 DEF SyncTypeOK, ToolTypeOK
    <3>2. QED
      BY <2>3, <3>1 DEF ProjectLockHeld, NoTool
  <2>4. CASE q # p
    BY <2>2, <2>4 DEF ProjectLockHeld, SyncTypeOK, ToolTypeOK
  <2>5. QED
    BY <2>3, <2>4
<1>7. ASSUME NEW p \in Procs, NEW r \in Repos, BeginRead(p, r) \/ BeginIndex(p, r)
      PROVE  ProjectLockHeld(q)'
  <2>1. PICK t : /\ tool' = [tool EXCEPT ![p] = t] /\ t # NoTool
                 /\ t.kind = "read" => result[p][r].safe
                 /\ t.kind = "index" => p \in Indexers
    <3>1. CASE BeginRead(p, r)
      <4>1. PICK c, f : tool' = [tool EXCEPT ![p] = [kind |-> "read", repo |-> r, commit |-> c, fresh |-> f]]
        BY <3>1 DEF BeginRead
      <4>2. result[p][r].safe
        BY <3>1 DEF BeginRead, Readable
      <4> DEFINE t == [kind |-> "read", repo |-> r, commit |-> c, fresh |-> f]
      <4>3. t # NoTool /\ t.kind = "read" /\ t.kind # "index" /\ tool' = [tool EXCEPT ![p] = t]
        BY <4>1 DEF NoTool
      <4> HIDE DEF t
      <4>4. QED
        BY <4>2, <4>3
    <3>2. CASE BeginIndex(p, r)
      <4>1. PICK c : tool' = [tool EXCEPT ![p] = [kind |-> "index", repo |-> r, commit |-> c]]
        BY <3>2 DEF BeginIndex
      <4>2. QED
        BY <3>2, <4>1 DEF BeginIndex, NoTool
    <3>3. QED
      BY <1>7, <3>1, <3>2
  <2>2. /\ plock' = [plock EXCEPT ![p] = "tool"] /\ UNCHANGED <<pc, result>>
        /\ pc[p] # "down" /\ plock[p] = "free"
    BY <1>7 DEF BeginRead, BeginIndex, ProjectLockFree
  <2>3. QED
    BY <2>1, <2>2 DEF ProjectLockHeld, ToolTypeOK, SyncTypeOK
<1>8. ASSUME NEW r \in Repos, Push(r) \/ LocalEdit(r) PROVE ProjectLockHeld(q)'
  BY <1>8 DEF Push, LocalEdit, tools, ProjectLockHeld
<1>9. ASSUME NEW p \in Procs, Escapes(p) PROVE ProjectLockHeld(q)'
  <2>1. /\ pc' = [pc EXCEPT ![p] = "ended"] /\ plock' = [plock EXCEPT ![p] = "free"]
        /\ UNCHANGED <<tool, result>> /\ plock[p] = "sync"
    BY <1>9 DEF Escapes
  <2>2. tool[p] = NoTool /\ p \in Servers
    BY <1>9, <2>1 DEF Escapes, ProjectLockHeld, ToolTypeOK
  <2>3. QED
    BY <2>1, <2>2 DEF ProjectLockHeld, SyncTypeOK, ToolTypeOK, NoTool
<1>10. QED
  BY <1>1, <1>2, <1>3, <1>4, <1>5, <1>6, <1>7, <1>8, <1>9 DEF Next, Crash, Stop

-----------------------------------------------------------------------------
(***************************************************************************)
(* The capture lock                                                        *)
(***************************************************************************)
\* A turn begins by taking the lock and ends by giving it back, or by leaving a
\* file nobody can reclaim, and in between it stays at its repository.
LEMMA LockMoves ==
  ASSUME SyncTypeOK, NEW p \in Procs, SyncStep(p) \/ SyncFails(p)
  PROVE  \/ Lock(p)
         \/ Reclaim(p)
         \/ pc[p] \notin Inside /\ pc'[p] \notin Inside /\ lock' = lock
         \/ pc[p] \in Inside /\ pc'[p] \in Inside /\ lock' = lock /\ repo' = repo
         \/ /\ pc[p] \in Inside /\ pc'[p] = "next" /\ repo' = repo
            /\ \E left \in {Free, Stuck} : lock' = [lock EXCEPT ![repo[p]] = left]
<1> USE DEF Inside, Refreshing, Undoing
<1>1. CASE NextRepo(p) \/ LockTimesOut(p) \/ (LockFails(p) /\ pc[p] = "lock") \/ EndSync(p)
  <2>1. /\ pc[p] \in {"next", "lock"} /\ lock' = lock
        /\ \E l \in {"idle", "next", "lock"} : pc' = [pc EXCEPT ![p] = l]
    BY <1>1 DEF NextRepo, LockTimesOut, LockFails, NotAcquired, EndSync
  <2>2. QED
    BY <2>1 DEF SyncTypeOK
<1>2. CASE Fetch(p) \/ Assess(p) \/ WritePid(p)
  BY <1>2 DEF Fetch, Assess, WritePid, SyncTypeOK
<1>3. ASSUME pc[p] \in Inside, NEW l \in Inside, Goto(p, l)
      PROVE  pc'[p] \in Inside /\ lock' = lock /\ repo' = repo
  BY <1>3, GotoFrame DEF locals
<1>4. ASSUME pc[p] \in Inside, NEW outcome, Finish(p, outcome)
      PROVE  pc'[p] \in Inside /\ lock' = lock /\ repo' = repo
  BY <1>4, FinishFrame
<1>5. RollBack(p) => (\E l \in Inside : Goto(p, l)) \/ (\E outcome : Finish(p, outcome))
  BY DEF RollBack
<1>6. \A owned : GiveUp(p, owned) => \E outcome : Finish(p, outcome)
  BY DEF GiveUp
<1>7. CASE Release(p) \/ (LockFails(p) /\ pc[p] = "created")
  BY <1>7 DEF Release, LockFails, NotAcquired, locals, SyncTypeOK
<1>8. LockFails(p) => pc[p] \in {"lock", "created"}
  BY DEF LockFails
<1>9. \/ NextRepo(p) \/ Locking(p) \/ WritePid(p) \/ Release(p) \/ Fetch(p) \/ Assess(p) \/ EndSync(p)
      \/ /\ pc[p] \in Inside
         /\ \/ \E l \in Inside : Goto(p, l)
            \/ RollBack(p)
            \/ \E owned : GiveUp(p, owned)
            \/ \E outcome : Finish(p, outcome)
  BY DEF SyncStep, SyncFails, Locking, Open, Reset, RefreshGraph, Index, Done, UndoReset, UndoGraph,
         UndoDb, OpenFails, FetchFails, ResetFails, GraphFails, IndexFails, UndoResetFails,
         UndoGraphFails, UndoDbFails, CheckOut
<1>10. QED
  BY <1>1, <1>2, <1>3, <1>4, <1>5, <1>6, <1>7, <1>8, <1>9 DEF Locking

\* Other steps do not touch it, except that the end of a process orphans it.
LEMMA LockKept ==
  ASSUME [Next]_vars
  PROVE  \/ lock' = lock /\ UNCHANGED <<repo, prior, commit, backup>> /\ \A p \in Procs : pc'[p] = pc[p]
         \/ \E p \in Procs : SyncStep(p) \/ SyncFails(p)
         \/ \E p \in Procs : Exit(p)
         \/ \E p \in Procs : /\ Start(p) \/ BeginSync(p) \/ Escapes(p)
                            /\ UNCHANGED <<lock, repo, prior, commit, backup>>
<1>1. CASE UNCHANGED vars
  BY <1>1 DEF vars, locals
<1>2. CASE UNCHANGED <<pc, locals, lock>>
  BY <1>2 DEF locals
<1>3. QED
  BY <1>1, <1>2 DEF Next, Start, BeginSync, Escapes, Crash, Stop, EndTool, EndRead, EndIndex, BeginRead,
                    BeginIndex, Push, LocalEdit

\* The end of a process leaves its lock files to be reclaimed, or stuck.
LEMMA ExitLocks ==
  ASSUME SyncTypeOK, NEW p \in Procs, Exit(p)
  PROVE  /\ pc'[p] = "down" /\ \A q \in Procs \ {p} : pc'[q] = pc[q]
         /\ repo' = repo
         /\ \A r \in Repos : IF lock[r] = p THEN lock'[r] \in {Orphan, Stuck} ELSE lock'[r] = lock[r]
<1>1. PICK left \in {Orphan, Stuck} : lock' = [r \in Repos |-> IF lock[r] = p THEN left ELSE lock[r]]
  BY DEF Exit
<1>2. QED
  BY <1>1 DEF Exit, SyncTypeOK

\* A process holds the capture lock while it works on the repository, whatever
\* fails, and keeps it afterwards only when an exception ended its schedule
\* (sync_project's finally clause).
LEMMA CaptureLockStep ==
  ASSUME TypeOK, \A p \in Procs : ProjectLockHeld(p) /\ CaptureLockHeld(p), [Next]_vars, NEW q \in Procs
  PROVE  CaptureLockHeld(q)'
<1> /\ SyncTypeOK /\ ToolTypeOK /\ CaptureLockHeld(q) /\ repo[q] \in Repos
    /\ Free \notin Procs /\ Orphan \notin Procs /\ Stuck \notin Procs
  BY DEF TypeOK, SyncTypeOK
<1> USE DEF Inside, Refreshing, Undoing
<1>1. CASE lock' = lock /\ repo' = repo /\ pc'[q] = pc[q]
  BY <1>1 DEF CaptureLockHeld
<1>2. ASSUME NEW p \in Procs, Start(p) \/ BeginSync(p) \/ Escapes(p), UNCHANGED <<lock, repo>>
      PROVE  CaptureLockHeld(q)'
  <2>1. q # p => pc'[q] = pc[q]
    BY <1>2 DEF Start, BeginSync, Escapes, SyncTypeOK
  <2>2. CASE q = p /\ (Start(p) \/ BeginSync(p))
    <3>1. pc[p] \in {"down", "idle"} /\ pc'[p] \in {"next", "idle"}
      BY <2>2 DEF Start, BeginSync, SyncTypeOK
    <3>2. QED
      BY <1>2, <2>2, <3>1 DEF CaptureLockHeld
  <2>3. CASE q = p /\ Escapes(p)
    <3>1. pc'[p] = "ended"
      BY <2>3 DEF Escapes, SyncTypeOK
    <3>2. QED
      BY <1>2, <2>3, <3>1 DEF CaptureLockHeld
  <2>4. QED
    BY <1>1, <1>2, <2>1, <2>2, <2>3
<1>3. ASSUME NEW p \in Procs, Exit(p) PROVE CaptureLockHeld(q)'
  BY <1>3, ExitLocks DEF CaptureLockHeld
<1>4. ASSUME NEW p \in Procs, SyncStep(p) \/ SyncFails(p) PROVE CaptureLockHeld(q)'
  <2> CaptureLockHeld(p) /\ repo[p] \in Repos /\ pc[p] # "ended"
    BY <1>4, SyncPlaces DEF SyncTypeOK
  <2>0. q # p => pc'[q] = pc[q] /\ repo'[q] = repo[q]
    BY <1>4, SyncFrame
  <2>1. CASE Lock(p)
    <3>1. /\ lock[repo[p]] = Free /\ pc[p] = "lock" /\ repo' = repo /\ pc'[p] = "created"
          /\ lock' = [lock EXCEPT ![repo[p]] = p]
      BY <2>1 DEF Lock, locals, SyncTypeOK
    <3>2. QED
      BY <2>0, <3>1 DEF CaptureLockHeld, SyncTypeOK
  <2>2. CASE Reclaim(p)
    <3>1. /\ lock[repo[p]] = Orphan /\ repo' = repo /\ pc' = pc
          /\ lock' = [lock EXCEPT ![repo[p]] = Free]
      BY <2>2 DEF Reclaim, locals
    <3>2. QED
      BY <3>1 DEF CaptureLockHeld, SyncTypeOK
  <2>3. CASE pc[p] \notin Inside /\ pc'[p] \notin Inside /\ lock' = lock
    BY <2>0, <2>3 DEF CaptureLockHeld
  <2>4. CASE pc[p] \in Inside /\ pc'[p] \in Inside /\ lock' = lock /\ repo' = repo
    BY <2>0, <2>4 DEF CaptureLockHeld
  <2>5. CASE /\ pc[p] \in Inside /\ pc'[p] = "next" /\ repo' = repo
             /\ \E left \in {Free, Stuck} : lock' = [lock EXCEPT ![repo[p]] = left]
    <3>1. /\ \A r \in Repos \ {repo[p]} : lock'[r] = lock[r]
          /\ lock'[repo[p]] \notin Procs /\ lock[repo[p]] = p
      BY <2>5 DEF CaptureLockHeld, SyncTypeOK
    <3>2. QED
      BY <2>0, <2>5, <3>1 DEF CaptureLockHeld
  <2>6. QED
    BY <1>4, <2>1, <2>2, <2>3, <2>4, <2>5, LockMoves
<1>5. QED
  BY <1>1, <1>2, <1>3, <1>4, LockKept

\* The invariant of the two locks, for any servers, command line processes and
\* repositories.
LEMMA LocksHold == Spec => [](TypeOK /\ \A p \in Procs : ProjectLockHeld(p) /\ CaptureLockHeld(p))
<1> DEFINE I == TypeOK /\ \A p \in Procs : ProjectLockHeld(p) /\ CaptureLockHeld(p)
<1>1. Init => I
  <2> SUFFICES ASSUME Init, NEW p \in Procs PROVE ProjectLockHeld(p) /\ CaptureLockHeld(p)
    BY InitTypeOK
  <2>1. ProjectLockHeld(p)
    BY DEF Init, ProjectLockHeld, NoTool, Failure
  <2>2. CaptureLockHeld(p)
    BY DEF Init, CaptureLockHeld, Inside, Refreshing, Undoing
  <2>3. QED
    BY <2>1, <2>2
<1>2. I /\ [Next]_vars => I'
  <2> SUFFICES ASSUME I, [Next]_vars PROVE TypeOK' /\ \A p \in Procs : ProjectLockHeld(p)' /\ CaptureLockHeld(p)'
    OBVIOUS
  <2>1. QED
    BY TypeStep, ProjectLockStep, CaptureLockStep
<1>3. QED
  BY <1>1, <1>2, PTL DEF Spec

\* One step of the lock file at a time, for every repository: nobody takes a
\* lock that is not free, nor gives back another's (sync_project uses _CaptureLock
\* by its rules).
THEOREM LockRulesKept == Spec => CaptureLockRules
<1>1. Init => \A r \in Repos : CaptureLockOf(r)!LockInit
  BY DEF Init, Owner, CaptureLockOf!LockInit
<1>2. ASSUME TypeOK, \A p \in Procs : CaptureLockHeld(p), [Next]_vars, NEW r \in Repos
      PROVE  [CaptureLockOf(r)!LockNext]_(Owner(r))
  <2> SyncTypeOK /\ Free # Stuck /\ Orphan # Stuck /\ Stuck \notin Procs
    BY <1>2 DEF TypeOK
  <2>1. CASE lock'[r] = lock[r]
    BY <2>1 DEF Owner
  <2>2. ASSUME NEW p \in Procs, Exit(p) PROVE [CaptureLockOf(r)!LockNext]_(Owner(r))
    <3>1. CASE lock[r] = p
      <4>1. CaptureLockOf(r)!Abandon(p)
        BY <2>2, <3>1, ExitLocks DEF Owner, CaptureLockOf!Abandon
      <4>2. QED
        BY <4>1 DEF CaptureLockOf!LockNext
    <3>2. QED
      BY <2>1, <2>2, <3>1, ExitLocks
  <2>3. ASSUME NEW p \in Procs, SyncStep(p) \/ SyncFails(p)
        PROVE  [CaptureLockOf(r)!LockNext]_(Owner(r))
    <3>1. CASE r # repo[p] \/ lock' = lock
      <4>1. lock'[r] = lock[r]
        BY <2>3, <3>1, LockMoves DEF Lock, Reclaim, SyncTypeOK
      <4>2. QED
        BY <2>1, <4>1
    <3>2. CASE r = repo[p] /\ Lock(p)
      <4>1. CaptureLockOf(r)!Acquire(p)
        BY <3>2 DEF Lock, Owner, CaptureLockOf!Acquire, SyncTypeOK
      <4>2. QED
        BY <4>1 DEF CaptureLockOf!LockNext
    <3>3. CASE r = repo[p] /\ Reclaim(p)
      <4>1. CaptureLockOf(r)!Reclaim
        BY <3>3 DEF Reclaim, Owner, CaptureLockOf!Reclaim, SyncTypeOK
      <4>2. QED
        BY <4>1 DEF CaptureLockOf!LockNext
    <3>4. ASSUME r = repo[p], pc[p] \in Inside, NEW left \in {Free, Stuck},
                 lock' = [lock EXCEPT ![repo[p]] = left]
          PROVE  [CaptureLockOf(r)!LockNext]_(Owner(r))
      <4>1. lock[r] = p /\ lock'[r] = left
        BY <1>2, <3>4 DEF CaptureLockHeld, SyncTypeOK
      <4>2. CaptureLockOf(r)!Release(p) \/ CaptureLockOf(r)!Abandon(p)
        BY <4>1 DEF Owner, CaptureLockOf!Release, CaptureLockOf!Abandon
      <4>3. QED
        BY <4>2 DEF CaptureLockOf!LockNext
    <3>5. QED
      BY <2>3, <3>1, <3>2, <3>3, <3>4, LockMoves
  <2>4. QED
    BY <1>2, <2>1, <2>2, <2>3, LockKept
<1>3. TypeOK /\ (\A p \in Procs : ProjectLockHeld(p) /\ CaptureLockHeld(p)) /\ [Next]_vars
        => [\A r \in Repos : [CaptureLockOf(r)!LockNext]_(Owner(r))]_lock
  BY <1>2
<1>4. QED
  BY <1>1, <1>3, LocksHold, PTL DEF Spec, CaptureLockRules

-----------------------------------------------------------------------------
(***************************************************************************)
(* The index while a repository is synchronized                            *)
(***************************************************************************)
\* What synchronization and tools change and readers see.
work == <<head, tree, graph, stamp, docs>>

SyncInv(p) == NothingStoredYet(p) /\ FetchedIsAhead(p) /\ UndoneSoFar(p)
IndexInv == \A r \in Repos : IndexIsBehind(r)
Locked == \A p \in Procs : ProjectLockHeld(p) /\ CaptureLockHeld(p)

\* The types of what is compared.
LEMMA NumberTypes ==
  ASSUME TypeOK
  PROVE  /\ \A r \in Repos : /\ origin[r] \in Int /\ head[r] \in Int /\ stamp[r] \in Int
                             /\ origin[r] \in Commits /\ head[r] \in MaybeCommit
                             /\ stamp[r] \in MaybeCommit /\ docs[r] \in Content
                             /\ stamp[r] >= 0 /\ head[r] >= 0 /\ origin[r] >= 1
         /\ \A p \in Procs : /\ repo[p] \in Repos /\ commit[p] \in Int /\ prior[p] \in Int
                             /\ commit[p] \in MaybeCommit /\ prior[p] \in MaybeCommit
  BY DEF TypeOK, DiskTypeOK, SyncTypeOK, MaybeCommit, Commits, NoCommit

\* Where nothing is being worked on there is nothing to say.
LEMMA OutsideInv ==
  ASSUME NEW p \in Procs, pc'[p] \notin {"open", "fetch"} \cup Refreshing
  PROVE  SyncInv(p)'
  BY DEF SyncInv, NothingStoredYet, FetchedIsAhead, UndoneSoFar, Refreshing, Undoing

\* A failure after the fetch leads to the except clause with the index as it was.
LEMMA RollBackInv ==
  ASSUME SyncTypeOK, NEW p \in Procs, SyncInv(p), RollBack(p), UNCHANGED index,
         pc[p] \in {"reset", "assess", "graph", "index"}
  PROVE  SyncInv(p)'
<1>1. CASE prior[p] # NoCommit
  <2>1. /\ pc'[p] = "undo_reset" /\ UNCHANGED <<repo, prior, commit, backup, stamp, docs>>
    BY <1>1, GotoFrame DEF RollBack, locals, index, Locations
  <2>2. QED
    BY <1>1, <2>1 DEF SyncInv, NothingStoredYet, FetchedIsAhead, UndoneSoFar, Refreshing, Undoing
<1>2. CASE prior[p] = NoCommit
  <2>1. pc'[p] = "release"
    BY <1>2, FinishFrame DEF RollBack
  <2>2. QED
    BY <2>1, OutsideInv DEF Refreshing, Undoing
<1>3. QED
  BY <1>1, <1>2

\* A finished turn has nothing to say either.
LEMMA FinishInv ==
  ASSUME SyncTypeOK, NEW p \in Procs, NEW outcome, Finish(p, outcome)
  PROVE  SyncInv(p)'
  BY FinishFrame, OutsideInv DEF Refreshing, Undoing

\* Each step of a synchronization keeps what it relies on, as long as its
\* process is alone with the repository.
LEMMA OwnStep ==
  ASSUME TypeOK, IndexInv, NEW p \in Procs, SyncInv(p), SyncStep(p) \/ SyncFails(p)
  PROVE  SyncInv(p)'
<1> SyncTypeOK
  BY DEF TypeOK
<1> USE DEF SyncInv, NothingStoredYet, FetchedIsAhead, UndoneSoFar, Refreshing, Undoing
<1>1. CASE NextRepo(p) \/ Locking(p) \/ Release(p) \/ EndSync(p)
  <2>1. pc'[p] \in {"idle", "next", "lock", "created"}
    BY <1>1 DEF NextRepo, Locking, Lock, Reclaim, LockTimesOut, LockFails, NotAcquired, Release, EndSync,
                SyncTypeOK
  <2>2. QED
    BY <2>1, OutsideInv
<1>2. CASE WritePid(p)
  BY <1>2 DEF WritePid, SyncTypeOK, index
<1>3. CASE Open(p)
  <2>1. pc[p] = "open" /\ pc'[p] = "fetch" /\ UNCHANGED <<repo, prior, stamp>>
    BY <1>3, GotoFrame DEF Open, locals, index
  <2>2. QED
    BY <2>1
<1>4. CASE Fetch(p)
  <2>1. /\ pc[p] = "fetch" /\ pc'[p] = "reset" /\ UNCHANGED <<repo, prior, stamp, docs, origin>>
        /\ commit'[p] = origin[repo[p]]
        /\ prior[p] # NoCommit => backup'[p] = [stamp |-> stamp, docs |-> docs]
    BY <1>4 DEF Fetch, SyncTypeOK, index
  <2>2. stamp[repo[p]] <= origin[repo[p]] /\ origin[repo[p]] <= origin[repo[p]]
    BY NumberTypes DEF IndexInv, IndexIsBehind
  <2>3. QED
    BY <2>1, <2>2
<1>5. CASE Reset(p)
  <2>1. CASE gitLock[repo[p]]
    BY <1>5, <2>1, RollBackInv DEF Reset, CheckOut
  <2>2. CASE ~gitLock[repo[p]]
    <3>1. pc[p] = "reset" /\ pc'[p] = "assess" /\ UNCHANGED <<repo, prior, backup, stamp, docs>>
      BY <1>5, <2>2, GotoFrame DEF Reset, CheckOut, locals, index
    <3>2. QED
      BY <3>1
  <2>3. QED
    BY <2>1, <2>2
<1>6. CASE Assess(p)
  <2>1. /\ pc[p] = "assess" /\ pc'[p] \in {"graph", "index", "done"}
        /\ UNCHANGED <<repo, prior, backup, stamp, docs>>
    BY <1>6 DEF Assess, SyncTypeOK, index
  <2>2. QED
    BY <2>1
<1>7. CASE RefreshGraph(p)
  <2>1. /\ pc[p] = "graph" /\ pc'[p] \in {"index", "done"}
        /\ UNCHANGED <<repo, prior, backup, stamp, docs>>
    BY <1>7, GotoFrame DEF RefreshGraph, locals, index
  <2>2. QED
    BY <2>1
<1>8. CASE Index(p)
  <2>1. CASE tree[repo[p]] = head[repo[p]]
    <3>1. pc'[p] = "done"
      BY <1>8, <2>1, GotoFrame DEF Index
    <3>2. QED
      BY <3>1
  <2>2. CASE tree[repo[p]] # head[repo[p]]
    BY <1>8, <2>2, RollBackInv DEF Index
  <2>3. QED
    BY <2>1, <2>2
<1>9. CASE ResetFails(p) \/ GraphFails(p) \/ IndexFails(p)
  BY <1>9, RollBackInv DEF ResetFails, GraphFails, IndexFails
<1>10. CASE UndoReset(p)
  <2>1. CASE gitLock[repo[p]]
    BY <1>10, <2>1, FinishInv DEF UndoReset, CheckOut
  <2>2. CASE ~gitLock[repo[p]]
    <3>1. /\ pc[p] = "undo_reset" /\ pc'[p] = "undo_graph" /\ UNCHANGED <<repo, prior, backup, stamp, docs>>
          /\ head' = [head EXCEPT ![repo[p]] = prior[p]] /\ tree' = [tree EXCEPT ![repo[p]] = prior[p]]
      BY <1>10, <2>2, GotoFrame DEF UndoReset, CheckOut, locals, index
    <3>2. head'[repo[p]] = prior[p] /\ tree'[repo[p]] = prior[p]
      BY <3>1 DEF TypeOK, DiskTypeOK, SyncTypeOK
    <3>3. QED
      BY <3>1, <3>2
  <2>3. QED
    BY <2>1, <2>2
<1>11. CASE UndoGraph(p)
  <2>1. /\ pc[p] = "undo_graph" /\ pc'[p] = "undo_db"
        /\ UNCHANGED <<repo, prior, backup, stamp, docs, head, tree>>
    BY <1>11, GotoFrame DEF UndoGraph, locals, index, checkout
  <2>2. GraphReady(repo[p])'
    BY <1>11, <2>1 DEF UndoGraph, GraphReady, TypeOK, DiskTypeOK, SyncTypeOK
  <2>3. QED
    BY <2>1, <2>2
<1>12. CASE OpenFails(p) \/ FetchFails(p)
  BY <1>12, FinishInv DEF OpenFails, FetchFails, GiveUp
<1>13. CASE Done(p) \/ UndoDb(p) \/ UndoResetFails(p) \/ UndoGraphFails(p) \/ UndoDbFails(p)
  BY <1>13, FinishInv DEF Done, UndoDb, UndoResetFails, UndoGraphFails, UndoDbFails
<1>14. QED
  BY <1>1, <1>2, <1>3, <1>4, <1>5, <1>6, <1>7, <1>8, <1>9, <1>10, <1>11, <1>12, <1>13
  DEF SyncStep, SyncFails, Locking

\* The index only moves forward: a refresh goes on from the commit that is
\* indexed, and what is restored is what the index holds.
LEMMA ForwardStep ==
  ASSUME TypeOK, IndexInv, NEW p \in Procs, SyncInv(p), SyncStep(p) \/ SyncFails(p)
  PROVE  /\ IndexInv'
         /\ \A r \in Repos : stamp[r] <= stamp'[r]
         /\ stamp' = stamp \/ Index(p)
<1> SyncTypeOK /\ DiskTypeOK /\ repo[p] \in Repos
  BY DEF TypeOK, SyncTypeOK
<1>0. origin' = origin
  BY SyncKeepsTools
<1>1. CASE UNCHANGED <<head, stamp, docs>>
  BY <1>0, <1>1, NumberTypes DEF IndexInv, IndexIsBehind
<1>2. CASE Open(p)
  <2>1. head' = head \/ (head[repo[p]] = NoCommit /\ head' = [head EXCEPT ![repo[p]] = origin[repo[p]]])
    BY <1>2 DEF Open, checkout
  <2>2. UNCHANGED <<stamp, docs>>
    BY <1>2 DEF Open, index
  <2>3. CASE head' = [head EXCEPT ![repo[p]] = origin[repo[p]]]
    BY <1>0, <2>1, <2>2, <2>3, NumberTypes DEF IndexInv, IndexIsBehind, DiskTypeOK, NoCommit
  <2>4. QED
    BY <1>1, <2>1, <2>2, <2>3
<1>3. CASE Reset(p) \/ ResetFails(p)
  <2>1. /\ pc[p] = "reset" /\ UNCHANGED <<stamp, docs>>
        /\ head' = head \/ head' = [head EXCEPT ![repo[p]] = commit[p]]
    BY <1>3 DEF Reset, ResetFails, CheckOut, checkout, index, DiskTypeOK
  <2>2. stamp[repo[p]] <= commit[p] /\ commit[p] <= origin[repo[p]]
    BY <2>1 DEF SyncInv, FetchedIsAhead
  <2>3. QED
    BY <1>0, <1>1, <2>1, <2>2, NumberTypes DEF IndexInv, IndexIsBehind, DiskTypeOK
<1>4. CASE Index(p)
  <2>1. CASE tree[repo[p]] = head[repo[p]]
    <3>1. /\ stamp' = [stamp EXCEPT ![repo[p]] = head[repo[p]]]
          /\ docs' = [docs EXCEPT ![repo[p]] = head[repo[p]]] /\ head' = head
      BY <1>4, <2>1 DEF Index, checkout
    <3>2. QED
      BY <1>0, <1>4, <3>1, NumberTypes DEF IndexInv, IndexIsBehind, DiskTypeOK
  <2>2. CASE tree[repo[p]] # head[repo[p]]
    BY <1>1, <1>4, <2>2 DEF Index, checkout, index
  <2>3. QED
    BY <2>1, <2>2
<1>5. CASE UndoReset(p)
  <2>1. /\ pc[p] = "undo_reset" /\ UNCHANGED <<stamp, docs>>
        /\ head' = head \/ head' = [head EXCEPT ![repo[p]] = prior[p]]
    BY <1>5 DEF UndoReset, CheckOut, checkout, index
  <2>2. prior[p] = stamp[repo[p]]
    BY <2>1 DEF SyncInv, NothingStoredYet, Refreshing, Undoing
  <2>3. QED
    BY <1>0, <1>1, <2>1, <2>2, NumberTypes DEF IndexInv, IndexIsBehind, DiskTypeOK
<1>6. CASE UndoDb(p)
  <2>1. backup[p] = [stamp |-> stamp, docs |-> docs]
    BY <1>6 DEF UndoDb, SyncInv, NothingStoredYet, Refreshing, Undoing
  <2>2. stamp' = stamp /\ docs' = docs /\ head' = head
    BY <1>6, <2>1 DEF UndoDb, checkout
  <2>3. QED
    BY <1>1, <2>2
<1>7. QED
  BY <1>1, <1>2, <1>3, <1>4, <1>5, <1>6
  DEF SyncStep, SyncFails, checkout, index, NextRepo, Lock, WritePid, Reclaim, LockTimesOut,
      NotAcquired, Fetch, Assess, RefreshGraph, Done, Release, EndSync, UndoGraph, LockFails, OpenFails, FetchFails, GraphFails, IndexFails,
      UndoResetFails, UndoGraphFails, UndoDbFails

-----------------------------------------------------------------------------
(***************************************************************************)
(* The steps of others                                                     *)
(***************************************************************************)
\* A process whose work nobody disturbs in a sound set-up: one with a capture
\* lock, a tool that indexes, and a read where one process writes.
AtWork(p) ==
  pc[p] \in Inside \/ tool[p].kind = "index" \/ (OneServer /\ tool[p].kind = "read")

\* Outside its turns a synchronization touches nothing.
LEMMA OutsideRests ==
  ASSUME NEW p \in Procs, SyncStep(p) \/ SyncFails(p), pc[p] \notin Inside
  PROVE  UNCHANGED work
  BY DEF SyncStep, SyncFails, work, checkout, index, Inside, Refreshing, Undoing,
         NextRepo, Lock, WritePid, Reclaim, LockTimesOut, NotAcquired, Open, Fetch, Reset, Assess,
         RefreshGraph, Index, Done, Release, EndSync, UndoReset, UndoGraph, UndoDb, LockFails,
         OpenFails, FetchFails, ResetFails, GraphFails, IndexFails, UndoResetFails, UndoGraphFails,
         UndoDbFails

\* While one is at work the others rest: there is no other server, or the capture
\* lock of the only repository keeps them out.
LEMMA OthersRest ==
  ASSUME Sound, TypeOK, Locked, NEW p \in Procs, AtWork(p), NEW q \in Procs, q # p,
         SyncStep(q) \/ SyncFails(q) \/ EndTool(q)
  PROVE  UNCHANGED work
<1> SyncTypeOK /\ ProjectLockHeld(p) /\ ProjectLockHeld(q) /\ CaptureLockHeld(p) /\ CaptureLockHeld(q)
  BY DEF Locked, TypeOK
<1>1. CASE EndRead(q)
  BY <1>1 DEF EndRead, checkout, index, work
<1>2. CASE OneServer /\ ~EndRead(q)
  <2>1. p \in Servers \cup Indexers
    <3>1. CASE pc[p] \in Inside
      BY <3>1 DEF ProjectLockHeld, Inside, Refreshing, Undoing
    <3>2. CASE tool[p].kind \in {"index", "read"}
      BY <3>2 DEF ProjectLockHeld
    <3>3. QED
      BY <3>1, <3>2 DEF AtWork
  <2>2. q \in Servers \cup Indexers
    <3>1. CASE SyncStep(q) \/ SyncFails(q)
      BY <3>1, SyncPlaces DEF ProjectLockHeld
    <3>2. CASE EndIndex(q)
      BY <3>2 DEF EndIndex, ProjectLockHeld
    <3>3. QED
      BY <1>2, <3>1, <3>2 DEF EndTool
  <2>3. QED
    BY <1>2, <2>1, <2>2 DEF OneServer
<1>3. CASE ~OneServer /\ ~EndRead(q)
  <2>1. Indexers = {} /\ \A r, x \in Repos : r = x
    BY <1>3 DEF Sound
  <2>2. ~EndIndex(q) /\ pc[p] \in Inside
    BY <1>3, <2>1 DEF EndIndex, ProjectLockHeld, AtWork
  <2>3. pc[q] \notin Inside
    <3>1. repo[p] \in Repos /\ repo[q] \in Repos
      BY DEF SyncTypeOK
    <3>2. repo[p] = repo[q]
      BY <2>1, <3>1
    <3>3. lock[repo[p]] = p
      BY <2>2, <3>1 DEF CaptureLockHeld
    <3>4. QED
      BY <3>1, <3>2, <3>3 DEF CaptureLockHeld
  <2>4. QED
    BY <1>3, <2>2, <2>3, OutsideRests DEF EndTool
<1>4. QED
  BY <1>1, <1>2, <1>3

\* What a process relies on survives what others may do while it works: push and
\* edit files.
LEMMA KeptInv ==
  ASSUME TypeOK, NEW p \in Procs, SyncInv(p),
         pc'[p] = pc[p], repo'[p] = repo[p], prior'[p] = prior[p], commit'[p] = commit[p],
         backup'[p] = backup[p],
         pc[p] \in Inside =>
             /\ UNCHANGED <<head, graph, stamp, docs>>
             /\ tree'[repo[p]] \in {tree[repo[p]], Dirty}
             /\ origin[repo[p]] <= origin'[repo[p]] /\ origin'[repo[p]] \in Int
  PROVE  SyncInv(p)'
<1>1. CASE pc[p] \notin Inside
  BY <1>1, OutsideInv DEF Inside
<1>2. CASE pc[p] \in Inside
  <2>1. NothingStoredYet(p)'
    BY <1>2 DEF SyncInv, NothingStoredYet
  <2>2. FetchedIsAhead(p)'
    BY <1>2, NumberTypes DEF SyncInv, FetchedIsAhead
  <2>3. UndoneSoFar(p)'
    BY <1>2 DEF SyncInv, UndoneSoFar, GraphReady
  <2>4. QED
    BY <2>1, <2>2, <2>3 DEF SyncInv
<1>3. QED
  BY <1>1, <1>2

\* The checkout that index_project found clean stays so (DbFree, and no
\* synchronization of its own process or of another).
LEMMA EndIndexStep ==
  ASSUME TypeOK, IndexInv, NEW p \in Procs, IndexingIsClean(p), EndIndex(p)
  PROVE  /\ IndexInv' /\ \A r \in Repos : stamp[r] <= stamp'[r]
         /\ UNCHANGED <<origin, head, tree, graph>>
         /\ \A r \in Repos \ {tool[p].repo} : docs'[r] = docs[r]
<1> DiskTypeOK /\ ToolTypeOK
  BY DEF TypeOK
<1>1. tool[p].kind = "index" /\ tool[p].repo \in Repos
  BY ToolKinds DEF EndIndex
<1>2. /\ stamp' = [stamp EXCEPT ![tool[p].repo] = head[tool[p].repo]]
      /\ docs' = [docs EXCEPT ![tool[p].repo] = head[tool[p].repo]]
      /\ UNCHANGED <<origin, head, tree, graph>>
  BY <1>1 DEF EndIndex, IndexingIsClean, checkout
<1>3. QED
  BY <1>1, <1>2, NumberTypes DEF IndexInv, IndexIsBehind, DiskTypeOK

\* Every step keeps the index moving forward.
LEMMA IndexStep ==
  ASSUME TypeOK, IndexInv, \A p \in Procs : SyncInv(p) /\ IndexingIsClean(p), [Next]_vars
  PROVE  IndexInv' /\ \A r \in Repos : stamp[r] <= stamp'[r] /\ origin[r] <= origin'[r]
<1>1. CASE UNCHANGED <<origin, head, stamp, docs>>
  BY <1>1, NumberTypes DEF IndexInv, IndexIsBehind
<1>2. ASSUME NEW p \in Procs, SyncStep(p) \/ SyncFails(p)
      PROVE  IndexInv' /\ \A r \in Repos : stamp[r] <= stamp'[r] /\ origin[r] <= origin'[r]
  BY <1>2, ForwardStep, SyncKeepsTools, NumberTypes
<1>3. ASSUME NEW p \in Procs, EndIndex(p)
      PROVE  IndexInv' /\ \A r \in Repos : stamp[r] <= stamp'[r] /\ origin[r] <= origin'[r]
  BY <1>3, EndIndexStep, NumberTypes
<1>4. ASSUME NEW r \in Repos, Push(r)
      PROVE  IndexInv' /\ \A x \in Repos : stamp[x] <= stamp'[x] /\ origin[x] <= origin'[x]
  <2>1. origin' = [origin EXCEPT ![r] = origin[r] + 1] /\ UNCHANGED <<head, stamp, docs>>
    BY <1>4 DEF Push, checkout, index
  <2>2. \A x \in Repos : origin[x] <= origin'[x] /\ origin'[x] \in Int
    BY <2>1, NumberTypes DEF TypeOK, DiskTypeOK
  <2>3. QED
    BY <2>1, <2>2, NumberTypes DEF IndexInv, IndexIsBehind
<1>5. QED
  BY <1>1, <1>2, <1>3, <1>4
  DEF Next, vars, checkout, index, Start, BeginSync, EndTool, EndRead, Escapes, Crash, Stop, Exit,
      BeginRead, BeginIndex, LocalEdit

\* Every step keeps what each synchronization relies on.
LEMMA SyncInvStep ==
  ASSUME Sound, TypeOK, Locked, IndexInv, \A p \in Procs : SyncInv(p) /\ IndexingIsClean(p),
         [Next]_vars, NEW q \in Procs
  PROVE  SyncInv(q)'
<1> SyncInv(q) /\ SyncTypeOK /\ ProjectLockHeld(q) /\ repo[q] \in Repos
  BY DEF Locked, TypeOK, SyncTypeOK
<1>0. /\ \A r \in Repos : origin[r] <= origin'[r] /\ origin'[r] \in Int
      /\ tree[repo[q]] \in {tree[repo[q]], Dirty}
  BY IndexStep, TypeStep, NumberTypes DEF TypeOK, DiskTypeOK, Commits
<1>1. CASE UNCHANGED <<pc, locals, work>>
  BY <1>0, <1>1, KeptInv DEF locals, work
<1>2. ASSUME NEW p \in Procs, SyncStep(p) \/ SyncFails(p) PROVE SyncInv(q)'
  <2>1. CASE q = p
    BY <1>2, <2>1, OwnStep
  <2>2. CASE q # p
    <3>1. pc[q] \in Inside => UNCHANGED work
      BY <1>2, <2>2, OthersRest DEF AtWork
    <3>2. QED
      BY <1>0, <1>2, <2>2, <3>1, SyncFrame, KeptInv DEF work
  <2>3. QED
    BY <2>1, <2>2
<1>3. ASSUME NEW p \in Procs, EndTool(p) PROVE SyncInv(q)'
  <2>1. UNCHANGED <<pc, locals>> /\ tool[p].kind \in {"read", "index"}
    BY <1>3 DEF EndTool, EndRead, EndIndex
  <2>2. pc[q] \in Inside => q # p
    BY <2>1 DEF ProjectLockHeld, NoTool, Inside, Refreshing, Undoing
  <2>3. pc[q] \in Inside => UNCHANGED work
    BY <1>3, <2>2, OthersRest DEF AtWork
  <2>4. QED
    BY <1>0, <2>1, <2>3, KeptInv DEF locals, work
<1>4. ASSUME NEW p \in Procs, Start(p) \/ BeginSync(p) \/ Exit(p) \/ Escapes(p) PROVE SyncInv(q)'
  <2>1. CASE q = p
    <3>1. pc'[q] \in {"next", "idle", "down", "ended"}
      <4>1. \E l \in {"next", "idle", "down", "ended"} : pc' = [pc EXCEPT ![p] = l]
        BY <1>4 DEF Start, BeginSync, Exit, Escapes
      <4>2. QED
        BY <2>1, <4>1 DEF SyncTypeOK
    <3>2. QED
      BY <3>1, OutsideInv DEF Refreshing, Undoing
  <2>2. CASE q # p
    <3>1. /\ pc'[q] = pc[q] /\ repo'[q] = repo[q] /\ prior'[q] = prior[q] /\ commit'[q] = commit[q]
          /\ backup'[q] = backup[q] /\ UNCHANGED work
      BY <1>4, <2>2 DEF Start, BeginSync, Exit, Escapes, SyncTypeOK, work, checkout, index
    <3>2. QED
      BY <1>0, <3>1, KeptInv DEF work
  <2>3. QED
    BY <2>1, <2>2
<1>5. ASSUME NEW r \in Repos, LocalEdit(r) PROVE SyncInv(q)'
  <2>1. /\ UNCHANGED <<pc, locals, head, graph, stamp, docs>>
        /\ tree'[repo[q]] \in {tree[repo[q]], Dirty}
    BY <1>5 DEF LocalEdit, index, TypeOK, DiskTypeOK
  <2>2. QED
    BY <1>0, <2>1, KeptInv DEF locals
<1>6. QED
  BY <1>1, <1>2, <1>3, <1>4, <1>5
  DEF Next, vars, work, checkout, index, Crash, Stop, BeginRead, BeginIndex, Push

-----------------------------------------------------------------------------
(***************************************************************************)
(* Tools and their answers                                                 *)
(***************************************************************************)
ToolInv(p) ==
  /\ IndexingIsClean(p) /\ ReadIsAsChecked(p)
  /\ \A r \in Repos : served[p][r].commit <= stamp[r]

\* The types of what tools and readers hold.
LEMMA ToolNumbers ==
  ASSUME TypeOK, NEW p \in Procs
  PROVE  /\ \A r \in Repos : served[p][r].commit \in Int
         /\ tool[p].kind # "none" => tool[p].repo \in Repos /\ tool[p].commit \in Int
<1>1. ToolTypeOK
  BY DEF TypeOK
<1>2. \A r \in Repos : served[p][r].commit \in MaybeCommit
  BY <1>1 DEF ToolTypeOK
<1>3. QED
  BY <1>1, <1>2, ToolKinds DEF MaybeCommit, Commits, NoCommit

\* A tool that goes on is served by an index that moves forward, and the checkout
\* and documents it relies on stay.
LEMMA KeptTool ==
  ASSUME TypeOK, NEW p \in Procs, ToolInv(p), tool'[p] = tool[p], served'[p] = served[p],
         \A r \in Repos : stamp[r] <= stamp'[r] /\ stamp'[r] \in Int,
         tool[p].kind = "index" => UNCHANGED <<head, tree>>,
         tool[p].kind = "read" /\ OneServer => UNCHANGED <<docs, graph>>
  PROVE  ToolInv(p)'
<1>1. IndexingIsClean(p)'
  BY DEF ToolInv, IndexingIsClean
<1>2. ReadIsAsChecked(p)'
  <2> SUFFICES ASSUME tool[p].kind = "read"
               PROVE  /\ served[p][tool[p].repo].commit <= tool[p].commit
                      /\ tool[p].commit <= stamp'[tool[p].repo]
                      /\ OneServer => /\ docs'[tool[p].repo] = tool[p].commit
                                      /\ tool[p].repo \in GraphRepos => graph'[tool[p].repo] = tool[p].commit
    BY DEF ReadIsAsChecked
  <2>1. tool[p].repo \in Repos /\ tool[p].commit \in Int
    BY ToolNumbers
  <2>2. stamp[tool[p].repo] \in Int /\ stamp'[tool[p].repo] \in Int /\ stamp[tool[p].repo] <= stamp'[tool[p].repo]
    BY <2>1, NumberTypes
  <2>3. QED
    BY <2>1, <2>2 DEF ToolInv, ReadIsAsChecked
<1>3. ASSUME NEW r \in Repos PROVE served'[p][r].commit <= stamp'[r]
  <2>1. served[p][r].commit \in Int /\ stamp[r] \in Int /\ stamp'[r] \in Int
    BY ToolNumbers, NumberTypes
  <2>2. served[p][r].commit <= stamp[r] /\ stamp[r] <= stamp'[r]
    BY DEF ToolInv
  <2>3. QED
    BY <2>1, <2>2
<1>4. QED
  BY <1>1, <1>2, <1>3 DEF ToolInv

\* Every step keeps what each tool relies on.
LEMMA ToolInvStep ==
  ASSUME Sound, TypeOK, Locked, IndexInv, \A p \in Procs : SyncInv(p) /\ ToolInv(p),
         [Next]_vars, NEW q \in Procs
  PROVE  ToolInv(q)'
<1> ToolInv(q) /\ ToolTypeOK /\ DiskTypeOK /\ ProjectLockHeld(q)
  BY DEF Locked, TypeOK
<1>0. \A r \in Repos : stamp[r] <= stamp'[r] /\ stamp'[r] \in Int
  <2>1. \A p \in Procs : SyncInv(p) /\ IndexingIsClean(p)
    BY DEF ToolInv
  <2>2. \A r \in Repos : stamp[r] <= stamp'[r]
    BY <2>1, IndexStep
  <2>3. \A r \in Repos : stamp'[r] \in Int
    BY TypeStep DEF TypeOK, DiskTypeOK, MaybeCommit, Commits, NoCommit
  <2>4. QED
    BY <2>2, <2>3
<1>1. CASE UNCHANGED <<tool, served, work>>
  BY <1>0, <1>1, KeptTool DEF work
<1>2. ASSUME NEW p \in Procs, SyncStep(p) \/ SyncFails(p) PROVE ToolInv(q)'
  <2>1. UNCHANGED <<tool, served>>
    BY <1>2, SyncKeepsTools
  <2>2. CASE q = p
    <3>1. pc[p] \notin {"down", "idle", "ended"}
      BY <1>2, SyncPlaces DEF TypeOK
    <3>2. tool[q].kind = "none"
      BY <2>2, <3>1 DEF ProjectLockHeld, NoTool, ToolTypeOK
    <3>3. QED
      BY <1>0, <2>1, <3>2, KeptTool
  <2>3. CASE q # p
    <3>1. AtWork(q) => UNCHANGED work
      BY <1>2, <2>3, OthersRest
    <3>2. QED
      BY <1>0, <2>1, <3>1, KeptTool DEF work, AtWork
  <2>4. QED
    BY <2>2, <2>3
<1>3. ASSUME NEW p \in Procs, EndTool(p) PROVE ToolInv(q)'
  <2>1. CASE q = p
    <3>1. tool'[q].kind = "none"
      BY <1>3, <2>1 DEF EndTool, EndRead, EndIndex, ToolTypeOK, NoTool
    <3>2. ASSUME NEW r \in Repos PROVE served'[q][r].commit <= stamp'[r]
      <4>1. CASE served'[q][r] = served[q][r]
        BY <1>0, <4>1, ToolNumbers, NumberTypes DEF ToolInv
      <4>2. CASE EndRead(q) /\ served'[q][r] # served[q][r]
        <5>1. r = tool[q].repo /\ served'[q][r].commit = tool[q].commit /\ stamp' = stamp /\ tool[q].kind = "read"
          BY <4>2 DEF EndRead, ToolTypeOK, index
        <5>2. QED
          BY <5>1 DEF ToolInv, ReadIsAsChecked
      <4>3. QED
        BY <1>3, <2>1, <4>1, <4>2 DEF EndTool, EndIndex
    <3>3. QED
      BY <3>1, <3>2 DEF ToolInv, IndexingIsClean, ReadIsAsChecked
  <2>2. CASE q # p
    <3>1. tool'[q] = tool[q] /\ served'[q] = served[q]
      BY <1>3, <2>2 DEF EndTool, EndRead, EndIndex, ToolTypeOK
    <3>2. AtWork(q) => UNCHANGED work
      BY <1>3, <2>2, OthersRest
    <3>3. QED
      BY <1>0, <3>1, <3>2, KeptTool DEF work, AtWork
  <2>3. QED
    BY <2>1, <2>2
<1>4. ASSUME NEW p \in Procs, Start(p) \/ BeginSync(p) \/ Exit(p) \/ Escapes(p) PROVE ToolInv(q)'
  <2>1. UNCHANGED <<served, work>> /\ tool'[q] \in {tool[q], NoTool}
    BY <1>4 DEF Start, BeginSync, Exit, Escapes, ToolTypeOK, work, checkout, index
  <2>2. CASE tool'[q] = tool[q]
    BY <1>0, <2>1, <2>2, KeptTool DEF work
  <2>3. CASE tool'[q] = NoTool
    BY <2>1, <2>3 DEF ToolInv, IndexingIsClean, ReadIsAsChecked, NoTool, work
  <2>4. QED
    BY <2>1, <2>2, <2>3
<1>5. ASSUME NEW p \in Procs, NEW r \in Repos, BeginRead(p, r) PROVE ToolInv(q)'
  <2>1. UNCHANGED <<served, work>> /\ (q # p => tool'[q] = tool[q])
    BY <1>5 DEF BeginRead, ToolTypeOK, work, checkout, index
  <2>2. CASE q = p
    <3>1. tool'[q].kind = "read" /\ tool'[q].repo = r /\ tool'[q].commit = stamp[r]
      BY <1>5, <2>2 DEF BeginRead, ToolTypeOK
    <3>2. /\ docs[r] = stamp[r] /\ stamp[r] <= stamp[r]
          /\ r \in GraphRepos => graph[r] = stamp[r]
      BY <1>5, NumberTypes DEF BeginRead, Readable, IndexAligned, GraphReady, IndexInv, IndexIsBehind
    <3>3. QED
      BY <2>1, <3>1, <3>2 DEF ToolInv, IndexingIsClean, ReadIsAsChecked, work
  <2>3. CASE q # p
    BY <1>0, <2>1, <2>3, KeptTool DEF work
  <2>4. QED
    BY <2>2, <2>3
<1>6. ASSUME NEW p \in Procs, NEW r \in Repos, BeginIndex(p, r) PROVE ToolInv(q)'
  <2>1. UNCHANGED <<served, work>> /\ (q # p => tool'[q] = tool[q])
    BY <1>6 DEF BeginIndex, ToolTypeOK, work, checkout, index
  <2>2. CASE q = p
    <3>1. /\ tool'[q].kind = "index" /\ tool'[q].repo = r /\ tool'[q].commit = head[r]
          /\ tree[r] = head[r]
      BY <1>6, <2>2 DEF BeginIndex, ToolTypeOK
    <3>2. QED
      BY <2>1, <3>1 DEF ToolInv, IndexingIsClean, ReadIsAsChecked, work
  <2>3. CASE q # p
    BY <1>0, <2>1, <2>3, KeptTool DEF work
  <2>4. QED
    BY <2>2, <2>3
<1>7. ASSUME NEW r \in Repos, LocalEdit(r) PROVE ToolInv(q)'
  <2>1. tool[q].kind # "index" /\ UNCHANGED <<tool, served, head, graph, stamp, docs>>
    BY <1>7 DEF LocalEdit, DbFree, index, tools
  <2>2. QED
    BY <1>0, <2>1, KeptTool
<1>8. QED
  BY <1>1, <1>2, <1>3, <1>4, <1>5, <1>6, <1>7
  DEF Next, vars, work, checkout, index, tools, Crash, Stop, Push

\* Where one process writes, every answer is what was checked.
LEMMA AnswersStep ==
  ASSUME OneServer, TypeOK, \A p \in Procs : ToolInv(p), AnswersMatchProvenance, [Next]_vars
  PROVE  AnswersMatchProvenance'
<1> ToolTypeOK
  BY DEF TypeOK
<1>1. CASE served' = served
  BY <1>1 DEF AnswersMatchProvenance, MatchesProvenance
<1>2. ASSUME NEW p \in Procs, EndRead(p) PROVE AnswersMatchProvenance'
  <2>1. tool[p].kind = "read" /\ tool[p].repo \in Repos
    BY <1>2, ToolKinds DEF EndRead
  <2>2. /\ docs[tool[p].repo] = tool[p].commit
        /\ tool[p].repo \in GraphRepos => graph[tool[p].repo] = tool[p].commit
    BY <2>1 DEF ToolInv, ReadIsAsChecked
  <2>3. served' = [served EXCEPT ![p][tool[p].repo] =
            [fresh |-> tool[p].fresh, commit |-> tool[p].commit,
             docs |-> docs[tool[p].repo], graph |-> graph[tool[p].repo]]]
    BY <1>2 DEF EndRead
  <2>4. QED
    BY <2>1, <2>2, <2>3 DEF AnswersMatchProvenance, MatchesProvenance, ToolTypeOK
<1>3. QED
  BY <1>1, <1>2, SyncKeepsTools
  DEF Next, vars, tools, Start, BeginSync, EndTool, EndIndex, Escapes, Crash, Stop, Exit, BeginRead,
      BeginIndex, Push, LocalEdit

-----------------------------------------------------------------------------
(***************************************************************************)
(* The inductive invariant, and what follows from it                       *)
(***************************************************************************)
\* The invariant in the parts that are proved one by one.
LEMMA IInvParts ==
  IInv <=> /\ TypeOK /\ Locked /\ IndexInv
           /\ \A p \in Procs : SyncInv(p) /\ ToolInv(p)
           /\ OneServer => AnswersMatchProvenance
  BY DEF IInv, Locked, IndexInv, SyncInv, ToolInv

\* The first state satisfies it.
LEMMA InitIInv == Init => IInv
<1> SUFFICES ASSUME Init PROVE IInv
  OBVIOUS
<1>1. TypeOK
  BY InitTypeOK
<1>2. ASSUME NEW p \in Procs PROVE ProjectLockHeld(p) /\ CaptureLockHeld(p) /\ SyncInv(p) /\ ToolInv(p)
  <2>1. ProjectLockHeld(p)
    BY DEF Init, ProjectLockHeld, NoTool, Failure
  <2>2. CaptureLockHeld(p)
    BY DEF Init, CaptureLockHeld, Inside, Refreshing, Undoing
  <2>3. SyncInv(p)
    BY DEF Init, SyncInv, NothingStoredYet, FetchedIsAhead, UndoneSoFar, Inside, Refreshing, Undoing
  <2>4. ToolInv(p)
    BY DEF Init, ToolInv, IndexingIsClean, ReadIsAsChecked, NoTool, NotServed, NoCommit
  <2>5. QED
    BY <2>1, <2>2, <2>3, <2>4
<1>3. IndexInv
  BY DEF Init, IndexInv, IndexIsBehind, NoCommit
<1>4. AnswersMatchProvenance
  BY DEF Init, AnswersMatchProvenance, MatchesProvenance, NotServed
<1>5. QED
  BY <1>1, <1>2, <1>3, <1>4, IInvParts DEF Locked

\* Every step of a sound set-up keeps it.
LEMMA IInvStep ==
  ASSUME Sound, IInv, [Next]_vars
  PROVE  IInv'
<1>0. /\ TypeOK /\ Locked /\ IndexInv
      /\ \A p \in Procs : SyncInv(p) /\ ToolInv(p)
      /\ \A p \in Procs : SyncInv(p) /\ IndexingIsClean(p)
      /\ OneServer => AnswersMatchProvenance
  BY IInvParts DEF ToolInv
<1>1. TypeOK'
  BY <1>0, TypeStep
<1>2. Locked'
  BY <1>0, ProjectLockStep, CaptureLockStep DEF Locked
<1>3. IndexInv'
  BY <1>0, IndexStep
<1>4. \A p \in Procs : SyncInv(p)'
  BY <1>0, SyncInvStep
<1>5. \A p \in Procs : ToolInv(p)'
  BY <1>0, ToolInvStep
<1>6. OneServer => AnswersMatchProvenance'
  BY <1>0, AnswersStep
<1>7. QED
  BY <1>1, <1>2, <1>3, <1>4, <1>5, <1>6
  DEF IInv, Locked, IndexInv, SyncInv, ToolInv

\* The invariant of synchronization and guarded reads in the two sound set-ups,
\* for any repositories, commits, failures and crashes (sync_project, _serialized).
THEOREM Invariance ==
  ASSUME Sound
  PROVE  Spec => []IInv
<1>1. QED
  BY InitIInv, IInvStep, PTL DEF Spec

\* Where one process writes the state directory, every answer is of the commit its
\* provenance names, although check, search and synchronization are separate steps.
THEOREM AnswersMatch ==
  ASSUME OneServer
  PROVE  Spec => []AnswersMatchProvenance
<1>1. Sound
  BY DEF Sound
<1>2. IInv => AnswersMatchProvenance
  BY IInvParts
<1>3. QED
  BY <1>1, <1>2, Invariance, PTL

\* Readers of a process never see a repository go back, through restarts,
\* interrupted synchronizations and restored copies of the index.
THEOREM NeverBack ==
  ASSUME Sound
  PROVE  Spec => ServedNeverRegresses
<1>1. ASSUME IInv, [Next]_vars, NEW p \in Procs, NEW r \in Repos
      PROVE  served'[p][r].commit >= served[p][r].commit
  <2>0. TypeOK /\ ToolTypeOK /\ ToolInv(p) /\ served[p][r].commit \in Int
    <3>1. TypeOK /\ ToolInv(p)
      BY <1>1, IInvParts
    <3>2. QED
      BY <3>1, ToolNumbers DEF TypeOK
  <2>1. CASE served'[p][r] = served[p][r]
    BY <2>0, <2>1
  <2>2. ASSUME NEW q \in Procs, EndRead(q), served'[p][r] # served[p][r]
        PROVE  served'[p][r].commit >= served[p][r].commit
    <3>1. /\ q = p /\ r = tool[p].repo /\ tool[p].kind = "read"
          /\ served'[p][r].commit = tool[p].commit
      BY <2>0, <2>2 DEF EndRead, ToolTypeOK
    <3>2. tool[p].commit \in Int /\ served[p][r].commit <= tool[p].commit
      BY <2>0, <3>1, ToolNumbers DEF ToolInv, ReadIsAsChecked
    <3>3. QED
      BY <2>0, <3>1, <3>2
  <2>3. QED
    BY <1>1, <2>1, <2>2, SyncKeepsTools
    DEF Next, vars, tools, Start, BeginSync, EndTool, EndIndex, Escapes, Crash, Stop, Exit, BeginRead,
        BeginIndex, Push, LocalEdit
<1>2. IInv /\ [Next]_vars =>
        [\A p \in Procs, r \in Repos : served'[p][r].commit >= served[p][r].commit]_served
  BY <1>1
<1>3. QED
  BY <1>2, Invariance, PTL DEF ServedNeverRegresses, Spec

\* Only a step of its own synchronization ends the turn of a process.
LEMMA WhoseFinish ==
  ASSUME SyncTypeOK, [Next]_vars, NEW p \in Procs, pc[p] # "release", pc'[p] = "release"
  PROVE  SyncStep(p) \/ SyncFails(p)
<1>1. ASSUME NEW q \in Procs, Exit(q) PROVE FALSE
  BY <1>1 DEF Exit, SyncTypeOK
<1>2. ASSUME NEW q \in Procs, Start(q) \/ BeginSync(q) \/ Escapes(q) PROVE FALSE
  BY <1>2 DEF Start, BeginSync, Escapes, SyncTypeOK
<1>3. PICK q \in Procs : SyncStep(q) \/ SyncFails(q)
  BY <1>1, <1>2, LockKept
<1>4. QED
  BY <1>3, SyncFrame

\* A failed refresh that leaves its repository readable has put back checkout,
\* CodeGraph and index, or failed before it touched them (sync_project's except
\* clause).
THEOREM RefreshRestores ==
  ASSUME Sound
  PROVE  Spec => FailedRefreshRestores
<1> DEFINE Restored(p) ==
      LET r == repo[p] IN
      pc[p] # "release" /\ pc'[p] = "release" /\ result'[p][r] = Failure(TRUE) =>
          /\ stamp'[r] = prior[p] /\ docs'[r] = prior[p]
          /\ pc[p] = "fetch" \/ head'[r] = prior[p]
          /\ pc[p] = "fetch" \/ tree'[r] \in {prior[p], Dirty}
          /\ pc[p] = "fetch" \/ tree'[r] = Dirty \/ GraphReady(r)'
<1>1. ASSUME IInv, [Next]_vars, NEW p \in Procs PROVE Restored(p)
  <2> SUFFICES ASSUME pc[p] # "release", pc'[p] = "release",
                      result'[p][repo[p]] = Failure(TRUE)
               PROVE  /\ stamp'[repo[p]] = prior[p] /\ docs'[repo[p]] = prior[p]
                      /\ pc[p] = "fetch" \/ /\ head'[repo[p]] = prior[p]
                                            /\ tree'[repo[p]] \in {prior[p], Dirty}
                                            /\ tree'[repo[p]] = Dirty \/ GraphReady(repo[p])'
    OBVIOUS
  <2>0. TypeOK /\ SyncTypeOK /\ Locked /\ SyncInv(p) /\ IndexInv /\ repo[p] \in Repos
    <3>1. TypeOK /\ Locked /\ SyncInv(p) /\ IndexInv
      BY <1>1, IInvParts
    <3>2. QED
      BY <3>1 DEF TypeOK, SyncTypeOK
  <2>1. SyncStep(p) \/ SyncFails(p)
    BY <1>1, <2>0, WhoseFinish
  <2>3. ASSUME NEW outcome, Finish(p, outcome) PROVE outcome = Failure(TRUE)
    <3>1. result'[p][repo[p]] = outcome
      BY <2>0, <2>3, FinishFrame
    <3>2. QED
      BY <3>1
  <2>4. /\ ~Finish(p, Failure(FALSE)) /\ ~GiveUp(p, FALSE)
        /\ ~Finish(p, [fetched |-> TRUE, safe |-> TRUE, commit |-> commit[p]])
    <3>1. Failure(FALSE) # Failure(TRUE) /\ Failure(FALSE /\ prior[p] # NoCommit) # Failure(TRUE)
      BY DEF Failure
    <3>2. [fetched |-> TRUE, safe |-> TRUE, commit |-> commit[p]] # Failure(TRUE)
      BY DEF Failure
    <3>3. QED
      BY <2>3, <3>1, <3>2 DEF GiveUp
  <2>5. \A l \in Locations \ {"release"} : ~Goto(p, l)
    BY <2>0, GotoFrame
  <2>6. ~RollBack(p)
    BY <2>4, <2>5 DEF RollBack, Locations
  <2>7. FetchFails(p) \/ UndoDb(p)
    <3>1. ~NextRepo(p) /\ ~Locking(p) /\ ~Release(p) /\ ~EndSync(p)
      BY <2>0 DEF NextRepo, Locking, Lock, Reclaim, LockTimesOut, LockFails, NotAcquired, Release,
                  EndSync, SyncTypeOK
    <3>2. ~WritePid(p) /\ ~Fetch(p) /\ ~Assess(p)
      <4>1. WritePid(p) \/ Fetch(p) \/ Assess(p) => pc'[p] \in {"open", "reset", "graph", "index", "done"}
        BY <2>0 DEF WritePid, Fetch, Assess, SyncTypeOK
      <4>2. QED
        BY <4>1
    <3>3. ~Open(p) /\ ~RefreshGraph(p) /\ ~UndoGraph(p)
      BY <2>5 DEF Open, RefreshGraph, UndoGraph, Locations
    <3>4. ~Reset(p) /\ ~Index(p) /\ ~UndoReset(p)
      BY <2>4, <2>5, <2>6 DEF Reset, Index, UndoReset, CheckOut, Locations
    <3>5. ~OpenFails(p) /\ ~ResetFails(p) /\ ~GraphFails(p) /\ ~IndexFails(p)
      BY <2>4, <2>6 DEF OpenFails, ResetFails, GraphFails, IndexFails
    <3>6. ~Done(p) /\ ~UndoResetFails(p) /\ ~UndoGraphFails(p) /\ ~UndoDbFails(p)
      BY <2>4 DEF Done, UndoResetFails, UndoGraphFails, UndoDbFails
    <3>7. QED
      BY <2>1, <3>1, <3>2, <3>3, <3>4, <3>5, <3>6 DEF SyncStep, SyncFails, Locking
  <2>8. stamp[repo[p]] = prior[p] /\ docs[repo[p]] = stamp[repo[p]]
    BY <2>0, <2>7 DEF FetchFails, UndoDb, SyncInv, NothingStoredYet, IndexInv, IndexIsBehind,
                     Refreshing, Undoing
  <2>9. CASE FetchFails(p)
    BY <2>8, <2>9 DEF FetchFails, index
  <2>10. CASE UndoDb(p)
    <3>1. backup[p] = [stamp |-> stamp, docs |-> docs]
      BY <2>0, <2>10 DEF UndoDb, SyncInv, NothingStoredYet, Refreshing, Undoing
    <3>2. UNCHANGED <<stamp, docs, head, tree, graph, repo>> /\ pc[p] = "undo_db"
      BY <2>10, <3>1 DEF UndoDb, checkout, Finish
    <3>3. /\ head[repo[p]] = prior[p] /\ tree[repo[p]] \in {prior[p], Dirty}
          /\ tree[repo[p]] = Dirty \/ GraphReady(repo[p])
      BY <2>0, <3>2 DEF SyncInv, UndoneSoFar
    <3>4. QED
      BY <2>8, <3>2, <3>3 DEF GraphReady
  <2>11. QED
    BY <2>7, <2>9, <2>10
<1>2. IInv /\ [Next]_vars => [\A p \in Procs : Restored(p)]_vars
  BY <1>1
<1>3. QED
  BY <1>2, Invariance, PTL DEF FailedRefreshRestores, Spec

-----------------------------------------------------------------------------
(***************************************************************************)
(* One server implements CanonicalSource                                   *)
(***************************************************************************)
Reading(r) == \E p \in Procs : tool[p].kind = "read" /\ tool[p].repo = r

\* The moves of the abstract specification, said of this one's state.
LEMMA SourceMoves ==
  ASSUME NEW r \in Repos, TypeOK, docs[r] \in Nat, docs'[r] \in Nat, origin[r] \in Nat,
         \/ /\ origin[r] < MaxCommit /\ origin'[r] = origin[r] + 1
            /\ docs'[r] = docs[r] /\ (Reading(r)' <=> Reading(r))
         \/ /\ ~Reading(r) /\ ~Reading(r)' /\ docs[r] < docs'[r] /\ docs'[r] <= origin[r]
            /\ origin'[r] = origin[r]
         \/ /\ docs[r] # NoCommit /\ ~Reading(r) /\ Reading(r)'
            /\ docs'[r] = docs[r] /\ origin'[r] = origin[r]
         \/ /\ Reading(r) /\ ~Reading(r)'
            /\ docs'[r] = docs[r] /\ origin'[r] = origin[r]
         \/ /\ docs'[r] = docs[r] /\ origin'[r] = origin[r] /\ (Reading(r)' <=> Reading(r))
  PROVE  [Source(r)!SourceNext]_(Source(r)!sourceVars)
  BY DEF Reading, NoCommit, Source!SourceNext, Source!sourceVars, Source!PushCommit, Source!Publish,
         Source!AdmitRead, Source!FinishRead

\* The index a reader sees only moves forward along the canonical branch.
LEMMA DocsForward ==
  ASSUME TypeOK, IndexInv, \A p \in Procs : SyncInv(p) /\ IndexingIsClean(p), [Next]_vars,
         NEW r \in Repos
  PROVE  /\ docs[r] \in Nat /\ docs'[r] \in Nat /\ origin[r] \in Nat
         /\ docs[r] <= docs'[r] /\ docs'[r] <= origin'[r]
<1>1. IndexInv' /\ stamp[r] <= stamp'[r] /\ TypeOK'
  BY IndexStep, TypeStep
<1>2. /\ docs[r] = stamp[r] /\ docs'[r] = stamp'[r] /\ stamp'[r] <= head'[r] /\ head'[r] <= origin'[r]
  BY <1>1 DEF IndexInv, IndexIsBehind
<1>3. /\ stamp[r] \in Nat /\ stamp'[r] \in Nat /\ origin[r] \in Nat
      /\ head'[r] \in Nat /\ origin'[r] \in Nat
  BY <1>1 DEF TypeOK, DiskTypeOK, MaybeCommit, Commits, NoCommit
<1>4. QED
  BY <1>1, <1>2, <1>3

\* Documents do not change under a reader of the only writing process.
LEMMA ReadersRest ==
  ASSUME OneServer, TypeOK, Locked, NEW p \in Procs, SyncStep(p) \/ SyncFails(p) \/ EndIndex(p),
         NEW r \in Repos, Reading(r)
  PROVE  docs' = docs
<1>1. PICK q \in Procs : tool[q].kind = "read" /\ tool[q].repo = r
  BY DEF Reading
<1>2. ProjectLockHeld(q) /\ tool[q] # NoTool
  BY <1>1 DEF Locked, NoTool
<1>3. q # p
  <2>1. CASE SyncStep(p) \/ SyncFails(p)
    BY <1>2, <2>1, SyncPlaces DEF ProjectLockHeld, TypeOK
  <2>2. CASE EndIndex(p)
    BY <1>1, <2>2 DEF EndIndex
  <2>3. QED
    BY <2>1, <2>2
<1>4. UNCHANGED work
  BY <1>1, <1>3, OthersRest DEF Sound, AtWork, EndTool
<1>5. QED
  BY <1>4 DEF work

\* Each step of the only writing process, and of what is around it, is a move of
\* the abstract specification or none.
LEMMA SourceStep ==
  ASSUME OneServer, IInv, [Next]_vars, NEW r \in Repos
  PROVE  [Source(r)!SourceNext]_(Source(r)!sourceVars)
<1>0. /\ TypeOK /\ ToolTypeOK /\ DiskTypeOK /\ Locked /\ IndexInv
      /\ \A p \in Procs : SyncInv(p) /\ IndexingIsClean(p)
  BY IInvParts DEF ToolInv, TypeOK
<1>1. /\ docs[r] \in Nat /\ docs'[r] \in Nat /\ origin[r] \in Nat
      /\ docs[r] <= docs'[r] /\ docs'[r] <= origin'[r]
  BY <1>0, DocsForward
<1>2. \A p, q \in Procs : tool[p].kind = "read" /\ q \in Servers => p = q
  BY <1>0 DEF OneServer, Locked, ProjectLockHeld
<1>3. CASE UNCHANGED <<origin, docs, tool>>
  BY <1>0, <1>1, <1>3, SourceMoves DEF Reading
<1>4. ASSUME NEW p \in Procs, SyncStep(p) \/ SyncFails(p) \/ EndIndex(p)
      PROVE  [Source(r)!SourceNext]_(Source(r)!sourceVars)
  <2>1. origin' = origin /\ (Reading(r)' <=> Reading(r))
    <3>1. CASE SyncStep(p) \/ SyncFails(p)
      BY <3>1, SyncKeepsTools DEF Reading
    <3>2. CASE EndIndex(p)
      <4>1. /\ tool[p].kind = "index" /\ tool' = [tool EXCEPT ![p] = NoTool] /\ origin' = origin
        BY <3>2 DEF EndIndex
      <4>2. \A q \in Procs : tool'[q] = tool[q] \/ (q = p /\ tool'[q].kind = "none")
        BY <1>0, <4>1 DEF ToolTypeOK, NoTool
      <4>3. QED
        BY <4>1, <4>2 DEF Reading
    <3>3. QED
      BY <1>4, <3>1, <3>2
  <2>2. CASE Reading(r)
    BY <1>0, <1>1, <1>4, <2>1, <2>2, ReadersRest, SourceMoves
  <2>3. CASE ~Reading(r)
    <3>1. docs'[r] = docs[r] \/ docs[r] < docs'[r]
      BY <1>1
    <3>2. QED
      BY <1>0, <1>1, <2>1, <2>3, <3>1, SourceMoves
  <2>4. QED
    BY <2>2, <2>3
<1>5. ASSUME NEW p \in Procs, EndRead(p) \/ Exit(p)
      PROVE  [Source(r)!SourceNext]_(Source(r)!sourceVars)
  <2>1. tool' = [tool EXCEPT ![p] = NoTool] /\ UNCHANGED <<origin, docs>>
    BY <1>5 DEF EndRead, Exit, index
  <2>2. \A q \in Procs : IF q = p THEN tool'[q].kind = "none" ELSE tool'[q] = tool[q]
    BY <1>0, <2>1 DEF ToolTypeOK, NoTool
  <2>3. Reading(r)' => Reading(r)
    BY <2>2 DEF Reading
  <2>4. QED
    BY <1>0, <1>1, <2>1, <2>3, SourceMoves
<1>6. ASSUME NEW p \in Procs, NEW x \in Repos, BeginRead(p, x)
      PROVE  [Source(r)!SourceNext]_(Source(r)!sourceVars)
  <2>1. /\ tool' = [tool EXCEPT ![p] =
              [kind |-> "read", repo |-> x, commit |-> stamp[x], fresh |-> Fresh(p, x)]]
        /\ UNCHANGED <<origin, docs>> /\ tool[p] = NoTool /\ result[p][x].safe /\ stamp[x] # NoCommit
    BY <1>6 DEF BeginRead, Readable, IndexAligned, index
  <2>2. tool'[p].kind = "read" /\ tool'[p].repo = x
    BY <1>0, <2>1 DEF ToolTypeOK
  <2>3. \A q \in Procs \ {p} : tool'[q] = tool[q]
    BY <1>0, <2>1 DEF ToolTypeOK
  <2>4. p \in Servers /\ tool[p].kind = "none"
    BY <1>0, <2>1 DEF Locked, ProjectLockHeld, NoTool
  <2>5. ~Reading(r)
    BY <1>2, <2>4 DEF Reading
  <2>6. CASE r = x
    <3>1. Reading(r)' /\ docs[r] # NoCommit
      BY <1>0, <2>1, <2>2, <2>6 DEF Reading, IndexInv, IndexIsBehind
    <3>2. QED
      BY <1>0, <1>1, <2>1, <2>5, <3>1, SourceMoves
  <2>7. CASE r # x
    <3>1. ~Reading(r)'
      BY <2>2, <2>3, <2>5, <2>7 DEF Reading
    <3>2. QED
      BY <1>0, <1>1, <2>1, <2>5, <3>1, SourceMoves
  <2>8. QED
    BY <2>6, <2>7
<1>7. ASSUME NEW p \in Procs, NEW x \in Repos, BeginIndex(p, x)
      PROVE  [Source(r)!SourceNext]_(Source(r)!sourceVars)
  <2>1. /\ tool' = [tool EXCEPT ![p] = [kind |-> "index", repo |-> x, commit |-> head[x]]]
        /\ UNCHANGED <<origin, docs>> /\ tool[p] = NoTool
    BY <1>7 DEF BeginIndex, index
  <2>2. \A q \in Procs : tool'[q] = tool[q]
                           \/ (tool[q].kind # "read" /\ tool'[q].kind # "read")
    BY <1>0, <2>1 DEF ToolTypeOK, NoTool
  <2>3. Reading(r)' <=> Reading(r)
    BY <2>2 DEF Reading
  <2>4. QED
    BY <1>0, <1>1, <2>1, <2>3, SourceMoves
<1>8. ASSUME NEW x \in Repos, Push(x)
      PROVE  [Source(r)!SourceNext]_(Source(r)!sourceVars)
  <2>1. origin[x] < MaxCommit /\ origin' = [origin EXCEPT ![x] = origin[x] + 1] /\ UNCHANGED <<docs, tool>>
    BY <1>8 DEF Push, index, tools
  <2>2. Reading(r)' <=> Reading(r)
    BY <2>1 DEF Reading
  <2>3. QED
    BY <1>0, <1>1, <2>1, <2>2, SourceMoves DEF DiskTypeOK
<1>9. QED
  BY <1>3, <1>4, <1>5, <1>6, <1>7, <1>8
  DEF Next, vars, index, tools, Start, BeginSync, Escapes, Crash, Stop, EndTool, LocalEdit

\* For each repository, synchronization, reads, index_project and crashes of the
\* only writing process implement CanonicalSource: what readers get moves forward
\* along the branch, and never under a read that was admitted.
THEOREM ImplementsSource ==
  ASSUME OneServer
  PROVE  Spec => ImplementsCanonicalSource
<1>1. Sound
  BY DEF Sound
<1>2. Init => \A r \in Repos : Source(r)!SourceInit
  BY DEF Init, Source!SourceInit, NoTool, NoCommit
<1>3. IInv /\ [Next]_vars
        => [\A r \in Repos : [Source(r)!SourceNext]_(Source(r)!sourceVars)]_vars
  BY SourceStep
<1>4. QED
  BY <1>1, <1>2, <1>3, Invariance, PTL DEF Spec, ImplementsCanonicalSource
=============================================================================
