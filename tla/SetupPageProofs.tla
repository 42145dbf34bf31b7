---------------------------- MODULE SetupPageProofs ----------------------------
(***************************************************************************)
(* The setup page for any number of requests, code repositories and         *)
(* failures: its types, and the promises that SetupPage.cfg checks on a     *)
(* small instance.                                                         *)
(***************************************************************************)
EXTENDS SetupPage, TLAPS

USE SetupAssumption

\* The part of the types that the threads' bookkeeping has.
ThreadOK ==
    /\ pc \in [Requests -> Labels]
    /\ asked \in [Requests -> Asked \cup {Nothing}]
    /\ answer \in [Requests -> Codes \cup {Nothing}]
    /\ found \in [Requests -> BOOLEAN]
    /\ overlapped \subseteq {"write", "service"}
    /\ restarted \in BOOLEAN /\ faults \in 0..MaxFaults

\* Going on to the next step, answering and failing keep it.
LEMMA ThreadStep ==
    ASSUME TypeOK, NEW r \in Requests,
           \/ \E label \in Labels : Goto(r, label)
           \/ \E code \in Codes : Says(r, code) \/ Fails(r, code)
    PROVE  ThreadOK'
<1>1. ASSUME NEW label \in Labels, Goto(r, label) PROVE ThreadOK'
    BY <1>1 DEF TypeOK, ThreadOK, Goto, history
<1>2. ASSUME NEW code \in Codes, Answer(r, code), faults' \in 0..MaxFaults PROVE ThreadOK'
    BY <1>2 DEF TypeOK, ThreadOK, Answer, history, Labels
<1>3. ASSUME NEW code \in Codes, Says(r, code) PROVE ThreadOK'
    BY <1>2, <1>3 DEF TypeOK, Says
<1>4. ASSUME NEW code \in Codes, Fails(r, code) PROVE ThreadOK'
    BY <1>2, <1>4 DEF TypeOK, Fails
<1> QED
    BY <1>1, <1>3, <1>4

\* Every step keeps the types.
LEMMA TypeStep ==
    ASSUME TypeOK, [Next]_vars
    PROVE  TypeOK'
<1>1. ASSUME NEW r \in Requests, Arrive(r) PROVE TypeOK'
    <2>1. PICK a \in Asked :
            /\ asked' = [asked EXCEPT ![r] = a]
            /\ pc' = [pc EXCEPT ![r] = First(a.op)]
            /\ overlapped' = overlapped \cup
                   {k \in {"write", "service"} \cap {Kind(a.op)} : Active(k) # {}}
        BY <1>1 DEF Arrive
    <2>2. First(a.op) \in Labels
        BY DEF First, Labels, Services
    <2> QED
        BY <1>1, <2>1, <2>2 DEF Arrive, TypeOK, written, running
<1>2. ASSUME NEW r \in Requests, Plan(r) PROVE TypeOK'
    BY <1>2, ThreadStep DEF Plan, TypeOK, ThreadOK, Labels, Codes, Artifacts, Live, written, running
<1>3. ASSUME NEW r \in Requests, PlanFails(r) PROVE TypeOK'
    BY <1>3, ThreadStep DEF PlanFails, TypeOK, ThreadOK, Labels, Codes, Artifacts, Live, written, running
<1>4. ASSUME NEW r \in Requests, Check(r) PROVE TypeOK'
    BY <1>4, ThreadStep DEF Check, TypeOK, ThreadOK, Labels, Codes, Artifacts, Live, written, running
<1>5. ASSUME NEW r \in Requests, FindCli(r) PROVE TypeOK'
    BY <1>5, ThreadStep DEF FindCli, TypeOK, ThreadOK, Labels, Codes, Artifacts, Live, written, running
<1>6. ASSUME NEW r \in Requests, NoCli(r) PROVE TypeOK'
    <2>1. faults' \in 0..MaxFaults
        BY <1>6 DEF NoCli, TypeOK
    <2> QED
        BY <1>6, <2>1 DEF NoCli, Answer, TypeOK, Labels, Codes, written, running, history
<1>7. ASSUME NEW r \in Requests, Install(r) PROVE TypeOK'
    BY <1>7, ThreadStep DEF Install, TypeOK, ThreadOK, Labels, Codes, Artifacts, Live, written, running
<1>8. ASSUME NEW r \in Requests, InstallFails(r) PROVE TypeOK'
    BY <1>8, ThreadStep DEF InstallFails, TypeOK, ThreadOK, Labels, Codes, Artifacts, Live, written, running
<1>9. ASSUME NEW r \in Requests, InitRepo(r) PROVE TypeOK'
    BY <1>9, ThreadStep DEF InitRepo, TypeOK, ThreadOK, Labels, Codes, Artifacts, Live, written, running
<1>10. ASSUME NEW r \in Requests, InitRepoFails(r) PROVE TypeOK'
    BY <1>10, ThreadStep DEF InitRepoFails, TypeOK, ThreadOK, Labels, Codes, Artifacts, Live, written, running
<1>11. ASSUME NEW r \in Requests, InitDone(r) PROVE TypeOK'
    BY <1>11, ThreadStep DEF InitDone, TypeOK, ThreadOK, Labels, Codes, Artifacts, Live, written, running
<1>12. ASSUME NEW r \in Requests, Truncate(r) PROVE TypeOK'
    BY <1>12, ThreadStep DEF Truncate, TypeOK, ThreadOK, Labels, Codes, Artifacts, Live, written, running
<1>13. ASSUME NEW r \in Requests, Fill(r) PROVE TypeOK'
    BY <1>13, ThreadStep DEF Fill, TypeOK, ThreadOK, Labels, Codes, Artifacts, Live, written, running
<1>14. ASSUME NEW r \in Requests, WriteArtifact(r) PROVE TypeOK'
    BY <1>14, ThreadStep DEF WriteArtifact, After, TypeOK, ThreadOK, Labels, Codes, Artifacts, Live, written, running
<1>15. ASSUME NEW r \in Requests, WriteFails(r) PROVE TypeOK'
    BY <1>15, ThreadStep DEF WriteFails, TypeOK, ThreadOK, Labels, Codes, Artifacts, Live, written, running
<1>16. ASSUME NEW r \in Requests, Report(r) PROVE TypeOK'
    BY <1>16, ThreadStep DEF Report, TypeOK, ThreadOK, Labels, Codes, Artifacts, Live, written, running
<1>17. ASSUME NEW r \in Requests, ReportFails(r) PROVE TypeOK'
    BY <1>17, ThreadStep DEF ReportFails, TypeOK, ThreadOK, Labels, Codes, Artifacts, Live, written, running
<1>18. ASSUME NEW r \in Requests, Validate(r) PROVE TypeOK'
    BY <1>18, ThreadStep DEF Validate, TypeOK, ThreadOK, Labels, Codes, Artifacts, Live, written, running
<1>19. ASSUME NEW r \in Requests, ValidateFails(r) PROVE TypeOK'
    BY <1>19, ThreadStep DEF ValidateFails, TypeOK, ThreadOK, Labels, Codes, Artifacts, Live, written, running
<1>20. ASSUME NEW r \in Requests, Look(r) PROVE TypeOK'
    BY <1>20, ThreadStep DEF Look, TypeOK, ThreadOK, Labels, Codes, Artifacts, Live, written, running
<1>21. ASSUME NEW r \in Requests, Spawn(r) PROVE TypeOK'
    BY <1>21, ThreadStep DEF Spawn, TypeOK, ThreadOK, Labels, Codes, Artifacts, Live, written, running
<1>22. ASSUME NEW r \in Requests, Slept(r) PROVE TypeOK'
    BY <1>22, ThreadStep DEF Slept, TypeOK, ThreadOK, Labels, Codes, Artifacts, Live, written, running
<1>23. ASSUME NEW r \in Requests, Terminate(r) PROVE TypeOK'
    BY <1>23, ThreadStep DEF Terminate, TypeOK, ThreadOK, Labels, Codes, Artifacts, Live, written, running
<1>24. ASSUME NEW r \in Requests, Stopped(r) PROVE TypeOK'
    BY <1>24, ThreadStep DEF Stopped, TypeOK, ThreadOK, Labels, Codes, Artifacts, Live, written, running
<1>25. ASSUME NEW r \in Requests, Kill(r) PROVE TypeOK'
    BY <1>25, ThreadStep DEF Kill, TypeOK, ThreadOK, Labels, Codes, Artifacts, Live, written, running
<1>26. ASSUME NEW r \in Requests, Compose(r) PROVE TypeOK'
    BY <1>26, ThreadStep DEF Compose, TypeOK, ThreadOK, Labels, Codes, Artifacts, Live, written, running
<1>27. ASSUME NEW r \in Requests, ComposeFails(r) PROVE TypeOK'
    BY <1>27, ThreadStep DEF ComposeFails, TypeOK, ThreadOK, Labels, Codes, Artifacts, Live, written, running
<1>28. ASSUME NEW r \in Requests, Bind(r) PROVE TypeOK'
    BY <1>28 DEF Bind, TypeOK, written, running, history
<1>29. ASSUME NEW r \in Requests, Exit(r) PROVE TypeOK'
    BY <1>29 DEF Exit, TypeOK, written, running, history
<1>30. ASSUME NEW r \in Requests, Die(r) PROVE TypeOK'
    BY <1>30 DEF Die, TypeOK, written, running, history
<1>31. CASE UserWrites
    BY <1>31 DEF UserWrites, TypeOK, running, history
<1>32. CASE Restart
    BY <1>32 DEF Restart, TypeOK, Labels, Codes, written
<1>33. CASE Wait
    BY <1>33 DEF Wait, TypeOK, vars, written, running, history
<1>34. CASE UNCHANGED vars
    BY <1>34 DEF TypeOK, vars, written, running, history
<1> QED
    BY <1>1, <1>2, <1>3, <1>4, <1>5, <1>6, <1>7, <1>8, <1>9, <1>10, <1>11, <1>12, <1>13,
       <1>14, <1>15, <1>16, <1>17, <1>18, <1>19, <1>20, <1>21, <1>22, <1>23, <1>24, <1>25,
       <1>26, <1>27, <1>28, <1>29, <1>30, <1>31, <1>32, <1>33, <1>34 DEF Next, Write, Service

\* Every variable keeps its type, for any number of requests (TypeOK of SetupPage.cfg).
THEOREM TypeCorrect == Spec => []TypeOK
<1>1. Init => TypeOK
    <2> SUFFICES ASSUME Init PROVE TypeOK
        OBVIOUS
    <2>1. todo \in [Requests -> 1..(Len(Work) + 1)] /\ faults \in 0..MaxFaults
        BY DEF Init
    <2>2. pc \in [Requests -> Labels] /\ asked \in [Requests -> Asked \cup {Nothing}]
        BY DEF Init, Labels
    <2>3. bridge \in [Artifacts -> Requests \cup {Nothing, Partial}]
        BY DEF Init
    <2> QED
        BY <2>1, <2>2, <2>3 DEF Init, TypeOK
<1>2. TypeOK /\ [Next]_vars => TypeOK'
    BY TypeStep
<1> QED
    BY <1>1, <1>2, PTL DEF Spec

\* The labels at which a request is about the service process.
ServiceLabels == {"validate", "look", "spawn", "sleep", "stop", "wait"}

\* Where a new request's thread begins.
LEMMA FirstLabel ==
    ASSUME NEW a \in Asked
    PROVE  /\ First(a.op) \in {"plan", "validate", "stop", "up", "down"}
           /\ First(a.op) \in ServiceLabels => Kind(a.op) = "service"
BY DEF First, Kind, Services, ServiceLabels

\* A thread that has written one of the bridge's files goes on to the next.
LEMMA AfterLabel ==
    ASSUME NEW a \in Artifacts
    PROVE  After[a] \in {"token_file", "caddyfile", "compose", "report"}
BY DEF After, Artifacts

----------------------------------------------------------------------------
(* The configuration and CodeGraph.                                        *)

Backed ==
    /\ initialized = DOMAIN Work
    /\ Work # <<>> => cli # "absent"

\* ConfigIsBacked, and how far a write's thread has come towards it.
BackedInv ==
    /\ config \in Requests => Backed
    /\ \A r \in Requests :
          /\ pc[r] \in {"idle", "plan", "check", "codegraph", "npm"} => todo[r] = 1
          /\ pc[r] = "init" => cli # "absent" /\ 1..(todo[r] - 1) \subseteq initialized
          /\ pc[r] \in {"truncate", "fill"} => Backed

\* Every step keeps it.
LEMMA BackedStep ==
    ASSUME TypeOK, BackedInv, [Next]_vars
    PROVE  BackedInv'
<1>1. ASSUME NEW r \in Requests, Arrive(r) PROVE BackedInv'
    <2>1. PICK a \in Asked : pc' = [pc EXCEPT ![r] = First(a.op)]
        BY <1>1 DEF Arrive
    <2>2. First(a.op) \in {"plan", "validate", "stop", "up", "down"}
        BY FirstLabel
    <2> QED
        BY <1>1, <2>1, <2>2 DEF Arrive, TypeOK, BackedInv, Backed, written
<1>2. ASSUME NEW r \in Requests, Plan(r) PROVE BackedInv'
    BY <1>2 DEF Plan, TypeOK, BackedInv, Backed, Goto, Says, Answer, Fails, written, running, Artifacts, Labels
<1>3. ASSUME NEW r \in Requests, PlanFails(r) PROVE BackedInv'
    BY <1>3 DEF PlanFails, TypeOK, BackedInv, Backed, Goto, Says, Answer, Fails, written, running, Artifacts, Labels
<1>4. ASSUME NEW r \in Requests, Check(r) PROVE BackedInv'
    <2>1. CASE Work = <<>>
        <3>1. Backed
            BY <2>1 DEF Backed, TypeOK
        <3> QED
            BY <1>4, <2>1, <3>1 DEF Check, TypeOK, BackedInv, Backed, Goto, Says, Answer, Fails, written, running, Artifacts, Labels
    <2>2. CASE Work # <<>>
        BY <1>4, <2>2 DEF Check, TypeOK, BackedInv, Backed, Goto, Says, Answer, Fails, written, running, Artifacts, Labels
    <2> QED
        BY <2>1, <2>2
<1>5. ASSUME NEW r \in Requests, FindCli(r) PROVE BackedInv'
    BY <1>5 DEF FindCli, TypeOK, BackedInv, Backed, Goto, Says, Answer, Fails, written, running, Artifacts, Labels
<1>6. ASSUME NEW r \in Requests, NoCli(r) PROVE BackedInv'
    BY <1>6 DEF NoCli, TypeOK, BackedInv, Backed, Goto, Says, Answer, Fails, written, running, Artifacts, Labels
<1>7. ASSUME NEW r \in Requests, Install(r) PROVE BackedInv'
    BY <1>7 DEF Install, TypeOK, BackedInv, Backed, Goto, Says, Answer, Fails, written, running, Artifacts, Labels
<1>8. ASSUME NEW r \in Requests, InstallFails(r) PROVE BackedInv'
    BY <1>8 DEF InstallFails, TypeOK, BackedInv, Backed, Goto, Says, Answer, Fails, written, running, Artifacts, Labels
<1>9. ASSUME NEW r \in Requests, InitRepo(r) PROVE BackedInv'
    BY <1>9 DEF InitRepo, TypeOK, BackedInv, Backed, Goto, Says, Answer, Fails, written, running, Artifacts, Labels
<1>10. ASSUME NEW r \in Requests, InitRepoFails(r) PROVE BackedInv'
    <2>1. todo[r] \in DOMAIN Work
        BY <1>10 DEF InitRepoFails, TypeOK
    <2>2. pc' = [pc EXCEPT ![r] = "done"] /\ UNCHANGED <<config, cli, todo>>
        BY <1>10 DEF InitRepoFails, Fails, Answer
    <2>3. initialized \subseteq initialized' /\ initialized' \subseteq initialized \cup {todo[r]}
        BY <1>10 DEF InitRepoFails
    <2>4. Backed => Backed'
        BY <2>1, <2>2, <2>3 DEF Backed
    <2> QED
        BY <2>2, <2>3, <2>4 DEF TypeOK, BackedInv
<1>11. ASSUME NEW r \in Requests, InitDone(r) PROVE BackedInv'
    <2>1. Backed
        <3>1. cli # "absent" /\ 1..(todo[r] - 1) \subseteq initialized
            BY <1>11 DEF InitDone, BackedInv
        <3>2. DOMAIN Work \subseteq 1..(todo[r] - 1)
            BY <1>11 DEF InitDone, TypeOK
        <3> QED
            BY <3>1, <3>2 DEF Backed, TypeOK
    <2> QED
        BY <1>11, <2>1 DEF InitDone, TypeOK, BackedInv, Backed, Goto, Says, Answer, Fails, written, running, Artifacts, Labels
<1>12. ASSUME NEW r \in Requests, Truncate(r) PROVE BackedInv'
    BY <1>12 DEF Truncate, TypeOK, BackedInv, Backed, Goto, Says, Answer, Fails, written, running, Artifacts, Labels
<1>13. ASSUME NEW r \in Requests, Fill(r) PROVE BackedInv'
    BY <1>13 DEF Fill, TypeOK, BackedInv, Backed, Goto, Says, Answer, Fails, written, running, Artifacts, Labels
<1>14. ASSUME NEW r \in Requests, WriteArtifact(r) PROVE BackedInv'
    <2>1. pc' = [pc EXCEPT ![r] = After[pc[r]]] /\ UNCHANGED <<config, cli, initialized, todo>>
        BY <1>14 DEF WriteArtifact, Goto
    <2>2. After[pc[r]] \in {"token_file", "caddyfile", "compose", "report"}
        BY <1>14, AfterLabel DEF WriteArtifact
    <2> QED
        BY <2>1, <2>2 DEF TypeOK, BackedInv, Backed
<1>15. ASSUME NEW r \in Requests, WriteFails(r) PROVE BackedInv'
    BY <1>15 DEF WriteFails, TypeOK, BackedInv, Backed, Goto, Says, Answer, Fails, written, running, Artifacts, Labels
<1>16. ASSUME NEW r \in Requests, Report(r) PROVE BackedInv'
    BY <1>16 DEF Report, TypeOK, BackedInv, Backed, Goto, Says, Answer, Fails, written, running, Artifacts, Labels
<1>17. ASSUME NEW r \in Requests, ReportFails(r) PROVE BackedInv'
    BY <1>17 DEF ReportFails, TypeOK, BackedInv, Backed, Goto, Says, Answer, Fails, written, running, Artifacts, Labels
<1>18. ASSUME NEW r \in Requests, Validate(r) PROVE BackedInv'
    BY <1>18 DEF Validate, TypeOK, BackedInv, Backed, Goto, Says, Answer, Fails, written, running, Artifacts, Labels
<1>19. ASSUME NEW r \in Requests, ValidateFails(r) PROVE BackedInv'
    BY <1>19 DEF ValidateFails, TypeOK, BackedInv, Backed, Goto, Says, Answer, Fails, written, running, Artifacts, Labels
<1>20. ASSUME NEW r \in Requests, Look(r) PROVE BackedInv'
    BY <1>20 DEF Look, TypeOK, BackedInv, Backed, Goto, Says, Answer, Fails, written, running, Artifacts, Labels
<1>21. ASSUME NEW r \in Requests, Spawn(r) PROVE BackedInv'
    BY <1>21 DEF Spawn, TypeOK, BackedInv, Backed, Goto, Says, Answer, Fails, written, running, Artifacts, Labels
<1>22. ASSUME NEW r \in Requests, Slept(r) PROVE BackedInv'
    BY <1>22 DEF Slept, TypeOK, BackedInv, Backed, Goto, Says, Answer, Fails, written, running, Artifacts, Labels
<1>23. ASSUME NEW r \in Requests, Terminate(r) PROVE BackedInv'
    BY <1>23 DEF Terminate, TypeOK, BackedInv, Backed, Goto, Says, Answer, Fails, written, running, Artifacts, Labels
<1>24. ASSUME NEW r \in Requests, Stopped(r) PROVE BackedInv'
    BY <1>24 DEF Stopped, TypeOK, BackedInv, Backed, Goto, Says, Answer, Fails, written, running, Artifacts, Labels
<1>25. ASSUME NEW r \in Requests, Kill(r) PROVE BackedInv'
    BY <1>25 DEF Kill, TypeOK, BackedInv, Backed, Goto, Says, Answer, Fails, written, running, Artifacts, Labels
<1>26. ASSUME NEW r \in Requests, Compose(r) PROVE BackedInv'
    BY <1>26 DEF Compose, TypeOK, BackedInv, Backed, Goto, Says, Answer, Fails, written, running, Artifacts, Labels
<1>27. ASSUME NEW r \in Requests, ComposeFails(r) PROVE BackedInv'
    BY <1>27 DEF ComposeFails, TypeOK, BackedInv, Backed, Goto, Says, Answer, Fails, written, running, Artifacts, Labels
<1>28. ASSUME NEW r \in Requests, Bind(r) PROVE BackedInv'
    BY <1>28 DEF Bind, TypeOK, BackedInv, Backed, Goto, Says, Answer, Fails, written, running, Artifacts, Labels
<1>29. ASSUME NEW r \in Requests, Exit(r) PROVE BackedInv'
    BY <1>29 DEF Exit, TypeOK, BackedInv, Backed, Goto, Says, Answer, Fails, written, running, Artifacts, Labels
<1>30. ASSUME NEW r \in Requests, Die(r) PROVE BackedInv'
    BY <1>30 DEF Die, TypeOK, BackedInv, Backed, Goto, Says, Answer, Fails, written, running, Artifacts, Labels
<1>31. CASE UserWrites
    BY <1>31 DEF UserWrites, TypeOK, BackedInv, Backed, Goto, Says, Answer, Fails, written, running, Artifacts, Labels
<1>32. CASE Restart
    BY <1>32 DEF Restart, TypeOK, BackedInv, Backed, Goto, Says, Answer, Fails, written, running, Artifacts, Labels
<1>33. CASE Wait
    BY <1>33 DEF Wait, BackedInv, Backed, vars, written
<1>34. CASE UNCHANGED vars
    BY <1>34 DEF BackedInv, Backed, vars, written
<1> QED
    BY <1>1, <1>2, <1>3, <1>4, <1>5, <1>6, <1>7, <1>8, <1>9, <1>10, <1>11, <1>12, <1>13,
       <1>14, <1>15, <1>16, <1>17, <1>18, <1>19, <1>20, <1>21, <1>22, <1>23, <1>24, <1>25,
       <1>26, <1>27, <1>28, <1>29, <1>30, <1>31, <1>32, <1>33, <1>34 DEF Next, Write, Service

----------------------------------------------------------------------------
(* The service process.                                                    *)

\* While starts and stops come one at a time, the tracked process is the only one
\* alive, and none is when the one start there is begins another.
ServiceInv ==
    /\ \A r \in Requests : pc[r] \in ServiceLabels => r \in Active("service")
    /\ "service" \notin overlapped /\ ~restarted =>
          /\ Live \subseteq {tracked}
          /\ \A p, q \in Active("service") : p = q
          /\ \A r \in Requests : pc[r] = "spawn" => Live = {}

\* A step of a thread that is not, or no longer, about the service keeps it.
LEMMA ElsewhereStep ==
    ASSUME TypeOK, ServiceInv, NEW r \in Requests, NEW label,
           label \notin ServiceLabels, pc[r] \notin {"idle", "done"},
           pc' = [pc EXCEPT ![r] = label],
           UNCHANGED <<process, tracked, asked, overlapped, restarted>>
    PROVE  ServiceInv'
<1>1. Active("service")' \subseteq Active("service") /\ Live' = Live
    BY DEF Active, Live, TypeOK
<1>2. \A q \in Requests : pc'[q] \in ServiceLabels => q # r /\ pc'[q] = pc[q]
    BY DEF TypeOK
<1>3. \A q \in Requests : pc'[q] \in ServiceLabels => q \in Active("service")'
    BY <1>2 DEF ServiceInv, Active, ServiceLabels
<1>4. \A q \in Requests : pc'[q] = "spawn" => pc[q] = "spawn"
    BY <1>2 DEF ServiceLabels
<1> QED
    BY <1>1, <1>3, <1>4 DEF ServiceInv

\* Every step keeps it.
LEMMA ServiceStep ==
    ASSUME TypeOK, ServiceInv, [Next]_vars
    PROVE  ServiceInv'
<1>1. ASSUME NEW r \in Requests, Arrive(r) PROVE ServiceInv'
    <2>1. PICK a \in Asked :
            /\ asked' = [asked EXCEPT ![r] = a]
            /\ pc' = [pc EXCEPT ![r] = First(a.op)]
            /\ overlapped' = overlapped \cup
                   {k \in {"write", "service"} \cap {Kind(a.op)} : Active(k) # {}}
        BY <1>1 DEF Arrive
    <2>2. pc[r] = "idle" /\ UNCHANGED <<process, tracked, restarted>>
        BY <1>1 DEF Arrive, running
    <2>3. /\ First(a.op) \in {"plan", "validate", "stop", "up", "down"}
          /\ First(a.op) \in ServiceLabels => Kind(a.op) = "service"
        BY FirstLabel
    <2>4. /\ Active("service")' \subseteq Active("service") \cup {r}
          /\ r \in Active("service")' => Kind(a.op) = "service"
        BY <2>1, <2>2 DEF Active, TypeOK
    <2>5. \A q \in Requests : pc'[q] \in ServiceLabels => q \in Active("service")'
        <3> SUFFICES ASSUME NEW q \in Requests, pc'[q] \in ServiceLabels
                     PROVE  q \in Active("service")'
            OBVIOUS
        <3>1. CASE q = r
            BY <2>1, <2>3, <3>1 DEF Active, TypeOK
        <3>2. CASE q # r
            BY <2>1, <3>2 DEF Active, TypeOK, ServiceInv
        <3> QED
            BY <3>1, <3>2
    <2>6. Live' = Live
        BY <2>2 DEF Live
    <2>7. \A q \in Requests : pc'[q] = "spawn" => pc[q] = "spawn"
        BY <2>1, <2>3 DEF TypeOK
    <2>8. "service" \notin overlapped' /\ ~restarted => \A p, q \in Active("service")' : p = q
        <3>1. CASE Kind(a.op) = "service"
            BY <2>1, <2>4, <3>1
        <3>2. CASE Kind(a.op) # "service"
            BY <2>1, <2>4, <3>2 DEF ServiceInv
        <3> QED
            BY <3>1, <3>2
    <2> QED
        BY <2>1, <2>2, <2>5, <2>6, <2>7, <2>8 DEF ServiceInv
<1>2. ASSUME NEW r \in Requests, Plan(r) PROVE ServiceInv'
    BY <1>2, ElsewhereStep DEF Plan, written, running, history, Goto, Says, Answer, Fails,
        ServiceLabels
<1>3. ASSUME NEW r \in Requests, PlanFails(r) PROVE ServiceInv'
    BY <1>3, ElsewhereStep DEF PlanFails, written, running, history, Goto, Says, Answer,
        Fails, ServiceLabels
<1>4. ASSUME NEW r \in Requests, Check(r) PROVE ServiceInv'
    BY <1>4, ElsewhereStep DEF Check, written, running, history, Goto, Says, Answer, Fails,
        ServiceLabels
<1>5. ASSUME NEW r \in Requests, FindCli(r) PROVE ServiceInv'
    BY <1>5, ElsewhereStep DEF FindCli, written, running, history, Goto, Says, Answer,
        Fails, ServiceLabels
<1>6. ASSUME NEW r \in Requests, NoCli(r) PROVE ServiceInv'
    BY <1>6, ElsewhereStep DEF NoCli, written, running, history, Goto, Says, Answer, Fails,
        ServiceLabels
<1>7. ASSUME NEW r \in Requests, Install(r) PROVE ServiceInv'
    BY <1>7, ElsewhereStep DEF Install, written, running, history, Goto, Says, Answer,
        Fails, ServiceLabels
<1>8. ASSUME NEW r \in Requests, InstallFails(r) PROVE ServiceInv'
    BY <1>8, ElsewhereStep DEF InstallFails, written, running, history, Goto, Says, Answer,
        Fails, ServiceLabels
<1>9. ASSUME NEW r \in Requests, InitRepo(r) PROVE ServiceInv'
    BY <1>9, ElsewhereStep DEF InitRepo, written, running, history, Goto, Says, Answer,
        Fails, ServiceLabels
<1>10. ASSUME NEW r \in Requests, InitRepoFails(r) PROVE ServiceInv'
    BY <1>10, ElsewhereStep DEF InitRepoFails, written, running, history, Goto, Says, Answer,
        Fails, ServiceLabels
<1>11. ASSUME NEW r \in Requests, InitDone(r) PROVE ServiceInv'
    BY <1>11, ElsewhereStep DEF InitDone, written, running, history, Goto, Says, Answer,
        Fails, ServiceLabels
<1>12. ASSUME NEW r \in Requests, Truncate(r) PROVE ServiceInv'
    BY <1>12, ElsewhereStep DEF Truncate, written, running, history, Goto, Says, Answer,
        Fails, ServiceLabels
<1>13. ASSUME NEW r \in Requests, Fill(r) PROVE ServiceInv'
    BY <1>13, ElsewhereStep DEF Fill, written, running, history, Goto, Says, Answer,
        Fails, ServiceLabels, Artifacts
<1>14. ASSUME NEW r \in Requests, WriteArtifact(r) PROVE ServiceInv'
    <2>1. pc' = [pc EXCEPT ![r] = After[pc[r]]] /\ pc[r] \in Artifacts
        BY <1>14 DEF WriteArtifact, Goto
    <2>2. After[pc[r]] \notin ServiceLabels
        BY <2>1, AfterLabel DEF ServiceLabels
    <2>3. pc[r] \notin {"idle", "done"}
        BY <2>1 DEF Artifacts
    <2> QED
        BY <1>14, <2>1, <2>2, <2>3, ElsewhereStep DEF WriteArtifact, running, history, Goto
<1>15. ASSUME NEW r \in Requests, WriteFails(r) PROVE ServiceInv'
    BY <1>15, ElsewhereStep DEF WriteFails, written, running, history, Goto, Says, Answer,
        Fails, ServiceLabels, Artifacts
<1>16. ASSUME NEW r \in Requests, Report(r) PROVE ServiceInv'
    BY <1>16, ElsewhereStep DEF Report, written, running, history, Goto, Says, Answer,
        Fails, ServiceLabels
<1>17. ASSUME NEW r \in Requests, ReportFails(r) PROVE ServiceInv'
    BY <1>17, ElsewhereStep DEF ReportFails, written, running, history, Goto, Says, Answer,
        Fails, ServiceLabels
<1>18. ASSUME NEW r \in Requests, Validate(r) PROVE ServiceInv'
    <2>1. CASE Valid
        <3>1. pc' = [pc EXCEPT ![r] = "look"] /\ pc[r] = "validate"
            BY <1>18, <2>1 DEF Validate, Goto
        <3>2. UNCHANGED <<process, tracked, asked, overlapped, restarted>>
            BY <1>18, <2>1 DEF Validate, Goto, running, history
        <3>3. Active("service")' = Active("service") /\ Live' = Live
            BY <3>1, <3>2 DEF Active, Live, TypeOK
        <3> QED
            BY <3>1, <3>2, <3>3 DEF ServiceInv, ServiceLabels, TypeOK
    <2>2. CASE ~Valid
        BY <1>18, <2>2, ElsewhereStep DEF Validate, written, running, history, Goto, Says, Answer,
            ServiceLabels
    <2> QED
        BY <2>1, <2>2
<1>19. ASSUME NEW r \in Requests, ValidateFails(r) PROVE ServiceInv'
    BY <1>19, ElsewhereStep DEF ValidateFails, written, running, history, Goto, Says, Answer,
        Fails, ServiceLabels
<1>20. ASSUME NEW r \in Requests, Look(r) PROVE ServiceInv'
    <2>1. CASE tracked \in Live
        BY <1>20, <2>1, ElsewhereStep DEF Look, written, running, history, Says, Answer, ServiceLabels
    <2>2. CASE tracked \notin Live
        <3>1. pc' = [pc EXCEPT ![r] = "spawn"] /\ pc[r] = "look"
            BY <1>20, <2>2 DEF Look, Goto
        <3>2. UNCHANGED <<process, tracked, asked, overlapped, restarted>>
            BY <1>20, <2>2 DEF Look, Goto, running, history
        <3>3. Active("service")' = Active("service") /\ Live' = Live
            BY <3>1, <3>2 DEF Active, Live, TypeOK
        <3>4. Live \subseteq {tracked} => Live' = {}
            BY <2>2, <3>3
        <3>5. \A q \in Requests : pc'[q] = "spawn" => q = r \/ pc[q] = "spawn"
            BY <3>1 DEF TypeOK
        <3>6. \A q \in Requests : pc'[q] \in ServiceLabels => q \in Active("service")'
            BY <3>1, <3>2, <3>3 DEF ServiceInv, ServiceLabels, TypeOK
        <3> QED
            BY <3>2, <3>3, <3>4, <3>5, <3>6 DEF ServiceInv
    <2> QED
        BY <2>1, <2>2
<1>21. ASSUME NEW r \in Requests, Spawn(r) PROVE ServiceInv'
    BY <1>21 DEF Spawn, TypeOK, ServiceInv, ServiceLabels, Active, Live, Goto, history
<1>22. ASSUME NEW r \in Requests, Slept(r) PROVE ServiceInv'
    BY <1>22 DEF Slept, TypeOK, ServiceInv, ServiceLabels, Active, Live, Says, Answer, running, history
<1>23. ASSUME NEW r \in Requests, Terminate(r) PROVE ServiceInv'
    <2>1. CASE tracked \in Live
        <3>1. Live' = Live /\ pc' = [pc EXCEPT ![r] = "wait"]
            BY <1>23, <2>1 DEF Terminate, Live, TypeOK, Goto
        <3>2. Active("service")' = Active("service") /\ r \in Active("service")
            BY <1>23, <2>1, <3>1 DEF Terminate, Active, Goto, ServiceInv, ServiceLabels, TypeOK
        <3>3. UNCHANGED <<tracked, overlapped, restarted>>
            BY <1>23, <2>1 DEF Terminate, Goto, history
        <3> QED
            BY <3>1, <3>2, <3>3 DEF ServiceInv, ServiceLabels, TypeOK
    <2>2. CASE tracked \notin Live
        BY <1>23, <2>2, ElsewhereStep DEF Terminate, written, running, history, Says, Answer,
            ServiceLabels
    <2> QED
        BY <2>1, <2>2
<1>24. ASSUME NEW r \in Requests, Stopped(r) PROVE ServiceInv'
    BY <1>24, ElsewhereStep DEF Stopped, written, running, history, Says, Answer, ServiceLabels
<1>25. ASSUME NEW r \in Requests, Kill(r) PROVE ServiceInv'
    BY <1>25 DEF Kill, TypeOK, ServiceInv, ServiceLabels, Active, Live, Says, Answer, history
<1>26. ASSUME NEW r \in Requests, Compose(r) PROVE ServiceInv'
    BY <1>26, ElsewhereStep DEF Compose, written, running, history, Goto, Says, Answer, Fails,
        ServiceLabels
<1>27. ASSUME NEW r \in Requests, ComposeFails(r) PROVE ServiceInv'
    BY <1>27, ElsewhereStep DEF ComposeFails, written, running, history, Goto, Says, Answer, Fails,
        ServiceLabels
<1>28. ASSUME NEW r \in Requests, Bind(r) PROVE ServiceInv'
    BY <1>28 DEF Bind, TypeOK, ServiceInv, ServiceLabels, Active, Live, history
<1>29. ASSUME NEW r \in Requests, Exit(r) PROVE ServiceInv'
    BY <1>29 DEF Exit, TypeOK, ServiceInv, ServiceLabels, Active, Live, history
<1>30. ASSUME NEW r \in Requests, Die(r) PROVE ServiceInv'
    BY <1>30 DEF Die, TypeOK, ServiceInv, ServiceLabels, Active, Live, history
<1>31. CASE UserWrites
    BY <1>31 DEF UserWrites, TypeOK, ServiceInv, ServiceLabels, Active, Live, running, history
<1>32. CASE Restart
    BY <1>32 DEF Restart, TypeOK, ServiceInv, ServiceLabels, Active, Live
<1>33. CASE Wait
    BY <1>33 DEF Wait, ServiceInv, Active, Live, vars, running, history
<1>34. CASE UNCHANGED vars
    BY <1>34 DEF ServiceInv, Active, Live, vars, running, history
<1> QED
    BY <1>1, <1>2, <1>3, <1>4, <1>5, <1>6, <1>7, <1>8, <1>9, <1>10, <1>11, <1>12, <1>13,
       <1>14, <1>15, <1>16, <1>17, <1>18, <1>19, <1>20, <1>21, <1>22, <1>23, <1>24, <1>25,
       <1>26, <1>27, <1>28, <1>29, <1>30, <1>31, <1>32, <1>33, <1>34 DEF Next, Write, Service

----------------------------------------------------------------------------
(* The confirmation.                                                       *)

\* A configuration never goes away, and a write that passed the checks of the file
\* is confirmed or met none when it came.
ConfirmInv ==
    \A r \in Requests :
        /\ found[r] => config # Nothing
        /\ pc[r] \in {"codegraph", "npm", "init", "truncate"} => asked[r].confirm \/ ~found[r]

\* Every step keeps it.
LEMMA ConfirmStep ==
    ASSUME TypeOK, ConfirmInv, [Next]_vars
    PROVE  ConfirmInv'
<1>1. ASSUME NEW r \in Requests, Arrive(r) PROVE ConfirmInv'
    <2>1. PICK a \in Asked :
            asked' = [asked EXCEPT ![r] = a] /\ pc' = [pc EXCEPT ![r] = First(a.op)]
        BY <1>1 DEF Arrive
    <2>2. First(a.op) \in {"plan", "validate", "stop", "up", "down"}
        BY FirstLabel
    <2> QED
        BY <1>1, <2>1, <2>2 DEF Arrive, TypeOK, ConfirmInv, written
<1>2. ASSUME NEW r \in Requests, Plan(r) PROVE ConfirmInv'
    BY <1>2 DEF Plan, TypeOK, ConfirmInv, NeedsConfirmation, Goto, Says, Answer, Fails, written, history, Artifacts
<1>3. ASSUME NEW r \in Requests, PlanFails(r) PROVE ConfirmInv'
    BY <1>3 DEF PlanFails, TypeOK, ConfirmInv, NeedsConfirmation, Goto, Says, Answer, Fails, written, history, Artifacts
<1>4. ASSUME NEW r \in Requests, Check(r) PROVE ConfirmInv'
    BY <1>4 DEF Check, TypeOK, ConfirmInv, NeedsConfirmation, Goto, Says, Answer, Fails, written, history, Artifacts
<1>5. ASSUME NEW r \in Requests, FindCli(r) PROVE ConfirmInv'
    BY <1>5 DEF FindCli, TypeOK, ConfirmInv, NeedsConfirmation, Goto, Says, Answer, Fails, written, history, Artifacts
<1>6. ASSUME NEW r \in Requests, NoCli(r) PROVE ConfirmInv'
    BY <1>6 DEF NoCli, TypeOK, ConfirmInv, NeedsConfirmation, Goto, Says, Answer, Fails, written, history, Artifacts
<1>7. ASSUME NEW r \in Requests, Install(r) PROVE ConfirmInv'
    BY <1>7 DEF Install, TypeOK, ConfirmInv, NeedsConfirmation, Goto, Says, Answer, Fails, written, history, Artifacts
<1>8. ASSUME NEW r \in Requests, InstallFails(r) PROVE ConfirmInv'
    BY <1>8 DEF InstallFails, TypeOK, ConfirmInv, NeedsConfirmation, Goto, Says, Answer, Fails, written, history, Artifacts
<1>9. ASSUME NEW r \in Requests, InitRepo(r) PROVE ConfirmInv'
    BY <1>9 DEF InitRepo, TypeOK, ConfirmInv, NeedsConfirmation, Goto, Says, Answer, Fails, written, history, Artifacts
<1>10. ASSUME NEW r \in Requests, InitRepoFails(r) PROVE ConfirmInv'
    BY <1>10 DEF InitRepoFails, TypeOK, ConfirmInv, NeedsConfirmation, Goto, Says, Answer, Fails, written, history, Artifacts
<1>11. ASSUME NEW r \in Requests, InitDone(r) PROVE ConfirmInv'
    BY <1>11 DEF InitDone, TypeOK, ConfirmInv, NeedsConfirmation, Goto, Says, Answer, Fails, written, history, Artifacts
<1>12. ASSUME NEW r \in Requests, Truncate(r) PROVE ConfirmInv'
    BY <1>12 DEF Truncate, TypeOK, ConfirmInv, NeedsConfirmation, Goto, Says, Answer, Fails, written, history, Artifacts
<1>13. ASSUME NEW r \in Requests, Fill(r) PROVE ConfirmInv'
    BY <1>13 DEF Fill, TypeOK, ConfirmInv, NeedsConfirmation, Goto, Says, Answer, Fails, written, history, Artifacts
<1>14. ASSUME NEW r \in Requests, WriteArtifact(r) PROVE ConfirmInv'
    <2>1. pc' = [pc EXCEPT ![r] = After[pc[r]]] /\ UNCHANGED <<config, asked, found>>
        BY <1>14 DEF WriteArtifact, Goto, history
    <2>2. After[pc[r]] \in {"token_file", "caddyfile", "compose", "report"}
        BY <1>14, AfterLabel DEF WriteArtifact
    <2> QED
        BY <2>1, <2>2 DEF TypeOK, ConfirmInv
<1>15. ASSUME NEW r \in Requests, WriteFails(r) PROVE ConfirmInv'
    BY <1>15 DEF WriteFails, TypeOK, ConfirmInv, NeedsConfirmation, Goto, Says, Answer, Fails, written, history, Artifacts
<1>16. ASSUME NEW r \in Requests, Report(r) PROVE ConfirmInv'
    BY <1>16 DEF Report, TypeOK, ConfirmInv, NeedsConfirmation, Goto, Says, Answer, Fails, written, history, Artifacts
<1>17. ASSUME NEW r \in Requests, ReportFails(r) PROVE ConfirmInv'
    BY <1>17 DEF ReportFails, TypeOK, ConfirmInv, NeedsConfirmation, Goto, Says, Answer, Fails, written, history, Artifacts
<1>18. ASSUME NEW r \in Requests, Validate(r) PROVE ConfirmInv'
    BY <1>18 DEF Validate, TypeOK, ConfirmInv, NeedsConfirmation, Goto, Says, Answer, Fails, written, history, Artifacts
<1>19. ASSUME NEW r \in Requests, ValidateFails(r) PROVE ConfirmInv'
    BY <1>19 DEF ValidateFails, TypeOK, ConfirmInv, NeedsConfirmation, Goto, Says, Answer, Fails, written, history, Artifacts
<1>20. ASSUME NEW r \in Requests, Look(r) PROVE ConfirmInv'
    BY <1>20 DEF Look, TypeOK, ConfirmInv, NeedsConfirmation, Goto, Says, Answer, Fails, written, history, Artifacts
<1>21. ASSUME NEW r \in Requests, Spawn(r) PROVE ConfirmInv'
    BY <1>21 DEF Spawn, TypeOK, ConfirmInv, NeedsConfirmation, Goto, Says, Answer, Fails, written, history, Artifacts
<1>22. ASSUME NEW r \in Requests, Slept(r) PROVE ConfirmInv'
    BY <1>22 DEF Slept, TypeOK, ConfirmInv, NeedsConfirmation, Goto, Says, Answer, Fails, written, history, Artifacts
<1>23. ASSUME NEW r \in Requests, Terminate(r) PROVE ConfirmInv'
    BY <1>23 DEF Terminate, TypeOK, ConfirmInv, NeedsConfirmation, Goto, Says, Answer, Fails, written, history, Artifacts
<1>24. ASSUME NEW r \in Requests, Stopped(r) PROVE ConfirmInv'
    BY <1>24 DEF Stopped, TypeOK, ConfirmInv, NeedsConfirmation, Goto, Says, Answer, Fails, written, history, Artifacts
<1>25. ASSUME NEW r \in Requests, Kill(r) PROVE ConfirmInv'
    BY <1>25 DEF Kill, TypeOK, ConfirmInv, NeedsConfirmation, Goto, Says, Answer, Fails, written, history, Artifacts
<1>26. ASSUME NEW r \in Requests, Compose(r) PROVE ConfirmInv'
    BY <1>26 DEF Compose, TypeOK, ConfirmInv, NeedsConfirmation, Goto, Says, Answer, Fails, written, history, Artifacts
<1>27. ASSUME NEW r \in Requests, ComposeFails(r) PROVE ConfirmInv'
    BY <1>27 DEF ComposeFails, TypeOK, ConfirmInv, NeedsConfirmation, Goto, Says, Answer, Fails, written, history, Artifacts
<1>28. ASSUME NEW r \in Requests, Bind(r) PROVE ConfirmInv'
    BY <1>28 DEF Bind, TypeOK, ConfirmInv, NeedsConfirmation, Goto, Says, Answer, Fails, written, history, Artifacts
<1>29. ASSUME NEW r \in Requests, Exit(r) PROVE ConfirmInv'
    BY <1>29 DEF Exit, TypeOK, ConfirmInv, NeedsConfirmation, Goto, Says, Answer, Fails, written, history, Artifacts
<1>30. ASSUME NEW r \in Requests, Die(r) PROVE ConfirmInv'
    BY <1>30 DEF Die, TypeOK, ConfirmInv, NeedsConfirmation, Goto, Says, Answer, Fails, written, history, Artifacts
<1>31. CASE UserWrites
    BY <1>31 DEF UserWrites, TypeOK, ConfirmInv, NeedsConfirmation, Goto, Says, Answer, Fails, written, history, Artifacts
<1>32. CASE Restart
    BY <1>32 DEF Restart, TypeOK, ConfirmInv, NeedsConfirmation, Goto, Says, Answer, Fails, written, history, Artifacts
<1>33. CASE Wait
    BY <1>33 DEF Wait, ConfirmInv, vars, written, history
<1>34. CASE UNCHANGED vars
    BY <1>34 DEF ConfirmInv, vars, written, history
<1> QED
    BY <1>1, <1>2, <1>3, <1>4, <1>5, <1>6, <1>7, <1>8, <1>9, <1>10, <1>11, <1>12, <1>13,
       <1>14, <1>15, <1>16, <1>17, <1>18, <1>19, <1>20, <1>21, <1>22, <1>23, <1>24, <1>25,
       <1>26, <1>27, <1>28, <1>29, <1>30, <1>31, <1>32, <1>33, <1>34 DEF Next, Write, Service

----------------------------------------------------------------------------
(* The bridge's files.                                                     *)

\* The labels at which a request is about the configuration and the bridge.
WriteLabels ==
    {"plan", "check", "codegraph", "npm", "init", "truncate", "fill", "report"} \cup Artifacts

\* What a write has written when it comes to a file of the bridge.
WrittenBefore ==
    [token_file |-> {"env"}, caddyfile |-> {"env", "token_file"},
     compose |-> {"env", "token_file", "caddyfile"}]

\* As long as writes come one at a time: a write has the files it wrote so far, nobody's
\* content is in the first file before that file was written, and a write
\* whose content is there still when it reports has all four.
TokenInv ==
    /\ \A r \in Requests :
          /\ pc[r] \in WriteLabels => r \in Active("write")
          /\ answer[r] \in {"ok", "invalid"} => pc[r] = "done"
    /\ "write" \notin overlapped =>
          /\ \A p, q \in Active("write") : p = q
          /\ \A r \in Requests :
                /\ pc[r] \in DOMAIN WrittenBefore => \A a \in WrittenBefore[pc[r]] : bridge[a] = r
                /\ bridge.env = r => pc[r] \in (DOMAIN WrittenBefore) \cup {"report", "done"}
                /\ pc[r] = "report" \/ answer[r] \in {"ok", "invalid"} =>
                      (bridge.env = r => \A a \in Artifacts : bridge[a] = r)

\* A thread that goes on and writes none of the files keeps it.
LEMMA TokenGoes ==
    ASSUME TypeOK, TokenInv, NEW r \in Requests, NEW label \in Labels,
           pc[r] \notin {"idle", "done"}, pc' = [pc EXCEPT ![r] = label],
           label \in WriteLabels => pc[r] \in WriteLabels,
           label \notin (DOMAIN WrittenBefore) \cup {"idle"},
           pc[r] \notin Artifacts, pc[r] = "report" => label = "done",
           label = "done" \/ answer' = answer,
           \/ answer' = answer
           \/ \E code \in Codes :
                 /\ answer' = [answer EXCEPT ![r] = code]
                 /\ code \in {"ok", "invalid"} => pc[r] \in {"report", "up", "down"},
           UNCHANGED <<bridge, asked, overlapped>>
    PROVE  TokenInv'
<1>1. Active("write")' \subseteq Active("write")
    BY DEF Active, TypeOK
<1>2. \A q \in Requests : q # r => pc'[q] = pc[q] /\ answer'[q] = answer[q]
    BY DEF TypeOK
<1>3. pc'[r] = label
    BY DEF TypeOK
<1>4. ASSUME NEW q \in Requests
      PROVE  /\ pc'[q] \in WriteLabels => q \in Active("write")'
             /\ answer'[q] \in {"ok", "invalid"} => pc'[q] = "done"
    <2>1. CASE q = r
        BY <1>3, <2>1 DEF TokenInv, Active, WriteLabels, Artifacts
    <2>2. CASE q # r
        BY <1>2, <2>2 DEF TokenInv, Active
    <2> QED
        BY <2>1, <2>2
<1>5. ASSUME NEW q \in Requests, "write" \notin overlapped
      PROVE  /\ pc'[q] \in DOMAIN WrittenBefore => \A a \in WrittenBefore[pc'[q]] : bridge[a] = q
             /\ bridge.env = q => pc'[q] \in (DOMAIN WrittenBefore) \cup {"report", "done"}
             /\ pc'[q] = "report" \/ answer'[q] \in {"ok", "invalid"} =>
                   (bridge.env = q => \A a \in Artifacts : bridge[a] = q)
    <2>1. CASE q # r
        BY <1>2, <1>5, <2>1 DEF TokenInv
    <2>2. CASE q = r
        <3>1. bridge.env = r => pc[r] = "report"
            BY <1>5 DEF TokenInv, WrittenBefore, Artifacts
        <3>2. bridge.env = r => label = "done" /\ \A a \in Artifacts : bridge[a] = r
            BY <1>5, <3>1 DEF TokenInv
        <3> QED
            BY <1>3, <2>2, <3>2
    <2> QED
        BY <2>1, <2>2
<1> QED
    BY <1>1, <1>4, <1>5 DEF TokenInv

\* Every step keeps it.
LEMMA TokenStep ==
    ASSUME TypeOK, TokenInv, [Next]_vars
    PROVE  TokenInv'
<1>1. ASSUME NEW r \in Requests, Arrive(r) PROVE TokenInv'
    <2>1. PICK a \in Asked :
            /\ asked' = [asked EXCEPT ![r] = a]
            /\ pc' = [pc EXCEPT ![r] = First(a.op)]
            /\ overlapped' = overlapped \cup
                   {k \in {"write", "service"} \cap {Kind(a.op)} : Active(k) # {}}
        BY <1>1 DEF Arrive
    <2>2. pc[r] = "idle" /\ UNCHANGED <<bridge, answer>>
        BY <1>1 DEF Arrive, written
    <2>3. /\ First(a.op) \in {"plan", "validate", "stop", "up", "down"}
          /\ First(a.op) = "plan" => Kind(a.op) = "write"
        BY DEF First, Kind, Services
    <2>4. /\ Active("write")' \subseteq Active("write") \cup {r}
          /\ r \in Active("write")' => Kind(a.op) = "write"
        BY <2>1, <2>2 DEF Active, TypeOK
    <2>5. pc'[r] = First(a.op) /\ \A q \in Requests : q # r => pc'[q] = pc[q]
        BY <2>1 DEF TypeOK
    <2>6. ASSUME NEW q \in Requests
          PROVE  /\ pc'[q] \in WriteLabels => q \in Active("write")'
                 /\ answer'[q] \in {"ok", "invalid"} => pc'[q] = "done"
        <3>1. CASE q = r
            BY <2>1, <2>2, <2>3, <2>5, <3>1 DEF TokenInv, Active, TypeOK, WriteLabels, Artifacts
        <3>2. CASE q # r
            BY <2>1, <2>2, <2>5, <3>2 DEF TokenInv, Active, TypeOK
        <3> QED
            BY <3>1, <3>2
    <2>7. "write" \notin overlapped' =>
              "write" \notin overlapped /\ \A p, q \in Active("write")' : p = q
        <3>1. CASE Kind(a.op) = "write"
            BY <2>1, <2>4, <3>1
        <3>2. CASE Kind(a.op) # "write"
            BY <2>1, <2>4, <3>2 DEF TokenInv
        <3> QED
            BY <3>1, <3>2
    <2>8. ASSUME NEW q \in Requests, "write" \notin overlapped
          PROVE  /\ pc'[q] \in DOMAIN WrittenBefore => \A f \in WrittenBefore[pc'[q]] : bridge[f] = q
                 /\ bridge.env = q => pc'[q] \in (DOMAIN WrittenBefore) \cup {"report", "done"}
                 /\ pc'[q] = "report" \/ answer'[q] \in {"ok", "invalid"} =>
                       (bridge.env = q => \A f \in Artifacts : bridge[f] = q)
        <3>1. CASE q = r
            BY <2>2, <2>3, <2>5, <2>8, <3>1 DEF TokenInv, WrittenBefore
        <3>2. CASE q # r
            BY <2>2, <2>5, <2>8, <3>2 DEF TokenInv
        <3> QED
            BY <3>1, <3>2
    <2> QED
        BY <2>2, <2>6, <2>7, <2>8 DEF TokenInv
<1>2. ASSUME NEW r \in Requests, Plan(r) PROVE TokenInv'
    BY <1>2, TokenGoes DEF Plan, Goto, Says, Answer, Fails, written, history, Labels, Codes, Artifacts, WriteLabels, WrittenBefore
<1>3. ASSUME NEW r \in Requests, PlanFails(r) PROVE TokenInv'
    BY <1>3, TokenGoes DEF PlanFails, Goto, Says, Answer, Fails, written, history, Labels, Codes, Artifacts, WriteLabels, WrittenBefore
<1>4. ASSUME NEW r \in Requests, Check(r) PROVE TokenInv'
    BY <1>4, TokenGoes DEF Check, Goto, Says, Answer, Fails, written, history, Labels, Codes, Artifacts, WriteLabels, WrittenBefore
<1>5. ASSUME NEW r \in Requests, FindCli(r) PROVE TokenInv'
    BY <1>5, TokenGoes DEF FindCli, Goto, Says, Answer, Fails, written, history, Labels, Codes, Artifacts, WriteLabels, WrittenBefore
<1>6. ASSUME NEW r \in Requests, NoCli(r) PROVE TokenInv'
    BY <1>6, TokenGoes DEF NoCli, Goto, Says, Answer, Fails, written, history, Labels, Codes, Artifacts, WriteLabels, WrittenBefore
<1>7. ASSUME NEW r \in Requests, Install(r) PROVE TokenInv'
    BY <1>7, TokenGoes DEF Install, Goto, Says, Answer, Fails, written, history, Labels, Codes, Artifacts, WriteLabels, WrittenBefore
<1>8. ASSUME NEW r \in Requests, InstallFails(r) PROVE TokenInv'
    BY <1>8, TokenGoes DEF InstallFails, Goto, Says, Answer, Fails, written, history, Labels, Codes, Artifacts, WriteLabels, WrittenBefore
<1>9. ASSUME NEW r \in Requests, InitRepo(r) PROVE TokenInv'
    BY <1>9, TokenGoes DEF InitRepo, Goto, Says, Answer, Fails, written, history, Labels, Codes, Artifacts, WriteLabels, WrittenBefore
<1>10. ASSUME NEW r \in Requests, InitRepoFails(r) PROVE TokenInv'
    BY <1>10, TokenGoes DEF InitRepoFails, Goto, Says, Answer, Fails, written, history, Labels, Codes, Artifacts, WriteLabels, WrittenBefore
<1>11. ASSUME NEW r \in Requests, InitDone(r) PROVE TokenInv'
    BY <1>11, TokenGoes DEF InitDone, Goto, Says, Answer, Fails, written, history, Labels, Codes, Artifacts, WriteLabels, WrittenBefore
<1>12. ASSUME NEW r \in Requests, Truncate(r) PROVE TokenInv'
    BY <1>12, TokenGoes DEF Truncate, Goto, Says, Answer, Fails, written, history, Labels, Codes, Artifacts, WriteLabels, WrittenBefore
<1>13. ASSUME NEW r \in Requests, Fill(r) PROVE TokenInv'
    BY <1>13, TokenGoes DEF Fill, Goto, Says, Answer, Fails, written, history, Labels, Codes, Artifacts, WriteLabels, WrittenBefore
<1>14. ASSUME NEW r \in Requests, WriteArtifact(r) PROVE TokenInv'
    <2>1. /\ pc[r] \in Artifacts /\ bridge' = [bridge EXCEPT ![pc[r]] = r]
          /\ pc' = [pc EXCEPT ![r] = After[pc[r]]] /\ UNCHANGED <<asked, answer, overlapped>>
        BY <1>14 DEF WriteArtifact, Goto, history
    <2>2. After[pc[r]] \in {"token_file", "caddyfile", "compose", "report"}
        BY <2>1, AfterLabel
    <2>3. Active("write")' \subseteq Active("write") /\ r \in Active("write") /\ r \in Active("write")'
        BY <2>1, <2>2 DEF Active, TypeOK, TokenInv, WriteLabels
    <2>4. pc'[r] = After[pc[r]] /\ \A q \in Requests : q # r => pc'[q] = pc[q]
        BY <2>1 DEF TypeOK
    <2>5. ASSUME NEW q \in Requests
          PROVE  /\ pc'[q] \in WriteLabels => q \in Active("write")'
                 /\ answer'[q] \in {"ok", "invalid"} => pc'[q] = "done"
        <3>1. CASE q = r
            BY <2>1, <2>3, <3>1 DEF TokenInv, Artifacts
        <3>2. CASE q # r
            BY <2>1, <2>4, <3>2 DEF TokenInv, Active
        <3> QED
            BY <3>1, <3>2
    <2>6. ASSUME NEW q \in Requests, "write" \notin overlapped
          PROVE  /\ pc'[q] \in DOMAIN WrittenBefore => \A a \in WrittenBefore[pc'[q]] : bridge'[a] = q
                 /\ bridge'.env = q => pc'[q] \in (DOMAIN WrittenBefore) \cup {"report", "done"}
                 /\ pc'[q] = "report" \/ answer'[q] \in {"ok", "invalid"} =>
                       (bridge'.env = q => \A a \in Artifacts : bridge'[a] = q)
        <3>1. bridge'.env = r
            BY <2>1, <2>6 DEF TokenInv, TypeOK, WrittenBefore, Artifacts
        <3>2. CASE q = r
            <4>1. \A a \in Artifacts : a = pc[r] => bridge'[a] = r
                BY <2>1 DEF TypeOK
            <4>2. \A a \in Artifacts : bridge[a] = r => bridge'[a] = r
                BY <2>1 DEF TypeOK
            <4>3. pc[r] \in DOMAIN WrittenBefore => \A a \in WrittenBefore[pc[r]] : bridge'[a] = r
                BY <2>6, <4>2 DEF TokenInv, WrittenBefore, Artifacts
            <4>4. pc'[r] \in DOMAIN WrittenBefore => \A a \in WrittenBefore[pc'[r]] : bridge'[a] = r
                BY <2>1, <2>4, <4>1, <4>3 DEF WrittenBefore, Artifacts, After
            <4>5. pc'[r] = "report" => \A a \in Artifacts : bridge'[a] = r
                BY <2>1, <2>4, <4>1, <4>3 DEF WrittenBefore, Artifacts, After
            <4>6. answer'[r] \notin {"ok", "invalid"}
                BY <2>1 DEF TokenInv, Artifacts
            <4>7. pc'[r] \in (DOMAIN WrittenBefore) \cup {"report", "done"}
                BY <2>2, <2>4 DEF WrittenBefore
            <4> QED
                BY <3>2, <4>4, <4>5, <4>6, <4>7
        <3>3. CASE q # r
            <4>1. pc'[q] \notin DOMAIN WrittenBefore
                <5>1. pc[q] \notin WriteLabels
                    BY <2>3, <2>6, <3>3 DEF TokenInv
                <5> QED
                    BY <2>4, <3>3, <5>1 DEF WriteLabels, WrittenBefore, Artifacts
            <4> QED
                BY <3>1, <3>3, <4>1
        <3> QED
            BY <3>2, <3>3
    <2> QED
        BY <2>1, <2>3, <2>5, <2>6 DEF TokenInv
<1>15. ASSUME NEW r \in Requests, WriteFails(r) PROVE TokenInv'
    <2>1. /\ pc[r] \in {"fill"} \cup Artifacts /\ pc' = [pc EXCEPT ![r] = "done"]
          /\ answer' = [answer EXCEPT ![r] = "dropped"] /\ UNCHANGED <<asked, overlapped>>
        BY <1>15 DEF WriteFails, Fails, Answer, history
    <2>2. CASE pc[r] = "fill"
        BY <1>15, <2>1, <2>2, TokenGoes DEF WriteFails, Labels, Codes, Artifacts, WriteLabels, WrittenBefore
    <2>3. CASE pc[r] \in Artifacts
        <3>1. bridge' = [bridge EXCEPT ![pc[r]] = Partial]
            BY <1>15, <2>3 DEF WriteFails, Artifacts
        <3>2. Active("write")' \subseteq Active("write") /\ r \in Active("write")
            BY <2>1, <2>3 DEF Active, TypeOK, TokenInv, WriteLabels
        <3>3. /\ pc'[r] = "done" /\ answer'[r] = "dropped"
              /\ \A q \in Requests : q # r => pc'[q] = pc[q] /\ answer'[q] = answer[q]
            BY <2>1 DEF TypeOK
        <3>4. ASSUME NEW q \in Requests
              PROVE  /\ pc'[q] \in WriteLabels => q \in Active("write")'
                     /\ answer'[q] \in {"ok", "invalid"} => pc'[q] = "done"
            <4>1. CASE q = r
                BY <3>3, <4>1 DEF WriteLabels, Artifacts
            <4>2. CASE q # r
                BY <2>1, <3>3, <4>2 DEF TokenInv, Active
            <4> QED
                BY <4>1, <4>2
        <3>5. ASSUME NEW q \in Requests, "write" \notin overlapped
              PROVE  /\ pc'[q] \in DOMAIN WrittenBefore => \A a \in WrittenBefore[pc'[q]] : bridge'[a] = q
                     /\ bridge'.env = q => pc'[q] \in (DOMAIN WrittenBefore) \cup {"report", "done"}
                     /\ pc'[q] = "report" \/ answer'[q] \in {"ok", "invalid"} =>
                           (bridge'.env = q => \A a \in Artifacts : bridge'[a] = q)
            <4>1. bridge'.env \in {r, Partial}
                BY <2>3, <3>1, <3>5 DEF TokenInv, TypeOK, WrittenBefore, Artifacts
            <4>2. CASE q = r
                BY <3>3, <4>2 DEF WrittenBefore
            <4>3. CASE q # r
                <5>1. pc[q] \notin WriteLabels
                    BY <3>2, <3>5, <4>3 DEF TokenInv
                <5>2. pc'[q] \notin DOMAIN WrittenBefore
                    BY <3>3, <4>3, <5>1 DEF WriteLabels, WrittenBefore, Artifacts
                <5> QED
                    BY <4>1, <4>3, <5>2
            <4> QED
                BY <4>2, <4>3
        <3> QED
            BY <2>1, <3>2, <3>4, <3>5 DEF TokenInv
    <2> QED
        BY <2>1, <2>2, <2>3
<1>16. ASSUME NEW r \in Requests, Report(r) PROVE TokenInv'
    BY <1>16, TokenGoes DEF Report, Goto, Says, Answer, Fails, written, history, Labels, Codes, Artifacts, WriteLabels, WrittenBefore
<1>17. ASSUME NEW r \in Requests, ReportFails(r) PROVE TokenInv'
    BY <1>17, TokenGoes DEF ReportFails, Goto, Says, Answer, Fails, written, history, Labels, Codes, Artifacts, WriteLabels, WrittenBefore
<1>18. ASSUME NEW r \in Requests, Validate(r) PROVE TokenInv'
    BY <1>18, TokenGoes DEF Validate, Goto, Says, Answer, Fails, written, history, Labels, Codes, Artifacts, WriteLabels, WrittenBefore
<1>19. ASSUME NEW r \in Requests, ValidateFails(r) PROVE TokenInv'
    BY <1>19, TokenGoes DEF ValidateFails, Goto, Says, Answer, Fails, written, history, Labels, Codes, Artifacts, WriteLabels, WrittenBefore
<1>20. ASSUME NEW r \in Requests, Look(r) PROVE TokenInv'
    BY <1>20, TokenGoes DEF Look, Goto, Says, Answer, Fails, written, history, Labels, Codes, Artifacts, WriteLabels, WrittenBefore
<1>21. ASSUME NEW r \in Requests, Spawn(r) PROVE TokenInv'
    BY <1>21, TokenGoes DEF Spawn, Goto, Says, Answer, Fails, written, history, Labels, Codes, Artifacts, WriteLabels, WrittenBefore
<1>22. ASSUME NEW r \in Requests, Slept(r) PROVE TokenInv'
    BY <1>22, TokenGoes DEF Slept, Goto, Says, Answer, Fails, written, history, Labels, Codes, Artifacts, WriteLabels, WrittenBefore
<1>23. ASSUME NEW r \in Requests, Terminate(r) PROVE TokenInv'
    BY <1>23, TokenGoes DEF Terminate, Goto, Says, Answer, Fails, written, history, Labels, Codes, Artifacts, WriteLabels, WrittenBefore
<1>24. ASSUME NEW r \in Requests, Stopped(r) PROVE TokenInv'
    BY <1>24, TokenGoes DEF Stopped, Goto, Says, Answer, Fails, written, history, Labels, Codes, Artifacts, WriteLabels, WrittenBefore
<1>25. ASSUME NEW r \in Requests, Kill(r) PROVE TokenInv'
    BY <1>25, TokenGoes DEF Kill, Goto, Says, Answer, Fails, written, history, Labels, Codes, Artifacts, WriteLabels, WrittenBefore
<1>26. ASSUME NEW r \in Requests, Compose(r) PROVE TokenInv'
    BY <1>26, TokenGoes DEF Compose, Goto, Says, Answer, Fails, written, history, Labels, Codes, Artifacts, WriteLabels, WrittenBefore
<1>27. ASSUME NEW r \in Requests, ComposeFails(r) PROVE TokenInv'
    BY <1>27, TokenGoes DEF ComposeFails, Goto, Says, Answer, Fails, written, history, Labels, Codes, Artifacts, WriteLabels, WrittenBefore
<1>28. ASSUME NEW r \in Requests, Bind(r) PROVE TokenInv'
    BY <1>28 DEF Bind, TokenInv, Active, written, history
<1>29. ASSUME NEW r \in Requests, Exit(r) PROVE TokenInv'
    BY <1>29 DEF Exit, TokenInv, Active, written, history
<1>30. ASSUME NEW r \in Requests, Die(r) PROVE TokenInv'
    BY <1>30 DEF Die, TokenInv, Active, written, history
<1>31. CASE UserWrites
    BY <1>31 DEF UserWrites, TokenInv, Active, history
<1>32. CASE Restart
    <2>1. Active("write")' = {}
        BY <1>32 DEF Restart, Active
    <2>2. \A q \in Requests : /\ pc'[q] = IF pc[q] = "idle" THEN "idle" ELSE "done"
                              /\ answer'[q] \in {"ok", "invalid"} => answer[q] \in {"ok", "invalid"}
        BY <1>32 DEF Restart
    <2>3. UNCHANGED <<bridge, overlapped>>
        BY <1>32 DEF Restart, written
    <2> QED
        BY <2>1, <2>2, <2>3 DEF TokenInv, WriteLabels, WrittenBefore, Artifacts
<1>33. CASE Wait
    BY <1>33 DEF Wait, TokenInv, Active, vars, written, history
<1>34. CASE UNCHANGED vars
    BY <1>34 DEF TokenInv, Active, vars, written, history
<1> QED
    BY <1>1, <1>2, <1>3, <1>4, <1>5, <1>6, <1>7, <1>8, <1>9, <1>10, <1>11, <1>12, <1>13,
       <1>14, <1>15, <1>16, <1>17, <1>18, <1>19, <1>20, <1>21, <1>22, <1>23, <1>24, <1>25,
       <1>26, <1>27, <1>28, <1>29, <1>30, <1>31, <1>32, <1>33, <1>34 DEF Next, Write, Service

----------------------------------------------------------------------------
(* The theorems.                                                           *)

\* What setup wrote names an installed CodeGraph whose repositories are all
\* initialized, however many requests interleave and fail.
THEOREM BackedAlways == Spec => []ConfigIsBacked
<1>1. Init => BackedInv
    BY DEF Init, BackedInv
<1>2. TypeOK /\ BackedInv /\ [Next]_vars => BackedInv'
    BY BackedStep
<1>3. BackedInv => ConfigIsBacked
    BY DEF BackedInv, Backed, ConfigIsBacked
<1> QED
    BY <1>1, <1>2, <1>3, TypeCorrect, PTL DEF Spec

\* The invariant of the service process holds throughout.
LEMMA ServiceAlways == Spec => []ServiceInv
<1>1. Init => ServiceInv
    BY DEF Init, ServiceInv, Live, Active, ServiceLabels
<1>2. TypeOK /\ ServiceInv /\ [Next]_vars => ServiceInv'
    BY ServiceStep
<1> QED
    BY <1>1, <1>2, TypeCorrect, PTL DEF Spec

\* The manager has a single live process, for any number of starts and stops
\* that come one at a time.
THEOREM OneProcess == Spec => []SingleService
<1>1. ServiceInv => SingleService
    BY DEF ServiceInv, SingleService
<1> QED
    BY <1>1, ServiceAlways, PTL

\* Nothing but a stop answers "stopped".
LEMMA OnlyStops ==
    ASSUME TypeOK, [Next]_vars, NEW s \in Requests,
           answer[s] # "stopped", answer'[s] = "stopped"
    PROVE  Terminate(s) \/ Stopped(s) \/ Kill(s)
<1>1. ASSUME NEW r \in Requests, Arrive(r) PROVE Terminate(s) \/ Stopped(s) \/ Kill(s)
    BY <1>1 DEF Arrive, TypeOK
<1>2. ASSUME NEW r \in Requests, Plan(r) PROVE Terminate(s) \/ Stopped(s) \/ Kill(s)
    BY <1>2 DEF Plan, TypeOK, Goto, Says, Answer, Fails
<1>3. ASSUME NEW r \in Requests, PlanFails(r) PROVE Terminate(s) \/ Stopped(s) \/ Kill(s)
    BY <1>3 DEF PlanFails, TypeOK, Goto, Says, Answer, Fails
<1>4. ASSUME NEW r \in Requests, Check(r) PROVE Terminate(s) \/ Stopped(s) \/ Kill(s)
    BY <1>4 DEF Check, TypeOK, Goto, Says, Answer, Fails
<1>5. ASSUME NEW r \in Requests, FindCli(r) PROVE Terminate(s) \/ Stopped(s) \/ Kill(s)
    BY <1>5 DEF FindCli, TypeOK, Goto, Says, Answer, Fails
<1>6. ASSUME NEW r \in Requests, NoCli(r) PROVE Terminate(s) \/ Stopped(s) \/ Kill(s)
    BY <1>6 DEF NoCli, TypeOK, Goto, Says, Answer, Fails
<1>7. ASSUME NEW r \in Requests, Install(r) PROVE Terminate(s) \/ Stopped(s) \/ Kill(s)
    BY <1>7 DEF Install, TypeOK, Goto, Says, Answer, Fails
<1>8. ASSUME NEW r \in Requests, InstallFails(r) PROVE Terminate(s) \/ Stopped(s) \/ Kill(s)
    BY <1>8 DEF InstallFails, TypeOK, Goto, Says, Answer, Fails
<1>9. ASSUME NEW r \in Requests, InitRepo(r) PROVE Terminate(s) \/ Stopped(s) \/ Kill(s)
    BY <1>9 DEF InitRepo, TypeOK, Goto, Says, Answer, Fails
<1>10. ASSUME NEW r \in Requests, InitRepoFails(r) PROVE Terminate(s) \/ Stopped(s) \/ Kill(s)
    BY <1>10 DEF InitRepoFails, TypeOK, Goto, Says, Answer, Fails
<1>11. ASSUME NEW r \in Requests, InitDone(r) PROVE Terminate(s) \/ Stopped(s) \/ Kill(s)
    BY <1>11 DEF InitDone, TypeOK, Goto, Says, Answer, Fails
<1>12. ASSUME NEW r \in Requests, Truncate(r) PROVE Terminate(s) \/ Stopped(s) \/ Kill(s)
    BY <1>12 DEF Truncate, TypeOK, Goto, Says, Answer, Fails
<1>13. ASSUME NEW r \in Requests, Fill(r) PROVE Terminate(s) \/ Stopped(s) \/ Kill(s)
    BY <1>13 DEF Fill, TypeOK, Goto, Says, Answer, Fails
<1>14. ASSUME NEW r \in Requests, WriteArtifact(r) PROVE Terminate(s) \/ Stopped(s) \/ Kill(s)
    BY <1>14 DEF WriteArtifact, TypeOK, Goto, Says, Answer, Fails
<1>15. ASSUME NEW r \in Requests, WriteFails(r) PROVE Terminate(s) \/ Stopped(s) \/ Kill(s)
    BY <1>15 DEF WriteFails, TypeOK, Goto, Says, Answer, Fails
<1>16. ASSUME NEW r \in Requests, Report(r) PROVE Terminate(s) \/ Stopped(s) \/ Kill(s)
    BY <1>16 DEF Report, TypeOK, Goto, Says, Answer, Fails
<1>17. ASSUME NEW r \in Requests, ReportFails(r) PROVE Terminate(s) \/ Stopped(s) \/ Kill(s)
    BY <1>17 DEF ReportFails, TypeOK, Goto, Says, Answer, Fails
<1>18. ASSUME NEW r \in Requests, Validate(r) PROVE Terminate(s) \/ Stopped(s) \/ Kill(s)
    BY <1>18 DEF Validate, TypeOK, Goto, Says, Answer, Fails
<1>19. ASSUME NEW r \in Requests, ValidateFails(r) PROVE Terminate(s) \/ Stopped(s) \/ Kill(s)
    BY <1>19 DEF ValidateFails, TypeOK, Goto, Says, Answer, Fails
<1>20. ASSUME NEW r \in Requests, Look(r) PROVE Terminate(s) \/ Stopped(s) \/ Kill(s)
    BY <1>20 DEF Look, TypeOK, Goto, Says, Answer, Fails
<1>21. ASSUME NEW r \in Requests, Spawn(r) PROVE Terminate(s) \/ Stopped(s) \/ Kill(s)
    BY <1>21 DEF Spawn, TypeOK, Goto, Says, Answer, Fails
<1>22. ASSUME NEW r \in Requests, Slept(r) PROVE Terminate(s) \/ Stopped(s) \/ Kill(s)
    BY <1>22 DEF Slept, TypeOK, Goto, Says, Answer, Fails
<1>23. ASSUME NEW r \in Requests, Terminate(r) PROVE Terminate(s) \/ Stopped(s) \/ Kill(s)
    BY <1>23 DEF Terminate, TypeOK, Goto, Says, Answer, Fails
<1>24. ASSUME NEW r \in Requests, Stopped(r) PROVE Terminate(s) \/ Stopped(s) \/ Kill(s)
    BY <1>24 DEF Stopped, TypeOK, Goto, Says, Answer, Fails
<1>25. ASSUME NEW r \in Requests, Kill(r) PROVE Terminate(s) \/ Stopped(s) \/ Kill(s)
    BY <1>25 DEF Kill, TypeOK, Goto, Says, Answer, Fails
<1>26. ASSUME NEW r \in Requests, Compose(r) PROVE Terminate(s) \/ Stopped(s) \/ Kill(s)
    BY <1>26 DEF Compose, TypeOK, Goto, Says, Answer, Fails
<1>27. ASSUME NEW r \in Requests, ComposeFails(r) PROVE Terminate(s) \/ Stopped(s) \/ Kill(s)
    BY <1>27 DEF ComposeFails, TypeOK, Goto, Says, Answer, Fails
<1>28. ASSUME NEW r \in Requests, Bind(r) PROVE Terminate(s) \/ Stopped(s) \/ Kill(s)
    BY <1>28 DEF Bind, TypeOK
<1>29. ASSUME NEW r \in Requests, Exit(r) PROVE Terminate(s) \/ Stopped(s) \/ Kill(s)
    BY <1>29 DEF Exit, TypeOK
<1>30. ASSUME NEW r \in Requests, Die(r) PROVE Terminate(s) \/ Stopped(s) \/ Kill(s)
    BY <1>30 DEF Die, TypeOK
<1>31. CASE UserWrites
    BY <1>31 DEF UserWrites, TypeOK
<1>32. CASE Restart
    BY <1>32 DEF Restart, TypeOK
<1>33. CASE Wait
    BY <1>33 DEF Wait, vars
<1>34. CASE UNCHANGED vars
    BY <1>34 DEF vars
<1> QED
    BY <1>1, <1>2, <1>3, <1>4, <1>5, <1>6, <1>7, <1>8, <1>9, <1>10, <1>11, <1>12, <1>13,
       <1>14, <1>15, <1>16, <1>17, <1>18, <1>19, <1>20, <1>21, <1>22, <1>23, <1>24, <1>25,
       <1>26, <1>27, <1>28, <1>29, <1>30, <1>31, <1>32, <1>33, <1>34 DEF Next, Write, Service

\* A stop that answers has then ended every process.
THEOREM StopIsComplete == Spec => StopLeavesNothing
<1> DEFINE Ends(r) == /\ answer[r] # "stopped" /\ answer'[r] = "stopped"
                      /\ "service" \notin overlapped /\ ~restarted
<1>1. TypeOK /\ ServiceInv /\ [Next]_vars => \A r \in Requests : Ends(r) => Live' = {}
    <2> SUFFICES ASSUME TypeOK, ServiceInv, [Next]_vars, NEW r \in Requests, Ends(r)
                 PROVE  Live' = {}
        OBVIOUS
    <2>1. Live \subseteq {tracked}
        BY DEF ServiceInv
    <2>2. Terminate(r) \/ Stopped(r) \/ Kill(r)
        BY OnlyStops
    <2>3. CASE Terminate(r)
        <3>1. tracked \notin Live /\ process' = process
            BY <2>3 DEF Terminate, Goto
        <3> QED
            BY <2>1, <3>1 DEF Live
    <2>4. CASE Stopped(r)
        BY <2>1, <2>4 DEF Stopped, running, Live
    <2>5. CASE Kill(r)
        BY <2>1, <2>5 DEF Kill, Live, TypeOK
    <2> QED
        BY <2>2, <2>3, <2>4, <2>5
<1> QED
    BY <1>1, TypeCorrect, ServiceAlways, PTL DEF Spec, StopLeavesNothing

\* An unconfirmed write never replaces a configuration that was there when it
\* was asked for.
THEOREM OverwriteIsConfirmed == Spec => NoUnconfirmedOverwrite
<1>1. Init => ConfirmInv
    BY DEF Init, ConfirmInv
<1>2. TypeOK /\ ConfirmInv /\ [Next]_vars => ConfirmInv'
    BY ConfirmStep
<1>3. ConfirmInv =>
        \A r \in Requests :
            pc[r] = "truncate" /\ pc'[r] = "fill" =>
                \/ asked[r].confirm
                \/ config = Nothing
                \/ ~found[r]
    BY DEF ConfirmInv
<1> QED
    BY <1>1, <1>2, <1>3, TypeCorrect, PTL DEF Spec, NoUnconfirmedOverwrite

\* The token that a finished write left for the user to copy is the one the bridge
\* asks for, for any number of writes that come one at a time, fail and are ended by a restart.
THEOREM TokensAlwaysAgree == Spec => []TokensAgree
<1>1. Init => TokenInv
    BY DEF Init, TokenInv, Active, WriteLabels, WrittenBefore, Artifacts
<1>2. TypeOK /\ TokenInv /\ [Next]_vars => TokenInv'
    BY TokenStep
<1>3. TokenInv => TokensAgree
    BY DEF TokenInv, TokensAgree
<1> QED
    BY <1>1, <1>2, <1>3, TypeCorrect, PTL DEF Spec
=============================================================================
