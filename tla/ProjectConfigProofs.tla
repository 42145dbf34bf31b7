-------------------------- MODULE ProjectConfigProofs --------------------------
(***************************************************************************)
(* What an accepted configuration guarantees to the rest of the server, and *)
(* when the configuration that setup generates is an accepted one.         *)
(***************************************************************************)
EXTENDS ProjectConfig, TLAPS

\* An accepted configuration has one ops repository, the capture repository is
\* that one, and nothing else bears its id: config.ops_repo, repo_by_id and
\* _writable_capture_repo all name the same writable repository.
THEOREM OneWriter ==
    ASSUME NEW c, NEW fs, Accepted(c, fs)
    PROVE  \E i \in DOMAIN c.repos :
              /\ c.repos[i].role = "ops" /\ c.repos[i].writable
              /\ \A j \in DOMAIN c.repos :
                    c.repos[j].role = "ops" \/ c.repos[j].id = c.captureRepo => j = i
<1>1. PICK i \in DOMAIN c.repos :
          c.repos[i].id = c.captureRepo /\ c.repos[i].role = "ops" /\ c.repos[i].writable
    BY DEF Accepted, CaptureAccepted
<1>2. PICK k \in DOMAIN c.repos : OpsRepos(c) = {k}
    BY DEF Accepted
<1>3. \A j \in DOMAIN c.repos : c.repos[j].role = "ops" => j = i
    BY <1>1, <1>2 DEF OpsRepos
<1>4. \A j \in DOMAIN c.repos : c.repos[j].id = c.captureRepo => j = i
    BY <1>1 DEF Accepted, Loads
<1> QED
    BY <1>1, <1>3, <1>4

\* A managed clone is never inside a repository of the user's, nor around one:
\* the synchronization's reset and prune cannot reach local work.
THEOREM ClonesAreApart ==
    ASSUME NEW c, NEW fs, Accepted(c, fs),
           NEW i \in DOMAIN c.repos, NEW j \in DOMAIN c.repos,
           Remote(c.repos[i]), ~Remote(c.repos[j])
    PROVE  /\ ~Under(PathOf(c, c.repos[i]), PathOf(c, c.repos[j]))
           /\ ~Under(PathOf(c, c.repos[j]), PathOf(c, c.repos[i]))
BY DEF Accepted, Loads

\* The globs that setup writes stay inside the repository.
LEMMA LocalGlobsStayInside == \A g \in LocalGlobs : ~Escapes(g)
BY DEF LocalGlobs, Escapes, PartsOf

\* Setup generates a configuration that validation accepts, whatever folders are
\* chosen and however many, provided they are Git worktrees, the ops folder can be
\* written and the project's name is a safe id (build_project_config).
THEOREM GeneratedIsAccepted ==
    ASSUME NEW Name, NEW root \in Seq(Name), NEW ops \in Seq(Name), NEW work \in Seq(Seq(Name)),
           ".project-knowledge" \in Name,
           NEW fs,
           \A p \in {ops} \cup PartsOf(work) : p \in fs.exists /\ p \in fs.git,
           ops \in fs.writable
    PROVE  Accepted(Generated(root, ops, work, TRUE), fs)
<1> DEFINE c == Generated(root, ops, work, TRUE)
           n == Len(work) + 1
<1>1. WritePolicyAccepted(c) /\ RetrievalAccepted(c) /\ IndexingAccepted(c)
    <2>1. ~Escapes(<<"docs", "notes">>)
        BY DEF Escapes, PartsOf
    <2>2. c.writePaths = {<<"docs", "notes">>} /\ c.branchSafe /\ c.remoteSafe
        BY SMT DEF Generated
    <2>3. WritePolicyAccepted(c)
        BY <2>1, <2>2 DEF WritePolicyAccepted
    <2>4. RetrievalAccepted(c)
        BY SMT DEF RetrievalAccepted, Generated
    <2>5. IndexingAccepted(c)
        <3>1. /\ c.parsers = "local_parser_registry" /\ c.maxFileBytes = 1000000
              /\ c.chunkTarget = 1800 /\ c.chunkOverlap = 200
            BY SMT DEF Generated
        <3> HIDE DEF c
        <3>2. 1 <= 1000000 /\ 1000000 <= 100000000
            BY SMT
        <3> QED
            BY <3>1, <3>2, SMT DEF IndexingAccepted
    <2> QED
        BY <2>3, <2>4, <2>5
<1>2. /\ c.root = root /\ c.stateDir = root \o <<".project-knowledge">>
      /\ c.captureRepo = <<"ops", 0>> /\ c.interval > 0
      /\ c.schemaVersion = 1 /\ c.projectIdSafe
    BY SMT DEF Generated
<1>3. /\ DOMAIN c.repos = 1..n /\ n \in Nat \ {0}
      /\ c.repos[1] = LocalRepo(<<"ops", 0>>, "ops", ops, TRUE)
      /\ \A i \in 2..n :
            c.repos[i] = LocalRepo(WorkId(i - 1, Len(work)), "work", work[i - 1], FALSE)
    <2>1. c.repos = [i \in 1..n |->
                       IF i = 1 THEN LocalRepo(<<"ops", 0>>, "ops", ops, TRUE)
                       ELSE LocalRepo(WorkId(i - 1, Len(work)), "work", work[i - 1], FALSE)]
        BY SMT DEF Generated
    <2>2. n \in Nat \ {0} /\ 1 \in 1..n /\ \A i \in 2..n : i \in 1..n /\ i # 1
        OBVIOUS
    <2> HIDE DEF c
    <2> QED
        BY <2>1, <2>2
<1> HIDE DEF c
<1>4. /\ c.repos[1].id = <<"ops", 0>> /\ c.repos[1].role = "ops" /\ c.repos[1].writable
      /\ c.repos[1].path = ops
    BY <1>3 DEF LocalRepo
<1>5. \A i \in 2..n :
        /\ c.repos[i].id = WorkId(i - 1, Len(work)) /\ c.repos[i].role = "work"
        /\ c.repos[i].writable = FALSE /\ c.repos[i].path = work[i - 1]
    <2> SUFFICES ASSUME NEW i \in 2..n
                 PROVE  /\ c.repos[i].id = WorkId(i - 1, Len(work)) /\ c.repos[i].role = "work"
                        /\ c.repos[i].writable = FALSE /\ c.repos[i].path = work[i - 1]
        OBVIOUS
    <2>1. c.repos[i] = LocalRepo(WorkId(i - 1, Len(work)), "work", work[i - 1], FALSE)
        BY <1>3
    <2> QED
        BY <2>1 DEF LocalRepo
<1>6. \A i \in DOMAIN c.repos :
        c.repos[i].source = "workspace" /\ c.repos[i].globs = LocalGlobs
    <2> SUFFICES ASSUME NEW i \in DOMAIN c.repos
                 PROVE  c.repos[i].source = "workspace" /\ c.repos[i].globs = LocalGlobs
        OBVIOUS
    <2>1. i = 1 \/ i \in 2..n
        BY <1>3
    <2>2. CASE i = 1
        BY <1>3, <2>2 DEF LocalRepo
    <2>3. CASE i \in 2..n
        <3>1. c.repos[i] = LocalRepo(WorkId(i - 1, Len(work)), "work", work[i - 1], FALSE)
            BY <1>3, <2>3
        <3> QED
            BY <3>1 DEF LocalRepo
    <2> QED
        BY <2>1, <2>2, <2>3
<1>7. \A i \in DOMAIN c.repos : ~Remote(c.repos[i]) /\ PathOf(c, c.repos[i]) = c.repos[i].path
    BY <1>6 DEF Remote, PathOf
<1>8. \A i, j \in DOMAIN c.repos : i # j => c.repos[i].id # c.repos[j].id
    <2>1. \A i \in 2..n : WorkId(i - 1, Len(work)) # <<"ops", 0>>
        BY DEF WorkId
    <2>2. \A i, j \in 2..n : i # j => WorkId(i - 1, Len(work)) # WorkId(j - 1, Len(work))
        BY <1>3 DEF WorkId
    <2>3. \A i \in DOMAIN c.repos : i = 1 \/ i \in 2..n
        BY <1>3
    <2>4. \A i \in 2..n : c.repos[i].id # c.repos[1].id
        <3> SUFFICES ASSUME NEW i \in 2..n, c.repos[i].id = c.repos[1].id PROVE FALSE
            OBVIOUS
        <3>1. c.repos[i].id = WorkId(i - 1, Len(work)) /\ c.repos[1].id = <<"ops", 0>>
            BY <1>4, <1>5
        <3> QED
            BY <2>1, <3>1, Zenon
    <2>5. \A i, j \in 2..n : i # j => c.repos[i].id # c.repos[j].id
        <3> SUFFICES ASSUME NEW i \in 2..n, NEW j \in 2..n, i # j
                     PROVE  c.repos[i].id # c.repos[j].id
            OBVIOUS
        <3>1. /\ c.repos[i].id = WorkId(i - 1, Len(work))
              /\ c.repos[j].id = WorkId(j - 1, Len(work))
            BY <1>5
        <3>2. WorkId(i - 1, Len(work)) # WorkId(j - 1, Len(work))
            BY <2>2
        <3> QED
            BY <3>1, <3>2, Zenon
    <2> QED
        BY <2>3, <2>4, <2>5
<1>9. Loads(c)
    BY <1>2, <1>7, <1>8 DEF Loads
<1>10. \E i \in DOMAIN c.repos : OpsRepos(c) = {i}
    <2>1. 1 \in DOMAIN c.repos /\ \A i \in DOMAIN c.repos : i = 1 \/ i \in 2..n
        BY <1>3
    <2>2. \A i \in 2..n : c.repos[i].role # "ops"
        BY <1>5
    <2>3. OpsRepos(c) = {1}
        BY <1>4, <2>1, <2>2 DEF OpsRepos
    <2> QED
        BY <2>1, <2>3
<1>11. \A i \in DOMAIN c.repos : RepoAccepted(c, c.repos[i], fs)
    <2> SUFFICES ASSUME NEW i \in DOMAIN c.repos PROVE RepoAccepted(c, c.repos[i], fs)
        OBVIOUS
    <2>1. Usable(c, c.repos[i], fs)
        <3>1. CASE i = 1
            BY <1>4, <1>7, <3>1 DEF Usable
        <3>2. CASE i # 1
            <4>1. i \in 2..n /\ i - 1 \in DOMAIN work
                BY <1>3, <3>2
            <4>2. c.repos[i].path \in PartsOf(work) /\ ~c.repos[i].writable
                BY <1>5, <4>1 DEF PartsOf
            <4> QED
                BY <1>7, <4>2 DEF Usable
        <3> QED
            BY <3>1, <3>2
    <2> QED
        BY <1>6, <2>1, LocalGlobsStayInside DEF RepoAccepted
<1>12. CaptureAccepted(c)
    <2>1. 1 \in DOMAIN c.repos
        BY <1>3
    <2>2. \A i \in DOMAIN c.repos : c.repos[i].id = c.captureRepo => i = 1
        BY <1>2, <1>4, <1>8, <2>1
    <2>3. \E i \in DOMAIN c.repos :
            c.repos[i].id = c.captureRepo /\ c.repos[i].role = "ops" /\ c.repos[i].writable
        BY <1>2, <1>4, <2>1
    <2> QED
        BY <1>4, <2>2, <2>3 DEF CaptureAccepted
<1>13. Under(c.stateDir, c.root)
    <2>1. /\ Len(root \o <<".project-knowledge">>) = Len(root) + 1
          /\ SubSeq(root \o <<".project-knowledge">>, 1, Len(root)) = root
        OBVIOUS
    <2> QED
        BY <1>2, <2>1 DEF Under
<1>14. c.repos # <<>>
    BY <1>3
<1> QED
    BY <1>1, <1>2, <1>9, <1>10, <1>11, <1>12, <1>13, <1>14 DEF Accepted, c
=============================================================================
