----------------------------- MODULE ProjectConfig -----------------------------
(***************************************************************************)
(* The configuration file project.yaml: what load_project_config and       *)
(* validate_project_config accept (config.py), and the configuration that  *)
(* guided setup generates (setup.build_project_config).                    *)
(*                                                                         *)
(* A path is a sequence of names below the file system's root, a glob the  *)
(* sequence of its parts ("/" first when it is absolute).  The forms of    *)
(* names (project id, branch, remote) are reduced to "safe" or not.        *)
(***************************************************************************)
EXTENDS Integers, Sequences

PartsOf(s) == {s[i] : i \in DOMAIN s}

\* _is_relative_to, Path.is_relative_to
Under(p, q) == Len(q) <= Len(p) /\ SubSeq(p, 1, Len(q)) = q

\* _is_absolute_or_parent_glob
Escapes(glob) == {"/", ".."} \cap PartsOf(glob) # {}

Remote(repo) == repo.source = "remote"

\* A managed repository lives where the server puts it, whatever its path says.
PathOf(c, repo) ==
    IF Remote(repo) THEN c.stateDir \o <<"repositories", repo.id>> ELSE repo.path

\* load_project_config: a repository may not lack what its source needs, and the
\* resolved paths must not collide; otherwise the file does not load.
Loads(c) ==
    /\ \A i \in DOMAIN c.repos : Remote(c.repos[i]) => c.repos[i].named /\ c.repos[i].fetchable
    /\ \A i, j \in DOMAIN c.repos : i # j => c.repos[i].id # c.repos[j].id
    /\ \A i, j \in DOMAIN c.repos :
          Remote(c.repos[i]) /\ ~Remote(c.repos[j]) =>
              /\ ~Under(PathOf(c, c.repos[i]), PathOf(c, c.repos[j]))
              /\ ~Under(PathOf(c, c.repos[j]), PathOf(c, c.repos[i]))
    /\ c.interval > 0

\* What the file system says: the paths that exist, those that are Git
\* worktrees, those the process may write.
Usable(c, repo, fs) ==
    LET path == PathOf(c, repo) IN
    /\ path \in fs.exists \/ Remote(repo)
    /\ path \in fs.exists => path \in fs.git
    /\ repo.writable /\ path \in fs.exists => path \in fs.writable

RepoAccepted(c, repo, fs) ==
    /\ Usable(c, repo, fs)
    /\ \A g \in repo.globs : ~Escapes(g)
    /\ repo.source = "snapshot" => repo.pinned

OpsRepos(c) == {i \in DOMAIN c.repos : c.repos[i].role = "ops"}

\* The capture repository, by its id, must be the ops repository and writable.
CaptureAccepted(c) ==
    /\ \E i \in DOMAIN c.repos :
          c.repos[i].id = c.captureRepo /\ c.repos[i].role = "ops" /\ c.repos[i].writable
    /\ \A i \in DOMAIN c.repos :
          c.repos[i].id = c.captureRepo => c.repos[i].role = "ops" /\ c.repos[i].writable

WritePolicyAccepted(c) ==
    /\ \A p \in c.writePaths : ~Escapes(p)
    /\ c.branchSafe /\ c.remoteSafe

RetrievalAccepted(c) ==
    /\ c.searches = "sqlite_fts5"
    /\ c.defaultLimit \in 1..1000 /\ c.briefLimit \in 1..1000
    /\ ~c.llm /\ ~c.embeddings /\ ~c.cloudParsers
    /\ ~c.vectorResolve /\ ~c.embeddingModel

IndexingAccepted(c) ==
    /\ c.parsers = "local_parser_registry"
    /\ 1 <= c.maxFileBytes /\ c.maxFileBytes <= 100000000
    /\ c.chunkTarget >= 1 /\ c.chunkOverlap >= 0 /\ c.chunkOverlap < c.chunkTarget

\* validate_project_config
Accepted(c, fs) ==
    /\ Loads(c)
    /\ c.schemaVersion = 1 /\ c.projectIdSafe
    /\ c.repos # <<>>
    /\ \E i \in DOMAIN c.repos : OpsRepos(c) = {i}
    /\ \A i \in DOMAIN c.repos : RepoAccepted(c, c.repos[i], fs)
    /\ CaptureAccepted(c)
    /\ WritePolicyAccepted(c)
    /\ Under(c.stateDir, c.root)
    /\ RetrievalAccepted(c)
    /\ IndexingAccepted(c)

----------------------------------------------------------------------------
(* What setup generates.                                                   *)

\* _repo_config: everything is included, tool and build directories are not.
LocalGlobs == {<<"**", "*">>, <<".git", "**">>, <<".project-knowledge", "**">>, <<"*.pyc">>}

LocalRepo(id, role, path, writable) ==
    [id |-> id, role |-> role, path |-> path, writable |-> writable, source |-> "workspace",
     named |-> TRUE, fetchable |-> FALSE, pinned |-> FALSE, globs |-> LocalGlobs]

WorkId(i, n) == IF n = 1 THEN <<"work", 0>> ELSE <<"work", i>>

\* build_project_config; the fields it does not write have the defaults of the
\* models that load the file.
Generated(root, ops, work, idSafe) ==
    [schemaVersion |-> 1, projectIdSafe |-> idSafe,
     root |-> root, stateDir |-> root \o <<".project-knowledge">>,
     repos |-> [i \in 1..(Len(work) + 1) |->
                   IF i = 1 THEN LocalRepo(<<"ops", 0>>, "ops", ops, TRUE)
                   ELSE LocalRepo(WorkId(i - 1, Len(work)), "work", work[i - 1], FALSE)],
     searches |-> "sqlite_fts5", defaultLimit |-> 10, briefLimit |-> 8,
     llm |-> FALSE, embeddings |-> FALSE, cloudParsers |-> FALSE,
     vectorResolve |-> FALSE, embeddingModel |-> FALSE,
     captureRepo |-> <<"ops", 0>>, writePaths |-> {<<"docs", "notes">>},
     branchSafe |-> TRUE, remoteSafe |-> TRUE,
     parsers |-> "local_parser_registry", maxFileBytes |-> 1000000,
     chunkTarget |-> 1800, chunkOverlap |-> 200, interval |-> 60]
=============================================================================
