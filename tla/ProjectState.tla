----------------------------- MODULE ProjectState -----------------------------
(***************************************************************************)
(* get_project_state and generate_session_brief (services): one packet of  *)
(* sections, each filled by searches of the index that run one after the   *)
(* other behind a staleness check made first, which asks git for the HEAD  *)
(* of a repository and, later, for its status.  Meanwhile the user edits   *)
(* and commits documents and another process indexes the repositories: it  *)
(* reads the files and stores them later.  A validation of the             *)
(* configuration, a git call, a read of the database or CodeGraph may fail *)
(* at any step.                                                            *)
(*                                                                         *)
(* One ops and one work repository, both workspaces that are indexed with  *)
(* uncommitted changes; for remote ones every tool call is guarded         *)
(* (CanonicalSync).  A commit is known by what it contains.  All documents *)
(* match the topic, and no section is longer than its limit or the         *)
(* candidates a search ranks.                                              *)
(***************************************************************************)
EXTENDS Documents, Sequences

CONSTANTS
    Docs,           \* documents that match the topic
    RoleOf, PlaceOf,    \* the repository and the place of each
    SaysOf,         \* the frontmatter each may have
    Absent,         \* no such file
    Requests,       \* [view, superseded, since] that clients ask for
    Fallback,       \* fallback_on_unhealthy
    MaxEdits,       \* bound on the user's edits
    MaxCommits,     \* bound on the user's commits
    MaxIndexings,   \* bound on the other process's runs
    MaxFaults       \* bound on failures

Files == {f \in [Docs -> (UNION {SaysOf[d] : d \in Docs}) \cup {Absent}] :
            \A d \in Docs : f[d] \in SaysOf[d] \cup {Absent}}

ASSUME ProjectStateAssumption ==
    /\ RoleOf \in [Docs -> Roles] /\ PlaceOf \in [Docs -> Places]
    /\ SaysOf \in [Docs -> SUBSET Frontmatter]
    /\ Absent \notin Frontmatter \cup Files
    /\ Requests # {}
    /\ Requests \subseteq [view : {"doctrine", "doctrine_and_discussion"},
                           superseded : BOOLEAN, since : BOOLEAN]
    /\ Fallback \in BOOLEAN
    /\ MaxEdits \in Nat /\ MaxCommits \in Nat /\ MaxIndexings \in Nat /\ MaxFaults \in Nat

VARIABLES
    source,         \* the files
    committed,      \* the files as HEAD has them
    rows,           \* the documents of the index
    stamp,          \* the commit the index was made at
    built,          \* whether there is an index
    reading,        \* what a run of the other process has read, if one is on
    changed,        \* documents with commits of late
    pc, request,    \* the call
    limitKnown,     \* _brief_result_limit could read the configuration
    check, repo,    \* the staleness check that is on, and the repository it is at
    recorded,       \* the index's metadata, as that check read it
    asked,          \* the HEAD of that repository, as it read it
    stale,          \* the roles whose repositories were found stale
    moved,          \* those whose HEAD moved between its two reads of git, history
    unsure,         \* the staleness check failed or warned of a failure
    todo,           \* searches to come
    hits,           \* what CodeGraph has found
    found, failed, warned,      \* results, errors and warnings by section
    quiet,          \* searches that the files had nothing for since the start, history
    stored,         \* the other process has stored a run since, history
    packet,         \* the last answer
    edits, commits, indexings, faults

world == <<source, committed, rows, stamp, built, reading, changed>>
checking == <<check, repo, recorded, asked>>
checked == <<stale, moved, unsure>>
results == <<found, failed, warned>>
call == <<request, limitKnown, checking, checked, todo, hits, results>>
history == <<quiet, stored>>
counts == <<edits, commits, indexings, faults>>
vars == <<world, pc, call, history, packet, counts>>

Search == [section : Sections, type : Types \cup {"capture", "any"}]
Nothing == [d \in Docs |-> Absent]
Snapshots == [commit : Files, files : Files]
DocsOf(role) == {d \in Docs : RoleOf[d] = role}

MetaIn(f, d) == Normalize(f[d], RoleOf[d], PlaceOf[d])
In(f, role) == {d \in Docs : RoleOf[d] = role /\ f[d] # Absent}

\* What a search of an index of files f finds.
Hits(q, f) ==
    IF q.section = "implementation_evidence"
    THEN {d \in In(f, "work") : MetaIn(f, d).type \in CodeTypes /\ Standing(MetaIn(f, d))}
    ELSE {d \in In(f, "ops") : Finds(q.section, q.type, MetaIn(f, d))}

OneSearch(s) == [section |-> s, type |-> CHOOSE t \in TypesOf(s) : TRUE]
SearchesFor(s, types) == [i \in 1..Len(types) |-> [section |-> s, type |-> types[i]]]

\* The searches of a packet, in order.
Plan(r) ==
    <<OneSearch("doctrine"), OneSearch("accepted_decisions"), OneSearch("implementation_evidence")>>
    \o (IF r.view = "doctrine" THEN <<>>
        ELSE <<OneSearch("open_questions")>>
             \o SearchesFor("proposals_and_drafts", ProposalTypes)
             \o SearchesFor("discussions_and_captures", DiscussionTypes))
    \o (IF r.superseded THEN <<OneSearch("superseded_and_rejected")>> ELSE <<>>)
    \o (IF r.since THEN <<OneSearch("recent_changes")>> ELSE <<>>)

AllSearches == {OneSearch(s) : s \in Sections}
    \cup {SearchesFor("proposals_and_drafts", ProposalTypes)[i] : i \in 1..6}
    \cup {SearchesFor("discussions_and_captures", DiscussionTypes)[i] : i \in 1..4}

Runs(r, s) == LET plan == Plan(r) IN \E i \in 1..Len(plan) : plan[i].section = s
SearchesOf(s) == {q \in AllSearches : q.section = s}

\* git status and worktree_fingerprint: the files that are not as committed.
Status(files, commit, role) ==
    {<<d, files[d]>> : d \in {e \in DocsOf(role) : files[e] # commit[e]}}

\* _repo_staleness_status, _repo_current_matches_index: what was recorded is the HEAD
\* that was read, if it could be, and has the status of now.
Matches ==
    /\ recorded # Absent
    /\ asked # Absent => \A d \in DocsOf(repo) : recorded.commit[d] = asked[d]
    /\ Status(recorded.files, recorded.commit, repo) = Status(source, committed, repo)

HeadMoved == asked # Absent /\ \E d \in DocsOf(repo) : asked[d] # committed[d]

\* The searches that find nothing in files f, given what changed of late.
IsQuiet(q, f, c) == IF q.section = "recent_changes" THEN c = {} ELSE Hits(q, f) = {}
QuietIn(f, c) == {q \in AllSearches : IsQuiet(q, f, c)}

NoPacket == [request |-> CHOOSE r \in Requests : TRUE, state |-> "none",
             section |-> [s \in Sections |-> [retrieval |-> "not_run", match |-> "indeterminate",
                                              freshness |-> "unknown", results |-> {},
                                              warned |-> FALSE]],
             warned |-> FALSE, moved |-> {}, quiet |-> {}, stored |-> FALSE]

Locations == {"idle", "limit", "metadata", "head", "status", "search", "scan", "answer"}

SectionStates ==
    [retrieval : {"not_run", "unavailable", "partial", "complete"},
     match : {"indeterminate", "with_results", "no_match"},
     freshness : {"unknown", "stale", "current"}, results : SUBSET Docs, warned : BOOLEAN]

TypeOK ==
    /\ source \in Files /\ committed \in Files
    /\ rows \in Files /\ stamp \in Files /\ built \in BOOLEAN
    /\ reading \in Snapshots \cup {Absent}
    /\ changed \subseteq Docs
    /\ pc \in Locations /\ request \in Requests /\ limitKnown \in BOOLEAN
    /\ check \in {"packet", "fulltext", "text"} /\ repo \in Roles
    /\ recorded \in Snapshots \cup {Absent} /\ asked \in Files \cup {Absent}
    /\ stale \subseteq Roles /\ moved \subseteq Roles /\ unsure \in BOOLEAN
    /\ todo \in Seq(Search)
    /\ hits \subseteq Docs
    /\ found \in [Sections -> SUBSET Docs]
    /\ failed \subseteq Sections /\ warned \subseteq Sections
    /\ quiet \subseteq AllSearches /\ stored \in BOOLEAN
    /\ packet.request \in Requests
    /\ packet.state \in {"none", "raised", "complete", "partial", "unavailable"}
    /\ packet.section \in [Sections -> SectionStates]
    /\ edits \in Nat /\ commits \in Nat /\ indexings \in Nat /\ faults \in Nat

Init ==
    /\ source \in Files /\ committed = source
    /\ built \in BOOLEAN /\ rows = (IF built THEN source ELSE Nothing) /\ stamp = rows
    /\ reading = Absent
    /\ changed = {}
    /\ pc = "idle" /\ request = NoPacket.request /\ limitKnown = TRUE
    /\ check = "packet" /\ repo = "ops" /\ recorded = Absent /\ asked = Absent
    /\ stale = {} /\ moved = {} /\ unsure = FALSE
    /\ todo = <<>> /\ hits = {}
    /\ found = [s \in Sections |-> {}] /\ failed = {} /\ warned = {}
    /\ quiet = {} /\ stored = FALSE
    /\ packet = NoPacket
    /\ edits = 0 /\ commits = 0 /\ indexings = 0 /\ faults = 0

Fault == faults < MaxFaults /\ faults' = faults + 1
FailsIf(cause) == (cause /\ UNCHANGED faults) \/ Fault

(***************************************************************************)
(* The user, the other process                                             *)
(***************************************************************************)
Edit(d, says) ==
    /\ edits < MaxEdits
    /\ says # source[d]
    /\ edits' = edits + 1
    /\ source' = [source EXCEPT ![d] = says]
    /\ quiet' = IF pc = "idle" THEN quiet ELSE quiet \cup QuietIn(source', changed)
    /\ UNCHANGED <<committed, rows, stamp, built, reading, changed, pc, call, stored,
                   packet, commits, indexings, faults>>

Commit(d) ==
    /\ commits < MaxCommits
    /\ committed[d] # source[d]
    /\ commits' = commits + 1
    /\ committed' = [committed EXCEPT ![d] = source[d]]
    /\ changed' = changed \cup {d}
    /\ UNCHANGED <<source, rows, stamp, built, reading, pc, call, history, packet,
                   edits, indexings, faults>>

ReadWithoutHead ==
    /\ indexings < MaxIndexings
    /\ reading = Absent
    /\ indexings' = indexings + 1
    /\ reading' = source
    /\ UNCHANGED <<source, committed, rows, stamp, built, changed, pc, call, history,
                   packet, edits, commits, faults>>

Read ==
    /\ indexings < MaxIndexings
    /\ reading = Absent
    /\ indexings' = indexings + 1
    /\ reading' = [commit |-> committed, files |-> source]
    /\ UNCHANGED <<source, committed, rows, stamp, built, changed, pc, call, history,
                   packet, edits, commits, faults>>

Store ==
    /\ reading # Absent
    /\ rows' = reading.files /\ stamp' = reading.commit /\ built' = TRUE
    /\ reading' = Absent
    /\ stored' = (stored \/ pc # "idle")
    /\ UNCHANGED <<source, committed, changed, pc, call, quiet, packet, counts>>

(***************************************************************************)
(* _brief_result_limit and check_project_staleness_from_config             *)
(***************************************************************************)
Request(r) ==
    /\ pc = "idle"
    /\ pc' = "limit"
    /\ request' = r
    /\ packet' = NoPacket
    /\ quiet' = QuietIn(source, changed)
                \cup (IF reading = Absent THEN {} ELSE QuietIn(reading.files, changed))
    /\ stored' = FALSE
    /\ UNCHANGED <<world, limitKnown, checking, checked, todo, hits, results, counts>>

\* An invalid configuration leaves the limit unknown.
Limit ==
    /\ pc = "limit"
    /\ \/ limitKnown' = TRUE /\ UNCHANGED faults
       \/ limitKnown' = FALSE /\ Fault
    /\ pc' = "metadata"
    /\ UNCHANGED <<world, request, checking, checked, todo, hits, results, history, packet,
                   edits, commits, indexings>>

\* _load_indexed_repo_metadata of all repositories, repo_metadata of one.
ReadMetadata ==
    /\ pc = "metadata"
    /\ \/ /\ recorded' = IF built THEN [commit |-> stamp, files |-> rows] ELSE Absent
          /\ UNCHANGED faults
       \/ check = "packet" /\ recorded' = Absent /\ Fault
    /\ pc' = "head"
    /\ UNCHANGED <<world, request, limitKnown, check, repo, asked, checked, todo, hits, results,
                   history, packet, edits, commits, indexings>>

\* git rev-parse HEAD
ReadHead ==
    /\ pc = "head"
    /\ asked' = committed
    /\ pc' = "status"
    /\ UNCHANGED <<world, request, limitKnown, check, repo, recorded, checked, todo, hits,
                   results, history, packet, counts>>

\* A commit that cannot be read is not compared.
MissHead ==
    /\ pc = "head" /\ check = "packet"
    /\ Fault
    /\ asked' = Absent /\ unsure' = TRUE
    /\ pc' = "status"
    /\ UNCHANGED <<world, request, limitKnown, check, repo, recorded, stale, moved, todo, hits,
                   results, history, packet, edits, commits, indexings>>

\* The ops repository is checked, the work repository comes next.
OtherRepo(l) ==
    /\ repo = "ops" /\ repo' = "work"
    /\ asked' = Absent
    /\ pc' = l
    /\ UNCHANGED <<check, recorded, todo>>

EndCheck == check' = "packet" /\ repo' = "ops" /\ recorded' = Absent /\ asked' = Absent

Searching == EndCheck /\ pc' = "search" /\ todo' = Plan(request)

CompareStep ==
    /\ \/ OtherRepo("head")
       \/ repo = "work" /\ Searching
    /\ UNCHANGED <<world, request, limitKnown, hits, results, history, packet,
                   edits, commits, indexings>>

CompareIndexed ==
    /\ pc = "status" /\ check = "packet"
    /\ stale' = IF recorded = Absent \/ Matches THEN stale ELSE stale \cup {repo}
    /\ moved' = IF HeadMoved THEN moved \cup {repo} ELSE moved
    /\ CompareStep
    /\ UNCHANGED <<unsure, faults>>

\* _repo_staleness_status, from git status on
Compare ==
    /\ pc = "status" /\ check = "packet"
    /\ stale' = IF Matches THEN stale ELSE stale \cup {repo}
    /\ moved' = IF HeadMoved THEN moved \cup {repo} ELSE moved
    /\ CompareStep
    /\ UNCHANGED <<unsure, faults>>

\* A status that fails counts as stale.
StatusFails ==
    /\ pc = "status" /\ check = "packet"
    /\ Fault
    /\ stale' = stale \cup {repo} /\ unsure' = TRUE
    /\ CompareStep
    /\ UNCHANGED moved

\* An invalid configuration ends the check with no repository at all.
CheckFails ==
    /\ pc = "metadata" /\ check = "packet"
    /\ Fault
    /\ unsure' = TRUE
    /\ Searching
    /\ UNCHANGED <<world, request, limitKnown, stale, moved, hits, results, history, packet,
                   edits, commits, indexings>>

(***************************************************************************)
(* search_ops_from_config                                                  *)
(***************************************************************************)
NextSearch ==
    /\ todo' = Tail(todo)
    /\ pc' = IF Len(todo) = 1 THEN "answer" ELSE "search"
    /\ EndCheck

Result(s, r) ==
    /\ found' = [found EXCEPT ![s] = @ \cup r]
    /\ NextSearch
    /\ UNCHANGED <<world, request, limitKnown, checked, hits, failed, history, packet,
                   edits, commits, indexings>>

Error(s) ==
    /\ failed' = failed \cup {s}
    /\ NextSearch
    /\ UNCHANGED <<world, request, limitKnown, checked, hits, found, warned, history, packet,
                   edits, commits, indexings>>

InOps == pc = "search" /\ Head(todo).section \in DocumentSections

\* The call is over and forgotten.
Done ==
    /\ pc' = "idle" /\ request' = NoPacket.request /\ limitKnown' = TRUE
    /\ EndCheck /\ stale' = {} /\ moved' = {} /\ unsure' = FALSE
    /\ todo' = <<>> /\ hits' = {}
    /\ found' = [s \in Sections |-> {}] /\ failed' = {} /\ warned' = {}
    /\ quiet' = {} /\ stored' = FALSE

\* Merging the results of several types needs the limit.
CannotMerge(s, r) ==
    ~limitKnown /\ r # {} /\ s \in {"proposals_and_drafts", "discussions_and_captures"}

SearchOps ==
    /\ InOps
    /\ LET s == Head(todo).section
           r == Hits(Head(todo), rows)
       IN  /\ built
           /\ ~CannotMerge(s, r)
           /\ Result(s, r)
    /\ UNCHANGED <<warned, faults>>

\* The configuration is invalid, or the index cannot be read.
SearchOpsFails ==
    /\ InOps
    /\ FailsIf(~built)
    /\ Error(Head(todo).section)

Raises ==
    /\ InOps
    /\ CannotMerge(Head(todo).section, Hits(Head(todo), rows))
    /\ packet' = [NoPacket EXCEPT !.request = request, !.state = "raised"]
    /\ Done
    /\ UNCHANGED <<world, counts>>

(***************************************************************************)
(* search_code_from_config without a repo_id                               *)
(***************************************************************************)
InCode == pc = "search" /\ Head(todo).section = "implementation_evidence"

\* The index is compared with git once more, repository by repository, before it
\* is searched.
CheckFor(c, role) ==
    /\ check' = c /\ repo' = role
    /\ pc' = "metadata"
    /\ UNCHANGED <<world, request, limitKnown, recorded, asked, checked, todo, results, history,
                   packet, counts>>

\* CodeGraph is healthy: codegraph explore names code, which is then read from the
\* checkout; with the full text of the work repository goes that of the ops repository.
SearchGraph ==
    /\ InCode
    /\ hits' \in (SUBSET Hits(Head(todo), source)) \ {{}}
    /\ CheckFor("fulltext", "ops")

\* It is not healthy, fails, or names nothing that is recognized.
GoToText ==
    /\ InCode
    /\ Fallback
    /\ hits' = {}
    /\ CheckFor("text", "work")

SearchCodeFails ==
    /\ InCode
    /\ FailsIf(~Fallback)
    /\ Error(Head(todo).section)

\* _ensure_repos_match_index
RepoMatches ==
    /\ pc = "status" /\ check # "packet"
    /\ Matches
    /\ \/ OtherRepo("metadata")
       \/ /\ repo = "work" /\ pc' = "scan"
          /\ recorded' = Absent /\ asked' = Absent
          /\ UNCHANGED <<check, repo, todo>>
    /\ UNCHANGED <<world, request, limitKnown, checked, hits, results, history, packet, counts>>

CodeCheck(c) == check = c /\ pc \in {"metadata", "head", "status", "scan"}
Mismatch == pc = "status" /\ ~Matches

\* _search_code_fts_results: documents of every type.
AddFullText ==
    /\ pc = "scan" /\ check = "fulltext"
    /\ LET all == In(rows, "work") \cup In(rows, "ops")
           standing == {d \in all : Standing(MetaIn(rows, d))}
       IN  Result("implementation_evidence", hits \cup standing)
    /\ UNCHANGED <<warned, faults>>

WithoutFullText ==
    /\ CodeCheck("fulltext")
    /\ FailsIf(Mismatch)
    /\ Result("implementation_evidence", hits)
    /\ warned' = warned \cup {"implementation_evidence"}

\* TextFallbackCodeContextProvider.search_code
ScanText ==
    /\ pc = "scan" /\ check = "text"
    /\ Result("implementation_evidence", Hits(Head(todo), rows))
    /\ UNCHANGED <<warned, faults>>

ScanTextFails ==
    /\ CodeCheck("text")
    /\ FailsIf(Mismatch)
    /\ Error("implementation_evidence")

(***************************************************************************)
(* _recent_indexed_changes_from_config                                     *)
(***************************************************************************)
InRecent == pc = "search" /\ Head(todo).section = "recent_changes"

RecentChanges ==
    /\ InRecent
    /\ Result("recent_changes", changed)
    /\ UNCHANGED <<warned, faults>>

\* git log fails in some repositories, or the configuration is invalid in all.
RecentChangesFail ==
    /\ InRecent
    /\ Fault
    /\ \E roles \in (SUBSET Roles) \ {Roles} :
        Result("recent_changes", {d \in changed : RoleOf[d] \in roles})
    /\ warned' = warned \cup {"recent_changes"}

(***************************************************************************)
(* _project_state_section, _project_state_packet_status                    *)
(***************************************************************************)
SectionIsStale(s) ==
    CASE s = "implementation_evidence" -> stale # {}
      [] s = "recent_changes" -> FALSE
      [] OTHER -> "ops" \in stale

\* The empty result of a stale index is no match.
SectionCareless(s) ==
    IF ~Runs(request, s) THEN NoPacket.section[s]
    ELSE [retrieval |-> IF s \in failed THEN "unavailable" ELSE "complete",
          match |-> CASE s \in failed -> "indeterminate"
                      [] found[s] # {} -> "with_results"
                      [] OTHER -> "no_match",
          freshness |-> IF s \in failed THEN "unknown" ELSE "current",
          results |-> found[s], warned |-> s \in warned]

Section(s) ==
    IF ~Runs(request, s) THEN NoPacket.section[s]
    ELSE [retrieval |-> CASE s \in failed -> "unavailable"
                          [] s \notin failed /\ SectionIsStale(s) -> "partial"
                          [] OTHER -> "complete",
          match |-> CASE s \in failed -> "indeterminate"
                      [] s \notin failed /\ found[s] # {} -> "with_results"
                      [] s \notin failed /\ found[s] = {} /\ SectionIsStale(s) -> "indeterminate"
                      [] OTHER -> "no_match",
          freshness |-> CASE SectionIsStale(s) -> "stale"
                          [] ~SectionIsStale(s) /\ s \in failed -> "unknown"
                          [] OTHER -> "current",
          results |-> found[s], warned |-> s \in warned]

PacketState(sections) ==
    LET states == {sections[s].retrieval : s \in Sections} \ {"not_run"} IN
    CASE states = {"unavailable"} -> "unavailable"
      [] states # {"unavailable"} /\ states \cap {"partial", "unavailable"} # {} -> "partial"
      [] OTHER -> "complete"

Answer ==
    /\ pc = "answer"
    /\ LET sections == [s \in Sections |-> Section(s)] IN
        packet' = [request |-> request, state |-> PacketState(sections), section |-> sections,
                   warned |-> unsure, moved |-> moved, quiet |-> quiet, stored |-> stored]
    /\ Done
    /\ UNCHANGED <<world, counts>>

Call ==
    \/ Limit \/ ReadMetadata \/ ReadHead \/ MissHead \/ Compare \/ StatusFails \/ CheckFails
    \/ SearchOps \/ SearchOpsFails \/ Raises
    \/ SearchGraph \/ GoToText \/ SearchCodeFails \/ RepoMatches \/ AddFullText
    \/ WithoutFullText \/ ScanText \/ ScanTextFails \/ RecentChanges \/ RecentChangesFail
    \/ Answer

Next ==
    \/ Call \/ \E r \in Requests : Request(r)
    \/ Read \/ Store
    \/ \E d \in Docs : Commit(d) \/ \E says \in SaysOf[d] \cup {Absent} : Edit(d, says)

Spec == Init /\ [][Next]_vars
-----------------------------------------------------------------------------
IsTrustworthy(s) ==
    LET x == packet.section[s] IN
    (x.retrieval = "complete" /\ x.match = "no_match" /\ x.freshness = "current")
        => SearchesOf(s) \subseteq packet.quiet

\* "a stale, skipped, partial, or unavailable search cannot be mistaken for a
\* trustworthy no-match result" (README.md, get_project_state): where a packet
\* says that nothing matches, there was, for each of the searches behind it, a
\* moment at which the files had nothing for it.
NoMatchIsTrustworthy == \A s \in Sections : IsTrustworthy(s)

\* The repository behind a section.
RoleBehind(s) == IF s = "implementation_evidence" THEN "work" ELSE "ops"

\* Sections that rest on a check between whose two reads the HEAD of the
\* repository moved.
Overtaken(s) == s # "recent_changes" /\ RoleBehind(s) \in packet.moved

\* The same where neither the section nor the staleness check carries an error or
\* a warning: whatever is edited, committed, indexed or failing between the check
\* and the searches, and between one search and the next; a run of the other
\* process that was on when the packet was asked for stores what it had read
\* before.  It is not so where a commit came between the check's two reads of git,
\* the HEAD (services 3328) and the status (3374): the HEAD is still the indexed
\* one, the worktree is clean again, and what was committed is not in the index.
NoMatchWasTrue ==
    ~packet.warned =>
        \A s \in Sections : packet.section[s].warned \/ Overtaken(s) \/ IsTrustworthy(s)

\* No document is shown by two sections of one packet that read the ops
\* repository, unless another process stored an index in between: what is
\* authoritative does not also appear as a proposal, a capture or withdrawn
\* (get_project_state_from_config).
OneSectionEach ==
    ~packet.stored =>
        \A s \in DocumentSections : \A d \in packet.section[s].results :
            \A t \in DocumentSections \ {s} : d \notin packet.section[t].results

\* Discussions and captures are shown by the one section that is theirs and by no
\* packet of the doctrine view (docs/frontmatter.md).
NotesOnlyInDiscussions ==
    \A s \in Sections \ {"discussions_and_captures", "recent_changes"} :
        \A d \in packet.section[s].results :
            rows[d] # Absent => MetaIn(rows, d).type \notin {"note", "discussion"}
-----------------------------------------------------------------------------
(***************************************************************************)
(* Why they hold: what is known while a packet is under way.              *)
(***************************************************************************)
Elements(s) == {s[i] : i \in 1..Len(s)}

\* A search of the repositories `role` finds something in files f, or the files
\* had nothing for it at some moment since the call began.
Known(f, role) ==
    \A q \in AllSearches \ quiet :
        q.section # "recent_changes" /\ RoleBehind(q.section) = role => Hits(q, f) # {}

\* The packet's staleness check is over.
Past == pc \in {"search", "scan", "answer"} \/ check # "packet"

\* The repositories it has been at.
CheckedRoles ==
    CASE Past -> Roles
      [] ~Past /\ pc \in {"head", "status"} /\ repo = "work" -> {"ops"}
      [] OTHER -> {}

\* The files are watched while a call is on, also those the other process has read.
FilesAreWatched ==
    pc # "idle" =>
        /\ \A q \in AllSearches \ quiet : ~IsQuiet(q, source, changed)
        /\ reading # Absent => \A role \in Roles : Known(reading.files, role)

\* Between the reads of the staleness check the index is as it was recorded, or as
\* the other process has read the files.
RecordIsKnown ==
    check = "packet" /\ pc \in {"head", "status"} /\ recorded # Absent =>
        rows = recorded.files \/ \A role \in Roles : Known(rows, role)

\* A repository that it did not call stale is known, unless its HEAD moved between
\* the two reads.
CheckedIsKnown ==
    ~unsure => \A role \in CheckedRoles \ (stale \cup moved) : Known(rows, role)

\* A section that would be reported empty and current: its searches are still to
\* come or the files had nothing for them.
SectionsAreSearched ==
    Past /\ ~unsure =>
        \A s \in Sections :
            /\ s \notin failed \cup warned
            /\ s = "recent_changes" \/ RoleBehind(s) \notin moved
            /\ found[s] = {} /\ ~SectionIsStale(s) /\ Runs(request, s)
            => SearchesOf(s) \subseteq Elements(todo) \cup quiet

\* The check that is on.
CheckIsOn ==
    /\ check # "packet" => pc \in {"metadata", "head", "status", "scan"}
    /\ check = "packet" => pc # "scan" /\ (pc \notin {"head", "status"} => repo = "ops")
    /\ check = "packet" /\ pc = "status" /\ asked = Absent => unsure

\* The searches to come, and the one that is on.
SearchIsOn ==
    Past =>
        /\ Elements(todo) \subseteq AllSearches
        /\ (todo = <<>> <=> pc = "answer")
        /\ check # "packet" => Head(todo).section = "implementation_evidence"
        /\ check = "fulltext" => hits # {}

\* What a section has found the index has in it, unless it was stored anew.
FoundIsInRows ==
    /\ ~Past => found = [s \in Sections |-> {}]
    /\ ~stored => \A s \in DocumentSections : \A d \in found[s] :
                      rows[d] # Absent /\ Wants(s, MetaIn(rows, d))

CallInv ==
    /\ FilesAreWatched /\ CheckIsOn /\ RecordIsKnown /\ CheckedIsKnown
    /\ SectionsAreSearched /\ SearchIsOn /\ FoundIsInRows

\* The invariant of packets under way, whatever is edited, indexed or failing
\* meanwhile: what an answer will claim is known before it is given
\* (get_project_state_from_config).
IInv == TypeOK /\ CallInv
=============================================================================
