------------------------------- MODULE Documents -------------------------------
(***************************************************************************)
(* What a document is to the searches: the type, status and authority that *)
(* index.normalize_frontmatter gives it, its rank in a search, and the     *)
(* section of a project-state packet that wants it (services).             *)
(***************************************************************************)
EXTENDS Integers

Types == {"doctrine", "decision", "discussion", "note", "open_question", "handover", "proposal",
          "doctrine_delta", "adr_draft", "decision_proposal", "review_packet", "evidence",
          "code_doc", "project_brief", "text", "code", "test", "schema"}

Statuses == {"current", "accepted", "draft", "captured", "open", "closed", "superseded",
             "rejected"}

Authorities == {"implementation_truth", "canonical", "accepted_decision", "proposal", "working",
                "capture", "historical", "superseded", "rejected"}

Withdrawn == {"superseded", "rejected"}

StatusAuthority ==
    [current |-> "canonical", accepted |-> "accepted_decision", draft |-> "working",
     open |-> "working", closed |-> "historical", captured |-> "capture",
     superseded |-> "superseded", rejected |-> "rejected"]

\* The places that path rules know; anything in them may say otherwise.
WorkPlaces == {"src", "tests", "schemas"}
Places == WorkPlaces \cup {"doctrine", "decisions", "brief", "open-questions", "proposals",
                           "handovers", "discussions", "notes", "rejected-models", "elsewhere"}
Roles == {"ops", "work"}

Meta == [type : Types \cup {"rejected_model"}, status : Statuses, authority : Authorities]

\* What frontmatter says; a value that is none of these counts as "unset".
Frontmatter == [type : Types \cup {"unset"}, status : Statuses \cup {"unset"},
                authority : Authorities \cup {"unset"}]

As(t, s, a) == [type |-> t, status |-> s, authority |-> a]

\* _infer_from_path
Inferred(role, place) ==
    CASE role = "work" /\ place = "src" -> As("code", "current", "implementation_truth")
      [] role = "work" /\ place = "tests" -> As("test", "current", "implementation_truth")
      [] role = "work" /\ place = "schemas" -> As("schema", "current", "implementation_truth")
      [] place = "doctrine" -> As("doctrine", "current", "canonical")
      [] place = "decisions" -> As("decision", "accepted", "accepted_decision")
      [] place = "brief" -> As("project_brief", "current", "canonical")
      [] place = "open-questions" -> As("open_question", "open", "working")
      [] place = "proposals" -> As("proposal", "draft", "working")
      [] place = "handovers" -> As("handover", "draft", "working")
      [] place = "discussions" -> As("discussion", "captured", "capture")
      [] place = "notes" -> As("note", "captured", "capture")
      [] place = "rejected-models" -> As("rejected_model", "rejected", "rejected")
      [] OTHER -> As(IF role = "ops" THEN "note" ELSE "text", "draft", "working")

Or(said, inferred) == IF said = "unset" THEN inferred ELSE said

\* normalize_frontmatter: the authority follows the status that was said.
Normalize(said, role, place) ==
    LET path == Inferred(role, place) IN
    [type |-> Or(said.type, path.type),
     status |-> Or(said.status, path.status),
     authority |-> Or(said.authority,
            IF said.status = "unset" THEN path.authority ELSE StatusAuthority[said.status])]

(***************************************************************************)
(* ProjectIndex.search                                                     *)
(***************************************************************************)
\* By default nothing superseded or rejected is found, by either field.
Standing(m) == m.authority \notin Withdrawn /\ m.status \notin Withdrawn

\* AUTHORITY_RANK_BASE and AUTHORITY_BOOST and the penalty, in hundredths.
Rank ==
    [implementation_truth |-> 435, canonical |-> 330, accepted_decision |-> 225,
     proposal |-> 110, working |-> 110, capture |-> 0, historical |-> -110,
     superseded |-> -300, rejected |-> -410]

\* Relevance counts up to 0.10, an exact path or title 0.20.
Score(authority, relevance, exact) ==
    Rank[authority] + relevance + (IF exact THEN 20 ELSE 0)

Tiers ==
    <<{"rejected"}, {"superseded"}, {"historical"}, {"capture"}, {"proposal", "working"},
      {"accepted_decision"}, {"canonical"}, {"implementation_truth"}>>

(***************************************************************************)
(* The sections of get_project_state: each is filled by searches, of one   *)
(* type each.                                                              *)
(***************************************************************************)
CodeTypes == {"code", "test", "schema"}
ProposalTypes == <<"proposal", "doctrine_delta", "adr_draft", "decision_proposal",
                   "review_packet", "handover">>
DiscussionTypes == <<"discussion", "note", "capture", "project_brief">>

DocumentSections == {"doctrine", "accepted_decisions", "open_questions", "proposals_and_drafts",
                     "discussions_and_captures", "superseded_and_rejected"}
Sections == DocumentSections \cup {"implementation_evidence", "recent_changes"}

StatusesOf ==
    [doctrine |-> {"current"},
     accepted_decisions |-> {"accepted"},
     open_questions |-> {"open"},
     proposals_and_drafts |-> {"draft", "captured", "open", "active", "current", "proposed"},
     discussions_and_captures |-> {"captured", "draft", "open", "active", "current"}]

FindsTheRest(s, t, m) ==
    IF s = "superseded_and_rejected"
    THEN TRUE
    ELSE m.type = t /\ m.status \in StatusesOf[s] /\ Standing(m)

\* What the search for type t in section s finds among documents of the ops repository.
Finds(s, t, m) ==
    IF s = "superseded_and_rejected"
    THEN m.status \in Withdrawn
    ELSE m.type = t /\ m.status \in StatusesOf[s] /\ Standing(m)

TypesOf(s) ==
    CASE s = "doctrine" -> {"doctrine"}
      [] s = "accepted_decisions" -> {"decision"}
      [] s = "open_questions" -> {"open_question"}
      [] s = "proposals_and_drafts" -> {ProposalTypes[i] : i \in 1..6}
      [] s = "discussions_and_captures" -> {DiscussionTypes[i] : i \in 1..4}
      [] OTHER -> {"any"}

Wants(s, m) == \E t \in TypesOf(s) : Finds(s, t, m)
=============================================================================
