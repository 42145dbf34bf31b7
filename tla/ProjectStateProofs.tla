-------------------------- MODULE ProjectStateProofs --------------------------
(***************************************************************************)
(* What the classification and the ranking of documents promise, for       *)
(* everything that frontmatter may say, and what a project-state packet    *)
(* promises, for any documents, requests, edits, indexings and failures.   *)
(***************************************************************************)
EXTENDS ProjectState, TLAPS

(***************************************************************************)
(* Documents                                                               *)
(***************************************************************************)
\* Whatever the frontmatter says and wherever the file lies, a document gets a
\* type, a status and an authority that the searches know
\* (index.normalize_frontmatter).
THEOREM NormalizeIsTotal ==
    ASSUME NEW said \in Frontmatter, NEW role \in Roles, NEW place \in Places
    PROVE  Normalize(said, role, place) \in Meta
<1>1. Inferred(role, place) \in Meta
    BY DEF Inferred, As, Meta, Types, Statuses, Authorities, Roles
<1>2. said.status # "unset" => StatusAuthority[said.status] \in Authorities
    BY DEF Frontmatter, Statuses, StatusAuthority, Authorities
<1> QED
    BY <1>1, <1>2 DEF Normalize, Or, Meta, Frontmatter

\* A document that its frontmatter calls superseded or rejected is found by no
\* default search, whatever else the frontmatter or the path claims
\* (normalize_frontmatter, ProjectIndex.search).
THEOREM WithdrawnIsNotFound ==
    ASSUME NEW said \in Frontmatter, NEW role \in Roles, NEW place \in Places,
           said.status \in Withdrawn,
           NEW s \in DocumentSections \ {"superseded_and_rejected"}
    PROVE  ~Wants(s, Normalize(said, role, place))
<1>1. Normalize(said, role, place).status \in Withdrawn
    BY DEF Normalize, Or, Withdrawn
<1> QED
    BY <1>1 DEF Wants, Finds, Standing

\* The order of authority decides a search: no relevance and no exact title or
\* path lifts a document over one of a higher tier (_row_to_search_result).
THEOREM TierDominates ==
    ASSUME NEW i \in 1..8, NEW j \in 1..8, i < j,
           NEW a \in Tiers[i], NEW b \in Tiers[j],
           NEW r1 \in 0..10, NEW r2 \in 0..10, NEW e1 \in BOOLEAN, NEW e2 \in BOOLEAN
    PROVE  Score(a, r1, e1) < Score(b, r2, e2)
<1> DEFINE low == <<-410, -300, -110, 0, 110, 225, 330, 435>>
<1>1. \A k \in 1..8 : \A c \in Tiers[k] : Rank[c] = low[k]
    BY DEF Tiers, Rank
<1>2. low[i] + 105 <= low[j]
    OBVIOUS
<1>3. /\ Rank[a] = low[i] /\ low[i] \in Int
      /\ Rank[b] = low[j] /\ low[j] \in Int
    BY <1>1
<1> QED
    BY <1>2, <1>3 DEF Score

\* No document belongs to two of the sections that read the ops repository: what
\* is doctrine in a packet is not also a proposal, a capture or withdrawn
\* (get_project_state_from_config).
THEOREM SectionsAreDisjoint ==
    ASSUME NEW m \in Meta, NEW s \in DocumentSections, NEW t \in DocumentSections,
           Wants(s, m), Wants(t, m)
    PROVE  s = t
<1>1. \A u \in DocumentSections \ {"superseded_and_rejected"} :
        Wants(u, m) => m.status \notin Withdrawn /\ m.type \in TypesOf(u)
    BY DEF Wants, Finds, Standing
<1>2. Wants("superseded_and_rejected", m) => m.status \in Withdrawn
    BY DEF Wants, Finds
<1>3. \A u, v \in DocumentSections \ {"superseded_and_rejected"} :
        u # v => TypesOf(u) \cap TypesOf(v) = {}
    BY DEF DocumentSections, TypesOf, ProposalTypes, DiscussionTypes
<1> QED
    BY <1>1, <1>2, <1>3

-----------------------------------------------------------------------------
(***************************************************************************)
(* Sequences of searches                                                   *)
(***************************************************************************)
USE ProjectStateAssumption

\* What two sequences hold, their concatenation holds.
LEMMA ConcatElements ==
    ASSUME NEW S, NEW s \in Seq(S), NEW t \in Seq(S)
    PROVE  s \o t \in Seq(S) /\ Elements(s \o t) = Elements(s) \cup Elements(t)
<1>1. s \o t \in Seq(S) /\ Len(s \o t) = Len(s) + Len(t)
    OBVIOUS
<1>2. \A i \in 1..(Len(s) + Len(t)) :
          (s \o t)[i] = IF i <= Len(s) THEN s[i] ELSE t[i - Len(s)]
    OBVIOUS
<1>3. Len(s) \in Nat /\ Len(t) \in Nat
    OBVIOUS
<1>4. Elements(s \o t) \subseteq Elements(s) \cup Elements(t)
    <2> SUFFICES ASSUME NEW i \in 1..(Len(s) + Len(t))
                 PROVE  (s \o t)[i] \in Elements(s) \cup Elements(t)
        BY <1>1 DEF Elements
    <2>1. CASE i <= Len(s)
        BY <1>2, <1>3, <2>1 DEF Elements
    <2>2. CASE i > Len(s)
        <3>1. i - Len(s) \in 1..Len(t) /\ (s \o t)[i] = t[i - Len(s)]
            BY <1>2, <1>3, <2>2
        <3> QED
            BY <3>1 DEF Elements
    <2> QED
        BY <1>3, <2>1, <2>2
<1>5. Elements(s) \subseteq Elements(s \o t)
    <2> SUFFICES ASSUME NEW i \in 1..Len(s) PROVE s[i] \in Elements(s \o t)
        BY DEF Elements
    <2>1. i \in 1..Len(s \o t) /\ (s \o t)[i] = s[i]
        BY <1>1, <1>2, <1>3
    <2> QED
        BY <2>1 DEF Elements
<1>6. Elements(t) \subseteq Elements(s \o t)
    <2> SUFFICES ASSUME NEW i \in 1..Len(t) PROVE t[i] \in Elements(s \o t)
        BY DEF Elements
    <2>1. Len(s) + i \in 1..Len(s \o t) /\ (s \o t)[Len(s) + i] = t[i]
        BY <1>1, <1>2, <1>3
    <2> QED
        BY <2>1 DEF Elements
<1> QED
    BY <1>1, <1>4, <1>5, <1>6

\* A sequence holds its first and what the rest holds.
LEMMA TailElements ==
    ASSUME NEW S, NEW s \in Seq(S), s # <<>>
    PROVE  /\ Head(s) \in S /\ Tail(s) \in Seq(S)
           /\ Elements(s) = {Head(s)} \cup Elements(Tail(s))
           /\ (Tail(s) = <<>> <=> Len(s) = 1)
<1>1. /\ Len(s) \in Nat \ {0} /\ Head(s) = s[1] /\ Head(s) \in S
      /\ Tail(s) \in Seq(S) /\ Len(Tail(s)) = Len(s) - 1
    OBVIOUS
<1>2. \A i \in 1..(Len(s) - 1) : Tail(s)[i] = s[i + 1]
    OBVIOUS
<1>3. Elements(s) \subseteq {Head(s)} \cup Elements(Tail(s))
    <2> SUFFICES ASSUME NEW i \in 1..Len(s), i # 1 PROVE s[i] \in Elements(Tail(s))
        BY <1>1 DEF Elements
    <2>1. i - 1 \in 1..Len(Tail(s)) /\ Tail(s)[i - 1] = s[i]
        BY <1>1, <1>2
    <2> QED
        BY <2>1 DEF Elements
<1>4. Elements(Tail(s)) \subseteq Elements(s)
    <2> SUFFICES ASSUME NEW i \in 1..Len(Tail(s)) PROVE Tail(s)[i] \in Elements(s)
        BY DEF Elements
    <2>1. i + 1 \in 1..Len(s) /\ Tail(s)[i] = s[i + 1]
        BY <1>1, <1>2
    <2> QED
        BY <2>1 DEF Elements
<1>5. Head(s) \in Elements(s)
    BY <1>1 DEF Elements
<1>6. Tail(s) = <<>> <=> Len(s) = 1
    BY <1>1
<1> QED
    BY <1>1, <1>3, <1>4, <1>5, <1>6

\* A sequence of one search holds it.
LEMMA OneElement ==
    ASSUME NEW S, NEW q \in S
    PROVE  <<q>> \in Seq(S) /\ Elements(<<q>>) = {q}
BY DEF Elements

\* An empty one holds none.
LEMMA NoElements ==
    ASSUME NEW S
    PROVE  <<>> \in Seq(S) /\ Elements(<<>>) = {}
BY DEF Elements

\* The searches of one section are of its types.
LEMMA OneSearchOf ==
    ASSUME NEW s \in Sections
    PROVE  /\ OneSearch(s) \in AllSearches /\ OneSearch(s).section = s
           /\ OneSearch(s).type \in TypesOf(s)
<1>1. TypesOf(s) # {}
    BY DEF TypesOf, ProposalTypes, DiscussionTypes
<1>2. (CHOOSE t \in TypesOf(s) : TRUE) \in TypesOf(s)
    BY <1>1
<1> QED
    BY <1>2 DEF OneSearch, AllSearches

\* The kinds of search there are: one of each type of each section.
LEMMA SearchKinds ==
    AllSearches = {q \in Search : q.type \in TypesOf(q.section)}
<1>1. ASSUME NEW q \in AllSearches PROVE q \in Search /\ q.type \in TypesOf(q.section)
    <2>1. CASE \E s \in Sections : q = OneSearch(s)
        <3>1. PICK s \in Sections : q = OneSearch(s)
            BY <2>1
        <3>2. \A t \in TypesOf(s) : t \in Types \cup {"capture", "any"}
            BY DEF TypesOf, ProposalTypes, DiscussionTypes, Types
        <3> QED
            BY <3>1, <3>2, OneSearchOf DEF OneSearch, Search
    <2>2. CASE \E i \in 1..6 : q = [section |-> "proposals_and_drafts", type |-> ProposalTypes[i]]
        BY <2>2 DEF Search, Sections, DocumentSections, TypesOf, ProposalTypes, Types
    <2>3. CASE \E i \in 1..4 : q = [section |-> "discussions_and_captures", type |-> DiscussionTypes[i]]
        BY <2>3 DEF Search, Sections, DocumentSections, TypesOf, DiscussionTypes, Types
    <2> QED
        BY <2>1, <2>2, <2>3 DEF AllSearches, SearchesFor, ProposalTypes, DiscussionTypes
<1>2. ASSUME NEW q \in Search, q.type \in TypesOf(q.section) PROVE q \in AllSearches
    <2>1. q = [section |-> q.section, type |-> q.type] /\ q.section \in Sections
        BY DEF Search
    <2>2. CASE q.section = "proposals_and_drafts"
        BY <1>2, <2>1, <2>2 DEF AllSearches, SearchesFor, TypesOf, ProposalTypes
    <2>3. CASE q.section = "discussions_and_captures"
        BY <1>2, <2>1, <2>3 DEF AllSearches, SearchesFor, TypesOf, DiscussionTypes
    <2>4. CASE q.section \notin {"proposals_and_drafts", "discussions_and_captures"}
        <3>1. q.type = OneSearch(q.section).type
            BY <1>2, <2>1, <2>4, OneSearchOf DEF TypesOf
        <3>2. q = OneSearch(q.section)
            BY <2>1, <3>1 DEF OneSearch
        <3> QED
            BY <2>1, <3>2 DEF AllSearches
    <2> QED
        BY <2>2, <2>3, <2>4
<1> QED
    BY <1>1, <1>2 DEF Search

\* A section of one type has one search.
LEMMA SearchesOfOne ==
    ASSUME NEW s \in Sections \ {"proposals_and_drafts", "discussions_and_captures"}
    PROVE  OneSearch(s) \in Search /\ SearchesOf(s) = {OneSearch(s)}
<1>1. \A t \in TypesOf(s) : t = OneSearch(s).type
    BY OneSearchOf DEF TypesOf
<1>2. OneSearch(s) \in SearchesOf(s) /\ OneSearch(s) \in Search
    BY OneSearchOf, SearchKinds DEF SearchesOf
<1>3. ASSUME NEW q \in SearchesOf(s) PROVE q = OneSearch(s)
    <2>1. q \in Search /\ q.section = s /\ q.type = OneSearch(s).type
        BY <1>1, SearchKinds DEF SearchesOf
    <2> QED
        BY <2>1 DEF Search, OneSearch
<1> QED
    BY <1>2, <1>3

\* The others have one for each of their types.
LEMMA SearchesOfMany ==
    /\ SearchesFor("proposals_and_drafts", ProposalTypes) \in Seq(Search)
    /\ Elements(SearchesFor("proposals_and_drafts", ProposalTypes)) = SearchesOf("proposals_and_drafts")
    /\ SearchesFor("discussions_and_captures", DiscussionTypes) \in Seq(Search)
    /\ Elements(SearchesFor("discussions_and_captures", DiscussionTypes)) = SearchesOf("discussions_and_captures")
<1> DEFINE P == SearchesFor("proposals_and_drafts", ProposalTypes)
           D == SearchesFor("discussions_and_captures", DiscussionTypes)
<1>1. Len(ProposalTypes) = 6 /\ Len(DiscussionTypes) = 4
    BY DEF ProposalTypes, DiscussionTypes
<1>2. /\ P = [i \in 1..6 |-> [section |-> "proposals_and_drafts", type |-> ProposalTypes[i]]]
      /\ D = [i \in 1..4 |-> [section |-> "discussions_and_captures", type |-> DiscussionTypes[i]]]
    BY <1>1 DEF SearchesFor
<1>3. /\ \A i \in 1..6 : P[i] \in Search /\ P[i].type = ProposalTypes[i]
      /\ \A i \in 1..4 : D[i] \in Search /\ D[i].type = DiscussionTypes[i]
    BY <1>2 DEF Search, Sections, DocumentSections, Types, ProposalTypes, DiscussionTypes
<1> HIDE DEF P, D
<1>4. P \in Seq(Search) /\ Len(P) = 6
    BY <1>2, <1>3
<1>5. D \in Seq(Search) /\ Len(D) = 4
    BY <1>2, <1>3
<1>6. Elements(P) = SearchesOf("proposals_and_drafts")
    <2>1. \A i \in 1..6 : P[i] \in SearchesOf("proposals_and_drafts")
        BY <1>2, <1>3, SearchKinds DEF SearchesOf, TypesOf
    <2>2. ASSUME NEW q \in SearchesOf("proposals_and_drafts") PROVE \E i \in 1..6 : q = P[i]
        <3>1. q \in Search /\ q.section = "proposals_and_drafts" /\ q.type \in TypesOf("proposals_and_drafts")
            BY SearchKinds DEF SearchesOf
        <3>2. PICK i \in 1..6 : q.type = ProposalTypes[i]
            BY <3>1 DEF TypesOf
        <3>3. q = P[i]
            BY <1>2, <3>1, <3>2 DEF Search
        <3> QED
            BY <3>3
    <2> QED
        BY <1>4, <2>1, <2>2 DEF Elements
<1>7. Elements(D) = SearchesOf("discussions_and_captures")
    <2>1. \A i \in 1..4 : D[i] \in SearchesOf("discussions_and_captures")
        BY <1>2, <1>3, SearchKinds DEF SearchesOf, TypesOf
    <2>2. ASSUME NEW q \in SearchesOf("discussions_and_captures") PROVE \E i \in 1..4 : q = D[i]
        <3>1. q \in Search /\ q.section = "discussions_and_captures" /\ q.type \in TypesOf("discussions_and_captures")
            BY SearchKinds DEF SearchesOf
        <3>2. PICK i \in 1..4 : q.type = DiscussionTypes[i]
            BY <3>1 DEF TypesOf
        <3>3. q = D[i]
            BY <1>2, <3>1, <3>2 DEF Search
        <3> QED
            BY <3>3
    <2> QED
        BY <1>5, <2>1, <2>2 DEF Elements
<1> QED
    BY <1>4, <1>5, <1>6, <1>7 DEF P, D

\* A packet searches for its sections only, and for each of them all that there is
\* to search.
LEMMA PlanHolds ==
    ASSUME NEW r \in Requests
    PROVE  /\ Plan(r) \in Seq(Search) /\ Plan(r) # <<>>
           /\ Elements(Plan(r)) \subseteq AllSearches
           /\ \A s \in Sections : Runs(r, s) => SearchesOf(s) \subseteq Elements(Plan(r))
<1> DEFINE Always == <<OneSearch("doctrine"), OneSearch("accepted_decisions"), OneSearch("implementation_evidence")>>
           Discussed == <<OneSearch("open_questions")>>
                        \o SearchesFor("proposals_and_drafts", ProposalTypes)
                        \o SearchesFor("discussions_and_captures", DiscussionTypes)
           Old == <<OneSearch("superseded_and_rejected")>>
           Recent == <<OneSearch("recent_changes")>>
           Chosen(b, s) == IF b THEN s ELSE <<>>
           Whole(names) == UNION {SearchesOf(s) : s \in names}
<1>0. \A s, t \in Seq(Search) :
          /\ s \o t \in Seq(Search) /\ Len(s \o t) >= Len(s) /\ Len(s) \in Nat /\ Len(s \o t) \in Nat
          /\ Elements(s \o t) = Elements(s) \cup Elements(t)
    <2> SUFFICES ASSUME NEW s \in Seq(Search), NEW t \in Seq(Search)
                 PROVE  /\ s \o t \in Seq(Search) /\ Len(s \o t) >= Len(s) /\ Len(s) \in Nat /\ Len(s \o t) \in Nat
                        /\ Elements(s \o t) = Elements(s) \cup Elements(t)
        OBVIOUS
    <2>1. s \o t \in Seq(Search) /\ Elements(s \o t) = Elements(s) \cup Elements(t)
        BY ConcatElements
    <2>2. Len(s \o t) >= Len(s) /\ Len(s) \in Nat /\ Len(s \o t) \in Nat
        OBVIOUS
    <2> QED
        BY <2>1, <2>2
<1>1. /\ Always \in Seq(Search) /\ Len(Always) = 3
      /\ Elements(Always) = Whole({"doctrine", "accepted_decisions", "implementation_evidence"})
    <2>1. \A s \in {"doctrine", "accepted_decisions", "implementation_evidence"} :
              OneSearch(s) \in Search /\ SearchesOf(s) = {OneSearch(s)}
        BY SearchesOfOne DEF Sections, DocumentSections
    <2>2. /\ Always \in Seq(Search) /\ Len(Always) = 3
          /\ Always[1] = OneSearch("doctrine") /\ Always[2] = OneSearch("accepted_decisions")
          /\ Always[3] = OneSearch("implementation_evidence")
        BY <2>1
    <2>3. Elements(Always) = {OneSearch("doctrine"), OneSearch("accepted_decisions"), OneSearch("implementation_evidence")}
        <3> HIDE DEF Always
        <3>1. 1..3 = {1, 2, 3}
            OBVIOUS
        <3> QED
            BY <2>2, <3>1 DEF Elements
    <2> QED
        BY <2>1, <2>2, <2>3
<1>2. /\ Discussed \in Seq(Search)
      /\ Elements(Discussed) = Whole({"open_questions", "proposals_and_drafts", "discussions_and_captures"})
    <2>1. OneSearch("open_questions") \in Search /\ SearchesOf("open_questions") = {OneSearch("open_questions")}
        BY SearchesOfOne DEF Sections, DocumentSections
    <2>2. <<OneSearch("open_questions")>> \in Seq(Search)
          /\ Elements(<<OneSearch("open_questions")>>) = SearchesOf("open_questions")
        BY <2>1, OneElement
    <2>3. /\ <<OneSearch("open_questions")>> \o SearchesFor("proposals_and_drafts", ProposalTypes) \in Seq(Search)
          /\ Elements(<<OneSearch("open_questions")>> \o SearchesFor("proposals_and_drafts", ProposalTypes))
                = SearchesOf("open_questions") \cup SearchesOf("proposals_and_drafts")
        BY <1>0, <2>2, SearchesOfMany
    <2>4. /\ Discussed \in Seq(Search)
          /\ Elements(Discussed) = SearchesOf("open_questions") \cup SearchesOf("proposals_and_drafts")
                                   \cup SearchesOf("discussions_and_captures")
        BY <1>0, <2>3, SearchesOfMany
    <2> QED
        BY <2>4
<1>3. ASSUME NEW s \in {"superseded_and_rejected", "recent_changes"}
      PROVE  <<OneSearch(s)>> \in Seq(Search) /\ Elements(<<OneSearch(s)>>) = Whole({s})
    <2>1. OneSearch(s) \in Search /\ SearchesOf(s) = {OneSearch(s)}
        BY SearchesOfOne DEF Sections, DocumentSections
    <2> QED
        BY <2>1, OneElement
<1> HIDE DEF Always, Discussed, Old, Recent
<1>4. ASSUME NEW b \in BOOLEAN, NEW s \in Seq(Search), NEW names, Elements(s) = Whole(names)
      PROVE  /\ Chosen(b, s) \in Seq(Search)
             /\ Elements(Chosen(b, s)) = Whole(IF b THEN names ELSE {})
    BY <1>4, NoElements
<1>5. Plan(r) = Always \o Chosen(r.view # "doctrine", Discussed) \o Chosen(r.superseded, Old)
                \o Chosen(r.since, Recent)
    BY DEF Plan, Always, Discussed, Old, Recent
<1>6. r.superseded \in BOOLEAN /\ r.since \in BOOLEAN
    OBVIOUS
<1>7. Old \in Seq(Search) /\ Elements(Old) = Whole({"superseded_and_rejected"})
    BY <1>3 DEF Old
<1>8. Recent \in Seq(Search) /\ Elements(Recent) = Whole({"recent_changes"})
    BY <1>3 DEF Recent
<1>9. PICK chosen \in SUBSET Sections :
        Plan(r) \in Seq(Search) /\ Len(Plan(r)) >= 3 /\ Elements(Plan(r)) = Whole(chosen)
    <2> DEFINE A == {"doctrine", "accepted_decisions", "implementation_evidence"}
               B == IF r.view # "doctrine"
                    THEN {"open_questions", "proposals_and_drafts", "discussions_and_captures"} ELSE {}
               C == IF r.superseded THEN {"superseded_and_rejected"} ELSE {}
               D == IF r.since THEN {"recent_changes"} ELSE {}
               b == Chosen(r.view # "doctrine", Discussed)
               c == Chosen(r.superseded, Old)
               d == Chosen(r.since, Recent)
    <2>1. b \in Seq(Search) /\ Elements(b) = Whole(B)
        BY <1>2, <1>4
    <2>2. c \in Seq(Search) /\ Elements(c) = Whole(C)
        BY <1>4, <1>6, <1>7
    <2>3. d \in Seq(Search) /\ Elements(d) = Whole(D)
        BY <1>4, <1>6, <1>8
    <2>4. A \cup B \cup C \cup D \in SUBSET Sections
        BY DEF Sections, DocumentSections
    <2>5. Elements(Always) = Whole(A)
        BY <1>1
    <2>6. Whole(A) \cup Whole(B) \cup Whole(C) \cup Whole(D) = Whole(A \cup B \cup C \cup D)
        OBVIOUS
    <2> HIDE DEF A, B, C, D, b, c, d, Whole
    <2>7. PICK ab \in Seq(Search) : /\ ab = Always \o b /\ Len(ab) >= 3 /\ Len(ab) \in Nat
                                   /\ Elements(ab) = Whole(A) \cup Whole(B)
        <3>1. Always \o b \in Seq(Search) /\ Elements(Always \o b) = Whole(A) \cup Whole(B)
            BY <1>0, <1>1, <2>1, <2>5
        <3>2. Len(Always \o b) >= Len(Always) /\ Len(Always \o b) \in Nat
            BY <1>0, <1>1, <2>1
        <3>3. Len(Always \o b) >= 3
            BY <1>1, <3>2
        <3> QED
            BY <3>1, <3>2, <3>3
    <2>8. PICK abc \in Seq(Search) : /\ abc = ab \o c /\ Len(abc) >= 3 /\ Len(abc) \in Nat
                                    /\ Elements(abc) = Whole(A) \cup Whole(B) \cup Whole(C)
        <3>1. Len(ab \o c) >= Len(ab) /\ Len(ab \o c) \in Nat
            BY <1>0, <2>2, <2>7
        <3>2. Len(ab \o c) >= 3
            BY <2>7, <3>1
        <3>3. ab \o c \in Seq(Search) /\ Elements(ab \o c) = Whole(A) \cup Whole(B) \cup Whole(C)
            BY <1>0, <2>2, <2>7
        <3> QED
            BY <3>1, <3>2, <3>3
    <2>9. /\ abc \o d \in Seq(Search) /\ Len(abc \o d) >= 3
          /\ Elements(abc \o d) = Whole(A) \cup Whole(B) \cup Whole(C) \cup Whole(D)
        <3>1. Len(abc \o d) >= Len(abc) /\ Len(abc \o d) \in Nat
            BY <1>0, <2>3, <2>8
        <3>2. Len(abc \o d) >= 3
            BY <2>8, <3>1
        <3> QED
            BY <1>0, <2>3, <2>8, <3>1, <3>2
    <2>10. Plan(r) = abc \o d
        BY <1>5, <2>7, <2>8 DEF b, c, d
    <2> QED
        BY <2>4, <2>9, <2>10, <2>6
<1>10. Plan(r) # <<>>
    BY <1>9
<1>11. Elements(Plan(r)) \subseteq AllSearches
    BY <1>9 DEF SearchesOf
<1>12. ASSUME NEW s \in Sections, Runs(r, s) PROVE SearchesOf(s) \subseteq Elements(Plan(r))
    <2>1. PICK q \in Elements(Plan(r)) : q.section = s
        BY <1>12 DEF Runs, Elements
    <2>2. s \in chosen
        BY <1>9, <2>1 DEF SearchesOf
    <2> QED
        BY <1>9, <2>2
<1> QED
    BY <1>9, <1>10, <1>11, <1>12

-----------------------------------------------------------------------------
(***************************************************************************)
(* Types                                                                   *)
(***************************************************************************)
\* What a file says is frontmatter, and the document it makes is one the searches know.
LEMMA FileTypes ==
    ASSUME NEW f \in Files, NEW d \in Docs, f[d] # Absent
    PROVE  f[d] \in Frontmatter /\ MetaIn(f, d) \in Meta
<1>1. f[d] \in SaysOf[d]
    BY DEF Files
<1>2. f[d] \in Frontmatter
    BY <1>1
<1> QED
    BY <1>2, NormalizeIsTotal DEF MetaIn

\* No file at all is a state of the files.
LEMMA NothingTypes == Nothing \in Files
BY DEF Nothing, Files

\* A search finds documents.
LEMMA HitsInDocs ==
    ASSUME NEW q, NEW f
    PROVE  Hits(q, f) \subseteq Docs
BY DEF Hits, In

\* No packet is a packet.
LEMMA NoPacketTypes ==
    /\ NoPacket.request \in Requests /\ NoPacket.state = "none" /\ ~NoPacket.stored
    /\ NoPacket.section \in [Sections -> SectionStates]
    /\ \A s \in Sections : /\ NoPacket.section[s].match = "indeterminate"
                           /\ NoPacket.section[s].results = {}
<1>1. NoPacket.request \in Requests
    BY DEF NoPacket
<1>2. [retrieval |-> "not_run", match |-> "indeterminate", freshness |-> "unknown",
       results |-> {}, warned |-> FALSE] \in SectionStates
    BY DEF SectionStates
<1> QED
    BY <1>1, <1>2 DEF NoPacket

\* A section is a state of a section, and shows what it has found.
LEMMA SectionTypes ==
    ASSUME TypeOK, NEW s \in Sections
    PROVE  /\ Section(s) \in SectionStates
           /\ Section(s).results \in {{}, found[s]}
           /\ Section(s).match = "no_match" /\ Section(s).freshness = "current" =>
                 /\ Runs(request, s) /\ s \notin failed /\ found[s] = {} /\ ~SectionIsStale(s)
                 /\ Section(s).warned = (s \in warned)
<1>1. CASE ~Runs(request, s)
    <2>1. Section(s) = NoPacket.section[s]
        BY <1>1 DEF Section
    <2> QED
        BY <2>1, NoPacketTypes
<1>2. CASE Runs(request, s)
    <2> DEFINE a == CASE s \in failed -> "unavailable"
                      [] s \notin failed /\ SectionIsStale(s) -> "partial"
                      [] OTHER -> "complete"
               m == CASE s \in failed -> "indeterminate"
                      [] s \notin failed /\ found[s] # {} -> "with_results"
                      [] s \notin failed /\ found[s] = {} /\ SectionIsStale(s) -> "indeterminate"
                      [] OTHER -> "no_match"
               f == CASE SectionIsStale(s) -> "stale"
                      [] ~SectionIsStale(s) /\ s \in failed -> "unknown"
                      [] OTHER -> "current"
    <2>1. Section(s) = [retrieval |-> a, match |-> m, freshness |-> f,
                        results |-> found[s], warned |-> s \in warned]
        BY <1>2 DEF Section
    <2>2. a \in {"unavailable", "partial", "complete"}
        OBVIOUS
    <2>3. /\ m \in {"indeterminate", "with_results", "no_match"}
          /\ m = "no_match" => s \notin failed /\ found[s] = {} /\ ~SectionIsStale(s)
        OBVIOUS
    <2>4. f \in {"stale", "unknown", "current"}
        OBVIOUS
    <2>5. found[s] \in SUBSET Docs /\ (s \in warned) \in BOOLEAN
        BY DEF TypeOK
    <2> HIDE DEF a, m, f
    <2>6. Section(s) \in SectionStates
        BY <2>1, <2>2, <2>3, <2>4, <2>5 DEF SectionStates
    <2> QED
        BY <1>2, <2>1, <2>3, <2>6
<1> QED
    BY <1>1, <1>2

\* The first of the searches to come is one there is.
LEMMA HeadTypes ==
    ASSUME TypeOK, SearchIsOn, Past, pc # "answer"
    PROVE  /\ todo # <<>> /\ Head(todo) \in AllSearches /\ Head(todo) \in Search
           /\ Tail(todo) \in Seq(Search) /\ Elements(todo) = {Head(todo)} \cup Elements(Tail(todo))
           /\ (Tail(todo) = <<>> <=> Len(todo) = 1)
           /\ Head(todo).section \in Sections
<1>1. todo # <<>> /\ todo \in Seq(Search) /\ Elements(todo) \subseteq AllSearches
    BY DEF SearchIsOn, TypeOK
<1>2. /\ Head(todo) \in Search /\ Tail(todo) \in Seq(Search)
      /\ Elements(todo) = {Head(todo)} \cup Elements(Tail(todo)) /\ (Tail(todo) = <<>> <=> Len(todo) = 1)
    BY <1>1, TailElements
<1>3. Head(todo) \in AllSearches
    BY <1>1, <1>2
<1>4. Head(todo).section \in Sections
    BY <1>2 DEF Search
<1> QED
    BY <1>1, <1>2, <1>3, <1>4

\* The end of a search keeps the types.
LEMMA ResultTypes ==
    ASSUME TypeOK, SearchIsOn, Past, pc # "answer",
           NEW s \in Sections, NEW r \in SUBSET Docs, Result(s, r),
           warned' \in SUBSET Sections, faults' \in Nat
    PROVE  TypeOK'
BY HeadTypes DEF Result, NextSearch, EndCheck, TypeOK, Locations, Roles, world, checked, history

\* So does the end of one that fails.
LEMMA ErrorTypes ==
    ASSUME TypeOK, SearchIsOn, Past, pc # "answer",
           NEW s \in Sections, Error(s), faults' \in Nat
    PROVE  TypeOK'
BY HeadTypes DEF Error, NextSearch, EndCheck, TypeOK, Locations, Roles, world, checked, history

\* And the start of another comparison with git.
LEMMA CheckTypes ==
    ASSUME TypeOK, NEW c \in {"fulltext", "text"}, NEW role \in Roles, CheckFor(c, role),
           hits' \in SUBSET Docs
    PROVE  TypeOK'
BY DEF CheckFor, TypeOK, Locations, world, checked, results, history, counts

\* And the start of the searches.
LEMMA SearchingTypes ==
    ASSUME TypeOK, Searching, stale' \in SUBSET Roles, moved' \in SUBSET Roles, unsure' \in BOOLEAN,
           faults' \in Nat, UNCHANGED <<world, request, limitKnown, hits, results, history, packet,
                                        edits, commits, indexings>>
    PROVE  TypeOK'
BY PlanHolds DEF Searching, EndCheck, TypeOK, Locations, Roles, world, results, history

\* And the end of the comparison of one repository.
LEMMA CompareTypes ==
    ASSUME TypeOK, CompareStep, stale' \in SUBSET Roles, moved' \in SUBSET Roles,
           unsure' \in BOOLEAN, faults' \in Nat
    PROVE  TypeOK'
<1>1. CASE OtherRepo("head")
    BY <1>1 DEF CompareStep, OtherRepo, TypeOK, Locations, Roles, world, results, history
<1>2. CASE Searching
    BY <1>2, SearchingTypes DEF CompareStep
<1> QED
    BY <1>1, <1>2 DEF CompareStep

\* And the answer.
LEMMA DoneTypes ==
    ASSUME TypeOK, Done, UNCHANGED <<world, counts>>,
           packet'.request \in Requests,
           packet'.state \in {"none", "raised", "complete", "partial", "unavailable"},
           packet'.section \in [Sections -> SectionStates]
    PROVE  TypeOK'
<1>1. <<>> \in Seq(Search)
    BY NoElements
<1>2. request' \in Requests
    BY NoPacketTypes DEF Done
<1> QED
    BY <1>1, <1>2 DEF Done, EndCheck, TypeOK, world, counts, Locations, Roles

\* A failure is counted.
LEMMA FaultTypes ==
    ASSUME TypeOK
    PROVE  /\ Fault => faults' \in Nat
           /\ \A cause \in BOOLEAN : FailsIf(cause) => faults' \in Nat
BY DEF Fault, FailsIf, TypeOK

\* Every step keeps the types.
LEMMA TypeStep ==
    ASSUME TypeOK, SearchIsOn, [Next]_vars
    PROVE  TypeOK'
<1>0. Requests # {} /\ \A q, f : Hits(q, f) \in SUBSET Docs
    BY HitsInDocs
<1>1. CASE Limit
    <2>1. limitKnown' \in BOOLEAN /\ faults' \in Nat
        BY <1>1, FaultTypes DEF Limit, TypeOK
    <2> QED
        BY <1>1, <2>1 DEF Limit, TypeOK, Locations, world, checking, checked, results, history
<1>2. CASE ReadMetadata
    <2>1. recorded' \in Snapshots \cup {Absent} /\ faults' \in Nat
        BY <1>2, FaultTypes DEF ReadMetadata, TypeOK, Snapshots
    <2> QED
        BY <1>2, <2>1 DEF ReadMetadata, TypeOK, Locations, world, checked, results, history
<1>3. CASE ReadHead \/ MissHead
    <2>1. faults' \in Nat /\ asked' \in Files \cup {Absent}
        BY <1>3, FaultTypes DEF ReadHead, MissHead, TypeOK, counts
    <2> QED
        BY <1>3, <2>1 DEF ReadHead, MissHead, TypeOK, Locations, world, checked, results, history, counts
<1>4. CASE Compare \/ StatusFails
    <2>1. /\ CompareStep /\ stale' \in SUBSET Roles /\ moved' \in SUBSET Roles
          /\ unsure' \in BOOLEAN /\ faults' \in Nat
        BY <1>4, FaultTypes DEF Compare, StatusFails, TypeOK
    <2> QED
        BY <2>1, CompareTypes
<1>5. CASE CheckFails
    <2>1. faults' \in Nat
        BY <1>5, FaultTypes DEF CheckFails
    <2> QED
        BY <1>5, <2>1, SearchingTypes DEF CheckFails, TypeOK
<1>6. CASE SearchOps
    BY <1>0, <1>6, HeadTypes, ResultTypes DEF SearchOps, InOps, Past, TypeOK
<1>7. CASE SearchOpsFails
    <2>1. faults' \in Nat
        BY <1>7, FaultTypes DEF SearchOpsFails, TypeOK
    <2> QED
        BY <1>7, <2>1, HeadTypes, ErrorTypes DEF SearchOpsFails, InOps, Past
<1>8. CASE Raises
    <2>1. packet' = [NoPacket EXCEPT !.request = request, !.state = "raised"]
        BY <1>8 DEF Raises
    <2>2. packet'.request = request /\ packet'.state = "raised" /\ packet'.section = NoPacket.section
        BY <2>1 DEF NoPacket
    <2> QED
        BY <1>8, <2>2, NoPacketTypes, DoneTypes DEF Raises, TypeOK
<1>9. CASE SearchGraph
    BY <1>0, <1>9, CheckTypes DEF SearchGraph, Roles
<1>10. CASE GoToText
    BY <1>10, CheckTypes DEF GoToText, Roles
<1>11. CASE SearchCodeFails
    <2>1. faults' \in Nat
        BY <1>11, FaultTypes DEF SearchCodeFails
    <2> QED
        BY <1>11, <2>1, HeadTypes, ErrorTypes DEF SearchCodeFails, InCode, Past
<1>12. CASE AddFullText
    <2> DEFINE all == In(rows, "work") \cup In(rows, "ops")
               standing == {d \in all : Standing(MetaIn(rows, d))}
    <2>1. pc = "scan" /\ Result("implementation_evidence", hits \cup standing) /\ UNCHANGED <<warned, faults>>
        BY <1>12 DEF AddFullText
    <2>2. standing \in SUBSET Docs
        BY DEF In
    <2> HIDE DEF standing
    <2> QED
        BY <2>1, <2>2, ResultTypes DEF TypeOK, Sections, Past
<1>13. CASE WithoutFullText
    <2>1. faults' \in Nat
        BY <1>13, FaultTypes DEF WithoutFullText, Mismatch
    <2> QED
        BY <1>13, <2>1, ResultTypes DEF WithoutFullText, CodeCheck, Past, TypeOK, Sections
<1>14. CASE RepoMatches
    BY <1>14 DEF RepoMatches, OtherRepo, TypeOK, Locations, Roles, world, checked, results, history, counts
<1>15. CASE ScanText
    BY <1>0, <1>15, ResultTypes DEF ScanText, TypeOK, Sections, Past
<1>16. CASE ScanTextFails
    <2>1. faults' \in Nat
        BY <1>16, FaultTypes DEF ScanTextFails, Mismatch
    <2> QED
        BY <1>16, <2>1, ErrorTypes DEF ScanTextFails, CodeCheck, Past, Sections
<1>17. CASE RecentChanges
    BY <1>17, ResultTypes DEF RecentChanges, InRecent, TypeOK, Sections, Past
<1>18. CASE RecentChangesFail
    <2>1. PICK roles \in (SUBSET Roles) \ {Roles} :
              Result("recent_changes", {d \in changed : RoleOf[d] \in roles})
        BY <1>18 DEF RecentChangesFail
    <2>2. {d \in changed : RoleOf[d] \in roles} \in SUBSET Docs
        BY DEF TypeOK
    <2>3. pc = "search" /\ faults' \in Nat /\ warned' \in SUBSET Sections
        BY <1>18, FaultTypes DEF RecentChangesFail, InRecent, TypeOK, Sections
    <2> QED
        BY <2>1, <2>2, <2>3, ResultTypes DEF Sections, Past
<1>19. CASE Answer
    <2> DEFINE sections == [s \in Sections |-> Section(s)]
    <2>1. packet' = [request |-> request, state |-> PacketState(sections), section |-> sections,
                     warned |-> unsure, moved |-> moved, quiet |-> quiet, stored |-> stored]
        BY <1>19 DEF Answer
    <2>2. sections \in [Sections -> SectionStates]
        BY SectionTypes
    <2>3. PacketState(sections) \in {"none", "raised", "complete", "partial", "unavailable"}
        BY DEF PacketState
    <2> HIDE DEF sections
    <2> QED
        BY <1>19, <2>1, <2>2, <2>3, DoneTypes DEF Answer, TypeOK
<1>20. ASSUME NEW r \in Requests, Request(r) PROVE TypeOK'
    <2>1. quiet' \in SUBSET AllSearches
        BY <1>20 DEF Request, QuietIn, TypeOK
    <2> QED
        BY <1>20, <2>1, NoPacketTypes DEF Request, TypeOK, Locations, world, checking, checked,
                                              results, counts
<1>21. CASE Read
    BY <1>21 DEF Read, TypeOK, Snapshots, call, checking, checked, results, history
<1>22. CASE Store
    BY <1>22 DEF Store, TypeOK, Snapshots, call, checking, checked, results, counts
<1>23. ASSUME NEW d \in Docs, Commit(d) PROVE TypeOK'
    <2>1. committed' \in Files
        BY <1>23 DEF Commit, TypeOK, Files
    <2> QED
        BY <1>23, <2>1 DEF Commit, TypeOK, call, checking, checked, results, history
<1>24. ASSUME NEW d \in Docs, NEW says \in SaysOf[d] \cup {Absent}, Edit(d, says) PROVE TypeOK'
    <2>1. source' \in Files
        BY <1>24 DEF Edit, TypeOK, Files
    <2>2. quiet' \in SUBSET AllSearches
        BY <1>24 DEF Edit, QuietIn, TypeOK
    <2>3. /\ edits' \in Nat
          /\ UNCHANGED <<committed, rows, stamp, built, reading, changed, pc, call, stored, packet,
                         commits, indexings, faults>>
        BY <1>24 DEF Edit, TypeOK
    <2> QED
        BY <2>1, <2>2, <2>3 DEF TypeOK, call, checking, checked, results
<1>25. CASE UNCHANGED vars
    BY <1>25 DEF vars, TypeOK, world, call, checking, checked, results, history, counts
<1> QED
    BY <1>1, <1>2, <1>3, <1>4, <1>5, <1>6, <1>7, <1>8, <1>9, <1>10, <1>11, <1>12, <1>13, <1>14,
       <1>15, <1>16, <1>17, <1>18, <1>19, <1>20, <1>21, <1>22, <1>23, <1>24, <1>25 DEF Next, Call

(***************************************************************************)
(* What is known of the searches                                           *)
(***************************************************************************)
\* What the files had nothing for is known.
LEMMA QuietIsKnown ==
    ASSUME NEW f, NEW role, \A q \in AllSearches \ quiet : ~IsQuiet(q, f, changed)
    PROVE  Known(f, role)
BY DEF IsQuiet, Known

\* Searches of files that agree on a role's repositories find the same there.
LEMMA KnownAgree ==
    ASSUME NEW f, NEW g, NEW role, Known(g, role),
           \A d \in Docs : RoleOf[d] = role => f[d] = g[d]
    PROVE  Known(f, role)
<1> SUFFICES ASSUME NEW q \in AllSearches, q.section # "recent_changes", RoleBehind(q.section) = role
             PROVE  Hits(q, f) = Hits(q, g)
    BY DEF Known
<1>1. In(f, role) = In(g, role) /\ \A d \in In(f, role) : MetaIn(f, d) = MetaIn(g, d)
    BY DEF In, MetaIn
<1>2. CASE q.section = "implementation_evidence"
    BY <1>1, <1>2 DEF Hits, RoleBehind
<1>3. CASE q.section # "implementation_evidence"
    BY <1>1, <1>3 DEF Hits, RoleBehind
<1> QED
    BY <1>2, <1>3

\* What was recorded of a repository is what its files are at the status of now,
\* when it matches and the HEAD that was asked for is still there.
LEMMA MatchIsSource ==
    ASSUME Matches, asked # Absent, ~HeadMoved, NEW d \in Docs, RoleOf[d] = repo
    PROVE  recorded.files[d] = source[d]
<1> DEFINE f == recorded.files
           c == recorded.commit
<1>1. d \in DocsOf(repo) /\ c[d] = asked[d] /\ asked[d] = committed[d]
    BY DEF Matches, HeadMoved, DocsOf
<1>2. Status(f, c, repo) = Status(source, committed, repo)
    BY DEF Matches
<1> HIDE DEF f, c
<1>3. CASE source[d] # committed[d]
    <2>1. <<d, source[d]>> \in Status(f, c, repo)
        BY <1>1, <1>2, <1>3 DEF Status
    <2> QED
        BY <2>1 DEF Status, f
<1>4. CASE source[d] = committed[d]
    <2>1. ASSUME f[d] # c[d] PROVE FALSE
        <3>1. <<d, f[d]>> \in Status(source, committed, repo)
            BY <1>1, <1>2, <2>1 DEF Status
        <3> QED
            BY <1>4, <3>1 DEF Status
    <2> QED
        BY <1>1, <1>4, <2>1 DEF f
<1> QED
    BY <1>3, <1>4

\* Whether a section is stale does not change while the check's result stands.
LEMMA StaleKept ==
    ASSUME stale' = stale
    PROVE  \A s : SectionIsStale(s)' = SectionIsStale(s)
BY DEF SectionIsStale

\* A search that ends with results r of its section.
LEMMA ResultKeeps ==
    ASSUME TypeOK, CallInv, Past, pc # "answer",
           NEW s \in Sections, s = Head(todo).section,
           NEW r \in SUBSET Docs, Result(s, r), warned \subseteq warned',
           s \in DocumentSections /\ ~stored =>
               \A d \in r : rows[d] # Absent /\ Wants(s, MetaIn(rows, d)),
           ~unsure /\ r = {} /\ s \notin warned' /\ ~SectionIsStale(s)
               /\ (s = "recent_changes" \/ RoleBehind(s) \notin moved) => Head(todo) \in quiet
    PROVE  CallInv'
<1>1. /\ todo # <<>> /\ Elements(todo) = {Head(todo)} \cup Elements(Tail(todo))
      /\ (Tail(todo) = <<>> <=> Len(todo) = 1)
    BY HeadTypes DEF CallInv
<1>2. /\ todo' = Tail(todo) /\ pc' = (IF Len(todo) = 1 THEN "answer" ELSE "search")
      /\ check' = "packet" /\ repo' = "ops"
      /\ found' = [found EXCEPT ![s] = found[s] \cup r]
      /\ UNCHANGED <<source, rows, reading, changed, request, stale, moved, unsure, failed, quiet, stored>>
    BY DEF Result, NextSearch, EndCheck, world, checked, history
<1>3. pc # "idle" /\ pc' \in {"answer", "search"} /\ Past'
      /\ CheckedRoles = Roles /\ CheckedRoles' = Roles
    BY <1>2 DEF Past, CheckedRoles, CallInv, CheckIsOn
<1>4. \A t : SectionIsStale(t)' = SectionIsStale(t)
    BY <1>2, StaleKept
<1>5. FilesAreWatched' /\ CheckIsOn' /\ RecordIsKnown' /\ CheckedIsKnown'
    BY <1>2, <1>3 DEF CallInv, FilesAreWatched, CheckIsOn, RecordIsKnown, CheckedIsKnown, Known
<1>6. SearchIsOn'
    BY <1>1, <1>2, <1>3 DEF CallInv, SearchIsOn
<1>7. ASSUME ~unsure, NEW t \in Sections, Runs(request, t), t \notin failed \cup warned',
             t = "recent_changes" \/ RoleBehind(t) \notin moved, found'[t] = {}, ~SectionIsStale(t)
      PROVE  SearchesOf(t) \subseteq Elements(Tail(todo)) \cup quiet
    <2>1. found[t] = {} /\ t \notin failed \cup warned /\ (t = s => r = {})
        BY <1>2, <1>7 DEF TypeOK
    <2>2. SearchesOf(t) \subseteq {Head(todo)} \cup Elements(Tail(todo)) \cup quiet
        BY <1>1, <1>7, <2>1 DEF CallInv, SectionsAreSearched
    <2>3. CASE t = s
        BY <1>7, <2>1, <2>2, <2>3
    <2>4. CASE t # s
        BY <2>2, <2>4 DEF SearchesOf
    <2> QED
        BY <2>3, <2>4
<1>8. SectionsAreSearched'
    BY <1>2, <1>4, <1>7 DEF SectionsAreSearched
<1>9. FoundIsInRows'
    <2> SUFFICES ASSUME ~stored, NEW t \in DocumentSections, NEW d \in found'[t]
                 PROVE  rows[d] # Absent /\ Wants(t, MetaIn(rows, d))
        BY <1>2, <1>3 DEF FoundIsInRows, MetaIn
    <2>1. d \in found[t] \/ (t = s /\ d \in r)
        BY <1>2 DEF TypeOK, Sections
    <2> QED
        BY <2>1 DEF CallInv, FoundIsInRows
<1> QED
    BY <1>5, <1>6, <1>8, <1>9 DEF CallInv

\* A search that fails.
LEMMA ErrorKeeps ==
    ASSUME TypeOK, CallInv, Past, pc # "answer",
           NEW s \in Sections, s = Head(todo).section, Error(s)
    PROVE  CallInv'
<1>1. /\ todo # <<>> /\ Elements(todo) = {Head(todo)} \cup Elements(Tail(todo))
      /\ (Tail(todo) = <<>> <=> Len(todo) = 1)
    BY HeadTypes DEF CallInv
<1>2. /\ todo' = Tail(todo) /\ pc' = (IF Len(todo) = 1 THEN "answer" ELSE "search")
      /\ check' = "packet" /\ repo' = "ops"
      /\ failed' = failed \cup {s}
      /\ UNCHANGED <<source, rows, reading, changed, request, stale, moved, unsure, found, warned, quiet,
                     stored>>
    BY DEF Error, NextSearch, EndCheck, world, checked, history
<1>3. pc # "idle" /\ pc' \in {"answer", "search"} /\ Past'
      /\ CheckedRoles = Roles /\ CheckedRoles' = Roles
    BY <1>2 DEF Past, CheckedRoles, CallInv, CheckIsOn
<1>4. \A t : SectionIsStale(t)' = SectionIsStale(t)
    BY <1>2, StaleKept
<1>5. FilesAreWatched' /\ CheckIsOn' /\ RecordIsKnown' /\ CheckedIsKnown'
    BY <1>2, <1>3 DEF CallInv, FilesAreWatched, CheckIsOn, RecordIsKnown, CheckedIsKnown, Known
<1>6. SearchIsOn'
    BY <1>1, <1>2, <1>3 DEF CallInv, SearchIsOn
<1>7. ASSUME ~unsure, NEW t \in Sections, Runs(request, t), t \notin failed' \cup warned,
             t = "recent_changes" \/ RoleBehind(t) \notin moved, found[t] = {}, ~SectionIsStale(t)
      PROVE  SearchesOf(t) \subseteq Elements(Tail(todo)) \cup quiet
    <2>1. t # s /\ t \notin failed \cup warned
        BY <1>2, <1>7
    <2>2. SearchesOf(t) \subseteq {Head(todo)} \cup Elements(Tail(todo)) \cup quiet
        BY <1>1, <1>7, <2>1 DEF CallInv, SectionsAreSearched
    <2> QED
        BY <2>1, <2>2 DEF SearchesOf
<1>8. SectionsAreSearched'
    BY <1>2, <1>4, <1>7 DEF SectionsAreSearched
<1>9. FoundIsInRows'
    BY <1>2, <1>3 DEF CallInv, FoundIsInRows, MetaIn
<1> QED
    BY <1>5, <1>6, <1>8, <1>9 DEF CallInv

\* A comparison with git on the way of a search of code.
LEMMA CheckKeeps ==
    ASSUME TypeOK, CallInv, Past, pc # "answer", Head(todo).section = "implementation_evidence",
           check' \in {"fulltext", "text"}, pc' \in {"metadata", "head", "status", "scan"},
           check' = "fulltext" => hits' # {},
           UNCHANGED <<source, rows, reading, changed, request, stale, moved, unsure, todo, found, failed,
                       warned, quiet, stored>>
    PROVE  CallInv'
<1>1. todo # <<>> /\ Elements(todo) \subseteq AllSearches
    BY HeadTypes DEF CallInv, SearchIsOn
<1>2. pc # "idle" /\ Past' /\ CheckedRoles = Roles /\ CheckedRoles' = Roles
    BY DEF Past, CheckedRoles, CallInv, CheckIsOn
<1>3. \A t : SectionIsStale(t)' = SectionIsStale(t)
    BY StaleKept
<1>4. FilesAreWatched' /\ CheckIsOn' /\ RecordIsKnown' /\ CheckedIsKnown'
    BY <1>2 DEF CallInv, FilesAreWatched, CheckIsOn, RecordIsKnown, CheckedIsKnown, Known
<1>5. SearchIsOn'
    BY <1>1, <1>2 DEF SearchIsOn
<1>6. SectionsAreSearched'
    BY <1>3 DEF CallInv, SectionsAreSearched
<1>7. FoundIsInRows'
    BY <1>2 DEF CallInv, FoundIsInRows, MetaIn
<1> QED
    BY <1>4, <1>5, <1>6, <1>7 DEF CallInv

\* A step of the staleness check that a packet begins with.
LEMMA BeforeKeeps ==
    ASSUME TypeOK, CallInv, ~Past, pc # "idle",
           check' = "packet", pc' \in {"metadata", "head", "status"}, pc' = "metadata" => repo' = "ops",
           pc' = "status" /\ asked' = Absent => unsure',
           pc' # "metadata" /\ recorded' # Absent =>
               rows = recorded'.files \/ \A role \in Roles : Known(rows, role),
           pc' # "metadata" /\ repo' = "work" /\ ~unsure' /\ "ops" \notin stale' \cup moved' =>
               Known(rows, "ops"),
           UNCHANGED <<source, rows, reading, changed, found, quiet, stored>>
    PROVE  CallInv'
<1>1. ~Past'
    BY DEF Past
<1>2. FilesAreWatched' /\ CheckIsOn' /\ RecordIsKnown'
    BY DEF CallInv, FilesAreWatched, CheckIsOn, RecordIsKnown, Known
<1>3. CheckedIsKnown'
    <2> SUFFICES ASSUME ~unsure', NEW role \in CheckedRoles' \ (stale' \cup moved') PROVE Known(rows, role)
        BY DEF CheckedIsKnown, Known
    <2>1. role = "ops" /\ pc' # "metadata" /\ repo' = "work"
        BY <1>1 DEF CheckedRoles
    <2> QED
        BY <2>1
<1>4. SectionsAreSearched' /\ SearchIsOn'
    BY <1>1 DEF SectionsAreSearched, SearchIsOn
<1>5. FoundIsInRows'
    BY <1>1 DEF CallInv, FoundIsInRows, Sections
<1> QED
    BY <1>2, <1>3, <1>4, <1>5 DEF CallInv

\* The end of that check.
LEMMA SearchingKeeps ==
    ASSUME TypeOK, CallInv, ~Past, pc # "idle", Searching,
           UNCHANGED <<source, rows, reading, changed, request, found, failed, warned, quiet, stored>>,
           ~unsure' => \A role \in Roles \ (stale' \cup moved') : Known(rows, role)
    PROVE  CallInv'
<1>1. pc' = "search" /\ check' = "packet" /\ repo' = "ops" /\ todo' = Plan(request)
    BY DEF Searching, EndCheck
<1>2. Past' /\ CheckedRoles' = Roles
    BY <1>1 DEF Past, CheckedRoles
<1>3. request \in Requests
    BY DEF TypeOK
<1>4. /\ Plan(request) # <<>> /\ Elements(Plan(request)) \subseteq AllSearches
      /\ \A s \in Sections : Runs(request, s) => SearchesOf(s) \subseteq Elements(Plan(request))
    BY <1>3, PlanHolds
<1>5. FilesAreWatched' /\ CheckIsOn' /\ RecordIsKnown'
    BY <1>1 DEF CallInv, FilesAreWatched, CheckIsOn, RecordIsKnown, Known
<1>6. CheckedIsKnown'
    BY <1>2 DEF CheckedIsKnown, Known
<1>7. SectionsAreSearched' /\ SearchIsOn'
    BY <1>1, <1>4 DEF SectionsAreSearched, SearchIsOn
<1>8. FoundIsInRows'
    BY <1>2 DEF CallInv, FoundIsInRows, Sections
<1> QED
    BY <1>5, <1>6, <1>7, <1>8 DEF CallInv

\* The end of its comparison of one repository.
LEMMA CompareKeeps ==
    ASSUME TypeOK, CallInv, pc = "status", check = "packet", CompareStep,
           ~unsure' => ~unsure /\ stale \subseteq stale' /\ moved \subseteq moved'
                       /\ (repo \notin stale' \cup moved' => Known(rows, repo))
    PROVE  CallInv'
<1>1. ~Past /\ pc # "idle"
    BY DEF Past
<1>2. UNCHANGED <<source, rows, reading, changed, request, found, failed, warned, quiet, stored>>
    BY DEF CompareStep, world, results, history
<1>3. CASE OtherRepo("head")
    <2>1. repo = "ops" /\ repo' = "work" /\ pc' = "head" /\ UNCHANGED <<check, recorded>>
        BY <1>3 DEF OtherRepo
    <2>2. recorded # Absent => rows = recorded.files \/ \A role \in Roles : Known(rows, role)
        BY DEF CallInv, RecordIsKnown
    <2> QED
        BY <1>1, <1>2, <2>1, <2>2, BeforeKeeps
<1>4. CASE repo = "work" /\ Searching
    <2>1. ~unsure /\ "ops" \notin stale \cup moved => Known(rows, "ops")
        BY <1>1, <1>4 DEF CallInv, CheckedIsKnown, CheckedRoles
    <2> QED
        BY <1>1, <1>2, <1>4, <2>1, SearchingKeeps DEF Roles
<1> QED
    BY <1>3, <1>4 DEF CompareStep

\* The end of a call.
LEMMA DoneKeeps ==
    ASSUME Done
    PROVE  CallInv'
BY DEF Done, EndCheck, CallInv, FilesAreWatched, CheckIsOn, RecordIsKnown, CheckedIsKnown, CheckedRoles,
       SectionsAreSearched, SearchIsOn, FoundIsInRows, Past, Sections

\* A step of the user or of the other process that leaves the index alone.
LEMMA CallKept ==
    ASSUME CallInv, FilesAreWatched', quiet \subseteq quiet',
           UNCHANGED <<rows, pc, request, check, repo, recorded, asked, stale, moved, unsure, todo, hits,
                       found, failed, warned, stored>>
    PROVE  CallInv'
<1>1. Past' = Past /\ CheckedRoles' = CheckedRoles /\ \A t : SectionIsStale(t)' = SectionIsStale(t)
    BY StaleKept DEF Past, CheckedRoles
<1>2. CheckIsOn' /\ RecordIsKnown' /\ CheckedIsKnown'
    BY <1>1 DEF CallInv, CheckIsOn, RecordIsKnown, CheckedIsKnown, Known
<1>3. SectionsAreSearched' /\ SearchIsOn' /\ FoundIsInRows'
    BY <1>1 DEF CallInv, SectionsAreSearched, SearchIsOn, FoundIsInRows, MetaIn
<1> QED
    BY <1>2, <1>3 DEF CallInv

\* Every step keeps what is known.
LEMMA CallStep ==
    ASSUME TypeOK, CallInv, [Next]_vars
    PROVE  CallInv'
<1>0. /\ \A q, f : Hits(q, f) \in SUBSET Docs
      /\ SearchIsOn
    BY HitsInDocs DEF CallInv
<1>1. CASE Limit
    <2>1. /\ pc = "limit" /\ pc' = "metadata"
          /\ UNCHANGED <<source, rows, reading, changed, check, repo, found, quiet, stored>>
        BY <1>1 DEF Limit, world, checking, results, history
    <2> QED
        BY <2>1, BeforeKeeps DEF CallInv, CheckIsOn, Past
<1>2. CASE ReadMetadata
    <2>1. /\ pc = "metadata" /\ pc' = "head"
          /\ recorded' \in {[commit |-> stamp, files |-> rows], Absent}
          /\ UNCHANGED <<source, rows, reading, changed, request, check, repo, stale, moved, unsure, todo,
                         hits, found, failed, warned, quiet, stored>>
        BY <1>2 DEF ReadMetadata, world, checked, results, history
    <2>2. CASE check = "packet"
        BY <2>1, <2>2, BeforeKeeps DEF CallInv, CheckIsOn, Past
    <2>3. CASE check # "packet"
        BY <2>1, <2>3, CheckKeeps DEF CallInv, SearchIsOn, TypeOK, Past
    <2> QED
        BY <2>2, <2>3
<1>3. CASE ReadHead \/ MissHead
    <2>1. /\ pc = "head" /\ pc' = "status" /\ (unsure' # unsure => unsure')
          /\ UNCHANGED <<source, rows, reading, changed, request, check, repo, recorded, stale, moved, todo,
                         hits, found, failed, warned, quiet, stored>>
          /\ (check # "packet" => unsure' = unsure) /\ (asked' = Absent => unsure')
        BY <1>3 DEF ReadHead, MissHead, world, checked, results, history, TypeOK
    <2>2. CASE check = "packet"
        <3>1. recorded # Absent => rows = recorded.files \/ \A role \in Roles : Known(rows, role)
            BY <2>1, <2>2 DEF CallInv, RecordIsKnown
        <3>2. repo = "work" /\ ~unsure' /\ "ops" \notin stale \cup moved => Known(rows, "ops")
            BY <2>1, <2>2 DEF CallInv, CheckedIsKnown, CheckedRoles, Past, TypeOK
        <3> QED
            BY <2>1, <2>2, <3>1, <3>2, BeforeKeeps DEF Past
    <2>3. CASE check # "packet"
        BY <2>1, <2>3, CheckKeeps DEF CallInv, SearchIsOn, TypeOK, Past
    <2> QED
        BY <2>2, <2>3
<1>4. CASE Compare
    <2>1. /\ pc = "status" /\ check = "packet" /\ CompareStep /\ unsure' = unsure
          /\ stale' = IF Matches THEN stale ELSE stale \cup {repo}
          /\ moved' = IF HeadMoved THEN moved \cup {repo} ELSE moved
        BY <1>4 DEF Compare
    <2>2. ASSUME ~unsure, repo \notin stale' \cup moved' PROVE Known(rows, repo)
        <3>1. Matches /\ ~HeadMoved /\ recorded # Absent
            BY <2>1, <2>2 DEF Matches
        <3>2. asked # Absent
            BY <2>1, <2>2 DEF CallInv, CheckIsOn
        <3>3. \A d \in Docs : RoleOf[d] = repo => recorded.files[d] = source[d]
            BY <3>1, <3>2, MatchIsSource
        <3>4. CASE rows = recorded.files
            <4>1. Known(source, repo)
                BY <2>1, QuietIsKnown DEF CallInv, FilesAreWatched
            <4> QED
                BY <3>3, <3>4, <4>1, KnownAgree
        <3>5. CASE rows # recorded.files
            BY <2>1, <3>1, <3>5 DEF CallInv, RecordIsKnown, TypeOK
        <3> QED
            BY <3>4, <3>5
    <2> QED
        BY <2>1, <2>2, CompareKeeps
<1>5. CASE StatusFails
    BY <1>5, CompareKeeps DEF StatusFails
<1>6. CASE CheckFails
    <2>1. /\ pc = "metadata" /\ check = "packet" /\ Searching /\ unsure'
          /\ UNCHANGED <<source, rows, reading, changed, request, found, failed, warned, quiet, stored>>
        BY <1>6 DEF CheckFails, world, results, history
    <2> QED
        BY <2>1, SearchingKeeps DEF Past
<1>7. CASE SearchOps
    <2> DEFINE q == Head(todo)
               r == Hits(q, rows)
    <2>1. pc = "search" /\ q.section \in DocumentSections /\ Result(q.section, r) /\ warned' = warned
        BY <1>7 DEF SearchOps, InOps
    <2>2. q \in AllSearches /\ q.section \in Sections /\ q.type \in TypesOf(q.section)
        BY <1>0, <2>1, HeadTypes, SearchKinds DEF Past
    <2>3. q.section \notin {"implementation_evidence", "recent_changes"}
        BY <2>1 DEF DocumentSections
    <2>4. r = {d \in In(rows, "ops") : Finds(q.section, q.type, MetaIn(rows, d))}
        BY <2>3 DEF Hits
    <2>5. \A d \in r : rows[d] # Absent /\ Wants(q.section, MetaIn(rows, d))
        BY <2>2, <2>4 DEF In, Wants
    <2>6. ASSUME ~unsure, r = {}, ~SectionIsStale(q.section), RoleBehind(q.section) \notin moved
          PROVE  q \in quiet
        <3>1. "ops" \in Roles \ (stale \cup moved)
            BY <2>3, <2>6 DEF SectionIsStale, RoleBehind, Roles
        <3>2. Known(rows, "ops")
            BY <2>1, <2>6, <3>1 DEF CallInv, CheckedIsKnown, CheckedRoles, Past
        <3> QED
            BY <2>2, <2>3, <2>6, <3>2 DEF Known, RoleBehind
    <2> QED
        BY <1>0, <2>1, <2>2, <2>3, <2>5, <2>6, ResultKeeps DEF Past
<1>8. CASE SearchOpsFails
    BY <1>0, <1>8, HeadTypes, ErrorKeeps DEF SearchOpsFails, InOps, Past
<1>9. CASE Raises
    BY <1>9, DoneKeeps DEF Raises
<1>10. CASE SearchGraph
    BY <1>10, CheckKeeps DEF SearchGraph, InCode, CheckFor, Past, world, checked, results, history
<1>11. CASE GoToText
    BY <1>11, CheckKeeps DEF GoToText, InCode, CheckFor, Past, world, checked, results, history
<1>12. CASE SearchCodeFails
    BY <1>0, <1>12, HeadTypes, ErrorKeeps DEF SearchCodeFails, InCode, Past
<1>13. CASE RepoMatches
    <2>1. /\ pc = "status" /\ check # "packet" /\ check' = check /\ hits' = hits
          /\ pc' \in {"metadata", "scan"}
          /\ UNCHANGED <<source, rows, reading, changed, request, stale, moved, unsure, todo, found, failed,
                         warned, quiet, stored>>
        BY <1>13 DEF RepoMatches, OtherRepo, world, checked, results, history
    <2> QED
        BY <2>1, CheckKeeps DEF CallInv, SearchIsOn, TypeOK, Past
<1>14. CASE AddFullText
    <2> DEFINE standing == {d \in In(rows, "work") \cup In(rows, "ops") : Standing(MetaIn(rows, d))}
    <2>1. /\ pc = "scan" /\ check = "fulltext" /\ warned' = warned
          /\ Result("implementation_evidence", hits \cup standing)
        BY <1>14 DEF AddFullText
    <2>2. hits \cup standing \in SUBSET Docs
        BY DEF In, TypeOK
    <2>3. hits # {} /\ Head(todo).section = "implementation_evidence"
        BY <1>0, <2>1 DEF SearchIsOn, Past
    <2>4. "implementation_evidence" \in Sections \ DocumentSections
        BY DEF Sections, DocumentSections
    <2> HIDE DEF standing
    <2> QED
        BY <2>1, <2>2, <2>3, <2>4, ResultKeeps DEF Past
<1>15. CASE WithoutFullText
    <2>1. /\ check = "fulltext" /\ pc # "answer" /\ Result("implementation_evidence", hits)
          /\ warned' = warned \cup {"implementation_evidence"}
        BY <1>15 DEF WithoutFullText, CodeCheck
    <2>2. Head(todo).section = "implementation_evidence" /\ hits \in SUBSET Docs
        BY <1>0, <2>1 DEF SearchIsOn, Past, TypeOK
    <2>3. "implementation_evidence" \in Sections \ DocumentSections
        BY DEF Sections, DocumentSections
    <2> QED
        BY <2>1, <2>2, <2>3, ResultKeeps DEF Past
<1>16. CASE ScanText
    <2> DEFINE q == Head(todo)
               r == Hits(q, rows)
    <2>1. pc = "scan" /\ check = "text" /\ Result("implementation_evidence", r) /\ warned' = warned
        BY <1>16 DEF ScanText
    <2>2. q.section = "implementation_evidence" /\ q \in AllSearches
        BY <1>0, <2>1, HeadTypes DEF SearchIsOn, Past
    <2>3. "implementation_evidence" \in Sections \ DocumentSections
        BY DEF Sections, DocumentSections
    <2>4. ASSUME ~unsure, r = {}, ~SectionIsStale("implementation_evidence"),
                 RoleBehind("implementation_evidence") \notin moved
          PROVE  q \in quiet
        <3>1. "work" \in Roles \ (stale \cup moved)
            BY <2>4 DEF SectionIsStale, RoleBehind, Roles
        <3>2. Known(rows, "work")
            BY <2>1, <2>4, <3>1 DEF CallInv, CheckedIsKnown, CheckedRoles, Past
        <3> QED
            BY <2>2, <2>4, <3>2 DEF Known, RoleBehind
    <2> HIDE DEF r
    <2>5. r \in SUBSET Docs
        BY <1>0 DEF r
    <2> QED
        BY <2>1, <2>2, <2>3, <2>4, <2>5, ResultKeeps DEF Past
<1>17. CASE ScanTextFails
    <2>1. Past /\ pc # "answer" /\ Head(todo).section = "implementation_evidence"
        BY <1>0, <1>17 DEF ScanTextFails, CodeCheck, SearchIsOn, Past
    <2> QED
        BY <1>17, <2>1, ErrorKeeps DEF ScanTextFails, Sections
<1>18. CASE RecentChanges
    <2>1. /\ pc = "search" /\ Head(todo).section = "recent_changes"
          /\ Result("recent_changes", changed) /\ warned' = warned
        BY <1>18 DEF RecentChanges, InRecent
    <2>2. changed = {} => Head(todo) \in quiet
        <3>1. Head(todo) \in AllSearches
            BY <1>0, <2>1, HeadTypes DEF Past
        <3> QED
            BY <2>1, <3>1 DEF CallInv, FilesAreWatched, IsQuiet
    <2>3. "recent_changes" \in Sections \ DocumentSections /\ changed \in SUBSET Docs
        BY DEF Sections, DocumentSections, TypeOK
    <2> QED
        BY <2>1, <2>2, <2>3, ResultKeeps DEF Past
<1>19. CASE RecentChangesFail
    <2>1. PICK roles \in (SUBSET Roles) \ {Roles} :
              Result("recent_changes", {d \in changed : RoleOf[d] \in roles})
        BY <1>19 DEF RecentChangesFail
    <2>2. /\ pc = "search" /\ Head(todo).section = "recent_changes"
          /\ warned' = warned \cup {"recent_changes"}
        BY <1>19 DEF RecentChangesFail, InRecent
    <2>3. "recent_changes" \in Sections \ DocumentSections
          /\ {d \in changed : RoleOf[d] \in roles} \in SUBSET Docs
        BY DEF Sections, DocumentSections, TypeOK
    <2> QED
        BY <2>1, <2>2, <2>3, ResultKeeps DEF Past
<1>20. CASE Answer
    BY <1>20, DoneKeeps DEF Answer
<1>21. ASSUME NEW r \in Requests, Request(r) PROVE CallInv'
    <2>1. /\ pc = "idle" /\ pc' = "limit"
          /\ UNCHANGED <<source, reading, changed, rows, check, repo, found>>
          /\ quiet' = QuietIn(source, changed)
                      \cup (IF reading = Absent THEN {} ELSE QuietIn(reading.files, changed))
        BY <1>21 DEF Request, world, checking, results
    <2>2. check = "packet" /\ repo = "ops"
        BY <2>1 DEF CallInv, CheckIsOn
    <2>3. ~Past' /\ ~Past /\ CheckedRoles' = {}
        BY <2>1, <2>2 DEF Past, CheckedRoles
    <2>4. reading # Absent => \A role : Known(reading.files, role)'
        BY <2>1 DEF QuietIn, IsQuiet, Known
    <2>5. FilesAreWatched'
        BY <2>1, <2>4 DEF FilesAreWatched, QuietIn
    <2>6. FoundIsInRows'
        BY <2>1, <2>3 DEF CallInv, FoundIsInRows, Sections
    <2> QED
        BY <2>1, <2>2, <2>3, <2>5, <2>6
        DEF CallInv, CheckIsOn, RecordIsKnown, CheckedIsKnown, SectionsAreSearched, SearchIsOn
<1>22. CASE Read
    <2>1. /\ reading'.files = source
          /\ UNCHANGED <<source, rows, changed, pc, request, check, repo, recorded, asked, stale, moved,
                         unsure, todo, hits, found, failed, warned, quiet, stored>>
        BY <1>22 DEF Read, call, checking, checked, results, history
    <2>2. FilesAreWatched'
        <3>1. pc # "idle" => \A role \in Roles : Known(source, role)
            BY QuietIsKnown DEF CallInv, FilesAreWatched
        <3> QED
            BY <2>1, <3>1 DEF CallInv, FilesAreWatched, Known
    <2> QED
        BY <2>1, <2>2, CallKept
<1>23. CASE Store
    <2>1. /\ reading # Absent /\ rows' = reading.files /\ reading' = Absent
          /\ stored' = (stored \/ pc # "idle")
          /\ UNCHANGED <<source, changed, pc, request, check, repo, recorded, asked, stale, moved, unsure,
                         todo, hits, found, failed, warned, quiet>>
        BY <1>23 DEF Store, call, checking, checked, results
    <2>2. Past' = Past /\ CheckedRoles' = CheckedRoles /\ \A t : SectionIsStale(t)' = SectionIsStale(t)
        BY <2>1, StaleKept DEF Past, CheckedRoles
    <2>3. FilesAreWatched' /\ CheckIsOn'
        BY <2>1 DEF CallInv, FilesAreWatched, CheckIsOn
    <2>4. pc # "idle" => \A role \in Roles : Known(rows, role)'
        BY <2>1 DEF CallInv, FilesAreWatched, Known
    <2>5. pc = "idle" => CheckedRoles = {}
        BY DEF CallInv, CheckIsOn, CheckedRoles, Past
    <2>6. CheckedRoles \subseteq Roles
        BY DEF CheckedRoles, Roles
    <2>7. RecordIsKnown' /\ CheckedIsKnown'
        BY <2>1, <2>2, <2>4, <2>5, <2>6 DEF RecordIsKnown, CheckedIsKnown
    <2>8. SectionsAreSearched' /\ SearchIsOn'
        BY <2>1, <2>2 DEF CallInv, SectionsAreSearched, SearchIsOn
    <2>9. FoundIsInRows'
        <3>1. pc = "idle" => ~Past
            BY DEF CallInv, CheckIsOn, Past
        <3> QED
            BY <2>1, <2>2, <3>1 DEF CallInv, FoundIsInRows, DocumentSections, Sections
    <2> QED
        BY <2>3, <2>7, <2>8, <2>9 DEF CallInv
<1>24. ASSUME NEW d \in Docs, Commit(d) PROVE CallInv'
    <2>1. /\ changed \subseteq changed' /\ changed' # {}
          /\ UNCHANGED <<source, rows, reading, pc, request, check, repo, recorded, asked, stale, moved,
                         unsure, todo, hits, found, failed, warned, quiet, stored>>
        BY <1>24 DEF Commit, call, checking, checked, results, history
    <2>2. FilesAreWatched'
        BY <2>1 DEF CallInv, FilesAreWatched, IsQuiet, Known
    <2> QED
        BY <2>1, <2>2, CallKept
<1>25. ASSUME NEW d \in Docs, NEW says \in SaysOf[d] \cup {Absent}, Edit(d, says) PROVE CallInv'
    <2>1. /\ quiet \subseteq quiet' /\ (pc # "idle" => QuietIn(source', changed) \subseteq quiet')
          /\ UNCHANGED <<rows, reading, changed, pc, request, check, repo, recorded, asked, stale, moved,
                         unsure, todo, hits, found, failed, warned, stored>>
        BY <1>25 DEF Edit, call, checking, checked, results
    <2>2. FilesAreWatched'
        BY <2>1 DEF CallInv, FilesAreWatched, Known, QuietIn
    <2> QED
        BY <2>1, <2>2, CallKept
<1>26. CASE UNCHANGED vars
    <2>1. UNCHANGED <<source, rows, reading, changed, pc, request, check, repo, recorded, asked, stale, moved,
                      unsure, todo, hits, found, failed, warned, quiet, stored>>
        BY <1>26 DEF vars, world, call, checking, checked, results, history
    <2>2. FilesAreWatched'
        BY <2>1 DEF CallInv, FilesAreWatched, Known
    <2> QED
        BY <2>1, <2>2, CallKept
<1> QED
    BY <1>1, <1>2, <1>3, <1>4, <1>5, <1>6, <1>7, <1>8, <1>9, <1>10, <1>11, <1>12, <1>13, <1>14,
       <1>15, <1>16, <1>17, <1>18, <1>19, <1>20, <1>21, <1>22, <1>23, <1>24, <1>25, <1>26 DEF Next, Call

(***************************************************************************)
(* The answer                                                              *)
(***************************************************************************)
\* No answer, and one that was raised, promise nothing.
LEMMA EmptyPacket ==
    /\ \A s \in Sections : NoPacket.section[s].match = "indeterminate" /\ NoPacket.section[s].results = {}
    /\ packet' = NoPacket \/ packet' = [NoPacket EXCEPT !.request = request, !.state = "raised"] =>
          NoMatchWasTrue' /\ OneSectionEach'
<1>1. \A s \in Sections : NoPacket.section[s].match = "indeterminate" /\ NoPacket.section[s].results = {}
    BY NoPacketTypes
<1>2. ASSUME packet' = NoPacket \/ packet' = [NoPacket EXCEPT !.request = request, !.state = "raised"]
      PROVE  packet'.section = NoPacket.section
    BY <1>2 DEF NoPacket
<1>3. ASSUME packet'.section = NoPacket.section PROVE NoMatchWasTrue' /\ OneSectionEach'
    BY <1>1, <1>3 DEF NoMatchWasTrue, Overtaken, OneSectionEach, IsTrustworthy, Sections
<1> QED
    BY <1>1, <1>2, <1>3

\* An answer whose staleness check did not warn says "no match" only where it was true.
LEMMA AnswerIsTrue ==
    ASSUME TypeOK, CallInv, Answer
    PROVE  NoMatchWasTrue' /\ OneSectionEach'
<1> DEFINE sections == [s \in Sections |-> Section(s)]
<1>1. /\ pc = "answer"
      /\ packet' = [request |-> request, state |-> PacketState(sections), section |-> sections,
                    warned |-> unsure, moved |-> moved, quiet |-> quiet, stored |-> stored]
    BY DEF Answer
<1>2. /\ packet'.section = sections /\ packet'.warned = unsure /\ packet'.quiet = quiet
      /\ packet'.moved = moved
      /\ packet'.stored = stored
    BY <1>1
<1>3. Elements(todo) = {}
    BY <1>1, NoElements DEF CallInv, SearchIsOn, Past
<1>4. NoMatchWasTrue'
    <2> SUFFICES ASSUME ~unsure, NEW s \in Sections, ~Section(s).warned,
                        s = "recent_changes" \/ RoleBehind(s) \notin moved,
                        Section(s).match = "no_match", Section(s).freshness = "current"
                 PROVE  SearchesOf(s) \subseteq quiet
        BY <1>2 DEF NoMatchWasTrue, Overtaken, IsTrustworthy
    <2>1. Runs(request, s) /\ s \notin failed \cup warned /\ found[s] = {} /\ ~SectionIsStale(s)
        BY SectionTypes
    <2> QED
        BY <1>1, <1>3, <2>1 DEF CallInv, SectionsAreSearched, Past
<1>5. OneSectionEach'
    <2> SUFFICES ASSUME ~stored, NEW s \in DocumentSections, NEW t \in DocumentSections, s # t,
                        NEW d \in Section(s).results, d \in Section(t).results
                 PROVE  FALSE
        BY <1>2 DEF OneSectionEach, Sections
    <2>1. d \in found[s] /\ d \in found[t]
        BY SectionTypes DEF Sections
    <2>2. rows[d] # Absent /\ Wants(s, MetaIn(rows, d)) /\ Wants(t, MetaIn(rows, d))
        BY <2>1 DEF CallInv, FoundIsInRows
    <2>3. d \in Docs /\ rows \in Files
        BY <2>1 DEF TypeOK, Sections
    <2>4. MetaIn(rows, d) \in Meta
        BY <2>2, <2>3, FileTypes
    <2> QED
        BY <2>2, <2>4, SectionsAreDisjoint
<1> QED
    BY <1>4, <1>5

\* Nothing but the end of a call and the next one changes the answer.
LEMMA PacketStep ==
    ASSUME TypeOK, CallInv, NoMatchWasTrue, OneSectionEach, [Next]_vars
    PROVE  NoMatchWasTrue' /\ OneSectionEach'
<1>1. ASSUME packet' = packet PROVE NoMatchWasTrue' /\ OneSectionEach'
    BY <1>1 DEF NoMatchWasTrue, Overtaken, OneSectionEach, IsTrustworthy
<1>2. CASE Answer
    BY <1>2, AnswerIsTrue
<1>3. CASE Raises
    BY <1>3, EmptyPacket DEF Raises
<1>4. CASE \E r \in Requests : Request(r)
    BY <1>4, EmptyPacket DEF Request
<1>5. CASE Limit \/ ReadMetadata \/ ReadHead \/ MissHead \/ Compare \/ StatusFails \/ CheckFails
    BY <1>1, <1>5 DEF Limit, ReadMetadata, ReadHead, MissHead, Compare, StatusFails, CheckFails, CompareStep
<1>6. CASE SearchOps \/ SearchOpsFails \/ SearchGraph \/ GoToText \/ SearchCodeFails
    BY <1>1, <1>6 DEF SearchOps, SearchOpsFails, SearchGraph, GoToText, SearchCodeFails, Result, Error,
                      CheckFor
<1>7. CASE RepoMatches \/ AddFullText \/ WithoutFullText \/ ScanText \/ ScanTextFails
    BY <1>1, <1>7 DEF RepoMatches, AddFullText, WithoutFullText, ScanText, ScanTextFails, Result, Error
<1>8. CASE RecentChanges \/ RecentChangesFail
    BY <1>1, <1>8 DEF RecentChanges, RecentChangesFail, Result
<1>9. CASE Read \/ Store \/ UNCHANGED vars
    BY <1>1, <1>9 DEF Read, Store, vars
<1>10. CASE \E d \in Docs : Commit(d) \/ \E says \in SaysOf[d] \cup {Absent} : Edit(d, says)
    BY <1>1, <1>10 DEF Commit, Edit
<1> QED
    BY <1>2, <1>3, <1>4, <1>5, <1>6, <1>7, <1>8, <1>9, <1>10 DEF Next, Call

\* The first state satisfies it.
LEMMA InitIInv == Init => IInv
<1> SUFFICES ASSUME Init PROVE IInv
    OBVIOUS
<1>1. TypeOK
    <2>1. Nothing \in Files /\ <<>> \in Seq(Search)
        BY NothingTypes, NoElements
    <2> QED
        BY <2>1, NoPacketTypes DEF Init, TypeOK, Locations, Roles
<1>2. CallInv
    BY DEF Init, CallInv, FilesAreWatched, CheckIsOn, RecordIsKnown, CheckedIsKnown, CheckedRoles,
           SectionsAreSearched, SearchIsOn, FoundIsInRows, Past, Sections
<1> QED
    BY <1>1, <1>2 DEF IInv

\* The packet under way knows what it will say, and every step keeps that: of a
\* repository that the staleness check passes it knows nothing when HEAD moved
\* between the read of HEAD and the read of the status.
THEOREM Invariance == Spec => []IInv
<1>1. Init => IInv
    BY InitIInv
<1>2. IInv /\ [Next]_vars => IInv'
    BY TypeStep, CallStep DEF IInv, CallInv
<1> QED
    BY <1>1, <1>2, PTL DEF Spec

\* Every variable keeps its type, for any documents and requests (TypeOK).
THEOREM Typing == Spec => []TypeOK
<1>1. IInv => TypeOK
    BY DEF IInv
<1> QED
    BY <1>1, Invariance, PTL

\* What the last answer says is true, as long as nobody asks again.
LEMMA AnswersAreTrue == Spec => [](NoMatchWasTrue /\ OneSectionEach)
<1>1. Init => NoMatchWasTrue /\ OneSectionEach
    BY NoPacketTypes DEF Init, NoMatchWasTrue, Overtaken, OneSectionEach, IsTrustworthy, Sections
<1>2. IInv /\ NoMatchWasTrue /\ OneSectionEach /\ [Next]_vars => (NoMatchWasTrue /\ OneSectionEach)'
    BY PacketStep DEF IInv
<1> QED
    BY <1>1, <1>2, Invariance, PTL DEF Spec

\* Where nothing warns, "no match" was true of the files for every search behind it,
\* whatever is edited, committed, indexed or failing meanwhile, unless a commit came
\* between the two reads of the staleness check behind it (get_project_state,
\* _repo_staleness_status).
THEOREM NoMatchIsEarned == Spec => []NoMatchWasTrue
    BY AnswersAreTrue, PTL

\* No document is shown by two sections of one packet that read the ops repository
\* (get_project_state_from_config).
THEOREM OneSectionForEach == Spec => []OneSectionEach
    BY AnswersAreTrue, PTL
=============================================================================
