------------------------------ MODULE ReviewBoard ------------------------------
(***************************************************************************)
(* What propose_authority_change promises to the people who review: a      *)
(* proposal appears under its branch name and is never rewritten, and the  *)
(* canonical branch moves only by what they do themselves, merging a       *)
(* proposal or pushing something else ("authority_boundary":               *)
(* "review_required_before_promotion").                                    *)
(*                                                                         *)
(* A commit is the canonical commit it starts from and the changes on top  *)
(* of that; the canonical branch is the sequence of what was merged.       *)
(***************************************************************************)
EXTENDS Naturals, Sequences

CONSTANTS
    Names,      \* branch names of proposals
    Files,
    Tracked,    \* the files of the repository at first
    None        \* no such branch

VARIABLES
    canonical,  \* the canonical branch at its remote
    proposals   \* the proposal branches at the remote

Change == [id : Nat, adds : SUBSET Files, replaces : SUBSET Files]
Commit == [base : Nat, stack : Seq(Change)]

AddedBy(c) == UNION {c.stack[i].adds : i \in 1..Len(c.stack)}

\* The files at commit c, and at the commit it was made on.
FilesAt(c) == Tracked \cup AddedBy(c) \cup UNION {AddedBy(canonical[i]) : i \in 1..c.base}
Parent(c) == [c EXCEPT !.stack = SubSeq(@, 1, Len(@) - 1)]
Last(c) == c.stack[Len(c.stack)]

\* c is d or a commit that d has in its history.
IsAncestor(c, d) ==
    \/ /\ c.base = d.base
       /\ Len(c.stack) <= Len(d.stack)
       /\ c.stack = SubSeq(d.stack, 1, Len(c.stack))
    \/ \E i \in 1..d.base :
        /\ c.base = canonical[i].base
        /\ Len(c.stack) <= Len(canonical[i].stack)
        /\ c.stack = SubSeq(canonical[i].stack, 1, Len(c.stack))

FastForward(n, c) == proposals[n] # None => IsAncestor(proposals[n], c)

BoardInit ==
    /\ canonical = <<>>
    /\ proposals = [n \in Names |-> None]

Propose(n, c) ==
    /\ c \in Commit
    /\ c.base <= Len(canonical)
    /\ FastForward(n, c)
    /\ proposals' = [proposals EXCEPT ![n] = c]
    /\ UNCHANGED canonical

\* A proposal is merged, or the reviewers push a change of their own.
Merge(n) ==
    /\ proposals[n] # None
    /\ AddedBy(proposals[n]) \cap UNION {AddedBy(canonical[i]) : i \in 1..Len(canonical)} = {}
    /\ canonical' = Append(canonical, proposals[n])
    /\ UNCHANGED proposals

PushOwn(f) ==
    LET tip == [base |-> Len(canonical), stack |-> <<>>]
        there == FilesAt(tip)
        change == [id |-> 0, adds |-> {f} \ there, replaces |-> {f} \cap there]
    IN  /\ canonical' = Append(canonical, [tip EXCEPT !.stack = <<change>>])
        /\ UNCHANGED proposals

BoardNext ==
    \/ \E n \in Names : Merge(n)
    \/ \E f \in Files : PushOwn(f)
    \/ \E n \in Names : \E c \in {proposals'[n]} : Propose(n, c)

BoardSpec == BoardInit /\ [][BoardNext]_<<canonical, proposals>>
=============================================================================
