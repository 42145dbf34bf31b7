-------------------------- MODULE MCAuthorityProposal --------------------------
(***************************************************************************)
(* Model checking of AuthorityProposal: one document is there, one is not; *)
(* a client asks to add one, to replace the other, or to replace what only *)
(* the workspace's user may have made.                                     *)
(***************************************************************************)
EXTENDS AuthorityProposal, TLC

Add == [adds |-> {"new"}, replaces |-> {}]
Replace == [adds |-> {}, replaces |-> {"doctrine"}]
ReplaceNew == [adds |-> {}, replaces |-> {"new"}]
AskedChanges == {Add, Replace, ReplaceNew}
AskedRequests == {<<"topic", Add>>, <<"other", Replace>>, <<"topic", ReplaceNew>>}
Symmetry == Permutations(Writers)
=============================================================================
