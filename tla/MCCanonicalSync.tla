--------------------------- MODULE MCCanonicalSync ---------------------------
(***************************************************************************)
(* Model checking of CanonicalSync: the configurations CanonicalSync*.cfg  *)
(* give the constants their values.                                        *)
(***************************************************************************)
EXTENDS CanonicalSync, TLC

\* Two servers differ in nothing but their names; used without liveness only.
Symmetry == Permutations(Servers)
=============================================================================
