--------------------------- MODULE MCCapturePublish ---------------------------
(***************************************************************************)
(* Model checking of CapturePublish: a note, which two servers may be      *)
(* asked to write, and a draft for a path that the index leaves out.       *)
(***************************************************************************)
EXTENDS CapturePublish, TLC

PathsOfNotes == [n \in {"note", "draft"} |-> IF n = "draft" THEN "q" ELSE "p"]
Symmetry == Permutations(Writers)
=============================================================================
