-------------------------- MODULE CanonicalSource --------------------------
(***************************************************************************)
(* What one server promises the readers of a remote repository, whatever   *)
(* fails underneath: the index is at some commit of the canonical branch,  *)
(* moves only forward along it, and never while a read is under way.       *)
(***************************************************************************)
EXTENDS Naturals

CONSTANT MaxCommit

VARIABLES
    origin,         \* head of the canonical branch, at the remote
    published,      \* the commit the index holds, 0 when there is none yet
    reading         \* a read that was admitted is under way

sourceVars == <<origin, published, reading>>

SourceInit == origin = 1 /\ published = 0 /\ reading = FALSE

PushCommit ==
    /\ origin < MaxCommit
    /\ origin' = origin + 1
    /\ UNCHANGED <<published, reading>>

Publish ==
    /\ ~reading
    /\ published' \in published + 1 .. origin
    /\ UNCHANGED <<origin, reading>>

AdmitRead ==
    /\ published # 0
    /\ ~reading
    /\ reading' = TRUE
    /\ UNCHANGED <<origin, published>>

FinishRead ==
    /\ reading
    /\ reading' = FALSE
    /\ UNCHANGED <<origin, published>>

SourceNext == PushCommit \/ Publish \/ AdmitRead \/ FinishRead

SourceSpec == SourceInit /\ [][SourceNext]_sourceVars
=============================================================================
