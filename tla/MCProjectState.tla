---------------------------- MODULE MCProjectState ----------------------------
(***************************************************************************)
(* Model checking of ProjectState: a decision that is proposed or          *)
(* withdrawn, a note, and a source file.                                   *)
(***************************************************************************)
EXTENDS ProjectState

Unset == As("unset", "unset", "unset")
RoleOfDocs == [d \in Docs |-> IF d = "main" THEN "work" ELSE "ops"]
PlaceOfDocs == [d \in Docs |-> CASE d = "adr" -> "decisions" [] d = "idea" -> "notes" [] OTHER -> "src"]
SaysOfDocs ==
    [d \in Docs |->
        IF d = "adr"
        THEN {As("proposal", "draft", "unset"), As("unset", "superseded", "unset")} ELSE {Unset}]
AskedPackets ==
    {[view |-> "doctrine", superseded |-> FALSE, since |-> TRUE],
     [view |-> "doctrine_and_discussion", superseded |-> TRUE, since |-> FALSE]}
=============================================================================
