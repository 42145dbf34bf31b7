------------------------------ MODULE MCSetupPage ------------------------------
(***************************************************************************)
(* Model checking of SetupPage: an ops repository that is the project's    *)
(* root and two code repositories beside it.                               *)
(***************************************************************************)
EXTENDS SetupPage, TLC

ProjectRoot == <<"home", "project">>
OpsPath == ProjectRoot
CodePaths == <<<<"home", "server">>, <<"home", "client">>>>
AllUsable ==
    LET paths == {OpsPath} \cup {CodePaths[i] : i \in DOMAIN CodePaths}
    IN  [exists |-> paths, git |-> paths, writable |-> paths]

Writes(confirm, bridgeInput, idSafe) ==
    [op |-> "write", confirm |-> confirm, bridge |-> bridgeInput, idSafe |-> idSafe]
AskedRequests ==
    {Writes(FALSE, "on", TRUE), Writes(TRUE, "on", TRUE), Writes(TRUE, "off", FALSE),
     Writes(TRUE, "unacknowledged", TRUE)}
        \cup [op : {"start", "stop", "up", "down"}]

AnyOrder == Permutations(Requests)
=============================================================================
