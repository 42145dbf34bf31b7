--------------------------- MODULE MCWorkspaceIndex ---------------------------
(***************************************************************************)
(* Model checking of WorkspaceIndex: the sets of configurations of its     *)
(* runs.  Nothing changes while a repository that excludes uncommitted     *)
(* changes is being indexed (editing is FALSE): the status is read before  *)
(* the files.                                                              *)
(***************************************************************************)
EXTENDS WorkspaceIndex

Workspace(auto, editing) ==
    [mode |-> "workspace", includes |-> TRUE, auto |-> auto, editing |-> editing]
Committed(mode) ==
    [mode |-> mode, includes |-> FALSE, auto |-> TRUE, editing |-> FALSE]

\* Notes wait for index_project where the whole worktree counts.
SoundConfigs ==
    {Workspace(FALSE, TRUE), Workspace(FALSE, FALSE), Committed("workspace"), Committed("snapshot")}

\* The defaults: a workspace whose notes are indexed as they are written.
DefaultConfigs == {Workspace(TRUE, FALSE)}
=============================================================================
