\* One edit, one commit, one run of the other process, one failure.
CONSTANTS
    Docs = {"idea", "main"}
    RoleOf <- RoleOfDocs
    PlaceOf <- PlaceOfDocs
    SaysOf <- SaysOfDocs
    Absent = Absent
    Requests <- AskedPackets
    Fallback = TRUE
    MaxEdits = 1
    MaxCommits = 1
    MaxIndexings = 1
    MaxFaults = 1
SPECIFICATION Spec
INVARIANT NotesOnlyInDiscussions
