\* One edit, no commit, one run of the other process, one failure.
CONSTANTS
    Docs = {"adr", "main"}
    RoleOf <- RoleOfDocs
    PlaceOf <- PlaceOfDocs
    SaysOf <- SaysOfDocs
    Absent = Absent
    Requests <- AskedPackets
    Fallback = TRUE
    MaxEdits = 1
    MaxCommits = 0
    MaxIndexings = 1
    MaxFaults = 1
SPECIFICATION Spec
INVARIANT NoMatchIsTrustworthy
