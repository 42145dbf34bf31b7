\* Two servers; somebody else pushes once.
CONSTANTS
    Writers = {w1, w2}
    Notes = {"note", "draft"}
    Drafts = {"draft"}
    Paths = {"p", "q"}
    PathOf <- PathsOfNotes
    Others = {"theirs"}
    Nowhere = "elsewhere"
    InScope = {"p"}
    Modes = {"workspace", "remote", "local"}
    Torn = Torn
    Missing = Missing
    MaxPushes = 1
    MaxFaults = 1
    Free = Free
    Orphan = Orphan
SPECIFICATION Spec
INVARIANT TypeOK
INVARIANT ReportedIsPublished
INVARIANT IndexedIsRetrievable
INVARIANT WrittenIsKept
INVARIANT IInv
PROPERTY ImplementsNoteLog
SYMMETRY Symmetry
