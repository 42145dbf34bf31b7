\* Two servers, two branch names; a reviewer merges or pushes once.
CONSTANTS
    Writers = {w1, w2}
    Names = {"topic", "other"}
    Files = {"doctrine", "new"}
    Tracked = {"doctrine"}
    None = None
    Asked <- AskedChanges
    Requests <- AskedRequests
    Modes = {"local", "remote"}
    MaxCommits = 2
    MaxPushes = 1
    MaxFaults = 1
    MaxEdits = 1
    Free = Free
    Orphan = Orphan
SPECIFICATION Spec
INVARIANT TypeOK
INVARIANT LockHeldInside
INVARIANT PreparedIsAsked
INVARIANT IInv
PROPERTY FailureRestores
PROPERTY ImplementsReviewBoard
SYMMETRY Symmetry
