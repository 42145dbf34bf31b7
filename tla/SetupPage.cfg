\* Three requests of any kinds, one call that fails or one restart of the page.
CONSTANTS
    r1 = r1
    r2 = r2
    r3 = r3
    Requests = {r1, r2, r3}
    Asked <- AskedRequests
    Root <- ProjectRoot
    Ops <- OpsPath
    Work <- CodePaths
    Files <- AllUsable
    Nothing = Nothing
    User = User
    Partial = Partial
    MaxFaults = 1
SYMMETRY AnyOrder
SPECIFICATION Spec
INVARIANT TypeOK
INVARIANT SingleService
INVARIANT ConfigIsBacked
INVARIANT TokensAgree
PROPERTY StopLeavesNothing
PROPERTY NoUnconfirmedOverwrite
