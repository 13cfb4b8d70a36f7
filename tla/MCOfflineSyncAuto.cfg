SPECIFICATION Spec
CONSTANTS
    a1 = a1
    a2 = a2
    r1 = r1
    r2 = r2
    Actor = {a1, a2}
    OperationId = {i1, i2}
    Request = {r1, r2}
    None = None
    Content <- MCContent
    InitialContent <- MCInitialContent
    Raised <- MCRaised
    Strategies = {"auto"}
    MergedContent <- MCMergedContent
    MaxVersion = 4
    MaxQueued = 1
    MaxRequests = 3
SYMMETRY Symmetry
INVARIANTS
    SyncedOnce
CHECK_DEADLOCK FALSE
