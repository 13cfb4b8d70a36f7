SPECIFICATION Spec
CONSTANTS
    a1 = a1
    a2 = a2
    r1 = r1
    r2 = r2
    Actor = {a1, a2}
    OperationId = {i1}
    Request = {r1}
    None = None
    Content <- MCContent
    InitialContent <- MCInitialContent
    Raised <- MCRaised
    Strategies = {"reject"}
    MergedContent <- MCMergedContent
    MaxVersion = 3
    MaxQueued = 2
    MaxRequests = 3
PROPERTIES
    AppliedGetsRow
CHECK_DEADLOCK FALSE
