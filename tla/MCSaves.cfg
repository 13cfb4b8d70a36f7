SPECIFICATION MCSpec
CONSTANTS
    a1 = a1
    a2 = a2
    r1 = r1
    r2 = r2
    Actor = {a1, a2}
    OperationId = {i1, i2}
    Request = {r1, r2}
    None = None
    Content <- MCTwoContents
    InitialContent <- MCInitialContent
    Raised <- MCRaised
    Strategies = {"reject"}
    MergedContent <- MCMergedContent
    MaxVersion = 4
    MaxQueued = 2
    MaxRequests = 3
    DecimalTokens <- MCDecimalTokens
    KeyOrder <- MCKeyOrder
    Documents <- MCDocuments
    MaxWrites = 1
    JsonValue <- MCJsonValue
    PatchDocuments <- MCPatchDocuments
    Operations <- MCOperations
    MaxPatchLength = 3
    Contents <- MCContents
    Snapshots <- MCSnapshots
    EventPatches <- MCEventPatches
    StoredValues <- MCStoredValues
    Equal <- PythonEqual
    Differences <- MCDifferences
    MaxLogLength = 4
    KeepCount = 2
    MaxBackups = 4
    MaxUnderWay = 2
    MaxFaults = 2
SYMMETRY Symmetry
CONSTRAINT Explored
INVARIANTS
    SavedIsCandidate
    InverseUndoes
    ChangedPathsCover
    AppliedOnce
    ReportsTell
    QueuedUntilSettled
    KeepsNewest
PROPERTIES
    MergeIsThreeWay
    RefusalIsJustified
CHECK_DEADLOCK FALSE
