SPECIFICATION Spec
CONSTANTS
    c1 = c1
    c2 = c2
    Client = {c1, c2}
    None = None
    Failed = Failed
    InitialTexts <- MCTexts
    MAX_TEXT_SESSION_OPERATIONS = 2
    MAX_TEXT_OPERATION_LENGTH = 20000
    Bounds <- MCBounds
    Strategies <- MCStrategies
    Parses <- MCParses
    Formatted <- MCFormatted
    AutoMerge <- MCAutoMerge
SYMMETRY Symmetry
INVARIANTS
    JoinedIsReplay
    AppliedOnce
    CommitLosesNoOperation
PROPERTIES
    IntentionPreserved
CHECK_DEADLOCK FALSE
