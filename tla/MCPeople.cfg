SPECIFICATION MCSpec
CONSTANTS
    ann = ann
    bob = bob
    cyd = cyd
    d1 = d1
    d2 = d2
    User = {ann, bob, cyd}
    WorkspaceOwner = ann
    GrantedRole = {"owner", "reviewer"}
    MaxAudit = 4
    MaxInvitations = 1
    MaxRefusing = 2
    Document = {d1, d2}
    MaxVersion = 3
    MaxReviews = 1
    MaxDecisions = 2
    MaxAuditAtWork = 2
    MaxThreads = 1
    MaxComments = 2
    Person = {bob, cyd}
    MaxSessions = 3
    MaxStates = 2
    Project = {d1, d2}
    Limit = 2
    MaxCount = 3
    MaxTokens = 1
    MaxMoves = 2
SYMMETRY MCSymmetry
CONSTRAINT Explored
INVARIANTS
    KeepsAnOwner
    AuditIsTrue
    StatusTellsDecisions
    AppliedAsReviewed
    AnchorsBelong
    OnlyNewestLives
    OneSessionPerLogin
    WithinLimit
    ActsAsAuthenticated
PROPERTIES
    EndedStaysEnded
CHECK_DEADLOCK FALSE
