SPECIFICATION MCSpec
CONSTANTS
    c1 = c1
    c2 = c2
    Client = {c1, c2}
    Writer = {c1}
    InitialText <- MCInitialText
    Conditions <- MCConditions
    MAX_TEXT_SESSION_OPERATIONS = 1000
    MAX_TEXT_OPERATION_LENGTH = 2
    MaxEdits <- MCMaxEdits
    MaxDrops <- MCMaxDrops
    MaxSent = 4
    Wide <- MCWide
    good = good
    big = big
    large = large
    many = many
    twice = twice
    infinite = infinite
    broken = broken
    s1 = s1
    s2 = s2
    Project = {p1, p2}
    Schema = {s1, s2}
    Pattern <- MCPattern
    Archive = {good, big, large, many, twice, infinite, broken}
    Listing <- MCListing
    OtherPath <- MCOtherPath
    MaxDocuments = 2
    MaxBytes = 3
    MaxFiles = 2
    MaxTotalBytes = 3
    MaxChanges = 2
    MaxFaults = 1
    Document = {d1, d2}
    MaxAttempts = 4
    MaxMoves = 2
INVARIANTS
    ShadowIsSessionText
    ReportIsTrue
    ImportsWhatWasShown
PROPERTIES
    UnsentTextKept
    Converges
    ButtonsComeBack
CHECK_DEADLOCK FALSE
