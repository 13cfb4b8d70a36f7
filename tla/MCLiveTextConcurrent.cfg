SPECIFICATION Spec
CONSTANTS
    c1 = c1
    c2 = c2
    Client = {c1, c2}
    Writer = {c1}
    InitialText <- MCInitialText
    Conditions <- MCBothWrite
    MAX_TEXT_SESSION_OPERATIONS = 1000
    MAX_TEXT_OPERATION_LENGTH = 2
    MaxEdits <- MCMaxEdits
    MaxDrops <- MCMaxDrops
    MaxSent = 4
    Wide <- MCWide
PROPERTIES
    AcceptedTextStands
CHECK_DEADLOCK FALSE
