SPECIFICATION ContentSpec
CONSTANTS
    DecimalTokens <- MCDecimalTokens
    KeyOrder <- MCKeyOrder
    Documents <- MCBooleans
    MaxWrites = 1
INVARIANTS
    SavedIsCandidate
CHECK_DEADLOCK FALSE
