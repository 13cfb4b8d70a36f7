SPECIFICATION MCSpec
CONSTANTS
    t1 = t1
    t2 = t2
    s1 = s1
    s2 = s2
    Tab = {t1}
    Server = {s1, s2}
    Home <- MCHome
    MaxEvents = 2
    PresenceTab = {t1, t2}
    MaxMoves = 4
    MaxSockets = 2
    MaxPosts = 1
INVARIANTS
    LeftIsGone
PROPERTIES
    CatchesUp
CHECK_DEADLOCK FALSE
