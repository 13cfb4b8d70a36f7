SPECIFICATION MCSpec
CONSTANTS
    t1 = t1
    t2 = t2
    s1 = s1
    s2 = s2
    Tab = {t1}
    Server = {s1, s2}
    Home <- MCHome
    MaxEvents = 1
    PresenceTab = {t1, t2}
    MaxMoves = 1
    MaxSockets = 2
    MaxPosts = 1
PROPERTIES
    EditsKept
CHECK_DEADLOCK FALSE
