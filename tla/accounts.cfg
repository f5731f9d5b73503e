SPECIFICATION Spec
CONSTANTS
    Users = {1, 2}
    Threads = {t1, t2}
    Loop = loop
    MaxSessions = 1
    MaxTokens = 1
    MaxRequests = 5
SYMMETRY Interchangeable
INVARIANTS TypeOK TokensNearCap NothingInherited
PROPERTIES OnlyStaleCountsTakeLastAdmin
CHECK_DEADLOCK FALSE
