SPECIFICATION MCSpec
CONSTANTS
    Parts = {"sockets", "sync", "commands"}
    Sessions = {s1, s2}
    Sockets = {w1, w2}
    Instances = {i1, i2}
    Tickets = {t1, t2}
    MaxConnections = 1
    None = None
    NChannels = 2
    Public = {2}
    MaxSeq = 2
    SyncLimit = 1
    HistoryBatch = 1
    HistoryCap = 1
    MaxChanges = 1
    Idle = Idle
INVARIANTS
    RegistriesExact
    CursorCovers
PROPERTIES
    EndedSessionsDisconnect
    CatchesUp
CHECK_DEADLOCK FALSE
