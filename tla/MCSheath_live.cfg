CONSTANTS
    t1 = t1
    t2 = t2
    w1 = w1
    w2 = w2
    Torrents = {t1, t2}
    Workers = {w1}
    Ops = {"metainfo", "drop", "start"}
    Events = {}
    MovesFinished = FALSE
    DiskFails = TRUE
    Chunk = 2
    MaxRequests = 2
    MaxUpdates = 1
    MaxRuns = 1
    MayCrash = FALSE
SPECIFICATION Spec
CHECK_DEADLOCK FALSE
INVARIANTS
    ShutdownDrained
    SnapshotSaved
PROPERTIES
    KeepsStore
    ShutdownTerminates
    NewTorrentPersisted
