CONSTANTS
    t1 = t1
    t2 = t2
    w1 = w1
    w2 = w2
    Torrents = {t1}
    Workers = {w1}
    Ops = {"magnet", "metainfo", "watch"}
    Events = {"metadata", "finished", "progress"}
    MovesFinished = TRUE
    DiskFails = TRUE
    Chunk = 1
    MaxRequests = 1
    MaxUpdates = 1
    MaxRuns = 3
    MayCrash = TRUE
SPECIFICATION Spec
CHECK_DEADLOCK FALSE
INVARIANTS
    CleanIsDurable
    MirrorFresh
PROPERTY
    KeepsStore
    NeverRegresses
