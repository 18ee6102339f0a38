CONSTANTS
    t1 = t1
    t2 = t2
    w1 = w1
    w2 = w2
    Torrents = {t1}
    Workers = {w1, w2}
    Ops = {"magnet", "metainfo", "drop", "toggle", "files"}
    Events = {}
    MovesFinished = FALSE
    DiskFails = FALSE
    Chunk = 1
    MaxRequests = 3
    MaxUpdates = 1
    MaxRuns = 1
    MayCrash = FALSE
SPECIFICATION Spec
SYMMETRY WorkerSymmetry
CHECK_DEADLOCK FALSE
INVARIANTS
    TypeOK
    OutstandingExact
    MirrorSound
    AbortNeedsRemoval
