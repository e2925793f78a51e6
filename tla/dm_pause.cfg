SPECIFICATION Spec
CONSTANTS
    NumChunks = 2
    FlushInterval = 2
    Obj = {o1, o2}
    Task = {t1, t2}
    Pauser = {p1}
    Evictable <- FirstChunk
    FaultyDisk = TRUE
    NoObj = NoObj
    NoTask = NoTask
    NoRecord = NoRecord
    Idle = Idle
SYMMETRY Symmetry
INVARIANTS TypeOK ChunksPartitioned StoredBeforeClaimed CompletedMissesNothing DownloadingIsServed
