SPECIFICATION Spec
CONSTANTS
    NumChunks = 3
    FlushInterval = 2
    Obj = {o1, o2}
    Task = {t1, t2}
    Pauser = {}
    Evictable <- FirstChunk
    FaultyDisk = FALSE
    NoObj = NoObj
    NoTask = NoTask
    NoRecord = NoRecord
    Idle = Idle
INVARIANTS FlushBound WorkersAreManaged
PROPERTIES RecordAdvances
