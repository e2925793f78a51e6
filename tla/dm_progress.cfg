SPECIFICATION FairSpec
CONSTANTS
    NumChunks = 1
    FlushInterval = 1
    Obj = {o1, o2}
    Task = {t1, t2}
    Pauser = {p1}
    Evictable <- AllChunks
    FaultyDisk = FALSE
    NoObj = NoObj
    NoTask = NoTask
    NoRecord = NoRecord
    Idle = Idle
PROPERTIES PauseReturns DownloadEnds
