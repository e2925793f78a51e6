SPECIFICATION FairSpec
CONSTANTS
    NumChunks = 2
    Window = 1
    MaxRetries = 0
    Transfers = 1
    Ignores = 0
    Breakable = FALSE
    Sharing = {FALSE}
PROPERTIES EverythingIsSent
CHECK_DEADLOCK FALSE
