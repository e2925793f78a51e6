SPECIFICATION FairSpec
CONSTANTS
    NumChunks = 2
    Window = 2
    MaxRetries = 1
    Transfers = 2
    Ignores = 2
    Breakable = FALSE
    Sharing = {FALSE}
PROPERTIES EndsOrGivesUp
CHECK_DEADLOCK FALSE
