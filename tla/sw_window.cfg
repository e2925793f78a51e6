SPECIFICATION Spec
CONSTANTS
    NumChunks = 3
    Window = 2
    MaxRetries = 1
    Transfers = 1
    Ignores = 1
    Breakable = TRUE
    Sharing = {TRUE, FALSE}
INVARIANTS TypeOK WindowBound SentIsTracked
PROPERTIES ImplementsTransfer
CHECK_DEADLOCK FALSE
