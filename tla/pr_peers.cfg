SPECIFICATION FairSpec
CONSTANTS
    Peer = {p}
    Addr = {x, y}
    Linkable = {p}
    Rounds = 2
    MaxCalls = 2
    MaxBoots = 1
    NoEntry = NoEntry
    NoPing = NoPing
INVARIANTS TypeOK RowsFollow NewestWins PongFindsItsPeer
PROPERTIES AnsweringStays HeardIsListed
