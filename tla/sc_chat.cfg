SPECIFICATION FairSpec
CONSTANTS
    one = one
    two = two
    home = home
    Node = {one, two, home}
    MaxMsg = 2
    Client = {k1, k2}
    Home <- AllAtHome
    Poster = {k1}
    Leaver = {k2}
    MaxSeen = 1
    Topologies <- Swarms
    Steady <- Holding
INVARIANTS TypeOK ShownOnce AudienceServed
PROPERTIES Spreads FloodEnds
CHECK_DEADLOCK FALSE
