SPECIFICATION FairSpec
CONSTANTS
    Node = {a, b}
    Conn = {c1, c2}
    NoConn = NoConn
INVARIANTS TypeOK ListedIsGreeted DialledIsHeard
PROPERTIES DialEnds AcceptedIsPruned
