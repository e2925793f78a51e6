SPECIFICATION FairSpec
CONSTANTS
    Node = {a, b, c}
    a = a
    b = b
    c = c
    NumChunks = 2
    Req = {r1}
    Uploader = {a, b}
    Full = {c}
    MayCrash = {b}
    NoSpace = {c}
    Steady = {a}
PROPERTIES ProvidedIsServed RequestEnds
