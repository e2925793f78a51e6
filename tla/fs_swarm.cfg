SPECIFICATION Spec
CONSTANTS
    Node = {a, b, c}
    a = a
    b = b
    c = c
    NumChunks = 2
    Req = {r1, r2}
    Uploader = {a, b}
    Full = {c}
    MayCrash = {b}
    NoSpace = {b, c}
    Steady = {a}
SYMMETRY Requests
INVARIANT LossNeedsATornWrite
