SPECIFICATION FairSpec
CONSTANTS
    x = x
    y = y
    p = p
    q = q
    r1 = r1
    r2 = r2
    Chunk = {x, y}
    Size <- Sizes
    MaxBytes = 10
    OtherSizes = {8, 10}
    MaxSaves = 2
    MaxDrift = 2
    Peer = {p, q}
    Self = self
    K = 2
    Distance <- Distances
    Steady = {p}
    Renamed = {q}
    Uploaded = {x}
    Request = {r1, r2}
INVARIANTS TypeOK RecordedWasSent NoMoreThanNeeded
PROPERTIES EvictsNoMore QuotaRestored HealedEventually
