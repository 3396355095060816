SPECIFICATION CacheSpec
CONSTANTS
    Commit <- MCCommit
    Delta <- MCDelta
    Touches <- MCTouches
    Reader = {r1, r2}
    Grace = 2
    SnapshotInterval = 2
    MaxLag = 1
    MaxClock = 4
    MaxPoints = 2
INVARIANTS
    CacheTypeOK
    PointsAreFinal
    CachedReadIsLive
SYMMETRY ReaderSymmetry
