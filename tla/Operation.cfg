CONSTANTS
    Drains = {d1, d2}
    Retries = {r1}
    DrainChunks = 2
    MaxFiles = 2
    MaxDrainFaults = 1
    RowsPerRun = 1
    FanIn = 2
    MaxSealed = 2
    MaxPerChunk = 1
    MaxCheckpoints = 1
    MaxAttempts = 2
    MaxDisturbances = 1
    Prices = {1, 2}
    BufferCap = 2
    MaxChanges = 3
    MaxRestarts = 1
    MonthStarts = {1, 3, 4}
    Versions = 2
    MaxTroubles = 2
    Media = {m1, m2}
    Shelf = {m2}
    Sets = {s1, s2}
    Binders = {w1, w2}
    SetChunks = {c1}
    Bodies = {b1, b2}
    MaxSetFaults = 1
INIT MCInit
NEXT MCNext
CHECK_DEADLOCK FALSE
INVARIANTS
    SourceGoesOnlyForWhole
    BuildIsExact
    ReplayIsOrdered
    BookIsTrue
    ImportIsExact
    ArchiveSetIsKept
