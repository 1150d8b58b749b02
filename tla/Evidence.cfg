CONSTANTS
    MaxChunks = 3
    MaxFrames = 2
    MaxAllFrames = 3
    MaxMarks = 1
    Unknowable = Unknowable
    V5Chunks = 2
    V5Baselines <- LateStageAndEmptyOne
    ReferenceCap = 3
    PageCap = 2
    V5Duration = 1
    MaxV5Moves = 2
    MaxLateMoves = 1
    MaxV5Docs = 2
    MaxV5Kills = 1
    Exporters = {x1, x2}
    MaxGenerations = 3
    MaxPowerLosses = 2
    MaxExportKills = 1
INIT MCInit
NEXT MCNext
CHECK_DEADLOCK FALSE
INVARIANTS
    AuditIsRight
    CursorIsExact
    V5EligibleIsTrue
    SnapshotsAreKept
