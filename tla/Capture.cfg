CONSTANTS
    Sources = {a}
    MaxTime = 2
    BatchLimit = 1
    JournalCapacity = 9
    WatermarkEvery = 1
    MonitorPatience = 1
    MaxEvents = 2
    MaxAvKills = 1
    Nothing = Nothing
    Snapshots = {d}
    Pollers = {p}
    WindowCap = 3
    WindowTicks = 2
    MaxBlock = 2
    MaxWireTime = 2
    Retention = 4
    PageSize = 3
    PagesPerTry = 2
    Owners = {"poller", "coverage"}
    MaxPeriod = 6
    MaxSideFaults = 2
    Markets = {"spot", "usdm"}
    Width = 2
    Capacity = 3
    QueueCap = 2
    MaxUpdates = 6
    MaxConns = 2
    MaxFaults = 2
    Patience = 3
    MaxMishaps = 1
    MaxCollapses = 1
INIT MCInit
NEXT MCNext
CHECK_DEADLOCK FALSE
INVARIANTS
    JournalIsTrue
    RequestsAreAllowed
    CursorIsEvaluated
    DepthIsSound
    DeploymentIsSafe
