CONSTANTS
    Retention = 4
    PageSize = 3
    PagesPerTry = 2
    Owners = {"poller", "coverage"}
    MaxPeriod = 10
    MaxSideFaults = 3
SPECIFICATION SideSpec
INVARIANT
    AgedOutIsExplicit
CHECK_DEADLOCK FALSE
