CONSTANTS
    ProductCount = 2
    ProductBudget = 1
    ListedStatuses = {"TRADING", "CLOSED"}
    MaxReads = 2
    MaxFailures = 1
    MaxProcesses = 2
SPECIFICATION ServiceSpec
INVARIANT
    AwaitedAreStopped
CHECK_DEADLOCK FALSE
