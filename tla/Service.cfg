CONSTANTS
    ProductCount = 2
    ProductBudget = 1
    ListedStatuses = {"TRADING", "CLOSED"}
    MaxReads = 2
    MaxFailures = 1
    MaxProcesses = 2
    Disks <- MCDisks
    Profiles = {"none", "vps"}
    Rotation = 1
    Windows = {2, 4}
    EtaSteps <- MCEtaSteps
    Bucket = 2
    Scale = 120
    MaxInstant = 4
    MaxMoves = 1
    MaxReadings = 3
    MaxOpen = 2
    MaxDeaths = 1
    Verifiers = {v1, v2}
    QueueLength = 2
    ChunkBytes <- MCChunkBytes
    MaxBytes = 3
    MaxBatch = 2
    MaxAttacks = 1
    MaxVerifies = 3
    MaxVerifyKills = 1
INIT MCInit
NEXT MCNext
CHECK_DEADLOCK FALSE
INVARIANTS
    StatusIsTrue
    CapacityIsSound
    ProofIsTrue
