CONSTANTS
    Drains = {d1, d2}
    Retries = {r1, r2}
    DrainChunks = 1
    MaxFiles = 2
    MaxDrainFaults = 0
SPECIFICATION DrainSpec
INVARIANT
    SourceGoesOnlyForWhole
CHECK_DEADLOCK FALSE
