CONSTANTS
    Chunks = {c1}
    NoChunk = NoChunk
    Damageable = {"tmp"}
    MaxFaults = 2
    MaxEjects = 0
    MaxProbes = 0
SPECIFICATION FairSpec
CHECK_DEADLOCK FALSE
PROPERTIES
    Archived
