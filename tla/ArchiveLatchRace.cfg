CONSTANTS
    Chunks = {c1}
    NoChunk = NoChunk
    Damageable = {}
    MaxFaults = 0
    MaxEjects = 1
    MaxProbes = 1
SPECIFICATION Spec
CHECK_DEADLOCK FALSE
INVARIANTS
    EjectExcludesAllocation
