CONSTANTS
    Chunks = {c1}
    NoChunk = NoChunk
    Damageable = {"tmp"}
    MaxFaults = 3
    MaxEjects = 0
    MaxProbes = 0
SPECIFICATION Spec
CHECK_DEADLOCK FALSE
INVARIANTS
    VerifiedIsDurable
