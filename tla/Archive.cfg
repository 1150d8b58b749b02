CONSTANTS
    Chunks = {c1, c2}
    NoChunk = NoChunk
    Damageable = {"art", "man"}
    MaxFaults = 3
    MaxEjects = 1
    MaxProbes = 1
SPECIFICATION Spec
CHECK_DEADLOCK FALSE
INVARIANTS
    TypeOK
    NeverLost
    DeletionIsAuthorised
    CountedOnce
    LatchMeansIdle
PROPERTIES
    KeepsCustody
