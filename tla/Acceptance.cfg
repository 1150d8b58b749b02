CONSTANTS
    Paths = {p1}
    Gaps = {g1}
    Generations = {"v3", "v4"}
    StageDuration = 2
    SampleInterval = 1
    MaxEvidenceGap = 1
    RecoveryDeadline = 1
    MaxBoottime = 2
    MaxWorldEvents = 2
    MaxSamples = 4
    MaxObserverKills = 1
    None = None
SPECIFICATION AcSpec
CHECK_DEADLOCK FALSE
INVARIANTS
    EligibleIsHonest
    ResumeIsExact
