CONSTANTS
    Chunks = {c1}
    NoChunk = NoChunk
    Sessions = {s1, s2}
    Deleting = {s1}
    NoSession = NoSession
    Jobs = {j1, j2}
    NoJob = NoJob
    MaxFaults = 2
SPECIFICATION FairSpec
CHECK_DEADLOCK FALSE
INVARIANTS
    HandoverIsSafe
    ReportIsTrue
PROPERTIES
    DeletionRunsItsCourse
