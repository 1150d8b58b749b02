CONSTANTS
    MaxMishaps = 1
    MaxCollapses = 1
SPECIFICATION HandoverSpec
INVARIANT
    ResyncEndsInItsSession
CHECK_DEADLOCK FALSE
