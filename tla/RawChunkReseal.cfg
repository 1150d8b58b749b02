CONSTANTS
    Chunks = {c1}
    NoChunk = NoChunk
    Gaps = {g1, g2}
    NoGap = NoGap
    MaxFrames = 2
    MaxKills = 2
    MaxPowerLosses = 2
SYMMETRY Symmetry
SPECIFICATION Spec
INVARIANT ResealAgreesWithManifest
