CONSTANTS
    Chunks = {c1, c2}
    NoChunk = NoChunk
    Gaps = {g1}
    NoGap = NoGap
    MaxFrames = 1
    MaxKills = 0
    MaxPowerLosses = 1
SPECIFICATION FairSpec
PROPERTY StartupEnds
