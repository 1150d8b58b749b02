CONSTANTS
    Kinds = {"kept"}
    QueueCap = 2
    MaxConns = 4
    MaxLives = 3
    None = None
SPECIFICATION FairSpec
INVARIANTS
    GapEvidenceIsSound
    BoundaryIsVisible
PROPERTY GapCompletes
