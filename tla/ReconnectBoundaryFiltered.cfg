CONSTANTS
    Kinds = {"kept", "filtered"}
    QueueCap = 2
    MaxConns = 3
    MaxLives = 2
    None = None
SPECIFICATION Spec
INVARIANT BoundaryIsVisible
