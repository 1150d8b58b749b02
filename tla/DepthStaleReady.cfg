SPECIFICATION Spec
CONSTANTS
  Markets = {"spot", "usdm"}
  Width = 2
  Capacity = 2
  QueueCap = 2
  MaxUpdates = 6
  MaxConns = 2
  MaxFaults = 0
  Patience = 3
INVARIANT ReadyIsNotStale
CHECK_DEADLOCK FALSE
