SPECIFICATION Spec
CONSTANTS
  Kinds = {"install", "async"}
  Faults = {}
  MaxFaults = 0
  Cap = 1
  MaxLines = 2
  MaxFlights = 2
  MaxLosses = 1
  MaxCancels = 1
INVARIANTS FinalizedOnce
CHECK_DEADLOCK FALSE
