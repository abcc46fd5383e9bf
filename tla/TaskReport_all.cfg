SPECIFICATION Spec
CONSTANTS
  Kinds = {"install", "async"}
  Faults = {"worker", "cp", "db"}
  MaxFaults = 1
  Cap = 1
  MaxLines = 2
  MaxFlights = 2
  MaxLosses = 1
  MaxCancels = 1
INVARIANTS TypeOK StuckOnlyByLoss EndIsNotified
PROPERTIES LastLinesArrive CancelArrives
CHECK_DEADLOCK FALSE
