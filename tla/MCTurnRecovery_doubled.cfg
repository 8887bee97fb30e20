SPECIFICATION Spec
CONSTANTS
  Clickers <- OneClicker
  MaxInputs = 2
  MaxClicks = 2
  MaxBatches = 1
  MaxFaults = 0
  Faults = {}
INVARIANTS CheckpointOnce
CHECK_DEADLOCK FALSE
