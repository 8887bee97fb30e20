SPECIFICATION FairSpec
CONSTANTS
  Clickers <- TwoClickers
  MaxInputs = 2
  MaxClicks = 2
  MaxBatches = 1
  MaxFaults = 1
  Faults = {"stop", "model", "internal", "crash", "scan"}
INVARIANTS LatestKept NewerInputWins
PROPERTIES OneRunPerOffer EveryInputEnds
CHECK_DEADLOCK FALSE
