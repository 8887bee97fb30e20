SPECIFICATION FairSpec
CONSTANTS
  a = a
  b = b
  NoJob = NoJob
  Nobody = Nobody
  Jobs = {a, b}
  KindOf <- OnceAndDelete
  MaxTime = 2
  MaxEdits = 3
  MaxPolls = 1
  Faults = {"write", "truncate", "crash"}
  MaxFaults = 2
INVARIANTS
  OneShotOnce
  EditsHold
PROPERTY
  DueJobsRun
CHECK_DEADLOCK FALSE
