SPECIFICATION Spec
CONSTANTS
  a = a
  b = b
  NoJob = NoJob
  Nobody = Nobody
  Jobs = {a}
  KindOf <- OnlyOnce
  MaxTime = 3
  MaxEdits = 2
  MaxPolls = 1
  Faults = {"write"}
  MaxFaults = 1
PROPERTY
  DeletedStaysDeleted
CHECK_DEADLOCK FALSE
