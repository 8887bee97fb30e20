SPECIFICATION FairSpec
CONSTANTS
  t1 = t1
  NoTrigger = NoTrigger
  Triggers = {t1}
  Deliveries = {1, 2}
  BatchSize = 2
  MaxAttempts = 2
  ErrorsHappen = TRUE
  MaxDisturbances = 3
  MaxChanges = 2
CHECK_DEADLOCK FALSE
INVARIANTS NothingForgotten OneCopy
  OneRepeatPerFailure MaintenanceIsQuiet
PROPERTIES EveryMessageConcluded DeletedIsDrained ImplementsPromise
