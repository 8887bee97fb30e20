\* Progress and cancellations of a session that holds no queued command.
SPECIFICATION FairSpec
CONSTANTS
  i1 = i1
  i2 = i2
  i3 = i3
  c1 = c1
  c2 = c2
  d1 = d1
  d2 = d2
  j1 = j1
  j2 = j2
  Nothing = Nothing
  Inputs = {i1, i2}
  Commands = {}
  Deferring = {d1}
  Joining = {j1}
  CancelKinds = {"discard"}
  MaxInboxes = 4
  MaxCancels = 2
  MaxFailures = 0
CHECK_DEADLOCK FALSE
INVARIANTS SoleWorker WaiterHasRunner
PROPERTIES AutomationYields EveryWaiterAnswered EveryMessageEnds
