\* An automation deferred while a cancelled worker awaits.
SPECIFICATION Spec
CONSTANTS
  i1 = i1
  i2 = i2
  i3 = i3
  c1 = c1
  c2 = c2
  d1 = d1
  d2 = d2
  j1 = j1
  j2 = j2
  Nothing = Nothing
  Inputs = {i1}
  Commands = {c1}
  Deferring = {d1}
  Joining = {}
  CancelKinds = {"discard"}
  MaxInboxes = 3
  MaxCancels = 1
  MaxFailures = 0
CHECK_DEADLOCK FALSE
INVARIANTS WaiterHasRunner
