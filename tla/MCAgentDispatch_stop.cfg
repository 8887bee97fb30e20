\* /stop and other cancellations with everything in the inbox.
SPECIFICATION Spec
CONSTANTS
  i1 = i1
  i2 = i2
  i3 = i3
  c1 = c1
  c2 = c2
  d1 = d1
  d2 = d2
  j1 = j1
  j2 = j2
  Nothing = Nothing
  Inputs = {i1, i2, i3}
  Commands = {c1}
  Deferring = {d1}
  Joining = {}
  CancelKinds = {"stop", "discard"}
  MaxInboxes = 4
  MaxCancels = 2
  MaxFailures = 1
CHECK_DEADLOCK FALSE
INVARIANTS InOrder NothingLost
PROPERTIES LateInputKept
