\* Every kind of operation, a failing body or a cancelled caller, and aclose.
SPECIFICATION FairSpec
CONSTANTS
  a = a
  b = b
  Keys <- MCKeys
  Shapes <- MixedShapes
  Capacity = 2
  Readers = 2
  MaxOps = 3
  MaxFaults = 1
CHECK_DEADLOCK FALSE
INVARIANTS SlotAccounting ClosedIsDrained AdmissionOrder
PROPERTIES EveryOpReturns CloseCompletes ImplementsQueues
