SPECIFICATION Spec
CONSTANTS
  Turns = {c1, c2}
  Followups = {f1}
  Deliveries = {d1}
  Nobody = Nobody
  Compactor = Compactor
  MaxEvents = 2
SYMMETRY Symmetry
INVARIANTS JournalOrRow NoStaleCheckpoint GenerationPure CacheCoherent SummaryInPlace
PROPERTIES HistoryKept EndedStaysEnded
CHECK_DEADLOCK FALSE
