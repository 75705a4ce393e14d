SPECIFICATION CyclesSpec
CONSTANTS
  Kinds <- AllKinds
  None = None
  Window = 4
  Grace = 1
  Tolerance = 1
  Threshold = 2
  PendingTolerance = 1
  MaxTime <- Horizon
  MaxUse = 2
  MaxFaults = 1
INVARIANTS
  ResetIsSeen
  TrackedWasUsed
  SummaryMissesNothing
PROPERTIES
  CyclesInOrder
  NoFalseReset
