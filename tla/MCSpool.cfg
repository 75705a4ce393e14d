SPECIFICATION Spec
CONSTANTS
  Events = {e1, e2}
  None = None
  MaxSegs = 2
  MaxDays = 2
  SpoolMax = 3
  BatchLimit = 2
SYMMETRY Symmetry
INVARIANTS
  UnackedPreserved
  WithinCap
PROPERTIES
  TornPreserved
  ImplementsQueue
