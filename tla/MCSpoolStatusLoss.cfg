SPECIFICATION SpecWithStatus
CONSTANTS
  Events = {e1, e2}
  None = None
  MaxSegs = 2
  MaxDays = 2
  SpoolMax = 2
  BatchLimit = 2
SYMMETRY Symmetry
INVARIANTS
  UnackedPreserved
