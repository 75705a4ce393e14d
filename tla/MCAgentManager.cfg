SPECIFICATION FairSpec
CONSTANTS
  k1 = k1
  k2 = k2
  q1 = q1
  q2 = q2
  r1 = r1
  r2 = r2
  r3 = r3
  Keys = {k1, k2}
  Requests = {q1, q2}
  Runs = {r1, r2}
INVARIANTS
  NoOrphan
PROPERTIES
  CallsReturn
