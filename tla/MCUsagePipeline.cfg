SPECIFICATION FairSpec
CONSTANTS
  good = good
  poison = poison
  bad = bad
  Lines = {good, poison, bad}
  Unreadable = {poison}
  Refused = {bad}
  QueueMax = 2
  BatchLimit = 2
  MaxDays = 2
  MaxNew = 1
  MaxFaults = 1
INVARIANTS
  NothingLost
  PauseHolds
PROPERTIES
  ImplementsQueue
  EveryLineDelivered
