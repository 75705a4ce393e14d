SPECIFICATION FairSpec
CONSTANTS
  d1 = d1
  d2 = d2
  a1 = a1
  a2 = a2
  c1 = c1
  c2 = c2
  Devices = {d1, d2}
  Accounts = {a1}
  Bindable = {a1}
  Commands = {c1}
  MaxRevision = 2
  MaxFaults = 2
INVARIANTS
  ConfigNamesOwned
  CollectorsAgree
PROPERTIES
  CurrentPollsAccepted
  Converges
