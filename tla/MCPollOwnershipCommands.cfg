SPECIFICATION Spec
CONSTANTS
  d1 = d1
  d2 = d2
  a1 = a1
  a2 = a2
  c1 = c1
  c2 = c2
  Devices = {d1}
  Accounts = {a1, a2}
  Bindable = {a2}
  Commands = {c1, c2}
  MaxRevision = 2
  MaxFaults = 0
SYMMETRY Symmetry
INVARIANTS
  RevokedOwnsNothing
PROPERTIES
  NoSilentHandoff
  BindingEditsOne
