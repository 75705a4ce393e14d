SPECIFICATION AuthSpec
CONSTANTS
  Kinds <- AllKinds
  Tokens = 3
  MaxFailures = 2
  MaxFaults = 1
VIEW View
INVARIANTS
  RefreshTokenOnce
  NamedStaysOut
  PausedIsTold
PROPERTIES
  LoginRecovers
