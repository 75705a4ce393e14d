SPECIFICATION Spec
CONSTANTS
  Warning = 2
  Critical = 3
  Over = 2
  Repeat = 2
  IdleTimeout = 1
  MaxUse = 4
  MaxPeriod = 2
  MaxElapsed = 2
  MaxFaults = 2
INVARIANTS
  AlertedOnce
  PeriodIsAlerted
  PaceSpaced
PROPERTIES
  SessionEnds
