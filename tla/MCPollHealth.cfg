SPECIFICATION FairSpec
CONSTANTS
  Threshold = 3
  MaxIncidents = 3
  MaxFaults = 4
INVARIANTS
  OneAlert
PROPERTIES
  NoAlertStorm
  RecoveryAnswersFailure
  LastingFailureIsTold
