SPECIFICATION Spec
CONSTANTS
  a1 = a1
  a2 = a2
  Accounts = {a1, a2}
  LocalAccounts = {a1}
  WeekOf <- MCWeekOf
  None = None
  Week = 4
  LateWindow = 1
  Fresh = 1
  Early = 0
  Skew = 1
  Delay = 0
  MaxTime = 4
  MaxRows = 3
INVARIANTS
  CursorMeansHandled
  OneWeeklyMessage
