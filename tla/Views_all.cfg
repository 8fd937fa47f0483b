CONSTANTS
  r1 = r1
  r2 = r2
  r3 = r3
  none = none
  k1 = k1
  k2 = k2
  Nothing = none
  Requests <- MCRequests
  MaxFetches = 3
  LastRevision = 2
  Assigned <- MCAssigned
  Calculations <- MCCalculations
  PollAttempts = 1
  LastAction = 3
  PageLimit = 2
  MaxPages = 3
  Deadline = 1
  MaxChanges = 2
  NotStated = NotStated
SPECIFICATION MCSpec
INVARIANTS
  TypeOK
  AbsenceIsNotCached
  FailureIsTold
  EvidenceIsTrue
  ExecutionIsKept
  CoverageIsEarned
PROPERTIES
  OnlyRefreshesGoBack
  MCViewsAreMade
CHECK_DEADLOCK FALSE
