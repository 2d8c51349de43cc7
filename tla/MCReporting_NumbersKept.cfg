SPECIFICATION Spec
CONSTANTS
  Requests <- MCRequests
  Responses <- MCResponses
  AppId = 101
  MaxReports = 2
  MaxStarts = 2
  MaxCrashes = 1
CHECK_DEADLOCK FALSE
INVARIANT
  NumbersKept
