SPECIFICATION Spec
CONSTANTS
  Requests <- MCRequests
  Responses <- MCResponses
  AppId = 101
  MaxReports = 3
  MaxStarts = 2
  MaxCrashes = 1
CHECK_DEADLOCK FALSE
INVARIANTS
  TypeOK
  LogInOrder
  NoneLost
  EntriesTellPairs
PROPERTIES
  ReportedIsLogged
