SPECIFICATION FairSpec
CONSTANTS
  s1 = s1
  c1 = c1
  StatusVars <- OneStatus
  ChartVars <- OneChart
  StatusBatch = 1
  ChartBatch = 1
  ErrorLimit = 0
  Window = 1
  PollBack = 1
  LookBack = 1
  History <- Recorded
  Start = 4
  MaxDelay = 2
  Ranges <- OneRange
  MaxNow = 5
  MaxTimeReq = 1
  MaxClicks = 2
  MaxFail = 1
CHECK_DEADLOCK FALSE
INVARIANTS TypeOK PendingIsInFlight BoundedInFlight SortedCharts EverythingLoaded
PROPERTIES AnswersTaken StatusNeverOlder ViewSpec InitEnds
