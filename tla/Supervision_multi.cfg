SPECIFICATION FairSpec
CONSTANTS
  Worker = {w1}
  NDev = 2
  SingleWorker = {}
  MaxFailed = 3
  MaxPid = 8
  MaxRow = 7
  Allowed <- WorkerEvents
  MaxEvents = 1
CHECK_DEADLOCK FALSE
PROPERTIES DevicesServed
