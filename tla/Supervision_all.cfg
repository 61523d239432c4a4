SPECIFICATION FairSpec
CONSTANTS
  Worker = {w1}
  NDev = 1
  SingleWorker = {w1}
  MaxFailed = 1
  MaxPid = 10
  MaxRow = 9
  Allowed <- AllEvents
  MaxEvents = 2
CHECK_DEADLOCK FALSE
INVARIANTS TypeOK Tracked OneProcessPerRow NoSurvivors
PROPERTIES StopCompletes DevicesServed
