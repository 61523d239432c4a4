SPECIFICATION Spec
CONSTANTS
  Worker = {w1}
  NDev = 1
  SingleWorker = {w1}
  MaxFailed = 3
  MaxPid = 8
  MaxRow = 6
  Allowed <- WorkerEvents
  MaxEvents = 1
CHECK_DEADLOCK FALSE
INVARIANT OneDaqPerDevice
