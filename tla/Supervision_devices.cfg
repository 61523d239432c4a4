SPECIFICATION FairSpec
CONSTANTS
  Worker = {w1}
  NDev = 2
  SingleWorker = {w1}
  MaxFailed = 3
  MaxPid = 8
  MaxRow = 7
  Allowed <- DeviceEvents
  MaxEvents = 2
CHECK_DEADLOCK FALSE
INVARIANTS OneDaqPerDevice NoOrphanDaq
PROPERTIES DisabledStops RespawnOnlyDead
