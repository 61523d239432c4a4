SPECIFICATION FairSpec
CONSTANTS
  d1 = d1
  d2 = d2
  w1 = w1
  w2 = w2
  r1 = r1
  r2 = r2
  Task <- TwoTasks
  Kind <- TwoKinds
  Device <- OneDevice
  DeviceOf <- TwoDeviceOf
  Multi = FALSE
  MaxRespawn = 3
  MaxClock = 1
  MaxCrash = 0
CHECK_DEADLOCK FALSE
PROPERTIES AllWritesFinish
