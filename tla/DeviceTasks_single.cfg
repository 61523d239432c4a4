SPECIFICATION FairSpec
CONSTANTS
  d1 = d1
  d2 = d2
  w1 = w1
  w2 = w2
  r1 = r1
  r2 = r2
  Task <- SingleTasks
  Kind <- SingleKinds
  Device <- OneDevice
  DeviceOf <- SingleDevices
  Multi = FALSE
  MaxRespawn = 3
  MaxClock = 1
  MaxCrash = 1
CHECK_DEADLOCK FALSE
INVARIANTS TypeOK WrittenOnce DoneNotLost
PROPERTIES OldestFirst TableSpec ReadFresh TasksFinish
