SPECIFICATION FairSpec
CONSTANTS
  Tasks <- TwoTasks
  Hour = 2
  Offsets <- HourAround
  MaxDelay = 0
  MaxDeaths = 1
  MaxRows = 2
INVARIANTS TypeOK ExportedOnce
PROPERTIES Served
