SPECIFICATION FairSpec
CONSTANTS
  None = None
  Variables = {"v", "w"}
  Values = {0, 2, 3}
  Event <- OneLimited
  Group <- NoGroup
  Agenda <- Alone
  MaxSamples = 2
  MaxKills = 1
  MaxMailKills = 1
  Subjects <- Topics
  Recipients = {"ann"}
  MaxAttempts = 2
  MaxRefusals = 2
PROPERTIES EveryLimitRecognised
