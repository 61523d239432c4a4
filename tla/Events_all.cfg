SPECIFICATION FairSpec
CONSTANTS
  None = None
  Variables = {"v", "w"}
  Values = {0, 2, 3}
  Event <- TwoEvents
  Group <- OneGroup
  Agenda <- InOrder
  MaxSamples = 2
  MaxKills = 1
  MaxMailKills = 1
  Subjects <- Topics
  Recipients = {"ann"}
  MaxAttempts = 2
  MaxRefusals = 2
INVARIANTS TypeOK OneOpenRecord EveryChangeMailed GroupFollowsFirst DeliveredOnce
PROPERTIES NoFlapping Recognised MailsEnd
