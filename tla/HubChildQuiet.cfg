SPECIFICATION BoundedSpec
CONSTANTS
  Source = {"r"}
  Robot = "r"
  TopicId = {1}
  MaxRate = 2
  BootId = {1, 2}
  SubscriptionId = {1}
  MaxLoss = 0
  MaxDrop = 0
  MaxBlip = 2
  MaxLapse = 0
  MaxIdleRetry = 1
  SlowAnswers = FALSE
  MaxSequence = 5
  MaxHandle = 3
INVARIANTS
  HCTypeOK
  StreamIsWanted
  EndsAgree
  GrantNamesItsBoot
VIEW View
CHECK_DEADLOCK FALSE
