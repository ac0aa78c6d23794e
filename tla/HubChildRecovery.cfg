SPECIFICATION BoundedFairSpec
CONSTANTS
  Source = {"r"}
  Robot = "r"
  TopicId = {1}
  MaxRate = 1
  BootId = {1, 2}
  SubscriptionId = {1}
  MaxLoss = 1
  MaxDrop = 1
  MaxBlip = 0
  MaxLapse = 1
  MaxIdleRetry = 1
  SlowAnswers = FALSE
  MaxSequence = 11
  MaxHandle = 1
INVARIANTS
  NoRetryStorm
PROPERTIES
  ServedUnlessRefused
CHECK_DEADLOCK FALSE
