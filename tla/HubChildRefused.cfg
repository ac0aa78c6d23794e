SPECIFICATION BoundedFairSpec
CONSTANTS
  Source = {"r"}
  Robot = "r"
  TopicId = {1}
  MaxRate = 1
  BootId = {1, 2}
  SubscriptionId = {1}
  MaxLoss = 0
  MaxDrop = 1
  MaxBlip = 0
  MaxLapse = 0
  MaxIdleRetry = 1
  SlowAnswers = FALSE
  MaxSequence = 9
  MaxHandle = 2
PROPERTIES
  WantedIsServed
VIEW View
CHECK_DEADLOCK FALSE
