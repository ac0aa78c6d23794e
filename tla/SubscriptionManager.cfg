SPECIFICATION BoundedSpec
CONSTANTS
  Source = {"s1"}
  TopicId = {t1, t2}
  MaxRate = 2
  BootId = {1, 2}
  SubscriptionId = {1, 2}
  MaxSequence = 4
  MaxHandle = 2
INVARIANTS
  TypeOK
  InFlightIsPending
  CountedGrants
  NoConsumerForgotten
  DemandOnTheWire
PROPERTIES
  GrantsLeaveOnTheWire
  SharingIsSilent
VIEW View
SYMMETRY TopicSymmetry
CHECK_DEADLOCK FALSE
