SPECIFICATION FairSpec
CONSTANTS
  Child = {c1, c2}
  Hub = hub
  Robot = {r1, r2}
  NoPeer = noPeer
  Capacity = 1
  MaxEdit = 3
  MaxFault = 1
INVARIANTS
  TypeOK
  ChildrenFollow
  RoutedToItsRobot
PROPERTIES
  RoutedFromTheStart
  EveryChildComesUp
  PromiseKept
