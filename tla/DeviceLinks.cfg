SPECIFICATION FairSpec
CONSTANTS
  Links = 3
  Transport <- MCTransport
  Attempt = 3
  Failed = 1
  MaxEdit = 2
  MaxFault = 2
INVARIANTS
  TypeOK
  OneLinkInUse
PROPERTIES
  MovesWithReason
  FindsTheWay
