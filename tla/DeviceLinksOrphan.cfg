SPECIFICATION Spec
CONSTANTS
  Links = 3
  Transport <- MCTransport
  Attempt = 3
  Failed = 1
  MaxEdit = 1
  MaxFault = 1
INVARIANT OneConnectionPerDevice
