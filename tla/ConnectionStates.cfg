SPECIFICATION FairSpec
CONSTANTS
  Kinds = {"Serial", "UsbHid"}
  Wired = TRUE
  Target = {"a", "b"}
  NoTarget = "none"
  Warned = {"b"}
  Named = {"b"}
  PortState = {"opens", "fails", "silent"}
  Uses = {"off", "suspend", "prefs"}
  MaxCommand = 3
  MaxFault = 2
INVARIANTS
  TypeOK
  ReadyMeansTalking
  LinkIsToTarget
  TicksWhileOnline
PROPERTIES
  Reconciled
CHECK_DEADLOCK FALSE
