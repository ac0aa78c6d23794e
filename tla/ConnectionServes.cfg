SPECIFICATION FairSpec
CONSTANTS
  Kinds = {"Serial", "Tcp", "Ble"}
  Wired = TRUE
  Target = {"a", "b"}
  NoTarget = "none"
  Warned = {}
  Named = {"b"}
  PortState = {"opens", "fails"}
  Uses = {"dialog"}
  MaxCommand = 4
  MaxFault = 3
INVARIANTS
  EstablishedIsReady
  AttemptHasOutcome
PROPERTIES
  Serves
CHECK_DEADLOCK FALSE
