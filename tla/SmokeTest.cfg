CONSTANTS
  Menu = {"simple", "submit", "network", "statuses", "output", "resource", "cancel", "control", "suspend", "exit"}
  MaxIDs = 2
  MaxResponses = 2
SPECIFICATION FairSpec
CHECK_DEADLOCK FALSE
INVARIANTS
  ControlsOwnJob
  AnsweredOrStopped
  NoLostWakeup
PROPERTIES
  WaitsEnd
