CONSTANTS
  j1 = j1
  j2 = j2
  JobIDs = {j1, j2}
  Users = {"alice", "bob"}
  Owner <- MCOwner
  Status = {"Pending", "Running", "Finished"}
  Terminal = {"Finished"}
  Hosts = {"n1"}
  Moves <- LifecycleMoves
  Stamped = {TRUE, FALSE}
  Interval = 1
  MaxTime = 4
SPECIFICATION StoreSpec
INVARIANTS
  PollingLeavesStamp
PROPERTIES
  FieldsKept
  OnlyTerminalLeave
