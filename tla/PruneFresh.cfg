CONSTANTS
  j1 = j1
  j2 = j2
  JobIDs = {j1}
  Users = {"alice", "bob"}
  Owner <- OneOwner
  Status = {"Pending", "Running", "Finished"}
  Terminal = {"Finished"}
  Hosts = {"n1"}
  Moves <- LifecycleMoves
  Stamped = {FALSE}
  Interval = 1
  MaxTime = 4
SPECIFICATION StoreSpec
PROPERTIES
  PrunedAreStale
