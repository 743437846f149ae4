CONSTANTS
  j1 = j1
  j2 = j2
  s1 = s1
  c1 = c1
  c2 = c2
  JobIDs = {j1, j2}
  Users = {"alice", "bob"}
  Owner <- MCOwner
  Status = {"Running", "Finished"}
  Terminal = {"Finished"}
  Moves <- AnyMove
  Subs = {s1}
  Calls <- MCCalls
  Closers = {}
  ChCap = 2
  SubCap = 1
  MaxLog = 3
SPECIFICATION Spec
CHECK_DEADLOCK FALSE
INVARIANTS
  UpdatesAccounted
  TerminalNotForgotten
PROPERTIES
  ImplementsFeed
