CONSTANTS
  j1 = j1
  j2 = j2
  s1 = s1
  c1 = c1
  c2 = c2
  JobIDs = {j1}
  Users = {"alice", "bob"}
  Owner <- OneOwner
  Status = {"Running", "Finished"}
  Terminal = {"Finished"}
  Moves <- LifecycleMoves
  Subs = {s1}
  Calls <- MixedCalls
  Closers = {c1, c2}
  ChCap = 1
  SubCap = 1
  MaxLog = 2
SPECIFICATION FairSpec
CHECK_DEADLOCK FALSE
INVARIANTS
  NoChannelPanic
  CloseReleasesReaders
PROPERTIES
  CloseReturns
  CallsEnd
