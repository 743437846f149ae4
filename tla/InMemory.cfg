CONSTANTS
  sub1 = sub1
  sub2 = sub2
  ctl1 = ctl1
  ctl2 = ctl2
  output = output
  util = util
  Submitters = {sub1, sub2}
  Controllers = {ctl1, ctl2}
  Outputs = {output}
  Utils = {util}
  Users = {"alice", "bob"}
  UserOf <- MCUserOf
  Targets <- MCTargets
  TagSets <- MCTagSets
  JobIDs = {1, 2}
  Chunks = 2
  MaxUtil = 4
SPECIFICATION FairSpec
CHECK_DEADLOCK FALSE
INVARIANTS
  ControlIsFinal
  ExitCodeTells
  SubmissionsKept
  OutputWellFormed
PROPERTIES
  ImplementsLifecycle
  
  StreamsReportEnd
