CONSTANTS
  sub1 = sub1
  sub2 = sub2
  ctl = ctl
  output = output
  guest = guest
  rival = rival
  Submitters = {sub1, sub2, guest}
  Controllers = {ctl, rival}
  Outputs = {output}
  Utils = {}
  Users = {"alice"}
  UserOf <- MCUserOf
  Targets <- MCTargets
  TagSets <- MCTagSets
  JobIDs = {1, 2, 3, 99}
  Chunks = 1
  MaxUtil = 0
  Tests <- AllTests
  User = "alice"
  Guests = {guest, rival}
  SlowJobs = TRUE
  MayTimeOut = TRUE
  Bogus = 99
  StopStatus = "Finished"
  StopExitCodes = {143}
  KillStatus = "Killed"
  KillExitCodes = {137}
SPECIFICATION SuiteSpec
CHECK_DEADLOCK FALSE
INVARIANTS
  NoFalseAlarm
  PassIsEarned
PROPERTIES
  TestsEnd
