CONSTANTS
  Observers = {o1, o2}
  Drainers = {own}
  Loop = loop
  NaN = NaN
  Inf = Inf
  none = none
  Insts = {1, 2, 3}
  Values <- MCValues
  Buckets <- MCBuckets
  ChCap = 1
  MaxObs = 2
SPECIFICATION FairSpec
INVARIANTS
  ObservationsCounted
  SamplesExact
PROPERTIES
  ObservationsLeave
