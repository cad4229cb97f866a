SPECIFICATION GSpec
CONSTANTS
  o1 = o1
  o2 = o2
  n1 = n1
  n2 = n2
  NotANumber = NotANumber
  OnRamps = {o1, o2}
  Instances = {n1, n2}
  Interval = 1
  Lookback = 3
  Late = 1
  CommitDelay = 1
  MaxFaults = 1
  MaxTime = 4
  WalkTime = 1
  Fallback = 1
  MaxLimit = 1
  AskedLimits = {2}
SYMMETRY PagesSymmetry
INVARIANTS
  FlaggedInTime
  WalkMissesOnlyWhatLeft
PROPERTY
  ResolvedStaysResolved
CHECK_DEADLOCK FALSE
CONSTRAINT WalkBound
