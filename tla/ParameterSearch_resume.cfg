SPECIFICATION FairSpec
CONSTANTS
  Records = {r1, r2, r3, bad}
  Valid = {r1, r2, r3}
  MaxValue = 3
  Trials = 3
  GroupSize = 2
  Variant = "v3"
  Verbose = TRUE
  PerfNum = 1
  PerfDen = 2
  MaxTrial = 2
  AllowRepeat = FALSE
  Passes = 2
  MaxCrashes = 1
  NoRecord = none
INVARIANTS TypeOK LogReplays BestAgrees BatchDistinct
PROPERTIES DurableBest SearchEnds
CHECK_DEADLOCK FALSE
