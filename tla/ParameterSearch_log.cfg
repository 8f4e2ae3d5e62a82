SPECIFICATION Spec
CONSTANTS
  Records = {r1, r2, r3, bad}
  Valid = {r1, r2, r3}
  MaxValue = 3
  Trials = 3
  GroupSize = 2
  Variant = "v1"
  Verbose = TRUE
  PerfNum = 1
  PerfDen = 1
  MaxTrial = 2
  AllowRepeat = FALSE
  Passes = 1
  MaxCrashes = 0
  NoRecord = none
INVARIANTS LogHoldsTimeCosts
CHECK_DEADLOCK FALSE
