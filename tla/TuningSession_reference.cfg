CONSTANTS
  Keys <- MCKeys
  Tags <- MCTags
  Tag <- MCTag
  Succ <- MCSucc
  CallOrder <- MCCallOrder
  References <- MCReferences
  AdvanceNumber = 1
  AutoscheduleParallel = 1
  ExecutionParallel = 1
  MaxPerf = 2
  MaxTunings = 1
  MaxReferences = 1
SPECIFICATION FairSpec
PROPERTY EndTuningTerminates
CHECK_DEADLOCK FALSE
