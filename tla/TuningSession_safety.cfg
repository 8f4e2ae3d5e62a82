CONSTANTS
  Keys <- MCKeys
  Tags <- MCTags
  Tag <- MCTag
  Succ <- MCSucc
  CallOrder <- MCCallOrder
  References <- MCReferences
  AdvanceNumber = 1
  AutoscheduleParallel = 2
  ExecutionParallel = 2
  MaxPerf = 1
  MaxTunings = 2
  MaxReferences = 1
SPECIFICATION Spec
INVARIANTS TypeOK OneRequestInFlight TokensConserved CachedIsTrue PredecessorsFirst
CHECK_DEADLOCK FALSE
