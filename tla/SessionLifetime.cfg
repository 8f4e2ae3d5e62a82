CONSTANTS
  Keys <- ChainKeys
  Tags <- ChainTags
  Tag <- ChainTag
  Succ <- ChainSucc
  CallOrder <- ChainCallOrder
  References = {}
  AdvanceNumber = 2
  AutoscheduleParallel = 1
  ExecutionParallel = 1
  MaxPerf = 2
  MaxTunings = 1
  MaxReferences = 0
SPECIFICATION LifeSpec
CHECK_DEADLOCK FALSE
PROPERTIES BestNeverWorsensAlive TuningCompletes RunTerminates DestructorReturns
