CONSTANTS
  Entities = {e1, e2}
  Topk = 2
  KnownLimit = 2
  MaxValue = 2
  MaxSchedules = 3
SPECIFICATION Spec
INVARIANT MustBeNew
CHECK_DEADLOCK FALSE
