CONSTANTS
  NoEntity = NoEntity
  Entities = {e1, e2}
  Topk = 2
  KnownLimit = 1
  MaxValue = 2
  MaxSchedules = 3
  Grain = 3
  MaxSessions = 2
  MaxCrashes = 1
  NoFile = NoFile
SPECIFICATION LibrarySpec
SYMMETRY AnyEntity
INVARIANTS TopkKept SchedulesTracked LibraryKept LibrarySound HeapKnowsBest
CHECK_DEADLOCK FALSE
