CONSTANTS
  b1 = b1
  b2 = b2
  b3 = b3
  Box = {b1, b2, b3}
  null = null
  Scenarios <- MCScenarios
  TEARDOWN_DEPTH_LIMIT = 1
  DEFAULT_CYCLE_THRESHOLD = 1
  CYCLE_THRESHOLD_STEP = 1
  CYCLE_THRESHOLD_TRIGGER = 1
  ROOT_INDEX_MAX = 1
  MaxSlots = 2
CHECK_DEADLOCK FALSE
SPECIFICATION Spec
INVARIANTS HeapSound NoAssertionFails GarbageHasCandidate CollectionFindsCycles
PROPERTIES DestructorOnce
