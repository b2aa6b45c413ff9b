CONSTANTS
  t1 = t1
  t2 = t2
  t3 = t3
  TaskId = {t1, t2, t3}
  Deadline = {}
  None = None
  TIMER_COMPACTION_THRESHOLD = 2
  MICROTASK_BATCH_SIZE = 1
  Features = {"throw", "nested", "suspension", "descriptor", "armed", "microtask", "cancel", "yield"}
  MaxGeneration = 1
  MaxDepth = 2
SPECIFICATION BoundedFairSpec
INVARIANTS WakesDelivered
PROPERTIES QueuedTaskRuns
