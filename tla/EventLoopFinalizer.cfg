CONSTANTS
  t1 = t1
  t2 = t2
  TaskId = {t1, t2}
  Deadline = {1, 2}
  None = None
  TIMER_COMPACTION_THRESHOLD = 2
  MICROTASK_BATCH_SIZE = 1
  Features = {"throw", "descriptor", "armed", "yield", "finalizer", "cancel", "suspension"}
  MaxGeneration = 2
  MaxDepth = 1
SYMMETRY Symmetry
SPECIFICATION Spec
INVARIANT ArmedWaitStaysArmed
