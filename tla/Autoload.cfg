CONSTANTS
  t1 = t1
  t2 = t2
  t3 = t3
  base = base
  child = child
  sibling = sibling
  A = A
  B = B
  C = C
  Main = Main
  None = None
  Tasks = {t1, t2, t3}
  MaxFaults = 1
  Scenarios <- MCScenarios
SPECIFICATION FairSpec
CHECK_DEADLOCK FALSE
INVARIANTS LoadsConsistent OrderedLoadsSucceed
PROPERTIES EveryLoadEnds
