CONSTANTS
  c1 = c1
  c2 = c2
  c3 = c3
  c4 = c4
  Calls = {c1, c2, c3, c4}
  MainCalls = {c1}
  concurrencyLimit = 2
SPECIFICATION FairSpec
CHECK_DEADLOCK FALSE
INVARIANTS SlotsSound NoFreeSlotWhileWaiting
PROPERTIES ImplementsLimit WaiterServed
