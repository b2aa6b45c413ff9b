CONSTANTS
  c1 = c1
  c2 = c2
  c3 = c3
  c4 = c4
  Calls = {c1, c2, c3, c4}
  Cancellable = {c3}
  Busy = {c1}
  MaxDerived = 1
  MaxCommits = 2
  maximumConnections = 2
  maximumIdleConnections = 1
  None = None
SPECIFICATION FairSpec
CHECK_DEADLOCK FALSE
INVARIANTS  WaitingIsJustified ReturnedMeansUnused
  
