CONSTANTS
  s1 = s1
  s2 = s2
  s3 = s3
  r1 = r1
  r2 = r2
  r3 = r3
  p1 = p1
  p2 = p2
  Senders = {s1, s2}
  Receivers = {r1, r2}
  SendPeekers = {p1}
  ReceivePeekers = {p2}
  Cancellable = {s1, r1}
  Token = Token
  capacity = 2
  None = None
SPECIFICATION FairSpec
CHECK_DEADLOCK FALSE
INVARIANTS WaitersConsistent EachWakeIsUsed
PROPERTIES ValueReachesReceiver CloseEndsCalls
