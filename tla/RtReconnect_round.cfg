SPECIFICATION FairSpec
CONSTANTS
  Senders = {s1, s2}
  Listeners = {1}
  Kept = {1}
  MaxOps = 2
  MaxLosses = 1
  MaxSockFails = 0
PROPERTIES CallEnds
CHECK_DEADLOCK FALSE
