SPECIFICATION FairSpec
CONSTANTS
  Senders = {}
  Listeners = {1, 2}
  Kept = {1}
  MaxOps = 0
  MaxLosses = 2
  MaxSockFails = 0
PROPERTIES Recovers
CHECK_DEADLOCK FALSE
