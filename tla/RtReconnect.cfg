SPECIFICATION FairSpec
CONSTANTS
  Senders = {s1, s2}
  Listeners = {1, 2}
  Kept = {1}
  MaxOps = 2
  MaxLosses = 1
  MaxSockFails = 1
INVARIANTS TypeOK OneReconnects ListenersRegistered
PROPERTIES Recovers CallRecovers
CHECK_DEADLOCK FALSE
