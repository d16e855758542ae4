SPECIFICATION EFairSpec
CONSTANTS
  c = c
  t1 = t1
  t2 = t2
  Listeners = {c}
  Scalars = {"S"}
  Rows = {}
  Requests <- MCRequests
  MayRefuse = TRUE
  MaxStops = 1
  Threads = {t1, t2}
  May <- MCShared
  MaxCalls = 3
  MaxTimeouts = 1
  MaxEvents = 1
CHECK_DEADLOCK FALSE
INVARIANTS ETypeOK ClientServed NoOrphan
PROPERTY LockFreed
