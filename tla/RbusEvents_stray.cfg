SPECIFICATION ESpec
CONSTANTS
  c = c
  t1 = t1
  t2 = t2
  Listeners = {c}
  Scalars = {"S"}
  Rows = {}
  Requests <- MCRequests
  MayRefuse = TRUE
  MaxStops = 1
  Threads = {t1, t2}
  May <- MCOwn
  MaxCalls = 3
  MaxTimeouts = 1
  MaxEvents = 1
CHECK_DEADLOCK FALSE
INVARIANT NoEventAfterUnsubscribe
