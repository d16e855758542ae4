SPECIFICATION Spec
CONSTANTS
  Callers = {c1}
  AppLocked = {}
  MaxCalls = 1
  MaxEvents = 0
  MaxDrops = 0
  MaxQueue = 1
  DestroyWhen = "never"
  None = None
INVARIANT EntryLiveAtHandOver
