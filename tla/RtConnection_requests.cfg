SPECIFICATION FairSpec
CONSTANTS
  Callers = {c1, c2}
  AppLocked = {}
  MaxCalls = 2
  MaxEvents = 0
  MaxDrops = 1
  MaxQueue = 1
  DestroyWhen = "never"
  None = None
INVARIANTS OwnResponse SeqInv
PROPERTIES RequestEnds
