SPECIFICATION PatientSpec
CONSTANTS
  Callers = {c1}
  AppLocked = {c1}
  MaxCalls = 1
  MaxEvents = 3
  MaxDrops = 0
  MaxQueue = 1
  DestroyWhen = "quiet"
  None = None
INVARIANTS TypeOK ThreadInv InOrder
PROPERTIES QueueDrains DestroyEnds DestroyUnblocks ResponseReachesWaiter
