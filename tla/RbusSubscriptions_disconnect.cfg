SPECIFICATION Spec
CONSTANTS
  l1 = l1
  l2 = l2
  Listeners = {l1, l2}
  Scalars = {"S"}
  Rows = {"r"}
  Requests <- MCRequests
  MayRefuse = FALSE
  MaxStops = 1
INVARIANT DisconnectEndsAll
