SPECIFICATION Spec
CONSTANTS
  l1 = l1
  l2 = l2
  Listeners = {l1, l2}
  Scalars = {"S"}
  Rows = {"r"}
  Requests <- MCRequests
  MayRefuse = TRUE
  MaxStops = 1
INVARIANTS TypeOK RegistryUnique Durable AckedKept InstancesExact AckedServed
