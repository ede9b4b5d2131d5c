CONSTANTS
  c1 = c1  c2 = c2  c3 = c3
  Client = {c1, c2, c3}
  LeaseTtl = 5
  MaxPolls = 4
  MaxFetch = 1
  FirstRecord = 1
  LastRecord = 2
  FaultKinds = {"evict"}
  MaxFaults = 2
SPECIFICATION Spec
INVARIANT OneFetch
PROPERTIES NoStaleSet L2Behaves
