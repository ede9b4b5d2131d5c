CONSTANTS
  Key = {k1, k2, k3}
  Value = {v1, v2}
  Capacity = 2
  L1Capacity = 2
  LeaseTtl = 1
  NA = NA
SPECIFICATION Spec
INVARIANT KeepMostRecent
PROPERTY EachNameAlone
