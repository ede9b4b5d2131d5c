CONSTANTS
  c1 = c1  c2 = c2  c3 = c3
  Client = {c1, c2}
  LeaseTtl = 2
  MaxPolls = 1
  MaxFetch = 2
  FirstRecord = 0
  LastRecord = 1
  FaultKinds = {"l1down", "l2down", "dpdown", "evict", "l2restart"}
  MaxFaults = 2
SPECIFICATION FairSpec
INVARIANTS OnlyRecordsCached GrantsSpaced
PROPERTY EveryQueryEnds
