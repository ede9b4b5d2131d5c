CONSTANTS
  Size = 5
  HeadOf <- Heads
  Scanned = {"a", "0"}
  Every = 2
  MaxErr = 1
  MaxCrashes = 2
SPECIFICATION FairSpec
INVARIANTS NoDuplicates 
PROPERTY EveryRunEnds
CHECK_DEADLOCK FALSE
