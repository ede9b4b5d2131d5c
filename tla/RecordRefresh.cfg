CONSTANTS
  n1 = n1  n2 = n2  a1 = a1  a2 = a2  c1 = c1
  Node = {n1, n2}
  Highest = n1
  Rank <- TwoRanks
  Booted = {n1}
  TotalLetters = 2
  Listed = {a1, a2}
  Fresh = {c1}
  HeadOf <- Heads
  MaxLive = 1
  MaxEvents = 1
  Process = process
  Torn = Torn
  None = None
SPECIFICATION FairSpec
INVARIANTS TypeOK EveryRecordChecked StatesReadable
 
CHECK_DEADLOCK FALSE
