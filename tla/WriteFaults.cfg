CONSTANTS
  n1 = n1  n2 = n2  n3 = n3  a = a  b = b  w1 = w1  w2 = w2
  Old = Old  Torn = Torn  NA = NA
  Node = {n1, n2, n3}
  Leader = n1
  Owner = n3
  Domain = {a, b}
  Listed = {a}
  Write = {w1, w2}
  DomainOf <- TwoDomains
  Entries = {n1, n3}
  Resolved = {w2}
  MaxActive = 2
  FaultKinds = {"lose", "disk", "full", "crash", "reset"}
  MaxFaults = 1
SPECIFICATION FairSpec
INVARIANTS TypeOK LogMatching SerialFileIsCurrent QuorumMeansReplicated OwnerServesAWrite OnlyWrittenValues
PROPERTY QuorumInTheEnd
CHECK_DEADLOCK FALSE
