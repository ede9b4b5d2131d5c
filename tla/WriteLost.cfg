CONSTANTS
  n1 = n1  n2 = n2  n3 = n3  a = a  b = b  w1 = w1  w2 = w2
  Old = Old  Torn = Torn  NA = NA
  Node = {n1, n2, n3}
  Leader = n1
  Owner = n3
  Domain = {a, b}
  Listed = {a}
  Write = {w1, w2}
  DomainOf <- TwoDomains
  Entries = {n1}
  Resolved = {}
  MaxActive = 2
  FaultKinds = {}
  MaxFaults = 0
SPECIFICATION Spec
INVARIANT CommitsAreCurrent
CHECK_DEADLOCK FALSE
