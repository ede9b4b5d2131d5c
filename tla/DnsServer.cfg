CONSTANTS
  Thread = {u1, c1}
  UdpWorker = {u1}
  TcpWorker = {c1}
  MaxUdp = 4
  MaxTcp = 3
  MaxQueries = 2
  WindowSeconds = 1
  MaxTime = 2
  MaxResets = 1
SPECIFICATION FairSpec
INVARIANTS PoolTypeOK WindowBounded
PROPERTIES DropsJustified QueuesDrain
CHECK_DEADLOCK FALSE
