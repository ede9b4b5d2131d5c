CONSTANTS
  Node <- ThreeNodes
  FileRank <- ThreeRanks
  TotalLetters = 5
  LeaderDead = 3
  MaxMissed = 3
  FaultKinds = {"crash"}
  MaxFaults = 1
SPECIFICATION FairSpec
PROPERTIES Converges FailoverCovers
