CONSTANTS
  Node <- ThreeNodes
  FileRank <- ThreeRanks
  TotalLetters = 5
  LeaderDead = 3
  MaxMissed = 0
  FaultKinds = {"crash"}
  MaxFaults = 1
SPECIFICATION FairSpec
PROPERTY FollowersLeaveDeadLeader
