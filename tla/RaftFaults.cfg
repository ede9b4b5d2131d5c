CONSTANTS
  Node <- ThreeNodes
  FileRank <- ThreeRanks
  TotalLetters = 5
  LeaderDead = 3
  MaxMissed = 1
  FaultKinds = {"crash", "restart", "lose"}
  MaxFaults = 2
SPECIFICATION Spec
INVARIANTS TypeOK ForwardsGoUp OneOwnerPerLetter KnowsItself NoFalseFailover OwnersHaveRecords
PROPERTY ViewsBehave
