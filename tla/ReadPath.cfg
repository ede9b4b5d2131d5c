CONSTANTS
  Node = {1, 2, 3, 4}
  ForwardTimeout = 3
  PeerTimeout = 2
  MaxResolve = 1
  MaxFaulty = 1
  MaxChanges = 1
  MaxLeaders = 1
  MaxHolders = 1
  Unlisted <- Gaps
  MaxHops = 5
SPECIFICATION FairSpec
INVARIANTS TypeOK ResolvesOnlyUnfound FindsRecord AnsweredInTime
PROPERTY EveryReadAnswered
CHECK_DEADLOCK FALSE
