SPECIFICATION FairSpec
CONSTANTS
  NumPeers = 2
  Desired = 1
  MaxPeers = 1
  MaxCount = 3
INVARIANTS TypeOK NoStrayEvents DialsAreFresh RequestsCountPeers
PROPERTIES LoopEnds LifeSpec
