SPECIFICATION FairSpec
CONSTANTS
  NumPeers = 2
  Desired = 1
  Gap = 1
  Far = 2
  MaxHeaders = 2
  MaxInv = 2
  Limit = 2
  Recent = 2
  StartTip = 0
  StartChain = 5
  MaxChain = 6
  Prompt = {2}
  Faulty = {1}
  MaxBad = 1
  Word = 1024
INVARIANTS TypeOK OneDownloader Watched
PROPERTIES HeadersEnd LifeSpec
CHECK_DEADLOCK FALSE
