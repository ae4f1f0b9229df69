SPECIFICATION FairSpec
CONSTANTS
  NumPeers = 2
  Desired = 1
  Gap = 1
  Far = 2
  MaxHeaders = 2
  MaxInv = 2
  Limit = 2
  Recent = 2
  StartTip = 4
  StartChain = 4
  MaxChain = 5
  Prompt = {1, 2}
  Faulty = {}
  MaxBad = 1
  Word = 1024

PROPERTY CatchesUp
CHECK_DEADLOCK FALSE
