SPECIFICATION FairSpec
CONSTANTS
  g = g m1 = m1 m2 = m2 m3 = m3 m4 = m4 m5 = m5 m6 = m6
  Genesis = g
  NULL = NULL
  Block <- MCBlock
  Prev <- MCPrev
  Height <- MCHeight
  Work <- MCWork
  Time <- MCHeight
  AuxPow <- MCBlock
  ValidPow <- MCBlock
  MaxHdrInMem = 2
  NumNodes = 2
  NumSegs = 4
  StopHeight <- MCStopHeight
  ChainHeight = 6
  Main <- MCMain
  Honest = {1, 2}
  Prompt = {1}
  MaxBatch = 1
  MaxBuffered = 1
  MaxFlushFails = 2
  Crowd = 1
  MaxWire = 2
  MaxGarbled = 0
INVARIANTS WithinBudget FlushOrdered OnePeerOneSegment
PROPERTIES NothingDownloadedIsLost Completes
CHECK_DEADLOCK FALSE
