SPECIFICATION Spec
CONSTANTS
  g = g m1 = m1 m2 = m2 m3 = m3 s1 = s1 s2 = s2
  Genesis = g
  NULL = NULL
  Block <- MCBlock
  Prev <- MCPrev
  Height <- MCHeight
  Work <- MCWork
  Time <- MCTime
  AuxPow <- MCBlock
  ValidPow <- MCBlock
  MaxHdrInMem = 3
  NumNodes = 3
  NumSegs = 2
  StopHeight <- MCStopHeight
  ChainHeight = 3
  Main <- MCMain
  Honest = {}
  Prompt = {}
  MaxBatch = 2
  MaxBuffered = 2
  MaxFlushFails = 2
  Crowd = 1
  MaxWire = 2
  MaxGarbled = 2
INVARIANTS TypeOK CheckpointsAnchored FlushOrdered TipsBracketed OnePeerOneSegment
PROPERTIES FlushAdvances NothingDownloadedIsLost
CHECK_DEADLOCK FALSE
