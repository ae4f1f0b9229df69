SPECIFICATION Spec
CONSTANTS
  g = g a1 = a1 a2 = a2 a3 = a3 a4 = a4 b2 = b2 b3 = b3 c3 = c3 junk = junk
  Genesis = g
  NULL = NULL
  Junk = junk
  JunkWork = 99
  Block <- MCChain
  Prev <- MCPrev
  Height <- MCHeight
  Work <- MCWork
  Time <- MCTime
  AuxPow <- MCAuxPow
  ValidPow <- MCValid
  MaxHdrInMem = 4
  Checkpoint = {}
  CheckpointWork = 1
  MaxFile = 4
  MaxRestarts = 2
INVARIANT CommittedLoads
CHECK_DEADLOCK FALSE
