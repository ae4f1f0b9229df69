SPECIFICATION Spec
CONSTANTS
  g = g a1 = a1 a2 = a2 a3 = a3 a4 = a4 b2 = b2 b3 = b3 c3 = c3 junk = junk
  Genesis = g
  NULL = NULL
  Junk = junk
  JunkWork = 99
  Block <- MCForks
  Prev <- MCPrev
  Height <- MCHeight
  Work <- MCWork
  Time <- MCTime
  AuxPow <- MCAuxPow
  ValidPow <- MCValid
  MaxHdrInMem = 1
  Checkpoint = {a1, a3}
  CheckpointWork = 1
  MaxFile = 5
  MaxRestarts = 2
INVARIANTS TypeOK FileInOrder WholeFileLoads
PROPERTY ActiveChainStaysLive
CHECK_DEADLOCK FALSE
