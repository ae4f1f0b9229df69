SPECIFICATION Spec
CONSTANTS
  g = g a1 = a1 a2 = a2 a3 = a3 a4 = a4 b2 = b2 b3 = b3 t = t u = u v = v x = x y = y
  Genesis = g
  NULL = NULL
  Block <- MCBlock
  Prev <- MCPrev
  Height <- MCHeight
  Work <- MCWork
  Time <- MCHeight
  AuxPow = {}
  ValidPow <- MCBlock
  MaxHdrInMem = 10
  Tx = {t, u, v}
  Addr = {x, y}
  Outs <- MCOuts
  BlockTxs <- MCBlockTxs
INVARIANTS TypeOK LookupFinds CountsAgree NeverOverstated
PROPERTY TipCountsAll
