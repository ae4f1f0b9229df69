SPECIFICATION Spec
CONSTANTS
  t1 = t1 t2 = t2 t3 = t3
  Tx <- MCTx
  Inputs <- MCInputs
  Outputs <- MCOutputs
  WatchAddr <- MCWatch
  InitAddrs = 2
  MaxHeight = 2
  MaxCrashes = 3
INVARIANT OwnAddresses
CHECK_DEADLOCK FALSE
