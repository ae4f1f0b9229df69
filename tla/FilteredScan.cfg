SPECIFICATION FairSpec
CONSTANTS
  a1 = a1 a2 = a2 a3 = a3 b1 = b1 b2 = b2 NULL = NULL
  Tx <- MCTx
  TxHeight <- MCTxHeight
  Parent <- MCParent
  NumPeers = 1
  Announcer = 1
  StartTip = 6
  MaxTip = 8
  Window = 3
  TailLimit = 2
INVARIANTS TypeOK OutputsFirst PaymentsFound
PROPERTY ScanEnds
