CONSTANTS
  t1 = t1
  t2 = t2
  v1 = v1
  NoCall = NoCall
  Calls <- MCCalls
  TxCalls <- MCTxCalls
  StmtCount = 2
  Overlap = FALSE
SPECIFICATION Spec
INVARIANTS DoneMeansOk
