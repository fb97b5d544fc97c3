SPECIFICATION FairSpec
CONSTANTS
  Start = 1
  Stop = 3
  MaxConcurrency = 2
  t1 = t1
  t2 = t2
  Tx <- MCTx
  TxsOf <- MCTxsOf
INVARIANTS
  TypeOK
  SemCountsRunners
  OkMeansAllStored
  BlockWithItsTxs
  NoCancelledRow
PROPERTIES
  NothingAfterOk
  KeepsPromise
  TroubleEndsCall
  Returns
