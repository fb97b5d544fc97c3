SPECIFICATION FairSpec
CONSTANTS
  Errors <- MCErrors
  Limits <- MCLimits
  MaxTxs = 3
  TimeoutStop = 30
INVARIANTS
  TypeOK
  StopBound
  OneRowPerTx
  EveryAttemptMade
PROPERTIES
  StopEndsJob
  RunsAsGoroutine
