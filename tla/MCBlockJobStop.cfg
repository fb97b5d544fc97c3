SPECIFICATION Spec
CONSTANTS
  Errors <- MCErrors
  Limits <- MCDefaultLimits
  MaxTxs = 3
  TimeoutStop = 30
INVARIANTS
  StopsInTime
