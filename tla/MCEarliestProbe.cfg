SPECIFICATION Spec
CONSTANTS
  Errors <- MCErrors
  Limits <- MCLimits
  MaxLowest = 3
INVARIANTS
  TypeOK
  ProbeExact
  StopBound
