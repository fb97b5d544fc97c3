SPECIFICATION FairSpec
CONSTANTS
  Configs <- MCConfigs
  MaxTip = 5
  MaxLow = 3
  MaxFaults = 2
INVARIANTS
  TypeOK
  CursorCovered
  GapFree
  ReindexRewritesAll
PROPERTIES
  BoundedRunStaysInRange
  CatchesUp
