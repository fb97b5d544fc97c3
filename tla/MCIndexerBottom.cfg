SPECIFICATION FairSpec
CONSTANTS
  Configs <- MCAutoLive
  MaxTip = 3
  MaxLow = 1
  MaxFaults = 2
INVARIANTS
  NothingBelowLost
