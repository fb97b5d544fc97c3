SPECIFICATION FairSpec
CONSTANTS
  Configs <- MCAutoLive
  MaxTip = 4
  MaxLow = 3
  MaxFaults = 2
PROPERTIES
  AutoResumes
