SPECIFICATION FairSpec
CONSTANTS
  Keys <- ThreeKeys
  MaxKeys = 2
  MaxCount = 3
INVARIANTS
  StatsTypeOK
  CleanMeansSaved
  WritePending
PROPERTIES
  CapDropsLeastPopular
  CountsReachFile
