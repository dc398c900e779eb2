SPECIFICATION FairSpec
CONSTANTS
  MaxSessions = 3
  MaxQueue = 8
  ImageRemains = 2
PROPERTY UnrelatedPacketsIgnored
