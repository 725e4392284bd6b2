SPECIFICATION FairSpec
CONSTANTS
  Extra <- TwoExtras
  Mode <- LatePull
  MaxRounds = 1
  MaxFaults = 0
PROPERTY NeverStalls
CHECK_DEADLOCK FALSE
