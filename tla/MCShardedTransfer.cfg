SPECIFICATION FairSpec
CONSTANTS
  Extra <- ThreeExtras
  Mode <- EndingModes
  MaxRounds = 2
  MaxFaults = 2
INVARIANTS IInv OkIsAgreed
PROPERTY TransferEnds
