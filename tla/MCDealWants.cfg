SPECIFICATION DealSpec
CONSTANTS
  N = 3
  Speeds = {1, 4}
  WantLists <- MixedLists
  MaxRounds = 4
INVARIANTS DealIInv Balanced
PROPERTY SampledIsDealt
