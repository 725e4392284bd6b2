SPECIFICATION DealSpec
CONSTANTS
  N = 2
  Speeds = {1, 4}
  WantLists <- EqualLists
  MaxRounds = 4
INVARIANT StragglerRelieved
