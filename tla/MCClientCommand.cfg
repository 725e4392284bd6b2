SPECIFICATION FairSpec
CONSTANTS
  Command = {"push", "pull", "refs", "import", "restore"}
  Cand = {lan, relay}
  Port = port
  Extras = 1
  NoDial = NoDial
INVARIANTS IInv NothingLeaks OrderlyEnd
PROPERTY CommandEnds
