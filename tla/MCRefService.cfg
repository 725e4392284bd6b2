SPECIFICATION FairSpec
CONSTANTS
  h1 = h1
  h2 = h2
  h3 = h3
  n1 = n1
  n2 = n2
  t1 = t1
  t2 = t2
  Handler = {h1, h2, h3}
  Name = {n1, n2}
  Tree = {t1, t2}
  NoTree = NoTree
  NoHandler = NoHandler
  Request <- Requests
  Workload <- Workloads
  StartRefs <- Starts
  Guarded = TRUE
  MaxCrashes = 1
INVARIANTS IInv RefsComplete AnswersTrue HooksTrue
PROPERTIES PullStable Linearizable OnlyOwnPeerBlocks
