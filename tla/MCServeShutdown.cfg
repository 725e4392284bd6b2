SPECIFICATION FairSpec
CONSTANTS
  DataEP <- TwoDataEPs
  Conn = {c1, c2}
  CanFail = TRUE
INVARIANTS IInv StoresOutliveHandlers
PROPERTY ShutdownEnds
