SPECIFICATION FairSpec
CONSTANTS
  Transfer = {t1, t2}
  Stream = {s1, s2, s3}
  NoTransfer = NoTransfer
  DataConns = 3
  MaxDataConns = 2
INVARIANTS IInv UsableWhileRunning OnlyOvertakenLeft
PROPERTIES TransfersEnd AttachesEnd
