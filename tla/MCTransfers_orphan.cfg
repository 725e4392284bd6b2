SPECIFICATION Spec
CONSTANTS
  Transfer = {t1}
  Stream = {s1, s2}
  NoTransfer = NoTransfer
  DataConns = 2
  MaxDataConns = 2
INVARIANT AllClosed
