SPECIFICATION Spec
CONSTANTS
  Client = {c1, c2}
  Tree = {t1, t2}
  NoTree = NoTree
  MaxLost = 1
SYMMETRY Alike
INVARIANTS IInv TrackingServed
PROPERTY NoBlindOverwrite
