SPECIFICATION Spec
CONSTANTS
  a = a
  b = b
  x = x
  y = y
  ENB = {a, b}
  UE = {x}
  NoEnb = NoEnb
  NoUe = NoUe
  EnbIds = {1, 2}
  PoolSize = 2
  MaxContexts = 3
  MaxQueue = 2
  Peers <- LostEnb
CHECK_DEADLOCK FALSE
SYMMETRY Symmetry
INVARIANTS
  ConnectedMeansAssociated
