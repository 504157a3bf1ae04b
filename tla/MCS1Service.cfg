SPECIFICATION Spec
CONSTANTS
  a = a
  b = b
  x = x
  y = y
  ENB = {a, b}
  UE = {x, y}
  NoEnb = NoEnb
  NoUe = NoUe
  EnbIds = {1, 2}
  PoolSize = 2
  MaxContexts = 4
  MaxQueue = 2
  Peers <- Service
CHECK_DEADLOCK FALSE
SYMMETRY Symmetry
INVARIANTS
  
  ConnectedMeansAssociated
  NasMatchesUe
  NoneLeftBehind
  OneContextPerUe
  
