SPECIFICATION FairSpec
CONSTANTS
  a = a
  b = b
  x = x
  y = y
  ENB = {a, b}
  UE = {x}
  NoEnb = NoEnb
  NoUe = NoUe
  EnbIds = {1, 2}
  PoolSize = 3
  MaxContexts = 3
  MaxQueue = 2
  Peers <- Mobility
CHECK_DEADLOCK FALSE
INVARIANTS
  PairsMutual
  NoStaleUse

  
