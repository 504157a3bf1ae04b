SPECIFICATION UserSpec
CONSTANTS
  a = a
  b = b
  x = x
  ENB = {a, b}
  UE = {x}
  NoEnb = NoEnb
  NoUe = NoUe
  EnbIds = {1, 2}
  PoolSize = 3
  MaxContexts = 3
  MaxQueue = 2
  MAX_NUM_BUFFER_PKT = 1
  MaxPackets = 2
  Peers <- Users
CHECK_DEADLOCK FALSE
SYMMETRY Symmetry
INVARIANTS
  PathFollowsUe
  NotifiedMeansPaged
  ForwardsToTarget
  ForwardingEnds
