SPECIFICATION Spec
CONSTANTS
  Ue = {1, 2}
  Addrs = {11}
  RxSids = {21}
  MaxSid = 3
  SessPool = 2
  Threads = 2
  Settings <- MCSettings
CHECK_DEADLOCK FALSE
INVARIANTS
  PoolsPartition
  SessionTables
  RulesReachTheirSession
  GxSidOwned
  TableNamesOwner
  AgreeAtRest
  
  NoRequestLeft
