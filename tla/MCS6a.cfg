SPECIFICATION Spec
CONSTANTS
  MaxSqn = 8191
  Threads = 2
  Slots = {1, 2}
  Settings <- MCSettings
CHECK_DEADLOCK FALSE
INVARIANTS
  RefusedOnlyInRace
  VectorsUnique
  
  
  RadioKeysAgree
  
  AgreeAtRest
  DeleteFindsSession
