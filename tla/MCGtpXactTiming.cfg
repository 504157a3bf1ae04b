SPECIFICATION FairSpec
CONSTANTS
    Mme = mme
    Spgw = spgw
    PoolSize = 3
    MAX_XACT_ID = 8
    T3_RESPONSE_DURATION = 3
    T3_RESPONSE_RETRY_COUNT = 3
    T3_DUPLICATED_DURATION = 9
    T3_DUPLICATED_RETRY_COUNT = 1
    MaxDelay = 2
    MmeRequests = 1
    SpgwRequests = 0
    MaxAllocations = 20
    MaxRequests <- OriginatedBy
INVARIANTS
    TypeOK
    PoolPartition
    AtMostOnce
    

    
