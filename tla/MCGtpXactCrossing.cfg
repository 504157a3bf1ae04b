SPECIFICATION Spec
CONSTANTS
    Mme = mme
    Spgw = spgw
    PoolSize = 2
    MAX_XACT_ID = 8
    T3_RESPONSE_DURATION = 1
    T3_RESPONSE_RETRY_COUNT = 2
    T3_DUPLICATED_DURATION = 2
    T3_DUPLICATED_RETRY_COUNT = 1
    MaxDelay = 0
    MmeRequests = 1
    SpgwRequests = 1
    MaxAllocations = 20
    MaxRequests <- OriginatedBy
PROPERTY
    ImplementsService
