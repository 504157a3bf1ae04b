SPECIFICATION Spec
CONSTANTS
    Mme = mme
    Spgw = spgw
    PoolSize = 2
    MAX_XACT_ID = 2
    T3_RESPONSE_DURATION = 1
    T3_RESPONSE_RETRY_COUNT = 2
    T3_DUPLICATED_DURATION = 1
    T3_DUPLICATED_RETRY_COUNT = 2
    MaxDelay = 0
    MmeRequests = 0
    SpgwRequests = 2
    MaxAllocations = 20
    MaxRequests <- OriginatedBy
PROPERTY
    ImplementsService
