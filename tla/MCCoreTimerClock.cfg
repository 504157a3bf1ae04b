\* The clock is past 2^32 ms when the program starts, as every clock set after
\* 19 February 1970 is.
CONSTANTS
    PoolSize = 2
    Durations = {0, 2}
    StartTime = 64
    MaxTime = 68
    Uint32 = 64
SPECIFICATION Spec
PROPERTY PassLeavesNoneDue
