\* Three timers, an empty and a non-empty duration, four instants: timers
\* expire, are restarted, overtake each other and tie.
CONSTANTS
    PoolSize = 3
    Durations = {0, 2}
    StartTime = 0
    MaxTime = 3
    Uint32 = 64
SPECIFICATION Spec
INVARIANTS ListsPartition
PROPERTIES PassLeavesNoneDue PassEnds
