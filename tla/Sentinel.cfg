SPECIFICATION Spec
CONSTANTS
    Sentinels = {1, 2, 3}
    Redis = {11, 12, 13}
    Quorum = 2
    ParallelSyncs = 1
    Priority <- MCPriority
    Inits <- All
    Live = {1}
CHECK_DEADLOCK FALSE
INVARIANTS ElectionsAreSafe ConfigEpochNamesOneMaster
PROPERTIES ConfigNeverGoesBack FailoverEnds
