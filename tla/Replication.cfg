SPECIFICATION FairSpec
CONSTANTS
    Server = {1, 2, 3}
    None = None
    Db = {0, 1}
    BacklogSizes = {2, 3}
    MaxClients = 2
    Inits <- MCInits
CHECK_DEADLOCK FALSE
INVARIANTS ReplicasGetTheHistory
PROPERTIES  ReplicasCatchUp
