SPECIFICATION Spec
CONSTANTS
    LLONG_MAX = 12
    MaxString = 3
    Inf = 1000
    SeqMax = 9
    StreamNodeMaxEntries = 1
    Clients = {"c1", "c2", "c3"}
    Families <- MCFamilies
    Users <- MCUsers
    Table <- MCTable
    Datasets <- MCDatasets
    Selected <- MCSelected
    Watchable <- MCWatchable
    Dice = {0, 1}
    MaxCommands <- MCMaxCommands
    Transactional <- MCTransactional
    MaxTime = 2
    IntBits = {2, 4}
    ItemsPerCmd = 2
INVARIANTS ReplicaFollows ValuesAreWellFormed
PROPERTIES ExecSeesWatchedValues FailedCommandsChangeNothing NewDataWakesBlockedClients BlockedClientsAreServed RestartKeepsTheData
CHECK_DEADLOCK FALSE
