SPECIFICATION Spec
CONSTANTS
    None = None
    Conns <- MCConns
    Channels <- MCChannels
    Keys <- MCKeys
    Scenarios <- MCScenarios
    BufSize = 2
    Chunk = 2
    QueryLimit = 14
INVARIANTS RepliesArriveInOrder NoDanglingClients NothingIsForgotten
CHECK_DEADLOCK FALSE
