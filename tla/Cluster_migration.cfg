SPECIFICATION Spec
CONSTANTS
    Node = {1, 2}
    Slot = {1, 2, 3}
    Key = {1, 2}
    KeySlot <- BothInSlot2
    Source = 2
    Target = 1
    TheSlot = 2
    Client = {c1}
    InitCluster <- Masters
    Pings <- PingBoth
    MaxVersion = 3
    MaxEpoch = 4
INVARIANTS LatestValueIsKept ServedValuesAreLatest MoveIsComplete
CHECK_DEADLOCK FALSE
