SPECIFICATION Spec
CONSTANTS
    Node = {1, 2, 3, 4, 5}
    Slot = {1, 2, 3}
    Key = {}
    KeySlot <- NoKeySlot
    Inits <- All
    CanCrash = {2}
    MaxEpoch = 5
    MaxOffset = 2
CHECK_DEADLOCK FALSE
INVARIANTS VotesAreSafe MajoritiesDecide
PROPERTIES SlotsMoveToNewerEpochs AgreedFailoverLosesNoWrite
