SPECIFICATION Spec
CONSTANTS
    None = None
    MaxJobs = 3
    Changes = 2
    Inits <- MCInits
CHECK_DEADLOCK FALSE
INVARIANTS RestartRecovers DirtyCountsUnsaved
