SPECIFICATION FairSpec
CONSTANTS
    N = 4
    Clocks <- MCClocks
    RejectedSets = {{}, {2}}
    PollLimit = 2
    PageLimit = 2
    Burst = 2
    MaxInterrupts = 1
INVARIANTS
    NoHoles
    CompletedIsComplete
PROPERTIES
    EveryMessageIsImported
    RecoveringIsLeft
