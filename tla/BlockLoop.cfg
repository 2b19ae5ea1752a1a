SPECIFICATION FairSpec
CONSTANTS
    RecheckBlocks = 2
    HorizonActive = TRUE
    MaxHeight = 3
    MaxVersion = 4
    MaxFaults = 1
INVARIANT
    IndexIsSound
PROPERTIES
    StepsAreJustified
    FollowsChain
    Converges
