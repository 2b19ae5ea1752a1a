SPECIFICATION Spec
CONSTANTS
    Native = {"n1"}
    Foreign = {"f1", "f2"}
    OriginAction <- MCOriginAction
    Fee <- MCFee
    Redundancy <- MCRedundancy
    DeadlineBlocks <- MCDeadlineBlocks
    Ranking <- MCRanking
    Fund = 3
    SignedResponses <- MCSignedResponses
    MirrorFrom = 2
    ZeroConfFrom = 3
    Confirmations = 0
    Headroom = 0
    MaxSlots = 1
    MirrorCap = 1
    ExpiryCap = 1
    Depth = 1
    MaxHeight <- MCHeights
    MaxRows = 2
    MaxRollbacks = 1
INVARIANT StatsMatchReplay
CHECK_DEADLOCK FALSE
