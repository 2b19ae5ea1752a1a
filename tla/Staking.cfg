SPECIFICATION Spec
CONSTANTS
    Sources = {1, 2}
    Keys = {1, 2}
    Capabilities = {"oracle"}
    Amounts = {1, 2}
    Balance = 2
    Delay = 2
    Cooldown = 2
    MinStake = 1
    BountyFloor = 2
    Treasury = 9
    ReuseFrom = 5
    MintsFrom = 5
    MaxHeight = 6
    MaxActions = 3
    MaxEvictions = 1
INVARIANTS
    BondsAreAccounted
    RollbackIsReplay
    SignerSetsAreStable
    
