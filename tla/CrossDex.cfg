SPECIFICATION Spec
CONSTANTS
    Users = {1, 2}
    Remote = 3
    Ticks = {"A", "B"}
    Holding = 3
    Here = "here"
    Offers <- MCOffers
    Edits <- MCEdits
    Mirrors <- MCMirrors
    Cap = 2
    Grace = 2
    MaxHeight = 4
    MaxOffers = 2
    MaxFaults = 1
INVARIANTS
    EscrowCovers
    SwapsAreUncrossed
    
CHECK_DEADLOCK FALSE
