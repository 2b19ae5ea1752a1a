SPECIFICATION FairSpec
CONSTANTS
    Hubs = {h1, h2}
    MaxActions = 2
    MaxReorgs = 2
    MaxFaults = 2
INVARIANT
    OutboxAccountsForHubs
PROPERTIES
    RetractionsSpareTheChain
    HubsConverge
CHECK_DEADLOCK FALSE
