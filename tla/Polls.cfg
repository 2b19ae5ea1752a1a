SPECIFICATION Spec
CONSTANTS
    Voters = {1, 2}
    Holding <- MCHolding
    GasHolding <- MCGas
    Treasury = 9
    Options = {0, 1, 2}
    Definitions <- MCDefinitions
    Selections <- MCSelections
    ExactFrom = 3
    Replaces = FALSE
    MaxHeight = 4
    MaxPolls = 1
    MaxFaults = 1
INVARIANTS
    FirstCrossingDecides
    EscrowIsOpenPolls
    CallbackRunsOnce
CHECK_DEADLOCK FALSE
