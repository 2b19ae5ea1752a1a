SPECIFICATION Spec
CONSTANTS
    Holding = 2
    Amounts = {1, 2}
    Depth = 2
    Cap = 1
    PolicyCap = 1
    GapBound = 1
    PolicyRows <- MCPolicyRows
    CheckpointHeights <- MCCheckpoints
    MaxHeight <- MCHeights
    MaxLegs <- MCLegs
    MaxFaults = 1
INVARIANTS
    BridgedIsBacked
    ProofsAgree
    PoliciesAreOrdered
    TransfersFlow
CHECK_DEADLOCK FALSE
