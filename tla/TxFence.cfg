SPECIFICATION FairSpec
CONSTANTS
    Loop = Loop
    Quotes = {q1, q2}
    Conns = {c1, c2}
    NoConn = NoConn
    MaxTx = 3
    MaxStmts = 2
    MaxCrashes = 1
    PostCommitFaults = FALSE
INVARIANTS
    TransactionsHold
    DryRunsLeaveNothing
    NothingIsHeldBack
PROPERTY
    FlowsFinish
CHECK_DEADLOCK FALSE
