SPECIFICATION FairSpec
CONSTANTS
    ann = ann
    bob = bob
    cat = cat
    T = T
    U = U
    coin = coin
    nobody = nobody
    Coin = coin
    Nobody = nobody
    Addresses = {ann, bob, cat}
    Ticks = {T, U}
    Markets <- AllMarkets
    InitialBalance <- Rich
    InitialOwner <- OwnedByAnn
    Refused <- CatRefusesAnn
    Lifetimes = {1}
    COINPAY_EXPIRATION = 1
    MaxOrders = 3
    MaxTime = 2
INVARIANTS
    TokensAreAccounted
    FillsAreFair
    NothingDangles
PROPERTY
    WaitingSellersFinish
