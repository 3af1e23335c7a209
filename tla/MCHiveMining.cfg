SPECIFICATION Spec
CONSTANTS
    Blocks <- MCBlocks
    Path <- MCPath
    Work <- MCWork
    HiveMined <- MCHiveMined
    Own <- MCOwn
    Bcts <- MCBcts
    Wallet <- MCWallet
    BctIn <- MCBctIn
    BeeCount <- MCBeeCount
    Winning <- MCWinning
    Threads = 2
    CheckEvery = 2
    MaxHive = 2
    Gestation = 1
    Lifespan = 2
    Start = "a1"
    Null = Null
INVARIANTS SearchIsExact ProofFitsParent
PROPERTIES BusyBeesReturns NewHeightsTried
CHECK_DEADLOCK FALSE
