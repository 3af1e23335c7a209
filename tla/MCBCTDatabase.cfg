CONSTANTS
    Blocks <- MCBlocks
    Genesis = "g"
    Parent <- MCParent
    Height <- MCHeight
    Ancestors <- MCAncestors
    Creates <- MCCreates
    Rewarded <- MCRewarded
    Amount <- MCAmount
    Txs = {"m", "n", "f"}
    Mine = {"m", "n"}
    NoTx = NoTx
    NoBlock = NoBlock
    NoEvent = NoEvent
    beeGestationBlocks = 1
    beeLifespanBlocks = 2
    InitTips <- A1OrA2
    WalletLoaded <- WithOrWithout
    MaxMoves = 4
    MaxStarts = 2
    MaxCrashes = 1
    MaxRescans = 1
SPECIFICATION Spec
CHECK_DEADLOCK FALSE
INVARIANTS  RewardsFollowChain
