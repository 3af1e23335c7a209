CONSTANTS
    Blocks <- MCBlocks
    Genesis = "g"
    Parent <- MCParent
    Height <- MCHeight
    Spent <- MCSpent
    Created <- MCCreated
    Ancestors <- MCAncestors
    UtxoAt <- MCUtxoAt
    Outpoints <- MCOutpoints
    NoCoin = NoCoin
    NoBlock = NoBlock
    NoUndo = NoUndo
    MaxCrashes = 2
SPECIFICATION FairSpec
INVARIANTS
    CoinsMatchBestBlock
    RecoveryNeverFails
    TipCanMove
PROPERTIES
    ComesBackUp
