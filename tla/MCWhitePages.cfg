CONSTANTS
    Blocks <- MCBlocks
    Genesis = "G"
    NoBlock = NoBlock
    Parent <- MCParent
    Height <- MCHeight
    Ancestors <- MCAncestors
    Enabled <- MCEnabled
    Registrations <- OnBothBranches
    Nicks <- MCNicks
    Keys <- MCKeys
    NoKey = NoKey
    OwnKeys = {"k1"}
    MaxCrashes = 2
SPECIFICATION Spec
INVARIANTS WhitePagesMatchChain RebuildRepairs
