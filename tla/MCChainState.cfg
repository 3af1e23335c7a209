CONSTANTS
    G = G A1 = A1 A2 = A2 A3 = A3 C3 = C3 B1 = B1
    NoBlock = NoBlock

    Threads = {"net"}
    Blocks <- MCBlocks
    Genesis = G
    Parent <- MCParent
    Height <- MCHeight
    Work <- TiedB
    Ancestors <- MCAncestors
    ContextOk <- NotA3
    Connects <- NotA3AndC3
    Addresses <- MCAddresses
    Careful = TRUE
    MaxCalls = 2
    MaxRestarts = 1
SPECIFICATION Spec
INVARIANTS  BestChainActive CheckBlockIndex
PROPERTY ActivationAdvances
