SPECIFICATION Spec
CONSTANTS
    Peers = {"h", "m"}
    Honest = {"h"}
    Blocks <- MCBlocks
    Path <- MCPath
    Work <- MCWork
    Bad = {"x"}
    MaxInTransit = 2
    Window = 1
    Compact = {"b"}
    Announced = {"b"}
    None = None
INVARIANTS  RecordsAgree WithinLimits LastCommonIsStored
PROPERTY BestIsDownloaded
CHECK_DEADLOCK FALSE
