SPECIFICATION NetworkSpec
CONSTANTS
    Nodes = {"a", "b", "c"}
    Links <- MCLinks
    Fragile <- MCFragile
    Messages = {"m"}
    Others = {"o"}
    Origin <- MCOrigin
    Recipient <- MCRecipient
    MaxRelay = 1
    MaxQueued = 1
INVARIANTS RelayRecordsAgree HeardOncePerConnection
PROPERTIES RelayQuiesces RecipientGetsIt
CHECK_DEADLOCK FALSE
