CONSTANTS
    Threads = {handler, rpc}
    Handlers = {handler}
    handler = handler
    rpc = rpc
    MaxOps = 2
    MaxWrites = 2
SPECIFICATION Spec
CHECK_DEADLOCK FALSE
INVARIANT NoPartialWrites
