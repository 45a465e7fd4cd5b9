CONSTANTS
    Txs = {"t1", "t2"}
    Blocks <- MC_Blocks
    Requests = {"r1", "r2", "r3"}
    ReqTx <- MC_LiveReqTx
    ReqKind <- MC_LiveReqKind
    Capacity = 2
    NoHandler = NoHandler
    MovedFromEmpty = TRUE
    MaxHeight = 2
    MaxEvents = 2
    MaxStarts = 1
SPECIFICATION Spec
PROPERTY EveryCallAnswered
CHECK_DEADLOCK FALSE
