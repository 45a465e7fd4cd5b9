CONSTANTS
    Txs = {"t1", "t2"}
    Blocks <- MC_Blocks
    Requests = {"r1", "r2", "r3"}
    ReqTx <- MC_ReqTx
    ReqKind <- MC_ReqKind
    Capacity = 1
    NoHandler = NoHandler
    MovedFromEmpty = TRUE
    MaxHeight = 2
    MaxEvents = 2
    MaxStarts = 2
SPECIFICATION Spec
INVARIANT TypeOK

CHECK_DEADLOCK FALSE
