CONSTANTS
    Blocks <- MC_Blocks
    Threads = {1, 2, 3}
SPECIFICATION Spec
INVARIANT TypeOK MetadataWrittenAtMostOnce ResultAfterAllWork
PROPERTY HandlerCalledOnce
CHECK_DEADLOCK FALSE
