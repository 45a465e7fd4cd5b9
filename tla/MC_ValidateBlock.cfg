CONSTANT Blocks <- MC_Blocks
SPECIFICATION Spec
PROPERTY ImplementsValidationOrder EachPhaseCompletesOnce
CHECK_DEADLOCK FALSE
