CONSTANT Blocks <- MC_Blocks
SPECIFICATION Spec
PROPERTY CoinbaseHeightBoundary
CHECK_DEADLOCK FALSE
