CONSTANT Blocks <- MC_SoundHeaderBlocks
SPECIFICATION Spec
PROPERTY RejectsEveryDuplicateTx
CHECK_DEADLOCK FALSE
