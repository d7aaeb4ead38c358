CONSTANTS
  Prec = 3
  Values <- MC_Values
  MaxBlocks = 7
SPECIFICATION Spec
INVARIANT IdenticalBlocksZeroError
