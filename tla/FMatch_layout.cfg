CONSTANTS
  N = 3
  BondedOpts <- MC_BondedOpts
  NonbondedOpts <- MC_NonbondedOpts
  BeadType <- MC_BeadType
  N_frames = 2
  LSModes = {FALSE, TRUE}
  MaxFrames = 6
SPECIFICATION Spec
INVARIANTS
  TypeOK
  FitWritesInBounds
  RowsUnmixed
  BlocksIsolated
PROPERTIES
  RefinesBlockAccumulator
