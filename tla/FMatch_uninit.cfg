CONSTANTS
  N = 3
  BondedOpts <- MC_BondedOpts
  NonbondedOpts <- MC_NonbondedOpts
  BeadType <- MC_BeadType
  N_frames = 2
  LSModes = {TRUE}
  MaxFrames = 4
SPECIFICATION Spec
INVARIANT SolveInputsInitialized
