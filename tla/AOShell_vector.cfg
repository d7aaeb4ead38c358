CONSTANTS
  Decays = {1, 2}
  MaxShells = 4
  MaxGaussians = 2
  NoValue = NoValue
  DblMax = DblMax
SPECIFICATION Spec
INVARIANTS
  PrimitivesReferOwner
  PowfactorMatchesDecay
PROPERTIES
  RefinesShellList
