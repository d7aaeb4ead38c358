CONSTANTS
  IdxOptions <- MC_IdxOptions
  TypeOptions <- MC_TypeOptions
  NumSinglets = 3
  NumTriplets = 2
SPECIFICATION Spec
INVARIANTS
  EigenIndexInRange
