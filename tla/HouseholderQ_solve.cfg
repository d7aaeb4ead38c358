CONSTANTS
  col_cntr = 4
  line_cntr = 2
  Tails <- MC_Tails
  RValues = {0, 1}
  XValues <- MC_XValues
SPECIFICATION Spec
INVARIANTS
  QIsReflectorProduct
  SolutionSatisfiesConstraints
