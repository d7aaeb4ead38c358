CONSTANTS
  s1 = s1  s2 = s2  s3 = s3
  a1 = a1  a2 = a2  a3 = a3
  Segs <- MC_Segs
  Sites <- MC_Sites
  Coords <- MC_Coords
  Shifts <- MC_Shifts
  Prec = 3
  MaxNbs = 1
  MaxCalls = 5

SPECIFICATION Spec
CHECK_DEADLOCK FALSE
PROPERTIES
  PrintKeepsGeometry
