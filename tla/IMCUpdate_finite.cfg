CONSTANTS
  Args <- MC_Args
  Tables <- MC_Tables
SPECIFICATION Spec
INVARIANTS
  UpdateIsFinite
