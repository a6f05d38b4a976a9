CONSTANTS
  Objects = {a, b, c}
  MaxArrays = 9
SPECIFICATION ClassSpec
SYMMETRY Symmetry
INVARIANTS
  HeapTypeOK
  OwnersAreDistinct
  FreesAreValid
  NothingLeaks
  SuccessIsHonest
CHECK_DEADLOCK FALSE
