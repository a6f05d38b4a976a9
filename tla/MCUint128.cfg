SPECIFICATION Spec
CONSTANTS
  U64 = 16
  HALF = 4
  RADIX = 10
  TEN = 3
PROPERTIES
  AgreesWithNative
  RadixDivisionIsExact
CHECK_DEADLOCK FALSE
