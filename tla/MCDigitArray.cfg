CONSTANTS
  DEC_DIGITS_PER_DIGIT = 2
  RADIX = 100
  U64 = 128
  Digits = {0, 1, 50, 99}
  MaxLen = 3
SPECIFICATION Spec
INVARIANTS
  TypeOK
  InBounds
  CarryIsBit
  ResultIsProper
  SumIsExact
PROPERTIES
  ImplementsArithmetic
  Termination
