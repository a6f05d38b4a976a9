CONSTANTS
  DEC_DIGITS_PER_DIGIT = 1
  RADIX = 10
  U64 = 16
  Digits = {0, 1, 8, 9}
  MaxDividend = 4
  MaxDivisor = 3
SPECIFICATION Spec
INVARIANTS
  KnuthTypeOK
  DivisorIsNormalized
  EstimateIsClose
  QuotientIsExact
PROPERTIES
  DivisionTerminates
