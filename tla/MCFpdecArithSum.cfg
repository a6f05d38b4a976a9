CONSTANTS
  DEC_DIGITS_PER_DIGIT = 3
  RADIX = 1000
  U64 = 1024
  SHINT_LIMIT = 65536
  MAX_DEC_PREC_FOR_SHINT = 1
  MAX_N_DEC_DIGITS_IN_SHINT = 5
  FPDEC_MAX_DEC_PREC = 7
  FPDEC_MAX_EXP = 31
  LOG10_PRECISION = 1000000
  Calls = {"from_ascii_literal", "from_long_long", "add"}
  Literals <- MCLiterals
  LongLongs <- MCLongLongs
  DigitValues <- MCDigitValues
  Precisions = {}
  Modes = {}
  MaxChanges = 3
  DefaultModes = {}
  MaxSpan = 3
  MaxInt = 2000000000
SPECIFICATION Spec
INVARIANT
  SameSignAddsAbsValues
