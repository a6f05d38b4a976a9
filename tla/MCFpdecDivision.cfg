CONSTANTS
  DEC_DIGITS_PER_DIGIT = 3
  RADIX = 1000
  U64 = 1024
  SHINT_LIMIT = 65536
  MAX_DEC_PREC_FOR_SHINT = 1
  MAX_N_DEC_DIGITS_IN_SHINT = 5
  FPDEC_MAX_DEC_PREC = 5
  FPDEC_MAX_EXP = 255
  LOG10_PRECISION = 1000000
  Calls <- MCCalls
  Literals <- MCLiterals
  LongLongs = {}
  DigitValues <- MCDigitValues
  Precisions <- MCPrecisions
  Modes <- RoundingModes
  MaxChanges = 3
  DefaultModes = {}
  MaxSpan = 3
  MaxInt = 1000000000
SPECIFICATION DivisionSpec
INVARIANTS
  DivIsRounded
  DivIsExact
  QuotientIsConcise
  DivModIsFloor
  DivisionsAreWellFormed
  DivisionsDoNotAbort
PROPERTIES
  QuantizingFindsMultiple
