CONSTANTS
  DEC_DIGITS_PER_DIGIT = 4
  RADIX = 10000
  U64 = 16384
  SHINT_LIMIT = 1048576
  MAX_DEC_PREC_FOR_SHINT = 2
  MAX_N_DEC_DIGITS_IN_SHINT = 7
  FPDEC_MAX_DEC_PREC = 15
  FPDEC_MAX_EXP = 15
  LOG10_PRECISION = 1000000000
  INT64_MAX = 1023
  WIDTH = 3
  HALF = 128
  Literals <- MCLiterals
  WideLiterals <- MCWideLiterals
  Zeros <- MCZeros
  Shown <- MCShown
  DigitValues <- MCDigitValues
  Formats <- MCFormats
  Locales <- MCLocales
  PercentShifts = {1, 2}
  DefaultModes = {"HALF_EVEN", "UP"}
  MaxInt = 2000000000
SPECIFICATION Spec
INVARIANTS
  LiteralsAreReadExactly
  NoDigitIsLost
  TextFitsBuffer
  TextSaysNumber
  LiteralsReadBack
  CoefficientIsExact
