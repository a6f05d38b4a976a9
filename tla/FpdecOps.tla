------------------------------- MODULE FpdecOps -------------------------------
(***************************************************************************)
(* The functions of fpdec.c, shifted_int.c and uint128_math_native.h on    *)
(* values of type fpdec_t, as operators: what a call leaves in its result, *)
(* and its return code. The module Fpdec makes actions of them.            *)
(*                                                                         *)
(* A number has one of two representations. A shifted int is coeff (the    *)
(* 96 bits of hi and lo) times 10^-dec_prec. A dynamic one has n digits    *)
(* which hold coeff, times RADIX^exp; dec_prec is then only the number of  *)
(* decimal fractional digits to show.                                      *)
(***************************************************************************)
EXTENDS DigitOps

CONSTANTS
  SHINT_LIMIT,                (* Shifted ints are below it (2^96).         *)
  MAX_DEC_PREC_FOR_SHINT,     (* Their maximum dec_prec (9).               *)
  MAX_N_DEC_DIGITS_IN_SHINT,  (* Their maximum number of digits (29).      *)
  FPDEC_MAX_DEC_PREC,         (* Maximum of dec_prec, a uint16_t (2^16-1). *)
  FPDEC_MAX_EXP,              (* Maximum of exp (2^31 - 1).                *)
  LOG10_PRECISION             (* From here on log10 may round up to the    *)
                              (* next integer (about 10^15 for a double).  *)

U128 == U64 * U64
INT32_MIN == -FPDEC_MAX_EXP - 1

(* The relations between the limits which comments in the code rely on. *)
ASSUME ShintAssumption ==
  /\ SHINT_LIMIT \in Nat
  /\ SHINT_LIMIT % U64 = 0
  /\ SHINT_LIMIT * u64_10_pow_n(MAX_DEC_PREC_FOR_SHINT) < U128
  /\ RADIX + RADIX * u64_10_pow_n(MAX_DEC_PREC_FOR_SHINT) < SHINT_LIMIT
  /\ SHINT_LIMIT > Power(10, MAX_N_DEC_DIGITS_IN_SHINT - 1)
  /\ SHINT_LIMIT < Power(10, MAX_N_DEC_DIGITS_IN_SHINT)
  /\ Power(10, MAX_N_DEC_DIGITS_IN_SHINT + 1) < U128
  /\ MAX_N_DEC_DIGITS_IN_SHINT = DEC_DIGITS_PER_DIGIT + MAX_DEC_PREC_FOR_SHINT + 1

ASSUME LimitsAssumption ==
  /\ MAX_DEC_PREC_FOR_SHINT \in Nat
  /\ MAX_DEC_PREC_FOR_SHINT + 1 < DEC_DIGITS_PER_DIGIT
  /\ FPDEC_MAX_DEC_PREC \in Nat
  /\ MAX_DEC_PREC_FOR_SHINT =< FPDEC_MAX_DEC_PREC
  /\ FPDEC_MAX_EXP \in Nat /\ FPDEC_MAX_EXP >= 2
  /\ LOG10_PRECISION \in Nat \ {0}

-----------------------------------------------------------------------------
(* Values of fpdec_t. *)
Shint(sign, dec_prec, coeff) ==
  [dyn |-> FALSE, normalized |-> FALSE, sign |-> sign, dec_prec |-> dec_prec,
   coeff |-> coeff, n |-> 0, exp |-> 0]

Dyn(sign, dec_prec, coeff, n, exp) ==
  [dyn |-> TRUE, normalized |-> TRUE, sign |-> sign, dec_prec |-> dec_prec,
   coeff |-> coeff, n |-> n, exp |-> exp]

FPDEC_ZERO == Shint(0, 0, 0)

(* fpdec_reset_to_zero(_, dec_prec). *)
ResetToZero(dec_prec) == Shint(0, dec_prec, 0)

(* Mutant: dec_prec as an int16_t. *)
AsDecPrec_Signed(p) ==
  LET half == (FPDEC_MAX_DEC_PREC + 1) \div 2
  IN  ((p + half) % (2 * half)) - half

(* What is left of a number in an uint16_t (dec_prec) and in an int32_t. *)
AsDecPrec(p) == p % (FPDEC_MAX_DEC_PREC + 1)
Int32(v) == ((v - INT32_MIN) % (2 * (FPDEC_MAX_EXP + 1))) + INT32_MIN

(* Outcomes of a call: return code and result; an assertion may fail. *)
Returns(rc, v) == [rc |-> rc, v |-> v]
Ok(v) == Returns("OK", v)
AssertionFails == Returns("ABORT", FPDEC_ZERO)

(* The assertion holds and the call goes on to give outcome, or it fails. *)
Asserting(assertion, outcome) == IF assertion THEN outcome ELSE AssertionFails

-----------------------------------------------------------------------------
(* Digits. DigitCount: those without leading zeros. *)
DigitCount[v \in Nat] == IF v = 0 THEN 0 ELSE 1 + DigitCount[v \div RADIX]

(* Mutant: trailing zeros are not eliminated. *)
Trimmed_KeepsZeros(v, n, exp) == [coeff |-> v, n |-> n, exp |-> exp]

(* Trailing zero digits eliminated, and added to the exponent by callers. *)
Trimmed(v, n, exp) ==
  LET k == TrailingZeroDigits(v, n)
  IN  [coeff |-> v \div Weight(k), n |-> n - k, exp |-> Int32(exp + k)]

(***************************************************************************)
(* du64_to_digits: the digits of a shifted int without zeros on either     *)
(* side; n_trailing_zeros_skipped and the caller's CEIL are in exp.        *)
(***************************************************************************)
du64_to_digits(coeff, prec) ==
  LET k == CEIL(prec, DEC_DIGITS_PER_DIGIT)
      v == coeff * u64_10_pow_n(k * DEC_DIGITS_PER_DIGIT - prec)
  IN  Trimmed(v, DigitCount[v], -k)

(* The digits of either representation. *)
DigitsOf(a) ==
  IF a.dyn THEN [coeff |-> a.coeff, n |-> a.n, exp |-> a.exp]
  ELSE du64_to_digits(a.coeff, a.dec_prec)

(* Its assertion: a shifted int to be converted is not 0. *)
Convertible(a) == a.dyn \/ a.coeff # 0

(* fpdec_shint_to_dyn, fpdec_copy_shint_as_dyn: for a convertible number. *)
AsDyn(a) ==
  LET d == DigitsOf(a) IN Dyn(a.sign, a.dec_prec, d.coeff, d.n, d.exp)

shint_to_dyn(a) == Asserting(Convertible(a), Ok(AsDyn(a)))

(***************************************************************************)
(* fpdec_magnitude. The logarithm is taken in floating point: that of a    *)
(* number just below a power of ten is rounded up to an integer.           *)
(***************************************************************************)
Log10[v \in Nat] == IF v < 10 THEN 0 ELSE 1 + Log10[v \div 10]

U64_MAGNITUDE(v) == Log10[v + v \div LOG10_PRECISION]

fpdec_magnitude(a) ==
  IF a.dyn
  THEN Int32(  (a.n + a.exp - 1) * DEC_DIGITS_PER_DIGIT
             + U64_MAGNITUDE(DigitAt(a.coeff, a.n - 1)))
  ELSE U64_MAGNITUDE(a.coeff) - a.dec_prec

(***************************************************************************)
(* fpdec_dyn_normalize: strip zeros on both sides, then go back to a       *)
(* shifted int if the number fits. Digit k of the digits stands at         *)
(* RADIX^(exp + k); below the point, digits beyond dec_prec are cut off.   *)
(***************************************************************************)
ShiftedInt(d, dec_prec) ==
  LET shift == u64_10_pow_n(dec_prec)
  IN  CASE d.exp = -1 ->
             ((d.coeff % RADIX) * shift) \div RADIX + (d.coeff \div RADIX) * shift
        [] d.exp = 0 -> d.coeff * shift
        [] d.exp = 1 -> d.coeff * shift * RADIX

(* assert(digit_idx == n_digits) after the digits at -1, 0 and 1. *)
AllDigitsUsed(d) == d.exp >= -1 /\ d.n + d.exp =< 2

fpdec_dyn_normalize(a) ==
  LET d == Trimmed(a.coeff, DigitCount[a.coeff], a.exp)
      normalized == Dyn(a.sign, a.dec_prec, d.coeff, d.n, d.exp)
  IN  IF a.coeff = 0
      THEN Ok(ResetToZero(a.dec_prec))
      ELSE IF /\ a.dec_prec =< MAX_DEC_PREC_FOR_SHINT
              /\ d.exp =< 1
              /\ MAX(fpdec_magnitude(normalized), 0) + a.dec_prec =< MAX_N_DEC_DIGITS_IN_SHINT
      THEN Asserting(AllDigitsUsed(d),
             LET shint == ShiftedInt(d, a.dec_prec)
             IN  Ok(IF shint < SHINT_LIMIT THEN Shint(a.sign, a.dec_prec, shint) ELSE normalized))
      ELSE Ok(normalized)

-----------------------------------------------------------------------------
(***************************************************************************)
(* Initialisers. A parsed literal (parser.c) is its coefficient, written   *)
(* in n_dec_digits decimal digits, and its exponent.                       *)
(***************************************************************************)
Literal(negative, coeff, n_dec_digits, exp) ==
  [negative |-> negative, coeff |-> coeff, n_dec_digits |-> n_dec_digits, exp |-> exp]

fpdec_from_ascii_literal(literal) ==
  LET sign == IF literal.negative THEN -1 ELSE 1
      dec_prec == MAX(0, -literal.exp)
      n_add_zeros == MAX(0, literal.exp)
      shint == literal.coeff * Power(10, n_add_zeros)
      v == literal.coeff * u64_10_pow_n(MOD(literal.exp, DEC_DIGITS_PER_DIGIT))
      d == Trimmed(v, DigitCount[v], FLOOR(literal.exp, DEC_DIGITS_PER_DIGIT))
  IN  IF CEIL(literal.exp, DEC_DIGITS_PER_DIGIT) > FPDEC_MAX_EXP
      THEN Returns("EXP_LIMIT_EXCEEDED", FPDEC_ZERO)
      ELSE IF -literal.exp > FPDEC_MAX_DEC_PREC
      THEN Returns("PREC_LIMIT_EXCEEDED", FPDEC_ZERO)
      ELSE IF /\ literal.n_dec_digits + n_add_zeros =< MAX_N_DEC_DIGITS_IN_SHINT
              /\ dec_prec =< MAX_DEC_PREC_FOR_SHINT
              /\ shint < SHINT_LIMIT
      THEN Ok(Shint(IF shint = 0 THEN 0 ELSE sign, dec_prec, shint))
      ELSE Ok(IF d.n > 0 THEN Dyn(sign, dec_prec, d.coeff, d.n, d.exp) ELSE ResetToZero(dec_prec))

fpdec_from_long_long(val) == Ok(Shint(CMP(val, 0), 0, ABS(val)))

(* fpdec_from_sign_digits_exp: the digits hold coeff. *)
fpdec_from_sign_digits_exp(sign, coeff, exp) ==
  LET d == Trimmed(coeff, DigitCount[coeff], exp)
  IN  IF d.n = 0
      THEN Ok(Shint(sign, 0, 0))
      ELSE IF d.n = 1 /\ d.exp = 0
      THEN Ok(Shint(sign, 0, d.coeff))
      ELSE Ok(Dyn(sign, IF d.exp >= 0 THEN 0 ELSE AsDecPrec(-d.exp * DEC_DIGITS_PER_DIGIT),
                  d.coeff, d.n, d.exp))

-----------------------------------------------------------------------------
(* Mutant: the coefficients are not brought to the same precision. *)
shint_cmp_abs_Unscaled(x, y) == CMP(x.coeff, y.coeff)

(***************************************************************************)
(* Comparison of absolute values: by magnitude, then by digits.            *)
(***************************************************************************)
shint_cmp_abs(x, y) ==
  LET prec == MAX(x.dec_prec, y.dec_prec)
  IN  CMP(x.coeff * u64_10_pow_n(prec - x.dec_prec),
          y.coeff * u64_10_pow_n(prec - y.dec_prec))

cmp_abs(x, y) ==
  IF ~x.dyn /\ ~y.dyn
  THEN shint_cmp_abs(x, y)
  ELSE LET a == DigitsOf(x)
           b == DigitsOf(y)
       IN  CmpAligned(a.coeff, a.n, b.coeff, b.n)

fpdec_compare(x, y, ignore_sign) ==
  LET x_sign == IF ignore_sign THEN ABS(x.sign) ELSE x.sign
      y_sign == IF ignore_sign THEN ABS(y.sign) ELSE y.sign
      x_magn == fpdec_magnitude(x)
      y_magn == fpdec_magnitude(y)
  IN  IF x_sign # y_sign \/ x_sign = 0
      THEN CMP(x_sign, y_sign)
      ELSE x_sign * (IF x_magn # y_magn THEN CMP(x_magn, y_magn) ELSE cmp_abs(x, y))

-----------------------------------------------------------------------------
(***************************************************************************)
(* Addition and subtraction of absolute values. The result of two shifted  *)
(* ints is stored in the 96 bits of z before anything else: fpdec_add_abs_ *)
(* shint_to_shint then converts what is left, fpdec_sub_abs_shint_from_    *)
(* shint never does. make_adjusted_shints gives both the greater dec_prec. *)
(***************************************************************************)
AdjustedShint(a, dec_prec) == a.coeff * u64_10_pow_n(dec_prec - a.dec_prec)

add_abs_shint_to_shint(sign, x, y) ==
  LET prec == MAX(x.dec_prec, y.dec_prec)
      sum == AdjustedShint(x, prec) + AdjustedShint(y, prec)
      z == Shint(sign, prec, sum % SHINT_LIMIT)
  IN  IF sum < SHINT_LIMIT THEN Ok(z) ELSE shint_to_dyn(z)

sub_abs_shint_from_shint(sign, x, y) ==
  LET prec == MAX(x.dec_prec, y.dec_prec)
      diff == AdjustedShint(x, prec) - AdjustedShint(y, prec)
  IN  Ok(Shint(sign, prec, diff % SHINT_LIMIT))

(* Digits shifted to the exponent exp (digits_copy with n_shift). *)
ShiftedTo(d, exp) ==
  [coeff |-> d.coeff * Weight(d.exp - exp), n |-> d.n + (d.exp - exp), exp |-> exp]

(* The digits of the greater exponent, or else the longer ones, are added to. *)
add_abs_dyn_to_dyn(sign, x, y) ==
  LET x_first == x.exp > y.exp \/ (x.exp = y.exp /\ x.n >= y.n)
      exp == MIN(x.exp, y.exp)
      a == ShiftedTo(IF x_first THEN x ELSE y, exp)
      s == IF x_first THEN y ELSE x
      d == Trimmed(Sum(a.coeff, a.n, s.coeff, s.n), SumCount(a.coeff, a.n, s.coeff, s.n), exp)
  IN  Ok(Dyn(sign, MAX(x.dec_prec, y.dec_prec), d.coeff, d.n, d.exp))

sub_abs_dyn_from_dyn(sign, x, y) ==
  LET exp == MIN(x.exp, y.exp)
      a == ShiftedTo(x, exp)
      s == ShiftedTo(y, exp)
  IN  fpdec_dyn_normalize(Dyn(sign, MAX(x.dec_prec, y.dec_prec), a.coeff - s.coeff,
                              DifferenceCount(a.coeff, a.n, s.coeff), exp))

(* vtab_add_abs and vtab_sub_abs; the latter requires |x| >= |y|. *)
add_abs(sign, x, y) ==
  IF x.dyn \/ y.dyn
  THEN Asserting(Convertible(x) /\ Convertible(y), add_abs_dyn_to_dyn(sign, AsDyn(x), AsDyn(y)))
  ELSE add_abs_shint_to_shint(sign, x, y)

sub_abs(sign, x, y) ==
  IF x.dyn \/ y.dyn
  THEN Asserting(Convertible(x) /\ Convertible(y), sub_abs_dyn_from_dyn(sign, AsDyn(x), AsDyn(y)))
  ELSE sub_abs_shint_from_shint(sign, x, y)

(* Mutant: the sign is not inverted with the operands. *)
DifferenceOf_KeepsSign(sign, x, y) ==
  LET cmp == fpdec_compare(x, y, TRUE)
  IN  IF cmp = 1 THEN sub_abs(sign, x, y)
      ELSE IF cmp = -1 THEN sub_abs(sign, y, x)
      ELSE Ok(ResetToZero(MAX(x.dec_prec, y.dec_prec)))

(* |x| - |y| with the sign of the greater one: sign is that of x if it is. *)
DifferenceOf(sign, x, y) ==
  LET cmp == fpdec_compare(x, y, TRUE)
  IN  IF cmp = 1 THEN sub_abs(sign, x, y)
      ELSE IF cmp = -1 THEN sub_abs(-sign, y, x)
      ELSE Ok(ResetToZero(MAX(x.dec_prec, y.dec_prec)))

fpdec_neg(a) == Ok([a EXCEPT !.sign = -@])

(* Mutant: operands that are 0 get no special treatment. *)
fpdec_add_NoZeroCheck(x, y) ==
  IF x.sign = y.sign THEN add_abs(x.sign, x, y) ELSE DifferenceOf(x.sign, x, y)

fpdec_add(x, y) ==
  IF x.sign = 0 THEN Ok(y)
  ELSE IF y.sign = 0 THEN Ok(x)
  ELSE IF x.sign = y.sign THEN add_abs(x.sign, x, y)
  ELSE DifferenceOf(x.sign, x, y)

fpdec_sub(x, y) ==
  IF x.sign = 0 THEN fpdec_neg(y)
  ELSE IF y.sign = 0 THEN Ok(x)
  ELSE IF x.sign # y.sign THEN add_abs(x.sign, x, y)
  ELSE DifferenceOf(x.sign, x, y)

-----------------------------------------------------------------------------
(* Mutant: no overflow is signalled. *)
u128_imul_u64_NoCheck(x, y) == (x * y) % U128

(***************************************************************************)
(* u128_imul_u64 in its native form: only the product of the high word is  *)
(* checked; SIGNAL_OVERFLOW stores the greatest number.                    *)
(***************************************************************************)
u128_imul_u64(x, y) ==
  IF (x \div U64) * y >= U64 THEN U128 - 1 ELSE (x * y) % U128

(* fpdec_mul_abs_shint_by_u64 succeeds. *)
MulByU64Fits(x, y) == y.coeff < U64 /\ u128_imul_u64(x.coeff, y.coeff) < SHINT_LIMIT

mul_abs_dyn_by_dyn(sign, dec_prec, x, y) ==
  IF x.exp + y.exp > FPDEC_MAX_EXP \/ x.exp + y.exp < INT32_MIN
  THEN Returns("EXP_LIMIT_EXCEEDED", Shint(sign, dec_prec, 0))
  ELSE fpdec_dyn_normalize(Dyn(sign, dec_prec, x.coeff * y.coeff, x.n + y.n, x.exp + y.exp))

(***************************************************************************)
(* fpdec_mul. Two shifted ints whose product has too many fractional       *)
(* digits are multiplied as dynamic numbers.                               *)
(***************************************************************************)
fpdec_mul(x, y) ==
  LET sign == x.sign * y.sign
      dec_prec == AsDecPrec(x.dec_prec + y.dec_prec)
      shints == ~x.dyn /\ ~y.dyn /\ dec_prec =< MAX_DEC_PREC_FOR_SHINT
  IN  IF x.sign = 0 \/ y.sign = 0
      THEN Ok(FPDEC_ZERO)
      ELSE IF dec_prec < x.dec_prec
      THEN Returns("PREC_LIMIT_EXCEEDED", Shint(sign, dec_prec, 0))
      ELSE IF shints /\ MulByU64Fits(y, x)
      THEN Ok(Shint(sign, dec_prec, u128_imul_u64(y.coeff, x.coeff)))
      ELSE IF shints /\ MulByU64Fits(x, y)
      THEN Ok(Shint(sign, dec_prec, u128_imul_u64(x.coeff, y.coeff)))
      ELSE Asserting(Convertible(x) /\ Convertible(y),
                     mul_abs_dyn_by_dyn(sign, dec_prec, AsDyn(x), AsDyn(y)))

-----------------------------------------------------------------------------
(* The decimal zeros at the end of v # 0, at most n_max. *)
TrailingZeros(v, n_max) ==
  CHOOSE k \in 0 .. n_max :
    v % Power(10, k) = 0 /\ (k < n_max => (v \div Power(10, k)) % 10 # 0)

(* Mutant: trailing zeros leave the precision, but not the coefficient. *)
fpdec_normalize_prec_CoeffKept(a) ==
  Ok(IF a.dyn \/ a.coeff = 0 THEN a
     ELSE [a EXCEPT !.dec_prec = @ - TrailingZeros(a.coeff, a.dec_prec)])

(***************************************************************************)
(* fpdec_normalize_prec: as few fractional digits as the value has. With   *)
(* digits it looks at the least significant one, and only if dec_prec      *)
(* shows more than all digits. 0 keeps its precision.                      *)
(***************************************************************************)
fpdec_normalize_prec(a) ==
  LET n_frac == -a.exp * DEC_DIGITS_PER_DIGIT
      k == TrailingZeros(a.coeff, a.dec_prec)
  IN  IF a.dyn
      THEN Ok(IF a.exp >= 0
              THEN [a EXCEPT !.dec_prec = 0]
              ELSE IF n_frac < a.dec_prec
              THEN [a EXCEPT !.dec_prec =
                      n_frac - TrailingZeros(DigitAt(a.coeff, 0), DEC_DIGITS_PER_DIGIT)]
              ELSE a)
      ELSE Ok(IF a.coeff = 0
              THEN a
              ELSE [a EXCEPT !.dec_prec = @ - k, !.coeff = @ \div Power(10, k)])

-----------------------------------------------------------------------------
(* Mutant: negative numbers are rounded like positive ones. *)
u128_idivr_10_pow_n_NoSign(x, sign, n, mode) ==
  LET divisor == u64_10_pow_n(n)
      rem == x % divisor
      quot == x \div divisor
  IN  quot + (IF rem > 0 THEN round_qr(1, quot % U64, rem, FALSE, divisor, mode) ELSE 0)

(***************************************************************************)
(* fpdec_adjust. u128_idecshift to the right: round_qr gets the low word   *)
(* of the quotient; more places than a word has powers of ten are cut off  *)
(* in a first, truncating division.                                        *)
(***************************************************************************)
u128_idivr_10_pow_n(x, sign, n, mode) ==
  LET divisor == u64_10_pow_n(n)
      rem == x % divisor
      quot == x \div divisor
  IN  quot + (IF rem > 0 THEN round_qr(sign, quot % U64, rem, FALSE, divisor, mode) ELSE 0)

u128_idecshift(x, sign, n, mode) ==
  LET first == MIN(-n, UINT64_10_POW_N_CUTOFF)
  IN  IF n >= 0
      THEN u128_imul_u64(x, u64_10_pow_n(n))
      ELSE IF first < -n
      THEN u128_idivr_10_pow_n(u128_idivr_10_pow_n(x, sign, first, "DOWN"), sign, -n - first, mode)
      ELSE u128_idivr_10_pow_n(x, sign, first, mode)

(* The loop that shifts a rounded number back by n places while it fits. *)
ShiftedBack(x, n) ==
  LET n_steps == CEIL(n, UINT64_10_POW_N_CUTOFF)
      Left(i) == n - i * UINT64_10_POW_N_CUTOFF
      back[i \in 0 .. n_steps] ==
        IF i = 0 THEN x
        ELSE IF back[i - 1] >= SHINT_LIMIT THEN back[i - 1]
        ELSE u128_imul_u64(back[i - 1], u64_10_pow_n(MIN(Left(i - 1), UINT64_10_POW_N_CUTOFF)))
  IN  back[n_steps]

(* n_dec_shift reaches beyond the digits: 0 or one unit is left. *)
RoundedAway(a, dec_shift, mode) ==
  LET quant == u64_10_pow_n(dec_shift % DEC_DIGITS_PER_DIGIT)
      up == round_qr(a.sign, 0, 0, TRUE, quant, mode)
  IN  [a EXCEPT !.exp = @ + dec_shift \div DEC_DIGITS_PER_DIGIT,
                !.n = up, !.coeff = up * quant]

(* digits_round and the digit a total carry-over leaves. *)
RoundedIn(a, dec_shift, mode) ==
  IF RoundCarry(a.coeff, a.n, a.sign, dec_shift, mode)
  THEN [a EXCEPT !.exp = @ + a.n, !.n = 1, !.coeff = 1]
  ELSE [a EXCEPT !.coeff = RoundedDigits(a.coeff, a.sign, dec_shift, mode)]

fpdec_dyn_adjust_to_prec(a, dec_prec, mode) ==
  LET dec_shift == Int32(-a.exp * DEC_DIGITS_PER_DIGIT) - dec_prec
      rounded == IF dec_shift > a.n * DEC_DIGITS_PER_DIGIT
                 THEN RoundedAway(a, dec_shift, mode)
                 ELSE RoundedIn(a, dec_shift, mode)
  IN  IF dec_prec >= a.dec_prec \/ dec_shift =< 0
      THEN Ok([a EXCEPT !.dec_prec = AsDecPrec(dec_prec)])
      ELSE fpdec_dyn_normalize([rounded EXCEPT !.dec_prec = MAX(dec_prec, 0)])

fpdec_shint_adjust_to_prec(a, dec_prec, mode) ==
  LET shift == dec_prec - a.dec_prec
      shifted == ShiftedBack(u128_idecshift(a.coeff, a.sign, shift, mode), MAX(-dec_prec, 0))
  IN  IF -shift > MAX_N_DEC_DIGITS_IN_SHINT
      THEN Ok(FPDEC_ZERO)
      ELSE IF shifted >= SHINT_LIMIT
      THEN fpdec_dyn_adjust_to_prec(AsDyn(a), dec_prec, mode)
      ELSE Ok(Shint(IF shifted = 0 THEN 0 ELSE a.sign, MAX(dec_prec, 0), shifted))

fpdec_adjust(a, dec_prec, mode) ==
  IF ABS(dec_prec) > FPDEC_MAX_DEC_PREC
  THEN Returns("PREC_LIMIT_EXCEEDED", a)
  ELSE IF a.dec_prec = dec_prec
  THEN Ok(a)
  ELSE IF a.sign = 0
  THEN Ok([a EXCEPT !.dec_prec = AsDecPrec(dec_prec)])
  ELSE IF a.dyn
  THEN fpdec_dyn_adjust_to_prec(a, dec_prec, mode)
  ELSE IF dec_prec > MAX_DEC_PREC_FOR_SHINT
  THEN Asserting(Convertible(a), fpdec_dyn_adjust_to_prec(AsDyn(a), dec_prec, mode))
  ELSE fpdec_shint_adjust_to_prec(a, dec_prec, mode)

(* fpdec_adjusted: a failed adjustment leaves 0. *)
fpdec_adjusted(a, dec_prec, mode) ==
  LET OrZero(adjusted) ==
        IF adjusted.rc = "OK" \/ adjusted.rc = "ABORT" THEN adjusted
        ELSE Returns(adjusted.rc, ResetToZero(0))
  IN  OrZero(fpdec_adjust(a, dec_prec, mode))

=============================================================================
