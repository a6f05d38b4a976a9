----------------------------- MODULE FpdecDivOps -----------------------------
(***************************************************************************)
(* The divisions of fpdec.c as operators on values of type fpdec_t. A      *)
(* quotient of digit arrays is taken as that of the numbers they hold,     *)
(* with as many digits as digits_div_digit and digits_divmod report.       *)
(***************************************************************************)
EXTENDS FpdecOps

(***************************************************************************)
(* A shifted int is scaled by up to twice its greatest precision at once.  *)
(* A product that wraps around is never 0: a multiple of 10 is no power of *)
(* 2, as 2^128 is, and a number times a word that is 2^128 has a high word *)
(* whose product is noticed, as both are powers of 2. The places of a      *)
(* number that wrap below 0 are more than one of 96 bits may have.         *)
(***************************************************************************)
ASSUME DivisionAssumption ==
  /\ u64_10_pow_n(2 * MAX_DEC_PREC_FOR_SHINT) < U64
  /\ U128 % 10 # 0
  /\ \A w \in 1 .. U64 - 1 : U128 % w = 0 => ((U128 \div w) \div U64) * w >= U64
  /\ DEC_DIGITS_PER_DIGIT + MAX_DEC_PREC_FOR_SHINT =< FPDEC_MAX_DEC_PREC

FPDEC_MIN_EXP == -(FPDEC_MAX_DEC_PREC \div DEC_DIGITS_PER_DIGIT) - 1

FPDEC_ONE == Shint(1, 0, 1)
FPDEC_MINUS_ONE == Shint(-1, 0, 1)

(* Mutant: 0 keeps its sign. *)
Finished_KeepsSign(a) == IF a.dyn THEN fpdec_dyn_normalize(a) ELSE Ok(a)

(* The end of a division: a digit array is normalized, 0 gets the sign 0. *)
Finished(a) ==
  IF a.dyn THEN fpdec_dyn_normalize(a)
  ELSE Ok(IF a.coeff = 0 THEN [a EXCEPT !.sign = 0] ELSE a)

FinishedIfOk(outcome) == IF outcome.rc = "OK" THEN Finished(outcome.v) ELSE outcome

(* Outcomes of divmod: return code, quotient and remainder. *)
Results(rc, q, r) == [rc |-> rc, q |-> q, r |-> r]

BothResults(q, r) ==
  IF q.rc = "OK" /\ r.rc = "OK" THEN Results("OK", q.v, r.v)
  ELSE Results("ABORT", FPDEC_ZERO, FPDEC_ZERO)

-----------------------------------------------------------------------------
(* Digits with zeros appended, so that both have the lesser exponent. *)
AlignedTo(d, e) == d.coeff * Weight(MAX(0, d.exp - e.exp))

(***************************************************************************)
(* fpdec_divmod_abs_dyn_by_dyn. A divisor of one digit that needs no shift *)
(* leaves its remainder as a shifted int, unscaled. A negative quotient    *)
(* with a remainder is incremented in absolute terms; that a carry leaves  *)
(* the digits, as digits_iadd_digit reports then, is not looked at.        *)
(***************************************************************************)
HasShortDivisor(x, y) == y.n = 1 /\ x.exp >= y.exp

(* The digits allocated for the quotient: there is no other for a carry. *)
QuotientLength(x, y) == (x.n + x.exp) - (y.n + y.exp) + 1

(* The digits of the remainder, in absolute terms. *)
Rest(r_sign, dec_prec, x, y, rem) ==
  Dyn(r_sign, dec_prec, rem, DigitCount[rem], MIN(x.exp, y.exp))

Complemented(y, t) == IF t.rc = "OK" THEN fpdec_sub(y, t.v) ELSE t

divmod_digits(q_sign, r_sign, dec_prec, x, y, dividend, divisor) ==
  LET rem == dividend % divisor
      adjust == q_sign = -1 /\ rem # 0
      floor == dividend \div divisor
      quot == IF adjust THEN Increment(floor, QuotientLength(x, y), 1) ELSE floor
      digits == Rest(r_sign, dec_prec, x, y, rem)
  IN  BothResults(
        fpdec_dyn_normalize(Dyn(q_sign, 0, quot, DigitCount[quot], 0)),
        FinishedIfOk(
          IF HasShortDivisor(x, y)
          THEN Ok(Shint(r_sign, dec_prec, IF adjust THEN divisor - rem ELSE rem))
          ELSE IF adjust
          THEN Complemented(y, fpdec_dyn_normalize(digits))
          ELSE Ok(digits)))

(* Mutant: the remainder gets the precision of the dividend. *)
divmod_abs_dyn_by_dyn_PrecOfDividend(q_sign, r_sign, dec_prec, x, y) ==
  divmod_digits(q_sign, r_sign, x.dec_prec, x, y, AlignedTo(x, y), AlignedTo(y, x))

divmod_abs_dyn_by_dyn(q_sign, r_sign, dec_prec, x, y) ==
  divmod_digits(q_sign, r_sign, dec_prec, x, y, AlignedTo(x, y), AlignedTo(y, x))

(* Mutant: the remainder of a negative quotient is not complemented. *)
divmod_abs_shint_by_shint_NoComplement(q_sign, r_sign, x, y) ==
  LET prec == MAX(x.dec_prec, y.dec_prec)
      a == AdjustedShint(x, prec)
      b == AdjustedShint(y, prec)
      quot == a \div b + (IF q_sign = -1 /\ a % b # 0 THEN 1 ELSE 0)
  IN  Results("OK", Shint(q_sign, 0, quot), Finished(Shint(r_sign, prec, a % b)).v)

divmod_abs_shint_by_shint(q_sign, r_sign, x, y) ==
  LET prec == MAX(x.dec_prec, y.dec_prec)
      a == AdjustedShint(x, prec)
      b == AdjustedShint(y, prec)
      adjust == q_sign = -1 /\ a % b # 0
      quot == a \div b + (IF adjust THEN 1 ELSE 0)
      rem == IF adjust THEN b - (a % b) ELSE a % b
  IN  IF quot < SHINT_LIMIT
      THEN Results("OK", Shint(q_sign, 0, quot), Finished(Shint(r_sign, prec, rem)).v)
      ELSE divmod_abs_dyn_by_dyn(q_sign, r_sign, prec, AsDyn(x), AsDyn(y))

(***************************************************************************)
(* fpdec_divmod: the quotient is rounded down, so that the remainder has   *)
(* the sign of the divisor.                                                *)
(***************************************************************************)
WithRemainder(q, sum) == Results(sum.rc, q, sum.v)

fpdec_divmod(x, y) ==
  LET cmp == fpdec_compare(x, y, TRUE)
      same_sign == x.sign = y.sign
      q_sign == x.sign * y.sign
  IN  IF y.sign = 0
      THEN Results("DIVIDE_BY_ZERO", FPDEC_ZERO, FPDEC_ZERO)
      ELSE IF x.sign = 0
      THEN Results("OK", FPDEC_ZERO, FPDEC_ZERO)
      ELSE IF cmp < 0
      THEN IF same_sign THEN Results("OK", FPDEC_ZERO, x)
           ELSE WithRemainder(FPDEC_MINUS_ONE, fpdec_add(x, y))
      ELSE IF cmp = 0
      THEN Results("OK", IF same_sign THEN FPDEC_ONE ELSE FPDEC_MINUS_ONE, FPDEC_ZERO)
      ELSE IF ~x.dyn /\ ~y.dyn
      THEN divmod_abs_shint_by_shint(q_sign, y.sign, x, y)
      ELSE divmod_abs_dyn_by_dyn(q_sign, y.sign, MAX(x.dec_prec, y.dec_prec), AsDyn(x), AsDyn(y))

-----------------------------------------------------------------------------
(* The zero digits appended to x after k extensions, of 4, 9, 16, ... digits. *)
ZeroDigits(x, y, max_shift, k) ==
  LET shift[i \in 0 .. k] ==
        IF i = 0 THEN MAX(0, y.n + 1 - x.n)
        ELSE MIN(shift[i - 1] + (i + 1) * (i + 1), max_shift)
  IN  shift[k]

(***************************************************************************)
(* digits_div_max_prec: zero digits are appended to x, and more of them,   *)
(* until nothing remains or the limit of exp is reached.                   *)
(***************************************************************************)
digits_div_max_prec(x, y, exp) ==
  LET max_shift == exp - FPDEC_MIN_EXP
      Leaves(shift) == (x.coeff * Weight(shift)) % y.coeff
      Ends(k) == LET s == ZeroDigits(x, y, max_shift, k) IN s >= max_shift \/ Leaves(s) = 0
      n_extensions ==
        CHOOSE k \in 0 .. MAX(0, max_shift) : Ends(k) /\ \A i \in 0 .. k - 1 : ~Ends(i)
      n_shift == ZeroDigits(x, y, max_shift, n_extensions)
  IN  [coeff |-> (x.coeff * Weight(n_shift)) \div y.coeff,
       n |-> x.n + n_shift - y.n + 1,
       exp |-> IF Leaves(n_shift) = 0 THEN exp - n_shift ELSE FPDEC_MIN_EXP - 1]

(* Mutant: zeros at the end of the lowest digit count as fractional. *)
ExactPrec_WholeDigits(d) ==
  LET k == TrailingZeroDigits(d.coeff, d.n)
  IN  IF d.exp >= 0 THEN 0 ELSE AsDecPrec(-(d.exp + k) * DEC_DIGITS_PER_DIGIT)

(* The decimal fractional digits of a quotient without zeros at the end. *)
ExactPrec(d) ==
  LET k == TrailingZeroDigits(d.coeff, d.n)
  IN  IF d.exp >= 0 THEN 0
      ELSE AsDecPrec(  -(d.exp + k) * DEC_DIGITS_PER_DIGIT
                     - TrailingZeros(DigitAt(d.coeff, k), DEC_DIGITS_PER_DIGIT))

ExactQuotient(sign, d) ==
  IF d.exp > FPDEC_MAX_EXP THEN Returns("EXP_LIMIT_EXCEEDED", Shint(sign, 0, 0))
  ELSE IF d.exp =< FPDEC_MIN_EXP THEN Returns("PREC_LIMIT_EXCEEDED", Shint(sign, 0, 0))
  ELSE Ok(Dyn(sign, ExactPrec(d), d.coeff, d.n, d.exp))

div_abs_dyn_by_dyn_exact(sign, x, y) ==
  LET exp == x.exp - y.exp
  IN  IF exp < FPDEC_MIN_EXP
      THEN Returns("PREC_LIMIT_EXCEEDED", Shint(sign, 0, 0))
      ELSE ExactQuotient(sign, digits_div_max_prec(x, y, exp))

(***************************************************************************)
(* fpdec_div_abs_dyn_by_dyn with a limit: x or y is shifted such that the  *)
(* quotient has exactly one guard digit, part of which may be wanted.      *)
(***************************************************************************)
LimitExp(prec_limit) == -(prec_limit \div DEC_DIGITS_PER_DIGIT) - 1

LimitedQuotient(sign, prec_limit, x, y) ==
  LET x_n_shift == MAX(0, x.exp - y.exp - LimitExp(prec_limit))
      y_n_shift == MAX(0, LimitExp(prec_limit) - (x.exp - y.exp))
  IN  Dyn(sign, prec_limit,
          (x.coeff * Weight(x_n_shift)) \div (y.coeff * Weight(y_n_shift)),
          x.n + x_n_shift - y.n - y_n_shift + 1, LimitExp(prec_limit))

(* The result will have no significant digits before rounding. *)
IsTiny(prec_limit, x, y) == x.exp + x.n < y.exp + y.n + LimitExp(prec_limit)

(* Mutant: rounds to the places wanted of the last digit, not the others. *)
div_abs_dyn_by_dyn_limited_WrongPlace(sign, x, y, prec_limit, mode) ==
  IF IsTiny(prec_limit, x, y) THEN Shint(sign, prec_limit, 0)
  ELSE RoundedIn(LimitedQuotient(sign, prec_limit, x, y), prec_limit % DEC_DIGITS_PER_DIGIT, mode)

div_abs_dyn_by_dyn_limited(sign, x, y, prec_limit, mode) ==
  LET d_shift == prec_limit % DEC_DIGITS_PER_DIGIT
      unit == u64_10_pow_n(d_shift)
      digit == unit * round_qr(sign, 0, 0, TRUE, unit, mode)
  IN  IF ~IsTiny(prec_limit, x, y)
      THEN RoundedIn(LimitedQuotient(sign, prec_limit, x, y), DEC_DIGITS_PER_DIGIT - d_shift, mode)
      ELSE IF digit # 0
      THEN Dyn(sign, prec_limit, digit, 1, -(prec_limit \div DEC_DIGITS_PER_DIGIT))
      ELSE Shint(sign, prec_limit, 0)

div_abs_dyn_by_dyn(sign, x, y, prec_limit, mode) ==
  IF prec_limit = -1
  THEN div_abs_dyn_by_dyn_exact(sign, x, y)
  ELSE Ok(div_abs_dyn_by_dyn_limited(sign, x, y, prec_limit, mode))

-----------------------------------------------------------------------------
(* Mutant: the precision of the divisor is not made up for. *)
DivShift_IgnoresDivisor(x, y, prec_limit) ==
  (IF prec_limit = -1 THEN MAX_DEC_PREC_FOR_SHINT ELSE MIN(prec_limit, MAX_DEC_PREC_FOR_SHINT))
  - x.dec_prec

(***************************************************************************)
(* fpdec_div_abs_shint_by_shint: dividend and divisor are scaled by powers *)
(* of ten such that their integer quotient has the precision wanted. What  *)
(* this leaves inexact without a (low) limit is left to the digit arrays.  *)
(***************************************************************************)
DivShift(x, y, prec_limit) ==
  (IF prec_limit = -1 THEN MAX_DEC_PREC_FOR_SHINT ELSE MIN(prec_limit, MAX_DEC_PREC_FOR_SHINT))
  - x.dec_prec + y.dec_prec

ScaledDividend(x, shift) ==
  IF shift > 0 THEN u128_imul_u64(x.coeff, u64_10_pow_n(shift)) ELSE x.coeff

ScaledDivisor(y, shift) == y.coeff * u64_10_pow_n(MAX(0, -shift))

(* A quotient gets into a shifted int if it fits, or into digits. *)
FromU128(sign, q) ==
  LET z == Shint(sign, AsDecPrec(q.dec_prec), q.coeff)
  IN  Ok(IF q.coeff < SHINT_LIMIT THEN z ELSE AsDyn(z))

(* One with more places than shifted ints have is stored in one before. *)
FromShint(stored, prec_limit) ==
  Asserting(Convertible(stored), Ok([AsDyn(stored) EXCEPT !.dec_prec = prec_limit]))

DividesAsDyn(x, y, prec_limit) ==
  LET shift == DivShift(x, y, prec_limit)
      dividend == ScaledDividend(x, shift)
  IN  \/ shift > 0 /\ dividend = U128 - 1
      \/ /\ dividend % ScaledDivisor(y, shift) # 0
         /\ prec_limit = -1 \/ prec_limit > MAX_DEC_PREC_FOR_SHINT

(* Dividend and divisor have been scaled by shift. *)
div_u128(sign, dividend, divisor, shift, prec_limit, mode) ==
  LET quot == dividend \div divisor
      rem == dividend % divisor
      k == TrailingZeros(quot, MIN(shift, MAX_DEC_PREC_FOR_SHINT))
  IN  IF rem # 0
      THEN FromU128(sign, [dec_prec |-> prec_limit,
             coeff |-> quot + (IF round_u128(sign, quot, rem, divisor, mode) THEN 1 ELSE 0)])
      ELSE IF prec_limit > MAX_DEC_PREC_FOR_SHINT
      THEN FromShint(Shint(sign, MAX_DEC_PREC_FOR_SHINT, quot % SHINT_LIMIT), prec_limit)
      ELSE IF prec_limit = -1 /\ shift > 0
      THEN FromU128(sign, [dec_prec |-> MAX_DEC_PREC_FOR_SHINT - k, coeff |-> quot \div u64_10_pow_n(k)])
      ELSE FromU128(sign, [dec_prec |-> prec_limit, coeff |-> quot])

div_abs_shint_by_shint(sign, x, y, prec_limit, mode) ==
  LET shift == DivShift(x, y, prec_limit)
  IN  IF DividesAsDyn(x, y, prec_limit)
      THEN div_abs_dyn_by_dyn(sign, AsDyn(x), AsDyn(y), prec_limit, mode)
      ELSE div_u128(sign, ScaledDividend(x, shift), ScaledDivisor(y, shift), shift, prec_limit, mode)

(***************************************************************************)
(* fpdec_div; prec_limit = -1 asks for the exact quotient.                 *)
(***************************************************************************)
fpdec_div(x, y, prec_limit, mode) ==
  LET sign == x.sign * y.sign
  IN  IF y.sign = 0
      THEN Returns("DIVIDE_BY_ZERO", FPDEC_ZERO)
      ELSE IF x.sign = 0
      THEN Ok(FPDEC_ZERO)
      ELSE FinishedIfOk(
             IF ~x.dyn /\ ~y.dyn
             THEN div_abs_shint_by_shint(sign, x, y, prec_limit, mode)
             ELSE div_abs_dyn_by_dyn(sign, AsDyn(x), AsDyn(y), prec_limit, mode))

(***************************************************************************)
(* fpdec_quantize: what it leaves in a. A failed division changes nothing, *)
(* a failed multiplication leaves what it has written to its result.       *)
(***************************************************************************)
Multiplied(a, t1, quant) ==
  IF t1.rc = "OK" THEN fpdec_mul(t1.v, quant)
  ELSE IF t1.rc = "ABORT" THEN t1
  ELSE Returns(t1.rc, a)

(* Mutant: the mode is not passed on. *)
fpdec_quantize_DefaultMode(a, quant, mode) ==
  Multiplied(a, fpdec_div(a, quant, 0, "HALF_EVEN"), quant)

fpdec_quantize(a, quant, mode) == Multiplied(a, fpdec_div(a, quant, 0, mode), quant)

(* A failed quantization of a copy leaves 0. *)
OrZero(outcome) ==
  IF outcome.rc \in {"OK", "ABORT"} THEN outcome ELSE Returns(outcome.rc, ResetToZero(0))

fpdec_quantized(src, quant, mode) == OrZero(fpdec_quantize(src, quant, mode))

=============================================================================
