---------------------------- MODULE DecimalNumbers ----------------------------
(***************************************************************************)
(* What values of fpdec_t stand for: exact numbers, with the operations    *)
(* the properties of the other modules compare results with.               *)
(***************************************************************************)
EXTENDS FpdecOps

(***************************************************************************)
(* Numbers: pairs <<m, e>> that stand for m * 10^e, with m % 10 # 0 unless *)
(* the number is 0. Two representations of a number give the same pair.    *)
(***************************************************************************)
Canonical(m, e) ==
  IF m = 0 THEN << 0, 0 >>
  ELSE LET k == TrailingZeros(ABS(m), Log10[ABS(m)])
       IN  << CMP(m, 0) * (ABS(m) \div Power(10, k)), e + k >>

Number(a) ==
  Canonical(a.sign * a.coeff, IF a.dyn THEN a.exp * DEC_DIGITS_PER_DIGIT ELSE -a.dec_prec)

Plus(a, b) ==
  LET e == MIN(a[2], b[2])
  IN  IF a[1] = 0 THEN b
      ELSE IF b[1] = 0 THEN a
      ELSE Canonical(a[1] * Power(10, a[2] - e) + b[1] * Power(10, b[2] - e), e)

Minus(a) == << -a[1], a[2] >>

Times(a, b) == Canonical(a[1] * b[1], a[2] + b[2])

(***************************************************************************)
(* The values of the fields of fpdec_t, and the form the functions take    *)
(* for granted: only 0 has sign 0, a shifted int respects its limits, and  *)
(* a digit array marked as normalized has no zeros on either side. And     *)
(* dec_prec covers the fractional digits: fpdec_dyn_normalize, turning     *)
(* digits into a shifted int, cuts off what is beyond it.                  *)
(***************************************************************************)
Decimals ==
  [dyn : BOOLEAN, normalized : BOOLEAN, sign : -1 .. 1, dec_prec : 0 .. FPDEC_MAX_DEC_PREC,
   coeff : Nat, n : Nat, exp : INT32_MIN .. FPDEC_MAX_EXP]

WellFormed(a) ==
  /\ a.sign = 0 <=> a.coeff = 0
  /\ ~a.dyn /\ a.sign # 0 => a.coeff < SHINT_LIMIT /\ a.dec_prec =< MAX_DEC_PREC_FOR_SHINT
  /\ a.dyn => /\ a.n = DigitCount[a.coeff]
              /\ a.coeff % RADIX # 0
              /\ a.normalized

PrecCoversDigits(a) == Number(a)[2] >= -a.dec_prec

(***************************************************************************)
(* A number rounded to a multiple of 10^-prec. Less than a tenth of that   *)
(* is rounded like a tenth: it is not 0, and below one half.               *)
(***************************************************************************)
RoundedNumber(a, prec, mode) ==
  LET cut == -prec - a[2]
      sign == CMP(a[1], 0)
      v == ABS(a[1])
      tiny == cut > Log10[v] + 1
  IN  IF cut =< 0 THEN a
      ELSE Canonical(sign * (IF tiny THEN Rounded(sign, 1, 10, mode)
                             ELSE Rounded(sign, v, Power(10, cut), mode)), -prec)

(***************************************************************************)
(* Where fpdec_adjust rounds as rounding.h says: not if digits are cut off *)
(* in two divisions, if the quotient has more than a word (ROUND_05UP), or *)
(* if a number is less than a tie beyond its digits.                       *)
(***************************************************************************)
RoundsCorrectly(a, prec, mode) ==
  LET places == a.dec_prec - prec
      cut == -a.exp * DEC_DIGITS_PER_DIGIT - prec
  IN  IF a.dyn
      THEN \/ cut =< a.n * DEC_DIGITS_PER_DIGIT
           \/ cut % DEC_DIGITS_PER_DIGIT # 0
           \/ mode \notin {"HALF_DOWN", "HALF_EVEN", "HALF_UP"}
      ELSE /\ places =< UINT64_10_POW_N_CUTOFF \/ a.coeff % RADIX = 0
           /\ places =< MAX_N_DEC_DIGITS_IN_SHINT
           /\ mode = "05UP" => a.coeff < U64

=============================================================================
