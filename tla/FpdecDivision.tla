---------------------------- MODULE FpdecDivision ----------------------------
(***************************************************************************)
(* The state machine Fpdec with the divisions: fpdec_div, fpdec_divmod and *)
(* the quantizations built on fpdec_div. The remainder of fpdec_divmod is  *)
(* a second result.                                                        *)
(***************************************************************************)
EXTENDS Fpdec, FpdecDivOps

VARIABLE r  (* Remainder, zeroed unless the last call was fpdec_divmod. *)

divisionVars == << x, y, z, r, call, changes, dflt_rounding_mode >>

DivisionInit == Init /\ r = FPDEC_ZERO

-----------------------------------------------------------------------------
(***************************************************************************)
(* The numbers a model checker can hold bound the digits of dividends and  *)
(* divisors after one of them has been shifted by n_shift digits, or the   *)
(* other one by -n_shift; one more digit is for the reference. Like sums,  *)
(* quotients keep to operands whose magnitudes, here together and twice,   *)
(* an int32_t can hold.                                                    *)
(***************************************************************************)
QuotientFits(a, b) ==
  2 * (ABS(a.exp) + a.n + ABS(b.exp) + b.n + 2) * DEC_DIGITS_PER_DIGIT =< FPDEC_MAX_EXP

Divisible(n_shift) ==
  x.sign # 0 /\ y.sign # 0 =>
    LET a == DigitsOf(x)
        b == DigitsOf(y)
    IN  a.n + n_shift =< MaxSpan /\ b.n - n_shift + 1 =< MaxSpan /\ QuotientFits(a, b)

(* How far a division shifts the dividend at most. *)
ShiftOf(prec_limit) ==
  LET a == DigitsOf(x)
      b == DigitsOf(y)
  IN  IF prec_limit = -1
      THEN MAX(a.exp - b.exp - FPDEC_MIN_EXP, b.n + 1 - a.n)
      ELSE a.exp - b.exp - LimitExp(prec_limit)

Div ==
  /\ Ready
  /\ "div" \in Calls
  /\ \E prec \in Precisions \cap -1 .. FPDEC_MAX_DEC_PREC, mode \in Modes :
       /\ Divisible(ShiftOf(prec))
       /\ LET outcome == fpdec_div(x, y, prec, Resolved(mode, dflt_rounding_mode))
          IN  /\ z' = outcome.v
              /\ call' = Called("div", prec, mode, outcome.rc)
  /\ UNCHANGED << operands, r, dflt_rounding_mode >>

(* What remains is subtracted from the divisor, like operands of fpdec_sub. *)
RemainderFits(a, b, dec_prec) ==
  LET rem == AlignedTo(a, b) % AlignedTo(b, a)
  IN  rem # 0 => /\ LogarithmIsExact(b)
                 /\ LogarithmIsExact(fpdec_dyn_normalize(Rest(b.sign, dec_prec, a, b, rem)).v)

DivMod ==
  /\ Ready
  /\ "divmod" \in Calls
  /\ Alignable
  /\ x.sign * y.sign = -1 => RemainderFits(AsDyn(x), AsDyn(y), MAX(x.dec_prec, y.dec_prec))
  /\ Divisible(DigitsOf(x).exp - DigitsOf(y).exp)
  /\ LET results == fpdec_divmod(x, y)
     IN  /\ z' = results.q
         /\ r' = results.r
         /\ call' = Called("divmod", 0, ROUND_DEFAULT, results.rc)
  /\ UNCHANGED << operands, dflt_rounding_mode >>

(* So do the factors of a product. *)
Quantizable(mode) ==
  LET quot == fpdec_div(x, y, 0, mode).v
  IN  quot.sign # 0 => QuotientFits(DigitsOf(quot), DigitsOf(y))

Quantized ==
  /\ Ready
  /\ "quantized" \in Calls
  /\ Divisible(ShiftOf(0))
  /\ \E mode \in Modes :
       /\ Quantizable(Resolved(mode, dflt_rounding_mode))
       /\ LET outcome == fpdec_quantized(x, y, Resolved(mode, dflt_rounding_mode))
          IN  /\ z' = outcome.v
              /\ call' = Called("quantized", 0, mode, outcome.rc)
  /\ UNCHANGED << operands, r, dflt_rounding_mode >>

(* fpdec_quantize works in place. *)
Quantize ==
  /\ Ready
  /\ "quantize" \in Calls
  /\ Divisible(ShiftOf(0))
  /\ changes < MaxChanges
  /\ \E mode \in Modes :
       /\ Quantizable(Resolved(mode, dflt_rounding_mode))
       /\ LET outcome == fpdec_quantize(x, y, Resolved(mode, dflt_rounding_mode))
          IN  /\ x' = outcome.v
              /\ call' = Called("quantize", 0, mode, outcome.rc)
  /\ changes' = changes + 1
  /\ UNCHANGED << y, z, r, dflt_rounding_mode >>

(* The client goes on with divisor and remainder, as in Euclid's algorithm. *)
KeepRemainder ==
  /\ call.fn = "divmod" /\ call.rc = "OK" /\ r.sign # 0 /\ Usable(r)
  /\ changes < MaxChanges
  /\ x' = y
  /\ y' = r
  /\ z' = FPDEC_ZERO
  /\ r' = FPDEC_ZERO
  /\ call' = Nothing
  /\ changes' = changes + 1
  /\ UNCHANGED dflt_rounding_mode

(* Whatever else the client does next, it frees the remainder. *)
DivisionNext ==
  \/ Div \/ DivMod \/ Quantized \/ Quantize \/ KeepRemainder
  \/ Next /\ r' = FPDEC_ZERO

DivisionSpec == DivisionInit /\ [][DivisionNext]_divisionVars

-----------------------------------------------------------------------------
(***************************************************************************)
(* Divisions of numbers.                                                   *)
(***************************************************************************)
Magnitude(a) == << ABS(a[1]), a[2] >>
Excess(a, b) == Plus(a, Minus(b))

(* a / b rounded to a multiple of 10^-prec. *)
RoundedQuotient(a, b, prec, mode) ==
  LET e == a[2] - b[2] + prec
      sign == CMP(a[1], 0) * CMP(b[1], 0)
      quot == Rounded(sign, ABS(a[1]) * Power(10, MAX(0, e)), ABS(b[1]) * Power(10, MAX(0, -e)), mode)
  IN  Canonical(sign * quot, -prec)

-----------------------------------------------------------------------------
(***************************************************************************)
(* Where a limited division rounds as rounding.h says.                     *)
(***************************************************************************)
Shints == ~x.dyn /\ ~y.dyn

(* The scaled dividend wraps around unnoticed in u128_imul_u64. *)
DividendWraps(prec) ==
  LET shift == DivShift(x, y, prec)
  IN  /\ Shints
      /\ shift > 0
      /\ ScaledDividend(x, shift) # x.coeff * Power(10, shift)
      /\ ScaledDividend(x, shift) # U128 - 1

(* An exact quotient of more than 96 bits with more places than shifted    *)
(* ints have is stored in one before it is converted.                      *)
QuotientIsCut(prec) ==
  LET shift == DivShift(x, y, prec)
  IN  /\ Shints
      /\ prec > MAX_DEC_PREC_FOR_SHINT
      /\ ~DividesAsDyn(x, y, prec)
      /\ ScaledDividend(x, shift) \div ScaledDivisor(y, shift) >= SHINT_LIMIT

(* The last digit of a quotient of more than a word. *)
LowWordDecides(prec, mode) ==
  LET shift == DivShift(x, y, prec)
  IN  /\ Shints
      /\ mode = "05UP"
      /\ ScaledDividend(x, shift) \div ScaledDivisor(y, shift) >= U64

ViaDigits(prec) == ~Shints \/ DividesAsDyn(x, y, prec)

(* A quotient without digits is rounded with the place in its digit as     *)
(* divisor, and a unit is set at the digit above the right one.            *)
TinyMisjudged(prec, mode) ==
  LET a == DigitsOf(x)
      b == DigitsOf(y)
      unit == u64_10_pow_n(prec % DEC_DIGITS_PER_DIGIT)
  IN  /\ ViaDigits(prec)
      /\ IsTiny(prec, a, b)
      /\ IF unit = 1 THEN mode \in {"HALF_DOWN", "HALF_EVEN", "HALF_UP"}
         ELSE round_qr(x.sign * y.sign, 0, 0, TRUE, unit, mode) = 1

(* Only the guard digit is rounded: what remains of the dividend beyond it *)
(* is needed if the rest of the digit is 0, or a tie.                      *)
RemainderDecides(prec) ==
  LET a == DigitsOf(x)
      b == DigitsOf(y)
      quot == LimitedQuotient(1, prec, a, b).coeff
      unit == u64_10_pow_n(DEC_DIGITS_PER_DIGIT - (prec % DEC_DIGITS_PER_DIGIT))
      shift == a.exp - b.exp - LimitExp(prec)
  IN  /\ ViaDigits(prec)
      /\ ~IsTiny(prec, a, b)
      /\ quot % unit \in {0, unit \div 2}
      /\ (a.coeff * Weight(MAX(0, shift))) % (b.coeff * Weight(MAX(0, -shift))) # 0

DividesCorrectly(prec, mode) ==
  /\ ~DividendWraps(prec) /\ ~QuotientIsCut(prec) /\ ~LowWordDecides(prec, mode)
  /\ ~TinyMisjudged(prec, mode) /\ ~RemainderDecides(prec)

(***************************************************************************)
(* fpdec_div rounds the exact quotient to the precision asked for, for all *)
(* combinations of representations, scales and modes, but in these cases.  *)
(***************************************************************************)
DivIsRounded ==
  LET mode == Resolved(call.mode, dflt_rounding_mode)
  IN  Return("div") /\ call.prec >= 0 /\ x.sign # 0 /\ DividesCorrectly(call.prec, mode) =>
        /\ Number(z) = RoundedQuotient(Number(x), Number(y), call.prec, mode)
        /\ z.dec_prec = call.prec

(* No limit, but the dividend has no room for more digits than it has: the *)
(* quotient gets the precision -1, in an uint16_t.                         *)
PrecIsLost ==
  Shints /\ ~DividesAsDyn(x, y, -1) /\ DivShift(x, y, -1) =< 0

(***************************************************************************)
(* Without a limit fpdec_div gives the exact quotient, or an error.        *)
(***************************************************************************)
DivIsExact ==
  Return("div") /\ call.prec = -1 /\ ~DividendWraps(-1) /\ ~PrecIsLost =>
    Times(Number(z), Number(y)) = Number(x)

(***************************************************************************)
(* An exact quotient has no more fractional digits than it needs, or than  *)
(* the dividend has more than the divisor. A multiple of 10 in a digit     *)
(* array is excepted: its zeros are subtracted from a precision of 0.      *)
(***************************************************************************)
QuotientIsConcise ==
  LET exp == Number(z)[2]
  IN  /\ Return("div") /\ call.prec = -1
      /\ ~DividendWraps(-1) /\ ~PrecIsLost /\ ~(z.dyn /\ exp > 0)
      => z.dec_prec =< MAX(MAX(0, -exp), x.dec_prec - y.dec_prec)

-----------------------------------------------------------------------------
(* The remainder left by a divisor of one digit gets into a shifted int    *)
(* with the precision of the operands ...                                  *)
ShortRemainder ==
  /\ call.fn = "divmod" /\ r.sign # 0
  /\ x.dyn \/ y.dyn \/ z.dyn
  /\ fpdec_compare(x, y, TRUE) = 1
  /\ HasShortDivisor(DigitsOf(x), DigitsOf(y))

(* ... although it counts units of the divisor's digit, ... *)
RemainderIsUnscaled ==
  /\ ShortRemainder
  /\ DigitsOf(y).exp * DEC_DIGITS_PER_DIGIT # -MAX(x.dec_prec, y.dec_prec)

(* ... and although it may be more than shifted ints may have. *)
RemainderIsTooPrecise == ShortRemainder /\ r.dec_prec > MAX_DEC_PREC_FOR_SHINT

(* Operands of different signs are added if the dividend is the lesser. *)
DivModIsLost ==
  call.fn = "divmod" /\ fpdec_compare(x, y, TRUE) = -1 /\ ShintsOverflow

(* The operands are divided as digit arrays: one is, or their quotient (of *)
(* different signs, with a remainder) exceeds a shifted int.               *)
DividedAsDigits ==
  Shints =>
    LET prec == MAX(x.dec_prec, y.dec_prec)
        a == AdjustedShint(x, prec)
        b == AdjustedShint(y, prec)
    IN  a \div b + (IF a % b # 0 THEN 1 ELSE 0) >= SHINT_LIMIT

(* All digits of a negative quotient with a remainder are RADIX - 1. The   *)
(* increment gives 0, for there is no digit left for the carry.            *)
IncrementIsLost ==
  LET a == DigitsOf(x)
      b == DigitsOf(y)
      floor == AlignedTo(a, b) \div AlignedTo(b, a)
  IN  /\ x.sign * y.sign = -1
      /\ fpdec_compare(x, y, TRUE) = 1
      /\ DividedAsDigits
      /\ AlignedTo(a, b) % AlignedTo(b, a) # 0
      /\ IncrementCarry(floor, QuotientLength(a, b), 1)

(***************************************************************************)
(* fpdec_divmod: an integral quotient and a remainder that is less than    *)
(* the divisor and has its sign, with x = q y + r. All combinations of     *)
(* signs and representations, but for the cases above. When a carry of the *)
(* quotient is lost, q is 0, and q y + r is x with the q it should be.     *)
(***************************************************************************)
FloorQuotient ==
  IF IncrementIsLost
  THEN Canonical(-1, QuotientLength(DigitsOf(x), DigitsOf(y)) * DEC_DIGITS_PER_DIGIT)
  ELSE Number(z)

DivModIsFloor ==
  Return("divmod") /\ ~RemainderIsUnscaled /\ ~DivModIsLost =>
    /\ Number(x) = Plus(Times(FloorQuotient, Number(y)), Number(r))
    /\ Number(z)[2] >= 0
    /\ IncrementIsLost => z.sign = 0
    /\ r.sign # 0 => /\ r.sign = y.sign
                     /\ Excess(Magnitude(Number(y)), Magnitude(Number(r)))[1] > 0

(***************************************************************************)
(* fpdec_quantize and fpdec_quantized give the multiple of the second      *)
(* operand next to the first one, as the mode demands, with its precision, *)
(* unless quotient times quantum is a product that fpdec_mul loses.        *)
(***************************************************************************)
IsQuantized(a, mode) ==
  /\ Number(a) = Times(RoundedQuotient(Number(x), Number(y), 0, mode), Number(y))
  /\ a.sign # 0 => a.dec_prec = y.dec_prec

QuantizedIsMultiple ==
  LET mode == Resolved(call'.mode, dflt_rounding_mode)
      quot == fpdec_div(x, y, 0, mode).v
  IN  /\ call'.fn \in {"quantize", "quantized"} /\ call'.rc = "OK"
      /\ x.sign # 0 /\ DividesCorrectly(0, mode)
      /\ ~Overflows(quot, y) /\ ~Overflows(y, quot)
      => IsQuantized(IF call'.fn = "quantize" THEN x' ELSE z', mode)

QuantizingFindsMultiple == [][QuantizedIsMultiple]_divisionVars

-----------------------------------------------------------------------------
(***************************************************************************)
(* Quotients, remainders and quantized numbers are in the form the other   *)
(* functions take for granted, with sign, precision and exponent within    *)
(* the types of their fields, and a precision that covers their digits.    *)
(* They become operands of later calls. The sum that fpdec_divmod gives as *)
(* remainder is excepted if it loses bits: what is left may be 0.          *)
(***************************************************************************)
DivisionCalls == {"div", "divmod", "quantized", "quantize"}

DivisionsAreWellFormed ==
  /\ {x, y, z, r} \subseteq Decimals
  /\ \A a \in {x, y} : WellFormed(a) /\ PrecCoversDigits(a)
  /\ call.fn \in DivisionCalls /\ call.rc = "OK" =>
       /\ \A a \in {z, r} : PrecCoversDigits(a)
       /\ (call.fn = "div" /\ call.prec = -1 /\ PrecIsLost) \/ WellFormed(z)
       /\ RemainderIsTooPrecise \/ DivModIsLost \/ WellFormed(r)

(***************************************************************************)
(* No assertion fails, unless a quotient cut off to 96 bits is then 0.     *)
(***************************************************************************)
DivisionsDoNotAbort ==
  call.fn \in DivisionCalls /\ ~Running => call.fn = "div" /\ QuotientIsCut(call.prec)

-----------------------------------------------------------------------------
(***************************************************************************)
(* fpdec_div_abs_dyn_by_dyn says of a quotient without digits: "result <   *)
(* 10 ^ -prec_limit (before rounding) and may be rounded to 10 ^           *)
(* -prec_limit". Violated: the unit is set in the digit above the one the  *)
(* precision belongs to.                                                   *)
(***************************************************************************)
TinyQuotientIsUnit ==
  LET sign == x.sign * y.sign
  IN  /\ Return("div") /\ call.prec >= 0 /\ sign # 0
      /\ ViaDigits(call.prec) /\ IsTiny(call.prec, DigitsOf(x), DigitsOf(y))
      => Number(z) \in {Canonical(0, 0), Canonical(sign, -call.prec)}

=============================================================================
