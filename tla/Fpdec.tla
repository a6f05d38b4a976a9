-------------------------------- MODULE Fpdec --------------------------------
(***************************************************************************)
(* The C API of fpdec.h as a state machine: a client holds two decimals x  *)
(* and y and calls functions which write a third one, z, or change z in    *)
(* place. It may keep a result as an operand of later calls.               *)
(*                                                                         *)
(* Result parameters must be zeroed (ASSERT_FPDEC_IS_ZEROED), so z is when *)
(* a function that creates a number is called.                             *)
(***************************************************************************)
EXTENDS DecimalNumbers

CONSTANTS
  Calls,        (* The functions the client calls.                         *)
  Literals,     (* Literals it has, after parsing.                         *)
  LongLongs,    (* Integers it has.                                        *)
  DigitValues,  (* Digits and exponents, <<sign, digits, exp>>, it has.    *)
  Precisions,   (* Values of dec_prec it asks for.                         *)
  Modes,        (* Rounding modes it asks for.                             *)
  DefaultModes, (* Default rounding modes it sets.                         *)
  MaxChanges,   (* How often its operands change. Bounds the model.        *)
  MaxSpan,      (* Bounds digits aligned for an addition or subtraction.   *)
  MaxInt        (* Bounds coefficients of products.                        *)

ASSUME ModesAssumption ==
  /\ Modes \subseteq RoundingModes \cup {ROUND_DEFAULT}
  /\ DefaultModes \subseteq RoundingModes

(***************************************************************************)
(* What C's types and the parser make of the inputs. A long long fits a    *)
(* shifted int, an uint16_t is small against an int32_t.                   *)
(***************************************************************************)
ASSUME InputsAssumption ==
  /\ \A literal \in Literals :
       /\ literal.negative \in BOOLEAN /\ literal.coeff \in Nat
       /\ literal.n_dec_digits \in Nat /\ literal.exp \in Int
  /\ \A val \in LongLongs : val \in Int /\ ABS(val) < SHINT_LIMIT
  /\ \A d \in DigitValues : d[1] \in {-1, 1} /\ d[2] \in Nat /\ d[3] \in INT32_MIN .. FPDEC_MAX_EXP
  /\ \A prec \in Precisions : prec \in Int
  /\ MaxChanges \in Nat
  /\ 2 * (FPDEC_MAX_DEC_PREC + DEC_DIGITS_PER_DIGIT) =< FPDEC_MAX_EXP

VARIABLES
  x, y,                (* Operands.                                        *)
  z,                   (* Result.                                          *)
  call,                (* Last call: function, arguments, return code.     *)
  changes,             (* How often the operands have changed.             *)
  dflt_rounding_mode   (* Static variable of rounding.c.                   *)

vars == << x, y, z, call, changes, dflt_rounding_mode >>
operands == << x, y, changes >>

(* The record of a call; of those without a rounding prec and mode are nil. *)
Called(fn, prec, mode, rc) == [fn |-> fn, prec |-> prec, mode |-> mode, rc |-> rc]
Nothing == Called("none", 0, ROUND_DEFAULT, "OK")

Init ==
  /\ x = FPDEC_ZERO
  /\ y = FPDEC_ZERO
  /\ z = FPDEC_ZERO
  /\ call = Nothing
  /\ changes = 0
  /\ dflt_rounding_mode = "HALF_EVEN"

-----------------------------------------------------------------------------
Running == call.rc # "ABORT"
Ready == z = FPDEC_ZERO /\ call = Nothing

(* fn is called and writes its outcome to z. *)
Calling(fn, outcome) ==
  /\ fn \in Calls
  /\ z' = outcome.v
  /\ call' = Called(fn, 0, ROUND_DEFAULT, outcome.rc)
  /\ UNCHANGED << operands, dflt_rounding_mode >>

FromLiteral ==
  /\ Ready
  /\ \E literal \in Literals : Calling("from_ascii_literal", fpdec_from_ascii_literal(literal))

FromLongLong ==
  /\ Ready
  /\ \E val \in LongLongs : Calling("from_long_long", fpdec_from_long_long(val))

FromDigits ==
  /\ Ready
  /\ \E d \in DigitValues :
       Calling("from_sign_digits_exp", fpdec_from_sign_digits_exp(d[1], d[2], d[3]))

Copy == Ready /\ Calling("copy", Ok(x))

Neg == Ready /\ Calling("neg", fpdec_neg(x))

(***************************************************************************)
(* The numbers a model checker can hold bound the digits x + y, x - y and  *)
(* x * y are computed in. Sums and differences also keep to numbers whose  *)
(* magnitude an int32_t can hold, and whose logarithm is not rounded up:   *)
(* fpdec_compare misjudges others. So does fpdec_adjust the place of the   *)
(* point, and fpdec_dyn_normalize that of the top digit of a product.      *)
(***************************************************************************)
MagnitudeFits(a) == (ABS(a.exp) + a.n) * DEC_DIGITS_PER_DIGIT =< FPDEC_MAX_EXP

LogarithmIsExact(a) ==
  LET v == IF a.dyn THEN DigitAt(a.coeff, a.n - 1) ELSE a.coeff
  IN  U64_MAGNITUDE(v) = Log10[v]

Alignable ==
  x.sign # 0 /\ y.sign # 0 =>
    /\ LogarithmIsExact(x) /\ LogarithmIsExact(y)
    /\ x.dyn \/ y.dyn =>
         LET a == DigitsOf(x)
             b == DigitsOf(y)
         IN  /\ MAX(a.exp + a.n, b.exp + b.n) - MIN(a.exp, b.exp) =< MaxSpan
             /\ MagnitudeFits(a) /\ MagnitudeFits(b)

Multipliable ==
  x.sign # 0 /\ y.sign # 0 =>
    LET a == DigitsOf(x)
        b == DigitsOf(y)
    IN  /\ a.coeff =< MaxInt \div b.coeff
        /\ (a.n + b.n + 1) * DEC_DIGITS_PER_DIGIT =< FPDEC_MAX_EXP

Adjustable == x.sign # 0 => MagnitudeFits(DigitsOf(x))

Add == Ready /\ Alignable /\ Calling("add", fpdec_add(x, y))

Sub == Ready /\ Alignable /\ Calling("sub", fpdec_sub(x, y))

Mul == Ready /\ Multipliable /\ Calling("mul", fpdec_mul(x, y))

(* fpdec_adjusted; rounding modes are resolved where they are used. *)
Adjusted ==
  /\ Ready /\ Adjustable
  /\ "adjusted" \in Calls
  /\ \E prec \in Precisions, mode \in Modes :
       LET outcome == fpdec_adjusted(x, prec, Resolved(mode, dflt_rounding_mode))
       IN  /\ z' = outcome.v
           /\ call' = Called("adjusted", prec, mode, outcome.rc)
  /\ UNCHANGED << operands, dflt_rounding_mode >>

(***************************************************************************)
(* fpdec_adjust and fpdec_normalize_prec work in place.                    *)
(***************************************************************************)
Adjust ==
  /\ Ready /\ Adjustable
  /\ "adjust" \in Calls
  /\ changes < MaxChanges
  /\ \E prec \in Precisions, mode \in Modes :
       LET outcome == fpdec_adjust(x, prec, Resolved(mode, dflt_rounding_mode))
       IN  /\ x' = outcome.v
           /\ call' = Called("adjust", prec, mode, outcome.rc)
  /\ changes' = changes + 1
  /\ UNCHANGED << y, z, dflt_rounding_mode >>

NormalizePrec ==
  /\ Ready
  /\ "normalize_prec" \in Calls
  /\ changes < MaxChanges
  /\ x' = fpdec_normalize_prec(x).v
  /\ call' = Called("normalize_prec", 0, ROUND_DEFAULT, "OK")
  /\ changes' = changes + 1
  /\ UNCHANGED << y, z, dflt_rounding_mode >>

SetDefaultRoundingMode ==
  /\ Ready
  /\ "set_default_rounding_mode" \in Calls
  /\ \E mode \in DefaultModes : dflt_rounding_mode' = mode
  /\ call' = Called("set_default_rounding_mode", 0, ROUND_DEFAULT, "OK")
  /\ UNCHANGED << x, y, z, changes >>

-----------------------------------------------------------------------------
(***************************************************************************)
(* Exponents that wrap. The limit of exp is checked before trailing zeros  *)
(* are added to it; that of a precision set from exp is not checked.       *)
(***************************************************************************)
LiteralWraps(literal) ==
  LET v == literal.coeff * u64_10_pow_n(MOD(literal.exp, DEC_DIGITS_PER_DIGIT))
  IN  FLOOR(literal.exp, DEC_DIGITS_PER_DIGIT) + TrailingZeroDigits(v, DigitCount[v]) > FPDEC_MAX_EXP

DigitsWrap(d) ==
  LET exp == d[3] + TrailingZeroDigits(d[2], DigitCount[d[2]])
  IN  exp > FPDEC_MAX_EXP \/ -exp * DEC_DIGITS_PER_DIGIT > FPDEC_MAX_DEC_PREC

ProductWraps ==
  LET a == DigitsOf(x)
      b == DigitsOf(y)
      product == a.coeff * b.coeff
      exp == a.exp + b.exp
  IN  /\ x.sign # 0 /\ y.sign # 0
      /\ exp =< FPDEC_MAX_EXP
      /\ exp + TrailingZeroDigits(product, DigitCount[product]) > FPDEC_MAX_EXP

ExponentWraps ==
  \/ /\ call.fn = "from_ascii_literal"
     /\ \E literal \in Literals : LiteralWraps(literal) /\ z = fpdec_from_ascii_literal(literal).v
  \/ /\ call.fn = "from_sign_digits_exp"
     /\ \E d \in DigitValues :
          DigitsWrap(d) /\ z = fpdec_from_sign_digits_exp(d[1], d[2], d[3]).v
  \/ call.fn = "mul" /\ ProductWraps

(* The client keeps a usable result, or frees it (fpdec_reset_to_zero), *)
(* before its next call.                                                *)
Usable(a) ==
  IF a.dyn THEN a.n > 0 /\ a.coeff >= Weight(a.n - 1)
  ELSE a.sign = 0 \/ (a.coeff # 0 /\ a.dec_prec =< MAX_DEC_PREC_FOR_SHINT)

KeepX ==
  /\ z # FPDEC_ZERO /\ call.rc = "OK" /\ Usable(z) /\ ~ExponentWraps
  /\ changes < MaxChanges
  /\ x' = z
  /\ z' = FPDEC_ZERO
  /\ call' = Nothing
  /\ changes' = changes + 1
  /\ UNCHANGED << y, dflt_rounding_mode >>

KeepY ==
  /\ z # FPDEC_ZERO /\ call.rc = "OK" /\ Usable(z) /\ ~ExponentWraps
  /\ changes < MaxChanges
  /\ y' = z
  /\ z' = FPDEC_ZERO
  /\ call' = Nothing
  /\ changes' = changes + 1
  /\ UNCHANGED << x, dflt_rounding_mode >>

Reset ==
  /\ Running /\ call # Nothing
  /\ z' = FPDEC_ZERO
  /\ call' = Nothing
  /\ UNCHANGED << operands, dflt_rounding_mode >>

(* An assertion has failed: the program is gone. *)
Aborted == ~Running /\ UNCHANGED vars

Next ==
  \/ FromLiteral \/ FromLongLong \/ FromDigits
  \/ Copy \/ Neg \/ Add \/ Sub \/ Mul
  \/ Adjusted \/ Adjust \/ NormalizePrec \/ SetDefaultRoundingMode
  \/ KeepX \/ KeepY \/ Reset
  \/ Aborted

Spec == Init /\ [][Next]_vars

-----------------------------------------------------------------------------
Return(fn) == call.fn = fn /\ call.rc = "OK"

-----------------------------------------------------------------------------
(***************************************************************************)
(* Invariants.                                                             *)
(***************************************************************************)
(* Sign, precision and exponent stay within the types of their fields. *)
TypeOK ==
  /\ {x, y, z} \subseteq Decimals
  /\ changes \in 0 .. MaxChanges
  /\ dflt_rounding_mode \in RoundingModes

(***************************************************************************)
(* The sum of two shifted ints, or their difference, does not fit the 96   *)
(* bits it is stored in: one of them is scaled up to the other's dec_prec. *)
(***************************************************************************)
ShintsOverflow ==
  LET prec == MAX(x.dec_prec, y.dec_prec)
      a == AdjustedShint(x, prec)
      b == AdjustedShint(y, prec)
      adds == x.sign = (IF call.fn = "sub" THEN -y.sign ELSE y.sign)
  IN  /\ x.sign # 0 /\ y.sign # 0 /\ ~x.dyn /\ ~y.dyn
      /\ (IF adds THEN a + b ELSE ABS(a - b)) >= SHINT_LIMIT

(* A carry leaves a y longer than x with a digit 0 at the count of x. *)
CarryIsLost ==
  LET a == DigitsOf(x)
      b == DigitsOf(y)
      long == IF a.exp > b.exp THEN ShiftedTo(a, b.exp) ELSE ShiftedTo(b, a.exp)
      short == IF a.exp > b.exp THEN b ELSE a
  IN  /\ x.sign # 0 /\ y.sign # 0 /\ (x.dyn \/ y.dyn)
      /\ a.exp # b.exp
      /\ long.n < short.n
      /\ long.coeff + short.coeff >= Weight(short.n)

SumIsLost == call.fn \in {"add", "sub"} /\ (ShintsOverflow \/ CarryIsLost)

(***************************************************************************)
(* fpdec_add and fpdec_sub give the exact result, whatever representations *)
(* meet and whatever representation the result gets, outside of the two    *)
(* cases above.                                                            *)
(***************************************************************************)
SumsAreExact ==
  ~SumIsLost =>
    /\ Return("add") => Number(z) = Plus(Number(x), Number(y))
    /\ Return("sub") => Number(z) = Plus(Number(x), Minus(Number(y)))

(***************************************************************************)
(* fpdec_mul gives the exact product, unless that of two shifted ints      *)
(* overflows unnoticed by the test of the high word in u128_imul_u64.      *)
(***************************************************************************)
Overflows(a, b) ==
  /\ ~a.dyn /\ ~b.dyn
  /\ b.coeff < U64
  /\ (a.coeff \div U64) * b.coeff < U64
  /\ a.coeff * b.coeff >= U128

ProductIsLost == call.fn = "mul" /\ (Overflows(x, y) \/ Overflows(y, x))

MulIsExact ==
  Return("mul") /\ ~ProductIsLost /\ ~ExponentWraps =>
    Number(z) = Times(Number(x), Number(y))

(***************************************************************************)
(* fpdec_compare orders numbers by their values, not by the way they are   *)
(* represented: all pairs of operands that calls can produce.              *)
(***************************************************************************)
ComparesNumerically ==
  LET difference == Plus(Number(x), Minus(Number(y)))
  IN  Alignable => fpdec_compare(x, y, FALSE) = CMP(difference[1], 0)

(***************************************************************************)
(* Results are in the form the other functions take for granted, and their *)
(* precision covers their digits: magnitude, comparisons and conversions   *)
(* read digits on the strength of this. Excepted are the cases above and   *)
(* digits which all are 0: they leave the sign of the number.              *)
(***************************************************************************)
ZeroIsSigned ==
  /\ call.fn = "from_sign_digits_exp"
  /\ \E d \in DigitValues : d[2] = 0 /\ z = fpdec_from_sign_digits_exp(d[1], d[2], d[3]).v

ResultsAreUsable ==
  /\ \A a \in {x, y} : WellFormed(a) /\ PrecCoversDigits(a)
  /\ ~ExponentWraps =>
       /\ PrecCoversDigits(z)
       /\ call.rc = "OK" /\ ~SumIsLost /\ ~ProductIsLost /\ ~ZeroIsSigned => WellFormed(z)

(***************************************************************************)
(* No assertion fails but in the cases above: that of du64_to_digits if a  *)
(* sum is truncated to 0, that of fpdec_dyn_normalize if an exponent wraps.*)
(***************************************************************************)
NoAssertionFails == ~Running => SumIsLost \/ ExponentWraps

(***************************************************************************)
(* fpdec_adjusted rounds x to the multiple of 10^-prec the mode demands,   *)
(* and the precision asked for is the one got, unless no digit remained.   *)
(***************************************************************************)
AdjustedIsRounded ==
  LET mode == Resolved(call.mode, dflt_rounding_mode)
  IN  Return("adjusted") =>
        /\ RoundsCorrectly(x, call.prec, mode) =>
             Number(z) = RoundedNumber(Number(x), call.prec, mode)
        /\ call.prec >= 0 => z.dec_prec = call.prec \/ z = FPDEC_ZERO

(***************************************************************************)
(* Action properties: an adjustment in place to at least as many places,   *)
(* and normalizing the precision, never change the number.                 *)
(***************************************************************************)
KeepsNumber ==
  \/ call'.fn = "adjust" /\ (call'.prec >= x.dec_prec \/ call'.rc # "OK")
  \/ call'.fn = "normalize_prec"

InPlaceKeepsNumber == [][KeepsNumber => Number(x') = Number(x)]_vars

-----------------------------------------------------------------------------
(***************************************************************************)
(* What comments and an assertion of the code say without exceptions. Each *)
(* of these is violated.                                                   *)
(***************************************************************************)

(***************************************************************************)
(* fpdec_add: "same sign => x + y = sign(x) (|x| + |y|)". Not if the sum   *)
(* of two shifted ints exceeds 96 bits: add_abs_shint_to_shint stores the  *)
(* sum in them before it converts it.                                      *)
(***************************************************************************)
SameSignAddsAbsValues ==
  Return("add") /\ x.sign = y.sign /\ ~x.dyn /\ ~y.dyn =>
    Number(z) = Plus(Number(x), Number(y))

(***************************************************************************)
(* rounding.h: FPDEC_ROUND_HALF_UP "Round to nearest with ties going away  *)
(* from zero". Not if the unit rounded to is a power of RADIX that none of *)
(* the digits reaches: fpdec_dyn_adjust_to_prec then passes the quantum 1, *)
(* whose half is 0, so that any rest counts as a tie.                      *)
(***************************************************************************)
HalfUpRoundsToNearest ==
  Return("adjusted") /\ Resolved(call.mode, dflt_rounding_mode) = "HALF_UP" =>
    Number(z) = RoundedNumber(Number(x), call.prec, "HALF_UP")

=============================================================================
