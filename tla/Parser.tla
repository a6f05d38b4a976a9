-------------------------------- MODULE Parser --------------------------------
(***************************************************************************)
(* parser.c: the decimal number a literal stands for. A literal is a       *)
(* sequence of characters; the scanning loops are the positions they stop  *)
(* at. What is done with the digits is the matter of LiteralOps.           *)
(***************************************************************************)
EXTENDS DecimalNumbers, Sequences

CONSTANT
  INT64_MAX  (* The greatest exponent that can be read without overflow.   *)

ASSUME ExponentAssumption == INT64_MAX \in Nat

DigitChars == <<"0", "1", "2", "3", "4", "5", "6", "7", "8", "9">>
Digits == {DigitChars[d] : d \in 1 .. 10}
DigitValue(c) == CHOOSE d \in 0 .. 9 : DigitChars[d + 1] = c

CharAt(s, i) == IF i \in 1 .. Len(s) THEN s[i] ELSE "end"

(* The first position from i on that holds none of the characters.         *)
SkipFrom(s, i, chars) ==
  CHOOSE j \in i .. Len(s) + 1 :
    /\ \A k \in i .. j - 1 : s[k] \in chars
    /\ CharAt(s, j) \notin chars

(* The position after one of some characters that may be at i. *)
Past(s, i, chars) == IF CharAt(s, i) \in chars THEN i + 1 ELSE i

(* The number written by a sequence of digits. *)
NumberIn(s) ==
  LET v[k \in 0 .. Len(s)] == IF k = 0 THEN 0 ELSE 10 * v[k - 1] + DigitValue(s[k])
  IN  v[Len(s)]

(* A bug: only a negative exponent is taken for an overflow. *)
Exponent_SignOnly(s) ==
  LET Wrapped(v) == ((v + INT64_MAX + 1) % (2 * (INT64_MAX + 1))) - INT64_MAX - 1
      e[k \in 0 .. Len(s)] ==
        IF k = 0 THEN 0
        ELSE IF e[k - 1] < 0 THEN -1 ELSE Wrapped(10 * e[k - 1] + DigitValue(s[k]))
  IN  e[Len(s)]

(***************************************************************************)
(* The digits of an exponent are read into an int64_t that wraps around;   *)
(* an exponent that got less by another digit is an overflow (here: -1).   *)
(***************************************************************************)
Exponent(s) ==
  LET Wrapped(v) == ((v + INT64_MAX + 1) % (2 * (INT64_MAX + 1))) - INT64_MAX - 1
      e[k \in 0 .. Len(s)] ==
        IF k = 0 THEN 0
        ELSE LET next == Wrapped(10 * e[k - 1] + DigitValue(s[k]))
             IN  IF e[k - 1] < 0 \/ next < e[k - 1] THEN -1 ELSE next
  IN  e[Len(s)]

(* Where a literal's parts are: [first character, first beyond).           *)
Parts(s) ==
  LET first == SkipFrom(s, 1, {" "})
      int == Past(s, first, {"+", "-"})
      signif == SkipFrom(s, int, {"0"})
      int_end == SkipFrom(s, signif, Digits)
      frac == Past(s, int_end, {"."})
      frac_end == IF CharAt(s, int_end) = "." THEN SkipFrom(s, frac, Digits) ELSE int_end
      has_exp == CharAt(s, frac_end) \in {"e", "E"}
      exp_sign == CharAt(s, frac_end + 1)
      exp == IF has_exp THEN Past(s, frac_end + 1, {"+", "-"}) ELSE frac_end
      exp_end == IF has_exp THEN SkipFrom(s, exp, Digits) ELSE frac_end
  IN  [first |-> first, int |-> int, signif |-> signif, int_end |-> int_end,
       frac |-> frac, frac_end |-> frac_end,
       has_exp |-> has_exp, exp_sign |-> exp_sign, exp |-> exp, exp_end |-> exp_end,
       end |-> SkipFrom(s, exp_end, {" "})]

Fails(rc) == [rc |-> rc, literal |-> Literal(FALSE, 0, 0, 0), digits |-> <<>>]

(* What the parts p of a literal say, and the limits of the exponent. *)
LiteralOf(s, p) ==
  LET digits == SubSeq(s, p.signif, p.int_end - 1) \o SubSeq(s, p.frac, p.frac_end - 1)
      e == Exponent(SubSeq(s, p.exp, p.exp_end - 1))
      exp == (IF p.exp_sign = "-" THEN -e ELSE e) - (p.frac_end - p.frac)
  IN  CASE CharAt(s, p.first) = "end"
             -> Fails("INVALID_DECIMAL_LITERAL")
        [] digits = <<>> /\ CharAt(s, p.int) # "0"
             -> Fails("INVALID_DECIMAL_LITERAL")
        [] p.has_exp /\ p.exp_sign \notin Digits \cup {"+", "-"}
             -> Fails("INVALID_DECIMAL_LITERAL")
        [] e < 0
             -> Fails("EXP_LIMIT_EXCEEDED")
        [] CharAt(s, p.end) # "end"
             -> Fails("INVALID_DECIMAL_LITERAL")
        [] exp < -INT64_MAX - 1
             -> Fails("EXP_LIMIT_EXCEEDED")
        [] exp > 0 /\ CEIL(exp, DEC_DIGITS_PER_DIGIT) > FPDEC_MAX_EXP
             -> Fails("EXP_LIMIT_EXCEEDED")
        [] -exp > FPDEC_MAX_DEC_PREC
             -> Fails("PREC_LIMIT_EXCEEDED")
        [] OTHER
             -> LET coeff == IF digits = <<>> THEN << "0" >> ELSE digits
                IN  [rc |-> "OK", digits |-> coeff,
                     literal |-> Literal(CharAt(s, p.first) = "-", NumberIn(coeff), Len(coeff), exp)]

(***************************************************************************)
(* parse_ascii_dec_literal. Leading zeros are no digits of the             *)
(* coefficient, unless there is nothing else.                              *)
(***************************************************************************)
parse_ascii_dec_literal(s) == LiteralOf(s, Parts(s))

=============================================================================
