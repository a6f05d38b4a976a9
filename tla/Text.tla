--------------------------------- MODULE Text ---------------------------------
(***************************************************************************)
(* Numbers as text, as a state machine: a client reads a literal, or makes *)
(* a number of digits, and has the number written in one of the ways the   *)
(* library has for it.                                                     *)
(***************************************************************************)
EXTENDS Formatter, LiteralOps

CONSTANTS
  Literals,       (* Texts it reads.                                       *)
  WideLiterals,   (* Texts it reads as Unicode literals,                   *)
  Zeros,          (* with digits of the scripts that have these zeros.     *)
  Shown,          (* Those of which the numbers are written again.         *)
  DigitValues,    (* Digits and exponents, <<sign, digits, exp>>, it has.  *)
  Formats,        (* Formats it asks for, as records of their parts.       *)
  Locales,        (* What localeconv may give.                             *)
  PercentShifts,  (* How far % shifts the point (2).                       *)
  DefaultModes,   (* The default rounding mode is one of them.             *)
  MaxInt          (* Bounds the digits of percentages.                     *)

(* What C's types make of the inputs: texts, and digits with an exponent. *)
ASSUME TextAssumption ==
  /\ Literals \subseteq Seq(STRING) /\ WideLiterals \subseteq Seq(STRING)
  /\ \A d \in DigitValues : d[1] \in {-1, 1} /\ d[2] \in Nat /\ d[3] \in INT32_MIN .. FPDEC_MAX_EXP

VARIABLES
  a,     (* The number.                                                    *)
  call,  (* The last call: function, arguments and return code.            *)
  out    (* The text or the coefficient it gave.                           *)

vars == << a, call, out >>

NoText == NotWritten("OK")

Called(fn, arg, rc) == [fn |-> fn, arg |-> arg, rc |-> rc]

Init ==
  /\ a = FPDEC_ZERO
  /\ call = Called("none", <<>>, "OK")
  /\ out = NoText

-----------------------------------------------------------------------------
(* fpdec_from_ascii_literal *)
Read ==
  /\ call.fn = "none"
  /\ \E s \in Literals :
       LET outcome == from_ascii_literal(s)
       IN  a' = outcome.v /\ call' = Called("read", s, outcome.rc)
  /\ UNCHANGED out

(* A literal with the digits of some script; "em" and "ohm" are characters beyond. *)
InScript(s, zero) ==
  [i \in 1 .. Len(s) |->
     CASE s[i] \in Digits -> zero + DigitValue(s[i])
       [] s[i] = "em" -> 8195
       [] s[i] = "ohm" -> 8486
       [] OTHER -> AsciiCode[s[i]]]

(* fpdec_from_unicode_literal *)
ReadUnicode ==
  /\ call.fn = "none"
  /\ \E s \in WideLiterals, zero \in Zeros :
       LET outcome == from_unicode_literal(InScript(s, zero))
       IN  a' = outcome.v /\ call' = Called("read_unicode", s, outcome.rc)
  /\ UNCHANGED out

(* fpdec_from_sign_digits_exp *)
Make ==
  /\ call.fn = "none"
  /\ \E d \in DigitValues :
       /\ a' = fpdec_from_sign_digits_exp(d[1], d[2], d[3]).v
       /\ call' = Called("make", d, "OK")
  /\ UNCHANGED out

Ready == call.fn = "make" \/ (call.fn = "read" /\ call.rc = "OK" /\ call.arg \in Shown)

(* The text of a format: [[fill]align][sign][0][min_width][,][.precision][type] *)
FormatText(f) ==
  f.fill \o f.align \o f.sign \o f.zero \o f.width \o f.sep
  \o (IF f.prec = <<>> THEN <<>> ELSE << "." >> \o f.prec) \o f.type \o f.rest

(* The model's numbers hold percentages up to MaxInt and roundings of two digits. *)
Formattable(shift) == a.coeff =< MaxInt \div u64_10_pow_n(shift) /\ (a.n =< 2 \/ a.exp >= 0)

(* The zeros in front of or behind the digits of a text are counted in an int. *)
Writable == ABS(a.exp) * DEC_DIGITS_PER_DIGIT =< FPDEC_MAX_EXP

(* fpdec_formatted *)
Format ==
  /\ Ready /\ Writable
  /\ \E f \in Formats, mode \in DefaultModes :
     \E locale \in IF f.type = << "n" >> THEN Locales ELSE {CHOOSE l \in Locales : TRUE},
        shift \in IF f.type = << "%" >> THEN PercentShifts ELSE {0} :
       /\ Formattable(shift)
       /\ out' = fpdec_formatted(a, FormatText(f), locale, mode, shift)
       /\ call' = Called("formatted",
                         [format |-> f, mode |-> mode, locale |-> locale, shift |-> shift],
                         out'.rc)
  /\ UNCHANGED a

(* fpdec_as_ascii_literal *)
AsAsciiLiteral ==
  /\ Ready /\ Writable
  /\ \E no_trailing_zeros \in BOOLEAN, mode \in DefaultModes :
       /\ out' = fpdec_as_ascii_literal(a, no_trailing_zeros, mode)
       /\ call' = Called("as_ascii_literal", no_trailing_zeros, out'.rc)
  /\ UNCHANGED a

(* fpdec_as_sign_coeff128_exp *)
AsSignCoeffExp ==
  /\ Ready
  /\ out' = fpdec_as_sign_coeff128_exp(a)
  /\ call' = Called("as_sign_coeff128_exp", <<>>, out'.rc)
  /\ UNCHANGED a

(* The client frees what it has got. *)
Reset == call.fn # "none" /\ a' = FPDEC_ZERO /\ call' = Called("none", <<>>, "OK") /\ out' = NoText

Next == Read \/ ReadUnicode \/ Make \/ Format \/ AsAsciiLiteral \/ AsSignCoeffExp \/ Reset

Spec == Init /\ [][Next]_vars

-----------------------------------------------------------------------------
(***************************************************************************)
(* What a literal says, by the grammar in parser.c: a mantissa with a sign *)
(* and a point, and the power of ten it is multiplied with. The point need *)
(* not be followed by digits.                                              *)
(***************************************************************************)
WithoutBlanks(s) ==
  LET marks == {i \in 1 .. Len(s) : s[i] # " "}
  IN  IF marks = {} THEN <<>>
      ELSE SubSeq(s, CHOOSE i \in marks : \A k \in marks : i =< k,
                     CHOOSE i \in marks : \A k \in marks : i >= k)

Unsigned(s) == IF s # <<>> /\ s[1] \in {"+", "-"} THEN Tail(s) ELSE s
IsNegative(s) == s # <<>> /\ s[1] = "-"
OnlyDigits(s) == \A i \in 1 .. Len(s) : s[i] \in Digits
PlacesOf(s, chars) == {i \in 1 .. Len(s) : s[i] \in chars}

(* The text before and after the first of some characters. *)
Before(s, chars) ==
  LET places == PlacesOf(s, chars)
  IN  IF places = {} THEN s ELSE SubSeq(s, 1, (CHOOSE i \in places : \A k \in places : i =< k) - 1)
After(s, chars) == SubSeq(s, Len(Before(s, chars)) + 2, Len(s))

Reading(s) ==
  LET body == Unsigned(WithoutBlanks(s))
      mantissa == Before(body, {"e", "E"})
      int == Before(mantissa, {"."})
      frac == After(mantissa, {"."})
      power == After(body, {"e", "E"})
      sign == IF IsNegative(WithoutBlanks(s)) THEN -1 ELSE 1
      exp == (IF IsNegative(power) THEN -1 ELSE 1) * NumberIn(Unsigned(power))
  IN  IF /\ OnlyDigits(int) /\ OnlyDigits(frac) /\ int \o frac # <<>>
         /\ OnlyDigits(Unsigned(power))
         /\ Len(body) > Len(mantissa) => Unsigned(power) # <<>>
      THEN << sign * NumberIn(int \o frac), exp - Len(frac) >>
      ELSE <<>>

(* A sign without digits, which the grammar does not have, is an exponent of 0. *)
IsLone(s) ==
  /\ After(WithoutBlanks(s), {"e", "E"}) \in {<< "+" >>, << "-" >>}
  /\ Reading(Before(WithoutBlanks(s), {"e", "E"})) # <<>>

(***************************************************************************)
(* The reading of a literal is exact: one that follows the grammar gives   *)
(* the number it says with the precision it is written in, and anything    *)
(* else an error, also an exponent beyond all limits whose digits make an  *)
(* int64_t wrap around, once or more often, without any of the tests for   *)
(* an overflow noticing it.                                                *)
(* Other scripts' digits read as the same number, blanks that are no ASCII *)
(* characters are skipped in front.                                        *)
(***************************************************************************)
LiteralsAreReadExactly ==
  LET blanks == IF call.fn = "read_unicode" THEN {" ", "em"} ELSE {" "}
      s == SubSeq(call.arg, SkipFrom(call.arg, 1, blanks), Len(call.arg))
      r == Reading(s)
      within == CEIL(r[2], DEC_DIGITS_PER_DIGIT) =< FPDEC_MAX_EXP /\ -r[2] =< FPDEC_MAX_DEC_PREC
  IN  call.fn \in {"read", "read_unicode"} /\ ~IsLone(s) =>
        IF r # <<>> /\ within
        THEN /\ call.rc = "OK"
             /\ Number(a) = Canonical(r[1], r[2])
             /\ a.dec_prec = MAX(0, -r[2])
        ELSE call.rc # "OK"

(***************************************************************************)
(* Reading the digits of a literal word by word, shint_from_dec_coeff and  *)
(* digits_from_dec_coeff_exp lose none and no carry between the words:     *)
(* they become a shifted int whenever its limits allow it, and otherwise   *)
(* the array of digits of the number itself.                               *)
(***************************************************************************)
NoDigitIsLost ==
  call.fn = "read" /\ call.rc = "OK" =>
    a = fpdec_from_ascii_literal(parse_ascii_dec_literal(call.arg).literal).v

-----------------------------------------------------------------------------
(***************************************************************************)
(* The text a format demands, from the value of the number alone.          *)
(***************************************************************************)
AsPercent(num, shift) == IF num[1] = 0 THEN num ELSE << num[1], num[2] + shift >>

(* Separators right of each digit that ends a group. *)
Separated(digits, grouping, sep) ==
  LET n == Len(digits)
      t[k \in 0 .. n] ==
        IF k = 0 THEN <<>>
        ELSE t[k - 1] \o << digits[k] >>
             \o (IF k < n /\ GroupEndsAt(grouping, n - k) THEN sep ELSE <<>>)
  IN  t[n]

(* The fewest zeros in front that give the integral part its width. *)
SeparatedPadded(digits, grouping, sep, width) ==
  LET text(n_zeros) == Separated(Repeated("0", n_zeros) \o digits, grouping, sep)
  IN  text(CHOOSE n \in 0 .. width :
             Len(text(n)) >= width /\ (n > 0 => Len(text(n - 1)) < width))

Demanded(f, locale, shift, mode) ==
  LET local == f.type = << "n" >>
      prec == IF f.prec = <<>> THEN a.dec_prec ELSE NumberIn(f.prec)
      num == RoundedNumber(AsPercent(Number(a), shift), prec, mode)
      signif == AllDecDigits(ABS(num[1])) \o Repeated("0", num[2] + prec)
      digits == Repeated("0", MAX(0, prec + 1 - Len(signif))) \o signif
      n_int == Len(digits) - prec
      zeropad == (f.zero # <<>> /\ f.fill = <<>>) \/ (f.fill = << "0" >> /\ f.align = << "=" >>)
      sign == IF num[1] < 0 THEN << "-" >> ELSE IF f.sign = << "-" >> THEN <<>> ELSE f.sign
      tail == (IF prec = 0 THEN <<>> ELSE IF local THEN locale.decimal_point ELSE << "." >>)
              \o SubSeq(digits, n_int + 1, Len(digits)) \o (IF f.type = << "%" >> THEN f.type ELSE <<>>)
      width == NumberIn(f.width)
      sep == IF local /\ f.sep # <<>> THEN locale.thousands_sep ELSE f.sep
      int == SeparatedPadded(SubSeq(digits, 1, n_int), IF local THEN locale.grouping ELSE << 3 >>, sep,
                             IF zeropad /\ sep # <<>> THEN MAX(0, width - Bytes(sign \o tail)) ELSE 0)
      fill == IF f.fill # <<>> THEN f.fill ELSE IF f.zero # <<>> THEN << "0" >> ELSE << " " >>
      align == IF f.zero # <<>> /\ f.fill = <<>> THEN << "=" >>
               ELSE IF f.align # <<>> THEN f.align ELSE << ">" >>
      n == MAX(0, width - Bytes(sign \o int \o tail))
      n_left == CASE align = << "<" >> -> 0
                  [] align = << "^" >> -> n \div 2
                  [] align \in {<< ">" >>, << "=" >>} -> n
      left == Repeated(fill[1], n_left)
  IN  (IF align = << "=" >> THEN sign \o left ELSE left \o sign) \o int \o tail
      \o Repeated(fill[1], n - n_left)

-----------------------------------------------------------------------------
(***************************************************************************)
(* Where percentages go wrong. A shifted int has more digits than provided *)
(* after the point was moved; a dynamic number becomes a shifted int when  *)
(* it is multiplied; the least significant digit of an adjusted one        *)
(* becomes 0 and is still there.                                           *)
(***************************************************************************)
PrecAsked(f) == IF f.prec = <<>> THEN a.dec_prec ELSE NumberIn(f.prec)

PercentGoesWrong(f, shift, mode) ==
  LET needed == AsDecPrec(PrecAsked(f) + shift)
      is_adj == needed < a.dec_prec
      Wrong(v) ==
        \/ /\ ~v.dyn
           /\ Len(AllDecDigits(v.coeff \div 10^v.dec_prec)) + shift > MAX_N_DEC_DIGITS_IN_SHINT
        \/ v.dyn /\ ~is_adj /\ ~fpdec_mul(v, Shint(1, 0, 10^shift)).v.dyn
        \/ v.dyn /\ is_adj /\ (v.coeff * 10^shift) % RADIX = 0
  IN  f.type = << "%" >> /\ Wrong(IF is_adj THEN fpdec_adjusted(a, needed, mode).v ELSE a)

(***************************************************************************)
(* A text stays within the buffers computed for it before: the one it is   *)
(* returned in, whatever is added by separators, zeros in front of them,   *)
(* wide characters, precision and width, and the one for its integral      *)
(* part; and no assertion fails (other than in the cases above).           *)
(***************************************************************************)
TextFitsBuffer ==
  call.fn \in {"formatted", "as_ascii_literal"} =>
    \/ out.rc # "ABORT" /\ out.end =< out.max_n_bytes /\ out.bytes =< out.scratch
    \/ call.fn = "formatted" /\ PercentGoesWrong(call.arg.format, call.arg.shift, call.arg.mode)

(* The precision asked for, with two places for a percentage, exceeds 16 bits. *)
NeededPrecWraps(f, shift) == a.dyn /\ PrecAsked(f) + shift > FPDEC_MAX_DEC_PREC

(***************************************************************************)
(* A formatted number is the text its format demands for its value,        *)
(* rounded by the default mode, in whichever way it is represented. Other  *)
(* formats, locales without a decimal point, and characters of the locale  *)
(* that make a text of some width unreadable are errors.                   *)
(***************************************************************************)
TextSaysNumber ==
  LET f == call.arg.format
      shift == call.arg.shift
      prec == PrecAsked(f) + shift
      Fits(text) ==
        IF f.width # <<>> /\ \E i \in 1 .. Len(text) : text[i] = "broken"
        THEN out.rc = "INVALID_FORMAT"
        ELSE out.rc = "OK" /\ out.text = text
  IN  /\ call.fn = "formatted"
      /\ ~PercentGoesWrong(f, shift, call.arg.mode)
      /\ ~NeededPrecWraps(f, shift)
      /\ prec < a.dec_prec => RoundsCorrectly(a, prec, call.arg.mode)
      => IF f.rest # <<>>
         THEN out.rc = "INVALID_FORMAT"
         ELSE IF f.type = << "n" >> /\ call.arg.locale.decimal_point = <<>>
         THEN out.rc = "INCOMPAT_LOCALE"
         ELSE Fits(Demanded(f, call.arg.locale, shift, call.arg.mode))

(***************************************************************************)
(* The literal of a number reads as the same number with the same          *)
(* precision, or the least one if zeros at the end are left out.           *)
(***************************************************************************)
LiteralsReadBack ==
  LET Says(literal) ==
        /\ Canonical(IF literal.negative THEN -literal.coeff ELSE literal.coeff, literal.exp)
             = Number(a)
        /\ -literal.exp = IF call.arg THEN MAX(0, -Number(a)[2]) ELSE a.dec_prec
      ReadsBack(parsed) == parsed.rc = "OK" /\ Says(parsed.literal)
  IN  call.fn = "as_ascii_literal" => ReadsBack(parse_ascii_dec_literal(out.text))

(* The product of the highest of three digits wraps unnoticed. *)
CoefficientWraps ==
  a.dyn /\ a.n = 3 /\
    LET high == DigitAt(a.coeff, 2) * RADIX
        shift == u64_10_pow_n(DEC_DIGITS_PER_DIGIT
                              - TrailingZeros(DigitAt(a.coeff, 0), DEC_DIGITS_PER_DIGIT))
    IN  (high \div U64) * shift < U64 /\ high * shift >= U128

(* The exponent in decimal places exceeds an int32_t. *)
ExponentWraps == a.dyn /\ a.exp * DEC_DIGITS_PER_DIGIT \notin INT32_MIN .. FPDEC_MAX_EXP

(***************************************************************************)
(* Sign, coefficient and exponent give the number exactly, and only a      *)
(* coefficient that does not fit 128 bits is refused. If the exponent      *)
(* wraps, sign and coefficient are still those of the number.              *)
(***************************************************************************)
CoefficientIsExact ==
  call.fn = "as_sign_coeff128_exp" /\ ~CoefficientWraps =>
    IF ABS(Number(a)[1]) < U128
    THEN /\ out.rc = 0 /\ out.coeff < U128
         /\ Canonical(out.sign * out.coeff, out.exp)[1] = Number(a)[1]
         /\ ~ExponentWraps => Canonical(out.sign * out.coeff, out.exp) = Number(a)
    ELSE out.rc = -1

=============================================================================
