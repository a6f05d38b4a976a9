------------------------------- MODULE Formatter -------------------------------
(***************************************************************************)
(* format_spec.c and the part of fpdec.c that writes numbers as text, or   *)
(* takes them apart into sign, coefficient and exponent.                   *)
(*                                                                         *)
(* A text is a sequence of characters. "wide" stands for a character of    *)
(* several bytes, "broken" for a byte that starts none; the code takes the *)
(* number of bytes for the width of a text. A fill character, a separator  *)
(* and a decimal point are texts of at most one character.                 *)
(***************************************************************************)
EXTENDS Parser, FiniteSets

CONSTANT WIDTH  (* Bytes of a wide character (2 to 4).                     *)

Bytes(text) == Len(text) + (WIDTH - 1) * Cardinality({i \in 1 .. Len(text) : text[i] = "wide"})

Repeated(c, n) == [i \in 1 .. n |-> c]

(* The text of fill, repeated; fill is empty if no width is given. *)
Fill(fill, n) == IF fill = <<>> THEN <<>> ELSE Repeated(fill[1], n)

(* The n least significant decimal digits of v; the digits it has. *)
DecDigits(v, n) == [i \in 1 .. n |-> DigitChars[((v \div 10^(n - i)) % 10) + 1]]
AllDecDigits(v) == IF v = 0 THEN <<>> ELSE DecDigits(v, Log10[v] + 1)

-----------------------------------------------------------------------------
(***************************************************************************)
(* parse_format_spec. A precision of -1 stands for SIZE_MAX. The locale is *)
(* what localeconv gives: thousands_sep, grouping (0 is CHAR_MAX) and      *)
(* decimal_point, which must not be empty. Numbers that exceed size_t and  *)
(* the length of a locale's texts are left out.                            *)
(***************************************************************************)
Aligns == {"<", ">", "=", "^"}

DFLT_FORMAT ==
  [fill |-> << " " >>, align |-> ">", sign |-> "-", min_width |-> 0, thousands_sep |-> <<>>,
   grouping |-> << 3 >>, decimal_point |-> << "." >>, precision |-> -1, type |-> "f"]

(* Where the parts of a format are: [first character, first beyond). *)
FormatParts(fmt) ==
  LET got_fill == CharAt(fmt, 2) \in Aligns
      align == IF got_fill THEN 2 ELSE 1
      sign == Past(fmt, align, Aligns)
      zero == Past(fmt, sign, {"-", "+", " "})
      width == Past(fmt, zero, {"0"})
      sep == SkipFrom(fmt, width, Digits)
      point == Past(fmt, sep, {","})
      prec == Past(fmt, point, {"."})
      type == IF CharAt(fmt, point) = "." THEN SkipFrom(fmt, prec, Digits) ELSE point
  IN  [got_fill |-> got_fill, align |-> align, sign |-> sign, zero |-> zero, width |-> width,
       sep |-> sep, point |-> point, prec |-> prec, type |-> type,
       end |-> Past(fmt, type, {"f", "F", "n", "%"})]

Malformed(fmt, p) ==
  \/ CharAt(fmt, 1) = "broken"
  \/ CharAt(fmt, p.width) = "0"
  \/ p.prec > p.point /\ p.type = p.prec
  \/ CharAt(fmt, p.end) # "end"

(* The value of a part, or what it is by default. *)
PartOf(fmt, first, beyond, default) == IF first < beyond THEN fmt[first] ELSE default

(* The specification before the locale is asked for. *)
PlainSpec(fmt, p) ==
  LET zeropad == p.width > p.zero /\ ~p.got_fill
      min_width == NumberIn(SubSeq(fmt, p.width, p.sep - 1))
  IN  [fill |-> IF min_width = 0 THEN <<>>
                ELSE IF p.got_fill THEN << fmt[1] >>
                ELSE IF zeropad THEN << "0" >> ELSE DFLT_FORMAT.fill,
       align |-> IF min_width = 0 THEN "<"
                 ELSE IF zeropad THEN "="
                 ELSE PartOf(fmt, p.align, p.sign, DFLT_FORMAT.align),
       sign |-> PartOf(fmt, p.sign, p.zero, DFLT_FORMAT.sign),
       min_width |-> min_width,
       thousands_sep |-> IF p.point > p.sep THEN << "," >> ELSE <<>>,
       grouping |-> DFLT_FORMAT.grouping,
       decimal_point |-> DFLT_FORMAT.decimal_point,
       precision |-> IF p.type > p.prec THEN NumberIn(SubSeq(fmt, p.prec, p.type - 1)) ELSE -1,
       type |-> PartOf(fmt, p.type, p.end, DFLT_FORMAT.type)]

LocalSpec(spec, locale) ==
  [spec EXCEPT !.thousands_sep = IF @ = <<>> THEN @ ELSE locale.thousands_sep,
               !.grouping = locale.grouping,
               !.decimal_point = locale.decimal_point]

SpecOf(fmt, p, locale) ==
  LET spec == PlainSpec(fmt, p)
  IN  CASE fmt = <<>> -> [rc |-> "OK", spec |-> DFLT_FORMAT]
        [] fmt # <<>> /\ Malformed(fmt, p) -> [rc |-> "INVALID_FORMAT", spec |-> DFLT_FORMAT]
        [] OTHER -> IF spec.type # "n"
                    THEN [rc |-> "OK", spec |-> spec]
                    ELSE IF locale.decimal_point = <<>>
                    THEN [rc |-> "INCOMPAT_LOCALE", spec |-> spec]
                    ELSE [rc |-> "OK", spec |-> LocalSpec(spec, locale)]

parse_format_spec(fmt, locale) == SpecOf(fmt, FormatParts(fmt), locale)

-----------------------------------------------------------------------------
(***************************************************************************)
(* The integral part. The sizes of groups come from an iterator that stays *)
(* at the last one; after a size of 0 there are no more groups.            *)
(***************************************************************************)
GroupSize(grouping, j) ==
  IF grouping = <<>> THEN 0 ELSE grouping[MIN(j, Len(grouping))]

(* A group ends k digits left of the point. *)
GroupEndsAt(grouping, k) ==
  LET end[j \in 0 .. k] == IF j = 0 THEN 0 ELSE end[j - 1] + GroupSize(grouping, j)
  IN  \E j \in 1 .. k : end[j] = k /\ \A i \in 1 .. j : GroupSize(grouping, i) > 0

(* A bug: a separator follows a group even if nothing else does. *)
Grouped_NothingFollows(digits, grouping, sep, min_width) ==
  LET n == Len(digits)
      t[k \in Nat] ==
        IF k = 0 THEN <<>>
        ELSE (IF GroupEndsAt(grouping, k) THEN sep ELSE <<>>)
             \o << IF k =< n THEN digits[n - k + 1] ELSE "0" >> \o t[k - 1]
      k == CHOOSE k \in n .. n + min_width :
             Len(t[k]) >= min_width /\ (k > n => Len(t[k - 1]) < min_width)
      text == t[k]
  IN  IF text = <<>> \/ text[1] \notin Digits THEN << "0" >> \o text ELSE text

(***************************************************************************)
(* fill_in_u128_padded, fill_in_digits_padded: digits, and zeros if there  *)
(* are too few for the width, from right to left; t[k] is the text after k *)
(* of them. A separator goes left of each group if anything else follows,  *)
(* even if it was the separator that completed the width: then a 0 does.   *)
(***************************************************************************)
Grouped(digits, grouping, sep, min_width) ==
  LET n == Len(digits)
      t[k \in Nat] ==
        IF k = 0 THEN <<>>
        ELSE LET s == << IF k =< n THEN digits[n - k + 1] ELSE "0" >> \o t[k - 1]
             IN  IF GroupEndsAt(grouping, k) /\ (k < n \/ Len(s) < min_width)
                 THEN sep \o s ELSE s
      k == CHOOSE k \in n .. n + min_width :
             Len(t[k]) >= min_width /\ (k > n => Len(t[k - 1]) < min_width)
      text == t[k]
  IN  IF text = <<>> \/ text[1] \notin Digits THEN << "0" >> \o text ELSE text

Percent(spec) == IF spec.type = "%" THEN << "%" >> ELSE <<>>

SignText(a, spec) ==
  IF a.sign < 0 THEN << "-" >> ELSE IF spec.sign # "-" THEN << spec.sign >> ELSE <<>>

(* min_width_int_part: what zero padding leaves to the integral part. *)
IntWidth(spec, len_sign) ==
  IF spec.fill = << "0" >> /\ spec.align = "="
  THEN MAX(0, spec.min_width
              - (spec.precision + Bytes(spec.decimal_point) + len_sign + Len(Percent(spec))))
  ELSE 0

IntText(digits, spec, len_sign) ==
  IF spec.thousands_sep # <<>>
  THEN Grouped(digits, spec.grouping, spec.thousands_sep, IntWidth(spec, len_sign))
  ELSE IF digits = <<>> THEN << "0" >> ELSE digits

(* A bug: the first of the digits is kept, even if it is a zero. *)
WithoutZeros_KeepsOne(digits, n_max) ==
  LET n == Len(digits)
      k == CHOOSE k \in 0 .. n_max :
             /\ \A i \in n - k + 1 .. n : digits[i] = "0"
             /\ k + 1 < n_max => digits[n - k] # "0"
  IN  SubSeq(digits, 1, n - k)

(* Digits without zeros at their end, of which at most n_max go. *)
WithoutZeros(digits, n_max) ==
  LET n == Len(digits)
      k == CHOOSE k \in 0 .. n_max :
             /\ \A i \in n - k + 1 .. n : digits[i] = "0"
             /\ k < n_max => digits[n - k] # "0"
  IN  SubSeq(digits, 1, n - k)

-----------------------------------------------------------------------------
(***************************************************************************)
(* Outcomes. end is where writing ended, max_n_bytes where it had to; the  *)
(* integral part needs bytes of a buffer that has scratch.                 *)
(***************************************************************************)
Written(text, end, max_n_bytes, bytes, scratch) ==
  [rc |-> "OK", text |-> text, end |-> end, max_n_bytes |-> max_n_bytes,
   bytes |-> bytes, scratch |-> scratch]

NotWritten(rc) == [Written(<<>>, 0, 0, 0, 0) EXCEPT !.rc = rc]

(* buf_align; n_char is the number of bytes. *)
Aligned(sign, rest, spec) ==
  LET n_to_fill == spec.min_width - Bytes(sign \o rest)
      left == n_to_fill \div 2
  IN  CASE spec.align = "=" -> sign \o Fill(spec.fill, n_to_fill) \o rest
        [] spec.align = ">" -> Fill(spec.fill, n_to_fill) \o sign \o rest
        [] spec.align = "<" -> sign \o rest \o Fill(spec.fill, n_to_fill)
        [] spec.align = "^" -> Fill(spec.fill, left) \o sign \o rest
                               \o Fill(spec.fill, n_to_fill - left)

(* A bug: the separators get no room of their own. *)
IntBytes_NoSeparators(n_digits, spec) == n_digits + Bytes(spec.thousands_sep)

(* The bytes provided for a number of integral digits. *)
IntBytes(n_digits, spec) == n_digits * (1 + Bytes(spec.thousands_sep))

(***************************************************************************)
(* What both functions do with the parts of a text: the point is written   *)
(* only if digits follow it. Aligning between sign and digits, buf_align   *)
(* returns a position that lies beyond the end by the sign.                *)
(***************************************************************************)
Assembled(sign, int, frac, int_bytes, bytes, scratch, spec) ==
  LET rest == int \o (IF frac = <<>> THEN <<>> ELSE spec.decimal_point \o frac) \o Percent(spec)
      fills == spec.min_width > Bytes(sign \o rest)
      text == IF fills THEN Aligned(sign, rest, spec) ELSE sign \o rest
      max_n_bytes == MAX(1 + int_bytes + Bytes(spec.decimal_point) + spec.precision
                           + Len(Percent(spec)),
                         spec.min_width * (1 + Bytes(spec.fill)) + 1)
  IN  IF spec.min_width > 0 /\ \E i \in 1 .. Len(rest) : rest[i] = "broken"
      THEN NotWritten("INVALID_FORMAT")
      ELSE Written(text, Bytes(text) + (IF fills /\ spec.align = "=" THEN Len(sign) ELSE 0),
                   max_n_bytes, bytes, scratch)

(***************************************************************************)
(* fpdec_shint_formatted. shift is by how many places a percentage moves   *)
(* the point. shint_text writes v, a or its adjusted copy, with the places *)
(* dec_prec that it has then, and multiplied if more are moved than a has. *)
(***************************************************************************)
shint_text(v, dec_prec, multiplier, spec, no_trailing_zeros) ==
  LET int_part == IF dec_prec > 0 THEN v.coeff \div u64_10_pow_n(dec_prec)
                  ELSE v.coeff * multiplier
      frac_part == v.coeff % u64_10_pow_n(dec_prec)
      int == IntText(AllDecDigits(int_part), spec, Len(SignText(v, spec)))
      frac == DecDigits(frac_part, dec_prec) \o Repeated("0", spec.precision - dec_prec)
      scratch == IF spec.thousands_sep = <<>> THEN MAX_N_DEC_DIGITS_IN_SHINT
                 ELSE MAX(MAX_N_DEC_DIGITS_IN_SHINT, IntWidth(spec, Len(SignText(v, spec))) + 1)
                      * (1 + Bytes(spec.thousands_sep))
  IN  Assembled(SignText(v, spec), int,
                IF no_trailing_zeros THEN WithoutZeros(frac, Len(frac)) ELSE frac,
                IntBytes(MAX_N_DEC_DIGITS_IN_SHINT - dec_prec, spec),
                Bytes(int), scratch, spec)

fpdec_shint_formatted(a, spec, no_trailing_zeros, mode, shift) ==
  LET point_shift == IF spec.type = "%" THEN shift ELSE 0
      shown == MAX(0, a.dec_prec - point_shift)
      adj == IF spec.precision < shown
             THEN fpdec_adjusted(a, spec.precision + point_shift, mode) ELSE Ok(a)
      Text(o) ==
        IF o.rc # "OK" THEN NotWritten(o.rc)
        ELSE shint_text(o.v, MIN(shown, spec.precision),
                        u64_10_pow_n(MAX(0, point_shift - a.dec_prec)), spec, no_trailing_zeros)
  IN  Text(adj)

(***************************************************************************)
(* The digits of a dynamic number as text. The number of fractional digits *)
(* is cut down to dec_prec within the least significant digit only, and    *)
(* zeros at the end are left out only there.                               *)
(***************************************************************************)
dyn_text(a, spec, no_trailing_zeros) ==
  LET n_int == MAX(0, a.n + MIN(a.exp, 0))
      n_frac == a.n - n_int
      n_dec_frac == MAX(0, -a.exp * DEC_DIGITS_PER_DIGIT)
      d_adjust == MAX(0, n_dec_frac - a.dec_prec)
      int_zeros == MAX(0, a.exp * DEC_DIGITS_PER_DIGIT)
      int_digits == IF n_int = 0 THEN <<>>
                    ELSE AllDecDigits(a.coeff \div RADIX^n_frac) \o Repeated("0", int_zeros)
      digits == Repeated("0", n_dec_frac - n_frac * DEC_DIGITS_PER_DIGIT)
                \o SubSeq(DecDigits(a.coeff % RADIX^n_frac, n_frac * DEC_DIGITS_PER_DIGIT), 1,
                          n_frac * DEC_DIGITS_PER_DIGIT - d_adjust)
      n_zeros == IF no_trailing_zeros THEN MAX(0, spec.precision - a.dec_prec)
                 ELSE spec.precision - n_dec_frac + d_adjust
      frac == (IF no_trailing_zeros THEN WithoutZeros(digits, DEC_DIGITS_PER_DIGIT - d_adjust)
               ELSE digits) \o Repeated("0", n_zeros)
      sign == SignText(a, spec)
      int == IntText(int_digits, spec, Len(sign))
      n == n_int * DEC_DIGITS_PER_DIGIT + int_zeros
  IN  IF n_frac > 0 /\ d_adjust > UINT64_10_POW_N_CUTOFF
      THEN NotWritten("ABORT")
      ELSE Assembled(sign, int,
                     IF spec.precision = 0 \/ (no_trailing_zeros /\ n_frac = 0) THEN <<>> ELSE frac,
                     MAX(IntBytes(n, spec), 1), Bytes(int),
                     IF spec.thousands_sep = <<>> THEN Bytes(int)
                     ELSE MAX(n, IntWidth(spec, Len(sign)) + 1) * (1 + Bytes(spec.thousands_sep)),
                     spec)

(***************************************************************************)
(* The value of a percentage: an adjusted copy is multiplied in place and  *)
(* not normalized again, anything else by fpdec_mul. Whatever that gives   *)
(* is taken for a dynamic number.                                          *)
(***************************************************************************)
percentage(a, is_adj, shift) ==
  LET f == u64_10_pow_n(shift)
      product == IF is_adj
                 THEN Ok([a EXCEPT !.coeff = @ * f, !.n = ProductCount(a.coeff, a.n, f)])
                 ELSE fpdec_mul(a, Shint(1, 0, f))
  IN  IF product.rc # "OK" THEN product
      ELSE Asserting(product.v.dyn, Ok([product.v EXCEPT !.dec_prec = MAX(0, @ - shift)]))

fpdec_dyn_formatted(a, spec, no_trailing_zeros, mode, shift) ==
  LET needed_dec_prec == AsDecPrec(spec.precision + (IF spec.type = "%" THEN shift ELSE 0))
      is_adj == needed_dec_prec < a.dec_prec
      adj == IF is_adj THEN fpdec_adjusted(a, needed_dec_prec, mode) ELSE Ok(a)
      Dynamic(p) == IF p.rc # "OK" THEN NotWritten(p.rc) ELSE dyn_text(p.v, spec, no_trailing_zeros)
      Text(o) ==
        IF o.rc # "OK" THEN NotWritten(o.rc)
        ELSE IF ~o.v.dyn THEN fpdec_shint_formatted(o.v, spec, no_trailing_zeros, mode, shift)
        ELSE Dynamic(IF spec.type = "%" THEN percentage(o.v, is_adj, shift) ELSE o)
  IN  Text(adj)

formatted(a, spec, no_trailing_zeros, mode, shift) ==
  IF a.dyn THEN fpdec_dyn_formatted(a, spec, no_trailing_zeros, mode, shift)
  ELSE fpdec_shint_formatted(a, spec, no_trailing_zeros, mode, shift)

(* fpdec_formatted, once the format is parsed. *)
formatted_by(a, parsed, mode, shift) ==
  LET precision == IF parsed.spec.precision = -1 THEN a.dec_prec ELSE parsed.spec.precision
      spec == [parsed.spec EXCEPT !.precision = precision,
                                  !.decimal_point = IF precision = 0 THEN <<>> ELSE @]
  IN  IF parsed.rc # "OK" THEN NotWritten(parsed.rc) ELSE formatted(a, spec, FALSE, mode, shift)

fpdec_formatted(a, fmt, locale, mode, shift) ==
  formatted_by(a, parse_format_spec(fmt, locale), mode, shift)

fpdec_as_ascii_literal(a, no_trailing_zeros, mode) ==
  formatted(a, [DFLT_FORMAT EXCEPT !.fill = <<>>, !.align = "<", !.precision = a.dec_prec,
                                   !.decimal_point = IF a.dec_prec = 0 THEN <<>> ELSE @],
            no_trailing_zeros, mode, 0)

-----------------------------------------------------------------------------
(***************************************************************************)
(* fpdec_as_sign_coeff128_exp: 0 and sign, coefficient and exponent, or -1 *)
(* if the coefficient needs more than 128 bits.                            *)
(***************************************************************************)
Taken(sign, coeff, exp) == [rc |-> 0, sign |-> sign, coeff |-> coeff, exp |-> exp]
NotTaken == [rc |-> -1, sign |-> 0, coeff |-> 0, exp |-> 0]

(* The exponent of the lowest digit in decimal places, multiplied as an int. *)
decimal_exp(a) == Int32(a.exp * DEC_DIGITS_PER_DIGIT)

(* A bug: the zeros left out are not added to the exponent. *)
TakenNormalized_KeepsExponent(sign, coeff, exp) ==
  Taken(sign, coeff \div u64_10_pow_n(TrailingZeros(coeff, MAX_N_DEC_DIGITS_IN_SHINT)), exp)

TakenNormalized(sign, coeff, exp) ==
  LET k == TrailingZeros(coeff, MAX_N_DEC_DIGITS_IN_SHINT)
  IN  Taken(sign, coeff \div u64_10_pow_n(k), exp + k)

(* Three digits: the zeros at the end of the least one are left out. *)
coeff128_of_three(a) ==
  LET ntz == TrailingZeros(DigitAt(a.coeff, 0), DEC_DIGITS_PER_DIGIT)
      shift == u64_10_pow_n(DEC_DIGITS_PER_DIGIT - ntz)
      low == DigitAt(a.coeff, 0) \div u64_10_pow_n(ntz) + DigitAt(a.coeff, 1) * shift
      high == u128_imul_u64(u128_imul_u64(DigitAt(a.coeff, 2), RADIX), shift)
      coeff == (low + high) % U128
  IN  IF high = U128 - 1 \/ coeff < high
      THEN NotTaken
      ELSE Taken(a.sign, coeff, decimal_exp(a) + ntz)

fpdec_as_sign_coeff128_exp(a) ==
  CASE a.sign = 0 -> Taken(0, 0, 0)
    [] a.sign # 0 /\ ~a.dyn -> TakenNormalized(a.sign, a.coeff, -a.dec_prec)
    [] a.sign # 0 /\ a.dyn /\ a.n < 3 -> TakenNormalized(a.sign, a.coeff, decimal_exp(a))
    [] a.sign # 0 /\ a.dyn /\ a.n = 3 -> coeff128_of_three(a)
    [] a.sign # 0 /\ a.dyn /\ a.n > 3 -> NotTaken

=============================================================================
