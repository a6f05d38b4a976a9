------------------------------ MODULE LiteralOps ------------------------------
(***************************************************************************)
(* From the decimal digits of a parsed literal to a number, word by word:  *)
(* shint_from_dec_coeff, digits_from_dec_coeff_exp and their caller        *)
(* fpdec_from_ascii_literal, and the literals with digits of any script.   *)
(* FpdecOps has the same conversion as an operator on numbers.             *)
(***************************************************************************)
EXTENDS Parser, TLC

CONSTANT HALF  (* Number of values of half a word (2^32).                  *)

ASSUME HalfAssumption == HALF \in Nat /\ HALF * HALF = U64

U64_HI(w) == w \div HALF
U64_LO(w) == w % HALF

(* A bug: the sum of the low word carries nothing into the high one. *)
WithDigit_NoCarry(sh, d) ==
  [lo |-> (sh.lo * 10 + d) % U64,
   hi |-> sh.hi * 10 + U64_HI(U64_HI(sh.lo) * 10 + U64_HI(U64_LO(sh.lo) * 10))]

(* A shifted int in its words (hi counts beyond its 32 bits) and one more digit. *)
WithDigit(sh, d) ==
  LET lo == (sh.lo * 10 + d) % U64
      carry == IF lo < d THEN 1 ELSE 0
  IN  [lo |-> lo,
       hi |-> sh.hi * 10 + U64_HI(U64_HI(sh.lo) * 10 + U64_HI(U64_LO(sh.lo) * 10)) + carry]

(* The value of a shifted int, or of an overflow, where nothing is read any more. *)
Joined(sh) == IF sh.hi < SHINT_LIMIT \div U64 THEN sh.hi * U64 + sh.lo ELSE SHINT_LIMIT

(***************************************************************************)
(* shint_from_dec_coeff: the digits a word holds in any case are read into *)
(* the low word, the other ones one by one into both; zeros are added by   *)
(* multiplications with powers that fit a word. An overflow (here: any     *)
(* value from SHINT_LIMIT on) is looked for after each step.               *)
(***************************************************************************)
shint_from_dec_coeff(digits, n_add_zeros) ==
  LET cut == MIN(UINT64_10_POW_N_CUTOFF, Len(digits))
      sh[k \in cut .. Len(digits)] ==
        IF k = cut THEN [lo |-> NumberIn(SubSeq(digits, 1, cut)), hi |-> 0]
        ELSE IF Joined(sh[k - 1]) = SHINT_LIMIT THEN sh[k - 1]
        ELSE WithDigit(sh[k - 1], DigitValue(digits[k]))
      zeros[n \in 0 .. n_add_zeros] ==
        IF n = 0 THEN Joined(sh[Len(digits)])
        ELSE LET n_shift == MIN(n, UINT64_10_POW_N_CUTOFF)
                 v == zeros[n - n_shift]
             IN  IF v >= SHINT_LIMIT THEN v ELSE u128_imul_u64(v, u64_10_pow_n(n_shift))
  IN  zeros[n_add_zeros]

(***************************************************************************)
(* digits_from_dec_coeff_exp: chunks of decimal digits, counted from the   *)
(* end. The first one is as much shorter as its digit has to be shifted so *)
(* that the exponent becomes a multiple of DEC_DIGITS_PER_DIGIT.           *)
(***************************************************************************)
digits_from_dec_coeff_exp(digits, exp) ==
  LET n_dec_shift == MOD(exp, DEC_DIGITS_PER_DIGIT)
      n_digits == CEIL(Len(digits) + n_dec_shift, DEC_DIGITS_PER_DIGIT)
      stop(k) == MIN(Len(digits), Len(digits) + n_dec_shift - k * DEC_DIGITS_PER_DIGIT)
      chunk(k) == NumberIn(SubSeq(digits, MAX(stop(k + 1), 0) + 1, stop(k)))
      digit == [k \in 0 .. n_digits - 1 |->
                  IF k = 0 THEN chunk(0) * u64_10_pow_n(n_dec_shift) ELSE chunk(k)]
      n_signif == CHOOSE n \in 0 .. n_digits :
                    /\ \A k \in n .. n_digits - 1 : digit[k] = 0
                    /\ n > 0 => digit[n - 1] # 0
  IN  [coeff |-> ValueOf(digit, n_signif), n |-> n_signif,
       exp |-> FLOOR(exp, DEC_DIGITS_PER_DIGIT)]

(* What fpdec_from_ascii_literal makes of a parsed literal. *)
from_parsed(parsed) ==
  LET literal == parsed.literal
      sign == IF literal.negative THEN -1 ELSE 1
      dec_prec == MAX(0, -literal.exp)
      n_add_zeros == MAX(0, literal.exp)
      shint == shint_from_dec_coeff(parsed.digits, n_add_zeros)
      array == digits_from_dec_coeff_exp(parsed.digits, literal.exp)
      d == Trimmed(array.coeff, array.n, array.exp)
  IN  IF parsed.rc # "OK" THEN Returns(parsed.rc, FPDEC_ZERO)
      ELSE IF /\ literal.n_dec_digits + n_add_zeros =< MAX_N_DEC_DIGITS_IN_SHINT
              /\ -literal.exp =< MAX_DEC_PREC_FOR_SHINT
              /\ shint < SHINT_LIMIT
      THEN Ok(Shint(IF shint = 0 THEN 0 ELSE sign, dec_prec, shint))
      ELSE Ok(IF d.n = 0 THEN ResetToZero(dec_prec)
              ELSE Dyn(sign, dec_prec, d.coeff, d.n, d.exp))

from_ascii_literal(s) == from_parsed(parse_ascii_dec_literal(s))

-----------------------------------------------------------------------------
(***************************************************************************)
(* Unicode literals are sequences of code points. The digits 0 of the      *)
(* scripts in the table of unicode_digits.h, in its order:                 *)
(***************************************************************************)
Digit0 ==
  << 1632, 1776, 1984, 2406, 2534, 2662, 2790, 2918, 3046, 3174, 3302, 3430, 3558, 3664, 3792,
     3872, 4160, 4240, 6112, 6160, 6470, 6608, 6784, 6800, 6992, 7088, 7232, 7248, 42528, 43216,
     43264, 43472, 43504, 43600, 44016, 65296, 66720, 68912, 69734, 69872, 69942, 70096, 70384,
     70736, 70864, 71248, 71360, 71472, 71904, 72016, 72784, 73040, 73120, 92768, 93008, 123200,
     123632, 125264 >>

(* The search ends at the first range that does not end below the character. *)
lookup_unicode_digit(c) ==
  LET reached == {k \in 1 .. Len(Digit0) : c =< Digit0[k] + 9}
      range == CHOOSE k \in reached : \A j \in reached : k =< j
  IN  IF reached # {} /\ c >= Digit0[range] THEN c - Digit0[range] ELSE -1

(* The one-byte characters literals are made of. *)
AsciiCode ==
  (" " :> 32) @@ ("+" :> 43) @@ ("-" :> 45) @@ ("." :> 46) @@ ("E" :> 69) @@ ("e" :> 101)
  @@ [c \in Digits |-> 48 + DigitValue(c)]

(* iswspace holds of blanks and some other characters, as EM SPACE. *)
WideBlanks == {32, 8195}

from_unicode_literal(codes) ==
  LET first == CHOOSE i \in 1 .. Len(codes) + 1 :
                 /\ \A k \in 1 .. i - 1 : codes[k] \in WideBlanks
                 /\ i =< Len(codes) => codes[i] \notin WideBlanks
      rest == SubSeq(codes, first, Len(codes))
      Char(c) == IF c > 255 THEN DigitChars[lookup_unicode_digit(c) + 1]
                 ELSE CHOOSE ch \in DOMAIN AsciiCode : AsciiCode[ch] = c
  IN  IF \E i \in 1 .. Len(rest) : rest[i] > 255 /\ lookup_unicode_digit(rest[i]) = -1
      THEN Returns("INVALID_DECIMAL_LITERAL", FPDEC_ZERO)
      ELSE from_ascii_literal([i \in 1 .. Len(rest) |-> Char(rest[i])])

=============================================================================
