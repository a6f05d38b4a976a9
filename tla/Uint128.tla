------------------------------- MODULE Uint128 -------------------------------
(***************************************************************************)
(* The functions of uint128_math.h: 128 bits in two words, for compilers   *)
(* without __int128, and the division by the radix (basemath.h) compiled   *)
(* with them. Every operation on a word is modulo U64.                     *)
(*                                                                         *)
(* A behaviour is one call, as in Uint128Native, which holds the other     *)
(* form of the same functions; AgreesWithNative compares them.             *)
(***************************************************************************)
EXTENDS Integers, Bitwise, FiniteSetsExt

CONSTANTS U64, HALF, RADIX, TEN  (* See Uint128Native. *)

ASSUME Uint128Assumption ==
  /\ HALF \in Nat \ {0, 1}
  /\ \E bits \in 1 .. 64 : HALF = 2^bits
  /\ U64 = HALF * HALF
  /\ RADIX \in 2 .. U64 - 1 /\ U64 < 2 * RADIX
  /\ TEN \in 2 .. HALF - 1

VARIABLES fn, x, y, r
vars == <<fn, x, y, r>>

Words == 0 .. U64 - 1
Pair(hi, lo) == [hi |-> hi, lo |-> lo]
Pairs == {Pair(hi, lo) : hi \in Words, lo \in Words}
Value(p) == p.hi * U64 + p.lo

Native == INSTANCE Uint128Native WITH x <- Value(x), y <- Value(y), r <- Value(r)

UINT128_MAX == Pair(U64 - 1, U64 - 1)
UINT128_ZERO == Pair(0, 0)
U64_HI(w) == w \div HALF
U64_LO(w) == w % HALF
Wrap(w) == w % U64

(* A comparison used as a number. *)
Bit(b) == IF b THEN 1 ELSE 0

WordBits == CHOOSE n \in 1 .. U64 : 2^n = U64
u64_n_leading_0_bits(w) == CHOOSE n \in 0 .. WordBits - 1 : w * 2^n \in (U64 \div 2) .. (U64 - 1)

ShiftLeft(w, n) == Wrap(w * 2^n)
ShiftDown(w, n) == w \div 2^n

(***************************************************************************)
(* Comparison, addition, subtraction.                                      *)
(***************************************************************************)
u128_n_signif_u32(a) ==
  IF a.hi # 0
    THEN (IF U64_HI(a.hi) # 0 THEN 4 ELSE 3)
    ELSE (IF U64_HI(a.lo) # 0 THEN 2 ELSE 1)

u128_gt(a, b) == a.hi > b.hi \/ (a.hi = b.hi /\ a.lo > b.lo)
u128_lt(a, b) == a.hi < b.hi \/ (a.hi = b.hi /\ a.lo < b.lo)
u128_cmp(a, b) == Bit(u128_gt(a, b)) - Bit(u128_lt(a, b))

u128_iadd_u64(a, w) ==
  LET t == Wrap(a.lo + w) IN Pair(Wrap(a.hi + Bit(t < a.lo)), t)

u128_incr(a) ==
  LET t == Wrap(a.lo + 1) IN Pair(Wrap(a.hi + Bit(t = 0)), t)

(* A bug: the carry is that of a digit, not of a word. *)
u128_iadd_u128_RadixCarry(a, b) ==
  LET t == Wrap(a.lo + b.lo) IN Pair(Wrap(a.hi + b.hi + Bit(t >= RADIX)), t)

u128_iadd_u128(a, b) ==
  LET t == Wrap(a.lo + b.lo) IN Pair(Wrap(a.hi + b.hi + Bit(t < a.lo)), t)

u128_isub_u64(a, w) ==
  LET t == Wrap(a.lo - w) IN Pair(Wrap(a.hi - Bit(t > a.lo)), t)

u128_decr(a) == Pair(Wrap(a.hi - Bit(a.lo = 0)), Wrap(a.lo - 1))

u128_sub_u128(a, b) ==
  LET t == Wrap(a.lo - b.lo) IN Pair(Wrap((a.hi - b.hi) - Bit(t > a.lo)), t)

(***************************************************************************)
(* Multiplication, by halves of words.                                     *)
(***************************************************************************)
u64_mul_u64(v, w) ==
  LET t0 == U64_LO(v) * U64_LO(w)
      t1 == Wrap(U64_LO(v) * U64_HI(w) + U64_HI(t0))
      t2 == Wrap(U64_HI(v) * U64_LO(w) + U64_LO(t1))
  IN  Pair(Wrap(U64_HI(t1) + U64_HI(v) * U64_HI(w) + U64_HI(t2)),
           Wrap(U64_LO(t0) + ShiftLeft(U64_LO(t2), WordBits \div 2)))

(* Overflow is signalled by the greatest number. *)
u128_imul_u64(a, w) ==
  LET high == u64_mul_u64(a.hi, w)
      low == u64_mul_u64(a.lo, w)
      hi == Wrap(high.lo + low.hi)
  IN  CASE a.hi = 0 -> low
        [] a.hi # 0 /\ high.hi # 0 -> UINT128_MAX
        [] a.hi # 0 /\ high.hi = 0 /\ hi < low.hi -> UINT128_MAX
        [] OTHER -> Pair(hi, low.lo)

(***************************************************************************)
(* Division. DivMod is a pair of quotient and remainder as the functions   *)
(* leave them in x and return them.                                        *)
(***************************************************************************)
DivMod(q, rem) == [x |-> q, r |-> rem]

(* Division by half a word, half a word at a time. *)
HalvesDivided(a, d) ==
  LET hi == ShiftLeft(U64_HI(a.hi) % d, WordBits \div 2) + U64_LO(a.hi)
      th == ShiftLeft(hi % d, WordBits \div 2) + U64_HI(a.lo)
      tl == ShiftLeft(th % d, WordBits \div 2) + U64_LO(a.lo)
  IN  DivMod(Pair(Wrap(ShiftLeft(U64_HI(a.hi) \div d, WordBits \div 2) + hi \div d),
                  Wrap(ShiftLeft(th \div d, WordBits \div 2) + tl \div d)),
             Pair(0, tl % d))

u128_idiv_u32(a, d) ==
  IF d = 1 THEN DivMod(a, UINT128_ZERO) ELSE HalvesDivided(a, d)

u128_idiv_10(a) == HalvesDivided(a, TEN)

(* A bug: the estimate is corrected once at most. *)
Estimate_OneCorrection(q, rhat, yn1, yn0, xn) ==
  IF q >= HALF \/ q * yn0 > rhat * HALF + xn THEN q - 1 ELSE q

(***************************************************************************)
(* The estimate q of half a word of a quotient, with the remainder rhat    *)
(* of its division by the upper half yn1 of the divisor, is decremented    *)
(* until it is not too large, or the remainder exceeds half a word.        *)
(***************************************************************************)
Estimate(q, rhat, yn1, yn0, xn) ==
  LET TooLarge(k) ==
        \/ q - k >= HALF
        \/ (q - k) * yn0 > (rhat + k * yn1) * HALF + xn
      Ends(k) == (k > 0 /\ rhat + k * yn1 >= HALF) \/ ~ TooLarge(k)
  IN  q - Min({k \in 0 .. q : Ends(k)})

u128_idiv_u64_special(a, d) ==
  LET n_bits == u64_n_leading_0_bits(d)
      dn == ShiftLeft(d, n_bits)
      yn1 == U64_HI(dn)
      yn0 == U64_LO(dn)
      xn32 == ShiftLeft(a.hi, n_bits) | (IF n_bits = 0 THEN 0 ELSE ShiftDown(a.lo, WordBits - n_bits))
      xn10 == ShiftLeft(a.lo, n_bits)
      q1 == Estimate(xn32 \div yn1, xn32 % yn1, yn1, yn0, U64_HI(xn10))
      t == Wrap((xn32 * HALF + U64_HI(xn10)) - q1 * dn)
      q0 == Estimate(t \div yn1, t % yn1, yn1, yn0, U64_LO(xn10))
  IN  DivMod(Pair(0, Wrap(q1 * HALF + q0)),
             Pair(0, ShiftDown(Wrap((t * HALF + U64_LO(xn10)) - q0 * dn), n_bits)))

u128_idiv_u64(a, d) ==
  LET rest == u128_idiv_u64_special(Pair(a.hi % d, a.lo), d)
  IN  CASE a.hi = 0 -> DivMod(Pair(0, a.lo \div d), Pair(0, a.lo % d))
        [] a.hi # 0 /\ U64_HI(d) = 0 -> u128_idiv_u32(a, U64_LO(d))
        [] a.hi # 0 /\ U64_HI(d) # 0 /\ a.hi < d -> u128_idiv_u64_special(a, d)
        [] OTHER -> DivMod(Pair(a.hi \div d, rest.x.lo), rest.r)

(***************************************************************************)
(* Division by more than a word. The quotient is estimated by the upper    *)
(* words, normalized, and decremented if its product with the divisor      *)
(* exceeds the dividend. The product may overflow (u128_imul_u64).         *)
(***************************************************************************)
EstimatedQuotient(a, b) ==
  LET n_left == u64_n_leading_0_bits(b.hi)
      n_right == WordBits - n_left
      yn1 == Wrap(ShiftLeft(b.hi, n_left) + ShiftDown(b.lo, n_right))
      xn1 == Wrap(ShiftLeft(a.hi, n_left) + ShiftDown(a.lo, n_right))
  IN  u128_idiv_u64_special(Pair(ShiftDown(a.hi, n_right), xn1), yn1).x.lo

u128_idiv_u128_special(a, b) ==
  LET q == EstimatedQuotient(a, b)
      t == u128_imul_u64(b, q)
  IN  IF u128_cmp(t, a) =< 0
        THEN DivMod(Pair(0, q), u128_sub_u128(a, t))
        ELSE DivMod(Pair(0, Wrap(q - 1)), u128_sub_u128(a, u128_sub_u128(t, b)))

u128_idiv_u128(a, b) ==
  CASE b.hi = 0 -> u128_idiv_u64(a, b.lo)
    [] b.hi # 0 /\ u128_cmp(a, b) = 0 -> DivMod(Pair(0, 1), UINT128_ZERO)
    [] b.hi # 0 /\ u128_cmp(a, b) < 0 -> DivMod(UINT128_ZERO, a)
    [] OTHER -> u128_idiv_u128_special(a, b)

(* n_bits is less than WordBits / 2: 1U << n_bits is half a word wide.     *)
u128_shift_right(a, n_bits) ==
  Pair(ShiftDown(a.hi, n_bits),
       Wrap(ShiftLeft(a.hi % 2^n_bits, WordBits - n_bits) + ShiftDown(a.lo, n_bits)))

(***************************************************************************)
(* Zeros are eliminated by divisions of both words as long as the high     *)
(* word is not 0, then by divisions of the low word.                       *)
(***************************************************************************)
DividedByTen(a) ==
  IF a.hi # 0 THEN u128_idiv_10(a) ELSE DivMod(Pair(0, a.lo \div TEN), Pair(0, a.lo % TEN))

u128_eliminate_trailing_zeros(a, n_max) ==
  LET stripped[n \in 0 .. n_max] ==
        IF n = 0 THEN a ELSE DividedByTen(stripped[n - 1]).x
      n == Min({k \in 0 .. n_max : k = n_max \/ DividedByTen(stripped[k]).r # UINT128_ZERO})
  IN  DivMod(stripped[n], Pair(0, n))

(***************************************************************************)
(* Division by the radix with its inverse, see Uint128Native.              *)
(***************************************************************************)
u128_idiv_radix_special(a) ==
  LET neg_n1 == Wrap(-(a.lo \div (U64 \div 2)))
      n_adj == Wrap(a.lo + (neg_n1 & RADIX))
      t == u128_iadd_u64(u128_imul_u64(Pair(0, Native!RadixInverse), Wrap(a.hi - neg_n1)), n_adj)
      q1_inv == Wrap(U64 - 1 - Wrap(a.hi + t.hi))
      dr == u128_iadd_u128(u64_mul_u64(q1_inv, RADIX), a)
      hi == Wrap(dr.hi - RADIX)
  IN  DivMod(Pair(0, Wrap(hi - q1_inv)), Pair(0, Wrap(dr.lo + (RADIX & hi))))

u128_idiv_radix(a) ==
  CASE a.hi = 0 /\ a.lo < RADIX -> DivMod(UINT128_ZERO, a)
    [] a.hi = 0 /\ a.lo >= RADIX -> DivMod(Pair(0, 1), Pair(0, a.lo - RADIX))
    [] OTHER -> u128_idiv_radix_special(a)

(***************************************************************************)
(* The calls, as in Uint128Native. Words and numbers of bits are operands  *)
(* with a high word of 0.                                                  *)
(***************************************************************************)
Takes(f, Operands) == fn' = f /\ y' \in Operands
Gives(a, s) == x' = a /\ r' = s
Low(w) == Pair(0, w)
Lows(Numbers) == {Low(w) : w \in Numbers}
None == {UINT128_ZERO}

NSignif == Takes("u128_n_signif_u32", None) /\ Gives(x, Low(u128_n_signif_u32(x)))
Compare == Takes("u128_cmp", Pairs) /\ Gives(x, Low(u128_cmp(x, y')))
AddWord == Takes("u128_iadd_u64", Lows(Words)) /\ Gives(u128_iadd_u64(x, y'.lo), UINT128_ZERO)
Increment == Takes("u128_incr", None) /\ Gives(u128_incr(x), UINT128_ZERO)
Add == Takes("u128_iadd_u128", Pairs) /\ Gives(u128_iadd_u128(x, y'), UINT128_ZERO)
SubtractWord == Takes("u128_isub_u64", Lows(Words)) /\ Gives(u128_isub_u64(x, y'.lo), UINT128_ZERO)
Decrement == Takes("u128_decr", None) /\ Gives(u128_decr(x), UINT128_ZERO)

(* Asserted: the subtrahend does not exceed x.                             *)
Subtract ==
  /\ Takes("u128_isub_u128", {b \in Pairs : u128_cmp(x, b) >= 0})
  /\ Gives(u128_sub_u128(x, y'), UINT128_ZERO)
Difference ==
  /\ Takes("u128_sub_u128", {b \in Pairs : u128_cmp(x, b) >= 0})
  /\ Gives(x, u128_sub_u128(x, y'))

MultiplyWords == Takes("u64_mul_u64", Lows(Words)) /\ Gives(x, u64_mul_u64(x.lo, y'.lo))
MultiplyByWord ==
  Takes("u128_imul_u64", Lows(Words)) /\ Gives(u128_imul_u64(x, y'.lo), UINT128_ZERO)
MultiplyByPower ==
  /\ Takes("u128_imul_10_pow_n", Lows(Native!Shifts))
  /\ Gives(u128_imul_u64(x, TEN^y'.lo), UINT128_ZERO)

Returns(division) == Gives(division.x, division.r)

DivideByHalfWord ==
  Takes("u128_idiv_u32", Lows(1 .. HALF - 1)) /\ Returns(u128_idiv_u32(x, y'.lo))
DivideSpecial ==
  /\ Takes("u128_idiv_u64_special", {d \in Lows(HALF .. U64 - 1) : x.hi < d.lo})
  /\ Returns(u128_idiv_u64_special(x, y'.lo))
DivideByWord ==
  Takes("u128_idiv_u64", Lows(Words \ {0})) /\ Returns(u128_idiv_u64(x, y'.lo))

(***************************************************************************)
(* The upper bit of a divisor is not set: with n_bits_left = 0 the shift   *)
(* by n_bits_right = 64 bits were undefined. The divisors of the callers   *)
(* (fpdec.c:1971, 2239) are shifted ints, scaled, of less than 127 bits.   *)
(***************************************************************************)
Divisors == {b \in Pairs : b # UINT128_ZERO /\ b.hi < U64 \div 2}
DivideBy128Special ==
  /\ Takes("u128_idiv_u128_special", {b \in Divisors : b.hi # 0 /\ u128_cmp(x, b) >= 0})
  /\ Returns(u128_idiv_u128_special(x, y'))
DivideBy128 == Takes("u128_idiv_u128", Divisors) /\ Returns(u128_idiv_u128(x, y'))
DivideByTen == Takes("u128_idiv_10", None) /\ Returns(u128_idiv_10(x))

ShiftRight ==
  /\ Takes("u128_shift_right", Lows(Native!ShiftBits))
  /\ Gives(x, u128_shift_right(x, y'.lo))

EliminateZeros ==
  /\ Takes("u128_eliminate_trailing_zeros", Lows(Native!Shifts))
  /\ Returns(u128_eliminate_trailing_zeros(x, y'.lo))

DivideByRadix ==
  x.hi < RADIX /\ Takes("u128_idiv_radix", None) /\ Returns(u128_idiv_radix(x))

Init == fn = "none" /\ x \in Pairs /\ y = UINT128_ZERO /\ r = UINT128_ZERO

Next ==
  /\ fn = "none"
  /\ \/ NSignif \/ Compare
     \/ AddWord \/ Increment \/ Add
     \/ SubtractWord \/ Decrement \/ Subtract \/ Difference
     \/ MultiplyWords \/ MultiplyByWord \/ MultiplyByPower
     \/ DivideByHalfWord \/ DivideSpecial \/ DivideByWord
     \/ DivideBy128Special \/ DivideBy128 \/ DivideByTen \/ DivideByRadix
     \/ ShiftRight \/ EliminateZeros

Spec == Init /\ [][Next]_vars

(***************************************************************************)
(* Where the two forms are known to differ.                                *)
(***************************************************************************)

(* The native form tests the high word only, and wraps around.             *)
LowCarryOverflows ==
  /\ x' = UINT128_MAX
  /\ \/ fn' = "u128_imul_u64" /\ Value(x) * y'.lo > Value(UINT128_MAX)
     \/ fn' = "u128_imul_10_pow_n" /\ Value(x) * TEN^y'.lo > Value(UINT128_MAX)

(* The two words of 0 are divisible n_max times, the native 0 never.       *)
ZeroIsStripped == fn' = "u128_eliminate_trailing_zeros" /\ x = UINT128_ZERO

(***************************************************************************)
(* The product of divisor and estimated quotient exceeds two words. Set to *)
(* the greatest number it is no longer the divisor above a good product,   *)
(* and the subtraction of the divisor does not give the right one.         *)
(***************************************************************************)
EstimateOverflows ==
  /\ fn' \in {"u128_idiv_u128", "u128_idiv_u128_special"}
  /\ y'.hi # 0 /\ u128_gt(x, y')
  /\ EstimatedQuotient(x, y') * Value(y') > Value(UINT128_MAX)

(***************************************************************************)
(* The program computes the same numbers with and without __int128: each   *)
(* call on two words is a call of the native form on their values, but for *)
(* the cases named above.                                                  *)
(***************************************************************************)
AgreesWithNative ==
  [][Native!Next \/ LowCarryOverflows \/ ZeroIsStripped \/ EstimateOverflows]_vars

(***************************************************************************)
(* The multiplication with the inverse of the radix divides by it: exact   *)
(* quotient and a remainder which is a digit, for all that fits a digit.   *)
(***************************************************************************)
RadixDivisionIsExact ==
  [][fn' = "u128_idiv_radix" =>
       /\ Value(x) = Value(x') * RADIX + Value(r')
       /\ Value(r') < RADIX]_vars

=============================================================================
