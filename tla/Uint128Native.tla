---------------------------- MODULE Uint128Native ----------------------------
(***************************************************************************)
(* The functions of uint128_math_native.h, on numbers below U64^2 = 2^128, *)
(* and the division by the radix (basemath.h) as it is compiled with them. *)
(*                                                                         *)
(* A behaviour is one call: x is the number changed in place, y the other  *)
(* operand, r what the function returns or stores in a result parameter.   *)
(***************************************************************************)
EXTENDS Integers, Bitwise

CONSTANTS
  U64,    (* Number of values of a 64-bit word (2^64).                     *)
  HALF,   (* Number of values of half a word (2^32).                       *)
  RADIX,  (* Base of a digit array (10^19).                                *)
  TEN     (* The base of decimal numbers, less than half a word.           *)

VARIABLES fn, x, y, r
vars == <<fn, x, y, r>>

U128 == U64 * U64
UINT128_MAX == U128 - 1
Words == 0 .. U64 - 1
Numbers == 0 .. U128 - 1

(* The exponents of the powers of TEN within a word. *)
Shifts == {n \in 0 .. U64 : n < U64 /\ TEN^n < U64}

(* u128_shift_right is called with 1 only (rounding_helper.h).             *)
ShiftBits == {1}

U128_HI(a) == a \div U64
U128_LO(a) == a % U64
U64_HI(w) == w \div HALF
U64_LO(w) == w % HALF

u128_n_signif_u32(a) ==
  IF U128_HI(a) # 0
    THEN (IF U64_HI(U128_HI(a)) # 0 THEN 4 ELSE 3)
    ELSE (IF U64_HI(U128_LO(a)) # 0 THEN 2 ELSE 1)

u128_cmp(a, b) == (IF a > b THEN 1 ELSE 0) - (IF a < b THEN 1 ELSE 0)

(* Overflow is signalled by the greatest number. *)
u128_imul_u64(a, w) ==
  IF U128_HI(U128_HI(a) * w) # 0 THEN UINT128_MAX ELSE (a * w) % U128

(***************************************************************************)
(* The number of times TEN divides a, at most n_max; none for 0.           *)
(***************************************************************************)
TrailingZeros(a, n_max) ==
  CHOOSE n \in 0 .. n_max :
    /\ a % TEN^n = 0
    /\ a = 0 => n = 0
    /\ n < n_max /\ a # 0 => a % TEN^(n + 1) # 0

(***************************************************************************)
(* u128_idiv_radix_special: the quotient is estimated by a multiplication  *)
(* with the inverse m of the radix and then corrected by one at most,      *)
(* without a branch: neg_n1 and hi are masks of zeros or ones.             *)
(***************************************************************************)
RadixInverse == (U64 * (U64 - RADIX) - 1) \div RADIX

u128_idiv_radix_special(a) ==
  LET neg_n1 == IF U128_LO(a) >= U64 \div 2 THEN U64 - 1 ELSE 0
      n_adj == (U128_LO(a) + (neg_n1 & RADIX)) % U64
      t == (u128_imul_u64(RadixInverse, (U128_HI(a) - neg_n1) % U64) + n_adj) % U128
      q1_inv == (U64 - 1) - ((U128_HI(a) + U128_HI(t)) % U64)
      dr == (q1_inv * RADIX + a) % U128
      hi == (U128_HI(dr) - RADIX) % U64
  IN  [x |-> (hi - q1_inv) % U64, r |-> (U128_LO(dr) + (RADIX & hi)) % U64]

u128_idiv_radix(a) ==
  IF U128_HI(a) # 0
    THEN u128_idiv_radix_special(a)
    ELSE [x |-> IF a < RADIX THEN 0 ELSE 1, r |-> IF a < RADIX THEN a ELSE a - RADIX]

(***************************************************************************)
(* A call takes a function and its other operand, and gives the number     *)
(* left in x and what is returned.                                         *)
(***************************************************************************)
Takes(f, Operands) == fn' = f /\ y' \in Operands
Gives(a, s) == x' = a /\ r' = s

NSignif == Takes("u128_n_signif_u32", {0}) /\ Gives(x, u128_n_signif_u32(x))
Compare == Takes("u128_cmp", Numbers) /\ Gives(x, u128_cmp(x, y'))
AddWord == Takes("u128_iadd_u64", Words) /\ Gives((x + y') % U128, 0)
Increment == Takes("u128_incr", {0}) /\ Gives((x + 1) % U128, 0)
Add == Takes("u128_iadd_u128", Numbers) /\ Gives((x + y') % U128, 0)
SubtractWord == Takes("u128_isub_u64", Words) /\ Gives((x - y') % U128, 0)
Decrement == Takes("u128_decr", {0}) /\ Gives((x - 1) % U128, 0)
Subtract == Takes("u128_isub_u128", Numbers) /\ Gives((x - y') % U128, 0)
Difference == Takes("u128_sub_u128", Numbers) /\ Gives(x, (x - y') % U128)

(* u64_mul_u64 has two words as operands: the low word of x and y.         *)
MultiplyWords == Takes("u64_mul_u64", Words) /\ Gives(x, U128_LO(x) * y')
MultiplyByWord == Takes("u128_imul_u64", Words) /\ Gives(u128_imul_u64(x, y'), 0)
MultiplyByPower == Takes("u128_imul_10_pow_n", Shifts) /\ Gives(u128_imul_u64(x, TEN^y'), 0)

(* All divisions are the same; what they assert of their operands differs. *)
Divide(f, Divisors) == Takes(f, Divisors) /\ Gives(x \div y', x - (x \div y') * y')
DivideByHalfWord == Divide("u128_idiv_u32", 1 .. HALF - 1)
DivideSpecial ==
  Divide("u128_idiv_u64_special", {d \in HALF .. U64 - 1 : U128_HI(x) < d})
DivideByWord == Divide("u128_idiv_u64", Words \ {0})
DivideBy128Special == Divide("u128_idiv_u128_special", U64 .. x)
DivideBy128 == Divide("u128_idiv_u128", Numbers \ {0})
DivideByTen == Takes("u128_idiv_10", {0}) /\ Gives(x \div TEN, x - (x \div TEN) * TEN)

ShiftRight == Takes("u128_shift_right", ShiftBits) /\ Gives(x, x \div 2^y')

EliminateZeros ==
  /\ Takes("u128_eliminate_trailing_zeros", Shifts)
  /\ Gives(x \div TEN^TrailingZeros(x, y'), TrailingZeros(x, y'))

(* The callers divide products of digits and shifted ints: x is less than  *)
(* RADIX words, the quotient a word.                                       *)
DivideByRadix ==
  /\ U128_HI(x) < RADIX
  /\ Takes("u128_idiv_radix", {0})
  /\ Gives(u128_idiv_radix(x).x, u128_idiv_radix(x).r)

Init == fn = "none" /\ x \in Numbers /\ y = 0 /\ r = 0

Next ==
  /\ fn = "none"
  /\ \/ NSignif \/ Compare
     \/ AddWord \/ Increment \/ Add
     \/ SubtractWord \/ Decrement \/ Subtract \/ Difference
     \/ MultiplyWords \/ MultiplyByWord \/ MultiplyByPower
     \/ DivideByHalfWord \/ DivideSpecial \/ DivideByWord
     \/ DivideBy128Special \/ DivideBy128 \/ DivideByTen \/ DivideByRadix
     \/ ShiftRight \/ EliminateZeros

Spec == Init /\ [][Next]_vars

=============================================================================
