----------------------------- MODULE FpdecCommon -----------------------------
(***************************************************************************)
(* Constants, macros and elementary conversions shared by all modules:     *)
(* common.h, uint64_math.h, shifted_int.h and digit_array.h.               *)
(*                                                                         *)
(* The machine words are parameters, so that TLC can use small ones; the   *)
(* assumptions keep the relations between them which the code relies on.   *)
(***************************************************************************)
EXTENDS Integers

(* b^n, by its recursion, which the proofs need. *)
Power(b, n) == LET power[k \in 0 .. n] == IF k = 0 THEN 1 ELSE b * power[k - 1] IN power[n]

CONSTANTS
  DEC_DIGITS_PER_DIGIT,  (* Decimal digits held by one array digit (19).   *)
  RADIX,                 (* Base of a digit array (10^19).                 *)
  U64                    (* Number of values of a 64-bit word (2^64).      *)

(***************************************************************************)
(* A digit fits a word, the sum of two digits need not: 2^64 lies between  *)
(* RADIX and 2 * RADIX. (Were it equal to RADIX, the comparisons that find *)
(* a carry in a wrapped sum would miss the one of RADIX - 1 and a carry.)  *)
(***************************************************************************)
ASSUME RadixAssumption ==
  /\ DEC_DIGITS_PER_DIGIT \in Nat \ {0}
  /\ RADIX \in Nat
  /\ RADIX = Power(10, DEC_DIGITS_PER_DIGIT)

ASSUME WordAssumption ==
  /\ U64 \in Nat
  /\ RADIX < U64
  /\ U64 < 2 * RADIX
  /\ U64 % 2 = 0

MAX_DIGIT == RADIX - 1

UINT64_10_POW_N_CUTOFF == DEC_DIGITS_PER_DIGIT

(* The macros ABS, MAX, MIN and CMP. *)
ABS(a) == IF a >= 0 THEN a ELSE -a
MAX(a, b) == IF a >= b THEN a ELSE b
MIN(a, b) == IF a =< b THEN a ELSE b
CMP(a, b) == IF a > b THEN 1 ELSE IF a < b THEN -1 ELSE 0

(***************************************************************************)
(* CEIL, FLOOR and MOD correct C's truncating division, TLA+ rounds        *)
(* towards minus infinity. Quotient is the plain C operator / .            *)
(***************************************************************************)
FLOOR(a, b) == a \div b
CEIL(a, b) == -((-a) \div b)
MOD(a, b) == a % b
Quotient(a, b) == IF a >= 0 THEN a \div b ELSE -((-a) \div b)

(* The table U64_10_pows. *)
u64_10_pow_n(n) == Power(10, n)

=============================================================================
