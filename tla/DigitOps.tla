------------------------------- MODULE DigitOps -------------------------------
(***************************************************************************)
(* What the functions of digit_array.c compute, on the numbers their digit *)
(* arrays stand for. Digit arrays are little endian; a number v < RADIX^n  *)
(* with a count n of significant digits stands for an array. The module    *)
(* DigitArray has the loops over the digits and is shown to implement      *)
(* these results; the module Fpdec builds the arithmetic on them.          *)
(***************************************************************************)
EXTENDS Rounding

(* digits_alloc: zeroed memory for n digits. *)
digits_alloc(n) == [n_alloc |-> n, n_signif |-> n, digits |-> [k \in 0 .. n - 1 |-> 0]]

(* digits_copy(src, n_shift, n_add_leading_zeros). *)
digits_copy(src, n_shift, n_add) ==
  LET n == src.n_signif + n_shift
  IN  [n_alloc  |-> n + n_add,
       n_signif |-> n,
       digits   |-> [k \in 0 .. n + n_add - 1 |->
                       IF k \in n_shift .. n - 1 THEN src.digits[k - n_shift] ELSE 0]]

SetDigit(a, k, d) == [a EXCEPT !.digits[k] = d]

NonZeroTop(a) == a.digits[a.n_signif - 1] # 0

(* What a digit at index k counts. *)
Weight(k) == Power(RADIX, k)

(* The number held by the n least significant digits of an array. *)
ValueOf(digits, n) ==
  LET low[k \in 0 .. n] ==
        IF k = 0 THEN 0 ELSE low[k - 1] + digits[k - 1] * Weight(k - 1)
  IN  low[n]

DigitAt(v, k) == (v \div Weight(k)) % RADIX

(* n_trailing_zeros of digits_eliminate_trailing_zeros: all n digits of 0. *)
TrailingZeroDigits(v, n) ==
  CHOOSE k \in 0 .. n :
    /\ \A m \in 0 .. k - 1 : DigitAt(v, m) = 0
    /\ k < n => DigitAt(v, k) # 0

-----------------------------------------------------------------------------
(***************************************************************************)
(* digits_iadd_digits: x += y for arrays of x_n and y_n digits. The count  *)
(* grows by the digit a carry leaves behind only if the digit at x's old   *)
(* count (total_carry_over_digit) is not zero afterwards.                  *)
(***************************************************************************)
SumCount(x, x_n, y, y_n) ==
  LET n == MAX(x_n, y_n)
      sum == x + y
  IN  IF sum >= Weight(n) /\ DigitAt(sum, x_n) # 0 THEN n + 1 ELSE n

(* The digits of the sum which the count covers. *)
Sum(x, x_n, y, y_n) ==
  LET n == MAX(x_n, y_n)
      sum == x + y
  IN  IF sum >= Weight(n) /\ SumCount(x, x_n, y, y_n) = n THEN sum - Weight(n) ELSE sum

(***************************************************************************)
(* digits_isub_digits: x -= y for x >= y; one leading zero is dropped.     *)
(***************************************************************************)
DifferenceCount(x, x_n, y) == IF x - y < Weight(x_n - 1) THEN x_n - 1 ELSE x_n

(***************************************************************************)
(* digits_iadd_digit: x += y for an array all n digits of which count. A   *)
(* carry out of the array is reported, and the digits go on without it.    *)
(***************************************************************************)
Increment(x, n, y) == IF x + y >= Weight(n) THEN x + y - Weight(n) ELSE x + y

IncrementCarry(x, n, y) == x + y >= Weight(n)

(* digits_imul_digit: the count after x *= m. *)
ProductCount(x, x_n, m) == IF x * m >= Weight(x_n) THEN x_n + 1 ELSE x_n

(***************************************************************************)
(* digits_round: the number rounded to a multiple of 10^n_dec_shift, and   *)
(* whether a carry left the n significant digits (all of them are 0 then). *)
(***************************************************************************)
RoundedDigits(v, sign, n_dec_shift, mode) ==
  LET quant == u64_10_pow_n(n_dec_shift) IN quant * Rounded(sign, v, quant, mode)

RoundCarry(v, n, sign, n_dec_shift, mode) ==
  RoundedDigits(v, sign, n_dec_shift, mode) >= Weight(n)

(***************************************************************************)
(* digits_cmp: arrays aligned at their most significant digits; of two     *)
(* arrays one of which starts with the other the longer one is greater.    *)
(***************************************************************************)
CmpAligned(x, x_n, y, y_n) ==
  LET n == MIN(x_n, y_n)
      x_lead == x \div Weight(x_n - n)
      y_lead == y \div Weight(y_n - n)
  IN  IF x_lead # y_lead THEN CMP(x_lead, y_lead) ELSE CMP(x_n, y_n)

=============================================================================
