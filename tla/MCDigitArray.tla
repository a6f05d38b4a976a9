----------------------------- MODULE MCDigitArray -----------------------------
(***************************************************************************)
(* Model checking of DigitArray: base 100 in 7-bit words. The digits are   *)
(* the ones that carry, borrow and tie: 0, 1, one half of the radix and    *)
(* the greatest digit.                                                     *)
(***************************************************************************)
EXTENDS DigitArray

=============================================================================
