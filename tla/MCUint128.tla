----------------------------- MODULE MCUint128 -----------------------------
(***************************************************************************)
(* Words of four bits, halves of two: every number of two words and every  *)
(* operand of every function.                                              *)
(***************************************************************************)
EXTENDS Uint128

=============================================================================
