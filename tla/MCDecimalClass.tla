---------------------------- MODULE MCDecimalClass ----------------------------
(***************************************************************************)
(* Model checking of DecimalClass: three objects, so that a division with  *)
(* two results has an operand, and room for all temporary arrays of the    *)
(* longest call besides theirs.                                            *)
(***************************************************************************)
EXTENDS DecimalClass, TLC

Symmetry == Permutations(Objects)

=============================================================================
