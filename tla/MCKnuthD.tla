------------------------------- MODULE MCKnuthD -------------------------------
(***************************************************************************)
(* Model checking of KnuthD: base 10 in words of 16 values, so that the    *)
(* sum of two digits may wrap (16 < 9 + 9, as 2^64 < 2 * (10^19 - 1)).      *)
(***************************************************************************)
EXTENDS KnuthD

=============================================================================
