----------------------------- MODULE MCFpdecArith -----------------------------
(***************************************************************************)
(* Model checking of Fpdec: comparison and arithmetic, also on results of  *)
(* earlier calls, in base 1000 and words of 10 bits. 65535 is the greatest *)
(* shifted int.                                                            *)
(***************************************************************************)
EXTENDS Fpdec

MCCalls == {"from_ascii_literal", "from_long_long", "from_sign_digits_exp",
            "neg", "add", "sub", "mul"}

MCLiterals ==
  {Literal(FALSE, 65535, 5, 0),
   Literal(FALSE, 65535, 5, -1),     (* 6553.5 and ...                     *)
   Literal(FALSE, 655351, 6, -2),    (* 6553.51: same magnitude, digits    *)
   Literal(TRUE, 5, 2, -1),          (* -0.5                               *)
   Literal(FALSE, 1, 3, -2),         (* 0.01: digits                       *)
   Literal(FALSE, 100, 3, -2),       (* 1.00: digits, equal to 1           *)
   Literal(FALSE, 5, 7, -6),         (* 0.000005: dec_prec of squares wraps*)
   Literal(TRUE, 999999, 6, 0),      (* -999999: digits                    *)
   Literal(FALSE, 1, 1, 5),          (* 1e5: beyond shifted ints           *)
   Literal(FALSE, 0, 6, -5),         (* 0.00000                            *)
   Literal(FALSE, 6554, 4, 0),       (* minus 0.4: 2^16 in units of 0.1    *)
   Literal(FALSE, 4, 2, -1),
   Literal(FALSE, 1, 1, -8),         (* limits of precision and exponent   *)
   Literal(FALSE, 1000, 4, 93),      (* its zeros make the exponent wrap   *)
   Literal(FALSE, 1, 1, 94)}

(* 33 * 32767 wraps in 20 bits. *)
MCLongLongs == {-1, 1, 33, 32767}

MCDigitValues ==
  {<< 1, 999000999, 0 >>,   (* 1000 added to it loses the top carry        *)
   << -1, 999, 0 >>,        (* becomes a shifted int                       *)
   << 1, 1000, 0 >>,        (* its zero digit goes into the exponent       *)
   << 1, 0, 0 >>,            (* keeps its sign                             *)
   << 1, 2, -2 >>,
   << 1, 2, -3 >>,           (* 9 places are more than dec_prec can hold   *)
   << 1, 500, 20 >>,        (* times the next one: the exponent wraps      *)
   << 1, 2, 11 >>,
   << 1, 2, 30 >>}          (* exponents beyond the limit                  *)

=============================================================================
