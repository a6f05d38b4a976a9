---------------------------- MODULE MCFpdecAdjust ----------------------------
(***************************************************************************)
(* Model checking of Fpdec: precision and rounding, also of results of     *)
(* earlier adjustments, in base 1000 and words of 10 bits.                 *)
(***************************************************************************)
EXTENDS Fpdec

MCCalls == {"from_ascii_literal", "copy", "adjusted", "adjust", "normalize_prec",
            "set_default_rounding_mode"}

MCLiterals ==
  {Literal(FALSE, 25, 2, -1),        (* ties and neighbours of ties        *)
   Literal(TRUE, 35, 2, -1),
   Literal(FALSE, 65499, 5, 0),
   Literal(FALSE, 65500, 5, -1),
   Literal(TRUE, 65535, 5, 0),       (* beyond shifted ints when rounded   *)
   Literal(FALSE, 500500, 6, -4),    (* 50.0500: trailing zeros in digits  *)
   Literal(TRUE, 999999, 6, -3),     (* -999.999: carry out of all digits  *)
   Literal(FALSE, 9995, 4, -5),      (* 0.09995                            *)
   Literal(FALSE, 1, 7, -6),         (* 0.000001                           *)
   Literal(FALSE, 12345005, 8, -6),  (* 12.345005                          *)
   Literal(TRUE, 5, 1, 7),           (* -5e7: exponent above 0             *)
   Literal(FALSE, 0, 2, -1)}

MCModes == RoundingModes \cup {ROUND_DEFAULT}

MCPrecisions == -8 .. 8

=============================================================================
