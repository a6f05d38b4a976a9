--------------------------- MODULE MCFpdecDivision ---------------------------
(***************************************************************************)
(* Model checking of FpdecDivision, in base 1000 and words of 10 bits.     *)
(***************************************************************************)
EXTENDS FpdecDivision

MCCalls == {"from_ascii_literal", "from_sign_digits_exp", "div", "divmod", "quantized", "quantize"}

MCLiterals ==
  {Literal(FALSE, 1, 1, 0),
   Literal(FALSE, 3, 1, 0),
   Literal(TRUE, 8, 1, 0),
   Literal(FALSE, 5, 2, -1),         (* 0.5                                *)
   Literal(TRUE, 7, 2, -1),          (* -0.7                               *)
   Literal(FALSE, 11000, 5, 0),      (* times 100 wraps in 20 bits         *)
   Literal(FALSE, 65534, 5, 0),
   Literal(FALSE, 2003, 4, -3),      (* 2.003: two digits                  *)
   Literal(FALSE, 700, 3, -2),       (* 7.00: one digit, precision 2       *)
   Literal(TRUE, 1, 3, -2),          (* -0.01                              *)
   Literal(FALSE, 25, 2, 4),         (* 250000: one digit                  *)
   Literal(FALSE, 1, 1, 3),          (* 1000: one digit, to be shifted     *)
   Literal(TRUE, 999999, 6, 0),      (* two digits, both the greatest      *)
   Literal(FALSE, 5, 1, 7),          (* 5e7                                *)
   Literal(FALSE, 0, 1, 0)}

MCDigitValues == {<< -1, 500, 1 >>, << 1, 1001, 0 >>}

MCPrecisions == -1 .. 5

=============================================================================
