------------------------------- MODULE Rounding -------------------------------
(***************************************************************************)
(* rounding.c and rounding_helper.h: the decision whether a truncated      *)
(* quotient is to be incremented, and the rounding to a multiple.          *)
(*                                                                         *)
(* Quotients and remainders are absolute values, sign is the sign of the   *)
(* number they belong to, delta says that more non-zero digits follow the  *)
(* remainder.                                                              *)
(***************************************************************************)
EXTENDS FpdecCommon

ROUND_DEFAULT == "DEFAULT"

(* The values of enum FPDEC_ROUNDING_MODE other than FPDEC_ROUND_DEFAULT. *)
RoundingModes ==
  {"05UP", "CEILING", "DOWN", "FLOOR", "HALF_DOWN", "HALF_EVEN", "HALF_UP", "UP"}

(* What both rounding functions do first; dflt is dflt_rounding_mode. *)
Resolved(rounding, dflt) == IF rounding = ROUND_DEFAULT THEN dflt ELSE rounding

-----------------------------------------------------------------------------
(***************************************************************************)
(* round_qr. A divisor of 0 stands for 2^64.                               *)
(***************************************************************************)
RoundsUp(sign, quot, rem, delta, divisor, mode) ==
  LET tie == (IF divisor > 0 THEN divisor ELSE U64) \div 2
  IN  \/ mode = "05UP" /\ quot % 5 = 0
      \/ mode = "CEILING" /\ sign >= 0
      \/ mode = "FLOOR" /\ sign < 0
      \/ mode = "HALF_DOWN" /\ (rem > tie \/ (rem = tie /\ delta))
      \/ mode = "HALF_EVEN" /\ (rem > tie \/ (rem = tie /\ (delta \/ quot % 2 # 0)))
      \/ mode = "HALF_UP" /\ rem >= tie
      \/ mode = "UP"

round_qr(sign, quot, rem, delta, divisor, mode) ==
  IF RoundsUp(sign, quot, rem, delta, divisor, mode) THEN 1 ELSE 0

(* round_to_multiple: num rounded to a multiple of quant. *)
round_to_multiple(sign, num, delta, quant, mode) ==
  LET rem == num % quant
  IN  IF rem = 0 /\ ~delta
      THEN num
      ELSE num - rem + quant * round_qr(sign, num \div quant, rem, delta, quant, mode)

(***************************************************************************)
(* round_u128: the same decision for 128-bit operands and any divisor. The *)
(* last digit and the parity of the quotient are taken from its low word.  *)
(***************************************************************************)
round_u128(sign, quot, rem, divisor, mode) ==
  LET tie == divisor \div 2
      lo == quot % U64
      even_divisor == divisor % 2 = 0
  IN  \/ mode = "05UP" /\ lo % 5 = 0
      \/ mode = "CEILING" /\ sign >= 0
      \/ mode = "FLOOR" /\ sign < 0
      \/ mode = "HALF_DOWN" /\ rem > tie
      \/ mode = "HALF_EVEN" /\ (rem > tie \/ (rem = tie /\ even_divisor /\ lo % 2 # 0))
      \/ mode = "HALF_UP" /\ (rem > tie \/ (rem = tie /\ even_divisor))
      \/ mode = "UP"

-----------------------------------------------------------------------------
(***************************************************************************)
(* What enum FPDEC_ROUNDING_MODE promises (the comments in rounding.h):    *)
(* num / quant rounded to an integer. num and quant are exact, so the part *)
(* cut off compares with one half as 2 * (num % quant) with quant.         *)
(***************************************************************************)
AwayFromZero(sign, num, quant, mode) ==
  LET quot == num \div quant
      twice == 2 * (num % quant)
  IN  /\ num % quant # 0
      /\ \/ mode = "UP"
         \/ mode = "CEILING" /\ sign >= 0
         \/ mode = "FLOOR" /\ sign < 0
         \/ mode = "05UP" /\ quot % 10 \in {0, 5}
         \/ mode \in {"HALF_DOWN", "HALF_EVEN", "HALF_UP"} /\ twice > quant
         \/ mode = "HALF_UP" /\ twice = quant
         \/ mode = "HALF_EVEN" /\ twice = quant /\ quot % 2 = 1

Rounded(sign, num, quant, mode) ==
  num \div quant + (IF AwayFromZero(sign, num, quant, mode) THEN 1 ELSE 0)

=============================================================================
