--------------------------- MODULE DigitArithmetic ---------------------------
(***************************************************************************)
(* What a call of a digit array function promises its caller, as one step: *)
(* the abstract counterpart of the loops in module DigitArray. An array z  *)
(* is what its caller sees of it: the count and the digits it covers.      *)
(***************************************************************************)
EXTENDS DigitOps

VARIABLES fn, x, y, arg, z, ret, status

vars == << fn, x, y, arg, z, ret, status >>

Value(a) == ValueOf(a.digits, a.n_signif)

(* The array stands for v in n significant digits. *)
Holds(a, v, n) == a.n_signif = n /\ Value(a) = v

(* What each function leaves in its result array r, and the value returned. *)
Added(r, returned) ==
  /\ Holds(r, Sum(Value(x), x.n_signif, Value(y), y.n_signif),
              SumCount(Value(x), x.n_signif, Value(y), y.n_signif))
  /\ returned = 0

Subtracted(r, returned) ==
  /\ Holds(r, Value(x) - Value(y), DifferenceCount(Value(x), x.n_signif, Value(y)))
  /\ returned = 0

Incremented(r, returned) ==
  /\ Holds(r, Increment(Value(x), x.n_signif, arg), x.n_signif)
  /\ returned = IF IncrementCarry(Value(x), x.n_signif, arg) THEN 1 ELSE 0

MultipliedByDigit(r, returned) ==
  /\ Holds(r, Value(x) * arg, ProductCount(Value(x), x.n_signif, arg))
  /\ returned = 0

Multiplied(r, returned) ==
  Holds(r, Value(x) * Value(y), x.n_signif + y.n_signif) /\ returned = 0

DividedByDigit(r, returned) ==
  Holds(r, Value(x) \div arg, x.n_signif) /\ returned = Value(x) % arg

RoundedTo(r, returned) ==
  LET v == Value(x)
      carry == RoundCarry(v, x.n_signif, arg.sign, arg.shift, arg.mode)
  IN  /\ Holds(r, IF carry THEN 0 ELSE RoundedDigits(v, arg.sign, arg.shift, arg.mode),
               x.n_signif)
      /\ returned = IF carry THEN 1 ELSE 0

Compared(r, returned) ==
  r = x /\ returned = CmpAligned(Value(x), x.n_signif, Value(y), y.n_signif)

Trimmed(r, returned) ==
  LET k == TrailingZeroDigits(Value(x), x.n_signif)
  IN  Holds(r, Value(x) \div Weight(k), x.n_signif - k) /\ returned = k

Result(r, returned) ==
  \/ fn = "iadd_digits" /\ Added(r, returned)
  \/ fn = "isub_digits" /\ Subtracted(r, returned)
  \/ fn = "iadd_digit" /\ Incremented(r, returned)
  \/ fn = "imul_digit" /\ MultipliedByDigit(r, returned)
  \/ fn = "mul" /\ Multiplied(r, returned)
  \/ fn = "div_digit" /\ DividedByDigit(r, returned)
  \/ fn = "round" /\ RoundedTo(r, returned)
  \/ fn = "cmp" /\ Compared(r, returned)
  \/ fn = "eliminate_trailing_zeros" /\ Trimmed(r, returned)

Init == status = "called" /\ z = x /\ ret = 0

Return ==
  /\ status = "called"
  /\ status' = "returned"
  /\ UNCHANGED << fn, x, y, arg >>
  /\ Result(z', ret')

Spec == Init /\ [][Return]_vars

=============================================================================
