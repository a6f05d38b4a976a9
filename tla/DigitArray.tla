------------------------------ MODULE DigitArray ------------------------------
(***************************************************************************)
(* digit_array.c: the loops over the digits of digit arrays, one action    *)
(* per iteration. A behaviour is one call: fn is the function called, x, y *)
(* and arg are its operands (never written), z is the array it writes. In  *)
(* place operations start with z = x.                                      *)
(*                                                                         *)
(* Words are 64 bits wide: sums and differences of digits are taken modulo *)
(* U64, and the code infers carry and borrow from the wrapped result.      *)
(***************************************************************************)
EXTENDS DigitOps

CONSTANTS
  Digits,    (* Digits operands are made of. Bounds the model.             *)
  MaxLen     (* Maximum number of significant digits of an operand.        *)

ASSUME DigitsAssumption == Digits \subseteq 0 .. MAX_DIGIT
ASSUME MaxLenAssumption == MaxLen \in Nat

VARIABLES
  fn,      (* The function called.                                         *)
  x, y,    (* Operands: [n_alloc, n_signif, digits].                       *)
  arg,     (* Scalar operand: digit, or [shift, sign, mode] for a rounding.*)
  z,       (* The array written.                                           *)
  i, j,    (* Digit indices.                                               *)
  carry,   (* Carry, borrow or remainder passed from digit to digit.       *)
  pc,      (* loop, carry (propagation), done.                             *)
  ret      (* Value returned besides z.                                    *)

operands == << fn, x, y, arg >>
vars == << fn, x, y, arg, z, i, j, carry, pc, ret >>

Functions == {"iadd_digits", "isub_digits", "iadd_digit", "imul_digit", "mul",
              "div_digit", "round", "cmp", "eliminate_trailing_zeros"}

-----------------------------------------------------------------------------
Arrays(n) == {[n_alloc |-> n, n_signif |-> n, digits |-> d] : d \in [0 .. n - 1 -> Digits]}

NonZeroLow(a) == a.digits[0] # 0

Value(a) == ValueOf(a.digits, a.n_signif)

NoArray == digits_alloc(0)

(***************************************************************************)
(* Calls. Operands are what the callers in fpdec.c and digit_array.c pass: *)
(* results of digits_copy, normalised unless a caller shifted them.        *)
(***************************************************************************)
Lengths == 1 .. MaxLen

Operands == {a \in UNION {Arrays(n) : n \in Lengths} : NonZeroTop(a)}

Call(f, a, b, m, result) ==
  /\ fn = f
  /\ x = a
  /\ y = b
  /\ arg = m
  /\ z = result
  /\ j = 0
  /\ carry = 0
  /\ ret = 0
  /\ pc = "loop"

(* Mutant of CallAdd: no provision for a carry (n_add_zeros = 0). *)
CallAdd_NoProvision ==
  \E a, b \in Operands :
    /\ a.n_signif >= b.n_signif
    /\ LET c == digits_copy(a, 0, 0) IN Call("iadd_digits", c, b, 0, c)
    /\ i = 0

(* fpdec_add_abs_dyn_to_dyn: only a shifted x can be shorter than y. *)
CallAdd ==
  \E a, b \in Operands :
    /\ a.n_signif >= b.n_signif \/ ~NonZeroLow(a)
    /\ LET c == digits_copy(a, 0, MAX(b.n_signif - a.n_signif + 1, 1))
       IN  Call("iadd_digits", c, b, 0,
                [c EXCEPT !.n_signif = MAX(a.n_signif, b.n_signif)])
    /\ i = 0

(* Digit k, 0 above the significant digits. *)
DigitOf(a, k) == IF k < a.n_signif THEN a.digits[k] ELSE 0

(* a and b differ first, seen from the top, at digit p, where a is greater. *)
ExceedsAt(a, b, p) ==
  /\ a.digits[p] > DigitOf(b, p)
  /\ \A k \in p + 1 .. a.n_signif - 1 : a.digits[k] = DigitOf(b, k)

(* fpdec_sub_abs_dyn_from_dyn: fpdec_compare has found |x| > |y|. *)
CallSub ==
  \E a, b \in Operands :
    /\ a.n_signif >= b.n_signif
    /\ \E p \in 0 .. a.n_signif - 1 : ExceedsAt(a, b, p)
    /\ Call("isub_digits", a, b, 0, a)
    /\ i = 0

(***************************************************************************)
(* fpdec_divmod_abs_dyn_by_dyn: a quotient with a remainder is incremented,*)
(* whatever its digits are. It may begin with zeros, and digits_divmod     *)
(* allocates no digit for a carry.                                         *)
(***************************************************************************)
CallIncrement ==
  \E a \in UNION {Arrays(n) : n \in Lengths} :
    /\ Call("iadd_digit", a, NoArray, 1, a)
    /\ i = 0

(***************************************************************************)
(* digits_divmod scales copies with a leading zero, fpdec_dyn_formatted    *)
(* multiplies without spare room if the top digit is small enough.         *)
(***************************************************************************)
CallMulDigit ==
  \E a \in Operands, m \in Digits, room \in 0 .. 1 :
    /\ room = 0 => a.digits[a.n_signif - 1] * m =< MAX_DIGIT - (m - 1)
    /\ m > 0
    /\ LET c == digits_copy(a, 0, room) IN Call("imul_digit", c, NoArray, m, c)
    /\ i = 0

CallMul ==
  \E a, b \in Operands :
    /\ a.n_signif + b.n_signif =< MaxLen + 1
    /\ Call("mul", a, b, 0, digits_alloc(a.n_signif + b.n_signif))
    /\ i = 0

CallDivDigit ==
  \E a \in Operands, d \in Digits \ {0}, n_shift \in 0 .. 1 :
    /\ a.n_signif + n_shift =< MaxLen
    /\ LET c == digits_copy(a, n_shift, 0)
       IN  /\ Call("div_digit", c, NoArray, d, digits_alloc(c.n_signif))
           /\ i = c.n_signif - 1

(* fpdec_dyn_adjust_to_prec rounds normalised digits. *)
CallRound ==
  \E a \in Operands, sign \in {-1, 1}, mode \in RoundingModes :
    \E shift \in 1 .. a.n_signif * DEC_DIGITS_PER_DIGIT :
      /\ NonZeroLow(a)
      /\ Call("round", a, NoArray, [shift |-> shift, sign |-> sign, mode |-> mode], a)
      /\ i = 0

CallCmp ==
  \E a, b \in Operands :
    /\ NonZeroLow(a) /\ NonZeroLow(b)
    /\ Call("cmp", a, b, 0, a)
    /\ i = a.n_signif - 1

CallEliminate ==
  \E a \in Operands :
    /\ Call("eliminate_trailing_zeros", a, NoArray, 0, a)
    /\ i = 0

Init ==
  \/ CallAdd \/ CallSub \/ CallIncrement
  \/ CallMulDigit \/ CallMul \/ CallDivDigit
  \/ CallRound \/ CallCmp \/ CallEliminate

-----------------------------------------------------------------------------
(***************************************************************************)
(* digits_iadd_digits.                                                     *)
(***************************************************************************)
(* Mutants of AddDigit: a carry is only seen in one of its two guises. *)
AddDigit_WrapOnly ==
  /\ fn = "iadd_digits" /\ pc = "loop"
  /\ i < y.n_signif
  /\ LET sum == (z.digits[i] + y.digits[i] + carry) % U64
         c == IF sum < y.digits[i] THEN 1 ELSE 0
     IN  z' = SetDigit(z, i, (sum - c * RADIX) % U64) /\ carry' = c
  /\ i' = i + 1
  /\ UNCHANGED << operands, j, pc, ret >>

AddDigit_RadixOnly ==
  /\ fn = "iadd_digits" /\ pc = "loop"
  /\ i < y.n_signif
  /\ LET sum == (z.digits[i] + y.digits[i] + carry) % U64
         c == IF sum >= RADIX THEN 1 ELSE 0
     IN  z' = SetDigit(z, i, (sum - c * RADIX) % U64) /\ carry' = c
  /\ i' = i + 1
  /\ UNCHANGED << operands, j, pc, ret >>

AddDigit ==
  /\ fn = "iadd_digits" /\ pc = "loop"
  /\ i < y.n_signif
  /\ LET sum == (z.digits[i] + y.digits[i] + carry) % U64
         c == IF sum < y.digits[i] \/ sum >= RADIX THEN 1 ELSE 0
     IN  /\ z' = SetDigit(z, i, (sum - c * RADIX) % U64)
         /\ carry' = c
  /\ i' = i + 1
  /\ UNCHANGED << operands, j, pc, ret >>

AddEnd ==
  /\ fn = "iadd_digits" /\ pc = "loop"
  /\ i = y.n_signif
  /\ pc' = IF carry = 0 THEN "done" ELSE "carry"
  /\ UNCHANGED << operands, z, i, j, carry, ret >>

(* Propagation of the carry over maximal digits ... *)
AddRipple ==
  /\ fn = "iadd_digits" /\ pc = "carry"
  /\ z.digits[i] = MAX_DIGIT
  /\ z' = SetDigit(z, i, 0)
  /\ i' = i + 1
  /\ UNCHANGED << operands, j, carry, pc, ret >>

(* ... to the first other one; total_carry_over_digit is at x.n_signif. *)
AddSettle ==
  /\ fn = "iadd_digits" /\ pc = "carry"
  /\ z.digits[i] # MAX_DIGIT
  /\ LET s == SetDigit(z, i, z.digits[i] + 1)
     IN  z' = IF s.digits[x.n_signif] # 0 THEN [s EXCEPT !.n_signif = @ + 1] ELSE s
  /\ carry' = 0
  /\ pc' = "done"
  /\ UNCHANGED << operands, i, j, ret >>

(***************************************************************************)
(* digits_isub_digits.                                                     *)
(***************************************************************************)
SubDigit ==
  /\ fn = "isub_digits" /\ pc = "loop"
  /\ i < y.n_signif
  /\ LET d == (z.digits[i] - (y.digits[i] + carry)) % U64
         b == IF d > z.digits[i] THEN 1 ELSE 0
     IN  /\ z' = SetDigit(z, i, (d + b * RADIX) % U64)
         /\ carry' = b
  /\ i' = i + 1
  /\ UNCHANGED << operands, j, pc, ret >>

DropLeadingZero(a) ==
  IF a.digits[a.n_signif - 1] = 0 THEN [a EXCEPT !.n_signif = @ - 1] ELSE a

SubEnd ==
  /\ fn = "isub_digits" /\ pc = "loop"
  /\ i = y.n_signif
  /\ IF carry = 0
     THEN z' = DropLeadingZero(z) /\ pc' = "done"
     ELSE pc' = "carry" /\ UNCHANGED z
  /\ UNCHANGED << operands, i, j, carry, ret >>

SubRipple ==
  /\ fn = "isub_digits" /\ pc = "carry"
  /\ z.digits[i] = 0
  /\ z' = SetDigit(z, i, MAX_DIGIT)
  /\ i' = i + 1
  /\ UNCHANGED << operands, j, carry, pc, ret >>

SubSettle ==
  /\ fn = "isub_digits" /\ pc = "carry"
  /\ z.digits[i] # 0
  /\ z' = DropLeadingZero(SetDigit(z, i, z.digits[i] - 1))
  /\ carry' = 0
  /\ pc' = "done"
  /\ UNCHANGED << operands, i, j, ret >>

(***************************************************************************)
(* digits_iadd_digit: its result says whether the carry left the memory.   *)
(***************************************************************************)
IncrementDigit ==
  /\ fn = "iadd_digit" /\ pc = "loop"
  /\ LET sum == (z.digits[0] + arg) % U64
         c == IF sum < arg \/ sum >= RADIX THEN 1 ELSE 0
     IN  /\ z' = SetDigit(z, 0, (sum - c * RADIX) % U64)
         /\ i' = c
         /\ pc' = IF c = 1 THEN "carry" ELSE "done"
  /\ UNCHANGED << operands, j, carry, ret >>

IncrementRipple ==
  /\ fn = "iadd_digit" /\ pc = "carry"
  /\ i < z.n_alloc /\ z.digits[i] = MAX_DIGIT
  /\ z' = SetDigit(z, i, 0)
  /\ i' = i + 1
  /\ UNCHANGED << operands, j, carry, pc, ret >>

IncrementSettle ==
  /\ fn = "iadd_digit" /\ pc = "carry"
  /\ i < z.n_alloc => z.digits[i] # MAX_DIGIT
  /\ IF i = z.n_alloc
     THEN ret' = 1 /\ UNCHANGED z
     ELSE z' = SetDigit(z, i, IF i = z.n_signif THEN 1 ELSE z.digits[i] + 1) /\ UNCHANGED ret
  /\ pc' = "done"
  /\ UNCHANGED << operands, i, j, carry >>

(***************************************************************************)
(* digits_imul_digit.                                                      *)
(***************************************************************************)
MulDigitStep ==
  /\ fn = "imul_digit" /\ pc = "loop"
  /\ i < z.n_signif
  /\ LET t == z.digits[i] * arg + carry
     IN  z' = SetDigit(z, i, t % RADIX) /\ carry' = t \div RADIX
  /\ i' = i + 1
  /\ UNCHANGED << operands, j, pc, ret >>

(* Mutant of MulDigitEnd: a carry of 0 is appended, too. *)
MulDigitEnd_AlwaysAppend ==
  /\ fn = "imul_digit" /\ pc = "loop"
  /\ i = z.n_signif
  /\ z' = [SetDigit(z, i, carry) EXCEPT !.n_signif = @ + 1]
  /\ pc' = "done"
  /\ UNCHANGED << operands, i, j, carry, ret >>

MulDigitEnd ==
  /\ fn = "imul_digit" /\ pc = "loop"
  /\ i = z.n_signif
  /\ z' = IF carry > 0 THEN [SetDigit(z, i, carry) EXCEPT !.n_signif = @ + 1] ELSE z
  /\ pc' = "done"
  /\ UNCHANGED << operands, i, j, carry, ret >>

(***************************************************************************)
(* digits_mul: Knuth's Algorithm M. i runs over x, j over y.               *)
(***************************************************************************)
MulStep ==
  /\ fn = "mul" /\ pc = "loop"
  /\ j < y.n_signif /\ i < x.n_signif
  /\ LET top == j + x.n_signif
         t == x.digits[i] * y.digits[j] + z.digits[i + j] + z.digits[top]
     IN  z' = SetDigit(SetDigit(z, i + j, t % RADIX), top, t \div RADIX)
  /\ i' = i + 1
  /\ UNCHANGED << operands, j, carry, pc, ret >>

MulRow ==
  /\ fn = "mul" /\ pc = "loop"
  /\ j < y.n_signif /\ i = x.n_signif
  /\ i' = 0
  /\ j' = j + 1
  /\ UNCHANGED << operands, z, carry, pc, ret >>

MulEnd ==
  /\ fn = "mul" /\ pc = "loop"
  /\ j = y.n_signif
  /\ pc' = "done"
  /\ UNCHANGED << operands, z, i, j, carry, ret >>

(***************************************************************************)
(* digits_div_digit: from the top digit down; carry is the remainder.      *)
(***************************************************************************)
(* Mutant of DivDigitStep: the remainder is the one of the radix. *)
DivDigitStep_WrongRemainder ==
  /\ fn = "div_digit" /\ pc = "loop"
  /\ i >= 0
  /\ LET t == carry * RADIX + x.digits[i]
     IN  z' = SetDigit(z, i, (t \div arg) % U64) /\ carry' = t % RADIX
  /\ i' = i - 1
  /\ UNCHANGED << operands, j, pc, ret >>

DivDigitStep ==
  /\ fn = "div_digit" /\ pc = "loop"
  /\ i >= 0
  /\ LET t == carry * RADIX + x.digits[i]
     IN  z' = SetDigit(z, i, t \div arg) /\ carry' = t % arg
  /\ i' = i - 1
  /\ UNCHANGED << operands, j, pc, ret >>

DivDigitEnd ==
  /\ fn = "div_digit" /\ pc = "loop"
  /\ i < 0
  /\ ret' = carry
  /\ pc' = "done"
  /\ UNCHANGED << operands, z, i, j, carry >>

(***************************************************************************)
(* digits_round: one digit is rounded (the whole of it if the rounding     *)
(* position is a digit boundary), the lower ones are cleared ...           *)
(***************************************************************************)
(* Mutant of ZeroBelow: one digit too few is cleared. *)
ZeroBelow_OffByOne(a, k) ==
  [a EXCEPT !.digits = [m \in DOMAIN a.digits |-> IF m + 1 < k THEN 0 ELSE a.digits[m]]]

ZeroBelow(a, k) ==
  [a EXCEPT !.digits = [m \in DOMAIN a.digits |-> IF m < k THEN 0 ELSE a.digits[m]]]

RoundDigit ==
  /\ fn = "round" /\ pc = "loop"
  /\ LET idx == arg.shift \div DEC_DIGITS_PER_DIGIT
         n_dec == arg.shift % DEC_DIGITS_PER_DIGIT
         at == IF n_dec = 0 THEN idx - 1 ELSE idx
         quot == IF idx < z.n_signif THEN z.digits[idx] ELSE 0
         digit == z.digits[at]
         rounded ==
           IF n_dec # 0
           THEN round_to_multiple(arg.sign, digit, at > 0, u64_10_pow_n(n_dec), arg.mode)
           ELSE IF digit # 0 \/ at > 0
           THEN RADIX * round_qr(arg.sign, quot, digit, at > 0, RADIX, arg.mode)
           ELSE digit
     IN  /\ z' = SetDigit(ZeroBelow(z, at), at, rounded)
         /\ i' = at
         /\ pc' = IF rounded = RADIX THEN "carry" ELSE "done"
  /\ UNCHANGED << operands, j, carry, ret >>

(* ... and RADIX as a digit is carried on; ret: the carry left the array. *)
RoundRipple ==
  /\ fn = "round" /\ pc = "carry"
  /\ LET cleared == SetDigit(z, i, 0)
     IN  IF i + 1 < z.n_signif
         THEN /\ z' = SetDigit(cleared, i + 1, z.digits[i + 1] + 1)
              /\ i' = i + 1
              /\ pc' = IF z.digits[i + 1] + 1 = RADIX THEN "carry" ELSE "done"
              /\ UNCHANGED ret
         ELSE /\ z' = cleared
              /\ i' = i + 1
              /\ pc' = "done"
              /\ ret' = 1
  /\ UNCHANGED << operands, j, carry >>

(***************************************************************************)
(* digits_cmp: from the top digits down; j counts the digits compared.     *)
(***************************************************************************)
CmpStep ==
  /\ fn = "cmp" /\ pc = "loop"
  /\ LET y_i == y.n_signif - 1 - j
     IN  IF i >= 0 /\ y_i >= 0
         THEN IF x.digits[i] # y.digits[y_i]
              THEN /\ ret' = CMP(x.digits[i], y.digits[y_i])
                   /\ pc' = "done"
                   /\ UNCHANGED << i, j >>
              ELSE /\ i' = i - 1
                   /\ j' = j + 1
                   /\ UNCHANGED << ret, pc >>
         ELSE /\ ret' = CMP(x.n_signif, y.n_signif)
              /\ pc' = "done"
              /\ UNCHANGED << i, j >>
  /\ UNCHANGED << operands, z, carry >>

(***************************************************************************)
(* digits_eliminate_trailing_zeros: i looks for the least significant      *)
(* digit that is not 0, then the digits from there on move down.           *)
(***************************************************************************)
(* Mutant of FindLeastSignificant: the pointer is not advanced. *)
FindLeastSignificant_NoAdvance ==
  /\ fn = "eliminate_trailing_zeros" /\ pc = "loop"
  /\ i < z.n_signif /\ z.digits[i] = 0
  /\ UNCHANGED vars

FindLeastSignificant ==
  /\ fn = "eliminate_trailing_zeros" /\ pc = "loop"
  /\ i < z.n_signif /\ z.digits[i] = 0
  /\ i' = i + 1
  /\ UNCHANGED << operands, z, j, carry, pc, ret >>

Found ==
  /\ fn = "eliminate_trailing_zeros" /\ pc = "loop"
  /\ i < z.n_signif => z.digits[i] # 0
  /\ z' = [z EXCEPT !.n_signif = @ - i]
  /\ ret' = i
  /\ pc' = IF i = 0 THEN "done" ELSE "carry"
  /\ UNCHANGED << operands, i, j, carry >>

MoveDown ==
  /\ fn = "eliminate_trailing_zeros" /\ pc = "carry"
  /\ j < z.n_signif
  /\ z' = SetDigit(z, j, z.digits[i + j])
  /\ j' = j + 1
  /\ UNCHANGED << operands, i, carry, pc, ret >>

MoveEnd ==
  /\ fn = "eliminate_trailing_zeros" /\ pc = "carry"
  /\ j = z.n_signif
  /\ pc' = "done"
  /\ UNCHANGED << operands, z, i, j, carry, ret >>

(* The function has returned. *)
Returned == pc = "done" /\ UNCHANGED vars

Next ==
  \/ AddDigit \/ AddEnd \/ AddRipple \/ AddSettle
  \/ SubDigit \/ SubEnd \/ SubRipple \/ SubSettle
  \/ IncrementDigit \/ IncrementRipple \/ IncrementSettle
  \/ MulDigitStep \/ MulDigitEnd
  \/ MulStep \/ MulRow \/ MulEnd
  \/ DivDigitStep \/ DivDigitEnd
  \/ RoundDigit \/ RoundRipple
  \/ CmpStep
  \/ FindLeastSignificant \/ Found \/ MoveDown \/ MoveEnd
  \/ Returned

Spec == Init /\ [][Next]_vars /\ WF_vars(Next)

-----------------------------------------------------------------------------
(***************************************************************************)
(* Properties.                                                             *)
(***************************************************************************)
Word == 0 .. U64 - 1

WellFormed(a) ==
  /\ a = [n_alloc |-> a.n_alloc, n_signif |-> a.n_signif, digits |-> a.digits]
  /\ a.n_alloc \in Nat
  /\ a.n_signif \in 0 .. a.n_alloc
  /\ a.digits \in [0 .. a.n_alloc - 1 -> Word]

(* The variables have the types of the C variables they stand for. *)
TypeOK ==
  /\ fn \in Functions
  /\ WellFormed(x) /\ WellFormed(y) /\ WellFormed(z)
  /\ i \in Int /\ j \in Nat /\ carry \in Nat /\ ret \in Int
  /\ pc \in {"loop", "carry", "done"}

(* A proper digit array: all significant digits are below RADIX. *)
Proper(a) == \A k \in 0 .. a.n_signif - 1 : a.digits[k] < RADIX

(***************************************************************************)
(* No loop ever touches memory behind an array. The loops that propagate a *)
(* carry or a borrow test no bound: they rely on a digit that stops them   *)
(* (digits_iadd_digits, digits_isub_digits).                               *)
(***************************************************************************)
InBounds ==
  /\ pc = "carry" /\ fn \in {"iadd_digits", "isub_digits", "round"} => i \in 0 .. z.n_alloc - 1
  /\ pc = "loop" /\ fn \in {"iadd_digits", "isub_digits"} /\ i < y.n_signif =>
       i \in 0 .. z.n_alloc - 1
  /\ pc = "loop" /\ fn = "imul_digit" /\ carry > 0 => i < z.n_alloc
  /\ pc = "loop" /\ fn = "mul" /\ j < y.n_signif =>
       i + j < z.n_alloc /\ j + x.n_signif < z.n_alloc
  /\ pc = "carry" /\ fn = "eliminate_trailing_zeros" /\ j < z.n_signif => i + j < z.n_alloc

(***************************************************************************)
(* Carry, borrow and remainder stay what one digit position can produce,   *)
(* although they are inferred from words that wrapped: "carry" is the bit  *)
(* lost, and the remainder of a division stays below the divisor.          *)
(***************************************************************************)
CarryIsBit ==
  /\ fn \in {"iadd_digits", "isub_digits"} => carry \in 0 .. 1
  /\ fn = "imul_digit" => carry < RADIX
  /\ fn = "div_digit" => carry < arg

(***************************************************************************)
(* Every function returns a proper array: no significant digit is RADIX or *)
(* above, whatever wrapped on the way.                                     *)
(***************************************************************************)
ResultIsProper == pc = "done" => Proper(z)

(***************************************************************************)
(* An addition gives the mathematical sum, whatever the carries, if the    *)
(* array added to has at least as many digits as the one added.            *)
(***************************************************************************)
SumIsExact ==
  pc = "done" /\ fn = "iadd_digits" /\ x.n_signif >= y.n_signif =>
    Value(z) = Value(x) + Value(y)

(***************************************************************************)
(* The loops compute what DigitArithmetic promises: each call is one step  *)
(* of it, taken when the function returns.                                 *)
(***************************************************************************)
Promise == INSTANCE DigitArithmetic WITH
  z <- IF pc = "done" THEN z ELSE x,
  ret <- IF pc = "done" THEN ret ELSE 0,
  status <- IF pc = "done" THEN "returned" ELSE "called"

ImplementsArithmetic == Promise!Spec

(* Every call returns, also from the loops without a bound. *)
Termination == <>(pc = "done")

-----------------------------------------------------------------------------
(***************************************************************************)
(* The inductive invariant behind InBounds, CarryIsBit and ResultIsProper. *)
(* ProperCells is Proper for the whole memory of an array.                 *)
(***************************************************************************)
ProperCells(a) == \A k \in 0 .. a.n_alloc - 1 : a.digits[k] < RADIX

(* From digit k on a is still as b. *)
SameFrom(a, b, k) == \A m \in k .. b.n_alloc - 1 : a.digits[m] = b.digits[m]

AddInv ==
  fn = "iadd_digits" =>
    /\ y.n_signif >= 1
    /\ x.n_alloc = z.n_alloc
    /\ x.n_signif < x.n_alloc /\ y.n_signif < x.n_alloc
    /\ \A k \in x.n_signif .. x.n_alloc - 1 : x.digits[k] = 0
    /\ ProperCells(z)
    /\ carry \in 0 .. 1
    /\ pc # "done" => z.n_signif = MAX(x.n_signif, y.n_signif) /\ SameFrom(z, x, i)
    /\ pc = "loop" => i \in 0 .. y.n_signif
    /\ pc = "carry" => i \in y.n_signif .. MAX(x.n_signif, y.n_signif)

(* A borrow dies at the digit where x exceeds y. *)
SubInv ==
  fn = "isub_digits" =>
    /\ x.n_signif >= 1 /\ y.n_signif =< x.n_signif
    /\ x.n_alloc = x.n_signif /\ z.n_alloc = x.n_signif
    /\ ProperCells(z)
    /\ carry \in 0 .. 1
    /\ pc # "done" => z.n_signif = x.n_signif /\ SameFrom(z, x, i)
    /\ pc = "loop" => i \in 0 .. y.n_signif
    /\ pc = "carry" => i >= y.n_signif /\ carry = 1
    /\ \E p \in 0 .. x.n_signif - 1 :
         /\ ExceedsAt(x, y, p)
         /\ pc # "done" /\ carry = 1 => i =< p

IncrementInv ==
  fn = "iadd_digit" =>
    /\ z.n_alloc >= 1
    /\ arg = 1
    /\ ProperCells(z)
    /\ pc = "carry" => i \in 1 .. z.n_alloc

(* Without spare room the top digit leaves no carry. *)
MulDigitInv ==
  fn = "imul_digit" =>
    /\ arg \in 1 .. MAX_DIGIT
    /\ x.n_signif >= 1
    /\ x.n_alloc = z.n_alloc
    /\ x.n_alloc = x.n_signif =>
         x.digits[x.n_signif - 1] * arg + (arg - 1) =< MAX_DIGIT
    /\ ProperCells(z)
    /\ carry \in 0 .. arg - 1
    /\ pc = "loop" =>
         /\ i \in 0 .. z.n_signif
         /\ z.n_signif = x.n_signif
         /\ SameFrom(z, x, i)
         /\ i = z.n_alloc => carry = 0
    /\ pc # "carry"

MulInv ==
  fn = "mul" =>
    /\ x.n_signif >= 1
    /\ z.n_alloc = x.n_signif + y.n_signif
    /\ ProperCells(z)
    /\ i \in 0 .. x.n_signif /\ j \in 0 .. y.n_signif
    /\ pc # "carry"

DivDigitInv ==
  fn = "div_digit" =>
    /\ arg \in 1 .. MAX_DIGIT
    /\ z.n_alloc = x.n_alloc
    /\ ProperCells(z)
    /\ carry \in 0 .. arg - 1
    /\ i \in -1 .. z.n_alloc - 1
    /\ pc # "carry"

(* At most one digit is RADIX: the one the carry is at. *)
RoundInv ==
  fn = "round" =>
    /\ arg.shift \in 1 .. x.n_signif * DEC_DIGITS_PER_DIGIT
    /\ x.n_signif >= 1
    /\ z.n_signif = x.n_signif /\ z.n_alloc = x.n_signif
    /\ \A k \in 0 .. z.n_alloc - 1 :
         IF pc = "carry" /\ k = i THEN z.digits[k] = RADIX ELSE z.digits[k] < RADIX
    /\ pc = "carry" => i \in 0 .. z.n_alloc - 1

CmpInv == fn = "cmp" => ProperCells(z)

EliminateInv ==
  fn = "eliminate_trailing_zeros" =>
    /\ ProperCells(z)
    /\ i \in 0 .. z.n_alloc
    /\ pc = "loop" => i =< z.n_signif /\ j = 0
    /\ pc = "carry" => z.n_signif + i =< z.n_alloc /\ j \in 0 .. z.n_signif

IInv ==
  /\ TypeOK
  /\ ProperCells(x) /\ ProperCells(y)
  /\ AddInv /\ SubInv /\ IncrementInv
  /\ MulDigitInv /\ MulInv /\ DivDigitInv
  /\ RoundInv /\ CmpInv /\ EliminateInv

-----------------------------------------------------------------------------
(***************************************************************************)
(* The inductive invariant behind ImplementsArithmetic: what the digits    *)
(* written so far stand for, while the function runs, and its result.      *)
(***************************************************************************)
(* The number held by the digits of a below index k. *)
Low(a, k) == ValueOf(a.digits, k)

AddValues ==
  fn = "iadd_digits" =>
    /\ ret = 0
    /\ x.n_alloc = MAX(x.n_signif, y.n_signif) + 1
    /\ pc = "loop" => Low(z, i) + carry * Weight(i) = Low(x, i) + Low(y, i)
    /\ pc = "carry" => Low(z, i) + Weight(i) = Low(x, i) + Value(y)

SubValues ==
  fn = "isub_digits" =>
    /\ ret = 0
    /\ pc = "loop" => Low(z, i) - carry * Weight(i) = Low(x, i) - Low(y, i)
    /\ pc = "carry" => Low(z, i) - Weight(i) = Low(x, i) - Value(y)

IncrementValues ==
  fn = "iadd_digit" =>
    /\ x.n_alloc = x.n_signif
    /\ z.n_alloc = x.n_alloc /\ z.n_signif = x.n_signif
    /\ pc = "loop" => z = x /\ ret = 0
    /\ pc = "carry" =>
         /\ ret = 0
         /\ SameFrom(z, x, i)
         /\ Low(z, i) + Weight(i) = Low(x, i) + 1

MulDigitValues ==
  fn = "imul_digit" =>
    /\ ret = 0
    /\ pc = "loop" => Low(z, i) + carry * Weight(i) = Low(x, i) * arg

(***************************************************************************)
(* Digit j + x.n_signif of z is the carry of row j: it counts as a digit   *)
(* at i + j until the row is complete.                                     *)
(***************************************************************************)
MulValues ==
  fn = "mul" =>
    /\ ret = 0
    /\ z.n_signif = z.n_alloc
    /\ pc = "loop" =>
         IF j = y.n_signif
         THEN i = 0 /\ Value(z) = Value(x) * Value(y)
         ELSE LET top == j + x.n_signif
              IN  /\ Low(z, top) + z.digits[top] * Weight(i + j) =
                       Value(x) * Low(y, j) + Low(x, i) * (y.digits[j] * Weight(j))
                  /\ i = 0 => z.digits[top] = 0
                  /\ \A k \in top + 1 .. z.n_alloc - 1 : z.digits[k] = 0

(* From the top digit down to digit i + 1 the quotient is known. *)
DivDigitValues ==
  fn = "div_digit" =>
    /\ x.n_alloc = x.n_signif /\ z.n_signif = x.n_signif
    /\ pc = "loop" =>
         /\ ret = 0
         /\ Value(x) - Low(x, i + 1) =
              (Value(z) - Low(z, i + 1)) * arg + carry * Weight(i + 1)

(* A digit RADIX is carried on; the ones below it have been cleared. *)
RoundValues ==
  fn = "round" =>
    /\ x.n_alloc = x.n_signif
    /\ NonZeroLow(x)
    /\ pc = "loop" => z = x /\ ret = 0
    /\ pc = "carry" =>
         /\ ret = 0
         /\ Value(z) = RoundedDigits(Value(x), arg.sign, arg.shift, arg.mode)
         /\ \A k \in 0 .. i - 1 : z.digits[k] = 0

CmpValues ==
  fn = "cmp" =>
    /\ z = x
    /\ pc = "loop" =>
         /\ i + j = x.n_signif - 1
         /\ j =< x.n_signif /\ j =< y.n_signif
         /\ \A k \in 1 .. j : x.digits[x.n_signif - k] = y.digits[y.n_signif - k]

EliminateValues ==
  fn = "eliminate_trailing_zeros" =>
    /\ x.n_alloc = x.n_signif /\ z.n_alloc = x.n_alloc
    /\ pc = "loop" => z = x /\ ret = 0
    /\ pc # "done" => \A k \in 0 .. i - 1 : x.digits[k] = 0
    /\ pc = "carry" =>
         /\ ret = i
         /\ z.n_signif = x.n_signif - i
         /\ i < x.n_signif => x.digits[i] # 0
         /\ \A k \in 0 .. j - 1 : z.digits[k] = x.digits[i + k]
         /\ SameFrom(z, x, j)

ResultAsPromised == pc = "done" => Promise!Result(z, ret)

VInv ==
  /\ IInv
  /\ AddValues /\ SubValues /\ IncrementValues
  /\ MulDigitValues /\ MulValues /\ DivDigitValues
  /\ RoundValues /\ CmpValues /\ EliminateValues
  /\ ResultAsPromised

=============================================================================
