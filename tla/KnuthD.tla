-------------------------------- MODULE KnuthD --------------------------------
(***************************************************************************)
(* digits_divmod of digit_array.c: the division of a digit array by one of *)
(* at least two digits (Knuth's Algorithm D), one action per iteration of  *)
(* each of its loops. A behaviour is one call.                             *)
(*                                                                         *)
(* Products, and what is divided by a digit, are 128-bit numbers and exact *)
(* here. Everything the code keeps in a 64-bit word is taken modulo U64.   *)
(***************************************************************************)
EXTENDS DigitOps

CONSTANTS
  Digits,       (* Digits operands are made of. Bounds the model.          *)
  MaxDividend,  (* Maximum number of digits of a shifted dividend.         *)
  MaxDivisor    (* Maximum number of digits of a shifted divisor.          *)

ASSUME DivisionDigits == Digits \subseteq 0 .. MAX_DIGIT
ASSUME DivisionLengths == MaxDividend \in Nat /\ MaxDivisor \in Nat

(***************************************************************************)
(* A trial digit fits a word even after a wrong one: the sum that wrapped  *)
(* then shows that the top digit of the divisor exceeds 2^64 - RADIX.      *)
(***************************************************************************)
ASSUME TrialAssumption == RADIX * RADIX =< U64 * (U64 - RADIX + 1)

VARIABLES
  x, y,      (* The operands, shifted (digits_copy with n_shift).           *)
  scale,     (* d: the factor that makes the top digit of yd at least half  *)
             (* the radix.                                                  *)
  xd, yd,    (* The digits of the scaled operands, one more than those of x *)
             (* and y. The dividend turns into the remainder.               *)
  xd_n,      (* xd->n_signif.                                               *)
  quot,      (* The digits of the quotient.                                 *)
  rem,       (* The digits of the remainder wanted by the caller.           *)
  i, j,      (* Digit indices.                                              *)
  qhat, rhat,(* Trial digit of the quotient and the remainder belonging to it. *)
  carry, borrow,
  misled,    (* History: rhat wrapped and the correction went on.           *)
  pc         (* The step of the algorithm.                                  *)

operands == << x, y, scale >>
trial == << qhat, rhat >>
vars == << operands, xd, yd, xd_n, quot, rem, i, j, trial, carry, borrow, misled, pc >>

M == x.n_signif
N == y.n_signif

Steps == {"scale_x", "scale_y", "estimate", "correct", "subtract", "test", "add_back",
          "unnormalize", "done"}

-----------------------------------------------------------------------------
(* Normalised operands. *)
Operands(max) ==
  {a \in UNION {{[n_alloc |-> n, n_signif |-> n, digits |-> d] :
                  d \in [0 .. n - 1 -> Digits]} : n \in 1 .. max} : NonZeroTop(a)}

(* Mutant of NormalizingFactor: it is one too large for some divisors. *)
NormalizingFactor_OffByOne(b) == RADIX \div b.digits[b.n_signif - 1]

NormalizingFactor(b) == RADIX \div (b.digits[b.n_signif - 1] + 1)

(***************************************************************************)
(* Calls: at most one of the operands is shifted, the divisor has at least *)
(* two digits and the dividend as many as the divisor (the assertions of   *)
(* the function, which its callers in fpdec.c and digit_array.c meet).     *)
(***************************************************************************)
Call(a, b) ==
  /\ x = a
  /\ y = b
  /\ b.n_signif > 1
  /\ a.n_signif >= b.n_signif
  /\ scale = NormalizingFactor(b)
  /\ xd = digits_copy(a, 0, 1).digits
  /\ yd = digits_copy(b, 0, 1).digits
  /\ xd_n = a.n_signif
  /\ quot = digits_alloc(a.n_signif - b.n_signif + 1).digits
  /\ rem = << >>
  /\ i = 0 /\ j = 0 /\ qhat = 0 /\ rhat = 0 /\ carry = 0 /\ borrow = 0
  /\ misled = FALSE
  /\ pc = "scale_x"

Init ==
  \/ \E a \in Operands(MaxDividend), b \in Operands(MaxDivisor) : Call(a, b)
  \/ \E a \in Operands(MaxDividend - 1), b \in Operands(MaxDivisor) :
       Call(digits_copy(a, 1, 0), b)
  \/ \E a \in Operands(MaxDividend), b \in Operands(MaxDivisor - 1) :
       Call(a, digits_copy(b, 1, 0))

-----------------------------------------------------------------------------
(***************************************************************************)
(* D1: digits_imul_digit for both operands. A carry out of the dividend    *)
(* becomes its additional digit; the divisor leaves none.                  *)
(***************************************************************************)
ScaleDividend ==
  /\ pc = "scale_x"
  /\ IF i < M
     THEN LET t == xd[i] * scale + carry
          IN  /\ xd' = [xd EXCEPT ![i] = t % RADIX]
              /\ carry' = t \div RADIX
              /\ i' = i + 1
              /\ UNCHANGED << xd_n, pc >>
     ELSE /\ xd' = [xd EXCEPT ![M] = carry]
          /\ xd_n' = IF carry > 0 THEN M + 1 ELSE M
          /\ carry' = 0
          /\ i' = 0
          /\ pc' = "scale_y"
  /\ UNCHANGED << operands, yd, quot, rem, j, trial, borrow, misled >>

ScaleDivisor ==
  /\ pc = "scale_y"
  /\ IF i < N
     THEN LET t == yd[i] * scale + carry
          IN  /\ yd' = [yd EXCEPT ![i] = t % RADIX]
              /\ carry' = t \div RADIX
              /\ i' = i + 1
              /\ UNCHANGED << j, pc >>
     ELSE /\ yd' = [yd EXCEPT ![N] = carry]
          /\ carry' = 0
          /\ i' = 0
          /\ j' = M - N
          /\ pc' = "estimate"
  /\ UNCHANGED << operands, xd, xd_n, quot, rem, trial, borrow, misled >>

(* D3: the trial digit from the two top digits of the rest. *)
Estimate ==
  /\ pc = "estimate"
  /\ LET t == xd[j + N] * RADIX + xd[j + N - 1]
     IN  /\ qhat' = t \div yd[N - 1]
         /\ rhat' = t % yd[N - 1]
  /\ pc' = "correct"
  /\ UNCHANGED << operands, xd, yd, xd_n, quot, rem, i, j, carry, borrow, misled >>

(* Mutant of TooLarge: the second digit of the divisor is not looked at. *)
TooLarge_TopDigitOnly == qhat >= RADIX

(* The condition of the while loop. *)
TooLarge == qhat >= RADIX \/ qhat * yd[N - 2] > rhat * RADIX + xd[j + N - 2]

(***************************************************************************)
(* One round of the loop: a remainder that does not fit a digit ends it,   *)
(* unless the sum has wrapped.                                             *)
(***************************************************************************)
Correct ==
  /\ pc = "correct"
  /\ TooLarge
  /\ LET sum == rhat + yd[N - 1]
     IN  /\ qhat' = qhat - 1
         /\ rhat' = sum % U64
         /\ misled' = (misled \/ sum >= U64)
         /\ pc' = IF sum % U64 >= RADIX THEN "subtract" ELSE "correct"
  /\ UNCHANGED << operands, xd, yd, xd_n, quot, rem, i, j, carry, borrow >>

Accept ==
  /\ pc = "correct"
  /\ ~TooLarge
  /\ pc' = "subtract"
  /\ UNCHANGED << operands, xd, yd, xd_n, quot, rem, i, j, trial, carry, borrow, misled >>

(* D4: digit by digit, qhat * yd is subtracted from the rest. *)
MultiplySubtract ==
  /\ pc = "subtract"
  /\ i =< N
  /\ LET t == qhat * yd[i] + carry
         r == (xd[j + i] - ((t % RADIX) + borrow)) % U64
         b == IF r > xd[j + i] THEN 1 ELSE 0
     IN  /\ carry' = t \div RADIX
         /\ borrow' = b
         /\ xd' = [xd EXCEPT ![j + i] = (r + b * RADIX) % U64]
  /\ i' = i + 1
  /\ UNCHANGED << operands, yd, xd_n, quot, rem, j, trial, misled, pc >>

(* Mutant of NextDigit: j is not decremented. *)
NextDigit_SameDigit ==
  /\ carry' = 0 /\ borrow' = 0
  /\ i' = 0 /\ pc' = "estimate"
  /\ UNCHANGED << j, rem >>

(***************************************************************************)
(* What the loop over j (D2, D7) does next. Behind it the remainder is     *)
(* computed if the caller wants it (rem # NULL).                           *)
(***************************************************************************)
NextDigit ==
  /\ carry' = 0
  /\ borrow' = 0
  /\ \/ j > 0 /\ j' = j - 1 /\ i' = 0 /\ pc' = "estimate" /\ UNCHANGED rem
     \/ j = 0 /\ j' = j /\ i' = 0 /\ pc' = "done" /\ UNCHANGED rem
     \/ /\ j = 0 /\ j' = j
        /\ i' = xd_n - 1
        /\ pc' = "unnormalize"
        /\ rem' = digits_alloc(xd_n).digits

(* D5: nothing was borrowed from above. *)
KeepTrialDigit ==
  /\ pc = "subtract"
  /\ i = N + 1 /\ borrow = 0
  /\ quot' = [quot EXCEPT ![j] = qhat % U64]
  /\ NextDigit
  /\ UNCHANGED << operands, xd, yd, xd_n, trial, misled >>

(* Mutant of DecrementTrialDigit: the quotient keeps the trial digit. *)
DecrementTrialDigit_Keep ==
  /\ pc = "subtract"
  /\ i = N + 1 /\ borrow = 1
  /\ quot' = [quot EXCEPT ![j] = qhat % U64]
  /\ carry' = 0
  /\ i' = 0
  /\ pc' = "add_back"
  /\ UNCHANGED << operands, xd, yd, xd_n, rem, j, trial, borrow, misled >>

(* D6: too much was subtracted; the divisor is added back, digit by digit. *)
DecrementTrialDigit ==
  /\ pc = "subtract"
  /\ i = N + 1 /\ borrow = 1
  /\ quot' = [quot EXCEPT ![j] = (qhat - 1) % U64]
  /\ carry' = 0
  /\ i' = 0
  /\ pc' = "add_back"
  /\ UNCHANGED << operands, xd, yd, xd_n, rem, j, trial, borrow, misled >>

(* Mutant of AddBack: only a sum that wrapped leaves a carry. *)
AddBack_WrapOnly ==
  /\ pc = "add_back"
  /\ i =< N
  /\ LET sum == (xd[j + i] + yd[i] + carry) % U64
         c == IF sum < yd[i] THEN 1 ELSE 0
     IN  /\ xd' = [xd EXCEPT ![j + i] = (sum - c * RADIX) % U64]
         /\ carry' = c
  /\ i' = i + 1
  /\ UNCHANGED << operands, yd, xd_n, quot, rem, j, trial, borrow, misled, pc >>

AddBack ==
  /\ pc = "add_back"
  /\ i =< N
  /\ LET sum == (xd[j + i] + yd[i] + carry) % U64
         c == IF sum < yd[i] \/ sum >= RADIX THEN 1 ELSE 0
     IN  /\ xd' = [xd EXCEPT ![j + i] = (sum - c * RADIX) % U64]
         /\ carry' = c
  /\ i' = i + 1
  /\ UNCHANGED << operands, yd, xd_n, quot, rem, j, trial, borrow, misled, pc >>

AddedBack ==
  /\ pc = "add_back"
  /\ i = N + 1
  /\ NextDigit
  /\ UNCHANGED << operands, xd, yd, xd_n, quot, trial, misled >>

(* D8: digits_div_digit by the scale; carry is its remainder. *)
Unnormalize ==
  /\ pc = "unnormalize"
  /\ IF i >= 0
     THEN LET t == carry * RADIX + xd[i]
          IN  /\ rem' = [rem EXCEPT ![i] = t \div scale]
              /\ carry' = t % scale
              /\ i' = i - 1
              /\ UNCHANGED pc
     ELSE pc' = "done" /\ UNCHANGED << rem, carry, i >>
  /\ UNCHANGED << operands, xd, yd, xd_n, quot, j, trial, borrow, misled >>

Returned == pc = "done" /\ UNCHANGED vars

Next ==
  \/ ScaleDividend \/ ScaleDivisor
  \/ Estimate \/ Correct \/ Accept
  \/ MultiplySubtract \/ KeepTrialDigit
  \/ DecrementTrialDigit \/ AddBack \/ AddedBack
  \/ Unnormalize \/ Returned

Spec == Init /\ [][Next]_vars /\ WF_vars(Next)

-----------------------------------------------------------------------------
(***************************************************************************)
(* Properties.                                                             *)
(***************************************************************************)
X == ValueOf(x.digits, M)
Y == ValueOf(y.digits, N)
ScaledDivisor == ValueOf(yd, N + 1)

(* The digits of xd the trial digit is subtracted from. *)
Slice == ValueOf([k \in 0 .. N |-> xd[j + k]], N + 1)

Digit == 0 .. MAX_DIGIT
Word == 0 .. U64 - 1

(***************************************************************************)
(* All digits stay below RADIX although they are subtracted and added back *)
(* in words that wrap, and all accesses stay in the arrays.                *)
(***************************************************************************)
KnuthTypeOK ==
  /\ pc \in Steps
  /\ M \in Nat /\ N \in 2 .. M
  /\ scale \in 1 .. MAX_DIGIT
  /\ x.digits \in [0 .. M - 1 -> Digit] /\ y.digits \in [0 .. N - 1 -> Digit]
  /\ xd \in [0 .. M -> Digit] /\ yd \in [0 .. N -> Digit]
  /\ xd_n \in M .. M + 1
  /\ quot \in [0 .. M - N -> Word]
  /\ rem = << >> \/ rem \in [0 .. xd_n - 1 -> Digit]
  /\ j \in 0 .. M - N /\ i \in -1 .. M + 1
  /\ qhat \in Nat /\ rhat \in Nat /\ carry \in Nat /\ borrow \in 0 .. 1
  /\ misled \in BOOLEAN

(***************************************************************************)
(* What the comment on D1 says: the scaled divisor has a top digit of at   *)
(* least half the radix (so that the trial digit is close), and no digit   *)
(* above it (there would be none in its memory to hold a carry of it).     *)
(***************************************************************************)
DivisorIsNormalized ==
  pc \notin {"scale_x", "scale_y"} => 2 * yd[N - 1] >= RADIX /\ yd[N] = 0

(***************************************************************************)
(* The two with what makes them inductive: what the loops have not touched *)
(* yet, and that scaling leaves no carry behind the top digit of yd.       *)
(***************************************************************************)
KnuthInv ==
  /\ KnuthTypeOK
  /\ DivisorIsNormalized
  /\ scale = NormalizingFactor(y) /\ y.digits[N - 1] # 0
  /\ pc = "scale_x" =>
       i \in 0 .. M /\ rem = << >> /\ \A k \in 0 .. N - 1 : yd[k] = y.digits[k]
  /\ pc = "scale_y" =>
       /\ i \in 0 .. N
       /\ \A k \in i .. N - 1 : yd[k] = y.digits[k]
       /\ i = N => carry = 0 /\ 2 * yd[N - 1] >= RADIX
  /\ pc \in {"scale_x", "scale_y", "unnormalize"} => carry \in 0 .. scale - 1
  /\ pc \in {"estimate", "correct", "subtract", "add_back"} => i \in 0 .. N + 1
  /\ pc = "add_back" => carry \in 0 .. 1
  /\ pc = "unnormalize" => i \in -1 .. xd_n - 1 /\ rem \in [0 .. xd_n - 1 -> Digit]

(***************************************************************************)
(* The trial digit, once corrected, is the digit of the quotient or one    *)
(* more, and fits a word before (the assertion on U128_HI(t1)), unless the *)
(* correction was misled by a remainder that wrapped.                      *)
(***************************************************************************)
EstimateIsClose ==
  /\ pc = "correct" => qhat < U64
  /\ pc = "subtract" /\ i = 0 /\ ~misled =>
       qhat - (Slice \div ScaledDivisor) \in 0 .. 1

(***************************************************************************)
(* digits_divmod returns quotient and remainder: x = q * y + r and r < y,  *)
(* unless it was misled.                                                   *)
(***************************************************************************)
Divides ==
  LET q == ValueOf(quot, M - N + 1)
  IN  /\ q = X \div Y
      /\ rem # << >> => ValueOf(rem, xd_n) = X % Y

QuotientIsExact == pc = "done" /\ ~misled => Divides

(***************************************************************************)
(* The inductive invariant behind the two, while the division is not       *)
(* misled. Rest is what is left to divide when digit j of the quotient is  *)
(* looked for, Unit what each unit of that digit takes from it.            *)
(***************************************************************************)
Known == ValueOf(quot, M - N + 1) - ValueOf(quot, j + 1)
Rest == X * scale - (Y * scale) * Known
Unit == (Y * scale) * Weight(j)

(* The digits of the dividend from j on that are not 0 yet. *)
Part == ValueOf(xd, j + N + 1)

ScalingValues ==
  /\ pc \in {"scale_x", "scale_y"} => ~misled
  /\ pc = "scale_x" =>
       /\ ValueOf(xd, i) + carry * Weight(i) = ValueOf(x.digits, i) * scale
       /\ \A k \in i .. M - 1 : xd[k] = x.digits[k]
  /\ pc = "scale_y" =>
       /\ ValueOf(xd, M + 1) = X * scale
       /\ ValueOf(yd, i) + carry * Weight(i) = ValueOf(y.digits, i) * scale
  /\ pc \notin {"scale_x", "scale_y"} => ScaledDivisor = Y * scale
  /\ pc \in {"scale_x", "scale_y"} => borrow = 0
  /\ pc \notin {"unnormalize", "done"} => rem = << >>

(* Also true of a misled division. *)
TrialValues ==
  /\ pc \in {"estimate", "correct"} => i = 0 /\ carry = 0 /\ borrow = 0
  /\ pc = "correct" => rhat < RADIX /\ qhat < U64
  /\ misled => yd[N - 1] > U64 - RADIX

(* Rest has at most N + 1 digits from j on, and what is above has been used up. *)
LoopValues ==
  pc \in {"estimate", "correct", "subtract", "add_back"} =>
    /\ Rest \in Nat /\ Rest < RADIX * Unit
    /\ \A k \in j + N + 1 .. M : xd[k] = 0

EstimateValues ==
  /\ pc \in {"estimate", "correct"} => Part = Rest
  /\ pc = "correct" =>
       /\ qhat * yd[N - 1] + rhat = xd[j + N] * RADIX + xd[j + N - 1]
       /\ qhat =< RADIX + 1
       /\ Rest < (qhat + 1) * Unit

SubtractValues ==
  pc = "subtract" =>
    /\ qhat =< RADIX /\ (i = 0 => borrow = 0)
    /\ (qhat - 1) * Unit =< Rest /\ Rest < (qhat + 1) * Unit
    /\ Part + Weight(j) * (qhat * ValueOf(yd, i)) = Rest + Weight(j) * ((carry + borrow) * Weight(i))
    /\ carry * Weight(i) =< qhat * ValueOf(yd, i)

AddBackValues ==
  pc = "add_back" =>
    /\ qhat \in 1 .. RADIX /\ quot[j] = qhat - 1
    /\ (qhat - 1) * Unit =< Rest /\ Rest < qhat * Unit
    /\ Part + qhat * Unit + Weight(j) * (carry * Weight(i)) =
         Rest + Weight(j) * (Weight(N + 1) + ValueOf(yd, i))

RemainderValues ==
  pc = "unnormalize" =>
    LET r == ValueOf(xd, xd_n)
    IN  /\ r \in Nat /\ r < Y * scale
        /\ X * scale = r + (Y * scale) * ValueOf(quot, M - N + 1)
        /\ r - ValueOf(xd, i + 1) =
             (ValueOf(rem, xd_n) - ValueOf(rem, i + 1)) * scale + carry * Weight(i + 1)

DivisionInv ==
  /\ KnuthInv
  /\ ScalingValues /\ TrialValues
  /\ ~misled => LoopValues /\ EstimateValues /\ SubtractValues /\ AddBackValues /\ RemainderValues
  /\ QuotientIsExact

(* The function returns: the correction of the trial digit comes to an end. *)
DivisionTerminates == <>(pc = "done")

(***************************************************************************)
(* The heading of digits_divmod names Knuth's Algorithm D as what it is,   *)
(* which divides exactly. (Violated: rhat wraps before it is compared with *)
(* RADIX, and the correction goes on where the algorithm ends it.)         *)
(***************************************************************************)
IsAlgorithmD == pc = "done" => Divides

=============================================================================
