----------------------------- MODULE DigitLemmas -----------------------------
(***************************************************************************)
(* What the proofs need of numbers and digits: induction on a set of       *)
(* naturals, functions defined by recursion on their index, and powers;    *)
(* what the loops of digit_array.c do with one digit of each operand and a *)
(* carry or borrow; and the number a digit array stands for: its recursion,*)
(* its range, how it splits at a digit, and which of two is greater.       *)
(***************************************************************************)
EXTENDS DigitOps, TLAPS, WellFoundedInduction

Less == {p \in Nat \X Nat : p[1] < p[2]}

(* A non-empty set of naturals has a least element. *)
LEMMA LeastNatural ==
  ASSUME NEW S \in SUBSET Nat, S # {}
  PROVE  \E n \in S : \A m \in S : n =< m
<1>1. IsWellFoundedOn(Less, Nat)
  BY NatLessThanWellFounded DEF OpToRel, Less
<1>2. PICK n \in S : \A m \in S : ~ (<< m, n >> \in Less)
  BY <1>1, WFMin
<1>3. ASSUME NEW m \in S PROVE n =< m
  <2>1. ~ (m < n)
    BY <1>2 DEF Less
  <2>2. QED
    BY <2>1
<1>4. QED
  BY <1>3

(* Induction, for the set of the numbers with the property. *)
LEMMA SetInduction ==
  ASSUME NEW S, 0 \in S, \A n \in Nat : n \in S => n + 1 \in S
  PROVE  \A n \in Nat : n \in S
<1> SUFFICES ASSUME NEW k \in Nat, k \notin S PROVE FALSE
  OBVIOUS
<1>1. PICK n \in Nat \ S : \A m \in Nat \ S : n =< m
  BY LeastNatural
<1>2. n # 0
  OBVIOUS
<1>3. n - 1 \in Nat /\ n - 1 \in S
  BY <1>1, <1>2
<1>4. QED
  BY <1>3

(***************************************************************************)
(* f is the function on 0..n that starts with c and goes on with step.     *)
(***************************************************************************)
Unfolds(f, c, step, n) ==
  f = [k \in 0 .. n |-> IF k = 0 THEN c ELSE step[<< f[k - 1], k >>]]

LEMMA RecursionExists ==
  ASSUME NEW V, NEW c \in V, NEW step \in [V \X Nat -> V]
  PROVE  \A n \in Nat : \E f \in [0 .. n -> V] : Unfolds(f, c, step, n)
<1> DEFINE S == {n \in Nat : \E f \in [0 .. n -> V] : Unfolds(f, c, step, n)}
<1>1. 0 \in S
  <2>1. [k \in 0 .. 0 |-> c] \in [0 .. 0 -> V]
    OBVIOUS
  <2>2. Unfolds([k \in 0 .. 0 |-> c], c, step, 0)
    BY DEF Unfolds
  <2>3. QED
    BY <2>1, <2>2
<1>2. ASSUME NEW n \in Nat, n \in S PROVE n + 1 \in S
  <2>1. PICK f \in [0 .. n -> V] : Unfolds(f, c, step, n)
    BY <1>2
  <2> DEFINE top == step[<< f[n], n + 1 >>]
  <2> DEFINE g == [k \in 0 .. n + 1 |-> IF k = n + 1 THEN top ELSE f[k]]
  <2>2. top \in V
    OBVIOUS
  <2>3. g \in [0 .. n + 1 -> V]
    BY <2>2
  <2>4. ASSUME NEW k \in 0 .. n + 1
        PROVE  g[k] = IF k = 0 THEN c ELSE step[<< g[k - 1], k >>]
    <3>1. CASE k = n + 1
      <4>1. g[n + 1] = step[<< f[n], n + 1 >>] /\ g[n] = f[n]
        OBVIOUS
      <4>2. k # 0 /\ k - 1 = n
        BY <3>1
      <4> HIDE DEF g
      <4>3. QED
        BY <3>1, <4>1, <4>2
    <3>2. CASE k \in 0 .. n
      <4>1. g[k] = f[k]
        BY <3>2
      <4>2. f[k] = IF k = 0 THEN c ELSE step[<< f[k - 1], k >>]
        BY <2>1, <3>2 DEF Unfolds
      <4>3. k # 0 => g[k - 1] = f[k - 1]
        BY <3>2
      <4>4. QED
        BY <4>1, <4>2, <4>3
    <3>3. QED
      BY <3>1, <3>2
  <2>5. g = [k \in 0 .. n + 1 |-> IF k = 0 THEN c ELSE step[<< g[k - 1], k >>]]
    <3> HIDE DEF g
    <3>1. QED
      BY <2>3, <2>4
  <2>6. Unfolds(g, c, step, n + 1)
    BY <2>5 DEF Unfolds
  <2>7. QED
    BY <2>3, <2>6
<1> HIDE DEF S
<1>3. \A n \in Nat : n \in S
  BY <1>1, <1>2, SetInduction
<1>4. QED
  BY <1>3 DEF S

(* Two such functions agree where both are defined. *)
LEMMA RecursionUnique ==
  ASSUME NEW c, NEW step, NEW m \in Nat, NEW n \in Nat, NEW f, NEW g,
         Unfolds(f, c, step, m), Unfolds(g, c, step, n)
  PROVE  \A k \in Nat : k =< m /\ k =< n => f[k] = g[k]
<1> DEFINE S == {k \in Nat : k =< m /\ k =< n => f[k] = g[k]}
<1>1. \A k \in 0 .. m : f[k] = IF k = 0 THEN c ELSE step[<< f[k - 1], k >>]
  BY DEF Unfolds
<1>2. \A k \in 0 .. n : g[k] = IF k = 0 THEN c ELSE step[<< g[k - 1], k >>]
  BY DEF Unfolds
<1>3. 0 \in S
  <2>1. 0 \in 0 .. m /\ 0 \in 0 .. n
    OBVIOUS
  <2>2. f[0] = c /\ g[0] = c
    BY <1>1, <1>2, <2>1
  <2>3. QED
    BY <2>2
<1>4. ASSUME NEW k \in Nat, k \in S PROVE k + 1 \in S
  <2>1. SUFFICES ASSUME k + 1 =< m, k + 1 =< n PROVE f[k + 1] = g[k + 1]
    OBVIOUS
  <2>2. f[k] = g[k]
    BY <1>4, <2>1
  <2>3. f[k + 1] = step[<< f[k], k + 1 >>] /\ g[k + 1] = step[<< g[k], k + 1 >>]
    <3>1. k + 1 \in 0 .. m /\ k + 1 \in 0 .. n /\ k + 1 # 0 /\ (k + 1) - 1 = k
      BY <2>1
    <3>2. QED
      BY <1>1, <1>2, <3>1
  <2>4. QED
    BY <2>2, <2>3
<1> HIDE DEF S
<1>5. \A k \in Nat : k \in S
  BY <1>3, <1>4, SetInduction
<1>6. QED
  BY <1>5 DEF S

(***************************************************************************)
(* Powers.                                                                 *)
(***************************************************************************)
(* The step of the recursion of Power. *)
PowerStep(b) == [p \in (Nat \ {0}) \X Nat |-> b * p[1]]

LEMMA PowerStepFacts ==
  ASSUME NEW b \in Nat \ {0}
  PROVE  /\ PowerStep(b) \in [(Nat \ {0}) \X Nat -> Nat \ {0}]
         /\ \A v \in Nat \ {0}, k \in Nat : PowerStep(b)[<< v, k >>] = b * v
<1>1. \A v \in Nat \ {0} : b * v \in Nat \ {0}
  OBVIOUS
<1>2. \A v \in Nat \ {0}, k \in Nat : PowerStep(b)[<< v, k >>] = b * v
  BY DEF PowerStep
<1>3. \A p \in (Nat \ {0}) \X Nat : b * p[1] \in Nat \ {0}
  BY <1>1
<1>4. QED
  BY <1>2, <1>3 DEF PowerStep

LEMMA PowerUnfolds ==
  ASSUME NEW b \in Nat \ {0}, NEW n \in Nat
  PROVE  \E f \in [0 .. n -> Nat \ {0}] :
           Power(b, n) = f[n] /\ Unfolds(f, 1, PowerStep(b), n)
<1> DEFINE rec(f) == f = [k \in 0 .. n |-> IF k = 0 THEN 1 ELSE b * f[k - 1]]
<1> DEFINE power == CHOOSE f : rec(f)
<1>1. PICK f \in [0 .. n -> Nat \ {0}] : Unfolds(f, 1, PowerStep(b), n)
  <2>1. PowerStep(b) \in [(Nat \ {0}) \X Nat -> Nat \ {0}] /\ 1 \in Nat \ {0}
    BY PowerStepFacts
  <2> DEFINE P == Nat \ {0}
  <2> HIDE DEF P
  <2>2. 1 \in P /\ PowerStep(b) \in [P \X Nat -> P]
    BY <2>1 DEF P
  <2>3. \E f \in [0 .. n -> P] : Unfolds(f, 1, PowerStep(b), n)
    BY <2>2, RecursionExists
  <2>4. QED
    BY <2>3 DEF P
<1>2. \A k \in 0 .. n : f[k] = IF k = 0 THEN 1 ELSE b * f[k - 1]
  <2>1. ASSUME NEW k \in 0 .. n, k # 0 PROVE PowerStep(b)[<< f[k - 1], k >>] = b * f[k - 1]
    <3>1. k - 1 \in 0 .. n /\ k \in Nat
      BY <2>1
    <3>2. f[k - 1] \in Nat \ {0}
      BY <3>1
    <3>3. QED
      BY <3>1, <3>2, PowerStepFacts
  <2>2. \A k \in 0 .. n : f[k] = IF k = 0 THEN 1 ELSE PowerStep(b)[<< f[k - 1], k >>]
    BY <1>1 DEF Unfolds
  <2>3. QED
    BY <2>1, <2>2
<1>3. rec(f)
  BY <1>2
<1>4. rec(power)
  BY <1>3
<1>5. Power(b, n) = power[n]
  BY DEF Power
<1> HIDE DEF power
<1>6. \A k \in 0 .. n : power[k] = IF k = 0 THEN 1 ELSE b * power[k - 1]
  BY <1>4
<1> DEFINE S == {k \in Nat : k =< n => power[k] = f[k]}
<1>7. 0 \in S
  <2>1. 0 \in 0 .. n
    OBVIOUS
  <2>2. power[0] = 1 /\ f[0] = 1
    BY <1>2, <1>6, <2>1
  <2>3. QED
    BY <2>2
<1>8. ASSUME NEW k \in Nat, k \in S PROVE k + 1 \in S
  <2>1. SUFFICES ASSUME k + 1 =< n PROVE power[k + 1] = f[k + 1]
    OBVIOUS
  <2>2. power[k] = f[k]
    BY <1>8, <2>1
  <2>3. k + 1 \in 0 .. n /\ k + 1 # 0 /\ (k + 1) - 1 = k
    BY <2>1
  <2>4. power[k + 1] = b * power[k] /\ f[k + 1] = b * f[k]
    BY <1>2, <1>6, <2>3
  <2>5. QED
    BY <2>2, <2>4
<1> HIDE DEF S
<1>9. \A k \in Nat : k \in S
  BY <1>7, <1>8, SetInduction
<1>10. power[n] = f[n]
  BY <1>9 DEF S
<1>11. QED
  BY <1>1, <1>5, <1>10

LEMMA PowerZero ==
  ASSUME NEW b \in Nat \ {0}
  PROVE  Power(b, 0) = 1
<1>1. 0 \in Nat
  OBVIOUS
<1>2. PICK f \in [0 .. 0 -> Nat \ {0}] : Power(b, 0) = f[0] /\ Unfolds(f, 1, PowerStep(b), 0)
  BY <1>1, PowerUnfolds
<1>3. QED
  BY <1>2 DEF Unfolds

LEMMA PowerType ==
  ASSUME NEW b \in Nat \ {0}, NEW n \in Nat
  PROVE  Power(b, n) \in Nat \ {0}
<1>1. PICK f \in [0 .. n -> Nat \ {0}] : Power(b, n) = f[n]
  BY PowerUnfolds
<1>2. QED
  BY <1>1

LEMMA PowerNext ==
  ASSUME NEW b \in Nat \ {0}, NEW n \in Nat
  PROVE  Power(b, n + 1) = b * Power(b, n)
<1>1. PICK f \in [0 .. n -> Nat \ {0}] :
        Power(b, n) = f[n] /\ Unfolds(f, 1, PowerStep(b), n)
  BY PowerUnfolds
<1>2. PICK g \in [0 .. n + 1 -> Nat \ {0}] :
        Power(b, n + 1) = g[n + 1] /\ Unfolds(g, 1, PowerStep(b), n + 1)
  <2>1. n + 1 \in Nat
    OBVIOUS
  <2>2. QED
    BY <2>1, PowerUnfolds
<1>3. f[n] = g[n]
  <2>1. n + 1 \in Nat
    OBVIOUS
  <2>2. Unfolds(f, 1, PowerStep(b), n) /\ Unfolds(g, 1, PowerStep(b), n + 1)
    BY <1>1, <1>2
  <2>3. \A k \in Nat : k =< n /\ k =< n + 1 => f[k] = g[k]
    BY <2>1, <2>2, RecursionUnique, SMTT(30)
  <2>4. QED
    BY <2>3
<1>4. g[n + 1] = PowerStep(b)[<< g[n], n + 1 >>]
  BY <1>2 DEF Unfolds
<1>5. g[n] \in Nat \ {0} /\ n + 1 \in Nat
  OBVIOUS
<1>6. PowerStep(b)[<< g[n], n + 1 >>] = b * g[n]
  BY <1>5, PowerStepFacts
<1>7. QED
  BY <1>1, <1>2, <1>3, <1>4, <1>6

(* Exponents add. *)
LEMMA PowerSum ==
  ASSUME NEW b \in Nat \ {0}, NEW m \in Nat
  PROVE  \A n \in Nat : Power(b, m + n) = Power(b, m) * Power(b, n)
<1> DEFINE S == {n \in Nat : Power(b, m + n) = Power(b, m) * Power(b, n)}
<1>1. 0 \in S
  <2>1. Power(b, m) \in Nat /\ m + 0 = m /\ Power(b, 0) = 1
    BY PowerType, PowerZero
  <2>2. QED
    BY <2>1
<1>2. ASSUME NEW n \in Nat, n \in S PROVE n + 1 \in S
  <2>1. Power(b, m + n) = Power(b, m) * Power(b, n)
    BY <1>2
  <2>2. m + (n + 1) = (m + n) + 1 /\ m + n \in Nat
    OBVIOUS
  <2>3. Power(b, (m + n) + 1) = b * Power(b, m + n)
    BY <2>2, PowerNext
  <2>4. Power(b, n + 1) = b * Power(b, n)
    BY PowerNext
  <2>5. Power(b, m) \in Nat /\ Power(b, n) \in Nat
    BY PowerType
  <2>6. ASSUME NEW p \in Nat, NEW q \in Nat PROVE b * (p * q) = p * (b * q)
    OBVIOUS
  <2>7. QED
    BY <2>1, <2>2, <2>3, <2>4, <2>5, <2>6
<1> HIDE DEF S
<1>3. \A n \in Nat : n \in S
  BY <1>1, <1>2, SetInduction
<1>4. QED
  BY <1>3 DEF S

(* A power divides every higher one. *)
LEMMA PowerDivides ==
  ASSUME NEW b \in Nat \ {0}, NEW m \in Nat, NEW n \in Nat, m =< n
  PROVE  /\ Power(b, n) = Power(b, m) * Power(b, n - m)
         /\ Power(b, n) % Power(b, m) = 0
         /\ Power(b, m) =< Power(b, n)
<1>1. n - m \in Nat /\ m + (n - m) = n
  OBVIOUS
<1>2. Power(b, n) = Power(b, m) * Power(b, n - m)
  BY <1>1, PowerSum
<1>3. Power(b, m) \in Nat \ {0} /\ Power(b, n - m) \in Nat \ {0}
  BY <1>1, PowerType
<1>4. ASSUME NEW p \in Nat \ {0}, NEW q \in Nat \ {0}
      PROVE  (p * q) % p = 0 /\ p =< p * q
  <2>1. p =< p * q
    OBVIOUS
  <2>2. (p * q) \div p = q
    OBVIOUS
  <2>3. (p * q) % p = 0
    BY <2>2
  <2>4. QED
    BY <2>1, <2>3
<1>5. QED
  BY <1>2, <1>3, <1>4

(* The radix is a multiple of 10: the powers in u64_10_pows divide it. *)
LEMMA RadixFacts ==
  /\ RADIX \in Nat
  /\ RADIX >= 10
  /\ RADIX % 10 = 0
<1>1. DEC_DIGITS_PER_DIGIT \in Nat \ {0} /\ RADIX = Power(10, DEC_DIGITS_PER_DIGIT)
  BY RadixAssumption
<1>2. DEC_DIGITS_PER_DIGIT - 1 \in Nat /\ (DEC_DIGITS_PER_DIGIT - 1) + 1 = DEC_DIGITS_PER_DIGIT
  BY <1>1
<1>3. RADIX = 10 * Power(10, DEC_DIGITS_PER_DIGIT - 1)
  BY <1>1, <1>2, PowerNext
<1>4. Power(10, DEC_DIGITS_PER_DIGIT - 1) \in Nat \ {0}
  BY <1>2, PowerType
<1>5. QED
  BY <1>3, <1>4

LEMMA PowersOfTen ==
  ASSUME NEW n \in 0 .. DEC_DIGITS_PER_DIGIT
  PROVE  u64_10_pow_n(n) \in Nat \ {0} /\ RADIX % u64_10_pow_n(n) = 0
<1>1. n \in Nat /\ DEC_DIGITS_PER_DIGIT \in Nat /\ n =< DEC_DIGITS_PER_DIGIT
  BY RadixAssumption
<1>2. Power(10, n) \in Nat \ {0}
  BY <1>1, PowerType
<1>3. Power(10, DEC_DIGITS_PER_DIGIT) % Power(10, n) = 0
  BY <1>1, PowerDivides
<1>4. QED
  BY <1>2, <1>3, RadixAssumption DEF u64_10_pow_n

-----------------------------------------------------------------------------
(* Arithmetic with digits. *)

(* The facts about the constants which the proofs use. *)
LEMMA Constants ==
  /\ RADIX \in Nat /\ U64 \in Nat
  /\ RADIX >= 10
  /\ RADIX < U64 /\ U64 < 2 * RADIX
  /\ MAX_DIGIT = RADIX - 1
BY RadixFacts, WordAssumption DEF MAX_DIGIT

(***************************************************************************)
(* The sum of two digits and a carry, wrapped to a word: the comparisons   *)
(* of the code find the carry, and the digit that remains is proper.       *)
(***************************************************************************)
LEMMA DigitSum ==
  ASSUME NEW a \in 0 .. RADIX - 1, NEW b \in 0 .. RADIX - 1, NEW c \in 0 .. 1
  PROVE  LET sum == (a + b + c) % U64
             k == IF sum < b \/ sum >= RADIX THEN 1 ELSE 0
         IN  /\ (sum - k * RADIX) % U64 \in 0 .. RADIX - 1
             /\ ((sum - k * RADIX) % U64) + k * RADIX = a + b + c
<1> DEFINE s == a + b + c
<1> USE Constants
<1>1. CASE s < RADIX
  <2>1. s % U64 = s
    BY <1>1
  <2>2. QED
    BY <1>1, <2>1
<1>2. CASE s >= RADIX /\ s < U64
  <2>1. s % U64 = s
    BY <1>2
  <2>2. s - RADIX \in 0 .. RADIX - 1
    BY <1>2
  <2>3. (s - RADIX) % U64 = s - RADIX
    BY <2>2
  <2>4. QED
    BY <1>2, <2>1, <2>2, <2>3
<1>3. CASE s >= U64
  <2>1. s % U64 = s - U64
    BY <1>3
  <2>2. s - U64 < b
    OBVIOUS
  <2>3. (s - U64 - RADIX) % U64 = s - RADIX
    BY <1>3
  <2>4. QED
    BY <1>3, <2>1, <2>2, <2>3
<1>4. QED
  BY <1>1, <1>2, <1>3

(* The same for a difference and a borrow. *)
LEMMA DigitDifference ==
  ASSUME NEW a \in 0 .. RADIX - 1, NEW b \in 0 .. RADIX - 1, NEW c \in 0 .. 1
  PROVE  LET d == (a - (b + c)) % U64
             k == IF d > a THEN 1 ELSE 0
         IN  /\ (d + k * RADIX) % U64 \in 0 .. RADIX - 1
             /\ ((d + k * RADIX) % U64) - k * RADIX = a - (b + c)
             /\ k = 0 <=> a >= b + c
<1> USE Constants
<1>1. CASE a >= b + c
  <2>1. (a - (b + c)) % U64 = a - (b + c)
    BY <1>1
  <2>2. QED
    BY <1>1, <2>1
<1>2. CASE a < b + c
  <2>1. (a - (b + c)) % U64 = a - (b + c) + U64
    BY <1>2
  <2>2. a - (b + c) + U64 > a
    BY <1>2
  <2>3. (a - (b + c) + U64 + RADIX) % U64 = a - (b + c) + RADIX
    BY <1>2
  <2>4. QED
    BY <1>2, <2>1, <2>2, <2>3
<1>3. QED
  BY <1>1, <1>2

(* A product of digits and what is added to it splits into two digits. *)
LEMMA ProductSplit ==
  ASSUME NEW m \in 1 .. RADIX, NEW t \in Nat, t < RADIX * m
  PROVE  t % RADIX \in 0 .. RADIX - 1 /\ t \div RADIX \in 0 .. m - 1
<1> USE Constants
<1>1. t % RADIX \in 0 .. RADIX - 1
  OBVIOUS
<1>2. t \div RADIX \in Nat
  OBVIOUS
<1>3. RADIX * (t \div RADIX) =< t
  OBVIOUS
<1>4. ASSUME t \div RADIX >= m PROVE FALSE
  <2>1. RADIX * (t \div RADIX) >= RADIX * m
    BY <1>2, <1>4
  <2>2. QED
    BY <1>2, <1>3, <2>1
<1>5. QED
  BY <1>1, <1>2, <1>4

(* Dividing a remainder and the next digit gives a digit and a remainder. *)
LEMMA ShortDivision ==
  ASSUME NEW m \in 1 .. RADIX - 1, NEW c \in 0 .. m - 1, NEW b \in 0 .. RADIX - 1
  PROVE  /\ (c * RADIX + b) \div m \in 0 .. RADIX - 1
         /\ (c * RADIX + b) % m \in 0 .. m - 1
<1> USE Constants
<1> DEFINE u == c * RADIX + b
<1>1. u \in Nat /\ u < m * RADIX
  <2>1. c * RADIX \in Nat /\ c * RADIX =< (m - 1) * RADIX
    OBVIOUS
  <2>2. (m - 1) * RADIX = m * RADIX - RADIX
    OBVIOUS
  <2>3. ASSUME NEW p \in Nat, NEW v \in Int, p =< v - RADIX
        PROVE  p + b \in Nat /\ p + b < v
    BY <2>3
  <2>4. m * RADIX \in Int /\ c * RADIX =< m * RADIX - RADIX
    BY <2>1, <2>2
  <2>5. QED
    BY <2>1, <2>3, <2>4
<1> HIDE DEF u
<1>2. u \div m \in Nat /\ m * (u \div m) =< u /\ u % m \in 0 .. m - 1
  BY <1>1
<1>3. ASSUME u \div m >= RADIX PROVE FALSE
  <2>1. m * (u \div m) >= m * RADIX
    BY <1>2, <1>3
  <2>2. QED
    BY <1>1, <1>2, <2>1
<1>4. QED
  BY <1>2, <1>3 DEF u

(* A digit times a factor, and a carry below the factor. *)
LEMMA ScaledDigit ==
  ASSUME NEW m \in 1 .. RADIX - 1, NEW a \in 0 .. RADIX - 1, NEW c \in 0 .. m - 1
  PROVE  /\ (a * m + c) % RADIX \in 0 .. RADIX - 1
         /\ (a * m + c) \div RADIX \in 0 .. m - 1
<1> USE Constants
<1> DEFINE t == a * m + c
<1>1. t \in Nat /\ t < RADIX * m
  <2>1. a * m \in Nat /\ a * m =< (RADIX - 1) * m
    OBVIOUS
  <2>2. (RADIX - 1) * m = RADIX * m - m
    OBVIOUS
  <2>3. ASSUME NEW p \in Nat, NEW v \in Int, p =< v - m
        PROVE  p + c \in Nat /\ p + c < v
    BY <2>3
  <2>4. RADIX * m \in Int /\ a * m =< RADIX * m - m
    BY <2>1, <2>2
  <2>5. QED
    BY <2>1, <2>3, <2>4
<1> HIDE DEF t
<1>2. t % RADIX \in 0 .. RADIX - 1 /\ t \div RADIX \in 0 .. m - 1
  <2>1. m \in 1 .. RADIX
    OBVIOUS
  <2> HIDE Constants
  <2>2. QED
    BY <1>1, <2>1, ProductSplit
<1>3. QED
  BY <1>2 DEF t

-----------------------------------------------------------------------------
(* Weights. *)
LEMMA WeightFacts ==
  ASSUME NEW k \in Nat
  PROVE  /\ Weight(k) \in Nat \ {0}
         /\ Weight(k + 1) = RADIX * Weight(k)
         /\ k > 0 => Weight(k) = RADIX * Weight(k - 1)
<1>1. RADIX \in Nat \ {0}
  BY Constants
<1>2. Weight(k) \in Nat \ {0} /\ Weight(k + 1) = RADIX * Weight(k)
  BY <1>1, PowerType, PowerNext DEF Weight
<1>3. k > 0 => k - 1 \in Nat /\ (k - 1) + 1 = k
  OBVIOUS
<1>4. k > 0 => Weight(k) = RADIX * Weight(k - 1)
  BY <1>1, <1>3, PowerNext DEF Weight
<1>5. QED
  BY <1>2, <1>4

LEMMA WeightZero == Weight(0) = 1
<1>1. RADIX \in Nat \ {0}
  BY Constants
<1>2. QED
  BY <1>1, PowerZero DEF Weight

LEMMA WeightSplit ==
  ASSUME NEW m \in Nat, NEW n \in Nat, m =< n
  PROVE  Weight(n) = Weight(m) * Weight(n - m) /\ Weight(m) =< Weight(n)
<1>1. RADIX \in Nat \ {0}
  BY Constants
<1>2. QED
  BY <1>1, PowerDivides DEF Weight

-----------------------------------------------------------------------------
(* What digit k of the first top digits adds to the value. *)
Term(d, top) == [p \in Int \X Nat |->
                   p[1] + IF p[2] \in 1 .. top THEN d[p[2] - 1] * Weight(p[2] - 1) ELSE 0]

(* The first n digits are integers. *)
Integral(d, n) == \A k \in 0 .. n - 1 : d[k] \in Int

LEMMA TermFacts ==
  ASSUME NEW d, NEW top \in Nat, Integral(d, top)
  PROVE  /\ Term(d, top) \in [Int \X Nat -> Int]
         /\ \A v \in Int, k \in 1 .. top :
              Term(d, top)[<< v, k >>] = v + d[k - 1] * Weight(k - 1)
<1>1. ASSUME NEW k \in 1 .. top PROVE d[k - 1] * Weight(k - 1) \in Int
  <2>1. k - 1 \in 0 .. top - 1 /\ k - 1 \in Nat
    OBVIOUS
  <2>2. d[k - 1] \in Int /\ Weight(k - 1) \in Nat
    BY <2>1, WeightFacts DEF Integral
  <2>3. QED
    BY <2>2
<1>2. ASSUME NEW p \in Int \X Nat
      PROVE  p[1] + (IF p[2] \in 1 .. top THEN d[p[2] - 1] * Weight(p[2] - 1) ELSE 0) \in Int
  <2>1. CASE p[2] \in 1 .. top
    BY <1>1, <2>1
  <2>2. CASE p[2] \notin 1 .. top
    BY <2>2
  <2>3. QED
    BY <2>1, <2>2
<1>3. Term(d, top) \in [Int \X Nat -> Int]
  BY <1>2 DEF Term
<1>4. ASSUME NEW v \in Int, NEW k \in 1 .. top
      PROVE  Term(d, top)[<< v, k >>] = v + d[k - 1] * Weight(k - 1)
  <2>1. << v, k >> \in Int \X Nat
    OBVIOUS
  <2>2. QED
    BY <2>1 DEF Term
<1>5. QED
  BY <1>3, <1>4

LEMMA ValueUnfolds ==
  ASSUME NEW d, NEW top \in Nat, Integral(d, top), NEW n \in Nat, n =< top
  PROVE  \E f \in [0 .. n -> Int] :
           ValueOf(d, n) = f[n] /\ Unfolds(f, 0, Term(d, top), n)
<1> DEFINE rec(f) == f = [k \in 0 .. n |-> IF k = 0 THEN 0 ELSE f[k - 1] + d[k - 1] * Weight(k - 1)]
<1> DEFINE low == CHOOSE f : rec(f)
<1>1. PICK f \in [0 .. n -> Int] : Unfolds(f, 0, Term(d, top), n)
  <2>1. Term(d, top) \in [Int \X Nat -> Int] /\ 0 \in Int
    BY TermFacts
  <2>2. QED
    BY <2>1, RecursionExists
<1>2. \A k \in 0 .. n : f[k] = IF k = 0 THEN 0 ELSE f[k - 1] + d[k - 1] * Weight(k - 1)
  <2>1. ASSUME NEW k \in 0 .. n, k # 0
        PROVE  Term(d, top)[<< f[k - 1], k >>] = f[k - 1] + d[k - 1] * Weight(k - 1)
    <3>1. k - 1 \in 0 .. n /\ k \in 1 .. top
      BY <2>1
    <3>2. f[k - 1] \in Int
      BY <3>1
    <3>3. QED
      BY <3>1, <3>2, TermFacts
  <2>2. \A k \in 0 .. n : f[k] = IF k = 0 THEN 0 ELSE Term(d, top)[<< f[k - 1], k >>]
    BY <1>1 DEF Unfolds
  <2>3. QED
    BY <2>1, <2>2
<1>3. rec(f)
  BY <1>2
<1>4. rec(low)
  BY <1>3
<1>5. ValueOf(d, n) = low[n]
  BY DEF ValueOf
<1> HIDE DEF low
<1>6. \A k \in 0 .. n : low[k] = IF k = 0 THEN 0 ELSE low[k - 1] + d[k - 1] * Weight(k - 1)
  BY <1>4
<1> DEFINE S == {k \in Nat : k =< n => low[k] = f[k]}
<1>7. 0 \in S
  <2>1. 0 \in 0 .. n
    OBVIOUS
  <2>2. low[0] = 0 /\ f[0] = 0
    BY <1>2, <1>6, <2>1
  <2>3. QED
    BY <2>2
<1>8. ASSUME NEW k \in Nat, k \in S PROVE k + 1 \in S
  <2>1. SUFFICES ASSUME k + 1 =< n PROVE low[k + 1] = f[k + 1]
    OBVIOUS
  <2>2. low[k] = f[k]
    BY <1>8, <2>1
  <2>3. k + 1 \in 0 .. n /\ k + 1 # 0 /\ (k + 1) - 1 = k
    BY <2>1
  <2>4. low[k + 1] = low[k] + d[k] * Weight(k) /\ f[k + 1] = f[k] + d[k] * Weight(k)
    BY <1>2, <1>6, <2>3
  <2>5. QED
    BY <2>2, <2>4
<1> HIDE DEF S
<1>9. \A k \in Nat : k \in S
  BY <1>7, <1>8, SetInduction
<1>10. low[n] = f[n]
  BY <1>9 DEF S
<1>11. QED
  BY <1>1, <1>5, <1>10

(***************************************************************************)
(* The value of n + 1 digits is the one of n digits and the digit on top.  *)
(***************************************************************************)
LEMMA ValueType ==
  ASSUME NEW d, NEW n \in Nat, Integral(d, n)
  PROVE  ValueOf(d, n) \in Int
<1>1. PICK f \in [0 .. n -> Int] : ValueOf(d, n) = f[n]
  BY ValueUnfolds
<1>2. QED
  BY <1>1

LEMMA ValueZero == \A d : ValueOf(d, 0) = 0
<1> SUFFICES ASSUME NEW d PROVE ValueOf(d, 0) = 0
  OBVIOUS
<1>1. Integral(d, 0) /\ 0 \in Nat /\ 0 =< 0
  BY DEF Integral
<1>2. PICK f \in [0 .. 0 -> Int] : ValueOf(d, 0) = f[0] /\ Unfolds(f, 0, Term(d, 0), 0)
  BY <1>1, ValueUnfolds
<1>3. QED
  BY <1>2 DEF Unfolds

LEMMA ValueNext ==
  ASSUME NEW d, NEW n \in Nat, Integral(d, n + 1)
  PROVE  ValueOf(d, n + 1) = ValueOf(d, n) + d[n] * Weight(n)
<1>1. n + 1 \in Nat /\ n =< n + 1
  OBVIOUS
<1>2. PICK f \in [0 .. n -> Int] :
        ValueOf(d, n) = f[n] /\ Unfolds(f, 0, Term(d, n + 1), n)
  <2> DEFINE top == n + 1
  <2>1. top \in Nat /\ n =< top /\ Integral(d, top)
    BY <1>1
  <2> HIDE DEF top
  <2>2. \E f \in [0 .. n -> Int] : ValueOf(d, n) = f[n] /\ Unfolds(f, 0, Term(d, top), n)
    BY <2>1, ValueUnfolds
  <2>3. QED
    BY <2>2 DEF top
<1>3. PICK g \in [0 .. n + 1 -> Int] :
        ValueOf(d, n + 1) = g[n + 1] /\ Unfolds(g, 0, Term(d, n + 1), n + 1)
  <2> DEFINE top == n + 1
  <2>1. top \in Nat /\ top =< top /\ Integral(d, top)
    BY <1>1
  <2> HIDE DEF top
  <2>2. \E g \in [0 .. top -> Int] :
          ValueOf(d, top) = g[top] /\ Unfolds(g, 0, Term(d, top), top)
    BY <2>1, ValueUnfolds
  <2>3. QED
    BY <2>2 DEF top
<1>4. Unfolds(f, 0, Term(d, n + 1), n) /\ Unfolds(g, 0, Term(d, n + 1), n + 1)
  BY <1>2, <1>3
<1>5. \A k \in Nat : k =< n /\ k =< n + 1 => f[k] = g[k]
  BY <1>1, <1>4, RecursionUnique, SMTT(30)
<1>6. f[n] = g[n]
  BY <1>5
<1>7. g[n + 1] = Term(d, n + 1)[<< g[n], n + 1 >>]
  <2>1. n + 1 \in 0 .. n + 1 /\ n + 1 # 0 /\ (n + 1) - 1 = n
    OBVIOUS
  <2>2. QED
    BY <1>4, <2>1 DEF Unfolds
<1>8. g[n] \in Int /\ n + 1 \in 1 .. n + 1 /\ (n + 1) - 1 = n
  OBVIOUS
<1>9. Term(d, n + 1)[<< g[n], n + 1 >>] = g[n] + d[n] * Weight(n)
  BY <1>1, <1>8, TermFacts
<1>10. QED
  BY <1>2, <1>3, <1>6, <1>7, <1>9

-----------------------------------------------------------------------------
(***************************************************************************)
(* Consequences, each by induction on the number of digits.                *)
(***************************************************************************)
(* Only the digits counted matter. *)
LEMMA ValueSame ==
  ASSUME NEW d, NEW e, NEW n \in Nat, Integral(d, n),
         \A k \in 0 .. n - 1 : d[k] = e[k]
  PROVE  ValueOf(d, n) = ValueOf(e, n)
<1> DEFINE S == {m \in Nat : m =< n => ValueOf(d, m) = ValueOf(e, m)}
<1>1. 0 \in S
  BY ValueZero
<1>2. ASSUME NEW m \in Nat, m \in S PROVE m + 1 \in S
  <2>1. SUFFICES ASSUME m + 1 =< n PROVE ValueOf(d, m + 1) = ValueOf(e, m + 1)
    OBVIOUS
  <2>2. ValueOf(d, m) = ValueOf(e, m)
    BY <1>2, <2>1
  <2>3. Integral(d, m + 1) /\ Integral(e, m + 1) /\ d[m] = e[m]
    BY <2>1 DEF Integral
  <2>4. ValueOf(d, m + 1) = ValueOf(d, m) + d[m] * Weight(m)
    BY <2>3, ValueNext
  <2>5. ValueOf(e, m + 1) = ValueOf(e, m) + e[m] * Weight(m)
    BY <2>3, ValueNext
  <2>6. QED
    BY <2>2, <2>3, <2>4, <2>5
<1> HIDE DEF S
<1>3. \A m \in Nat : m \in S
  BY <1>1, <1>2, SetInduction
<1>4. QED
  BY <1>3 DEF S

(* All digits from 0 to n - 1 are digits of the radix. *)
Digital(d, n) == \A k \in 0 .. n - 1 : d[k] \in 0 .. RADIX - 1

LEMMA DigitalIntegral ==
  ASSUME NEW d, NEW n \in Nat, Digital(d, n)
  PROVE  \A m \in 0 .. n : Digital(d, m) /\ Integral(d, m)
BY Constants DEF Digital, Integral

LEMMA DigitalRange ==
  ASSUME NEW a \in Nat, NEW w \in Nat, a < w, NEW b \in 0 .. RADIX - 1
  PROVE  a + b * w \in Nat /\ a + b * w < RADIX * w
<1>1. b * w \in Nat /\ (RADIX - 1) * w = RADIX * w - w /\ b * w =< (RADIX - 1) * w
  BY Constants
<1>2. QED
  BY <1>1, Constants

LEMMA ValueRange ==
  ASSUME NEW d, NEW n \in Nat, Digital(d, n)
  PROVE  ValueOf(d, n) \in Nat /\ ValueOf(d, n) < Weight(n)
<1> DEFINE S == {m \in Nat : m =< n => ValueOf(d, m) \in Nat /\ ValueOf(d, m) < Weight(m)}
<1>1. 0 \in S
  BY ValueZero, WeightZero
<1>2. ASSUME NEW m \in Nat, m \in S PROVE m + 1 \in S
  <2>1. SUFFICES ASSUME m + 1 =< n
                 PROVE  ValueOf(d, m + 1) \in Nat /\ ValueOf(d, m + 1) < Weight(m + 1)
    OBVIOUS
  <2>2. ValueOf(d, m) \in Nat /\ ValueOf(d, m) < Weight(m)
    BY <1>2, <2>1
  <2>3. d[m] \in 0 .. RADIX - 1 /\ m + 1 \in 0 .. n
    BY <2>1 DEF Digital
  <2>4. ValueOf(d, m + 1) = ValueOf(d, m) + d[m] * Weight(m)
    BY <2>3, DigitalIntegral, ValueNext
  <2>5. Weight(m) \in Nat /\ Weight(m + 1) = RADIX * Weight(m)
    BY WeightFacts
  <2>6. QED
    BY <2>2, <2>3, <2>4, <2>5, DigitalRange
<1> HIDE DEF S
<1>3. \A m \in Nat : m \in S
  BY <1>1, <1>2, SetInduction
<1>4. QED
  BY <1>3 DEF S

(* Zeros on top add nothing. *)
LEMMA ValueZeros ==
  ASSUME NEW d, NEW m \in Nat, NEW n \in Nat, m =< n, Integral(d, n),
         \A k \in m .. n - 1 : d[k] = 0
  PROVE  ValueOf(d, n) = ValueOf(d, m)
<1> DEFINE S == {k \in Nat : m + k =< n => ValueOf(d, m + k) = ValueOf(d, m)}
<1>1. 0 \in S
  OBVIOUS
<1>2. ASSUME NEW k \in Nat, k \in S PROVE k + 1 \in S
  <2>1. SUFFICES ASSUME m + (k + 1) =< n PROVE ValueOf(d, m + (k + 1)) = ValueOf(d, m)
    OBVIOUS
  <2>2. ValueOf(d, m + k) = ValueOf(d, m)
    BY <1>2, <2>1
  <2>3. m + k \in Nat /\ m + k \in m .. n - 1 /\ m + (k + 1) = (m + k) + 1
    BY <2>1
  <2>4. Integral(d, (m + k) + 1)
    BY <2>3 DEF Integral
  <2>5. ValueOf(d, (m + k) + 1) = ValueOf(d, m + k) + d[m + k] * Weight(m + k)
    BY <2>3, <2>4, ValueNext
  <2>6. d[m + k] = 0 /\ Weight(m + k) \in Nat
    BY <2>3, WeightFacts
  <2>7. Integral(d, m)
    BY DEF Integral
  <2>8. ValueOf(d, m) \in Int
    BY <2>7, ValueType
  <2>9. d[m + k] * Weight(m + k) = 0
    BY <2>6
  <2>10. QED
    BY <2>2, <2>3, <2>5, <2>8, <2>9
<1> HIDE DEF S
<1>3. \A k \in Nat : k \in S
  BY <1>1, <1>2, SetInduction
<1>4. n - m \in Nat /\ m + (n - m) = n
  OBVIOUS
<1>5. QED
  BY <1>3, <1>4 DEF S

(* The digits from m on. *)
From(d, m) == [k \in Nat |-> d[m + k]]

(* An array splits into its low and its high digits. *)
LEMMA ValueSplit ==
  ASSUME NEW d, NEW m \in Nat, NEW n \in Nat, m =< n, Integral(d, n)
  PROVE  /\ ValueOf(d, n) = ValueOf(d, m) + ValueOf(From(d, m), n - m) * Weight(m)
         /\ Integral(d, m) /\ Integral(From(d, m), n - m)
<1> DEFINE h == From(d, m)
<1> DEFINE S == {k \in Nat : m + k =< n =>
                   ValueOf(d, m + k) = ValueOf(d, m) + ValueOf(h, k) * Weight(m)}
<1>1. Integral(d, m) /\ Integral(h, n - m)
  BY DEF Integral, From
<1>2. ValueOf(d, m) \in Int
  BY <1>1, ValueType
<1>3. Weight(m) \in Nat
  BY WeightFacts
<1>4. 0 \in S
  <2>1. ValueOf(h, 0) = 0
    BY ValueZero
  <2> HIDE DEF h
  <2>2. QED
    BY <1>2, <1>3, <2>1
<1>5. ASSUME NEW k \in Nat, k \in S PROVE k + 1 \in S
  <2>1. SUFFICES ASSUME m + (k + 1) =< n
                 PROVE  ValueOf(d, m + (k + 1)) = ValueOf(d, m) + ValueOf(h, k + 1) * Weight(m)
    OBVIOUS
  <2>2. ValueOf(d, m + k) = ValueOf(d, m) + ValueOf(h, k) * Weight(m)
    BY <1>5, <2>1
  <2>3. h[k] = d[m + k]
    BY DEF From
  <2> HIDE DEF h
  <2>4. m + k \in Nat /\ m + k \in 0 .. n - 1 /\ m + (k + 1) = (m + k) + 1
    BY <2>1
  <2>5. Integral(d, (m + k) + 1) /\ Integral(h, k + 1) /\ Integral(h, k) /\ d[m + k] \in Int
    BY <1>1, <2>4 DEF Integral
  <2>6. ValueOf(d, (m + k) + 1) = ValueOf(d, m + k) + d[m + k] * Weight(m + k)
    BY <2>4, <2>5, ValueNext
  <2>7. ValueOf(h, k + 1) = ValueOf(h, k) + h[k] * Weight(k)
    BY <2>5, ValueNext
  <2>8. Weight(m + k) = Weight(m) * Weight(k)
    <3>1. m =< m + k /\ (m + k) - m = k
      OBVIOUS
    <3>2. QED
      BY <2>4, <3>1, WeightSplit
  <2>9. Weight(k) \in Nat /\ ValueOf(h, k) \in Int
    BY <2>5, WeightFacts, ValueType
  <2>10. ASSUME NEW v \in Int, NEW b \in Int, NEW u \in Int, NEW w \in Nat, NEW t \in Nat
         PROVE  v + u * w + b * (w * t) = v + (u + b * t) * w
    OBVIOUS
  <2>11. QED
    BY <1>2, <1>3, <2>2, <2>3, <2>4, <2>5, <2>6, <2>7, <2>8, <2>9, <2>10
<1> HIDE DEF S, h
<1>6. \A k \in Nat : k \in S
  BY <1>4, <1>5, SetInduction
<1>7. n - m \in Nat /\ m + (n - m) = n
  OBVIOUS
<1>8. QED
  BY <1>1, <1>6, <1>7 DEF S, h

(* Quotient and remainder of a number whose low part is below the divisor. *)
LEMMA LowAndHigh ==
  ASSUME NEW w \in Nat \ {0}, NEW a \in Nat, a < w, NEW b \in Nat,
         NEW v \in Int, v = a + b * w
  PROVE  v \div w = b /\ v % w = a
<1>1. a + b * w \in Nat /\ b * w =< a + b * w /\ a + b * w < (b + 1) * w
  <2>1. b * w \in Nat /\ (b + 1) * w = b * w + w
    OBVIOUS
  <2>2. QED
    BY <2>1
<1>2. (a + b * w) \div w = b
  BY <1>1
<1>3. QED
  BY <1>2

LEMMA ValueDivides ==
  ASSUME NEW d, NEW m \in Nat, NEW n \in Nat, m =< n, Digital(d, n)
  PROVE  /\ ValueOf(d, n) \div Weight(m) = ValueOf(From(d, m), n - m)
         /\ ValueOf(d, n) % Weight(m) = ValueOf(d, m)
         /\ Digital(From(d, m), n - m)
<1>1. Digital(From(d, m), n - m) /\ Digital(d, m) /\ Integral(d, n)
  BY Constants DEF Digital, Integral, From
<1>2. n - m \in Nat
  OBVIOUS
<1>3. ValueOf(d, m) \in Nat /\ ValueOf(d, m) < Weight(m)
  BY <1>1, ValueRange
<1>4. ValueOf(From(d, m), n - m) \in Nat
  BY <1>1, <1>2, ValueRange
<1>5. Weight(m) \in Nat \ {0}
  BY WeightFacts
<1>6. ValueOf(d, n) = ValueOf(d, m) + ValueOf(From(d, m), n - m) * Weight(m)
  BY <1>1, ValueSplit
<1>7. ValueOf(d, n) \in Int
  BY <1>1, ValueType
<1>8. /\ ValueOf(d, n) \div Weight(m) = ValueOf(From(d, m), n - m)
      /\ ValueOf(d, n) % Weight(m) = ValueOf(d, m)
  BY <1>3, <1>4, <1>5, <1>6, <1>7, LowAndHigh
<1>9. QED
  BY <1>1, <1>8

(* DigitAt finds the digits, and zeros above them. *)
LEMMA DigitAtDigit ==
  ASSUME NEW d, NEW n \in Nat, Digital(d, n), NEW k \in Nat
  PROVE  DigitAt(ValueOf(d, n), k) = IF k < n THEN d[k] ELSE 0
<1>1. CASE k < n
  <2> DEFINE h == From(d, k)
  <2>0. k =< n
    BY <1>1
  <2>1. Digital(h, n - k) /\ ValueOf(d, n) \div Weight(k) = ValueOf(h, n - k)
    BY <2>0, ValueDivides
  <2>7. h[0] = d[k]
    BY DEF From
  <2> HIDE DEF h
  <2>2. n - k \in Nat /\ 1 =< n - k /\ 1 \in Nat
    BY <1>1
  <2>3. ValueOf(h, n - k) % Weight(1) = ValueOf(h, 1)
    BY <2>1, <2>2, ValueDivides
  <2>4. Weight(1) = RADIX
    <3>1. Weight(0 + 1) = RADIX * Weight(0)
      BY WeightFacts
    <3>2. QED
      BY <3>1, WeightZero, Constants
  <2>5. ValueOf(h, 1) = h[0]
    <3>1. Integral(h, 0 + 1) /\ h[0] \in Int
      BY <2>1, <2>2, Constants DEF Digital, Integral
    <3>2. ValueOf(h, 0 + 1) = ValueOf(h, 0) + h[0] * Weight(0)
      BY <3>1, ValueNext
    <3>3. QED
      BY <3>1, <3>2, ValueZero, WeightZero
  <2>6. QED
    BY <1>1, <2>1, <2>3, <2>4, <2>5, <2>7 DEF DigitAt
<1>2. CASE k >= n
  <2>1. ValueOf(d, n) \in Nat /\ ValueOf(d, n) < Weight(n)
    BY ValueRange
  <2>2. Weight(n) =< Weight(k) /\ Weight(k) \in Nat \ {0} /\ Weight(n) \in Nat
    BY <1>2, WeightSplit, WeightFacts
  <2>3. ASSUME NEW v \in Nat, NEW w \in Nat \ {0}, v < w PROVE v \div w = 0
    BY <2>3
  <2>4. ValueOf(d, n) \div Weight(k) = 0
    BY <2>1, <2>2, <2>3
  <2>5. 0 % RADIX = 0
    BY Constants
  <2>6. QED
    BY <1>2, <2>4, <2>5 DEF DigitAt
<1>3. QED
  BY <1>1, <1>2

(* What the digits from m on stand for depends on them alone. *)
LEMMA ValueHigh ==
  ASSUME NEW d, NEW e, NEW m \in Nat, NEW n \in Nat, m =< n,
         Integral(d, n), Integral(e, n), \A k \in m .. n - 1 : d[k] = e[k]
  PROVE  ValueOf(d, n) - ValueOf(d, m) = ValueOf(e, n) - ValueOf(e, m)
<1> DEFINE f == From(d, m)
<1> DEFINE g == From(e, m)
<1>1. ValueOf(d, n) = ValueOf(d, m) + ValueOf(f, n - m) * Weight(m)
      /\ Integral(d, m) /\ Integral(f, n - m)
  BY ValueSplit
<1>2. ValueOf(e, n) = ValueOf(e, m) + ValueOf(g, n - m) * Weight(m)
      /\ Integral(e, m) /\ Integral(g, n - m)
  BY ValueSplit
<1>3. \A k \in 0 .. (n - m) - 1 : f[k] = g[k]
  BY DEF From
<1> HIDE DEF f, g
<1>4. n - m \in Nat
  OBVIOUS
<1>5. ValueOf(f, n - m) = ValueOf(g, n - m)
  BY <1>1, <1>3, <1>4, ValueSame
<1>6. ValueOf(d, m) \in Int /\ ValueOf(e, m) \in Int /\ ValueOf(g, n - m) \in Int
  BY <1>1, <1>2, <1>4, ValueType
<1>7. Weight(m) \in Nat
  BY WeightFacts
<1> DEFINE p == ValueOf(g, n - m) * Weight(m)
<1>8. p \in Int
  BY <1>6, <1>7
<1>9. ValueOf(d, n) = ValueOf(d, m) + p /\ ValueOf(e, n) = ValueOf(e, m) + p
  BY <1>1, <1>2, <1>5
<1> HIDE DEF p
<1>10. QED
  BY <1>6, <1>8, <1>9

(* The most significant digit in which two arrays differ decides. *)
LEMMA ValueOrder ==
  ASSUME NEW d, NEW e, NEW n \in Nat, Digital(d, n), Digital(e, n),
         NEW p \in 0 .. n - 1, e[p] < d[p], \A k \in p + 1 .. n - 1 : d[k] = e[k]
  PROVE  ValueOf(e, n) < ValueOf(d, n)
<1>1. p \in Nat /\ p + 1 \in Nat /\ p + 1 =< n
  OBVIOUS
<1>2. Integral(d, n) /\ Integral(e, n)
  BY DigitalIntegral
<1>3. /\ Digital(d, p) /\ Digital(e, p) /\ Integral(d, p + 1) /\ Integral(e, p + 1)
      /\ d[p] \in 0 .. RADIX - 1 /\ e[p] \in 0 .. RADIX - 1
  BY <1>1, DigitalIntegral DEF Digital
<1>4. ValueOf(d, n) - ValueOf(d, p + 1) = ValueOf(e, n) - ValueOf(e, p + 1)
  BY <1>1, <1>2, ValueHigh
<1>5. ValueOf(d, p + 1) = ValueOf(d, p) + d[p] * Weight(p)
  BY <1>1, <1>3, ValueNext
<1>6. ValueOf(e, p + 1) = ValueOf(e, p) + e[p] * Weight(p)
  BY <1>1, <1>3, ValueNext
<1>7. ValueOf(d, p) \in Nat /\ ValueOf(e, p) \in Nat /\ ValueOf(e, p) < Weight(p)
  BY <1>1, <1>3, ValueRange
<1>8. Weight(p) \in Nat
  BY <1>1, WeightFacts
<1>9. ASSUME NEW a \in Nat, NEW b \in Nat, a < b, NEW w \in Nat PROVE a * w + w =< b * w
  <2>1. a + 1 =< b /\ (a + 1) * w = a * w + w
    BY <1>9
  <2>2. (a + 1) * w =< b * w
    BY <2>1
  <2>3. QED
    BY <2>1, <2>2
<1>10. e[p] * Weight(p) + Weight(p) =< d[p] * Weight(p)
  <2>1. e[p] \in Nat /\ d[p] \in Nat
    BY <1>3, Constants
  <2>2. QED
    BY <1>8, <1>9, <2>1
<1>11. ValueOf(d, n) \in Int /\ ValueOf(e, n) \in Int
  BY <1>2, ValueType
<1>12. e[p] * Weight(p) \in Int /\ d[p] * Weight(p) \in Int
  BY <1>3, <1>8, Constants
<1>13. ValueOf(e, p + 1) < ValueOf(d, p + 1)
       /\ ValueOf(e, p + 1) \in Int /\ ValueOf(d, p + 1) \in Int
  BY <1>5, <1>6, <1>7, <1>8, <1>10, <1>12
<1>14. QED
  BY <1>4, <1>11, <1>13

-----------------------------------------------------------------------------
(***************************************************************************)
(* Rounding one digit decides as rounding the number would: what is cut    *)
(* off is w * rem and low, low is 0 exactly if no digit follows (delta),   *)
(* and the quotients agree in the last decimal digit.                      *)
(***************************************************************************)
LEMMA LastDigit ==
  ASSUME NEW p \in Nat, NEW q \in Nat, p % 10 = q % 10
  PROVE  /\ p % 10 \in {0, 5} <=> q % 5 = 0
         /\ p % 2 = 1 <=> q % 2 # 0
<1>1. PICK r \in 0 .. 9 : p % 10 = r /\ q % 10 = r
  OBVIOUS
<1>2. PICK a \in Nat : p = 10 * a + r
  <2>1. p = 10 * (p \div 10) + r /\ p \div 10 \in Nat
    BY <1>1
  <2>2. QED
    BY <2>1
<1>3. PICK b \in Nat : q = 10 * b + r
  <2>1. q = 10 * (q \div 10) + r /\ q \div 10 \in Nat
    BY <1>1
  <2>2. QED
    BY <2>1
<1>4. q % 5 = 0 <=> r \in {0, 5}
  BY <1>3
<1>5. q % 2 # 0 <=> r \in {1, 3, 5, 7, 9}
  BY <1>3
<1>6. p % 2 = 1 <=> r \in {1, 3, 5, 7, 9}
  BY <1>2
<1>7. QED
  BY <1>1, <1>4, <1>5, <1>6

LEMMA CutOff ==
  ASSUME NEW w \in Nat \ {0}, NEW low \in 0 .. w - 1, NEW h \in Nat, NEW rem \in Nat
  PROVE  LET twice == 2 * (low + w * rem)
             quant == w * (2 * h)
         IN  /\ rem > h => twice > quant
             /\ rem = h => twice = quant + 2 * low
             /\ rem < h => twice < quant
<1>1. w * (2 * h) = 2 * (w * h) /\ w * h \in Nat /\ w * rem \in Nat
  OBVIOUS
<1>2. ASSUME rem > h PROVE w * rem >= w * h + w
  <2>1. rem >= h + 1 /\ w * (h + 1) = w * h + w
    BY <1>2
  <2>2. w * rem >= w * (h + 1)
    BY <2>1
  <2>3. QED
    BY <2>1, <2>2
<1>3. ASSUME rem < h PROVE w * rem + w =< w * h
  <2>1. rem + 1 =< h /\ w * (rem + 1) = w * rem + w
    BY <1>3
  <2>2. w * (rem + 1) =< w * h
    BY <2>1
  <2>3. QED
    BY <2>1, <2>2
<1> DEFINE p == w * rem
<1> DEFINE q == w * h
<1>4. /\ p \in Nat /\ q \in Nat /\ w * (2 * h) = 2 * q
      /\ rem > h => p >= q + w
      /\ rem < h => p + w =< q
      /\ rem = h => p = q
  BY <1>1, <1>2, <1>3
<1> HIDE DEF p, q
<1>5. /\ rem > h => 2 * (low + p) > 2 * q
      /\ rem = h => 2 * (low + p) = 2 * q + 2 * low
      /\ rem < h => 2 * (low + p) < 2 * q
  BY <1>4
<1>6. QED
  BY <1>4, <1>5 DEF p

LEMMA RoundDecision ==
  ASSUME NEW w \in Nat \ {0}, NEW low \in 0 .. w - 1,
         NEW b \in Nat \ {0}, b % 2 = 0, NEW rem \in 0 .. b - 1,
         NEW num \in Nat, NEW quant \in Nat \ {0}, quant = w * b,
         num % quant = low + w * rem,
         NEW q \in Nat, (num \div quant) % 10 = q % 10,
         NEW delta \in BOOLEAN, delta <=> low > 0,
         NEW sign, NEW mode
  PROVE  AwayFromZero(sign, num, quant, mode) <=>
           (rem # 0 \/ delta) /\ RoundsUp(sign, q, rem, delta, b, mode)
<1>1. PICK h \in Nat : b = 2 * h /\ b \div 2 = h
  <2>1. b = 2 * (b \div 2) /\ b \div 2 \in Nat
    OBVIOUS
  <2>2. QED
    BY <2>1
<1> DEFINE twice == 2 * (num % quant)
<1>2. /\ rem > h => twice > quant
      /\ rem = h => twice = quant + 2 * low
      /\ rem < h => twice < quant
  BY <1>1, CutOff
<1>3. num \div quant \in Nat /\ num % quant \in Nat
  OBVIOUS
<1>4. /\ (num \div quant) % 10 \in {0, 5} <=> q % 5 = 0
      /\ (num \div quant) % 2 = 1 <=> q % 2 # 0
  BY <1>3, LastDigit
<1>5. num % quant # 0 <=> rem # 0 \/ delta
  <2>1. rem # 0 => w * rem >= 1
    OBVIOUS
  <2>2. rem = 0 => w * rem = 0
    OBVIOUS
  <2>3. w * rem \in Nat
    OBVIOUS
  <2>4. QED
    BY <2>1, <2>2, <2>3
<1>6. /\ twice > quant <=> rem > h \/ (rem = h /\ delta)
      /\ twice = quant <=> rem = h /\ ~ delta
  BY <1>2, <1>3
<1> DEFINE up == RoundsUp(sign, q, rem, delta, b, mode)
<1>7. up <=>
        \/ mode = "05UP" /\ q % 5 = 0
        \/ mode = "CEILING" /\ sign >= 0
        \/ mode = "FLOOR" /\ sign < 0
        \/ mode = "HALF_DOWN" /\ (rem > h \/ (rem = h /\ delta))
        \/ mode = "HALF_EVEN" /\ (rem > h \/ (rem = h /\ (delta \/ q % 2 # 0)))
        \/ mode = "HALF_UP" /\ rem >= h
        \/ mode = "UP"
  <2> DEFINE tie == (IF b > 0 THEN b ELSE U64) \div 2
  <2>1. tie = h
    <3>1. (IF b > 0 THEN b ELSE U64) = b
      OBVIOUS
    <3>2. QED
      BY <1>1, <3>1
  <2>2. up <=>
          \/ mode = "05UP" /\ q % 5 = 0
          \/ mode = "CEILING" /\ sign >= 0
          \/ mode = "FLOOR" /\ sign < 0
          \/ mode = "HALF_DOWN" /\ (rem > tie \/ (rem = tie /\ delta))
          \/ mode = "HALF_EVEN" /\ (rem > tie \/ (rem = tie /\ (delta \/ q % 2 # 0)))
          \/ mode = "HALF_UP" /\ rem >= tie
          \/ mode = "UP"
    BY Zenon DEF RoundsUp
  <2> HIDE DEF up, tie
  <2>3. QED
    BY <2>1, <2>2, Zenon
<1>8. AwayFromZero(sign, num, quant, mode) <=>
        /\ num % quant # 0
        /\ \/ mode = "UP"
           \/ mode = "CEILING" /\ sign >= 0
           \/ mode = "FLOOR" /\ sign < 0
           \/ mode = "05UP" /\ (num \div quant) % 10 \in {0, 5}
           \/ mode \in {"HALF_DOWN", "HALF_EVEN", "HALF_UP"} /\ twice > quant
           \/ mode = "HALF_UP" /\ twice = quant
           \/ mode = "HALF_EVEN" /\ twice = quant /\ (num \div quant) % 2 = 1
  BY DEF AwayFromZero
<1>9. rem >= h <=> rem > h \/ (rem = h /\ delta) \/ (rem = h /\ ~ delta)
  BY <1>1
<1> HIDE DEF up, twice
<1> DEFINE five == (num \div quant) % 10 \in {0, 5}
<1> DEFINE odd == (num \div quant) % 2 = 1
<1>10. (five <=> q % 5 = 0) /\ (odd <=> q % 2 # 0)
  BY <1>4
<1> HIDE DEF five, odd
<1>11. CASE delta
  <2>1. /\ twice > quant <=> rem > h \/ rem = h
        /\ ~ (twice = quant)
        /\ num % quant # 0
    BY <1>5, <1>6, <1>11
  <2>2. up <=>
          \/ mode = "05UP" /\ q % 5 = 0
          \/ mode = "CEILING" /\ sign >= 0
          \/ mode = "FLOOR" /\ sign < 0
          \/ mode = "HALF_DOWN" /\ (rem > h \/ rem = h)
          \/ mode = "HALF_EVEN" /\ (rem > h \/ rem = h)
          \/ mode = "HALF_UP" /\ (rem > h \/ rem = h)
          \/ mode = "UP"
    BY <1>7, <1>9, <1>11, Zenon
  <2>3. AwayFromZero(sign, num, quant, mode) <=> up
    BY <1>8, <1>10, <2>1, <2>2, Zenon DEF five, odd
  <2>4. QED
    BY <1>11, <2>3, Zenon DEF up
<1>12. CASE ~ delta
  <2>1. /\ twice > quant <=> rem > h
        /\ twice = quant <=> rem = h
        /\ num % quant # 0 <=> rem # 0
    BY <1>5, <1>6, <1>12
  <2>2. up <=>
          \/ mode = "05UP" /\ q % 5 = 0
          \/ mode = "CEILING" /\ sign >= 0
          \/ mode = "FLOOR" /\ sign < 0
          \/ mode = "HALF_DOWN" /\ rem > h
          \/ mode = "HALF_EVEN" /\ (rem > h \/ (rem = h /\ q % 2 # 0))
          \/ mode = "HALF_UP" /\ (rem > h \/ rem = h)
          \/ mode = "UP"
    BY <1>7, <1>9, <1>12, Zenon
  <2>3. AwayFromZero(sign, num, quant, mode) <=> rem # 0 /\ up
    BY <1>8, <1>10, <2>1, <2>2, Zenon DEF five, odd
  <2>4. QED
    BY <1>12, <2>3, Zenon DEF up
<1>13. QED
  BY <1>11, <1>12

-----------------------------------------------------------------------------
(***************************************************************************)
(* Where digits_round cuts: 10^n_dec_shift is a weight times a power of    *)
(* ten that divides RADIX.                                                 *)
(***************************************************************************)
LEMMA PowerWeight ==
  ASSUME NEW k \in Nat, NEW m \in Nat
  PROVE  Power(10, DEC_DIGITS_PER_DIGIT * k + m) = Weight(k) * Power(10, m)
<1> DEFINE dpd == DEC_DIGITS_PER_DIGIT
<1> DEFINE S == {l \in Nat : Power(10, dpd * l + m) = Weight(l) * Power(10, m)}
<1>1. dpd \in Nat \ {0} /\ RADIX = Power(10, dpd) /\ 10 \in Nat \ {0}
  BY RadixAssumption
<1> HIDE DEF dpd
<1>2. Power(10, m) \in Nat
  BY <1>1, PowerType
<1>3. 0 \in S
  <2>1. dpd * 0 + m = m
    BY <1>1
  <2>2. QED
    BY <1>2, <2>1, WeightZero
<1>4. ASSUME NEW l \in S PROVE l + 1 \in S
  <2>1. l \in Nat /\ Power(10, dpd * l + m) = Weight(l) * Power(10, m)
    OBVIOUS
  <2> HIDE DEF S
  <2> DEFINE n == dpd * l + m
  <2>2. n \in Nat /\ dpd * (l + 1) + m = dpd + n
    BY <1>1, <2>1
  <2>3. \A r \in Nat : Power(10, dpd + r) = Power(10, dpd) * Power(10, r)
    BY <1>1, PowerSum
  <2>4. Power(10, dpd * (l + 1) + m) = RADIX * (Weight(l) * Power(10, m))
    BY <1>1, <2>1, <2>2, <2>3
  <2>5. Weight(l) \in Nat /\ Weight(l + 1) = RADIX * Weight(l)
    BY <2>1, WeightFacts
  <2>6. RADIX * (Weight(l) * Power(10, m)) = (RADIX * Weight(l)) * Power(10, m)
    <3> DEFINE w == Weight(l)
    <3> DEFINE p == Power(10, m)
    <3>1. w \in Nat /\ p \in Nat /\ RADIX \in Nat
      BY <1>2, <2>5, Constants
    <3> HIDE DEF w, p
    <3>2. RADIX * (w * p) = (RADIX * w) * p
      BY <3>1
    <3>3. QED
      BY <3>2 DEF w, p
  <2>7. QED
    BY <2>1, <2>4, <2>5, <2>6 DEF S
<1> HIDE DEF S
<1>5. \A l \in Nat : l \in S
  BY <1>3, <1>4, SetInduction
<1>6. QED
  BY <1>5 DEF S, dpd

(* The multiple one digit is rounded to, and how often RADIX holds it. *)
RoundBase(n_dec) == IF n_dec = 0 THEN RADIX ELSE u64_10_pow_n(n_dec)

LEMMA RoundBaseFacts ==
  ASSUME NEW n_dec \in 0 .. DEC_DIGITS_PER_DIGIT - 1
  PROVE  /\ RoundBase(n_dec) \in Nat \ {0} /\ RoundBase(n_dec) % 2 = 0
         /\ \E c \in Nat \ {0} :
              /\ RADIX = RoundBase(n_dec) * c
              /\ n_dec = 0 => c = 1
              /\ n_dec # 0 => c % 10 = 0
<1>0. RADIX \in Nat \ {0} /\ RADIX % 2 = 0
  <2>1. RADIX \in Nat /\ RADIX >= 10 /\ RADIX % 10 = 0
    BY RadixFacts
  <2>2. QED
    BY <2>1
<1>1. CASE n_dec = 0
  <2>1. RADIX = RADIX * 1
    BY <1>0
  <2>2. QED
    BY <1>0, <1>1, <2>1 DEF RoundBase
<1>2. CASE n_dec # 0
  <2> DEFINE m == DEC_DIGITS_PER_DIGIT - n_dec
  <2>1. /\ DEC_DIGITS_PER_DIGIT \in Nat /\ RADIX = Power(10, DEC_DIGITS_PER_DIGIT)
        /\ n_dec - 1 \in Nat /\ (n_dec - 1) + 1 = n_dec /\ n_dec \in Nat
        /\ n_dec =< DEC_DIGITS_PER_DIGIT
        /\ m - 1 \in Nat /\ (m - 1) + 1 = m /\ 10 \in Nat \ {0}
    BY <1>2, RadixAssumption
  <2> HIDE DEF m
  <2>2. Power(10, n_dec - 1) \in Nat \ {0} /\ Power(10, m - 1) \in Nat \ {0}
    BY <2>1, PowerType
  <2>3. Power(10, n_dec) = 10 * Power(10, n_dec - 1)
    <3> DEFINE k == n_dec - 1
    <3>1. k \in Nat /\ k + 1 = n_dec
      BY <2>1
    <3> HIDE DEF k
    <3>2. Power(10, k + 1) = 10 * Power(10, k)
      BY <2>1, <3>1, PowerNext
    <3>3. QED
      BY <3>1, <3>2 DEF k
  <2>4. Power(10, m) = 10 * Power(10, m - 1)
    <3> DEFINE k == m - 1
    <3>1. k \in Nat /\ k + 1 = m
      BY <2>1
    <3> HIDE DEF k
    <3>2. Power(10, k + 1) = 10 * Power(10, k)
      BY <2>1, <3>1, PowerNext
    <3>3. QED
      BY <3>1, <3>2 DEF k
  <2>5. RADIX = Power(10, n_dec) * Power(10, m)
    BY <2>1, PowerDivides DEF m
  <2>6. RoundBase(n_dec) = Power(10, n_dec)
    BY <1>2 DEF RoundBase, u64_10_pow_n
  <2> DEFINE p == Power(10, n_dec - 1)
  <2> DEFINE q == Power(10, m - 1)
  <2> HIDE DEF p, q
  <2>7. p \in Nat \ {0} /\ q \in Nat \ {0} /\ RoundBase(n_dec) = 10 * p /\ Power(10, m) = 10 * q
    BY <2>2, <2>3, <2>4, <2>6 DEF p, q
  <2>8. (10 * p) % 2 = 0 /\ 10 * p \in Nat \ {0} /\ (10 * q) % 10 = 0 /\ 10 * q \in Nat \ {0}
    BY <2>7
  <2>9. RADIX = RoundBase(n_dec) * (10 * q)
    BY <2>5, <2>6, <2>7
  <2>10. QED
    BY <1>2, <2>7, <2>8, <2>9
<1>3. QED
  BY <1>1, <1>2

(***************************************************************************)
(* A number cut at a digit: low below it, h above it. The digit is cut at  *)
(* b, of which RADIX is c times.                                           *)
(***************************************************************************)
Cut(v, w, low, digit, h, b, c) ==
  /\ w \in Nat \ {0} /\ low \in 0 .. w - 1
  /\ digit \in 0 .. RADIX - 1 /\ h \in Nat
  /\ b \in Nat \ {0} /\ c \in Nat /\ RADIX = b * c
  /\ v = low + w * (digit + RADIX * h)

(* Remainder a and quotient k of v divided by u. *)
DividesInto(v, u, a, k) == v % u = a /\ v \div u = k /\ a \in Nat /\ v = a + k * u

LEMMA CutInDigit ==
  ASSUME NEW v, NEW w, NEW low, NEW digit, NEW h, NEW b, NEW c,
         Cut(v, w, low, digit, h, b, c)
  PROVE  DividesInto(v, w * b, low + w * (digit % b), digit \div b + c * h)
<1>0. /\ w \in Nat \ {0} /\ low \in 0 .. w - 1
      /\ digit \in 0 .. RADIX - 1 /\ h \in Nat
      /\ b \in Nat \ {0} /\ c \in Nat /\ RADIX = b * c
      /\ v = low + w * (digit + RADIX * h)
  BY DEF Cut
<1> USE <1>0
<1> DEFINE rem == digit % b
<1> DEFINE q == digit \div b
<1>1. digit \in Nat
  BY Constants
<1>2. rem \in 0 .. b - 1 /\ q \in Nat /\ digit = b * q + rem
  BY <1>1
<1> HIDE DEF rem, q
<1> DEFINE a == low + w * rem
<1> DEFINE k == q + c * h
<1> DEFINE u == w * b
<1>3. u \in Nat \ {0} /\ k \in Nat
  BY <1>2
<1>4. a \in Nat /\ a < u
  <2>1. w * rem \in Nat /\ w * rem =< w * (b - 1) /\ w * (b - 1) = w * b - w /\ w * b \in Nat
    BY <1>2
  <2> DEFINE p == w * rem
  <2> DEFINE s == w * b
  <2>2. p \in Nat /\ s \in Nat /\ p =< s - w
    BY <2>1
  <2> HIDE DEF p, s
  <2>3. low + p \in Nat /\ low + p < s
    BY <2>2
  <2>4. QED
    BY <2>3 DEF p, s
<1>5. v = a + k * u
  <2>1. k * u = w * (b * q) + w * ((b * c) * h)
    <3>1. (q + c * h) * (w * b) = q * (w * b) + (c * h) * (w * b)
      BY <1>2
    <3>2. q * (w * b) = w * (b * q)
      BY <1>2
    <3>3. (c * h) * (w * b) = w * ((b * c) * h)
      OBVIOUS
    <3>4. QED
      BY <3>1, <3>2, <3>3
  <2>2. w * (digit + RADIX * h) = w * rem + (w * (b * q) + w * ((b * c) * h))
    <3> DEFINE bq == b * q
    <3> DEFINE rh == (b * c) * h
    <3>1. bq \in Nat /\ rh \in Nat /\ RADIX * h = rh /\ digit = bq + rem /\ rem \in Nat
      BY <1>2
    <3> HIDE DEF bq, rh
    <3>2. w * (digit + rh) = w * rem + (w * bq + w * rh)
      BY <3>1
    <3>3. QED
      BY <3>1, <3>2 DEF bq, rh
  <2> DEFINE p == w * rem
  <2> DEFINE r == w * (b * q) + w * ((b * c) * h)
  <2>3. p \in Nat /\ r \in Nat
    BY <1>2
  <2>4. k * u = r /\ w * (digit + RADIX * h) = p + r
    BY <2>1, <2>2
  <2> HIDE DEF p, r, k, u
  <2>5. v = (low + p) + k * u
    BY <2>3, <2>4
  <2>6. QED
    BY <2>5 DEF p
<1>6. v \in Int
  <2>1. k * u \in Int
    BY <1>3
  <2> HIDE DEF a, k, u
  <2>2. QED
    BY <1>4, <1>5, <2>1
<1> HIDE DEF a, k, u
<1>7. v \div u = k /\ v % u = a
  BY <1>3, <1>4, <1>5, <1>6, LowAndHigh
<1>8. QED
  BY <1>4, <1>5, <1>7 DEF DividesInto, a, k, u, rem, q

(* What is a multiple of ten does not show in the last decimal digit. *)
LEMMA SameLastDigit ==
  ASSUME NEW p \in Nat, NEW m \in Nat, m % 10 = 0, NEW h \in Nat
  PROVE  (p + m * h) % 10 = p % 10
<1>1. PICK t \in Nat : m = 10 * t
  <2>1. m = 10 * (m \div 10) /\ m \div 10 \in Nat
    OBVIOUS
  <2>2. QED
    BY <2>1
<1> DEFINE s == t * h
<1>2. m * h = 10 * s /\ s \in Nat
  BY <1>1
<1> HIDE DEF s
<1>3. (p + 10 * s) % 10 = p % 10
  BY <1>2
<1>4. QED
  BY <1>2, <1>3

(***************************************************************************)
(* The rounded number, if one digit is rounded and what is below it is     *)
(* cleared: digit becomes digit - digit % b + b * up.                      *)
(***************************************************************************)
LEMMA RoundedAtDigit ==
  ASSUME NEW v, NEW w, NEW low, NEW digit, NEW h, NEW b, NEW c,
         Cut(v, w, low, digit, h, b, c), b % 2 = 0,
         NEW q \in Nat, (digit \div b + c * h) % 10 = q % 10,
         NEW delta \in BOOLEAN, delta <=> low > 0,
         NEW sign, NEW mode
  PROVE  LET rem == digit % b
             up == IF (rem # 0 \/ delta) /\ RoundsUp(sign, q, rem, delta, b, mode) THEN 1 ELSE 0
         IN  (w * b) * Rounded(sign, v, w * b, mode) = (v - low) + (b * up - rem) * w
<1> DEFINE rem == digit % b
<1> DEFINE up == IF (rem # 0 \/ delta) /\ RoundsUp(sign, q, rem, delta, b, mode) THEN 1 ELSE 0
<1> DEFINE u == w * b
<1> DEFINE k == digit \div b + c * h
<1>1. /\ v % u = low + w * rem /\ v \div u = k /\ low + w * rem \in Nat
      /\ v = low + w * rem + k * u
  <2>1. DividesInto(v, w * b, low + w * (digit % b), digit \div b + c * h)
    BY CutInDigit
  <2>2. QED
    BY <2>1 DEF DividesInto
<1>0. /\ w \in Nat \ {0} /\ low \in 0 .. w - 1
      /\ digit \in 0 .. RADIX - 1 /\ h \in Nat
      /\ b \in Nat \ {0} /\ c \in Nat
  BY DEF Cut
<1> USE <1>0
<1>2. digit \in Nat /\ rem \in 0 .. b - 1 /\ u \in Nat \ {0} /\ k \in Nat
  BY Constants
<1>3. k % 10 = q % 10
  OBVIOUS
<1> HIDE DEF k, rem
<1>4. v \in Nat /\ w * rem \in Nat /\ k * u \in Nat
  <2>1. w * rem \in Nat /\ k * u \in Nat
    BY <1>2
  <2> HIDE DEF u
  <2>2. QED
    BY <1>1, <2>1
<1>5. AwayFromZero(sign, v, u, mode) <=> up = 1
  <2>1. (v \div u) % 10 = q % 10
    BY <1>1, <1>3
  <2>2. u = w * b
    OBVIOUS
  <2> HIDE DEF u
  <2>3. AwayFromZero(sign, v, u, mode) <=>
          (rem # 0 \/ delta) /\ RoundsUp(sign, q, rem, delta, b, mode)
    BY <1>1, <1>2, <1>4, <2>1, <2>2, RoundDecision, SMTT(30)
  <2>4. QED
    BY <2>3
<1>6. up \in 0 .. 1
  OBVIOUS
<1> HIDE DEF up
<1>7. Rounded(sign, v, u, mode) = k + up
  <2>1. (IF AwayFromZero(sign, v, u, mode) THEN 1 ELSE 0) = up
    BY <1>5, <1>6
  <2>2. QED
    BY <1>1, <2>1 DEF Rounded
<1>8. u * (k + up) = k * u + (b * up) * w /\ (b * up) * w \in Int /\ b * up \in Int
  <2>1. u * (k + up) = k * u + u * up
    BY <1>2, <1>6
  <2>2. (w * b) * up = (b * up) * w
    BY <1>6
  <2>3. QED
    BY <1>6, <2>1, <2>2
<1>9. (b * up - rem) * w = (b * up) * w - w * rem
  BY <1>2, <1>8
<1>10. u * Rounded(sign, v, u, mode) = (v - low) + (b * up - rem) * w
  <2> DEFINE p == k * u
  <2> DEFINE r == (b * up) * w
  <2> DEFINE s == w * rem
  <2>1. p \in Int /\ r \in Int /\ s \in Int /\ v = low + s + p /\ u * (k + up) = p + r
    BY <1>1, <1>4, <1>8
  <2> HIDE DEF p, r, s
  <2>2. u * (k + up) = (v - low) + (r - s)
    BY <2>1
  <2>3. QED
    BY <1>7, <1>9, <2>2 DEF r, s
<1>11. QED
  BY <1>10 DEF u, up, rem

=============================================================================
