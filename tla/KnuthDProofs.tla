----------------------------- MODULE KnuthDProofs -----------------------------
(***************************************************************************)
(* The long division works on proper digits, inside of its arrays, with a  *)
(* normalised divisor: for every radix, word size and length of operands.  *)
(***************************************************************************)
EXTENDS KnuthD, DigitLemmas

-----------------------------------------------------------------------------
(* Products of natural numbers are monotonic. *)
LEMMA Monotonic ==
  ASSUME NEW a \in Nat, NEW b \in Nat, NEW c \in Nat, a =< b
  PROVE  a * c =< b * c /\ a * c \in Nat /\ b * c \in Nat
OBVIOUS

(***************************************************************************)
(* The factor of D1: multiplied by it, the top digit v of the divisor is   *)
(* at least half the radix, and no carry leaves it.                        *)
(***************************************************************************)
LEMMA Normalization ==
  ASSUME NEW v \in 1 .. RADIX - 1, NEW d, d = RADIX \div (v + 1)
  PROVE  /\ d \in 1 .. RADIX - 1
         /\ \A c \in 0 .. d - 1 : v * d + c < RADIX /\ 2 * (v * d + c) >= RADIX
<1> USE Constants
<1>1. d \in Nat /\ (v + 1) * d =< RADIX /\ RADIX < (v + 1) * d + (v + 1)
  OBVIOUS
<1>2. v * d \in Nat /\ (v + 1) * d = v * d + d
  BY <1>1
<1>3. PICK h \in Nat : RADIX = 2 * h
  <2>1. RADIX = 10 * (RADIX \div 10) /\ RADIX \div 10 \in Nat
    <3>1. RADIX % 10 = 0
      BY RadixFacts
    <3>2. QED
      BY <3>1
  <2>2. RADIX = 2 * (5 * (RADIX \div 10)) /\ 5 * (RADIX \div 10) \in Nat
    BY <2>1
  <2>3. QED
    BY <2>2
<1> DEFINE p == v * d
<1>4. p \in Nat /\ p + d =< RADIX /\ RADIX < p + d + v + 1
  BY <1>1, <1>2
<1>5. d >= 1
  <2>1. ASSUME d = 0 PROVE p = 0
    BY <2>1
  <2> HIDE DEF p
  <2>2. ASSUME d = 0 PROVE FALSE
    BY <1>4, <2>1, <2>2
  <2>3. QED
    BY <1>1, <2>2
<1>6. p >= v
  BY <1>1, <1>5
<1>7. d =< RADIX - 1
  <2> HIDE DEF p
  <2>1. QED
    BY <1>1, <1>4, <1>6
<1>8. 2 * p >= RADIX
  <2>1. CASE 2 * v >= RADIX
    <3> HIDE DEF p
    <3>1. QED
      BY <1>4, <1>6, <2>1
  <2>2. CASE 2 * v < RADIX /\ 2 * p < RADIX
    <3>1. v =< h - 1 /\ p =< h - 1
      <4> HIDE DEF p
      <4>1. QED
        BY <1>3, <1>4, <2>2
    <3>2. 2 * h - v =< p + d
      <4> HIDE DEF p
      <4>1. QED
        BY <1>1, <1>3, <1>4
    <3>3. v * (2 * h - v) =< v * (p + d)
      BY <1>1, <1>3, <1>4, <3>1, <3>2
    <3>4. v * (p + d) = v * p + p
      BY <1>1, <1>4
    <3>5. v * p + p =< v * (h - 1) + (h - 1)
      BY <1>3, <1>4, <3>1
    <3>6. v * (2 * h - v) =< v * (h - 1) + (h - 1)
      BY <1>1, <1>3, <1>4, <3>3, <3>4, <3>5
    <3>7. v * (2 * h - v) - (v * (h - 1) + (h - 1)) = (v - 1) * (h - v) + 1
      BY <1>3
    <3>8. (v - 1) * (h - v) >= 0
      BY <1>3, <3>1
    <3>9. QED
      BY <1>3, <3>6, <3>7, <3>8
  <2>3. QED
    <3> HIDE DEF p
    <3>1. QED
      BY <1>4, <2>1, <2>2
<1>9. ASSUME NEW c \in 0 .. d - 1 PROVE p + c < RADIX /\ 2 * (p + c) >= RADIX
  <2> HIDE DEF p
  <2>1. QED
    BY <1>1, <1>4, <1>8, <1>9
<1>10. QED
  BY <1>1, <1>5, <1>7, <1>9

-----------------------------------------------------------------------------
(* What the invariant says of the digits, and of the lengths. *)
LEMMA InvFacts ==
  ASSUME KnuthInv
  PROVE  /\ M \in Nat /\ N \in Nat /\ N >= 2 /\ N =< M
         /\ j \in 0 .. M - N /\ i \in Int
         /\ scale \in 1 .. RADIX - 1
         /\ \A k \in 0 .. M : xd[k] \in 0 .. RADIX - 1
         /\ \A k \in 0 .. N : yd[k] \in 0 .. RADIX - 1
         /\ qhat \in Nat /\ rhat \in Nat /\ carry \in Nat /\ borrow \in 0 .. 1
<1>1. /\ M \in Nat /\ N \in 2 .. M
      /\ scale \in 1 .. MAX_DIGIT
      /\ xd \in [0 .. M -> Digit] /\ yd \in [0 .. N -> Digit]
      /\ j \in 0 .. M - N /\ i \in -1 .. M + 1
      /\ qhat \in Nat /\ rhat \in Nat /\ carry \in Nat /\ borrow \in 0 .. 1
  BY Zenon DEF KnuthInv, KnuthTypeOK
<1>2. Digit = 0 .. RADIX - 1
  BY Constants DEF Digit
<1>3. QED
  BY <1>1, <1>2, Constants

(* The types after a step that leaves the operands alone. *)
LEMMA TypeStep ==
  ASSUME KnuthInv, UNCHANGED operands,
         xd' \in [0 .. M -> Digit], yd' \in [0 .. N -> Digit],
         xd_n' \in M .. M + 1, quot' \in [0 .. M - N -> Word],
         rem' = << >> \/ rem' \in [0 .. xd_n' - 1 -> Digit],
         j' \in 0 .. M - N, i' \in -1 .. M + 1,
         qhat' \in Nat, rhat' \in Nat, carry' \in Nat, borrow' \in 0 .. 1,
         misled' \in BOOLEAN, pc' \in Steps
  PROVE  KnuthTypeOK'
<1>1. x' = x /\ y' = y /\ scale' = scale
  BY DEF operands
<1>2. M' = M /\ N' = N
  BY <1>1 DEF M, N
<1>3. /\ M \in Nat /\ N \in 2 .. M /\ scale \in 1 .. MAX_DIGIT
      /\ x.digits \in [0 .. M - 1 -> Digit] /\ y.digits \in [0 .. N - 1 -> Digit]
  BY Zenon DEF KnuthInv, KnuthTypeOK
<1>4. QED
  BY <1>1, <1>2, <1>3, Zenon DEF KnuthTypeOK

(* The factor stays the one that normalises the divisor. *)
LEMMA SameFactor ==
  ASSUME KnuthInv, x' = x, y' = y, scale' = scale
  PROVE  (scale = NormalizingFactor(y) /\ y.digits[N - 1] # 0)'
<1>1. scale = NormalizingFactor(y) /\ y.digits[N - 1] # 0
  BY DEF KnuthInv
<1>2. N' = N
  BY DEF N
<1>3. QED
  BY <1>1, <1>2 DEF NormalizingFactor

(* The parts of the type invariant most steps leave as they are. *)
LEMMA Types ==
  ASSUME KnuthInv
  PROVE  /\ xd \in [0 .. M -> Digit] /\ yd \in [0 .. N -> Digit]
         /\ xd_n \in M .. M + 1 /\ quot \in [0 .. M - N -> Word]
         /\ rem = << >> \/ rem \in [0 .. xd_n - 1 -> Digit]
         /\ misled \in BOOLEAN
BY Zenon DEF KnuthInv, KnuthTypeOK

(* A function that is changed at one place. *)
LEMMA Except ==
  ASSUME NEW n, NEW S, NEW f \in [0 .. n -> S], NEW k \in 0 .. n, NEW v \in S
  PROVE  /\ [f EXCEPT ![k] = v] \in [0 .. n -> S]
         /\ [f EXCEPT ![k] = v][k] = v
         /\ \A m \in 0 .. n : m # k => [f EXCEPT ![k] = v][m] = f[m]
OBVIOUS

-----------------------------------------------------------------------------
(* D1. *)
LEMMA ScaleDividendPreserves ==
  ASSUME KnuthInv, ScaleDividend
  PROVE  KnuthInv'
<1> USE Constants
<1>1. /\ pc = "scale_x" /\ i \in 0 .. M /\ carry \in 0 .. scale - 1
      /\ xd \in [0 .. M -> Digit] /\ xd_n \in M .. M + 1
      /\ \A k \in 0 .. N - 1 : yd[k] = y.digits[k]
      /\ UNCHANGED << operands, yd, quot, rem, j, trial, borrow, misled >>
  BY DEF KnuthInv, KnuthTypeOK, ScaleDividend
<1>2. /\ M \in Nat /\ N \in Nat /\ N >= 2 /\ N =< M /\ scale \in 1 .. RADIX - 1
      /\ \A k \in 0 .. M : xd[k] \in 0 .. RADIX - 1
  BY InvFacts
<1>3. x' = x /\ y' = y /\ scale' = scale /\ M' = M /\ N' = N /\ qhat' = qhat /\ rhat' = rhat
  BY <1>1 DEF operands, trial, M, N
<1>4. CASE i < M
  <2> DEFINE t == xd[i] * scale + carry
  <2>1. /\ xd' = [xd EXCEPT ![i] = t % RADIX] /\ carry' = t \div RADIX
        /\ i' = i + 1 /\ xd_n' = xd_n /\ pc' = pc
    BY <1>4 DEF ScaleDividend
  <2>2. t % RADIX \in 0 .. RADIX - 1 /\ t \div RADIX \in 0 .. scale - 1
    <3>1. xd[i] \in 0 .. RADIX - 1
      BY <1>1, <1>2
    <3>2. QED
      BY <1>1, <1>2, <3>1, ScaledDigit
  <2> HIDE DEF t
  <2>3. xd' \in [0 .. M -> Digit]
    BY <1>1, <2>1, <2>2, Except DEF Digit
  <2>4. KnuthTypeOK'
    <3>1. /\ i' \in -1 .. M + 1 /\ carry' \in Nat
          /\ j' \in 0 .. M - N /\ qhat' \in Nat /\ rhat' \in Nat /\ borrow' \in 0 .. 1
      BY <1>1, <1>2, <1>3, <1>4, <2>1, <2>2, InvFacts
    <3>2. pc' \in Steps
      BY <1>1, <2>1 DEF Steps
    <3>3. QED
      BY <1>1, <2>1, <2>3, <3>1, <3>2, Types, TypeStep, Zenon
  <2>5. QED
    <3>1. pc' = "scale_x" /\ i' \in 0 .. M' /\ carry' \in 0 .. scale' - 1
      <4>1. i + 1 \in 0 .. M
        <5>1. i \in 0 .. M /\ M \in Nat
          BY <1>1, <1>2
        <5>2. QED
          BY <1>4, <5>1
      <4>2. QED
        BY <1>1, <1>3, <2>1, <2>2, <4>1
    <3>2. rem' = << >> /\ \A k \in 0 .. N' - 1 : yd'[k] = y'.digits[k]
      <4>1. rem = << >>
        BY <1>1 DEF KnuthInv
      <4>2. QED
        BY <1>1, <1>3, <4>1
    <3>3. DivisorIsNormalized'
      BY <3>1 DEF DivisorIsNormalized
    <3>4. (scale = NormalizingFactor(y) /\ y.digits[N - 1] # 0)'
      BY <1>3, SameFactor
    <3>5. QED
      BY <2>4, <3>1, <3>2, <3>3, <3>4 DEF KnuthInv
<1>5. CASE ~(i < M)
  <2>1. /\ xd' = [xd EXCEPT ![M] = carry]
        /\ xd_n' = IF carry > 0 THEN M + 1 ELSE M
        /\ carry' = 0 /\ i' = 0 /\ pc' = "scale_y"
    BY <1>5 DEF ScaleDividend
  <2>2. carry \in Digit /\ M \in 0 .. M
    BY <1>1, <1>2 DEF Digit
  <2>3. xd' \in [0 .. M -> Digit] /\ xd_n' \in M .. M + 1
    BY <1>1, <1>2, <2>1, <2>2, Except
  <2>4. KnuthTypeOK'
    <3>1. /\ i' \in -1 .. M + 1 /\ carry' \in Nat
          /\ j' \in 0 .. M - N /\ qhat' \in Nat /\ rhat' \in Nat /\ borrow' \in 0 .. 1
      BY <1>1, <1>2, <1>3, <2>1, InvFacts
    <3>2. pc' \in Steps
      BY <2>1 DEF Steps
    <3>3. rem' = << >>
      BY <1>1 DEF KnuthInv
    <3>4. QED
      BY <1>1, <2>3, <3>1, <3>2, <3>3, Types, TypeStep, Zenon
  <2>5. QED
    <3>1. pc' = "scale_y" /\ i' \in 0 .. N' /\ carry' \in 0 .. scale' - 1
          /\ (i' = N' => FALSE)
      BY <1>2, <1>3, <2>1
    <3>2. \A k \in 0 .. N' - 1 : yd'[k] = y'.digits[k]
      BY <1>1, <1>3
    <3>3. \A k \in i' .. N' - 1 : yd'[k] = y'.digits[k]
      BY <2>1, <3>2
    <3>4. DivisorIsNormalized'
      BY <3>1 DEF DivisorIsNormalized
    <3>5. (scale = NormalizingFactor(y) /\ y.digits[N - 1] # 0)'
      BY <1>3, SameFactor
    <3>6. QED
      BY <2>4, <3>1, <3>3, <3>4, <3>5 DEF KnuthInv
<1>6. QED
  BY <1>4, <1>5

LEMMA ScaleDivisorPreserves ==
  ASSUME KnuthInv, ScaleDivisor
  PROVE  KnuthInv'
<1> USE Constants
<1>1. /\ pc = "scale_y" /\ i \in 0 .. N /\ carry \in 0 .. scale - 1
      /\ yd \in [0 .. N -> Digit]
      /\ \A k \in i .. N - 1 : yd[k] = y.digits[k]
      /\ i = N => carry = 0 /\ 2 * yd[N - 1] >= RADIX
      /\ y.digits \in [0 .. N - 1 -> Digit] /\ y.digits[N - 1] # 0
      /\ scale = NormalizingFactor(y)
      /\ UNCHANGED << operands, xd, xd_n, quot, rem, trial, borrow, misled >>
  BY DEF KnuthInv, KnuthTypeOK, ScaleDivisor
<1>2. /\ M \in Nat /\ N \in Nat /\ N >= 2 /\ N =< M /\ scale \in 1 .. RADIX - 1
      /\ \A k \in 0 .. N : yd[k] \in 0 .. RADIX - 1
  BY InvFacts
<1>3. x' = x /\ y' = y /\ scale' = scale /\ M' = M /\ N' = N /\ qhat' = qhat /\ rhat' = rhat
  BY <1>1 DEF operands, trial, M, N
<1>4. CASE i < N
  <2> DEFINE t == yd[i] * scale + carry
  <2>1. /\ yd' = [yd EXCEPT ![i] = t % RADIX] /\ carry' = t \div RADIX
        /\ i' = i + 1 /\ j' = j /\ pc' = pc
    BY <1>4 DEF ScaleDivisor
  <2>2. t % RADIX \in 0 .. RADIX - 1 /\ t \div RADIX \in 0 .. scale - 1
    <3>1. yd[i] \in 0 .. RADIX - 1
      BY <1>1, <1>2
    <3>2. QED
      BY <1>1, <1>2, <3>1, ScaledDigit
  <2>3. i = N - 1 => t % RADIX = t /\ t \div RADIX = 0 /\ 2 * t >= RADIX
    <3>1. SUFFICES ASSUME i = N - 1
                   PROVE  t % RADIX = t /\ t \div RADIX = 0 /\ 2 * t >= RADIX
      OBVIOUS
    <3> DEFINE v == y.digits[N - 1]
    <3>2. v \in 1 .. RADIX - 1
      <4>1. N - 1 \in 0 .. N - 1
        BY <1>2
      <4>2. v \in Digit /\ v # 0
        BY <1>1, <4>1
      <4>3. QED
        BY <4>2 DEF Digit
    <3>3. scale = RADIX \div (v + 1)
      BY <1>1 DEF NormalizingFactor, N
    <3>4. t = v * scale + carry
      BY <1>1, <1>2, <3>1
    <3> HIDE DEF v
    <3>5. v * scale + carry < RADIX /\ 2 * (v * scale + carry) >= RADIX
      BY <1>1, <3>2, <3>3, Normalization
    <3>6. t \in Nat /\ t < RADIX /\ 2 * t >= RADIX
      <4>1. v * scale \in Nat
        BY <1>2, <3>2
      <4>2. \A p \in Nat : p + carry < RADIX /\ 2 * (p + carry) >= RADIX =>
              p + carry \in Nat
        BY <1>1, <1>2
      <4>3. v * scale + carry \in Nat
        BY <3>5, <4>1, <4>2
      <4> HIDE DEF t
      <4>4. QED
        BY <3>4, <3>5, <4>3
    <3> HIDE DEF t
    <3>7. QED
      BY <3>6
  <2> HIDE DEF t
  <2>4. /\ yd' \in [0 .. N -> Digit] /\ yd'[i] = t % RADIX
        /\ \A m \in 0 .. N : m # i => yd'[m] = yd[m]
    BY <1>1, <2>1, <2>2, Except DEF Digit
  <2>5. KnuthTypeOK'
    <3>1. /\ i' \in -1 .. M + 1 /\ carry' \in Nat
          /\ j' \in 0 .. M - N /\ qhat' \in Nat /\ rhat' \in Nat /\ borrow' \in 0 .. 1
      BY <1>1, <1>2, <1>3, <1>4, <2>1, <2>2, InvFacts
    <3>2. pc' \in Steps
      BY <1>1, <2>1 DEF Steps
    <3>3. QED
      BY <1>1, <2>1, <2>4, <3>1, <3>2, Types, TypeStep, Zenon
  <2>6. i' = N => carry' = 0 /\ 2 * yd'[N - 1] >= RADIX
    BY <1>1, <1>2, <2>1, <2>3, <2>4
  <2>7. \A k \in i' .. N - 1 : yd'[k] = y.digits[k]
    <3>1. i \in 0 .. N /\ i' = i + 1 /\ \A k \in i .. N - 1 : yd[k] = y.digits[k]
      BY <1>1, <2>1
    <3>2. \A k \in i + 1 .. N - 1 : k \in i .. N - 1 /\ k \in 0 .. N /\ k # i
      BY <1>2, <3>1
    <3>3. QED
      BY <2>4, <3>1, <3>2
  <2>8. QED
    <3>1. pc' = "scale_y" /\ i' \in 0 .. N' /\ carry' \in 0 .. scale' - 1
      <4>1. i + 1 \in 0 .. N
        <5>1. i \in 0 .. N /\ N \in Nat
          BY <1>1, <1>2
        <5>2. QED
          BY <1>4, <5>1
      <4>2. QED
        BY <1>1, <1>3, <2>1, <2>2, <4>1
    <3>2. DivisorIsNormalized'
      BY <3>1 DEF DivisorIsNormalized
    <3>3. (scale = NormalizingFactor(y) /\ y.digits[N - 1] # 0)'
      BY <1>1, <1>3 DEF NormalizingFactor
    <3>4. QED
      BY <1>3, <2>5, <2>6, <2>7, <3>1, <3>2, <3>3 DEF KnuthInv
<1>5. CASE ~(i < N)
  <2>1. /\ yd' = [yd EXCEPT ![N] = carry]
        /\ carry' = 0 /\ i' = 0 /\ j' = M - N /\ pc' = "estimate"
    BY <1>5 DEF ScaleDivisor
  <2>2. i = N /\ carry = 0 /\ 0 \in Digit /\ N \in 0 .. N /\ 2 * yd[N - 1] >= RADIX
    <3>1. i = N
      BY <1>1, <1>2, <1>5
    <3>2. QED
      BY <1>1, <1>2, <3>1 DEF Digit
  <2>3. yd' \in [0 .. N -> Digit] /\ yd'[N] = 0 /\ yd'[N - 1] = yd[N - 1]
    <3>1. N - 1 \in 0 .. N /\ N - 1 # N
      BY <1>2
    <3>2. QED
      BY <1>1, <2>1, <2>2, <3>1, Except
  <2>4. KnuthTypeOK'
    <3>1. /\ i' \in -1 .. M + 1 /\ carry' \in Nat
          /\ j' \in 0 .. M - N /\ qhat' \in Nat /\ rhat' \in Nat /\ borrow' \in 0 .. 1
      BY <1>1, <1>2, <1>3, <2>1, InvFacts
    <3>2. pc' \in Steps
      BY <2>1 DEF Steps
    <3>3. QED
      BY <1>1, <2>3, <3>1, <3>2, Types, TypeStep, Zenon
  <2>5. DivisorIsNormalized'
    BY <1>3, <2>2, <2>3 DEF DivisorIsNormalized
  <2>6. QED
    <3>1. pc' = "estimate" /\ i' \in 0 .. N' + 1
      BY <1>2, <1>3, <2>1
    <3>2. (scale = NormalizingFactor(y) /\ y.digits[N - 1] # 0)'
      BY <1>3, SameFactor
    <3>3. QED
      BY <2>4, <2>5, <3>1, <3>2 DEF KnuthInv
<1>6. QED
  BY <1>4, <1>5

-----------------------------------------------------------------------------
(***************************************************************************)
(* Steps of the loop over the digits of the quotient leave the divisor as  *)
(* it is, and the operands.                                                *)
(***************************************************************************)
LEMMA LoopStep ==
  ASSUME KnuthInv, UNCHANGED operands, yd' = yd, KnuthTypeOK',
         pc \notin {"scale_x", "scale_y"},
         pc' \notin {"scale_x", "scale_y"},
         pc' # "unnormalize" => i' \in 0 .. N + 1 \/ pc' = "done",
         pc' = "add_back" => carry' \in 0 .. 1,
         pc' = "unnormalize" =>
           /\ i' \in -1 .. xd_n' - 1 /\ carry' \in 0 .. scale - 1
           /\ rem' \in [0 .. xd_n' - 1 -> Digit]
  PROVE  KnuthInv'
<1>1. x' = x /\ y' = y /\ scale' = scale
  BY DEF operands
<1>2. M' = M /\ N' = N
  BY <1>1 DEF M, N
<1>3. DivisorIsNormalized'
  BY <1>1, <1>2 DEF KnuthInv, DivisorIsNormalized
<1>4. (scale = NormalizingFactor(y) /\ y.digits[N - 1] # 0)'
  BY <1>1, <1>2 DEF KnuthInv, NormalizingFactor
<1>5. pc' \in Steps
  BY DEF KnuthTypeOK
<1>6. QED
  BY <1>1, <1>2, <1>3, <1>4, <1>5 DEF KnuthInv, Steps

(* D3. *)
LEMMA TrialPreserves ==
  ASSUME KnuthInv, Estimate \/ Correct \/ Accept
  PROVE  KnuthInv'
<1> USE Constants
<1>1. /\ pc \in {"estimate", "correct"} /\ i \in 0 .. N + 1
      /\ pc' \in {"correct", "subtract"}
      /\ UNCHANGED << operands, xd, yd, xd_n, quot, rem, i, j, carry, borrow >>
  BY DEF KnuthInv, Estimate, Correct, Accept
<1>2. /\ M \in Nat /\ N \in Nat /\ N >= 2 /\ N =< M /\ j \in 0 .. M - N
      /\ \A k \in 0 .. M : xd[k] \in 0 .. RADIX - 1
      /\ \A k \in 0 .. N : yd[k] \in 0 .. RADIX - 1
      /\ qhat \in Nat /\ rhat \in Nat /\ carry \in Nat /\ borrow \in 0 .. 1
  BY InvFacts
<1>3. /\ xd[j + N] \in Nat /\ xd[j + N - 1] \in Nat /\ xd[j + N - 2] \in Nat
      /\ yd[N - 1] \in Nat /\ yd[N - 2] \in Nat
  BY <1>2
<1>4. 2 * yd[N - 1] >= RADIX
  BY <1>1 DEF KnuthInv, DivisorIsNormalized
<1>5. qhat' \in Nat /\ rhat' \in Nat
  <2>1. CASE Estimate
    <3> DEFINE t == xd[j + N] * RADIX + xd[j + N - 1]
    <3> DEFINE v == yd[N - 1]
    <3>1. qhat' = t \div v /\ rhat' = t % v
      BY <2>1 DEF Estimate
    <3>2. t \in Nat /\ v \in Nat \ {0}
      BY <1>3, <1>4
    <3> HIDE DEF t, v
    <3>3. QED
      BY <3>1, <3>2
  <2>2. CASE Correct
    <3>1. qhat' = qhat - 1 /\ rhat' = (rhat + yd[N - 1]) % U64 /\ TooLarge
      BY <2>2 DEF Correct
    <3>2. qhat # 0
      <4>1. ASSUME qhat = 0 PROVE FALSE
        <5>1. qhat * yd[N - 2] = 0 /\ rhat * RADIX \in Nat
          BY <1>2, <1>3, <4>1
        <5>2. rhat * RADIX + xd[j + N - 2] >= 0
          BY <1>3, <5>1
        <5>3. qhat >= RADIX \/ qhat * yd[N - 2] > rhat * RADIX + xd[j + N - 2]
          BY <3>1 DEF TooLarge
        <5>4. ~(qhat >= RADIX)
          BY <4>1
        <5>5. ASSUME NEW p, NEW q, p = 0, q \in Int, q >= 0 PROVE ~(p > q)
          BY <5>5
        <5>6. rhat * RADIX + xd[j + N - 2] \in Int
          BY <1>3, <5>1
        <5>7. QED
          BY <5>1, <5>2, <5>3, <5>4, <5>5, <5>6
      <4>2. QED
        BY <4>1
    <3>3. QED
      BY <1>2, <1>3, <3>1, <3>2
  <2>3. CASE Accept
    BY <1>2, <2>3 DEF Accept, trial
  <2>4. QED
    BY <2>1, <2>2, <2>3
<1>6. misled' \in BOOLEAN
  <2>1. misled \in BOOLEAN
    BY Types
  <2>2. CASE Correct
    BY <2>2, Zenon DEF Correct
  <2>3. CASE Estimate \/ Accept
    BY <2>1, <2>3, Zenon DEF Estimate, Accept
  <2>4. QED
    BY <2>2, <2>3
<1>7. KnuthTypeOK'
  <2>1. i' \in -1 .. M + 1 /\ carry' \in Nat /\ j' \in 0 .. M - N /\ borrow' \in 0 .. 1
    BY <1>1, <1>2
  <2>2. pc' \in Steps
    BY <1>1 DEF Steps
  <2>3. UNCHANGED << operands, xd, yd, xd_n, quot, rem >>
    BY <1>1
  <2>4. QED
    BY <1>5, <1>6, <2>1, <2>2, <2>3, Types, TypeStep, Zenon
<1>8. QED
  BY <1>1, <1>7, LoopStep

(* D4. *)
LEMMA MultiplySubtractPreserves ==
  ASSUME KnuthInv, MultiplySubtract
  PROVE  KnuthInv'
<1> USE Constants
<1> DEFINE t == qhat * yd[i] + carry
<1> DEFINE r == (xd[j + i] - ((t % RADIX) + borrow)) % U64
<1> DEFINE b == IF r > xd[j + i] THEN 1 ELSE 0
<1>1. /\ pc = "subtract" /\ pc' = "subtract" /\ i \in 0 .. N + 1 /\ i =< N /\ i' = i + 1
      /\ carry' = t \div RADIX /\ borrow' = b
      /\ xd' = [xd EXCEPT ![j + i] = (r + b * RADIX) % U64]
      /\ UNCHANGED << operands, yd, xd_n, quot, rem, j, trial, misled >>
  BY DEF KnuthInv, MultiplySubtract
<1>2. /\ M \in Nat /\ N \in Nat /\ N >= 2 /\ N =< M /\ j \in 0 .. M - N
      /\ \A k \in 0 .. M : xd[k] \in 0 .. RADIX - 1
      /\ \A k \in 0 .. N : yd[k] \in 0 .. RADIX - 1
      /\ qhat \in Nat /\ rhat \in Nat /\ carry \in Nat /\ borrow \in 0 .. 1
  BY InvFacts
<1>3. j + i \in 0 .. M /\ i \in 0 .. N
  BY <1>1, <1>2
<1>4. t % RADIX \in 0 .. RADIX - 1 /\ t \div RADIX \in Nat
  <2>1. yd[i] \in Nat
    BY <1>2, <1>3
  <2>2. t \in Nat
    BY <1>2, <2>1
  <2> HIDE DEF t
  <2>3. QED
    BY <2>2
<1>5. b \in 0 .. 1 /\ (r + b * RADIX) % U64 \in 0 .. RADIX - 1
  <2>1. xd[j + i] \in 0 .. RADIX - 1
    BY <1>2, <1>3
  <2> DEFINE low == t % RADIX
  <2>2. low \in 0 .. RADIX - 1 /\ r = (xd[j + i] - (low + borrow)) % U64
    BY <1>4
  <2> HIDE DEF t, low
  <2>3. (r + b * RADIX) % U64 \in 0 .. RADIX - 1
    <3> DEFINE d == (xd[j + i] - (low + borrow)) % U64
    <3> DEFINE k == IF d > xd[j + i] THEN 1 ELSE 0
    <3>1. (d + k * RADIX) % U64 \in 0 .. RADIX - 1
      BY <1>2, <2>1, <2>2, DigitDifference
    <3> HIDE DEF low
    <3>2. QED
      BY <2>2, <3>1
  <2>4. QED
    BY <2>3
<1> HIDE DEF t, r, b
<1>6. xd' \in [0 .. M -> Digit]
  BY <1>1, <1>3, <1>5, Types, Except DEF Digit
<1>7. KnuthTypeOK'
  <2>1. /\ i' \in -1 .. M + 1 /\ carry' \in Nat /\ j' \in 0 .. M - N /\ borrow' \in 0 .. 1
        /\ qhat' \in Nat /\ rhat' \in Nat
    BY <1>1, <1>2, <1>4, <1>5 DEF trial
  <2>2. pc' \in Steps
    BY <1>1 DEF Steps
  <2>3. UNCHANGED << operands, yd, xd_n, quot, rem, misled >>
    BY <1>1
  <2>4. QED
    BY <1>6, <2>1, <2>2, <2>3, Types, TypeStep, Zenon
<1>8. i' \in 0 .. N + 1
  BY <1>1, <1>2
<1>9. QED
  BY <1>1, <1>7, <1>8, LoopStep

(* D7, and the remainder prepared. *)
LEMMA NextDigitPreserves ==
  ASSUME KnuthInv, NextDigit, pc \in {"subtract", "add_back"},
         quot' \in [0 .. M - N -> Word],
         UNCHANGED << operands, xd, yd, xd_n, trial, misled >>, borrow' \in 0 .. 1
  PROVE  KnuthInv'
<1> USE Constants
<1>1. /\ M \in Nat /\ N \in Nat /\ N >= 2 /\ N =< M /\ j \in 0 .. M - N
      /\ qhat \in Nat /\ rhat \in Nat /\ scale \in 1 .. RADIX - 1
  BY InvFacts
<1>2. xd_n \in M .. M + 1
  BY Types
<1>3. /\ carry' = 0 /\ j' \in 0 .. M - N
      /\ \/ i' = 0 /\ pc' \in {"estimate", "done"} /\ rem' = rem
         \/ i' = xd_n - 1 /\ pc' = "unnormalize" /\ rem' = digits_alloc(xd_n).digits
  BY <1>1 DEF NextDigit
<1>4. digits_alloc(xd_n).digits \in [0 .. xd_n - 1 -> Digit]
  <2>1. 0 \in Digit
    BY DEF Digit
  <2>2. [k \in 0 .. xd_n - 1 |-> 0] \in [0 .. xd_n - 1 -> Digit]
    BY <2>1
  <2>3. digits_alloc(xd_n).digits = [k \in 0 .. xd_n - 1 |-> 0]
    BY DEF digits_alloc
  <2>4. QED
    BY <2>2, <2>3
<1>5. KnuthTypeOK'
  <2>1. /\ i' \in -1 .. M + 1 /\ carry' \in Nat /\ j' \in 0 .. M - N
        /\ qhat' \in Nat /\ rhat' \in Nat
    BY <1>1, <1>2, <1>3 DEF trial
  <2>2. pc' \in Steps
    BY <1>3 DEF Steps
  <2>3. UNCHANGED << operands, xd, yd, xd_n, misled >>
    OBVIOUS
  <2>4. rem' = << >> \/ rem' \in [0 .. xd_n' - 1 -> Digit]
    BY <1>3, <1>4, <2>3, Types, Zenon
  <2>5. QED
    BY <2>1, <2>2, <2>3, <2>4, Types, TypeStep, Zenon
<1>6. pc' = "unnormalize" =>
        /\ i' \in -1 .. xd_n' - 1 /\ carry' \in 0 .. scale - 1
        /\ rem' \in [0 .. xd_n' - 1 -> Digit]
  BY <1>1, <1>2, <1>3, <1>4
<1>7. pc' # "unnormalize" => i' \in 0 .. N + 1 \/ pc' = "done"
  BY <1>1, <1>3
<1>8. pc' \notin {"scale_x", "scale_y", "add_back"}
  BY <1>3
<1>9. QED
  BY <1>5, <1>6, <1>7, <1>8, LoopStep

(* D5. *)
LEMMA KeepTrialDigitPreserves ==
  ASSUME KnuthInv, KeepTrialDigit
  PROVE  KnuthInv'
<1>1. /\ pc = "subtract" /\ borrow = 0 /\ NextDigit
      /\ quot' = [quot EXCEPT ![j] = qhat % U64]
      /\ UNCHANGED << operands, xd, yd, xd_n, trial, misled >>
  BY DEF KeepTrialDigit
<1>2. qhat % U64 \in Word /\ j \in 0 .. M - N
  BY InvFacts, Constants DEF Word
<1>3. quot' \in [0 .. M - N -> Word]
  BY <1>1, <1>2, Types, Except
<1>4. borrow' \in 0 .. 1
  BY <1>1 DEF NextDigit
<1>5. QED
  BY <1>1, <1>3, <1>4, NextDigitPreserves

(* D6. *)
LEMMA DecrementTrialDigitPreserves ==
  ASSUME KnuthInv, DecrementTrialDigit
  PROVE  KnuthInv'
<1> USE Constants
<1>1. /\ pc = "subtract" /\ pc' = "add_back" /\ i' = 0 /\ carry' = 0
      /\ quot' = [quot EXCEPT ![j] = (qhat - 1) % U64]
      /\ UNCHANGED << operands, xd, yd, xd_n, rem, j, trial, borrow, misled >>
  BY DEF DecrementTrialDigit
<1>2. /\ M \in Nat /\ N \in Nat /\ N >= 2 /\ N =< M /\ j \in 0 .. M - N
      /\ qhat \in Nat /\ rhat \in Nat /\ borrow \in 0 .. 1
  BY InvFacts
<1>3. (qhat - 1) % U64 \in Word
  BY <1>2 DEF Word
<1>4. quot' \in [0 .. M - N -> Word]
  BY <1>1, <1>2, <1>3, Types, Except
<1>5. KnuthTypeOK'
  <2>1. /\ i' \in -1 .. M + 1 /\ carry' \in Nat /\ j' \in 0 .. M - N /\ borrow' \in 0 .. 1
        /\ qhat' \in Nat /\ rhat' \in Nat
    BY <1>1, <1>2 DEF trial
  <2>2. pc' \in Steps
    BY <1>1 DEF Steps
  <2>3. UNCHANGED << operands, xd, yd, xd_n, rem, misled >>
    BY <1>1
  <2>4. QED
    BY <1>4, <2>1, <2>2, <2>3, Types, TypeStep, Zenon
<1>6. QED
  BY <1>1, <1>2, <1>5, LoopStep

LEMMA AddBackPreserves ==
  ASSUME KnuthInv, AddBack
  PROVE  KnuthInv'
<1> USE Constants
<1> DEFINE sum == (xd[j + i] + yd[i] + carry) % U64
<1> DEFINE c == IF sum < yd[i] \/ sum >= RADIX THEN 1 ELSE 0
<1>1. /\ pc = "add_back" /\ pc' = "add_back" /\ i \in 0 .. N + 1 /\ i =< N /\ i' = i + 1
      /\ carry \in 0 .. 1 /\ carry' = c
      /\ xd' = [xd EXCEPT ![j + i] = (sum - c * RADIX) % U64]
      /\ UNCHANGED << operands, yd, xd_n, quot, rem, j, trial, borrow, misled >>
  BY DEF KnuthInv, AddBack
<1>2. /\ M \in Nat /\ N \in Nat /\ N >= 2 /\ N =< M /\ j \in 0 .. M - N
      /\ \A k \in 0 .. M : xd[k] \in 0 .. RADIX - 1
      /\ \A k \in 0 .. N : yd[k] \in 0 .. RADIX - 1
      /\ qhat \in Nat /\ rhat \in Nat /\ borrow \in 0 .. 1
  BY InvFacts
<1>3. j + i \in 0 .. M /\ i \in 0 .. N
  BY <1>1, <1>2
<1>4. c \in 0 .. 1 /\ (sum - c * RADIX) % U64 \in 0 .. RADIX - 1
  <2>1. xd[j + i] \in 0 .. RADIX - 1 /\ yd[i] \in 0 .. RADIX - 1
    BY <1>2, <1>3
  <2>2. (sum - c * RADIX) % U64 \in 0 .. RADIX - 1
    BY <1>1, <2>1, DigitSum
  <2>3. c \in 0 .. 1
    OBVIOUS
  <2> HIDE DEF c, sum
  <2>4. QED
    BY <2>2, <2>3
<1> HIDE DEF sum, c
<1>5. xd' \in [0 .. M -> Digit]
  BY <1>1, <1>3, <1>4, Types, Except DEF Digit
<1>6. KnuthTypeOK'
  <2>1. /\ i' \in -1 .. M + 1 /\ carry' \in Nat /\ j' \in 0 .. M - N /\ borrow' \in 0 .. 1
        /\ qhat' \in Nat /\ rhat' \in Nat
    BY <1>1, <1>2, <1>4 DEF trial
  <2>2. pc' \in Steps
    BY <1>1 DEF Steps
  <2>3. UNCHANGED << operands, yd, xd_n, quot, rem, misled >>
    BY <1>1
  <2>4. QED
    BY <1>5, <2>1, <2>2, <2>3, Types, TypeStep, Zenon
<1>7. i' \in 0 .. N + 1
  BY <1>1, <1>2
<1>8. QED
  BY <1>1, <1>4, <1>6, <1>7, LoopStep

LEMMA AddedBackPreserves ==
  ASSUME KnuthInv, AddedBack
  PROVE  KnuthInv'
<1>1. /\ pc = "add_back" /\ NextDigit
      /\ UNCHANGED << operands, xd, yd, xd_n, quot, trial, misled >>
  BY DEF AddedBack
<1>2. borrow' \in 0 .. 1
  BY <1>1 DEF NextDigit
<1>3. quot' \in [0 .. M - N -> Word]
  BY <1>1, Types
<1>4. QED
  BY <1>1, <1>2, <1>3, NextDigitPreserves

(* D8. *)
LEMMA UnnormalizePreserves ==
  ASSUME KnuthInv, Unnormalize
  PROVE  KnuthInv'
<1> USE Constants
<1>1. /\ pc = "unnormalize" /\ i \in -1 .. xd_n - 1 /\ carry \in 0 .. scale - 1
      /\ rem \in [0 .. xd_n - 1 -> Digit]
      /\ UNCHANGED << operands, xd, yd, xd_n, quot, j, trial, borrow, misled >>
  BY DEF KnuthInv, Unnormalize
<1>2. /\ M \in Nat /\ N \in Nat /\ N >= 2 /\ N =< M /\ j \in 0 .. M - N
      /\ \A k \in 0 .. M : xd[k] \in 0 .. RADIX - 1
      /\ qhat \in Nat /\ rhat \in Nat /\ borrow \in 0 .. 1
      /\ scale \in 1 .. RADIX - 1
  BY InvFacts
<1>3. xd_n \in M .. M + 1
  BY Types
<1>4. scale' = scale
  BY <1>1 DEF operands
<1>5. /\ pc' \in {"unnormalize", "done"} /\ i' \in -1 .. xd_n - 1
      /\ carry' \in 0 .. scale - 1 /\ rem' \in [0 .. xd_n - 1 -> Digit]
  <2>1. CASE i >= 0
    <3>1. /\ rem' = [rem EXCEPT ![i] = (carry * RADIX + xd[i]) \div scale]
          /\ carry' = (carry * RADIX + xd[i]) % scale
          /\ i' = i - 1 /\ pc' = pc
      BY <2>1 DEF Unnormalize
    <3>2. i \in 0 .. xd_n - 1 /\ i \in 0 .. M
      BY <1>1, <1>2, <1>3, <2>1
    <3>3. xd[i] \in 0 .. RADIX - 1
      BY <1>2, <3>2
    <3>4. /\ (carry * RADIX + xd[i]) \div scale \in 0 .. RADIX - 1
          /\ (carry * RADIX + xd[i]) % scale \in 0 .. scale - 1
      BY <1>1, <1>2, <3>3, ShortDivision
    <3> DEFINE n == xd_n - 1
    <3> DEFINE q == (carry * RADIX + xd[i]) \div scale
    <3>5. q \in Digit
      BY <3>4 DEF Digit
    <3>6. rem \in [0 .. n -> Digit] /\ i \in 0 .. n
      BY <1>1, <3>2
    <3> HIDE DEF n, q
    <3>7. [rem EXCEPT ![i] = q] \in [0 .. n -> Digit]
      BY <3>5, <3>6, Except
    <3>8. rem' \in [0 .. xd_n - 1 -> Digit]
      BY <3>1, <3>7 DEF n, q
    <3>9. i' \in -1 .. xd_n - 1
      BY <1>2, <1>3, <3>1, <3>2
    <3>10. QED
      BY <1>1, <3>1, <3>4, <3>8, <3>9
  <2>2. CASE ~(i >= 0)
    BY <1>1, <2>2 DEF Unnormalize
  <2>3. QED
    BY <2>1, <2>2
<1>6. KnuthTypeOK'
  <2>1. /\ i' \in -1 .. M + 1 /\ carry' \in Nat /\ j' \in 0 .. M - N /\ borrow' \in 0 .. 1
        /\ qhat' \in Nat /\ rhat' \in Nat
    BY <1>1, <1>2, <1>3, <1>5 DEF trial
  <2>2. pc' \in Steps
    BY <1>5 DEF Steps
  <2>3. UNCHANGED << operands, xd, yd, xd_n, quot, misled >>
    BY <1>1
  <2>4. rem' \in [0 .. xd_n' - 1 -> Digit]
    BY <1>5, <2>3
  <2>5. QED
    BY <2>1, <2>2, <2>3, <2>4, Types, TypeStep, Zenon
<1>7. xd_n' = xd_n
  BY <1>1
<1>8. QED
  BY <1>1, <1>4, <1>5, <1>6, <1>7, LoopStep

-----------------------------------------------------------------------------
(***************************************************************************)
(* The operands of a call: without a leading zero, all digits proper.      *)
(***************************************************************************)
Proper(a) ==
  /\ a.n_signif \in Nat /\ a.n_signif >= 1
  /\ a.digits \in [0 .. a.n_signif - 1 -> Digit]
  /\ a.digits[a.n_signif - 1] # 0

LEMMA OperandsAreProper ==
  ASSUME NEW max \in Int, NEW a \in Operands(max)
  PROVE  Proper(a)
<1>1. PICK n \in 1 .. max :
        a \in {[n_alloc |-> n, n_signif |-> n, digits |-> d] : d \in [0 .. n - 1 -> Digits]}
  BY Zenon DEF Operands
<1> PICK d \in [0 .. n - 1 -> Digits] : a = [n_alloc |-> n, n_signif |-> n, digits |-> d]
  BY <1>1
<1>2. a.n_signif = n /\ a.digits = d /\ n \in Nat /\ n >= 1
  OBVIOUS
<1>3. d \in [0 .. n - 1 -> Digit]
  BY DivisionDigits DEF Digit
<1>4. a.digits[a.n_signif - 1] # 0
  BY DEF Operands, NonZeroTop
<1>5. QED
  BY <1>2, <1>3, <1>4 DEF Proper

(* A copy keeps the digits, moved up, and has zeros elsewhere. *)
LEMMA CopyIsProper ==
  ASSUME NEW a, Proper(a), NEW shift \in Nat, NEW add \in Nat,
         NEW c, c = digits_copy(a, shift, add)
  PROVE  /\ c.n_signif = a.n_signif + shift
         /\ c.digits \in [0 .. a.n_signif + shift + add - 1 -> Digit]
         /\ \A k \in 0 .. a.n_signif - 1 : c.digits[k + shift] = a.digits[k]
<1> DEFINE n == a.n_signif + shift
<1> DEFINE d == [k \in 0 .. n + add - 1 |->
                   IF k \in shift .. n - 1 THEN a.digits[k - shift] ELSE 0]
<1>1. /\ a.n_signif \in Nat
      /\ \A k \in 0 .. a.n_signif - 1 : a.digits[k] \in Digit
  BY DEF Proper
<1>2. c = [n_alloc |-> n + add, n_signif |-> n, digits |-> d]
  BY DEF digits_copy
<1>3. 0 \in Digit
  BY Constants DEF Digit
<1>4. \A k \in 0 .. n + add - 1 : d[k] \in Digit
  <2>1. SUFFICES ASSUME NEW k \in 0 .. n + add - 1 PROVE d[k] \in Digit
    OBVIOUS
  <2>2. CASE k \in shift .. n - 1
    <3>1. k - shift \in 0 .. a.n_signif - 1
      BY <1>1, <2>2
    <3>2. QED
      BY <1>1, <2>2, <3>1
  <2>3. CASE k \notin shift .. n - 1
    BY <1>3, <2>3
  <2>4. QED
    BY <2>2, <2>3
<1>5. d \in [0 .. n + add - 1 -> Digit]
  BY <1>4
<1>6. \A k \in 0 .. a.n_signif - 1 : d[k + shift] = a.digits[k]
  <2>1. SUFFICES ASSUME NEW k \in 0 .. a.n_signif - 1 PROVE d[k + shift] = a.digits[k]
    OBVIOUS
  <2>2. /\ k + shift \in 0 .. n + add - 1 /\ k + shift \in shift .. n - 1
        /\ (k + shift) - shift = k
    BY <1>1
  <2>3. QED
    BY <2>2
<1>7. c.n_signif = n /\ c.digits = d
  BY <1>2
<1>8. n + add - 1 = a.n_signif + shift + add - 1
  BY <1>1
<1> HIDE DEF d
<1>9. QED
  BY <1>5, <1>6, <1>7, <1>8

LEMMA ShiftedIsProper ==
  ASSUME NEW a, Proper(a)
  PROVE  Proper(digits_copy(a, 1, 0))
<1> DEFINE c == digits_copy(a, 1, 0)
<1>1. a.n_signif \in Nat /\ a.n_signif >= 1 /\ a.digits[a.n_signif - 1] # 0
  BY DEF Proper
<1>2. /\ c.n_signif = a.n_signif + 1
      /\ c.digits \in [0 .. a.n_signif + 1 + 0 - 1 -> Digit]
      /\ \A k \in 0 .. a.n_signif - 1 : c.digits[k + 1] = a.digits[k]
  BY CopyIsProper
<1> HIDE DEF c
<1>3. a.n_signif + 1 + 0 - 1 = c.n_signif - 1
  BY <1>1, <1>2
<1>4. c.digits[c.n_signif - 1] = a.digits[a.n_signif - 1]
  <2>1. a.n_signif - 1 \in 0 .. a.n_signif - 1 /\ (a.n_signif - 1) + 1 = c.n_signif - 1
    BY <1>1, <1>2
  <2>2. QED
    BY <1>2, <2>1
<1>5. QED
  BY <1>1, <1>2, <1>3, <1>4 DEF Proper, c

LEMMA CallInv ==
  ASSUME NEW a, NEW b, Proper(a), Proper(b), Call(a, b)
  PROVE  KnuthInv
<1> USE Constants
<1>1. /\ x = a /\ y = b /\ M = a.n_signif /\ N = b.n_signif
      /\ N > 1 /\ M >= N /\ scale = NormalizingFactor(b)
      /\ xd = digits_copy(a, 0, 1).digits /\ yd = digits_copy(b, 0, 1).digits
      /\ xd_n = M /\ quot = digits_alloc(M - N + 1).digits /\ rem = << >>
      /\ i = 0 /\ j = 0 /\ qhat = 0 /\ rhat = 0 /\ carry = 0 /\ borrow = 0
      /\ misled = FALSE /\ pc = "scale_x"
  BY DEF Call, M, N
<1>2. /\ M \in Nat /\ N \in Nat
      /\ a.digits \in [0 .. M - 1 -> Digit] /\ b.digits \in [0 .. N - 1 -> Digit]
      /\ b.digits[N - 1] # 0
  BY <1>1 DEF Proper
<1>3. scale \in 1 .. RADIX - 1
  <2> DEFINE v == b.digits[N - 1]
  <2>1. v \in 1 .. RADIX - 1
    BY <1>1, <1>2 DEF Digit
  <2>2. scale = RADIX \div (v + 1)
    BY <1>1 DEF NormalizingFactor
  <2> HIDE DEF v
  <2>3. QED
    BY <2>1, <2>2, Normalization
<1>4. xd \in [0 .. M -> Digit]
  <2>1. xd \in [0 .. M + 0 + 1 - 1 -> Digit]
    BY <1>1, CopyIsProper
  <2>2. M + 0 + 1 - 1 = M
    BY <1>2
  <2>3. QED
    BY <2>1, <2>2
<1>5. yd \in [0 .. N -> Digit] /\ \A k \in 0 .. N - 1 : yd[k] = b.digits[k]
  <2>1. /\ yd \in [0 .. N + 0 + 1 - 1 -> Digit]
        /\ \A k \in 0 .. N - 1 : yd[k + 0] = b.digits[k]
    BY <1>1, CopyIsProper
  <2>2. N + 0 + 1 - 1 = N /\ \A k \in 0 .. N - 1 : k + 0 = k
    BY <1>2
  <2>3. QED
    BY <2>1, <2>2
<1>6. quot \in [0 .. M - N -> Word]
  <2>1. 0 \in Word
    BY DEF Word
  <2>2. digits_alloc(M - N + 1).digits = [k \in 0 .. (M - N + 1) - 1 |-> 0]
    BY DEF digits_alloc
  <2>3. (M - N + 1) - 1 = M - N
    BY <1>2
  <2>4. QED
    BY <1>1, <2>1, <2>2, <2>3
<1>7. scale \in 1 .. MAX_DIGIT /\ N \in 2 .. M /\ xd_n \in M .. M + 1
      /\ j \in 0 .. M - N /\ i \in -1 .. M + 1
      /\ qhat \in Nat /\ rhat \in Nat /\ carry \in Nat /\ borrow \in 0 .. 1
  BY <1>1, <1>2, <1>3
<1>8. misled \in BOOLEAN /\ pc \in Steps
  BY <1>1 DEF Steps
<1>9. KnuthTypeOK
  BY <1>1, <1>2, <1>4, <1>5, <1>6, <1>7, <1>8, Zenon DEF KnuthTypeOK
<1>10. DivisorIsNormalized
  BY <1>1 DEF DivisorIsNormalized
<1>11. carry \in 0 .. scale - 1 /\ i \in 0 .. M
  BY <1>1, <1>2, <1>3
<1>12. scale = NormalizingFactor(y) /\ y.digits[N - 1] # 0
  BY <1>1, <1>2
<1>13. QED
  BY <1>1, <1>5, <1>9, <1>10, <1>11, <1>12 DEF KnuthInv

LEMMA InitInv == Init => KnuthInv
<1>1. MaxDividend \in Int /\ MaxDivisor \in Int /\ MaxDividend - 1 \in Int /\ MaxDivisor - 1 \in Int
  BY DivisionLengths
<1>2. ASSUME NEW a \in Operands(MaxDividend), NEW b \in Operands(MaxDivisor), Call(a, b)
      PROVE  KnuthInv
  BY <1>1, <1>2, OperandsAreProper, CallInv
<1>3. ASSUME NEW a \in Operands(MaxDividend - 1), NEW b \in Operands(MaxDivisor),
             Call(digits_copy(a, 1, 0), b)
      PROVE  KnuthInv
  BY <1>1, <1>3, OperandsAreProper, ShiftedIsProper, CallInv
<1>4. ASSUME NEW a \in Operands(MaxDividend), NEW b \in Operands(MaxDivisor - 1),
             Call(a, digits_copy(b, 1, 0))
      PROVE  KnuthInv
  BY <1>1, <1>4, OperandsAreProper, ShiftedIsProper, CallInv
<1>5. QED
  BY <1>2, <1>3, <1>4 DEF Init

LEMMA NextInv == KnuthInv /\ [Next]_vars => KnuthInv'
<1>1. ASSUME KnuthInv, UNCHANGED vars PROVE KnuthInv'
  <2>1. /\ x' = x /\ y' = y /\ scale' = scale /\ xd' = xd /\ yd' = yd /\ xd_n' = xd_n
        /\ quot' = quot /\ rem' = rem /\ i' = i /\ j' = j /\ qhat' = qhat /\ rhat' = rhat
        /\ carry' = carry /\ borrow' = borrow /\ misled' = misled /\ pc' = pc
    BY <1>1 DEF vars, operands, trial
  <2>2. M' = M /\ N' = N
    BY <2>1 DEF M, N
  <2>3. KnuthTypeOK'
    <3>1. KnuthTypeOK
      BY <1>1 DEF KnuthInv
    <3>2. QED
      BY <2>1, <2>2, <3>1, Zenon DEF KnuthTypeOK
  <2>4. DivisorIsNormalized' /\ NormalizingFactor(y)' = NormalizingFactor(y)
    BY <1>1, <2>1, <2>2 DEF KnuthInv, DivisorIsNormalized, NormalizingFactor
  <2>5. QED
    BY <1>1, <2>1, <2>2, <2>3, <2>4 DEF KnuthInv
<1>2. ASSUME KnuthInv, Next PROVE KnuthInv'
  <2>1. CASE Returned
    BY <1>1, <1>2, <2>1 DEF Returned
  <2>2. CASE ~Returned
    BY <1>2, <2>2, ScaleDividendPreserves, ScaleDivisorPreserves, TrialPreserves,
       MultiplySubtractPreserves, KeepTrialDigitPreserves, DecrementTrialDigitPreserves,
       AddBackPreserves, AddedBackPreserves, UnnormalizePreserves DEF Next
  <2>3. QED
    BY <2>1, <2>2
<1>3. QED
  BY <1>1, <1>2

-----------------------------------------------------------------------------
(* KnuthInv holds in every state of a call. *)
THEOREM LongDivisionInvariant == Spec => []KnuthInv
BY InitInv, NextInv, PTL DEF Spec

(***************************************************************************)
(* digits_divmod and the short division of its remainder work on proper    *)
(* digits and never leave their arrays, also when the trial digit is       *)
(* wrong.                                                                  *)
(***************************************************************************)
THEOREM LongDivisionTypes == Spec => []KnuthTypeOK
<1>1. KnuthInv => KnuthTypeOK
  BY DEF KnuthInv
<1>2. QED
  BY <1>1, LongDivisionInvariant, PTL

(* The comment on D1: the divisor is scaled to at least half the radix. *)
THEOREM ScaledDivisorIsNormalized == Spec => []DivisorIsNormalized
<1>1. KnuthInv => DivisorIsNormalized
  BY DEF KnuthInv
<1>2. QED
  BY <1>1, LongDivisionInvariant, PTL

-----------------------------------------------------------------------------
(***************************************************************************)
(* The long division divides: while no remainder of a trial digit wraps,   *)
(* the trial digit is the digit of the quotient or one more, and quotient  *)
(* and remainder are exact, for every radix, word size and length.         *)
(***************************************************************************)

(* Products and order. *)
LEMMA Cancel ==
  ASSUME NEW a \in Int, NEW b \in Int, NEW w \in Nat, a * w < b * w
  PROVE  a < b
<1>1. ASSUME b =< a PROVE FALSE
  <2>1. b * w =< a * w
    BY <1>1
  <2>2. QED
    BY <2>1
<1>2. QED
  BY <1>1

LEMMA Grows ==
  ASSUME NEW a \in Int, NEW b \in Int, NEW w \in Nat, a =< b
  PROVE  a * w =< b * w
OBVIOUS

-----------------------------------------------------------------------------
(***************************************************************************)
(* The trial digit. v1 and v2 are the two top digits of a divisor v, t the *)
(* number of the two top digits of what is divided, u0 the digit below, w  *)
(* what the lower of them count.                                           *)
(***************************************************************************)
Leading(v1, v2, t, u0, w, v, u) ==
  /\ v1 \in Nat /\ v1 < RADIX /\ 2 * v1 >= RADIX
  /\ v2 \in Nat /\ v2 < RADIX
  /\ t \in Nat
  /\ u0 \in Nat /\ u0 < RADIX
  /\ w \in Nat /\ w # 0 /\ v \in Nat /\ u \in Nat
  /\ (v1 * RADIX + v2) * w =< v /\ v < (v1 * RADIX + v2 + 1) * w
  /\ (t * RADIX + u0) * w =< u /\ u < (t * RADIX + u0 + 1) * w

(* qhat * v1 + rhat is what the two top digits stand for. *)
Estimated(q, r, v1, t) == q \in Nat /\ r \in Nat /\ q * v1 + r = t

LEMMA TrialIsSmall ==
  ASSUME NEW v1, NEW v2, NEW t, NEW u0, NEW w, NEW v, NEW u, NEW q, NEW r,
         Leading(v1, v2, t, u0, w, v, u), Estimated(q, r, v1, t), u < RADIX * v
  PROVE  q =< RADIX + 1
<1> USE Constants
<1>1. /\ v1 \in Nat /\ v2 \in Nat /\ t \in Nat /\ u0 \in Nat /\ w \in Nat /\ v \in Nat /\ u \in Nat
      /\ v2 < RADIX /\ 2 * v1 >= RADIX /\ q \in Nat /\ r \in Nat /\ q * v1 + r = t
  BY DEF Leading, Estimated
<1> DEFINE vv == v1 * RADIX + v2
<1>2. vv \in Nat
  BY <1>1
<1>3. v < (vv + 1) * w /\ (t * RADIX + u0) * w =< u
  BY DEF Leading
<1> HIDE DEF vv
<1>4. t * RADIX < (vv + 1) * RADIX
  <2>1. t * RADIX \in Nat /\ (vv + 1) * RADIX \in Nat /\ (vv + 1) * w \in Nat
    BY <1>1, <1>2
  <2>2. (t * RADIX) * w =< (t * RADIX + u0) * w
    BY <1>1, <2>1, Grows
  <2>3. v * RADIX =< ((vv + 1) * w) * RADIX
    BY <1>1, <1>3, <2>1, Grows
  <2>4. ((vv + 1) * w) * RADIX = ((vv + 1) * RADIX) * w /\ v * RADIX = RADIX * v
    BY <1>1, <1>2
  <2>5. (t * RADIX) * w < ((vv + 1) * RADIX) * w
    <3>1. (t * RADIX) * w \in Int /\ (t * RADIX + u0) * w \in Int
          /\ RADIX * v \in Int /\ ((vv + 1) * RADIX) * w \in Int
      BY <1>1, <2>1
    <3>2. QED
      BY <1>1, <1>3, <2>2, <2>3, <2>4, <3>1
  <2>6. QED
    BY <1>1, <2>1, <2>5, Cancel
<1>5. t < vv + 1
  BY <1>1, <1>2, <1>4, Cancel
<1>6. ASSUME q > RADIX + 1 PROVE FALSE
  <2>1. (RADIX + 2) * v1 =< q * v1
    BY <1>1, <1>6, Grows
  <2>2. (RADIX + 2) * v1 = v1 * RADIX + 2 * v1
    BY <1>1
  <2>3. q * v1 \in Nat /\ v1 * RADIX \in Nat
    BY <1>1
  <2>4. t < v1 * RADIX + v2 + 1
    BY <1>5 DEF vv
  <2>5. QED
    BY <1>1, <2>1, <2>2, <2>3, <2>4
<1>7. QED
  BY <1>1, <1>6

LEMMA TrialFromAbove ==
  ASSUME NEW v1, NEW v2, NEW t, NEW u0, NEW w, NEW v, NEW u, NEW q, NEW r,
         Leading(v1, v2, t, u0, w, v, u), Estimated(q, r, v1, t), r < v1
  PROVE  u < (q + 1) * v
<1> USE Constants
<1>1. /\ v1 \in Nat /\ v2 \in Nat /\ t \in Nat /\ u0 \in Nat /\ w \in Nat /\ v \in Nat /\ u \in Nat
      /\ u0 < RADIX /\ q \in Nat /\ r \in Nat /\ q * v1 + r = t
  BY DEF Leading, Estimated
<1>2. (v1 * RADIX + v2) * w =< v /\ u < (t * RADIX + u0 + 1) * w
  BY DEF Leading
<1>3. t + 1 =< (q + 1) * v1
  <2>1. (q + 1) * v1 = q * v1 + v1 /\ q * v1 \in Nat
    BY <1>1
  <2>2. QED
    BY <1>1, <2>1
<1>4. t * RADIX + u0 + 1 =< ((q + 1) * v1) * RADIX
  <2>1. (t + 1) * RADIX =< ((q + 1) * v1) * RADIX
    <3>1. (q + 1) * v1 \in Int /\ t + 1 \in Int
      BY <1>1
    <3>2. QED
      BY <1>3, <3>1, Grows
  <2>2. (t + 1) * RADIX = t * RADIX + RADIX /\ t * RADIX \in Int /\ ((q + 1) * v1) * RADIX \in Int
    BY <1>1
  <2>3. QED
    BY <1>1, <2>1, <2>2
<1> DEFINE a == t * RADIX + u0 + 1
<1> DEFINE b == ((q + 1) * v1) * RADIX
<1> DEFINE vv == v1 * RADIX + v2
<1>5. a \in Nat /\ b \in Nat /\ vv \in Nat /\ v1 * RADIX \in Nat /\ q + 1 \in Nat
  BY <1>1
<1>6. b =< vv * (q + 1)
  <2>1. (v1 * RADIX) * (q + 1) =< vv * (q + 1)
    <3>1. v1 * RADIX =< vv
      BY <1>1, <1>5
    <3> HIDE DEF vv
    <3>2. QED
      BY <1>5, <3>1, Grows
  <2>2. (v1 * RADIX) * (q + 1) = b
    BY <1>1
  <2>3. QED
    BY <2>1, <2>2
<1>7. u < a * w /\ vv * w =< v /\ a =< b
  BY <1>2, <1>4
<1> HIDE DEF a, b, vv
<1>8. a * w =< b * w /\ b * w =< (vv * (q + 1)) * w
  <2>1. vv * (q + 1) \in Int
    BY <1>5
  <2>2. QED
    BY <1>1, <1>5, <1>6, <1>7, <2>1, Grows
<1>9. (vv * (q + 1)) * w = (vv * w) * (q + 1) /\ (vv * w) * (q + 1) =< v * (q + 1)
  <2>1. vv * w \in Int
    BY <1>1, <1>5
  <2>2. (vv * w) * (q + 1) =< v * (q + 1)
    BY <1>1, <1>5, <1>7, <2>1, Grows
  <2>3. QED
    BY <1>1, <1>5, <2>2
<1>10. v * (q + 1) = (q + 1) * v /\ v * (q + 1) \in Int /\ (vv * w) * (q + 1) \in Int /\ b * w \in Int /\ a * w \in Int
  BY <1>1, <1>5
<1>11. QED
  BY <1>1, <1>7, <1>8, <1>9, <1>10

LEMMA TrialTooLarge ==
  ASSUME NEW v1, NEW v2, NEW t, NEW u0, NEW w, NEW v, NEW u, NEW q, NEW r,
         Leading(v1, v2, t, u0, w, v, u), Estimated(q, r, v1, t),
         q * v2 > r * RADIX + u0
  PROVE  u < q * v
<1> USE Constants
<1>1. /\ v1 \in Nat /\ v2 \in Nat /\ t \in Nat /\ u0 \in Nat /\ w \in Nat /\ v \in Nat /\ u \in Nat
      /\ q \in Nat /\ r \in Nat /\ q * v1 + r = t
  BY DEF Leading, Estimated
<1>2. (v1 * RADIX + v2) * w =< v /\ u < (t * RADIX + u0 + 1) * w
  BY DEF Leading
<1> DEFINE a == t * RADIX + u0 + 1
<1> DEFINE vv == v1 * RADIX + v2
<1>3. a \in Nat /\ vv \in Nat
  BY <1>1
<1>4. a =< vv * q
  <2>1. vv * q = (q * v1) * RADIX + q * v2
    BY <1>1
  <2>2. t * RADIX = (q * v1) * RADIX + r * RADIX
    BY <1>1
  <2>3. (q * v1) * RADIX \in Nat /\ r * RADIX \in Nat /\ q * v2 \in Nat
    BY <1>1
  <2>4. QED
    BY <1>1, <2>1, <2>2, <2>3
<1>5. u < a * w /\ vv * w =< v
  BY <1>2
<1> HIDE DEF a, vv
<1>6. a * w =< (vv * q) * w
  <2>1. vv * q \in Int
    BY <1>1, <1>3
  <2>2. QED
    BY <1>1, <1>3, <1>4, <2>1, Grows
<1>7. (vv * q) * w = (vv * w) * q /\ (vv * w) * q =< v * q
  <2>1. vv * w \in Int
    BY <1>1, <1>3
  <2>2. (vv * w) * q =< v * q
    BY <1>1, <1>3, <1>5, <2>1, Grows
  <2>3. QED
    BY <1>1, <1>3, <2>2
<1>8. v * q = q * v /\ v * q \in Int /\ (vv * w) * q \in Int /\ a * w \in Int
  BY <1>1, <1>3
<1>9. QED
  BY <1>1, <1>5, <1>6, <1>7, <1>8

(* One unit less fits what is divided, if the leading digits of q * v fit. *)
LEMMA TrialAccepted ==
  ASSUME NEW v1, NEW v2, NEW t, NEW u0, NEW w, NEW v, NEW u, NEW q, NEW r,
         Leading(v1, v2, t, u0, w, v, u), Estimated(q, r, v1, t),
         q < RADIX, q * v2 =< r * RADIX + u0
  PROVE  (q - 1) * v =< u
<1> USE Constants
<1>1. /\ v1 \in Nat /\ v2 \in Nat /\ t \in Nat /\ u0 \in Nat /\ w \in Nat /\ v \in Nat /\ u \in Nat
      /\ q \in Nat /\ r \in Nat /\ q * v1 + r = t /\ 2 * v1 >= RADIX
  BY DEF Leading, Estimated
<1> DEFINE uu == t * RADIX + u0
<1> DEFINE vv == v1 * RADIX + v2
<1>2. vv * w =< v /\ v < (vv + 1) * w /\ uu * w =< u
  BY DEF Leading
<1>3. uu \in Nat /\ vv \in Nat
  BY <1>1
<1>4. vv * q =< uu
  <2>1. vv * q = (q * v1) * RADIX + q * v2
    BY <1>1
  <2>2. t * RADIX = (q * v1) * RADIX + r * RADIX
    BY <1>1
  <2>3. (q * v1) * RADIX \in Nat /\ r * RADIX \in Nat /\ q * v2 \in Nat
    BY <1>1
  <2>4. QED
    BY <1>1, <2>1, <2>2, <2>3
<1>5. q =< vv
  <2>1. v1 >= 1
    BY <1>1
  <2>2. RADIX =< v1 * RADIX
    BY <1>1, <2>1
  <2>3. v1 * RADIX \in Nat
    BY <1>1
  <2>4. QED
    BY <1>1, <2>2, <2>3
<1> HIDE DEF uu, vv
<1>6. v * q =< (vv * q) * w + q * w
  <2>1. v * q =< ((vv + 1) * w) * q
    <3>1. (vv + 1) * w \in Int /\ v =< (vv + 1) * w
      BY <1>1, <1>2, <1>3
    <3>2. QED
      BY <1>1, <3>1, Grows
  <2>2. ((vv + 1) * w) * q = (vv * q) * w + q * w
    BY <1>1, <1>3
  <2>3. QED
    BY <2>1, <2>2
<1>7. (vv * q) * w =< uu * w /\ q * w =< vv * w
  <2>1. vv * q \in Int
    BY <1>1, <1>3
  <2>2. QED
    BY <1>1, <1>3, <1>4, <1>5, <2>1, Grows
<1>8. (q - 1) * v = v * q - v /\ v * q \in Int /\ (vv * q) * w \in Int /\ q * w \in Int
      /\ uu * w \in Int /\ vv * w \in Int
  BY <1>1, <1>3
<1>9. QED
  BY <1>1, <1>2, <1>6, <1>7, <1>8

(* The same if the remainder has become too large for a digit. *)
LEMMA TrialEnded ==
  ASSUME NEW v1, NEW v2, NEW t, NEW u0, NEW w, NEW v, NEW u, NEW q, NEW r,
         Leading(v1, v2, t, u0, w, v, u), Estimated(q, r, v1, t),
         q =< RADIX, r >= RADIX
  PROVE  (q - 1) * v =< u
<1> USE Constants
<1>1. /\ v1 \in Nat /\ v2 \in Nat /\ t \in Nat /\ u0 \in Nat /\ w \in Nat /\ v \in Nat /\ u \in Nat
      /\ q \in Nat /\ r \in Nat /\ q * v1 + r = t /\ v2 < RADIX
  BY DEF Leading, Estimated
<1> DEFINE uu == t * RADIX + u0
<1> DEFINE vv == v1 * RADIX + v2
<1>2. v < (vv + 1) * w /\ uu * w =< u
  BY DEF Leading
<1>3. uu \in Nat /\ vv \in Nat
  BY <1>1
<1>4. CASE q = 0
  <2>1. (q - 1) * v = -v
    BY <1>1, <1>4
  <2>2. QED
    BY <1>1, <2>1
<1>5. CASE q # 0
  <2>1. q - 1 \in Nat
    BY <1>1, <1>5
  <2>2. (vv + 1) * (q - 1) =< uu
    <3>1. (q - 1) * (v2 + 1) =< r * RADIX
      <4>1. (v2 + 1) * (q - 1) =< RADIX * (q - 1)
        BY <1>1, <2>1, Grows
      <4>2. (q - 1) * RADIX =< r * RADIX
        BY <1>1, <2>1, Grows
      <4>3. (v2 + 1) * (q - 1) = (q - 1) * (v2 + 1) /\ RADIX * (q - 1) = (q - 1) * RADIX
        BY <1>1, <2>1
      <4>4. (q - 1) * (v2 + 1) \in Int /\ (q - 1) * RADIX \in Int /\ r * RADIX \in Int
        BY <1>1, <2>1
      <4>5. QED
        BY <4>1, <4>2, <4>3, <4>4
    <3>2. (vv + 1) * (q - 1) = (q * v1) * RADIX - v1 * RADIX + (q - 1) * (v2 + 1)
      BY <1>1, <2>1
    <3>3. uu = (q * v1) * RADIX + r * RADIX + u0
      BY <1>1
    <3>4. (q * v1) * RADIX \in Nat /\ v1 * RADIX \in Nat /\ (q - 1) * (v2 + 1) \in Nat /\ r * RADIX \in Nat
      BY <1>1, <2>1
    <3> HIDE DEF uu, vv
    <3>5. QED
      BY <1>1, <3>1, <3>2, <3>3, <3>4
  <2> HIDE DEF uu, vv
  <2>3. v * (q - 1) =< ((vv + 1) * w) * (q - 1)
    <3>1. (vv + 1) * w \in Int /\ v =< (vv + 1) * w
      BY <1>1, <1>2, <1>3
    <3>2. QED
      BY <1>1, <2>1, <3>1, Grows
  <2>4. ((vv + 1) * (q - 1)) * w =< uu * w
    <3>1. (vv + 1) * (q - 1) \in Int
      BY <1>3, <2>1
    <3>2. QED
      BY <1>1, <1>3, <2>2, <3>1, Grows
  <2>5. ((vv + 1) * w) * (q - 1) = ((vv + 1) * (q - 1)) * w /\ v * (q - 1) = (q - 1) * v
    BY <1>1, <1>3, <2>1
  <2>6. v * (q - 1) \in Int /\ ((vv + 1) * (q - 1)) * w \in Int /\ uu * w \in Int
    BY <1>1, <1>3, <2>1
  <2>7. QED
    BY <1>1, <1>2, <2>3, <2>4, <2>5, <2>6
<1>6. QED
  BY <1>4, <1>5

(* A trial digit fits a word, even if the one before was wrong. *)
LEMMA TrialFitsWord ==
  ASSUME NEW v1 \in Nat, v1 > U64 - RADIX, NEW a \in 0 .. RADIX - 1, NEW b \in 0 .. RADIX - 1
  PROVE  (a * RADIX + b) \div v1 < U64
<1> USE Constants
<1> DEFINE t == a * RADIX + b
<1> DEFINE q == t \div v1
<1>1. v1 # 0
  OBVIOUS
<1>2. t \in Nat /\ t < RADIX * RADIX
  <2>1. a * RADIX =< (RADIX - 1) * RADIX /\ a * RADIX \in Nat
    OBVIOUS
  <2>2. (RADIX - 1) * RADIX = RADIX * RADIX - RADIX /\ RADIX * RADIX \in Nat
    OBVIOUS
  <2>3. QED
    BY <2>1, <2>2
<1> HIDE DEF t
<1>3. q \in Nat /\ v1 * q =< t
  BY <1>1, <1>2
<1> HIDE DEF q
<1>4. ASSUME q >= U64 PROVE FALSE
  <2>1. (U64 - RADIX + 1) * U64 =< v1 * U64
    <3>1. U64 - RADIX + 1 \in Int /\ U64 - RADIX + 1 =< v1
      OBVIOUS
    <3>2. QED
      BY <3>1, Grows
  <2>2. U64 * v1 =< q * v1
    BY <1>3, <1>4, Grows
  <2>3. U64 * v1 = v1 * U64 /\ q * v1 = v1 * q /\ (U64 - RADIX + 1) * U64 = U64 * (U64 - RADIX + 1)
    BY <1>3
  <2>4. U64 * v1 \in Int /\ v1 * q \in Int /\ U64 * (U64 - RADIX + 1) \in Int /\ RADIX * RADIX \in Int
    BY <1>3
  <2>5. QED
    BY <1>2, <1>3, <2>1, <2>2, <2>3, <2>4, TrialAssumption
<1>5. QED
  BY <1>3, <1>4 DEF q, t

-----------------------------------------------------------------------------
(* An array e which differs from d at most in the digit k. *)
LEMMA ValueChanged ==
  ASSUME NEW d, NEW e, NEW n \in Nat, NEW k \in Nat, k < n,
         Integral(d, n), Integral(e, n),
         \A m \in 0 .. n - 1 : m # k => e[m] = d[m]
  PROVE  /\ ValueOf(e, n) = ValueOf(d, n) + (e[k] - d[k]) * Weight(k)
         /\ \A m \in 0 .. k : ValueOf(e, m) = ValueOf(d, m)
<1>1. ASSUME NEW m \in 0 .. k PROVE ValueOf(d, m) = ValueOf(e, m)
  <2>1. m \in Nat /\ Integral(d, m) /\ \A p \in 0 .. m - 1 : d[p] = e[p]
    BY DEF Integral
  <2>2. QED
    BY <2>1, ValueSame
<1>2. /\ k + 1 \in Nat /\ k + 1 =< n /\ Integral(d, k + 1) /\ Integral(e, k + 1)
      /\ \A m \in k + 1 .. n - 1 : d[m] = e[m]
      /\ Integral(d, k) /\ d[k] \in Int /\ e[k] \in Int
  BY DEF Integral
<1>3. ValueOf(d, n) - ValueOf(d, k + 1) = ValueOf(e, n) - ValueOf(e, k + 1)
  BY <1>2, ValueHigh
<1>4. ValueOf(d, k + 1) = ValueOf(d, k) + d[k] * Weight(k)
  BY <1>2, ValueNext
<1>5. ValueOf(e, k + 1) = ValueOf(e, k) + e[k] * Weight(k)
  BY <1>2, ValueNext
<1>6. ValueOf(e, k) = ValueOf(d, k)
  BY <1>1
<1>7. ValueOf(d, n) \in Int /\ ValueOf(e, n) \in Int /\ ValueOf(d, k) \in Int
  BY <1>2, ValueType
<1>8. Weight(k) \in Nat
  BY WeightFacts
<1>9. (e[k] - d[k]) * Weight(k) = e[k] * Weight(k) - d[k] * Weight(k)
      /\ e[k] * Weight(k) \in Int /\ d[k] * Weight(k) \in Int
  BY <1>2, <1>8
<1>10. ValueOf(e, n) = ValueOf(d, n) + (e[k] - d[k]) * Weight(k)
  BY <1>3, <1>4, <1>5, <1>6, <1>7, <1>9
<1>11. QED
  BY <1>1, <1>10

(* The digit k of a product of s with m, c being the carry of the digits below. *)
Multiplied(d, e, s, k, m, c, t) ==
  /\ k \in Nat /\ m \in Nat /\ c \in Nat
  /\ Integral(d, k) /\ Integral(s, k + 1) /\ Integral(e, k + 1)
  /\ \A p \in 0 .. k - 1 : e[p] = d[p]
  /\ s[k] \in Nat
  /\ t = s[k] * m + c
  /\ e[k] = t % RADIX
  /\ ValueOf(d, k) + c * Weight(k) = ValueOf(s, k) * m

LEMMA ProductNext ==
  ASSUME NEW d, NEW e, NEW s, NEW k, NEW m, NEW c, NEW t, Multiplied(d, e, s, k, m, c, t)
  PROVE  ValueOf(e, k + 1) + (t \div RADIX) * Weight(k + 1) = ValueOf(s, k + 1) * m
<1>0. /\ k \in Nat /\ m \in Nat /\ c \in Nat
      /\ Integral(d, k) /\ Integral(s, k + 1) /\ Integral(e, k + 1)
      /\ \A p \in 0 .. k - 1 : e[p] = d[p]
      /\ s[k] \in Nat
      /\ t = s[k] * m + c
      /\ e[k] = t % RADIX
      /\ ValueOf(d, k) + c * Weight(k) = ValueOf(s, k) * m
  BY DEF Multiplied
<1> DEFINE w == Weight(k)
<1>1. t \in Nat /\ w \in Nat /\ Weight(k + 1) = RADIX * w /\ RADIX \in Nat /\ RADIX # 0
  <2>1. t \in Nat
    BY <1>0
  <2>2. w \in Nat /\ Weight(k + 1) = RADIX * w
    BY <1>0, WeightFacts
  <2>3. QED
    BY <2>1, <2>2, Constants
<1>2. ValueOf(d, k) = ValueOf(e, k)
  BY <1>0, ValueSame
<1>3. ValueOf(e, k + 1) = ValueOf(e, k) + e[k] * w
  BY <1>0, ValueNext
<1>4. ValueOf(s, k + 1) = ValueOf(s, k) + s[k] * w
  BY <1>0, ValueNext
<1>5. ValueOf(d, k) \in Int /\ ValueOf(s, k) \in Int
  <2>1. Integral(s, k)
    BY <1>0 DEF Integral
  <2>2. QED
    BY <1>0, <2>1, ValueType
<1>6. ValueOf(d, k) + c * w = ValueOf(s, k) * m
  BY <1>0
<1> DEFINE a == ValueOf(d, k)
<1> DEFINE b == ValueOf(s, k)
<1> DEFINE q == t \div RADIX
<1> DEFINE r == t % RADIX
<1>7. q \in Nat /\ r \in Nat /\ t = RADIX * q + r
  BY <1>1
<1>8. /\ a \in Int /\ b \in Int /\ a + c * w = b * m
      /\ ValueOf(e, k + 1) = a + r * w /\ ValueOf(s, k + 1) = b + s[k] * w
  BY <1>0, <1>2, <1>3, <1>4, <1>5, <1>6
<1>9. s[k] * m + c = RADIX * q + r
  BY <1>0, <1>7
<1> HIDE DEF a, b, q, r, w
<1>10. (b + s[k] * w) * m = b * m + (s[k] * m) * w
  BY <1>0, <1>1, <1>8
<1>11. r * w + q * (RADIX * w) = (RADIX * q + r) * w
  BY <1>1, <1>7
<1>12. (s[k] * m + c) * w = (s[k] * m) * w + c * w
  BY <1>0, <1>1
<1>13. /\ b * m \in Int /\ (s[k] * m) * w \in Int /\ c * w \in Int /\ r * w \in Int
       /\ q * (RADIX * w) \in Int
  BY <1>0, <1>1, <1>7, <1>8
<1>14. (a + r * w) + q * (RADIX * w) = (b + s[k] * w) * m
  BY <1>8, <1>9, <1>10, <1>11, <1>12, <1>13
<1>15. QED
  BY <1>1, <1>8, <1>14 DEF q

-----------------------------------------------------------------------------
(* The arrays of the division, and what they stand for. *)
LEMMA Arrays ==
  ASSUME KnuthInv
  PROVE  /\ Digital(x.digits, M) /\ Digital(y.digits, N)
         /\ Digital(xd, M + 1) /\ Digital(yd, N + 1)
         /\ Integral(x.digits, M) /\ Integral(y.digits, N)
         /\ Integral(xd, M + 1) /\ Integral(yd, N + 1)
         /\ Integral(quot, M - N + 1)
         /\ rem # << >> => Digital(rem, xd_n) /\ Integral(rem, xd_n)
<1>1. /\ M \in Nat /\ N \in Nat /\ N >= 2 /\ N =< M
      /\ xd_n \in M .. M + 1 /\ quot \in [0 .. M - N -> Word]
      /\ \A k \in 0 .. M : xd[k] \in 0 .. RADIX - 1
      /\ \A k \in 0 .. N : yd[k] \in 0 .. RADIX - 1
  BY InvFacts, Types
<1>2. /\ x.digits \in [0 .. M - 1 -> Digit] /\ y.digits \in [0 .. N - 1 -> Digit]
      /\ rem = << >> \/ rem \in [0 .. xd_n - 1 -> Digit]
  BY Zenon DEF KnuthInv, KnuthTypeOK
<1>3. Digit = 0 .. RADIX - 1 /\ RADIX \in Nat /\ U64 \in Nat
  BY Constants DEF Digit
<1>4. Digital(x.digits, M)
  BY <1>1, <1>2, <1>3 DEF Digital
<1>5. Digital(y.digits, N)
  BY <1>1, <1>2, <1>3 DEF Digital
<1>6. Digital(xd, M + 1) /\ Digital(yd, N + 1)
  BY <1>1 DEF Digital
<1>7. Integral(quot, M - N + 1)
  BY <1>1, <1>3 DEF Integral, Word
<1>8. rem # << >> => Digital(rem, xd_n)
  BY <1>1, <1>2, <1>3 DEF Digital
<1>9. /\ Integral(x.digits, M) /\ Integral(y.digits, N)
      /\ Integral(xd, M + 1) /\ Integral(yd, N + 1)
      /\ rem # << >> => Integral(rem, xd_n)
  BY <1>3, <1>4, <1>5, <1>6, <1>8 DEF Digital, Integral
<1>10. QED
  BY <1>4, <1>5, <1>6, <1>7, <1>8, <1>9

LEMMA OperandValues ==
  ASSUME KnuthInv
  PROVE  /\ X \in Nat /\ X < Weight(M)
         /\ Y \in Nat /\ Y < Weight(N) /\ Weight(N - 1) =< Y /\ Y # 0
<1>1. M \in Nat /\ N \in Nat /\ N >= 2
  BY InvFacts
<1>2. X \in Nat /\ X < Weight(M) /\ Y \in Nat /\ Y < Weight(N)
  BY <1>1, Arrays, ValueRange DEF X, Y
<1>3. Weight(N - 1) =< Y
  <2> DEFINE n == N - 1
  <2>1. n \in Nat /\ N = n + 1 /\ Integral(y.digits, N) /\ Digital(y.digits, N)
    BY <1>1, Arrays
  <2>2. y.digits[n] # 0
    BY DEF KnuthInv
  <2> HIDE DEF n
  <2>3. Digital(y.digits, n) /\ y.digits[n] \in Nat /\ y.digits[n] >= 1
    BY <2>1, <2>2, Constants DEF Digital
  <2>4. Y = ValueOf(y.digits, n) + y.digits[n] * Weight(n)
    BY <2>1, ValueNext DEF Y
  <2>5. ValueOf(y.digits, n) \in Nat /\ Weight(n) \in Nat
    BY <2>1, <2>3, ValueRange, WeightFacts
  <2>6. 1 * Weight(n) =< y.digits[n] * Weight(n)
    BY <2>3, <2>5, Grows
  <2>7. y.digits[n] * Weight(n) \in Nat
    BY <2>3, <2>5
  <2>8. Weight(n) =< Y
    BY <2>4, <2>5, <2>6, <2>7
  <2>9. QED
    BY <2>8 DEF n
<1>4. Weight(N - 1) \in Nat \ {0}
  <2>1. N - 1 \in Nat
    BY <1>1
  <2>2. QED
    BY <2>1, WeightFacts
<1>5. QED
  BY <1>2, <1>3, <1>4

(* A number between those of its leading digits and one more. *)
LEMMA LeadingTwo ==
  ASSUME NEW d, NEW k \in Nat, Digital(d, k + 2)
  PROVE  LET a == d[k + 1] * RADIX + d[k]
             v == ValueOf(d, k + 2)
         IN  /\ a \in Nat /\ v \in Nat
             /\ v = ValueOf(d, k) + a * Weight(k)
             /\ a * Weight(k) =< v /\ v < (a + 1) * Weight(k)
<1> DEFINE w == Weight(k)
<1> DEFINE low == ValueOf(d, k)
<1>1. /\ Digital(d, k) /\ Integral(d, k + 1) /\ Integral(d, (k + 1) + 1)
      /\ d[k] \in Nat /\ d[k + 1] \in Nat /\ RADIX \in Nat
  BY Constants DEF Digital, Integral
<1>2. low \in Nat /\ low < w
  BY <1>1, ValueRange
<1>3. w \in Nat /\ Weight(k + 1) = RADIX * w
  BY WeightFacts
<1>4. ValueOf(d, k + 1) = low + d[k] * w
  BY <1>1, ValueNext
<1>5. ValueOf(d, k + 2) = ValueOf(d, k + 1) + d[k + 1] * Weight(k + 1)
  <2> DEFINE n == k + 1
  <2>1. n \in Nat /\ Integral(d, n + 1) /\ k + 2 = n + 1
    BY <1>1
  <2> HIDE DEF n
  <2>2. ValueOf(d, n + 1) = ValueOf(d, n) + d[n] * Weight(n)
    BY <2>1, ValueNext
  <2>3. QED
    BY <2>1, <2>2 DEF n
<1> DEFINE a == d[k + 1] * RADIX + d[k]
<1>6. a \in Nat
  BY <1>1
<1>7. a * w = d[k] * w + d[k + 1] * (RADIX * w) /\ d[k] * w \in Nat /\ d[k + 1] * (RADIX * w) \in Nat
  BY <1>1, <1>3
<1> HIDE DEF a, w, low
<1>8. ValueOf(d, k + 2) = low + a * w
  BY <1>2, <1>3, <1>4, <1>5, <1>7
<1>9. (a + 1) * w = a * w + w /\ a * w \in Nat
  BY <1>3, <1>6
<1>10. /\ ValueOf(d, k + 2) \in Nat
       /\ a * w =< ValueOf(d, k + 2) /\ ValueOf(d, k + 2) < (a + 1) * w
  BY <1>2, <1>3, <1>6, <1>8, <1>9
<1>11. QED
  BY <1>6, <1>8, <1>10 DEF a, w, low

LEMMA LeadingThree ==
  ASSUME NEW d, NEW k \in Nat, Digital(d, k + 3)
  PROVE  LET t == d[k + 2] * RADIX + d[k + 1]
             u == ValueOf(d, k + 3)
         IN  /\ t \in Nat /\ u \in Nat
             /\ (t * RADIX + d[k]) * Weight(k) =< u
             /\ u < (t * RADIX + d[k] + 1) * Weight(k)
<1> DEFINE w == Weight(k)
<1> DEFINE a == d[k + 1] * RADIX + d[k]
<1> DEFINE b == d[k + 2]
<1> DEFINE v == ValueOf(d, k + 2)
<1> DEFINE t == b * RADIX + d[k + 1]
<1>1. /\ Digital(d, k + 2) /\ Integral(d, (k + 2) + 1)
      /\ d[k] \in Nat /\ d[k + 1] \in Nat /\ b \in Nat /\ RADIX \in Nat
  BY Constants DEF Digital, Integral
<1>2. a \in Nat /\ v \in Nat /\ a * w =< v /\ v < (a + 1) * w
  BY <1>1, LeadingTwo
<1>3. w \in Nat /\ Weight(k + 2) = RADIX * (RADIX * w)
  <2>1. w \in Nat /\ Weight(k + 1) = RADIX * w
    BY WeightFacts
  <2>2. k + 1 \in Nat /\ (k + 1) + 1 = k + 2
    OBVIOUS
  <2>3. Weight((k + 1) + 1) = RADIX * Weight(k + 1)
    BY <2>2, WeightFacts
  <2>4. QED
    BY <2>1, <2>2, <2>3
<1>4. ValueOf(d, k + 3) = v + b * (RADIX * (RADIX * w))
  <2> DEFINE n == k + 2
  <2>1. n \in Nat /\ Integral(d, n + 1) /\ k + 3 = n + 1
    BY <1>1
  <2> HIDE DEF n
  <2>2. ValueOf(d, n + 1) = ValueOf(d, n) + d[n] * Weight(n)
    BY <2>1, ValueNext
  <2>3. QED
    BY <1>3, <2>1, <2>2 DEF n
<1> DEFINE p == b * (RADIX * (RADIX * w))
<1>5. p \in Nat /\ t \in Nat
  BY <1>1, <1>3
<1>6. (t * RADIX + d[k]) * w = p + a * w /\ (t * RADIX + d[k] + 1) * w = p + (a + 1) * w
  BY <1>1, <1>3
<1>7. a * w \in Nat /\ (a + 1) * w \in Nat
  BY <1>2, <1>3
<1>8. ValueOf(d, k + 3) = v + p
  BY <1>4
<1> DEFINE u == ValueOf(d, k + 3)
<1> DEFINE lo == (t * RADIX + d[k]) * w
<1> DEFINE hi == (t * RADIX + d[k] + 1) * w
<1>9. lo = p + a * w /\ hi = p + (a + 1) * w /\ u = v + p
  BY <1>6, <1>8
<1> HIDE DEF p, a, b, v, u, lo, hi, w, t
<1>10. u \in Nat /\ lo =< u /\ u < hi
  BY <1>2, <1>5, <1>7, <1>9
<1>11. QED
  BY <1>5, <1>10 DEF u, lo, hi, t, b, w

-----------------------------------------------------------------------------
(* The digits the trial digit is subtracted from. *)
Top == ValueOf(From(xd, j), N + 1)

LEMMA TopDigits ==
  ASSUME KnuthInv
  PROVE  /\ Digital(From(xd, j), N + 1)
         /\ Top \in Nat
         /\ Part = ValueOf(xd, j) + Top * Weight(j)
         /\ ValueOf(xd, j) \in Nat /\ ValueOf(xd, j) < Weight(j)
         /\ Part \in Nat /\ Part < Weight(j + N + 1)
<1>1. M \in Nat /\ N \in Nat /\ N =< M /\ j \in 0 .. M - N
  BY InvFacts
<1> DEFINE n == j + N + 1
<1>2. j \in Nat /\ n \in Nat /\ j =< n /\ n =< M + 1 /\ n - j = N + 1 /\ M + 1 \in Nat
      /\ n \in 0 .. M + 1 /\ j \in 0 .. M + 1
  BY <1>1
<1>3. Digital(xd, n) /\ Integral(xd, n) /\ Digital(xd, j)
  BY <1>2, Arrays, DigitalIntegral
<1> HIDE DEF n
<1>4. Digital(From(xd, j), N + 1)
  BY <1>2, <1>3, ValueDivides
<1>5. ValueOf(xd, n) = ValueOf(xd, j) + Top * Weight(j)
  BY <1>2, <1>3, ValueSplit DEF Top
<1>6. N + 1 \in Nat
  BY <1>1
<1>7. Top \in Nat
  BY <1>4, <1>6, ValueRange DEF Top
<1>8. ValueOf(xd, j) \in Nat /\ ValueOf(xd, j) < Weight(j)
  BY <1>2, <1>3, ValueRange
<1>9. ValueOf(xd, n) \in Nat /\ ValueOf(xd, n) < Weight(n)
  BY <1>2, <1>3, ValueRange
<1>10. QED
  BY <1>4, <1>5, <1>7, <1>8, <1>9 DEF Part, n

(* The types of the numbers of the invariant. *)
LEMMA NumberFacts ==
  ASSUME KnuthInv
  PROVE  /\ X * scale \in Nat /\ Y * scale \in Nat /\ Y * scale # 0
         /\ Weight(j) \in Nat \ {0}
         /\ Known \in Int /\ Rest \in Int /\ Unit \in Nat /\ Unit # 0
         /\ Part \in Nat
<1>1. M \in Nat /\ N \in Nat /\ N =< M /\ j \in 0 .. M - N /\ scale \in Nat /\ scale # 0
  BY InvFacts, Constants
<1>2. X \in Nat /\ Y \in Nat /\ Y # 0
  BY OperandValues
<1>3. X * scale \in Nat /\ Y * scale \in Nat /\ Y * scale # 0
  BY <1>1, <1>2
<1>4. Known \in Int
  <2>1. Integral(quot, M - N + 1) /\ M - N + 1 \in Nat
    BY <1>1, Arrays
  <2>2. j + 1 \in Nat /\ Integral(quot, j + 1)
    BY <1>1, <2>1 DEF Integral
  <2>3. ValueOf(quot, M - N + 1) \in Int /\ ValueOf(quot, j + 1) \in Int
    BY <2>1, <2>2, ValueType
  <2>4. QED
    BY <2>3 DEF Known
<1>5. Weight(j) \in Nat \ {0}
  BY <1>1, WeightFacts
<1>6. Rest \in Int
  BY <1>3, <1>4 DEF Rest
<1>7. Unit \in Nat /\ Unit # 0
  <2> DEFINE v == Y * scale
  <2> HIDE DEF v
  <2>1. v \in Nat /\ v # 0
    BY <1>3 DEF v
  <2>2. v * Weight(j) \in Nat /\ v * Weight(j) # 0
    BY <1>5, <2>1
  <2>3. QED
    BY <2>2 DEF Unit, v
<1>8. QED
  BY <1>3, <1>4, <1>5, <1>6, <1>7, TopDigits

(* Comparing what is left with units is comparing its top digits with them. *)
LEMMA PartInUnits ==
  ASSUME KnuthInv, ScaledDivisor = Y * scale, NEW q \in Int
  PROVE  /\ Part < q * Unit <=> Top < q * ScaledDivisor
         /\ q * Unit =< Part <=> q * ScaledDivisor =< Top
<1> DEFINE w == Weight(j)
<1> DEFINE low == ValueOf(xd, j)
<1> DEFINE b == q * (Y * scale)
<1>1. w \in Nat /\ w # 0 /\ Y * scale \in Nat /\ Unit = (Y * scale) * w
  BY NumberFacts DEF Unit
<1>2. Top \in Nat /\ low \in Nat /\ low < w /\ Part = low + Top * w
  BY TopDigits
<1>3. b \in Int /\ q * Unit = b * w
  <2> DEFINE v == Y * scale
  <2>1. v \in Nat /\ Unit = v * w
    BY <1>1
  <2> HIDE DEF v
  <2>2. q * v \in Int /\ q * (v * w) = (q * v) * w
    BY <1>1, <2>1
  <2>3. QED
    BY <2>1, <2>2 DEF v
<1>4. q * ScaledDivisor = b
  OBVIOUS
<1> HIDE DEF b, w, low
<1>5. ASSUME Top < b PROVE Part < b * w
  <2>1. (Top + 1) * w =< b * w
    <3>1. Top + 1 \in Int /\ Top + 1 =< b
      BY <1>2, <1>3, <1>5
    <3>2. QED
      BY <1>1, <1>3, <3>1, Grows
  <2>2. (Top + 1) * w = Top * w + w /\ Top * w \in Int /\ b * w \in Int
    BY <1>1, <1>2, <1>3
  <2>3. QED
    BY <1>1, <1>2, <2>1, <2>2
<1>6. ASSUME b =< Top PROVE b * w =< Part
  <2>1. b * w =< Top * w
    BY <1>1, <1>2, <1>3, <1>6, Grows
  <2>2. Top * w \in Int /\ b * w \in Int
    BY <1>1, <1>2, <1>3
  <2>3. QED
    BY <1>1, <1>2, <2>1, <2>2
<1>7. b * w \in Int /\ Part \in Int
  BY <1>1, <1>2, <1>3
<1>8. QED
  BY <1>2, <1>3, <1>4, <1>5, <1>6, <1>7

(* The digits the trial digit is computed from, once the divisor is scaled. *)
LEMMA TrialNumbers ==
  ASSUME KnuthInv, pc \notin {"scale_x", "scale_y"}
  PROVE  Leading(yd[N - 1], yd[N - 2], xd[j + N] * RADIX + xd[j + N - 1], xd[j + N - 2],
                 Weight(N - 2), ScaledDivisor, Top)
<1> DEFINE k == N - 2
<1> DEFINE f == From(xd, j)
<1>1. /\ M \in Nat /\ N \in Nat /\ N >= 2 /\ N =< M /\ j \in 0 .. M - N
      /\ \A m \in 0 .. M : xd[m] \in 0 .. RADIX - 1
      /\ \A m \in 0 .. N : yd[m] \in 0 .. RADIX - 1
  BY InvFacts
<1>2. 2 * yd[N - 1] >= RADIX /\ yd[N] = 0
  BY DEF KnuthInv, DivisorIsNormalized
<1>3. Digital(yd, N + 1) /\ Digital(f, N + 1)
  BY Arrays, TopDigits
<1>4. k \in Nat /\ k + 1 = N - 1 /\ k + 2 = N /\ k + 3 = N + 1
  BY <1>1
<1>5. f[k] = xd[j + N - 2] /\ f[k + 1] = xd[j + N - 1] /\ f[k + 2] = xd[j + N]
  BY <1>1, <1>4 DEF From
<1> HIDE DEF k, f
<1>6. /\ ((f[k + 2] * RADIX + f[k + 1]) * RADIX + f[k]) * Weight(k) =< Top
      /\ Top < ((f[k + 2] * RADIX + f[k + 1]) * RADIX + f[k] + 1) * Weight(k)
      /\ Top \in Nat /\ f[k + 2] * RADIX + f[k + 1] \in Nat
  <2>1. Digital(f, k + 3) /\ Top = ValueOf(f, k + 3)
    BY <1>3, <1>4 DEF Top, f
  <2>2. QED
    BY <1>4, <2>1, LeadingThree
<1>7. ScaledDivisor = ValueOf(yd, N)
  <2>1. ScaledDivisor = ValueOf(yd, N) + yd[N] * Weight(N)
    BY <1>1, Arrays, ValueNext DEF ScaledDivisor
  <2>2. Weight(N) \in Nat /\ ValueOf(yd, N) \in Nat
    <3>1. Digital(yd, N)
      BY <1>1, <1>3 DEF Digital
    <3>2. QED
      BY <1>1, <3>1, WeightFacts, ValueRange
  <2>3. QED
    BY <1>2, <2>1, <2>2
<1>8. /\ (yd[k + 1] * RADIX + yd[k]) * Weight(k) =< ScaledDivisor
      /\ ScaledDivisor < (yd[k + 1] * RADIX + yd[k] + 1) * Weight(k)
      /\ ScaledDivisor \in Nat
  <2>1. Digital(yd, k + 2)
    BY <1>1, <1>3, <1>4 DEF Digital
  <2>2. QED
    BY <1>4, <1>7, <2>1, LeadingTwo
<1>9. Weight(k) \in Nat \ {0}
  BY <1>4, WeightFacts
<1>10. /\ yd[N - 1] \in Nat /\ yd[N - 1] < RADIX /\ yd[N - 2] \in Nat /\ yd[N - 2] < RADIX
       /\ xd[j + N - 2] \in Nat /\ xd[j + N - 2] < RADIX
  BY <1>1, Constants
<1>11. /\ (yd[N - 1] * RADIX + yd[N - 2]) * Weight(N - 2) =< ScaledDivisor
       /\ ScaledDivisor < (yd[N - 1] * RADIX + yd[N - 2] + 1) * Weight(N - 2)
       /\ Weight(N - 2) \in Nat /\ Weight(N - 2) # 0
  BY <1>4, <1>8, <1>9, Zenon DEF k
<1>12. /\ ((xd[j + N] * RADIX + xd[j + N - 1]) * RADIX + xd[j + N - 2]) * Weight(N - 2) =< Top
       /\ Top < ((xd[j + N] * RADIX + xd[j + N - 1]) * RADIX + xd[j + N - 2] + 1) * Weight(N - 2)
       /\ xd[j + N] * RADIX + xd[j + N - 1] \in Nat
  BY <1>5, <1>6, Zenon DEF k
<1>13. QED
  BY <1>2, <1>6, <1>8, <1>10, <1>11, <1>12, Zenon DEF Leading

-----------------------------------------------------------------------------
(* What steps leave as it is. *)
LEMMA SameOperands ==
  ASSUME UNCHANGED operands
  PROVE  x' = x /\ y' = y /\ scale' = scale /\ M' = M /\ N' = N /\ X' = X /\ Y' = Y
<1>1. x' = x /\ y' = y /\ scale' = scale
  BY DEF operands
<1>2. M' = M /\ N' = N
  BY <1>1 DEF M, N
<1>3. X' = X /\ Y' = Y
  BY <1>1, <1>2 DEF X, Y
<1>4. QED
  BY <1>1, <1>2, <1>3

LEMMA SameDivisor ==
  ASSUME UNCHANGED operands, yd' = yd
  PROVE  ScaledDivisor' = ScaledDivisor
<1>1. N' = N
  BY SameOperands
<1>2. QED
  BY <1>1 DEF ScaledDivisor

LEMMA SameRest ==
  ASSUME UNCHANGED operands, quot' = quot, j' = j
  PROVE  Rest' = Rest /\ Unit' = Unit
<1>1. M' = M /\ N' = N /\ X' = X /\ Y' = Y /\ scale' = scale
  BY SameOperands
<1>2. Known' = Known
  BY <1>1 DEF Known
<1>3. Rest' = Rest
  BY <1>1, <1>2 DEF Rest
<1>4. Unit' = Unit
  BY <1>1 DEF Unit
<1>5. QED
  BY <1>3, <1>4

LEMMA SamePart ==
  ASSUME UNCHANGED operands, xd' = xd, j' = j
  PROVE  Part' = Part
<1>1. N' = N
  BY SameOperands
<1>2. QED
  BY <1>1 DEF Part

Scaling == {"scale_x", "scale_y"}
Trying == {"estimate", "correct"}
Dividing == {"estimate", "correct", "subtract", "add_back"}

(* The divisor stays what it is once it is scaled, rem is allocated last. *)
LEMMA ScalingValuesKept ==
  ASSUME ScalingValues, UNCHANGED operands, yd' = yd,
         pc \notin Scaling, pc' \notin Scaling,
         pc' \notin {"unnormalize", "done"} => rem' = rem /\ pc \notin {"unnormalize", "done"}
  PROVE  ScalingValues'
<1>1. ScaledDivisor' = ScaledDivisor /\ Y' = Y /\ scale' = scale
  BY SameOperands, SameDivisor
<1>2. ScaledDivisor = Y * scale
  BY DEF ScalingValues, Scaling
<1>3. pc' \notin {"unnormalize", "done"} => rem' = << >>
  BY DEF ScalingValues
<1>4. QED
  BY <1>1, <1>2, <1>3 DEF ScalingValues, Scaling

(* The invariant in a step of the loop over j, from what concerns the step. *)
ValuesInv ==
  ~misled => LoopValues /\ EstimateValues /\ SubtractValues /\ AddBackValues /\ RemainderValues

LEMMA StepValues ==
  ASSUME DivisionInv, KnuthInv', UNCHANGED operands, yd' = yd,
         pc \in Dividing, pc' \in Dividing, rem' = rem,
         TrialValues', ValuesInv'
  PROVE  DivisionInv'
<1>1. ScalingValues'
  <2>1. ScalingValues
    BY DEF DivisionInv
  <2>2. pc \notin Scaling /\ pc' \notin Scaling /\ pc \notin {"unnormalize", "done"}
    BY DEF Dividing, Scaling
  <2>3. QED
    BY <2>1, <2>2, ScalingValuesKept
<1>2. QuotientIsExact'
  <2>1. pc' # "done"
    BY DEF Dividing
  <2>2. QED
    BY <2>1 DEF QuotientIsExact
<1>3. QED
  BY <1>1, <1>2, Zenon DEF DivisionInv, ValuesInv

(* What a step of the loop over j starts from. *)
LEMMA LoopFacts ==
  ASSUME DivisionInv, pc \in Dividing
  PROVE  /\ KnuthInv /\ pc \notin Scaling /\ ScaledDivisor = Y * scale
         /\ pc \in Trying => i = 0 /\ carry = 0 /\ borrow = 0
         /\ misled => yd[N - 1] > U64 - RADIX
         /\ ~misled => /\ Rest \in Nat /\ Rest < RADIX * Unit
                       /\ \A k \in j + N + 1 .. M : xd[k] = 0
                       /\ pc \in Trying => Part = Rest
<1>1. pc \notin Scaling
  BY DEF Dividing, Scaling
<1>2. KnuthInv /\ ScaledDivisor = Y * scale
  BY <1>1 DEF DivisionInv, ScalingValues, Scaling
<1>3. (pc \in Trying => i = 0 /\ carry = 0 /\ borrow = 0) /\ (misled => yd[N - 1] > U64 - RADIX)
  BY DEF DivisionInv, TrialValues, Trying
<1>4. ASSUME ~misled
      PROVE  /\ Rest \in Nat /\ Rest < RADIX * Unit
             /\ \A k \in j + N + 1 .. M : xd[k] = 0
             /\ pc \in Trying => Part = Rest
  <2>1. LoopValues /\ EstimateValues
    BY <1>4, Zenon DEF DivisionInv
  <2>2. QED
    BY <2>1 DEF LoopValues, EstimateValues, Dividing, Trying
<1>5. QED
  BY <1>1, <1>2, <1>3, <1>4

(* Zeros above, and what is left, when neither the digits nor the rest change. *)
LEMMA LoopValuesKept ==
  ASSUME DivisionInv, pc \in Dividing, ~misled,
         UNCHANGED operands, quot' = quot, j' = j,
         \A k \in j + N + 1 .. M : xd'[k] = xd[k]
  PROVE  LoopValues'
<1>1. /\ Rest \in Nat /\ Rest < RADIX * Unit
      /\ \A k \in j + N + 1 .. M : xd[k] = 0
  BY LoopFacts
<1>2. Rest' = Rest /\ Unit' = Unit /\ M' = M /\ N' = N
  BY SameOperands, SameRest
<1>3. \A k \in j' + N' + 1 .. M' : xd'[k] = 0
  BY <1>1, <1>2
<1>4. QED
  BY <1>1, <1>2, <1>3 DEF LoopValues

-----------------------------------------------------------------------------
(* D3. *)
LEMMA EstimateDivides ==
  ASSUME DivisionInv, Estimate
  PROVE  DivisionInv'
<1> USE Constants
<1> DEFINE v1 == yd[N - 1]
<1> DEFINE t == xd[j + N] * RADIX + xd[j + N - 1]
<1> DEFINE q == t \div v1
<1> DEFINE r == t % v1
<1>1. /\ pc = "estimate" /\ pc' = "correct" /\ qhat' = q /\ rhat' = r
      /\ UNCHANGED << operands, xd, yd, xd_n, quot, rem, i, j, carry, borrow, misled >>
  BY DEF Estimate
<1>2. pc \in Dividing /\ pc' \in Dividing /\ pc \in Trying
  BY <1>1 DEF Dividing, Trying
<1>3. /\ KnuthInv /\ pc \notin Scaling /\ ScaledDivisor = Y * scale
      /\ i = 0 /\ carry = 0 /\ borrow = 0
      /\ misled => v1 > U64 - RADIX
      /\ ~misled => Rest \in Nat /\ Rest < RADIX * Unit /\ Part = Rest
  BY <1>2, LoopFacts
<1>4. KnuthInv'
  BY <1>3, TrialPreserves
<1>5. UNCHANGED operands /\ M' = M /\ N' = N
  BY <1>1, SameOperands
<1>6. Leading(v1, yd[N - 2], t, xd[j + N - 2], Weight(N - 2), ScaledDivisor, Top)
  BY <1>3, TrialNumbers DEF Scaling
<1>7. v1 \in Nat /\ v1 # 0 /\ v1 < RADIX /\ t \in Nat
  BY <1>6 DEF Leading
<1>8. q \in Nat /\ r \in Nat /\ r < v1 /\ q * v1 + r = t
  <2> HIDE DEF t, v1
  <2>1. QED
    BY <1>7
<1>9. Estimated(q, r, v1, t)
  BY <1>8 DEF Estimated
<1>10. ASSUME ~misled PROVE q =< RADIX + 1 /\ Rest < (q + 1) * Unit
  <2>1. Top < RADIX * ScaledDivisor
    <3>1. RADIX \in Int /\ Part < RADIX * Unit
      BY <1>3, <1>10
    <3>2. QED
      BY <1>3, <3>1, PartInUnits
  <2> HIDE DEF q, r, t, v1
  <2>2. q =< RADIX + 1
    BY <1>6, <1>9, <2>1, TrialIsSmall
  <2>3. Top < (q + 1) * ScaledDivisor
    BY <1>6, <1>8, <1>9, TrialFromAbove
  <2>4. Part < (q + 1) * Unit
    <3>1. q + 1 \in Int
      BY <1>8
    <3>2. QED
      BY <1>3, <2>3, <3>1, PartInUnits
  <2>5. QED
    BY <1>3, <1>10, <2>2, <2>4
<1>11. q < U64
  <2>1. CASE misled
    <3>1. xd[j + N] \in 0 .. RADIX - 1 /\ xd[j + N - 1] \in 0 .. RADIX - 1
      <4>1. /\ M \in Nat /\ N \in Nat /\ N >= 2 /\ N =< M /\ j \in 0 .. M - N
            /\ \A k \in 0 .. M : xd[k] \in 0 .. RADIX - 1
        BY <1>3, InvFacts
      <4>2. QED
        BY <4>1
    <3>2. v1 > U64 - RADIX
      BY <1>3, <2>1
    <3> HIDE DEF v1
    <3>3. QED
      BY <1>7, <3>1, <3>2, TrialFitsWord
  <2>2. CASE ~misled
    <3>1. RADIX + 2 =< U64
      <4>1. RADIX % 2 = 0
        BY RadixFacts
      <4>2. QED
        BY <4>1, WordAssumption
    <3> HIDE DEF q
    <3>2. QED
      BY <1>8, <1>10, <2>2, <3>1
  <2>3. QED
    BY <2>1, <2>2
<1>12. TrialValues'
  <2>1. i' = 0 /\ carry' = 0 /\ borrow' = 0 /\ misled' = misled /\ yd'[N' - 1] = v1
    BY <1>1, <1>3, <1>5
  <2> HIDE DEF q, r, t
  <2>2. rhat' < RADIX /\ qhat' < U64
    BY <1>1, <1>7, <1>8, <1>11
  <2>3. misled' => yd'[N' - 1] > U64 - RADIX
    BY <1>3, <2>1
  <2>4. QED
    BY <2>1, <2>2, <2>3 DEF TrialValues
<1>13. ASSUME ~misled
       PROVE  LoopValues' /\ EstimateValues'
  <2>1. Rest' = Rest /\ Unit' = Unit /\ Part' = Part
    BY <1>1, <1>5, SameRest, SamePart
  <2>2. LoopValues'
    BY <1>1, <1>2, <1>5, <1>13, LoopValuesKept
  <2>3. /\ yd'[N' - 1] = v1
        /\ xd'[j' + N'] * RADIX + xd'[j' + N' - 1] = t
    BY <1>1, <1>5
  <2> HIDE DEF q, r, t, v1
  <2>4. EstimateValues'
    BY <1>1, <1>3, <1>8, <1>10, <1>13, <2>1, <2>3 DEF EstimateValues
  <2>5. QED
    BY <2>2, <2>4
<1>14. ValuesInv'
  <2>1. SubtractValues' /\ AddBackValues' /\ RemainderValues'
    BY <1>1 DEF SubtractValues, AddBackValues, RemainderValues
  <2>2. misled' = misled
    BY <1>1
  <2>3. QED
    BY <1>13, <2>1, <2>2, Zenon DEF ValuesInv
<1>15. yd' = yd /\ rem' = rem
  BY <1>1
<1>16. QED
  BY <1>2, <1>4, <1>5, <1>12, <1>14, <1>15, StepValues

(* The correction of the trial digit starts or goes on. *)
LEMMA CorrectFacts ==
  ASSUME DivisionInv, pc = "correct"
  PROVE  /\ KnuthInv /\ ScaledDivisor = Y * scale /\ rhat < RADIX /\ qhat < U64
         /\ Leading(yd[N - 1], yd[N - 2], xd[j + N] * RADIX + xd[j + N - 1], xd[j + N - 2],
                    Weight(N - 2), ScaledDivisor, Top)
         /\ qhat \in Nat /\ rhat \in Nat
         /\ i = 0 /\ carry = 0 /\ borrow = 0
         /\ misled => yd[N - 1] > U64 - RADIX
         /\ ~misled =>
              /\ Estimated(qhat, rhat, yd[N - 1], xd[j + N] * RADIX + xd[j + N - 1])
              /\ qhat =< RADIX + 1 /\ Rest < (qhat + 1) * Unit
              /\ Rest < RADIX * Unit /\ Part = Rest
<1>1. pc \in Dividing /\ pc \in Trying
  BY DEF Dividing, Trying
<1>2. /\ KnuthInv /\ pc \notin Scaling /\ ScaledDivisor = Y * scale
      /\ i = 0 /\ carry = 0 /\ borrow = 0
      /\ misled => yd[N - 1] > U64 - RADIX
      /\ ~misled => Rest \in Nat /\ Rest < RADIX * Unit /\ Part = Rest
  BY <1>1, LoopFacts
<1>3. rhat < RADIX /\ qhat < U64
  BY DEF DivisionInv, TrialValues
<1>4. qhat \in Nat /\ rhat \in Nat
  BY <1>2, InvFacts
<1>5. Leading(yd[N - 1], yd[N - 2], xd[j + N] * RADIX + xd[j + N - 1], xd[j + N - 2],
              Weight(N - 2), ScaledDivisor, Top)
  BY <1>2, TrialNumbers DEF Scaling
<1>6. ASSUME ~misled
      PROVE  /\ Estimated(qhat, rhat, yd[N - 1], xd[j + N] * RADIX + xd[j + N - 1])
             /\ qhat =< RADIX + 1 /\ Rest < (qhat + 1) * Unit
  <2>1. EstimateValues
    BY <1>6, Zenon DEF DivisionInv
  <2>2. /\ qhat * yd[N - 1] + rhat = xd[j + N] * RADIX + xd[j + N - 1]
        /\ qhat =< RADIX + 1
        /\ Rest < (qhat + 1) * Unit
    BY <2>1 DEF EstimateValues
  <2>3. QED
    BY <1>4, <2>2 DEF Estimated
<1>7. QED
  BY <1>2, <1>3, <1>4, <1>5, <1>6

(* A corrected trial digit: what the subtraction starts from. *)
LEMMA SubtractionStarts ==
  ASSUME UNCHANGED operands, quot' = quot, j' = j, xd' = xd, yd' = yd,
         KnuthInv, KnuthInv', pc' = "subtract", Part = Rest,
         i' = 0, carry' = 0, borrow' = 0,
         qhat' =< RADIX, (qhat' - 1) * Unit =< Rest, Rest < (qhat' + 1) * Unit
  PROVE  SubtractValues'
<1>1. Rest' = Rest /\ Unit' = Unit /\ Part' = Part
  BY SameRest, SamePart
<1>2. ValueOf(yd', i') = 0 /\ Weight(i') = 1
  BY ValueZero, WeightZero
<1>3. Weight(j') \in Nat /\ Rest \in Int /\ qhat' \in Nat
  <2>1. Weight(j) \in Nat /\ Rest \in Int
    BY NumberFacts
  <2>2. qhat' \in Nat
    BY Zenon DEF KnuthInv, KnuthTypeOK
  <2>3. QED
    BY <2>1, <2>2
<1>4. Part' + Weight(j') * (qhat' * 0) = Rest' + Weight(j') * ((carry' + borrow') * 1)
  BY <1>1, <1>3
<1>5. carry' * 1 =< qhat' * 0
  <2>1. \A q \in Nat : 0 * 1 =< q * 0
    OBVIOUS
  <2>2. carry' = 0 /\ qhat' \in Nat
    BY <1>3
  <2>3. QED
    BY <2>1, <2>2, Zenon
<1>6. QED
  BY <1>1, <1>2, <1>4, <1>5 DEF SubtractValues

LEMMA CorrectDivides ==
  ASSUME DivisionInv, Correct
  PROVE  DivisionInv'
<1> USE Constants
<1> DEFINE v1 == yd[N - 1]
<1> DEFINE v2 == yd[N - 2]
<1> DEFINE t == xd[j + N] * RADIX + xd[j + N - 1]
<1> DEFINE u0 == xd[j + N - 2]
<1> DEFINE sum == rhat + v1
<1>1. /\ pc = "correct" /\ TooLarge
      /\ qhat' = qhat - 1 /\ rhat' = sum % U64
      /\ misled' = (misled \/ sum >= U64)
      /\ pc' = IF sum % U64 >= RADIX THEN "subtract" ELSE "correct"
      /\ UNCHANGED << operands, xd, yd, xd_n, quot, rem, i, j, carry, borrow >>
  BY DEF Correct
<1>2. pc \in Dividing /\ pc' \in Dividing
  BY <1>1 DEF Dividing
<1>3. /\ KnuthInv /\ ScaledDivisor = Y * scale /\ rhat < RADIX /\ qhat < U64
      /\ Leading(v1, v2, t, u0, Weight(N - 2), ScaledDivisor, Top)
      /\ qhat \in Nat /\ rhat \in Nat
      /\ i = 0 /\ carry = 0 /\ borrow = 0
      /\ misled => v1 > U64 - RADIX
      /\ ~misled =>
           /\ Estimated(qhat, rhat, v1, t)
           /\ qhat =< RADIX + 1 /\ Rest < (qhat + 1) * Unit
           /\ Rest < RADIX * Unit /\ Part = Rest
  BY <1>1, CorrectFacts
<1>4. KnuthInv'
  BY <1>3, TrialPreserves
<1>5. UNCHANGED operands /\ M' = M /\ N' = N
  BY <1>1, SameOperands
<1>6. /\ v1 \in Nat /\ v2 \in Nat /\ t \in Nat /\ u0 \in Nat /\ sum \in Nat
      /\ ScaledDivisor \in Nat /\ Top \in Nat
  BY <1>3 DEF Leading
<1>7. TooLarge <=> qhat >= RADIX \/ qhat * v2 > rhat * RADIX + u0
  BY DEF TooLarge
<1>14. (misled' => misled \/ sum >= U64) /\ (~misled' => ~misled /\ ~(sum >= U64))
  BY <1>1, Zenon
<1> HIDE DEF t, v1, v2, u0
<1>8. qhat' \in Nat
  BY <1>4, Zenon DEF KnuthInv, KnuthTypeOK
<1>9. TrialValues'
  <2>1. i' = 0 /\ carry' = 0 /\ borrow' = 0
    BY <1>1, <1>3
  <2>2. qhat' < U64
    BY <1>1, <1>3, <1>8
  <2>3. pc' = "correct" => rhat' < RADIX
    <3>1. sum % U64 \in Nat
      BY <1>6
    <3>2. QED
      BY <1>1, <3>1
  <2>4. misled' => v1 > U64 - RADIX
    <3>1. sum >= U64 => v1 > U64 - RADIX
      BY <1>3, <1>6
    <3>2. QED
      BY <1>3, <1>14, <3>1, Zenon
  <2>5. yd'[N' - 1] = v1
    BY <1>1, <1>5 DEF v1
  <2>6. QED
    BY <2>1, <2>2, <2>3, <2>4, <2>5 DEF TrialValues
<1>10. ASSUME ~misled'
       PROVE  LoopValues' /\ EstimateValues' /\ SubtractValues'
  <2>0. ~misled /\ ~(sum >= U64)
    BY <1>10, <1>14, Zenon
  <2>1. ~misled /\ sum < U64 /\ rhat' = sum
    BY <1>1, <1>6, <2>0
  <2>2. /\ Estimated(qhat, rhat, v1, t)
        /\ qhat =< RADIX + 1 /\ Rest < RADIX * Unit /\ Part = Rest
    BY <1>3, <2>1
  <2>3. Estimated(qhat', rhat', v1, t)
    <3>1. qhat * v1 = (qhat - 1) * v1 + v1 /\ (qhat - 1) * v1 \in Int
      BY <1>3, <1>6
    <3>2. qhat * v1 + rhat = t
      BY <2>2 DEF Estimated
    <3>3. (qhat - 1) * v1 + sum = t
      BY <1>3, <1>6, <3>1, <3>2
    <3>4. QED
      BY <1>1, <1>6, <1>8, <2>1, <3>3 DEF Estimated
  <2>4. Top < qhat * ScaledDivisor
    <3>1. CASE qhat >= RADIX
      <4>1. Top < RADIX * ScaledDivisor
        BY <1>3, <2>2, PartInUnits
      <4>2. RADIX * ScaledDivisor =< qhat * ScaledDivisor
        BY <1>3, <1>6, <3>1, Grows
      <4>3. RADIX * ScaledDivisor \in Int /\ qhat * ScaledDivisor \in Int
        BY <1>3, <1>6
      <4>4. QED
        BY <1>6, <4>1, <4>2, <4>3
    <3>2. CASE qhat * v2 > rhat * RADIX + u0
      BY <1>3, <2>2, <3>2, TrialTooLarge
    <3>3. QED
      BY <1>1, <1>7, <3>1, <3>2
  <2>5. Rest < (qhat' + 1) * Unit
    <3>1. Part < qhat * Unit
      BY <1>3, <2>4, PartInUnits
    <3>2. qhat' + 1 = qhat
      BY <1>1, <1>3
    <3>3. QED
      BY <2>2, <3>1, <3>2
  <2>6. Rest' = Rest /\ Unit' = Unit /\ Part' = Part
    BY <1>1, <1>5, SameRest, SamePart
  <2>7. LoopValues'
    BY <1>1, <1>2, <1>5, <2>1, LoopValuesKept
  <2>8. qhat' =< RADIX
    BY <1>1, <1>3, <2>2
  <2>9. EstimateValues'
    <3>1. yd'[N' - 1] = v1 /\ xd'[j' + N'] * RADIX + xd'[j' + N' - 1] = t
      BY <1>1, <1>5 DEF v1, t
    <3>2. qhat' * v1 + rhat' = t
      BY <2>3 DEF Estimated
    <3>3. qhat' =< RADIX + 1
      BY <1>8, <2>8
    <3>4. QED
      BY <2>2, <2>5, <2>6, <3>1, <3>2, <3>3 DEF EstimateValues
  <2>10. ASSUME pc' = "subtract" PROVE (qhat' - 1) * Unit =< Rest
    <3>1. rhat' >= RADIX
      BY <1>1, <2>10
    <3>2. (qhat' - 1) * ScaledDivisor =< Top
      BY <1>3, <2>3, <2>8, <3>1, TrialEnded
    <3>3. qhat' - 1 \in Int
      BY <1>8
    <3>4. (qhat' - 1) * Unit =< Part
      BY <1>3, <3>2, <3>3, PartInUnits
    <3>5. QED
      BY <2>2, <3>4
  <2>11. SubtractValues'
    <3>1. CASE pc' = "subtract"
      <4>1. /\ quot' = quot /\ j' = j /\ xd' = xd /\ yd' = yd
            /\ i' = 0 /\ carry' = 0 /\ borrow' = 0
        BY <1>1, <1>3
      <4>2. QED
        BY <1>3, <1>4, <1>5, <2>2, <2>5, <2>8, <2>10, <3>1, <4>1, SubtractionStarts
    <3>2. CASE pc' # "subtract"
      BY <3>2 DEF SubtractValues
    <3>3. QED
      BY <3>1, <3>2
  <2>12. QED
    BY <2>7, <2>9, <2>11
<1>11. ValuesInv'
  <2>1. AddBackValues' /\ RemainderValues'
    BY <1>1 DEF AddBackValues, RemainderValues
  <2>2. QED
    BY <1>10, <2>1, Zenon DEF ValuesInv
<1>12. yd' = yd /\ rem' = rem
  BY <1>1
<1>13. QED
  BY <1>2, <1>4, <1>5, <1>9, <1>11, <1>12, StepValues

LEMMA AcceptDivides ==
  ASSUME DivisionInv, Accept
  PROVE  DivisionInv'
<1> USE Constants
<1> DEFINE v1 == yd[N - 1]
<1> DEFINE v2 == yd[N - 2]
<1> DEFINE t == xd[j + N] * RADIX + xd[j + N - 1]
<1> DEFINE u0 == xd[j + N - 2]
<1>1. /\ pc = "correct" /\ ~TooLarge /\ pc' = "subtract"
      /\ UNCHANGED << operands, xd, yd, xd_n, quot, rem, i, j, trial, carry, borrow, misled >>
  BY DEF Accept
<1>2. pc \in Dividing /\ pc' \in Dividing
  BY <1>1 DEF Dividing
<1>3. /\ KnuthInv /\ ScaledDivisor = Y * scale
      /\ Leading(v1, v2, t, u0, Weight(N - 2), ScaledDivisor, Top)
      /\ qhat \in Nat /\ rhat \in Nat
      /\ i = 0 /\ carry = 0 /\ borrow = 0
      /\ misled => v1 > U64 - RADIX
      /\ ~misled =>
           /\ Estimated(qhat, rhat, v1, t)
           /\ Rest < (qhat + 1) * Unit /\ Part = Rest
  BY <1>1, CorrectFacts
<1>4. KnuthInv'
  BY <1>3, TrialPreserves
<1>5. UNCHANGED operands /\ M' = M /\ N' = N /\ qhat' = qhat
  BY <1>1, SameOperands DEF trial
<1>6. v2 \in Nat /\ u0 \in Nat
  BY <1>3 DEF Leading
<1>7. ~(qhat >= RADIX) /\ ~(qhat * v2 > rhat * RADIX + u0)
  BY <1>1 DEF TooLarge
<1>8. TrialValues'
  <2>1. yd'[N' - 1] = v1 /\ misled' = misled /\ pc' = "subtract"
    BY <1>1, <1>5
  <2>2. QED
    BY <1>3, <2>1 DEF TrialValues
<1> HIDE DEF t, v1, v2, u0
<1>9. qhat < RADIX /\ qhat * v2 =< rhat * RADIX + u0
  <2>1. qhat * v2 \in Int /\ rhat * RADIX + u0 \in Int
    BY <1>3, <1>6
  <2>2. QED
    BY <1>3, <1>7, <2>1
<1>10. ASSUME ~misled
       PROVE  LoopValues' /\ SubtractValues'
  <2>1. LoopValues'
    BY <1>1, <1>2, <1>5, <1>10, LoopValuesKept
  <2>2. (qhat - 1) * ScaledDivisor =< Top
    BY <1>3, <1>9, <1>10, TrialAccepted
  <2>3. qhat - 1 \in Int
    BY <1>3
  <2>4. (qhat - 1) * Unit =< Part
    BY <1>3, <2>2, <2>3, PartInUnits
  <2>5. SubtractValues'
    <3>1. /\ quot' = quot /\ j' = j /\ xd' = xd /\ yd' = yd
          /\ i' = 0 /\ carry' = 0 /\ borrow' = 0 /\ pc' = "subtract"
      BY <1>1, <1>3
    <3>2. /\ Part = Rest /\ qhat' =< RADIX
          /\ (qhat' - 1) * Unit =< Rest /\ Rest < (qhat' + 1) * Unit
      BY <1>3, <1>5, <1>9, <1>10, <2>4
    <3>3. QED
      BY <1>3, <1>4, <1>5, <3>1, <3>2, SubtractionStarts
  <2>6. QED
    BY <2>1, <2>5
<1>11. ValuesInv'
  <2>1. EstimateValues' /\ AddBackValues' /\ RemainderValues'
    BY <1>1 DEF EstimateValues, AddBackValues, RemainderValues
  <2>2. misled' = misled
    BY <1>1
  <2>3. QED
    BY <1>10, <2>1, <2>2, Zenon DEF ValuesInv
<1>12. yd' = yd /\ rem' = rem
  BY <1>1
<1>13. QED
  BY <1>2, <1>4, <1>5, <1>8, <1>11, <1>12, StepValues

-----------------------------------------------------------------------------
(* D4: one digit. lo and hi are the digits of a product, k, l what is borrowed. *)
LEMMA SubtractOne ==
  ASSUME NEW p \in Int, NEW rest \in Int, NEW w \in Nat, NEW a \in Nat, NEW b \in Nat,
         NEW q \in Nat, NEW v \in Nat, NEW d \in Nat, NEW c \in Nat,
         NEW k \in Nat, NEW l \in Nat, NEW lo \in Nat, NEW hi \in Nat, NEW e \in Int,
         p + w * (q * v) = rest + w * ((c + k) * a),
         q * d + c = b * hi + lo,
         e = l * b - lo - k
  PROVE  (p + e * (w * a)) + w * (q * (v + d * a)) = rest + w * ((hi + l) * (b * a))
<1> DEFINE z == w * a
<1>1. z \in Nat
  OBVIOUS
<1>2. w * ((c + k) * a) = c * z + k * z
  OBVIOUS
<1>3. w * (q * (v + d * a)) = w * (q * v) + (q * d) * z
  OBVIOUS
<1>4. w * ((hi + l) * (b * a)) = (b * hi) * z + (l * b) * z
  OBVIOUS
<1> HIDE DEF z
<1>5. (q * d) * z + c * z = (b * hi) * z + lo * z
  <2>1. (q * d) * z + c * z = (q * d + c) * z /\ (b * hi) * z + lo * z = (b * hi + lo) * z
    BY <1>1
  <2>2. QED
    BY <2>1
<1>6. e * z = (l * b) * z - lo * z - k * z
  BY <1>1
<1>7. /\ c * z \in Int /\ k * z \in Int /\ (q * d) * z \in Int /\ (b * hi) * z \in Int
      /\ (l * b) * z \in Int /\ lo * z \in Int /\ w * (q * v) \in Int /\ e * z \in Int
  BY <1>1
<1> DEFINE s == w * (q * v)
<1> HIDE DEF s
<1>8. p + s = rest + (c * z + k * z)
  BY <1>2 DEF s
<1>9. (p + e * z) + (s + (q * d) * z) = rest + ((b * hi) * z + (l * b) * z)
  <2>1. s \in Int
    BY DEF s
  <2> DEFINE cz == c * z
  <2> DEFINE kz == k * z
  <2> DEFINE dz == (q * d) * z
  <2> DEFINE hz == (b * hi) * z
  <2> DEFINE bz == (l * b) * z
  <2> DEFINE lz == lo * z
  <2> DEFINE ez == e * z
  <2>2. /\ cz \in Int /\ kz \in Int /\ dz \in Int /\ hz \in Int /\ bz \in Int /\ lz \in Int
        /\ p + s = rest + (cz + kz) /\ dz + cz = hz + lz /\ ez = bz - lz - kz
    BY <1>5, <1>6, <1>7, <1>8
  <2> HIDE DEF cz, kz, dz, hz, bz, lz, ez
  <2>3. (p + ez) + (s + dz) = rest + (hz + bz)
    BY <2>1, <2>2
  <2>4. QED
    BY <2>3 DEF dz, hz, bz, ez
<1>10. QED
  BY <1>3, <1>4, <1>9 DEF s, z

LEMMA CarryBelow ==
  ASSUME NEW a \in Nat, NEW b \in Nat, NEW q \in Nat, NEW v \in Nat, NEW d \in Nat, NEW c \in Nat,
         NEW lo \in Nat, NEW hi \in Nat, c * a =< q * v, q * d + c = b * hi + lo
  PROVE  hi * (b * a) =< q * (v + d * a)
<1>1. q * (v + d * a) = q * v + (q * d) * a
  OBVIOUS
<1>2. (q * d) * a + c * a = hi * (b * a) + lo * a
  <2>1. (q * d) * a + c * a = (q * d + c) * a /\ hi * (b * a) + lo * a = (b * hi + lo) * a
    OBVIOUS
  <2>2. QED
    BY <2>1
<1>3. /\ q * v \in Nat /\ (q * d) * a \in Nat /\ c * a \in Nat
      /\ hi * (b * a) \in Nat /\ lo * a \in Nat
  OBVIOUS
<1>4. QED
  BY <1>1, <1>2, <1>3

(* D6: one digit. k is the carry the digit leaves. *)
LEMMA AddOne ==
  ASSUME NEW p \in Int, NEW rest \in Int, NEW s \in Int, NEW w \in Nat, NEW a \in Nat, NEW b \in Nat,
         NEW v \in Nat, NEW d \in Nat, NEW c \in Nat, NEW k \in Nat, NEW e \in Int, NEW top \in Nat,
         p + s + w * (c * a) = rest + w * (top + v),
         e = d + c - k * b
  PROVE  (p + e * (w * a)) + s + w * (k * (b * a)) = rest + w * (top + (v + d * a))
<1> DEFINE z == w * a
<1>1. z \in Nat
  OBVIOUS
<1>2. w * (c * a) = c * z /\ w * (k * (b * a)) = (k * b) * z
  OBVIOUS
<1>3. w * (top + (v + d * a)) = w * (top + v) + d * z
  OBVIOUS
<1> HIDE DEF z
<1>4. e * z = d * z + c * z - (k * b) * z
  BY <1>1
<1>5. /\ c * z \in Int /\ (k * b) * z \in Int /\ d * z \in Int /\ e * z \in Int
      /\ w * (top + v) \in Int
  BY <1>1
<1> DEFINE r == w * (top + v)
<1> HIDE DEF r
<1>6. p + s + c * z = rest + r
  BY <1>2 DEF r
<1>7. (p + e * z) + s + (k * b) * z = rest + (r + d * z)
  BY <1>4, <1>5, <1>6 DEF r
<1>8. QED
  BY <1>2, <1>3, <1>7 DEF r, z

(* One digit of what is left changes. *)
LEMMA PartChanges ==
  ASSUME KnuthInv, UNCHANGED operands, j' = j, i \in 0 .. N,
         NEW d \in Int, xd' = [xd EXCEPT ![j + i] = d]
  PROVE  /\ Part' = Part + (d - xd[j + i]) * (Weight(j) * Weight(i))
         /\ \A k \in j + N + 1 .. M : xd'[k] = xd[k]
         /\ xd[j + i] \in 0 .. RADIX - 1
<1> DEFINE n == j + N + 1
<1> DEFINE k == j + i
<1>1. /\ M \in Nat /\ N \in Nat /\ N =< M /\ j \in 0 .. M - N
      /\ xd \in [0 .. M -> Digit] /\ \A m \in 0 .. M : xd[m] \in 0 .. RADIX - 1
  BY InvFacts, Types
<1>2. n \in Nat /\ k \in Nat /\ k < n /\ n =< M + 1 /\ k \in 0 .. M /\ j \in Nat /\ i \in Nat
  BY <1>1
<1>3. M' = M /\ N' = N
  BY SameOperands
<1> DEFINE e == xd'
<1> HIDE DEF k
<1>4. e = [xd EXCEPT ![k] = d]
  BY DEF k
<1> HIDE DEF n, e
<1>5. e[k] = d /\ \A m \in 0 .. M : m # k => e[m] = xd[m]
  BY <1>1, <1>2, <1>4
<1>6. /\ Integral(xd, n) /\ Integral(e, n)
      /\ \A m \in 0 .. n - 1 : m # k => e[m] = xd[m]
  <2>1. \A m \in 0 .. n - 1 : m \in 0 .. M
    BY <1>1, <1>2
  <2>2. \A m \in 0 .. M : xd[m] \in Int
    BY <1>1, Constants
  <2>3. \A m \in 0 .. M : e[m] \in Int
    BY <1>5, <2>2
  <2>4. QED
    BY <1>5, <2>1, <2>2, <2>3 DEF Integral
<1>7. ValueOf(e, n) = ValueOf(xd, n) + (e[k] - xd[k]) * Weight(k)
  BY <1>2, <1>6, ValueChanged
<1>8. Part' = ValueOf(e, n) /\ Part = ValueOf(xd, n)
  BY <1>3 DEF Part, n, e
<1>9. Weight(k) = Weight(j) * Weight(i)
  <2>1. j =< k /\ k - j = i
    BY <1>2 DEF k
  <2>2. QED
    BY <1>2, <2>1, WeightSplit
<1>10. Part' = Part + (d - xd[k]) * (Weight(j) * Weight(i))
  BY <1>5, <1>7, <1>8, <1>9
<1>11. \A m \in n .. M : e[m] = xd[m]
  BY <1>1, <1>2, <1>5
<1>12. xd[k] \in 0 .. RADIX - 1
  BY <1>1, <1>2
<1>13. QED
  BY <1>10, <1>11, <1>12 DEF n, k, e

(* The next digit of the divisor. *)
LEMMA DivisorDigit ==
  ASSUME KnuthInv, i \in 0 .. N
  PROVE  /\ ValueOf(yd, i + 1) = ValueOf(yd, i) + yd[i] * Weight(i)
         /\ ValueOf(yd, i) \in Nat /\ yd[i] \in 0 .. RADIX - 1
         /\ Weight(i) \in Nat /\ Weight(i + 1) = RADIX * Weight(i)
<1>1. N \in Nat /\ \A k \in 0 .. N : yd[k] \in 0 .. RADIX - 1
  BY InvFacts
<1>2. i \in Nat /\ i + 1 \in 0 .. N + 1 /\ i \in 0 .. N + 1 /\ N + 1 \in Nat
  BY <1>1
<1>3. Digital(yd, i) /\ Integral(yd, i + 1)
  BY <1>2, Arrays, DigitalIntegral
<1>4. ValueOf(yd, i + 1) = ValueOf(yd, i) + yd[i] * Weight(i)
  BY <1>2, <1>3, ValueNext
<1>5. ValueOf(yd, i) \in Nat
  BY <1>2, <1>3, ValueRange
<1>6. Weight(i) \in Nat /\ Weight(i + 1) = RADIX * Weight(i)
  BY <1>2, WeightFacts
<1>7. QED
  BY <1>1, <1>4, <1>5, <1>6

(* D4. *)
LEMMA SubtractFacts ==
  ASSUME DivisionInv, pc = "subtract", ~misled
  PROVE  /\ qhat =< RADIX
         /\ (qhat - 1) * Unit =< Rest /\ Rest < (qhat + 1) * Unit
         /\ Part + Weight(j) * (qhat * ValueOf(yd, i))
              = Rest + Weight(j) * ((carry + borrow) * Weight(i))
         /\ carry * Weight(i) =< qhat * ValueOf(yd, i)
<1>1. SubtractValues
  BY Zenon DEF DivisionInv
<1>2. QED
  BY <1>1 DEF SubtractValues

LEMMA MultiplySubtractDivides ==
  ASSUME DivisionInv, MultiplySubtract
  PROVE  DivisionInv'
<1> USE Constants
<1> DEFINE t == qhat * yd[i] + carry
<1> DEFINE r == (xd[j + i] - ((t % RADIX) + borrow)) % U64
<1> DEFINE l == IF r > xd[j + i] THEN 1 ELSE 0
<1> DEFINE d == (r + l * RADIX) % U64
<1>1. /\ pc = "subtract" /\ pc' = "subtract" /\ i =< N /\ i' = i + 1
      /\ carry' = t \div RADIX /\ borrow' = l
      /\ xd' = [xd EXCEPT ![j + i] = d]
      /\ UNCHANGED << operands, yd, xd_n, quot, rem, j, trial, misled >>
  BY DEF MultiplySubtract
<1>2. pc \in Dividing /\ pc' \in Dividing
  BY <1>1 DEF Dividing
<1>3. KnuthInv /\ (misled => yd[N - 1] > U64 - RADIX) /\ i \in 0 .. N + 1
  BY <1>1, <1>2, LoopFacts DEF KnuthInv
<1>4. /\ M \in Nat /\ N \in Nat /\ N >= 2 /\ N =< M /\ j \in 0 .. M - N /\ i \in 0 .. N
      /\ qhat \in Nat /\ carry \in Nat /\ borrow \in 0 .. 1
      /\ \A k \in 0 .. M : xd[k] \in 0 .. RADIX - 1
  BY <1>1, <1>3, InvFacts
<1>5. KnuthInv'
  BY <1>3, MultiplySubtractPreserves
<1>6. UNCHANGED operands /\ M' = M /\ N' = N /\ qhat' = qhat
  BY <1>1, SameOperands DEF trial
<1>7. xd[j + i] \in 0 .. RADIX - 1
  BY <1>4
<1>8. /\ ValueOf(yd, i + 1) = ValueOf(yd, i) + yd[i] * Weight(i)
      /\ ValueOf(yd, i) \in Nat /\ yd[i] \in 0 .. RADIX - 1
      /\ Weight(i) \in Nat /\ Weight(i + 1) = RADIX * Weight(i)
  BY <1>3, <1>4, DivisorDigit
<1> DEFINE lo == t % RADIX
<1> DEFINE hi == t \div RADIX
<1>9. t \in Nat /\ lo \in 0 .. RADIX - 1 /\ hi \in Nat /\ t = RADIX * hi + lo
  <2>1. t \in Nat
    BY <1>4, <1>8
  <2> HIDE DEF t
  <2>2. QED
    BY <2>1
<1>10. /\ d \in 0 .. RADIX - 1 /\ l \in 0 .. 1
       /\ d - l * RADIX = xd[j + i] - (lo + borrow)
  <2> DEFINE a == xd[j + i]
  <2>1. a \in 0 .. RADIX - 1
    BY <1>7
  <2> HIDE DEF t, a, lo
  <2> DEFINE e == (a - (lo + borrow)) % U64
  <2> DEFINE k == IF e > a THEN 1 ELSE 0
  <2>2. /\ (e + k * RADIX) % U64 \in 0 .. RADIX - 1
        /\ ((e + k * RADIX) % U64) - k * RADIX = a - (lo + borrow)
    BY <1>4, <1>9, <2>1, DigitDifference
  <2>3. k \in 0 .. 1
    OBVIOUS
  <2>4. d = (e + k * RADIX) % U64 /\ l = k
    BY DEF a, lo
  <2> HIDE DEF e, k, d, l
  <2>5. QED
    BY <2>2, <2>3, <2>4 DEF a
<1> HIDE DEF d, l, r, lo, hi
<1>11. TrialValues'
  <2>1. yd'[N' - 1] = yd[N - 1] /\ misled' = misled
    BY <1>1, <1>6
  <2>2. QED
    BY <1>1, <1>3, <2>1 DEF TrialValues
<1>12. /\ Part' = Part + (d - xd[j + i]) * (Weight(j) * Weight(i))
       /\ \A k \in j + N + 1 .. M : xd'[k] = xd[k]
  <2>1. d \in Int /\ j' = j
    BY <1>1, <1>10
  <2>2. QED
    BY <1>1, <1>3, <1>4, <1>6, <2>1, PartChanges
<1>13. ASSUME ~misled
       PROVE  LoopValues' /\ SubtractValues'
  <2>1. LoopValues'
    BY <1>1, <1>2, <1>6, <1>12, <1>13, LoopValuesKept
  <2>2. /\ qhat =< RADIX
        /\ (qhat - 1) * Unit =< Rest /\ Rest < (qhat + 1) * Unit
        /\ Part + Weight(j) * (qhat * ValueOf(yd, i))
             = Rest + Weight(j) * ((carry + borrow) * Weight(i))
        /\ carry * Weight(i) =< qhat * ValueOf(yd, i)
    BY <1>1, <1>13, SubtractFacts
  <2>3. Part \in Int /\ Rest \in Int /\ Weight(j) \in Nat
    BY <1>3, NumberFacts
  <2> DEFINE p == Part
  <2> DEFINE s == Rest
  <2> DEFINE w == Weight(j)
  <2> DEFINE a == Weight(i)
  <2> DEFINE v == ValueOf(yd, i)
  <2> DEFINE f == yd[i]
  <2> DEFINE e == d - xd[j + i]
  <2>4. /\ p \in Int /\ s \in Int /\ w \in Nat /\ a \in Nat /\ v \in Nat /\ f \in Nat
        /\ e \in Int /\ lo \in Nat /\ hi \in Nat /\ l \in Nat /\ RADIX \in Nat
        /\ qhat \in Nat /\ carry \in Nat /\ borrow \in Nat
    BY <1>4, <1>7, <1>8, <1>9, <1>10, <2>3
  <2>5. /\ p + w * (qhat * v) = s + w * ((carry + borrow) * a)
        /\ carry * a =< qhat * v
    BY <2>2
  <2>6. qhat * f + carry = RADIX * hi + lo
    BY <1>9
  <2>7. e = l * RADIX - lo - borrow
    <3> DEFINE z == l * RADIX
    <3> DEFINE b == xd[j + i]
    <3>1. /\ d \in Int /\ b \in Int /\ lo \in Int /\ borrow \in Int /\ z \in Int
          /\ d - z = b - (lo + borrow)
      BY <1>4, <1>7, <1>9, <1>10
    <3>2. e = d - b
      OBVIOUS
    <3> HIDE DEF z, b, e
    <3>3. e = z - lo - borrow
      BY <3>1, <3>2
    <3>4. QED
      BY <3>3 DEF z
  <2> HIDE DEF p, s, w, a, v, f, e, t
  <2>8. (p + e * (w * a)) + w * (qhat * (v + f * a)) = s + w * ((hi + l) * (RADIX * a))
    BY <2>4, <2>5, <2>6, <2>7, SubtractOne
  <2>9. hi * (RADIX * a) =< qhat * (v + f * a)
    BY <2>4, <2>5, <2>6, CarryBelow
  <2>10. /\ Part' = p + e * (w * a) /\ Rest' = s /\ Unit' = Unit
         /\ Weight(j') = w /\ Weight(i') = RADIX * a /\ ValueOf(yd', i') = v + f * a
         /\ carry' = hi /\ borrow' = l
    <3>1. Rest' = Rest /\ Unit' = Unit
      BY <1>1, <1>6, SameRest
    <3>2. Weight(j') = w /\ Weight(i') = RADIX * a /\ ValueOf(yd', i') = v + f * a
      BY <1>1, <1>8 DEF w, a, v, f
    <3>3. carry' = hi /\ borrow' = l
      BY <1>1 DEF hi
    <3>4. Part' = p + e * (w * a)
      BY <1>12 DEF p, e, w, a
    <3>5. QED
      BY <3>1, <3>2, <3>3, <3>4 DEF s
  <2>11. /\ Part' + Weight(j') * (qhat' * ValueOf(yd', i'))
              = Rest' + Weight(j') * ((carry' + borrow') * Weight(i'))
         /\ carry' * Weight(i') =< qhat' * ValueOf(yd', i')
    BY <1>6, <2>8, <2>9, <2>10, Zenon
  <2>12. /\ qhat' =< RADIX
         /\ (qhat' - 1) * Unit' =< Rest' /\ Rest' < (qhat' + 1) * Unit'
    BY <1>6, <2>2, <2>10, Zenon DEF s
  <2>13. i' = 0 => borrow' = 0
    BY <1>1, <1>4
  <2>14. SubtractValues'
    BY <2>11, <2>12, <2>13, Zenon DEF SubtractValues
  <2>15. QED
    BY <2>1, <2>14
<1>14. ValuesInv'
  <2>1. EstimateValues' /\ AddBackValues' /\ RemainderValues'
    BY <1>1 DEF EstimateValues, AddBackValues, RemainderValues
  <2>2. misled' = misled
    BY <1>1
  <2>3. QED
    BY <1>13, <2>1, <2>2, Zenon DEF ValuesInv
<1>15. yd' = yd /\ rem' = rem
  BY <1>1
<1>16. QED
  BY <1>2, <1>5, <1>6, <1>11, <1>14, <1>15, StepValues

(* D6. *)
LEMMA AddBackFacts ==
  ASSUME DivisionInv, pc = "add_back", ~misled
  PROVE  /\ qhat \in 1 .. RADIX /\ quot[j] = qhat - 1
         /\ (qhat - 1) * Unit =< Rest /\ Rest < qhat * Unit
         /\ Part + qhat * Unit + Weight(j) * (carry * Weight(i)) =
              Rest + Weight(j) * (Weight(N + 1) + ValueOf(yd, i))
<1>1. AddBackValues
  BY Zenon DEF DivisionInv
<1>2. QED
  BY <1>1 DEF AddBackValues

LEMMA AddBackDivides ==
  ASSUME DivisionInv, AddBack
  PROVE  DivisionInv'
<1> USE Constants
<1> DEFINE sum == (xd[j + i] + yd[i] + carry) % U64
<1> DEFINE c == IF sum < yd[i] \/ sum >= RADIX THEN 1 ELSE 0
<1> DEFINE d == (sum - c * RADIX) % U64
<1>1. /\ pc = "add_back" /\ pc' = "add_back" /\ i =< N /\ i' = i + 1
      /\ xd' = [xd EXCEPT ![j + i] = d] /\ carry' = c
      /\ UNCHANGED << operands, yd, xd_n, quot, rem, j, trial, borrow, misled >>
  BY DEF AddBack
<1>2. pc \in Dividing /\ pc' \in Dividing
  BY <1>1 DEF Dividing
<1>3. /\ KnuthInv /\ (misled => yd[N - 1] > U64 - RADIX) /\ i \in 0 .. N + 1
      /\ carry \in 0 .. 1
  BY <1>1, <1>2, LoopFacts DEF KnuthInv
<1>4. /\ M \in Nat /\ N \in Nat /\ N >= 2 /\ N =< M /\ j \in 0 .. M - N /\ i \in 0 .. N
      /\ \A k \in 0 .. M : xd[k] \in 0 .. RADIX - 1
  BY <1>1, <1>3, InvFacts
<1>5. KnuthInv'
  BY <1>3, AddBackPreserves
<1>6. UNCHANGED operands /\ M' = M /\ N' = N /\ qhat' = qhat
  BY <1>1, SameOperands DEF trial
<1>7. xd[j + i] \in 0 .. RADIX - 1
  BY <1>4
<1>8. /\ ValueOf(yd, i + 1) = ValueOf(yd, i) + yd[i] * Weight(i)
      /\ ValueOf(yd, i) \in Nat /\ yd[i] \in 0 .. RADIX - 1
      /\ Weight(i) \in Nat /\ Weight(i + 1) = RADIX * Weight(i)
  BY <1>3, <1>4, DivisorDigit
<1>9. /\ d \in 0 .. RADIX - 1 /\ c \in 0 .. 1
      /\ d + c * RADIX = xd[j + i] + yd[i] + carry
  <2> DEFINE a == xd[j + i]
  <2> DEFINE b == yd[i]
  <2>1. a \in 0 .. RADIX - 1 /\ b \in 0 .. RADIX - 1
    BY <1>7, <1>8
  <2> HIDE DEF a, b
  <2> DEFINE e == (a + b + carry) % U64
  <2> DEFINE k == IF e < b \/ e >= RADIX THEN 1 ELSE 0
  <2>2. /\ (e - k * RADIX) % U64 \in 0 .. RADIX - 1
        /\ ((e - k * RADIX) % U64) + k * RADIX = a + b + carry
    BY <1>3, <2>1, DigitSum
  <2>3. k \in 0 .. 1
    OBVIOUS
  <2>4. d = (e - k * RADIX) % U64 /\ c = k
    BY DEF a, b
  <2> HIDE DEF e, k, d, c
  <2>5. QED
    BY <2>2, <2>3, <2>4 DEF a, b
<1> HIDE DEF d, c, sum
<1>10. TrialValues'
  <2>1. yd'[N' - 1] = yd[N - 1] /\ misled' = misled
    BY <1>1, <1>6
  <2>2. QED
    BY <1>1, <1>3, <2>1 DEF TrialValues
<1>11. /\ Part' = Part + (d - xd[j + i]) * (Weight(j) * Weight(i))
       /\ \A k \in j + N + 1 .. M : xd'[k] = xd[k]
  <2>1. d \in Int /\ j' = j
    BY <1>1, <1>9
  <2>2. QED
    BY <1>1, <1>3, <1>4, <1>6, <2>1, PartChanges
<1>12. ASSUME ~misled
       PROVE  LoopValues' /\ AddBackValues'
  <2>1. LoopValues'
    BY <1>1, <1>2, <1>6, <1>11, <1>12, LoopValuesKept
  <2>2. /\ qhat \in 1 .. RADIX /\ quot[j] = qhat - 1
        /\ (qhat - 1) * Unit =< Rest /\ Rest < qhat * Unit
        /\ Part + qhat * Unit + Weight(j) * (carry * Weight(i)) =
             Rest + Weight(j) * (Weight(N + 1) + ValueOf(yd, i))
    BY <1>1, <1>12, AddBackFacts
  <2>3. Part \in Int /\ Rest \in Int /\ Weight(j) \in Nat /\ Unit \in Int
    BY <1>3, NumberFacts
  <2>4. Weight(N + 1) \in Nat
    <3>1. N + 1 \in Nat
      BY <1>4
    <3>2. QED
      BY <3>1, WeightFacts
  <2> DEFINE p == Part
  <2> DEFINE s == Rest
  <2> DEFINE w == Weight(j)
  <2> DEFINE a == Weight(i)
  <2> DEFINE v == ValueOf(yd, i)
  <2> DEFINE f == yd[i]
  <2> DEFINE e == d - xd[j + i]
  <2> DEFINE qu == qhat * Unit
  <2> DEFINE top == Weight(N + 1)
  <2>5. /\ p \in Int /\ s \in Int /\ w \in Nat /\ a \in Nat /\ v \in Nat /\ f \in Nat
        /\ e \in Int /\ c \in Nat /\ RADIX \in Nat /\ carry \in Nat /\ qu \in Int /\ top \in Nat
    BY <1>3, <1>7, <1>8, <1>9, <2>2, <2>3, <2>4
  <2>6. p + qu + w * (carry * a) = s + w * (top + v)
    BY <2>2
  <2>7. e = f + carry - c * RADIX
    <3> DEFINE z == c * RADIX
    <3> DEFINE b == xd[j + i]
    <3>1. d \in Int /\ b \in Int /\ f \in Int /\ carry \in Int /\ z \in Int /\ d + z = b + f + carry
      BY <1>3, <1>7, <1>8, <1>9
    <3>2. e = d - b
      OBVIOUS
    <3> HIDE DEF z, b, f, e
    <3>3. e = f + carry - z
      BY <3>1, <3>2
    <3>4. QED
      BY <3>3 DEF z
  <2> HIDE DEF p, s, w, a, v, f, e, qu, top
  <2>8. (p + e * (w * a)) + qu + w * (c * (RADIX * a)) = s + w * (top + (v + f * a))
    BY <2>5, <2>6, <2>7, AddOne
  <2>9. /\ Part' = p + e * (w * a) /\ Rest' = s /\ Unit' = Unit
        /\ Weight(j') = w /\ Weight(i') = RADIX * a /\ ValueOf(yd', i') = v + f * a
        /\ carry' = c /\ Weight(N' + 1) = top /\ qhat' * Unit' = qu
    <3>1. Rest' = Rest /\ Unit' = Unit
      BY <1>1, <1>6, SameRest
    <3>2. Weight(j') = w /\ Weight(i') = RADIX * a /\ ValueOf(yd', i') = v + f * a
      BY <1>1, <1>8 DEF w, a, v, f
    <3>3. carry' = c /\ Weight(N' + 1) = top /\ qhat' * Unit' = qu
      BY <1>1, <1>6, <3>1 DEF top, qu
    <3>4. Part' = p + e * (w * a)
      BY <1>11 DEF p, e, w, a
    <3>5. QED
      BY <3>1, <3>2, <3>3, <3>4 DEF s
  <2>10. Part' + qhat' * Unit' + Weight(j') * (carry' * Weight(i')) =
           Rest' + Weight(j') * (Weight(N' + 1) + ValueOf(yd', i'))
    BY <2>8, <2>9, Zenon
  <2>11. /\ qhat' \in 1 .. RADIX /\ quot'[j'] = qhat' - 1
         /\ (qhat' - 1) * Unit' =< Rest' /\ Rest' < qhat' * Unit'
    <3>1. quot' = quot /\ j' = j
      BY <1>1
    <3>2. QED
      BY <1>6, <2>2, <2>9, <3>1, Zenon DEF s
  <2>12. AddBackValues'
    BY <2>10, <2>11, Zenon DEF AddBackValues
  <2>13. QED
    BY <2>1, <2>12
<1>13. ValuesInv'
  <2>1. EstimateValues' /\ SubtractValues' /\ RemainderValues'
    BY <1>1 DEF EstimateValues, SubtractValues, RemainderValues
  <2>2. misled' = misled
    BY <1>1
  <2>3. QED
    BY <1>12, <2>1, <2>2, Zenon DEF ValuesInv
<1>14. yd' = yd /\ rem' = rem
  BY <1>1
<1>15. QED
  BY <1>2, <1>5, <1>6, <1>10, <1>13, <1>14, StepValues

-----------------------------------------------------------------------------
(* A digit of the quotient is set. *)
LEMMA QuotientChanges ==
  ASSUME KnuthInv, NEW q \in Int, quot' = [quot EXCEPT ![j] = q]
  PROVE  /\ Integral(quot', M - N + 1)
         /\ quot'[j] = q
         /\ ValueOf(quot', M - N + 1) \in Int /\ ValueOf(quot', j + 1) \in Int
         /\ ValueOf(quot', M - N + 1) - ValueOf(quot', j + 1) = Known
         /\ ValueOf(quot', j) \in Int
         /\ ValueOf(quot', j + 1) = ValueOf(quot', j) + q * Weight(j)
<1> DEFINE n == M - N + 1
<1> DEFINE e == quot'
<1>1. /\ M \in Nat /\ N \in Nat /\ N =< M /\ j \in 0 .. M - N
      /\ quot \in [0 .. M - N -> Word] /\ Integral(quot, M - N + 1)
  BY InvFacts, Types, Arrays
<1>2. n \in Nat /\ j \in Nat /\ j + 1 \in Nat /\ j + 1 =< n /\ j \in 0 .. M - N
  BY <1>1
<1>3. e[j] = q /\ \A m \in 0 .. M - N : m # j => e[m] = quot[m]
  BY <1>1
<1> HIDE DEF e
<1>4. Integral(e, n) /\ Integral(quot, n) /\ \A k \in j + 1 .. n - 1 : quot[k] = e[k]
  <2>1. \A m \in 0 .. n - 1 : m \in 0 .. M - N
    BY <1>1
  <2>2. Integral(quot, n)
    BY <1>1
  <2>3. \A m \in 0 .. M - N : e[m] \in Int
    BY <1>1, <1>3 DEF Integral
  <2> HIDE DEF n
  <2>4. Integral(e, n)
    BY <2>1, <2>3 DEF Integral
  <2>5. \A k \in j + 1 .. n - 1 : quot[k] = e[k]
    BY <1>2, <1>3, <2>1
  <2>6. QED
    BY <2>2, <2>4, <2>5
<1> HIDE DEF n
<1>5. Integral(e, j + 1) /\ Integral(e, j)
  BY <1>2, <1>4 DEF Integral
<1>6. ValueOf(e, n) \in Int /\ ValueOf(e, j + 1) \in Int /\ ValueOf(e, j) \in Int
  BY <1>2, <1>4, <1>5, ValueType
<1>7. ValueOf(e, j + 1) = ValueOf(e, j) + q * Weight(j)
  BY <1>2, <1>3, <1>5, ValueNext
<1>8. ValueOf(quot, n) - ValueOf(quot, j + 1) = ValueOf(e, n) - ValueOf(e, j + 1)
  <2> DEFINE m == j + 1
  <2>1. m \in Nat /\ m =< n /\ \A k \in m .. n - 1 : quot[k] = e[k]
    BY <1>2, <1>4
  <2> HIDE DEF m
  <2>2. ValueOf(quot, n) - ValueOf(quot, m) = ValueOf(e, n) - ValueOf(e, m)
    BY <1>2, <1>4, <2>1, ValueHigh
  <2>3. QED
    BY <2>2 DEF m
<1>9. Known = ValueOf(quot, n) - ValueOf(quot, j + 1)
  BY DEF Known, n
<1>10. QED
  BY <1>3, <1>4, <1>6, <1>7, <1>8, <1>9 DEF e, n

LEMMA SameRestAbove ==
  ASSUME KnuthInv, NEW q \in Int, quot' = [quot EXCEPT ![j] = q], UNCHANGED operands, j' = j
  PROVE  Rest' = Rest /\ Unit' = Unit
<1>1. M' = M /\ N' = N /\ X' = X /\ Y' = Y /\ scale' = scale
  BY SameOperands
<1>2. ValueOf(quot', M - N + 1) - ValueOf(quot', j + 1) = Known
  BY QuotientChanges
<1>3. Known' = Known
  BY <1>1, <1>2 DEF Known
<1>4. Rest' = Rest
  BY <1>1, <1>3 DEF Rest
<1>5. Unit' = Unit
  BY <1>1 DEF Unit
<1>6. QED
  BY <1>4, <1>5

(* The scaled divisor has no digit above its N, what it counts has N digits. *)
LEMMA DivisorBelow ==
  ASSUME KnuthInv, pc \notin Scaling, ScaledDivisor = Y * scale
  PROVE  Y * scale < Weight(N) /\ Unit < Weight(j + N)
         /\ Weight(N) \in Nat /\ Weight(j + N) \in Nat
<1>1. M \in Nat /\ N \in Nat /\ N =< M /\ j \in 0 .. M - N
  BY InvFacts
<1>2. yd[N] = 0
  BY DEF KnuthInv, DivisorIsNormalized, Scaling
<1>3. Digital(yd, N + 1) /\ Integral(yd, N + 1)
  BY Arrays
<1>4. ScaledDivisor = ValueOf(yd, N) + yd[N] * Weight(N)
  BY <1>1, <1>3, ValueNext DEF ScaledDivisor
<1>5. Digital(yd, N)
  BY <1>1, <1>3 DEF Digital
<1>6. ValueOf(yd, N) \in Nat /\ ValueOf(yd, N) < Weight(N) /\ Weight(N) \in Nat
  BY <1>1, <1>5, ValueRange, WeightFacts
<1> DEFINE v == Y * scale
<1>7. v = ValueOf(yd, N)
  BY <1>2, <1>4, <1>6
<1> HIDE DEF v
<1>8. v \in Nat /\ v < Weight(N)
  BY <1>6, <1>7
<1>9. j \in Nat /\ j + N \in Nat /\ j =< j + N /\ (j + N) - j = N
  BY <1>1
<1>10. Weight(j + N) = Weight(j) * Weight(N) /\ Weight(j) \in Nat \ {0}
  BY <1>9, WeightSplit, WeightFacts
<1>11. v * Weight(j) < Weight(j) * Weight(N)
  <2> DEFINE w == Weight(j)
  <2> DEFINE b == Weight(N)
  <2>1. w \in Nat /\ w # 0 /\ b \in Nat /\ v + 1 =< b
    BY <1>6, <1>8, <1>10
  <2> HIDE DEF w, b
  <2>2. (v + 1) * w =< b * w
    BY <1>8, <2>1, Grows
  <2>3. (v + 1) * w = v * w + w /\ b * w = w * b /\ v * w \in Nat /\ w * b \in Nat
    BY <1>8, <2>1
  <2>4. v * w < w * b
    BY <2>1, <2>2, <2>3
  <2>5. QED
    BY <2>4 DEF w, b
<1>12. Unit = v * Weight(j)
  BY DEF Unit, v
<1>13. Weight(j + N) \in Nat
  BY <1>9, WeightFacts
<1>14. QED
  BY <1>6, <1>8, <1>10, <1>11, <1>12, <1>13 DEF v

(* What is left below a unit has a digit less. *)
LEMMA TopDigitUsed ==
  ASSUME KnuthInv, pc \notin Scaling, ScaledDivisor = Y * scale, Part < Unit
  PROVE  xd[j + N] = 0 /\ ValueOf(xd, j + N) = Part
<1> DEFINE n == j + N
<1>1. M \in Nat /\ N \in Nat /\ N =< M /\ j \in 0 .. M - N
  BY InvFacts
<1>2. n \in Nat /\ n \in 0 .. M /\ n + 1 \in 0 .. M + 1 /\ n \in 0 .. M + 1 /\ n + 1 = j + N + 1
      /\ M + 1 \in Nat
  BY <1>1
<1>3. Unit < Weight(n) /\ Weight(n) \in Nat /\ Unit \in Int
  BY DivisorBelow, NumberFacts
<1> HIDE DEF n
<1>4. Digital(xd, n) /\ Integral(xd, n + 1) /\ xd[n] \in Nat
  <2>1. Digital(xd, M + 1) /\ xd[n] \in 0 .. RADIX - 1
    BY <1>2, Arrays, InvFacts
  <2>2. Digital(xd, n) /\ Integral(xd, n + 1)
    BY <1>2, <2>1, DigitalIntegral
  <2>3. QED
    BY <2>1, <2>2, Constants
<1>5. Part = ValueOf(xd, n) + xd[n] * Weight(n)
  <2>1. ValueOf(xd, n + 1) = ValueOf(xd, n) + xd[n] * Weight(n)
    BY <1>2, <1>4, ValueNext
  <2>2. QED
    BY <1>2, <2>1 DEF Part
<1>6. ValueOf(xd, n) \in Nat
  BY <1>2, <1>4, ValueRange
<1>7. ASSUME xd[n] # 0 PROVE FALSE
  <2>1. 1 * Weight(n) =< xd[n] * Weight(n)
    BY <1>3, <1>4, <1>7, Grows
  <2>2. xd[n] * Weight(n) \in Nat
    BY <1>3, <1>4
  <2>3. QED
    BY <1>3, <1>5, <1>6, <2>1, <2>2
<1>8. xd[n] = 0
  BY <1>7
<1>9. ValueOf(xd, n) = Part
  BY <1>3, <1>5, <1>6, <1>8
<1>10. QED
  BY <1>8, <1>9 DEF n

(* Scaling both operands leaves the quotient and scales the remainder. *)
LEMMA ScaledDivision ==
  ASSUME NEW a \in Nat, NEW b \in Nat \ {0}, NEW s \in Nat \ {0},
         NEW q \in Int, NEW r \in Nat, r < b * s, a * s = r + (b * s) * q
  PROVE  q = a \div b /\ (a % b) * s = r
<1> DEFINE p == a - b * q
<1>1. p \in Int /\ a = p + b * q /\ b * q \in Int
  OBVIOUS
<1>2. p * s = r
  <2>1. p * s = a * s - (b * q) * s /\ (b * q) * s = (b * s) * q
    OBVIOUS
  <2>2. a * s \in Int /\ (b * s) * q \in Int
    OBVIOUS
  <2>3. QED
    BY <2>1, <2>2
<1> HIDE DEF p
<1>3. p >= 0
  <2>1. ASSUME p < 0 PROVE FALSE
    <3>1. p * s =< (-1) * s
      BY <1>1, <2>1, Grows
    <3>2. (-1) * s = -s
      OBVIOUS
    <3>3. QED
      BY <1>2, <3>1, <3>2
  <2>2. QED
    BY <1>1, <2>1
<1>4. p < b
  BY <1>1, <1>2, Cancel
<1>5. q >= 0
  <2>1. ASSUME q < 0 PROVE FALSE
    <3>1. q * b =< (-1) * b
      BY <2>1, Grows
    <3>2. (-1) * b = -b /\ q * b = b * q
      OBVIOUS
    <3>3. QED
      BY <1>1, <1>4, <3>1, <3>2
  <2>2. QED
    BY <2>1
<1>6. q \in Nat /\ p \in Nat /\ a \in Int /\ a = p + q * b
  BY <1>1, <1>3, <1>5
<1>7. a \div b = q /\ a % b = p
  BY <1>4, <1>6, LowAndHigh
<1>8. QED
  BY <1>2, <1>7

-----------------------------------------------------------------------------
(***************************************************************************)
(* D7: q, the digit j of the quotient, is found when what is left after it *)
(* is below a unit.                                                        *)
(***************************************************************************)
FoundDigit(q) ==
  /\ KnuthInv /\ pc \notin Scaling /\ ScaledDivisor = Y * scale /\ rem = << >>
  /\ NextDigit
  /\ q \in Int /\ quot' = [quot EXCEPT ![j] = q]
  /\ UNCHANGED << operands, xd, yd, xd_n, misled >>
  /\ Part = Rest - q * Unit /\ Part < Unit
  /\ \A k \in j + N + 1 .. M : xd[k] = 0

(* The rest of the loop divides what is left. *)
LEMMA RestGoesOn ==
  ASSUME NEW q, FoundDigit(q), j > 0
  PROVE  LoopValues' /\ EstimateValues'
<1>1. /\ KnuthInv /\ pc \notin Scaling /\ ScaledDivisor = Y * scale
      /\ q \in Int /\ quot' = [quot EXCEPT ![j] = q]
      /\ UNCHANGED operands /\ xd' = xd
      /\ Part = Rest - q * Unit /\ Part < Unit
      /\ \A k \in j + N + 1 .. M : xd[k] = 0
  BY DEF FoundDigit
<1>2. /\ M \in Nat /\ N \in Nat /\ N =< M /\ j \in 0 .. M - N
  BY <1>1, InvFacts
<1>3. j' = j - 1 /\ pc' = "estimate"
  <2>1. ~(j = 0)
    BY <1>2
  <2>2. NextDigit
    BY DEF FoundDigit
  <2>3. QED
    BY <2>1, <2>2 DEF NextDigit
<1>4. M' = M /\ N' = N /\ X' = X /\ Y' = Y /\ scale' = scale
  BY <1>1, SameOperands
<1> DEFINE v == Y * scale
<1> DEFINE w == Weight(j)
<1>5. /\ v \in Nat /\ w \in Nat /\ Known \in Int /\ X * scale \in Nat
      /\ Rest = X * scale - v * Known /\ Unit = v * w /\ Part \in Nat /\ Unit \in Nat
  BY <1>1, NumberFacts DEF Rest, Unit
<1>6. Known' = Known + q * w
  <2>1. Known' = ValueOf(quot', M - N + 1) - ValueOf(quot', j)
    <3>1. j' + 1 = j
      BY <1>2, <1>3
    <3>2. QED
      BY <1>4, <3>1 DEF Known
  <2>2. /\ ValueOf(quot', M - N + 1) \in Int /\ ValueOf(quot', j + 1) \in Int
        /\ ValueOf(quot', M - N + 1) - ValueOf(quot', j + 1) = Known
        /\ ValueOf(quot', j) \in Int
        /\ ValueOf(quot', j + 1) = ValueOf(quot', j) + q * w
    BY <1>1, QuotientChanges
  <2>3. q * w \in Int
    BY <1>1, <1>5
  <2> HIDE DEF w
  <2>4. QED
    BY <1>5, <2>1, <2>2, <2>3
<1>7. Rest' = Part
  <2>1. Rest' = X * scale - v * Known'
    BY <1>4 DEF Rest
  <2> DEFINE b == Known
  <2> DEFINE a == X * scale
  <2>2. Rest' = a - v * (b + q * w) /\ Part = (a - v * b) - q * (v * w) /\ b \in Int /\ a \in Int
    BY <1>1, <1>5, <1>6, <2>1
  <2> HIDE DEF v, w, a, b
  <2>3. v * (b + q * w) = v * b + q * (v * w)
    BY <1>1, <1>5, <2>2
  <2>4. v * b \in Int /\ q * (v * w) \in Int
    BY <1>1, <1>5, <2>2
  <2>5. QED
    BY <2>2, <2>3, <2>4
<1>8. Unit = RADIX * Unit'
  <2>1. Weight(j) = RADIX * Weight(j - 1) /\ Weight(j - 1) \in Nat
    <3>1. j - 1 \in Nat /\ j \in Nat
      BY <1>2
    <3>2. QED
      BY <3>1, WeightFacts
  <2>2. Unit' = v * Weight(j - 1)
    BY <1>3, <1>4 DEF Unit
  <2> DEFINE u == Weight(j - 1)
  <2> HIDE DEF u, v
  <2>3. v * (RADIX * u) = RADIX * (v * u)
    BY <1>5, <2>1, Constants DEF u
  <2>4. QED
    BY <1>5, <2>1, <2>2, <2>3 DEF u
<1>9. xd[j + N] = 0 /\ ValueOf(xd, j + N) = Part
  BY <1>1, TopDigitUsed
<1>10. LoopValues'
  <2>1. Rest' \in Nat /\ Rest' < RADIX * Unit'
    BY <1>1, <1>5, <1>7, <1>8
  <2>2. \A k \in j' + N' + 1 .. M' : xd'[k] = 0
    <3>1. \A k \in j + N .. M : xd[k] = 0
      BY <1>1, <1>2, <1>9
    <3>2. j' + N' + 1 = j + N
      BY <1>2, <1>3, <1>4
    <3>3. QED
      BY <1>1, <1>4, <3>1, <3>2
  <2>3. QED
    BY <2>1, <2>2 DEF LoopValues
<1>11. Part' = Rest'
  <2>1. j' + N' + 1 = j + N
    BY <1>2, <1>3, <1>4
  <2>2. Part' = ValueOf(xd, j + N)
    BY <1>1, <2>1 DEF Part
  <2>3. QED
    BY <1>7, <1>9, <2>2
<1>12. EstimateValues'
  BY <1>3, <1>11 DEF EstimateValues
<1>13. QED
  BY <1>10, <1>12

(* The last digit: what is left is the scaled remainder. *)
LEMMA QuotientFound ==
  ASSUME NEW q, FoundDigit(q), j = 0
  PROVE  /\ Part \in Nat /\ Part < Y * scale
         /\ X * scale = Part + (Y * scale) * ValueOf(quot', M - N + 1)
         /\ ValueOf(quot', M - N + 1) \in Int
         /\ ValueOf(quot', M - N + 1) = X \div Y
<1>1. /\ KnuthInv /\ q \in Int /\ quot' = [quot EXCEPT ![j] = q]
      /\ Part = Rest - q * Unit /\ Part < Unit
  BY DEF FoundDigit
<1> DEFINE v == Y * scale
<1> DEFINE c == ValueOf(quot', M - N + 1)
<1>2. Weight(j) = 1
  BY WeightZero
<1>3. /\ v \in Nat /\ v # 0 /\ Known \in Int /\ X * scale \in Nat
      /\ Rest = X * scale - v * Known /\ Unit = v * Weight(j) /\ Part \in Nat
  BY <1>1, NumberFacts DEF Rest, Unit
<1>4. /\ c \in Int /\ ValueOf(quot', j + 1) \in Int
      /\ c - ValueOf(quot', j + 1) = Known
      /\ ValueOf(quot', j + 1) = ValueOf(quot', j) + q * Weight(j)
  BY <1>1, QuotientChanges
<1>5. ValueOf(quot', j) = 0
  BY ValueZero
<1>6. c = Known + q
  <2> DEFINE d == ValueOf(quot', j + 1)
  <2> DEFINE e == ValueOf(quot', j)
  <2> DEFINE b == Known
  <2> DEFINE w == Weight(j)
  <2>1. /\ c \in Int /\ d \in Int /\ b \in Int /\ q \in Int
        /\ c - d = b /\ d = e + q * w /\ e = 0 /\ w = 1
    BY <1>1, <1>2, <1>3, <1>4, <1>5
  <2> HIDE DEF b, c, d, e, w
  <2>2. q * w = q
    BY <2>1
  <2>3. c = b + q
    BY <2>1, <2>2
  <2>4. QED
    BY <2>3 DEF b
<1>7. /\ X \in Nat /\ Y \in Nat \ {0} /\ scale \in Nat \ {0}
  BY <1>1, OperandValues, InvFacts, Constants
<1> DEFINE b == Known
<1> DEFINE a == X * scale
<1>8. /\ a \in Int /\ b \in Int /\ c = b + q /\ Part = (a - v * b) - q * (v * 1) /\ Part < v * 1
  BY <1>1, <1>2, <1>3, <1>6
<1> HIDE DEF a, b, c, v
<1>9. v * c = v * b + q * (v * 1) /\ v * 1 = v
  BY <1>1, <1>3, <1>8
<1>10. v * b \in Int /\ q * (v * 1) \in Int
  BY <1>1, <1>3, <1>8
<1>11. a = Part + v * c /\ Part < v
  BY <1>3, <1>8, <1>9, <1>10
<1>12. c = X \div Y
  <2>1. X * scale = Part + (Y * scale) * c /\ Part < Y * scale
    BY <1>11 DEF a, v
  <2>2. QED
    BY <1>3, <1>4, <1>7, <2>1, ScaledDivision
<1>13. QED
  BY <1>3, <1>4, <1>11, <1>12 DEF a, c, v

LEMMA NextDigitDivides ==
  ASSUME DivisionInv, NextDigit, KnuthInv', pc \in {"subtract", "add_back"},
         UNCHANGED << operands, xd, yd, xd_n, misled >>,
         NEW q \in Int, quot' = [quot EXCEPT ![j] = q],
         ~misled => Part = Rest - q * Unit /\ Part < Unit
  PROVE  DivisionInv'
<1>1. pc \in Dividing /\ pc \notin Scaling /\ pc \notin {"unnormalize", "done"}
  BY DEF Dividing, Scaling
<1>2. /\ KnuthInv /\ ScaledDivisor = Y * scale
      /\ misled => yd[N - 1] > U64 - RADIX
      /\ ~misled => \A k \in j + N + 1 .. M : xd[k] = 0
  BY <1>1, LoopFacts
<1>3. rem = << >>
  BY <1>1 DEF DivisionInv, ScalingValues
<1>4. ~misled => FoundDigit(q)
  BY <1>1, <1>2, <1>3, Zenon DEF FoundDigit
<1>5. /\ M \in Nat /\ N \in Nat /\ N >= 2 /\ N =< M /\ j \in 0 .. M - N
      /\ xd_n \in M .. M + 1
  BY <1>2, InvFacts, Types
<1>6. UNCHANGED operands /\ xd' = xd /\ yd' = yd /\ xd_n' = xd_n /\ misled' = misled
      /\ M' = M /\ N' = N /\ X' = X /\ Y' = Y /\ scale' = scale
  BY SameOperands
<1>7. /\ carry' = 0 /\ borrow' = 0
      /\ \/ j > 0 /\ j' = j - 1 /\ i' = 0 /\ pc' = "estimate" /\ rem' = rem
         \/ j = 0 /\ j' = j /\ i' = 0 /\ pc' = "done" /\ rem' = rem
         \/ /\ j = 0 /\ j' = j
            /\ i' = xd_n - 1
            /\ pc' = "unnormalize"
            /\ rem' = digits_alloc(xd_n).digits
  BY DEF NextDigit
<1>8. ScalingValues'
  <2>1. ScalingValues
    BY DEF DivisionInv
  <2>2. pc' \notin Scaling
    BY <1>7 DEF Scaling
  <2>3. pc' \notin {"unnormalize", "done"} => rem' = rem
    BY <1>7
  <2>4. QED
    BY <1>1, <1>6, <2>1, <2>2, <2>3, ScalingValuesKept
<1>9. TrialValues'
  <2>1. yd'[N' - 1] = yd[N - 1]
    BY <1>6
  <2>2. QED
    BY <1>2, <1>6, <1>7, <2>1 DEF TrialValues
<1>10. SubtractValues' /\ AddBackValues'
  BY <1>7 DEF SubtractValues, AddBackValues
<1>11. ASSUME ~misled, j > 0
       PROVE  LoopValues' /\ EstimateValues' /\ RemainderValues' /\ QuotientIsExact'
  <2>1. LoopValues' /\ EstimateValues'
    BY <1>4, <1>11, RestGoesOn
  <2>2. ~(j = 0)
    BY <1>5, <1>11
  <2>3. pc' = "estimate"
    BY <1>7, <2>2
  <2>4. QED
    BY <2>1, <2>3 DEF RemainderValues, QuotientIsExact
<1>12. ASSUME ~misled, j = 0, pc' = "done"
       PROVE  LoopValues' /\ EstimateValues' /\ RemainderValues' /\ QuotientIsExact'
  <2>1. LoopValues' /\ EstimateValues' /\ RemainderValues'
    BY <1>12 DEF LoopValues, EstimateValues, RemainderValues
  <2>2. ValueOf(quot', M - N + 1) = X \div Y
    BY <1>4, <1>12, QuotientFound
  <2>3. rem' = << >>
    BY <1>3, <1>7, <1>12
  <2>4. Divides'
    BY <1>6, <2>2, <2>3 DEF Divides
  <2>5. QED
    BY <2>1, <2>4 DEF QuotientIsExact
<1>13. ASSUME ~misled, j = 0, pc' = "unnormalize"
       PROVE  LoopValues' /\ EstimateValues' /\ RemainderValues' /\ QuotientIsExact'
  <2>1. LoopValues' /\ EstimateValues' /\ QuotientIsExact'
    BY <1>13 DEF LoopValues, EstimateValues, QuotientIsExact
  <2>2. /\ Part \in Nat /\ Part < Y * scale
        /\ X * scale = Part + (Y * scale) * ValueOf(quot', M - N + 1)
    BY <1>4, <1>13, QuotientFound
  <2>3. ValueOf(xd, xd_n) = Part
    <3>1. Part < Unit
      BY <1>13
    <3>2. xd[j + N] = 0 /\ ValueOf(xd, j + N) = Part
      BY <1>1, <1>2, <3>1, TopDigitUsed
    <3>3. /\ j + N = N /\ N =< xd_n /\ xd_n \in Nat /\ xd_n =< M + 1
          /\ \A k \in N .. xd_n - 1 : k = N \/ k \in j + N + 1 .. M
      BY <1>5, <1>13
    <3>4. \A k \in N .. xd_n - 1 : xd[k] = 0
      BY <1>2, <1>13, <3>2, <3>3
    <3>5. Integral(xd, xd_n)
      <4>1. Digital(xd, M + 1) /\ M + 1 \in Nat /\ xd_n \in 0 .. M + 1
        BY <1>2, <1>5, Arrays
      <4>2. QED
        BY <4>1, DigitalIntegral
    <3>6. ValueOf(xd, xd_n) = ValueOf(xd, N)
      BY <1>5, <3>3, <3>4, <3>5, ValueZeros
    <3>7. QED
      BY <3>2, <3>3, <3>6
  <2>4. i' + 1 = xd_n
    BY <1>5, <1>7, <1>13
  <2>5. ValueOf(rem', xd_n) \in Int
    <3> DEFINE f == digits_alloc(xd_n).digits
    <3>1. f = [k \in 0 .. xd_n - 1 |-> 0]
      BY DEF digits_alloc
    <3>2. Integral(f, xd_n)
      BY <3>1 DEF Integral
    <3>3. rem' = f /\ xd_n \in Nat
      BY <1>5, <1>7, <1>13
    <3> HIDE DEF f
    <3>4. ValueOf(f, xd_n) \in Int
      BY <3>2, <3>3, ValueType
    <3>5. QED
      BY <3>3, <3>4
  <2>6. /\ ValueOf(xd', xd_n') - ValueOf(xd', i' + 1) = 0
        /\ (ValueOf(rem', xd_n') - ValueOf(rem', i' + 1)) * scale' + carry' * Weight(i' + 1) = 0
    <3>1. Part - Part = 0
      BY <2>2
    <3> DEFINE a == ValueOf(rem', xd_n)
    <3> DEFINE w == Weight(xd_n)
    <3>2. a \in Int /\ w \in Int /\ scale \in Int
      <4>1. xd_n \in Nat
        BY <1>5
      <4>2. QED
        BY <1>2, <2>5, <4>1, WeightFacts, InvFacts, Constants
    <3> HIDE DEF a, w
    <3>3. (a - a) * scale + 0 * w = 0
      BY <3>2
    <3>4. QED
      BY <1>6, <1>7, <2>3, <2>4, <3>1, <3>3 DEF a, w
  <2>7. RemainderValues'
    BY <1>6, <2>2, <2>3, <2>6 DEF RemainderValues
  <2>8. QED
    BY <2>1, <2>7
<1>14. j > 0 \/ (j = 0 /\ pc' = "done") \/ (j = 0 /\ pc' = "unnormalize")
  BY <1>7
<1>15. misled => QuotientIsExact'
  BY <1>6 DEF QuotientIsExact
<1>16. QuotientIsExact'
  BY <1>11, <1>12, <1>13, <1>14, <1>15, Zenon
<1>17. ~misled => LoopValues' /\ EstimateValues' /\ RemainderValues'
  BY <1>11, <1>12, <1>13, <1>14, Zenon
<1>18. ValuesInv'
  <2>1. ~misled' => ~misled
    BY <1>6
  <2>2. ~misled' => LoopValues' /\ EstimateValues' /\ RemainderValues'
    BY <1>17, <2>1, Zenon
  <2>3. QED
    BY <1>10, <2>2 DEF ValuesInv
<1>19. QED
  BY <1>8, <1>9, <1>16, <1>18, Zenon DEF DivisionInv, ValuesInv

(* Behind the digits of the divisor nothing is left to subtract but a borrow. *)
LEMMA Subtracted ==
  ASSUME DivisionInv, pc = "subtract", ~misled, i = N + 1
  PROVE  Part + qhat * Unit = Rest + Weight(j) * (borrow * Weight(N + 1))
<1> USE Constants
<1>1. pc \in Dividing /\ pc \notin Scaling
  BY DEF Dividing, Scaling
<1>2. KnuthInv /\ ScaledDivisor = Y * scale
  BY <1>1, LoopFacts
<1>3. /\ qhat =< RADIX
      /\ Part + Weight(j) * (qhat * ValueOf(yd, i))
           = Rest + Weight(j) * ((carry + borrow) * Weight(i))
      /\ carry * Weight(i) =< qhat * ValueOf(yd, i)
  BY SubtractFacts
<1>4. /\ N \in Nat /\ qhat \in Nat /\ carry \in Nat /\ borrow \in Nat
  BY <1>2, InvFacts
<1>5. /\ Y * scale \in Nat /\ Weight(j) \in Nat /\ Rest \in Int /\ Part \in Int
      /\ Unit = (Y * scale) * Weight(j)
  BY <1>2, NumberFacts DEF Unit
<1>6. Y * scale < Weight(N) /\ Weight(N) \in Nat
  BY <1>1, <1>2, DivisorBelow
<1>7. Weight(N + 1) = RADIX * Weight(N)
  BY <1>4, WeightFacts
<1>8. ValueOf(yd, i) = Y * scale
  BY <1>2 DEF ScaledDivisor
<1> DEFINE v == Y * scale
<1> DEFINE w == Weight(j)
<1> DEFINE b == Weight(N)
<1> DEFINE a == Weight(N + 1)
<1>9. /\ v \in Nat /\ w \in Nat /\ b \in Nat /\ v < b /\ a = RADIX * b /\ a \in Nat
      /\ Part + w * (qhat * v) = Rest + w * ((carry + borrow) * a)
      /\ carry * a =< qhat * v /\ Unit = v * w
  BY <1>3, <1>5, <1>6, <1>7, <1>8
<1> HIDE DEF v, w, a, b
<1>10. carry = 0
  <2>1. ASSUME carry # 0 PROVE FALSE
    <3>1. 1 * a =< carry * a
      BY <1>4, <1>9, <2>1, Grows
    <3>2. qhat * v =< RADIX * v
      BY <1>3, <1>4, <1>9, Grows
    <3>3. (v + 1) * RADIX =< b * RADIX
      BY <1>9, Grows
    <3>4. (v + 1) * RADIX = RADIX * v + RADIX /\ b * RADIX = RADIX * b /\ RADIX * v \in Nat
      BY <1>9
    <3>5. carry * a \in Int /\ qhat * v \in Int /\ 1 * a = a
      BY <1>4, <1>9
    <3>6. QED
      BY <1>9, <3>1, <3>2, <3>3, <3>4, <3>5
  <2>2. QED
    BY <2>1
<1>11. w * (qhat * v) = qhat * (v * w)
  BY <1>4, <1>9
<1>12. (carry + borrow) * a = borrow * a
  BY <1>4, <1>9, <1>10
<1>13. Part + qhat * Unit = Rest + w * (borrow * a)
  BY <1>9, <1>11, <1>12
<1>14. QED
  BY <1>13 DEF w, a

(* D5: the trial digit was the digit. *)
LEMMA KeepTrialDigitDivides ==
  ASSUME DivisionInv, KeepTrialDigit
  PROVE  DivisionInv'
<1> USE Constants
<1>1. /\ pc = "subtract" /\ i = N + 1 /\ borrow = 0 /\ NextDigit
      /\ quot' = [quot EXCEPT ![j] = qhat % U64]
      /\ UNCHANGED << operands, xd, yd, xd_n, trial, misled >>
  BY DEF KeepTrialDigit
<1>2. KnuthInv
  BY DEF DivisionInv
<1>3. KnuthInv'
  BY <1>2, KeepTrialDigitPreserves
<1>4. qhat \in Nat
  BY <1>2, InvFacts
<1> DEFINE q == qhat % U64
<1>5. q \in Int
  BY <1>4
<1>6. ASSUME ~misled
      PROVE  Part = Rest - q * Unit /\ Part < Unit
  <2>1. qhat =< RADIX /\ Rest < (qhat + 1) * Unit
    BY <1>1, <1>6, SubtractFacts
  <2>2. q = qhat
    BY <1>4, <2>1
  <2>3. Part + qhat * Unit = Rest + Weight(j) * (0 * Weight(N + 1))
    BY <1>1, <1>6, Subtracted
  <2>4. Weight(j) * (0 * Weight(N + 1)) = 0
    <3>1. Weight(N + 1) \in Nat
      <4>1. N + 1 \in Nat
        BY <1>2, InvFacts
      <4>2. QED
        BY <4>1, WeightFacts
    <3>2. Weight(j) \in Nat
      BY <1>2, NumberFacts
    <3>3. QED
      BY <3>1, <3>2
  <2>5. Part \in Int /\ Rest \in Int /\ Unit \in Int
    BY <1>2, NumberFacts
  <2> DEFINE p == qhat * Unit
  <2>6. (qhat + 1) * Unit = p + Unit /\ p \in Int
    BY <1>4, <2>5
  <2> HIDE DEF p, q
  <2>7. Part + p = Rest + 0 /\ Rest < p + Unit
    BY <2>1, <2>3, <2>4, <2>6 DEF p
  <2>8. Part = Rest - p /\ Part < Unit
    BY <2>5, <2>6, <2>7
  <2>9. QED
    BY <2>2, <2>8 DEF p
<1> HIDE DEF q
<1>7. quot' = [quot EXCEPT ![j] = q]
  BY <1>1 DEF q
<1>8. UNCHANGED << operands, xd, yd, xd_n, misled >> /\ NextDigit /\ pc \in {"subtract", "add_back"}
  BY <1>1
<1>9. QED
  BY <1>3, <1>5, <1>6, <1>7, <1>8, NextDigitDivides

(* D6: the trial digit was one too large. *)
LEMMA DecrementTrialDigitDivides ==
  ASSUME DivisionInv, DecrementTrialDigit
  PROVE  DivisionInv'
<1> USE Constants
<1>1. /\ pc = "subtract" /\ i = N + 1 /\ borrow = 1
      /\ quot' = [quot EXCEPT ![j] = (qhat - 1) % U64]
      /\ carry' = 0 /\ i' = 0 /\ pc' = "add_back"
      /\ UNCHANGED << operands, xd, yd, xd_n, rem, j, trial, borrow, misled >>
  BY DEF DecrementTrialDigit
<1>2. pc \in Dividing /\ pc' \in Dividing /\ pc \notin Scaling
  BY <1>1 DEF Dividing, Scaling
<1>3. KnuthInv /\ (misled => yd[N - 1] > U64 - RADIX)
  BY <1>1, <1>2, LoopFacts
<1>4. KnuthInv'
  BY <1>3, DecrementTrialDigitPreserves
<1>5. UNCHANGED operands /\ M' = M /\ N' = N /\ qhat' = qhat
  BY <1>1, SameOperands DEF trial
<1>6. qhat \in Nat /\ M \in Nat /\ N \in Nat /\ j \in 0 .. M - N /\ j \in Nat
  BY <1>3, InvFacts
<1> DEFINE q == (qhat - 1) % U64
<1>7. q \in Int
  BY <1>6
<1>8. TrialValues'
  <2>1. yd'[N' - 1] = yd[N - 1] /\ misled' = misled
    BY <1>1, <1>5
  <2>2. QED
    BY <1>1, <1>3, <2>1 DEF TrialValues
<1>9. Rest' = Rest /\ Unit' = Unit
  <2> HIDE DEF q
  <2>1. quot' = [quot EXCEPT ![j] = q] /\ j' = j
    BY <1>1 DEF q
  <2>2. QED
    BY <1>3, <1>5, <1>7, <2>1, SameRestAbove
<1>10. ASSUME ~misled
       PROVE  LoopValues' /\ AddBackValues'
  <2>1. /\ Rest \in Nat /\ Rest < RADIX * Unit
        /\ \A k \in j + N + 1 .. M : xd[k] = 0
    BY <1>2, <1>10, LoopFacts
  <2>2. LoopValues'
    <3>1. \A k \in j' + N' + 1 .. M' : xd'[k] = 0
      BY <1>1, <1>5, <2>1
    <3>2. QED
      BY <1>9, <2>1, <3>1 DEF LoopValues
  <2>3. qhat =< RADIX /\ (qhat - 1) * Unit =< Rest
    BY <1>1, <1>10, SubtractFacts
  <2>4. Part + qhat * Unit = Rest + Weight(j) * (1 * Weight(N + 1))
    BY <1>1, <1>10, Subtracted
  <2>5. Part \in Int /\ Rest \in Int /\ Unit \in Nat /\ Weight(j) \in Nat
    BY <1>3, NumberFacts
  <2>6. Weight(N + 1) \in Nat
    <3>1. N + 1 \in Nat
      BY <1>6
    <3>2. QED
      BY <3>1, WeightFacts
  <2>7. Part < Weight(j) * Weight(N + 1)
    <3>1. Part < Weight(j + N + 1)
      BY <1>3, TopDigits
    <3>2. Weight(j + N + 1) = Weight(j) * Weight(N + 1)
      <4> DEFINE n == j + N + 1
      <4>1. n \in Nat /\ j =< n /\ n - j = N + 1
        BY <1>6
      <4> HIDE DEF n
      <4>2. Weight(n) = Weight(j) * Weight(n - j)
        BY <1>6, <4>1, WeightSplit
      <4>3. QED
        BY <4>1, <4>2 DEF n
    <3>3. QED
      BY <3>1, <3>2
  <2> DEFINE a == Weight(j) * Weight(N + 1)
  <2> DEFINE p == qhat * Unit
  <2>8. a \in Nat /\ p \in Nat /\ Weight(j) * (1 * Weight(N + 1)) = a
    BY <1>6, <2>5, <2>6
  <2>9. Part < a /\ Part + p = Rest + a
    BY <2>4, <2>7, <2>8
  <2> HIDE DEF a, p
  <2>10. Rest < p
    BY <2>5, <2>8, <2>9
  <2>11. qhat # 0
    <3>1. ASSUME qhat = 0 PROVE FALSE
      <4>1. p = 0
        BY <2>5, <3>1 DEF p
      <4>2. QED
        BY <2>1, <2>10, <4>1
    <3>2. QED
      BY <3>1
  <2>12. qhat \in 1 .. RADIX /\ q = qhat - 1
    BY <1>6, <2>3, <2>11
  <2>13. quot'[j'] = qhat' - 1
    <3>1. quot \in [0 .. M - N -> Word]
      BY <1>3, Types
    <3>2. quot'[j] = q
      BY <1>1, <1>6, <3>1
    <3> HIDE DEF q
    <3>3. QED
      BY <1>1, <1>5, <2>12, <3>2
  <2>14. Part' = Part
    BY <1>1, <1>5, SamePart
  <2>15. Part' + qhat' * Unit' + Weight(j') * (carry' * Weight(i')) =
           Rest' + Weight(j') * (Weight(N' + 1) + ValueOf(yd', i'))
    <3>1. ValueOf(yd', i') = 0 /\ Weight(i') = 1
      BY <1>1, ValueZero, WeightZero
    <3>2. Weight(j) * (0 * 1) = 0 /\ Weight(j) * (Weight(N + 1) + 0) = a
      BY <2>5, <2>6 DEF a
    <3>3. Part + p + 0 = Rest + a
      BY <2>5, <2>8, <2>9
    <3>4. /\ Part' = Part /\ qhat' * Unit' = p /\ Rest' = Rest
          /\ Weight(j') = Weight(j) /\ carry' = 0 /\ Weight(N' + 1) = Weight(N + 1)
      BY <1>1, <1>5, <1>9, <2>14 DEF p
    <3>5. QED
      BY <3>1, <3>2, <3>3, <3>4, Zenon
  <2>16. /\ qhat' \in 1 .. RADIX
         /\ (qhat' - 1) * Unit' =< Rest' /\ Rest' < qhat' * Unit'
    BY <1>5, <1>9, <2>3, <2>10, <2>12, Zenon DEF p
  <2>17. AddBackValues'
    BY <2>13, <2>15, <2>16, Zenon DEF AddBackValues
  <2>18. QED
    BY <2>2, <2>17
<1>11. ValuesInv'
  <2>1. EstimateValues' /\ SubtractValues' /\ RemainderValues'
    BY <1>1 DEF EstimateValues, SubtractValues, RemainderValues
  <2>2. misled' = misled
    BY <1>1
  <2>3. QED
    BY <1>10, <2>1, <2>2, Zenon DEF ValuesInv
<1>12. yd' = yd /\ rem' = rem
  BY <1>1
<1>13. QED
  BY <1>2, <1>4, <1>5, <1>8, <1>11, <1>12, StepValues

(* The carry of adding back takes the borrow away. *)
LEMMA AddedBackDivides ==
  ASSUME DivisionInv, AddedBack
  PROVE  DivisionInv'
<1> USE Constants
<1>1. /\ pc = "add_back" /\ i = N + 1 /\ NextDigit
      /\ UNCHANGED << operands, xd, yd, xd_n, quot, trial, misled >>
  BY DEF AddedBack
<1>2. KnuthInv /\ carry \in 0 .. 1 /\ pc \notin Scaling /\ pc \in Dividing
  BY <1>1 DEF DivisionInv, KnuthInv, Scaling, Dividing
<1>3. KnuthInv' /\ ScaledDivisor = Y * scale
  BY <1>2, AddedBackPreserves, LoopFacts
<1>4. /\ M \in Nat /\ N \in Nat /\ j \in 0 .. M - N /\ j \in Nat
      /\ quot \in [0 .. M - N -> Word]
  BY <1>2, InvFacts, Types
<1> DEFINE q == quot[j]
<1>5. q \in Int
  BY <1>4 DEF Word
<1>6. quot' = [quot EXCEPT ![j] = q]
  BY <1>1, <1>4
<1>7. ASSUME ~misled
      PROVE  Part = Rest - q * Unit /\ Part < Unit
  <2>1. /\ qhat \in 1 .. RADIX /\ q = qhat - 1
        /\ (qhat - 1) * Unit =< Rest /\ Rest < qhat * Unit
        /\ Part + qhat * Unit + Weight(j) * (carry * Weight(i)) =
             Rest + Weight(j) * (Weight(N + 1) + ValueOf(yd, i))
    BY <1>1, <1>7, AddBackFacts
  <2>2. /\ Part \in Nat /\ Rest \in Int /\ Unit \in Nat /\ Weight(j) \in Nat \ {0}
        /\ Y * scale \in Nat /\ Unit = (Y * scale) * Weight(j)
    BY <1>2, NumberFacts DEF Unit
  <2>3. Weight(N + 1) \in Nat
    <3>1. N + 1 \in Nat
      BY <1>4
    <3>2. QED
      BY <3>1, WeightFacts
  <2>4. ValueOf(yd, i) = Y * scale
    BY <1>1, <1>3 DEF ScaledDivisor
  <2>5. Unit < Weight(j) * Weight(N + 1)
    <3>1. Unit < Weight(j + N) /\ Weight(j + N) \in Nat
      BY <1>2, <1>3, DivisorBelow
    <3> DEFINE n == j + N
    <3>2. n \in Nat /\ j =< n + 1 /\ (n + 1) - j = N + 1 /\ n + 1 \in Nat
      BY <1>4
    <3> HIDE DEF n
    <3>3. Weight(n + 1) = RADIX * Weight(n)
      BY <3>2, WeightFacts
    <3>4. Weight(n + 1) = Weight(j) * Weight(N + 1)
      <4> DEFINE m == n + 1
      <4>1. m \in Nat /\ j =< m /\ m - j = N + 1
        BY <3>2
      <4> HIDE DEF m
      <4>2. Weight(m) = Weight(j) * Weight(m - j)
        BY <1>4, <4>1, WeightSplit
      <4>3. QED
        BY <4>1, <4>2 DEF m
    <3>5. 1 * Weight(n) =< RADIX * Weight(n)
      BY <3>1, Grows DEF n
    <3>6. Unit < Weight(n) /\ Weight(n) \in Nat
      BY <3>1 DEF n
    <3>7. RADIX * Weight(n) \in Nat
      BY <3>6
    <3>8. QED
      BY <2>2, <3>3, <3>4, <3>5, <3>6, <3>7
  <2> DEFINE p == qhat * Unit
  <2> DEFINE a == Weight(j) * Weight(N + 1)
  <2>6. p \in Int /\ a \in Nat /\ (qhat - 1) * Unit = p - Unit
    BY <2>1, <2>2, <2>3
  <2>7. Weight(j) * (Weight(N + 1) + ValueOf(yd, i)) = a + Unit
    <3> DEFINE v == Y * scale
    <3> DEFINE w == Weight(j)
    <3> DEFINE b == Weight(N + 1)
    <3>1. v \in Nat /\ w \in Nat /\ b \in Nat
      BY <2>2, <2>3
    <3> HIDE DEF v, w, b
    <3>2. w * (b + v) = w * b + v * w
      BY <3>1
    <3>3. QED
      BY <2>2, <2>4, <3>2 DEF v, w, b
  <2>8. Weight(j) * (carry * Weight(i)) = IF carry = 0 THEN 0 ELSE a
    <3>1. CASE carry = 0
      BY <1>1, <2>2, <2>3, <3>1
    <3>2. CASE carry = 1
      BY <1>1, <2>2, <2>3, <3>2
    <3>3. QED
      BY <1>2, <3>1, <3>2
  <2>9. p - Unit =< Rest /\ Rest < p /\ Unit < a
    BY <2>1, <2>5, <2>6
  <2>10. Part + p + (IF carry = 0 THEN 0 ELSE a) = Rest + (a + Unit)
    BY <2>1, <2>7, <2>8
  <2>11. Part < a
    <3>1. Part < Weight(j + N + 1)
      BY <1>2, TopDigits
    <3> DEFINE m == j + N + 1
    <3>2. m \in Nat /\ j =< m /\ m - j = N + 1
      BY <1>4
    <3> HIDE DEF m
    <3>3. Weight(m) = Weight(j) * Weight(m - j)
      BY <1>4, <3>2, WeightSplit
    <3>4. QED
      BY <3>1, <3>2, <3>3 DEF m
  <2> HIDE DEF p, a
  <2>12. carry # 0
    BY <2>2, <2>6, <2>9, <2>10, <2>11
  <2>13. Part + p = Rest + Unit
    <3> DEFINE b == Part
    <3> DEFINE r == Rest
    <3> DEFINE u == Unit
    <3>1. b + p + a = r + (a + u)
      BY <2>10, <2>12
    <3>2. b \in Int /\ r \in Int /\ u \in Int /\ p \in Int /\ a \in Int
      BY <2>2, <2>6
    <3> HIDE DEF b, r, u
    <3>3. b + p = r + u
      BY <3>1, <3>2
    <3>4. QED
      BY <3>3 DEF b, r, u
  <2>14. Part < Unit /\ Part = Rest - (p - Unit)
    BY <2>2, <2>6, <2>9, <2>13
  <2>15. QED
    BY <2>1, <2>6, <2>14
<1> HIDE DEF q
<1>8. UNCHANGED << operands, xd, yd, xd_n, misled >> /\ NextDigit /\ pc \in {"subtract", "add_back"}
  BY <1>1
<1>9. QED
  BY <1>3, <1>5, <1>6, <1>7, <1>8, NextDigitDivides

-----------------------------------------------------------------------------
(* D8: one digit. k is the carry the division of the digits above leaves. *)
LEMMA DivideOne ==
  ASSUME NEW r \in Int, NEW a \in Int, NEW e \in Nat, NEW w \in Nat, NEW n \in Int, NEW m \in Int,
         NEW p \in Int, NEW b \in Int, NEW s \in Nat, NEW c \in Nat, NEW k \in Nat, NEW q \in Nat,
         NEW t \in Nat,
         r - (a + e * w) = (n - m) * s + c * (t * w),
         p - (b + q * w) = n - m,
         c * t + e = s * q + k
  PROVE  r - a = (p - b) * s + k * w
<1>1. (p - b) * s = (n - m) * s + (q * s) * w
  <2>1. p - b = (n - m) + q * w /\ q * w \in Int /\ n - m \in Int
    OBVIOUS
  <2> DEFINE f == n - m
  <2> DEFINE g == p - b
  <2>2. g = f + q * w /\ f \in Int
    BY <2>1
  <2> HIDE DEF f, g
  <2>3. (f + q * w) * s = f * s + (q * s) * w
    BY <2>2
  <2>4. g * s = f * s + (q * s) * w
    BY <2>2, <2>3
  <2>5. QED
    BY <2>4 DEF f, g
<1>2. c * (t * w) + e * w = (q * s) * w + k * w
  <2>1. c * (t * w) + e * w = (c * t + e) * w /\ (q * s) * w + k * w = (s * q + k) * w
    OBVIOUS
  <2>2. QED
    BY <2>1
<1> DEFINE f == (n - m) * s
<1> DEFINE cw == c * (t * w)
<1> DEFINE ew == e * w
<1> DEFINE qw == (q * s) * w
<1> DEFINE kw == k * w
<1> DEFINE g == (p - b) * s
<1>3. /\ f \in Int /\ cw \in Int /\ ew \in Int /\ qw \in Int /\ kw \in Int
      /\ r - (a + ew) = f + cw /\ g = f + qw /\ cw + ew = qw + kw
  BY <1>1, <1>2
<1> HIDE DEF f, cw, ew, qw, kw, g
<1>4. r - a = g + kw
  BY <1>3
<1>5. QED
  BY <1>4 DEF g, kw

LEMMA RemainderFacts ==
  ASSUME DivisionInv, pc = "unnormalize"
  PROVE  /\ KnuthInv /\ carry \in 0 .. scale - 1 /\ carry \in Nat
         /\ i \in -1 .. xd_n - 1
         /\ rem \in [0 .. xd_n - 1 -> Digit]
         /\ xd_n \in M .. M + 1 /\ M \in Nat /\ M >= 1
         /\ scale \in 1 .. RADIX - 1
         /\ ~misled =>
              /\ ValueOf(xd, xd_n) \in Nat /\ ValueOf(xd, xd_n) < Y * scale
              /\ X * scale = ValueOf(xd, xd_n) + (Y * scale) * ValueOf(quot, M - N + 1)
              /\ ValueOf(xd, xd_n) - ValueOf(xd, i + 1) =
                   (ValueOf(rem, xd_n) - ValueOf(rem, i + 1)) * scale + carry * Weight(i + 1)
<1>1. KnuthInv
  BY DEF DivisionInv
<1>2. /\ carry \in 0 .. scale - 1
      /\ i \in -1 .. xd_n - 1 /\ rem \in [0 .. xd_n - 1 -> Digit]
  BY <1>1 DEF KnuthInv
<1>3. /\ xd_n \in M .. M + 1 /\ M \in Nat /\ M >= 1 /\ scale \in 1 .. RADIX - 1 /\ carry \in Nat
  BY <1>1, InvFacts, Types
<1>4. ~misled => RemainderValues
  BY Zenon DEF DivisionInv
<1>5. QED
  BY <1>1, <1>2, <1>3, <1>4 DEF RemainderValues

LEMMA UnnormalizeDivides ==
  ASSUME DivisionInv, Unnormalize
  PROVE  DivisionInv'
<1> USE Constants
<1>1. /\ pc = "unnormalize"
      /\ UNCHANGED << operands, xd, yd, xd_n, quot, j, trial, borrow, misled >>
      /\ pc' \in {"unnormalize", "done"}
  BY DEF Unnormalize
<1>2. /\ KnuthInv /\ carry \in 0 .. scale - 1 /\ carry \in Nat
      /\ i \in -1 .. xd_n - 1
      /\ rem \in [0 .. xd_n - 1 -> Digit]
      /\ xd_n \in M .. M + 1 /\ M \in Nat /\ M >= 1
      /\ scale \in 1 .. RADIX - 1
      /\ ~misled =>
           /\ ValueOf(xd, xd_n) \in Nat /\ ValueOf(xd, xd_n) < Y * scale
           /\ X * scale = ValueOf(xd, xd_n) + (Y * scale) * ValueOf(quot, M - N + 1)
           /\ ValueOf(xd, xd_n) - ValueOf(xd, i + 1) =
                (ValueOf(rem, xd_n) - ValueOf(rem, i + 1)) * scale + carry * Weight(i + 1)
  BY <1>1, RemainderFacts
<1>3. KnuthInv'
  BY <1>2, UnnormalizePreserves
<1>4. UNCHANGED operands /\ xd' = xd /\ yd' = yd /\ xd_n' = xd_n /\ quot' = quot
      /\ M' = M /\ N' = N /\ X' = X /\ Y' = Y /\ scale' = scale
  BY <1>1, SameOperands
<1>5. ScalingValues'
  <2>1. ScalingValues
    BY DEF DivisionInv
  <2>2. pc \notin Scaling /\ pc' \notin Scaling
    BY <1>1 DEF Scaling
  <2>3. pc' \in {"unnormalize", "done"}
    BY <1>1
  <2>4. QED
    BY <1>4, <2>1, <2>2, <2>3, ScalingValuesKept
<1>6. TrialValues'
  <2>1. misled => yd[N - 1] > U64 - RADIX
    BY DEF DivisionInv, TrialValues
  <2>2. yd'[N' - 1] = yd[N - 1] /\ misled' = misled
    BY <1>1, <1>4
  <2>3. QED
    BY <1>1, <2>1, <2>2 DEF TrialValues
<1>7. /\ Integral(rem, xd_n) /\ Digital(rem, xd_n) /\ xd_n \in Nat
      /\ Digital(xd, xd_n) /\ Integral(xd, xd_n)
      /\ \A k \in 0 .. xd_n - 1 : xd[k] \in 0 .. RADIX - 1
  <2>1. xd_n \in Nat /\ xd_n \in 0 .. M + 1 /\ M + 1 \in Nat
    BY <1>2
  <2>2. \A k \in 0 .. xd_n - 1 : rem[k] \in 0 .. RADIX - 1
    BY <1>2, <2>1 DEF Digit
  <2>3. Digital(rem, xd_n) /\ Integral(rem, xd_n)
    BY <2>2 DEF Digital, Integral
  <2>4. Digital(xd, M + 1)
    BY <1>2, Arrays
  <2>5. Digital(xd, xd_n) /\ Integral(xd, xd_n)
    BY <2>1, <2>4, DigitalIntegral
  <2>6. QED
    BY <2>1, <2>3, <2>5 DEF Digital
<1>8. CASE i >= 0
  <2> DEFINE t == carry * RADIX + xd[i]
  <2> DEFINE q == t \div scale
  <2> DEFINE k == t % scale
  <2> DEFINE f == rem'
  <2>1. /\ rem' = [rem EXCEPT ![i] = q] /\ carry' = k /\ i' = i - 1 /\ pc' = "unnormalize"
    BY <1>1, <1>8 DEF Unnormalize
  <2>2. i \in Nat /\ i < xd_n /\ i \in 0 .. xd_n - 1 /\ i + 1 \in Nat /\ i + 1 =< xd_n
    BY <1>2, <1>7, <1>8
  <2>3. xd[i] \in 0 .. RADIX - 1
    BY <1>7, <2>2
  <2>4. q \in 0 .. RADIX - 1 /\ k \in 0 .. scale - 1
    BY <1>2, <2>3, ShortDivision
  <2>5. carry * RADIX + xd[i] = scale * q + k
    <3>1. t \in Nat /\ scale \in Nat \ {0}
      BY <1>2, <2>3
    <3> DEFINE s == scale
    <3>2. t \in Nat /\ s \in Nat \ {0}
      BY <3>1
    <3> HIDE DEF t, s
    <3>3. t = s * (t \div s) + (t % s)
      BY <3>2
    <3>4. QED
      BY <3>3 DEF t, s
  <2> HIDE DEF t, q, k
  <2>6. f[i] = q /\ \A m \in 0 .. xd_n - 1 : m # i => f[m] = rem[m]
    BY <1>2, <2>1, <2>2
  <2> HIDE DEF f
  <2>7. Integral(f, xd_n)
    BY <1>7, <2>4, <2>6 DEF Integral
  <2>8. /\ Integral(f, i + 1) /\ Integral(f, i) /\ Integral(xd, i + 1) /\ Integral(xd, i)
        /\ Integral(rem, i + 1)
    BY <1>7, <2>2, <2>7 DEF Integral
  <2>9. ValueOf(f, i + 1) = ValueOf(f, i) + q * Weight(i)
    BY <2>2, <2>6, <2>8, ValueNext
  <2>10. ValueOf(xd, i + 1) = ValueOf(xd, i) + xd[i] * Weight(i)
    BY <2>2, <2>8, ValueNext
  <2>11. ValueOf(rem, xd_n) - ValueOf(rem, i + 1) = ValueOf(f, xd_n) - ValueOf(f, i + 1)
    <3> DEFINE m == i + 1
    <3>1. m \in Nat /\ m =< xd_n /\ \A n \in m .. xd_n - 1 : rem[n] = f[n]
      BY <2>2, <2>6
    <3> HIDE DEF m
    <3>2. ValueOf(rem, xd_n) - ValueOf(rem, m) = ValueOf(f, xd_n) - ValueOf(f, m)
      BY <1>7, <2>7, <3>1, ValueHigh
    <3>3. QED
      BY <3>2 DEF m
  <2>12. /\ ValueOf(rem, xd_n) \in Int /\ ValueOf(rem, i + 1) \in Int
         /\ ValueOf(f, xd_n) \in Int /\ ValueOf(f, i) \in Int /\ ValueOf(xd, i) \in Int
    BY <1>7, <2>2, <2>7, <2>8, ValueType
  <2>13. Weight(i) \in Nat /\ Weight(i + 1) = RADIX * Weight(i)
    BY <2>2, WeightFacts
  <2>14. ASSUME ~misled PROVE RemainderValues'
    <3> DEFINE r == ValueOf(xd, xd_n)
    <3> DEFINE a == ValueOf(xd, i)
    <3> DEFINE e == xd[i]
    <3> DEFINE w == Weight(i)
    <3> DEFINE n == ValueOf(rem, xd_n)
    <3> DEFINE m == ValueOf(rem, i + 1)
    <3> DEFINE p == ValueOf(f, xd_n)
    <3> DEFINE b == ValueOf(f, i)
    <3>1. /\ r \in Nat /\ r < Y * scale
          /\ X * scale = r + (Y * scale) * ValueOf(quot, M - N + 1)
          /\ r - ValueOf(xd, i + 1) = (n - m) * scale + carry * Weight(i + 1)
      BY <1>2, <2>14
    <3>2. /\ r \in Int /\ a \in Int /\ e \in Nat /\ w \in Nat /\ n \in Int /\ m \in Int
          /\ p \in Int /\ b \in Int /\ scale \in Nat /\ carry \in Nat /\ k \in Nat /\ q \in Nat
          /\ RADIX \in Nat
      BY <1>2, <2>3, <2>4, <2>12, <2>13, <3>1
    <3>3. /\ r - (a + e * w) = (n - m) * scale + carry * (RADIX * w)
          /\ p - (b + q * w) = n - m
          /\ carry * RADIX + e = scale * q + k
      BY <2>5, <2>9, <2>10, <2>11, <2>13, <3>1
    <3> HIDE DEF r, a, e, w, n, m, p, b
    <3>4. r - a = (p - b) * scale + k * w
      BY <3>2, <3>3, DivideOne
    <3>5. i' + 1 = i
      BY <2>1, <2>2
    <3>6. /\ ValueOf(xd', xd_n') = r /\ ValueOf(xd', i' + 1) = a
          /\ ValueOf(rem', xd_n') = p /\ ValueOf(rem', i' + 1) = b
          /\ carry' = k /\ Weight(i' + 1) = w
      BY <1>4, <2>1, <3>5 DEF r, a, p, b, w, f
    <3>7. X' * scale' = r + (Y' * scale') * ValueOf(quot', M' - N' + 1) /\ r < Y' * scale'
      BY <1>4, <3>1
    <3>8. QED
      BY <1>4, <3>1, <3>4, <3>6, <3>7, Zenon DEF RemainderValues
  <2>15. LoopValues' /\ EstimateValues' /\ SubtractValues' /\ AddBackValues' /\ QuotientIsExact'
    BY <2>1 DEF LoopValues, EstimateValues, SubtractValues, AddBackValues, QuotientIsExact
  <2>16. ValuesInv'
    <3>1. ~misled' => ~misled
      BY <1>1
    <3>2. ~misled' => RemainderValues'
      BY <2>14, <3>1, Zenon
    <3>3. QED
      BY <2>15, <3>2 DEF ValuesInv
  <2>17. QED
    BY <1>3, <1>5, <1>6, <2>15, <2>16, Zenon DEF DivisionInv, ValuesInv
<1>9. CASE ~(i >= 0)
  <2>1. pc' = "done" /\ rem' = rem /\ i = -1
    BY <1>1, <1>2, <1>9 DEF Unnormalize
  <2>2. /\ LoopValues' /\ EstimateValues' /\ SubtractValues' /\ AddBackValues' /\ RemainderValues'
    BY <2>1 DEF LoopValues, EstimateValues, SubtractValues, AddBackValues, RemainderValues
  <2>3. ASSUME ~misled PROVE Divides'
    <3> DEFINE r == ValueOf(xd, xd_n)
    <3> DEFINE c == ValueOf(quot, M - N + 1)
    <3> DEFINE p == ValueOf(rem, xd_n)
    <3>1. /\ r \in Nat /\ r < Y * scale
          /\ X * scale = r + (Y * scale) * c
          /\ r - ValueOf(xd, i + 1) = (p - ValueOf(rem, i + 1)) * scale + carry * Weight(i + 1)
      BY <1>2, <2>3
    <3>2. i + 1 = 0
      BY <2>1
    <3>3. ValueOf(xd, i + 1) = 0 /\ ValueOf(rem, i + 1) = 0 /\ Weight(i + 1) = 1
      BY <3>2, ValueZero, WeightZero
    <3>4. p \in Nat
      BY <1>7, ValueRange
    <3>5. c \in Int
      <4>1. M - N + 1 \in Nat
        BY <1>2, InvFacts
      <4>2. QED
        BY <1>2, <4>1, Arrays, ValueType
    <3>6. X \in Nat /\ Y \in Nat \ {0} /\ scale \in Nat \ {0}
      BY <1>2, OperandValues
    <3> HIDE DEF r, c, p
    <3>7. c = X \div Y /\ (X % Y) * scale = r
      BY <3>1, <3>5, <3>6, ScaledDivision
    <3> DEFINE d == X % Y
    <3>8. d \in Nat
      BY <3>6
    <3> HIDE DEF d
    <3>9. d * scale = p * scale + carry
      <4>1. r = (p - 0) * scale + carry * 1
        BY <3>1, <3>3
      <4>2. (p - 0) * scale = p * scale /\ carry * 1 = carry
        BY <1>2, <3>4
      <4>3. QED
        BY <3>7, <4>1, <4>2 DEF d
    <3>10. d = p
      <4>1. (d - p) * scale = carry
        <5>1. (d - p) * scale = d * scale - p * scale /\ d * scale \in Int /\ p * scale \in Int
          BY <3>4, <3>6, <3>8
        <5>2. QED
          BY <1>2, <3>9, <5>1
      <4>2. d - p < 1
        <5>1. (d - p) * scale < 1 * scale
          BY <1>2, <4>1
        <5>2. QED
          BY <3>4, <3>6, <3>8, <5>1, Cancel
      <4>3. d - p > -1
        <5>1. (-1) * scale < (d - p) * scale
          <6>1. (-1) * scale = -scale
            BY <3>6
          <6>2. QED
            BY <1>2, <3>6, <4>1, <6>1
        <5>2. QED
          BY <3>4, <3>6, <3>8, <5>1, Cancel
      <4>4. QED
        BY <3>4, <3>8, <4>2, <4>3
    <3>11. /\ ValueOf(quot', M' - N' + 1) = X' \div Y'
           /\ ValueOf(rem', xd_n') = X' % Y'
      BY <1>4, <2>1, <3>7, <3>10 DEF c, d, p
    <3>12. QED
      BY <3>11 DEF Divides
  <2>4. QuotientIsExact'
    <3>1. ~misled' => ~misled
      BY <1>1
    <3>2. QED
      BY <2>3, <3>1, Zenon DEF QuotientIsExact
  <2>5. QED
    BY <1>3, <1>5, <1>6, <2>2, <2>4, Zenon DEF DivisionInv
<1>10. QED
  BY <1>8, <1>9

-----------------------------------------------------------------------------
(* D1. *)
LEMMA ScalingDone ==
  ASSUME KnuthInv', ScalingValues', pc' \in Scaling, misled' = misled
  PROVE  DivisionInv'
<1>1. pc' \in {"scale_x", "scale_y"}
  BY DEF Scaling
<1>2. ~misled'
  BY <1>1 DEF ScalingValues
<1>3. TrialValues'
  BY <1>1, <1>2 DEF TrialValues
<1>4. LoopValues' /\ EstimateValues' /\ SubtractValues' /\ AddBackValues' /\ RemainderValues'
  BY <1>1 DEF LoopValues, EstimateValues, SubtractValues, AddBackValues, RemainderValues
<1>5. QuotientIsExact'
  BY <1>1 DEF QuotientIsExact
<1>6. QED
  BY <1>3, <1>4, <1>5, Zenon DEF DivisionInv

LEMMA ScaleDividendDivides ==
  ASSUME DivisionInv, ScaleDividend
  PROVE  DivisionInv'
<1> USE Constants
<1>1. /\ pc = "scale_x"
      /\ UNCHANGED << operands, yd, quot, rem, j, trial, borrow, misled >>
  BY DEF ScaleDividend
<1>2. KnuthInv /\ ScalingValues
  BY DEF DivisionInv
<1>3. /\ i \in 0 .. M /\ carry \in Nat /\ scale \in Nat /\ M \in Nat /\ rem = << >>
      /\ xd \in [0 .. M -> Digit]
  <2>1. i \in 0 .. M /\ rem = << >>
    BY <1>1, <1>2 DEF KnuthInv
  <2>2. carry \in Nat /\ scale \in Nat /\ M \in Nat
    BY <1>2, InvFacts
  <2>3. xd \in [0 .. M -> Digit]
    BY <1>2, Types
  <2>4. QED
    BY <2>1, <2>2, <2>3
<1>4. /\ ValueOf(xd, i) + carry * Weight(i) = ValueOf(x.digits, i) * scale
      /\ \A k \in i .. M - 1 : xd[k] = x.digits[k]
      /\ borrow = 0 /\ ~misled
  BY <1>1, <1>2 DEF ScalingValues
<1>5. KnuthInv'
  BY <1>2, ScaleDividendPreserves
<1>6. /\ x' = x /\ y' = y /\ scale' = scale /\ M' = M /\ N' = N /\ X' = X
      /\ borrow' = borrow /\ misled' = misled /\ rem' = rem
  BY <1>1, SameOperands
<1>7. ~misled'
  BY <1>4, <1>6
<1> DEFINE e == xd'
<1>8. Integral(xd, M + 1) /\ Integral(x.digits, M) /\ Digital(x.digits, M)
  BY <1>2, Arrays
<1>9. Integral(e, M + 1)
  <2>1. \A k \in 0 .. M' : xd'[k] \in 0 .. RADIX - 1
    <3>1. xd' \in [0 .. M' -> Digit]
      BY <1>5, Zenon DEF KnuthInv, KnuthTypeOK
    <3>2. QED
      BY <3>1 DEF Digit
  <2>2. QED
    BY <1>3, <1>6, <2>1 DEF Integral
<1>10. CASE i < M
  <2> DEFINE t == xd[i] * scale + carry
  <2>1. /\ xd' = [xd EXCEPT ![i] = t % RADIX] /\ carry' = t \div RADIX
        /\ i' = i + 1 /\ pc' = "scale_x"
    BY <1>1, <1>10 DEF ScaleDividend
  <2>2. i \in Nat /\ i \in 0 .. M /\ i \in i .. M - 1 /\ i \in 0 .. M - 1
    BY <1>3, <1>10
  <2>3. xd[i] = x.digits[i] /\ x.digits[i] \in Nat
    BY <1>4, <1>8, <2>2 DEF Digital
  <2>4. e[i] = t % RADIX /\ \A k \in 0 .. M : k # i => e[k] = xd[k]
    BY <1>3, <2>1, <2>2
  <2> HIDE DEF e
  <2>5. /\ Integral(xd, i) /\ Integral(x.digits, i + 1) /\ Integral(e, i + 1)
        /\ \A k \in 0 .. i - 1 : e[k] = xd[k]
    <3>1. Integral(xd, i)
      BY <1>3, <1>8, <2>2 DEF Integral
    <3>2. Integral(x.digits, i + 1)
      BY <1>3, <1>8, <2>2 DEF Integral
    <3>3. Integral(e, i + 1)
      BY <1>3, <1>9, <2>2 DEF Integral
    <3>4. \A k \in 0 .. i - 1 : e[k] = xd[k]
      BY <1>3, <2>2, <2>4
    <3>5. QED
      BY <3>1, <3>2, <3>3, <3>4
  <2>6. e[i] = (x.digits[i] * scale + carry) % RADIX
    BY <2>3, <2>4
  <2>7. ValueOf(e, i + 1) + ((x.digits[i] * scale + carry) \div RADIX) * Weight(i + 1)
          = ValueOf(x.digits, i + 1) * scale
    <3>1. Multiplied(xd, e, x.digits, i, scale, carry, x.digits[i] * scale + carry)
      BY <1>3, <1>4, <2>2, <2>3, <2>5, <2>6, Zenon DEF Multiplied
    <3>2. QED
      BY <3>1, ProductNext
  <2>8. carry' = (x.digits[i] * scale + carry) \div RADIX
    BY <2>1, <2>3
  <2>9. ValueOf(xd', i') + carry' * Weight(i') = ValueOf(x'.digits, i') * scale'
    BY <1>6, <2>1, <2>7, <2>8 DEF e
  <2>10. \A k \in i' .. M' - 1 : xd'[k] = x'.digits[k]
    <3>1. ASSUME NEW k \in i + 1 .. M - 1 PROVE e[k] = x.digits[k]
      <4>1. k \in i .. M - 1 /\ k \in 0 .. M /\ k # i
        BY <1>3, <2>2
      <4>2. QED
        BY <1>4, <2>4, <4>1
    <3>2. QED
      BY <1>6, <2>1, <3>1 DEF e
  <2>11. ScalingValues'
    BY <1>3, <1>4, <1>6, <1>7, <2>1, <2>9, <2>10 DEF ScalingValues
  <2>12. QED
    BY <1>5, <1>6, <2>1, <2>11, ScalingDone DEF Scaling
<1>11. CASE ~(i < M)
  <2>1. /\ xd' = [xd EXCEPT ![M] = carry] /\ carry' = 0 /\ i' = 0 /\ pc' = "scale_y"
    BY <1>11 DEF ScaleDividend
  <2>2. i = M
    BY <1>3, <1>11
  <2>3. e[M] = carry /\ \A k \in 0 .. M - 1 : xd[k] = e[k]
    BY <1>3, <2>1
  <2> HIDE DEF e
  <2>4. ValueOf(e, M + 1) = ValueOf(e, M) + e[M] * Weight(M)
    BY <1>3, <1>9, ValueNext
  <2>5. ValueOf(xd, M) = ValueOf(e, M)
    <3>1. Integral(xd, M)
      BY <1>3, <1>8 DEF Integral
    <3>2. QED
      BY <1>3, <2>3, <3>1, ValueSame
  <2>6. ValueOf(xd, M) + carry * Weight(M) = X * scale
    BY <1>4, <2>2 DEF X
  <2>7. ValueOf(e, M + 1) = X * scale
    BY <2>3, <2>4, <2>5, <2>6
  <2>8. ValueOf(xd', M' + 1) = X' * scale'
    BY <1>6, <2>7 DEF e
  <2>9. ValueOf(yd', i') + carry' * Weight(i') = ValueOf(y'.digits, i') * scale'
    <3>1. ValueOf(yd', i') = 0 /\ ValueOf(y'.digits, i') = 0 /\ Weight(i') = 1
      BY <2>1, ValueZero, WeightZero
    <3>2. 0 + 0 * 1 = 0 * scale
      BY <1>3
    <3>3. QED
      BY <1>6, <2>1, <3>1, <3>2
  <2>10. ScalingValues'
    BY <1>3, <1>4, <1>6, <1>7, <2>1, <2>8, <2>9 DEF ScalingValues
  <2>11. QED
    BY <1>5, <1>6, <2>1, <2>10, ScalingDone DEF Scaling
<1>12. QED
  BY <1>10, <1>11

(* The scaled dividend has at most the digits the first digit is found from. *)
LEMMA ScaledIsBelow ==
  ASSUME KnuthInv
  PROVE  X * scale < RADIX * ((Y * scale) * Weight(M - N))
<1>1. M \in Nat /\ N \in Nat /\ N >= 2 /\ N =< M /\ scale \in Nat /\ scale # 0
  BY InvFacts, Constants
<1>2. X \in Nat /\ X < Weight(M) /\ Y \in Nat /\ Weight(N - 1) =< Y
  BY OperandValues
<1> DEFINE u == Weight(M - N)
<1> DEFINE w == Weight(N - 1)
<1>3. /\ Weight(M) = Weight(N) * u /\ u \in Nat /\ u # 0
      /\ Weight(N) = RADIX * w /\ w \in Nat /\ RADIX \in Nat
  <2>1. Weight(M) = Weight(N) * Weight(M - N)
    BY <1>1, WeightSplit
  <2>2. M - N \in Nat /\ N - 1 \in Nat /\ N > 0
    BY <1>1
  <2>3. u \in Nat /\ u # 0 /\ w \in Nat
    BY <2>2, WeightFacts
  <2>4. Weight(N) = RADIX * w
    BY <1>1, <2>2, WeightFacts
  <2>5. QED
    BY <2>1, <2>3, <2>4, Constants
<1> DEFINE p == X
<1> DEFINE q == Y
<1> DEFINE s == scale
<1>4. /\ p \in Nat /\ q \in Nat /\ s \in Nat /\ s # 0 /\ w =< q
      /\ p < (RADIX * w) * u
  BY <1>1, <1>2, <1>3
<1> HIDE DEF p, q, s, u, w
<1>5. (RADIX * w) * u =< (RADIX * q) * u
  <2>1. w * (RADIX * u) =< q * (RADIX * u) /\ RADIX * u \in Nat
    <3>1. RADIX * u \in Nat
      BY <1>3
    <3>2. QED
      BY <1>3, <1>4, <3>1, Grows
  <2>2. w * (RADIX * u) = (RADIX * w) * u /\ q * (RADIX * u) = (RADIX * q) * u
    BY <1>3, <1>4
  <2>3. QED
    BY <2>1, <2>2
<1>6. (RADIX * w) * u \in Int /\ (RADIX * q) * u \in Int
  BY <1>3, <1>4
<1> DEFINE t == (RADIX * q) * u
<1>7. p < t /\ t \in Int
  BY <1>4, <1>5, <1>6
<1>8. t * s = RADIX * ((q * s) * u)
  BY <1>3, <1>4
<1> HIDE DEF t
<1>9. p * s < t * s
  <2>1. (t - p) * s >= 1 * s
    <3>1. t - p \in Int /\ 1 =< t - p
      BY <1>4, <1>7
    <3>2. QED
      BY <1>4, <3>1, Grows
  <2>2. (t - p) * s = t * s - p * s /\ t * s \in Int /\ p * s \in Int /\ 1 * s = s
    BY <1>4, <1>7
  <2>3. QED
    BY <1>4, <2>1, <2>2
<1>10. p * s < RADIX * ((q * s) * u)
  BY <1>8, <1>9
<1>11. QED
  BY <1>10 DEF p, q, s, u

LEMMA ScaleDivisorDivides ==
  ASSUME DivisionInv, ScaleDivisor
  PROVE  DivisionInv'
<1> USE Constants
<1>1. /\ pc = "scale_y"
      /\ UNCHANGED << operands, xd, xd_n, quot, rem, trial, borrow, misled >>
  BY DEF ScaleDivisor
<1>2. KnuthInv /\ ScalingValues
  BY DEF DivisionInv
<1>3. /\ i \in 0 .. N /\ carry \in Nat /\ scale \in Nat /\ N \in Nat /\ M \in Nat /\ N =< M
      /\ yd \in [0 .. N -> Digit] /\ \A k \in i .. N - 1 : yd[k] = y.digits[k]
  <2>1. i \in 0 .. N /\ \A k \in i .. N - 1 : yd[k] = y.digits[k]
    BY <1>1, <1>2 DEF KnuthInv
  <2>2. carry \in Nat /\ scale \in Nat /\ N \in Nat /\ M \in Nat /\ N =< M
    BY <1>2, InvFacts
  <2>3. yd \in [0 .. N -> Digit]
    BY <1>2, Types
  <2>4. QED
    BY <2>1, <2>2, <2>3, Zenon
<1>4. /\ ValueOf(xd, M + 1) = X * scale
      /\ ValueOf(yd, i) + carry * Weight(i) = ValueOf(y.digits, i) * scale
      /\ borrow = 0 /\ ~misled /\ rem = << >>
  BY <1>1, <1>2 DEF ScalingValues
<1>5. KnuthInv'
  BY <1>2, ScaleDivisorPreserves
<1>6. /\ x' = x /\ y' = y /\ scale' = scale /\ M' = M /\ N' = N /\ X' = X /\ Y' = Y
      /\ borrow' = borrow /\ misled' = misled /\ rem' = rem /\ xd' = xd /\ quot' = quot
  BY <1>1, SameOperands
<1>7. ~misled'
  BY <1>4, <1>6
<1>8. Integral(yd, N + 1) /\ Integral(y.digits, N) /\ Digital(y.digits, N)
  BY <1>2, Arrays
<1> DEFINE e == yd'
<1>9. Integral(e, N + 1)
  <2>1. \A k \in 0 .. N' : yd'[k] \in 0 .. RADIX - 1
    <3>1. yd' \in [0 .. N' -> Digit]
      BY <1>5, Zenon DEF KnuthInv, KnuthTypeOK
    <3>2. QED
      BY <3>1 DEF Digit
  <2>2. QED
    BY <1>3, <1>6, <2>1 DEF Integral
<1>10. CASE i < N
  <2> DEFINE t == yd[i] * scale + carry
  <2>1. /\ yd' = [yd EXCEPT ![i] = t % RADIX] /\ carry' = t \div RADIX
        /\ i' = i + 1 /\ pc' = "scale_y"
    BY <1>1, <1>10 DEF ScaleDivisor
  <2>2. i \in Nat /\ i \in 0 .. N /\ i \in i .. N - 1 /\ i \in 0 .. N - 1
    BY <1>3, <1>10
  <2>3. yd[i] = y.digits[i] /\ y.digits[i] \in Nat
    BY <1>3, <1>8, <2>2 DEF Digital
  <2>4. e[i] = t % RADIX /\ \A k \in 0 .. N : k # i => e[k] = yd[k]
    BY <1>3, <2>1, <2>2
  <2> HIDE DEF e
  <2>5. /\ Integral(yd, i) /\ Integral(y.digits, i + 1) /\ Integral(e, i + 1)
        /\ \A k \in 0 .. i - 1 : e[k] = yd[k]
    <3>1. Integral(yd, i)
      BY <1>3, <1>8, <2>2 DEF Integral
    <3>2. Integral(y.digits, i + 1)
      BY <1>3, <1>8, <2>2 DEF Integral
    <3>3. Integral(e, i + 1)
      BY <1>3, <1>9, <2>2 DEF Integral
    <3>4. \A k \in 0 .. i - 1 : e[k] = yd[k]
      BY <1>3, <2>2, <2>4
    <3>5. QED
      BY <3>1, <3>2, <3>3, <3>4
  <2>6. e[i] = (y.digits[i] * scale + carry) % RADIX
    BY <2>3, <2>4
  <2>7. ValueOf(e, i + 1) + ((y.digits[i] * scale + carry) \div RADIX) * Weight(i + 1)
          = ValueOf(y.digits, i + 1) * scale
    <3>1. Multiplied(yd, e, y.digits, i, scale, carry, y.digits[i] * scale + carry)
      BY <1>3, <1>4, <2>2, <2>3, <2>5, <2>6, Zenon DEF Multiplied
    <3>2. QED
      BY <3>1, ProductNext
  <2>8. carry' = (y.digits[i] * scale + carry) \div RADIX
    BY <2>1, <2>3
  <2>9. ValueOf(yd', i') + carry' * Weight(i') = ValueOf(y'.digits, i') * scale'
    BY <1>6, <2>1, <2>7, <2>8 DEF e
  <2>10. ValueOf(xd', M' + 1) = X' * scale'
    BY <1>4, <1>6
  <2>11. ScalingValues'
    BY <1>4, <1>6, <1>7, <2>1, <2>9, <2>10 DEF ScalingValues
  <2>12. QED
    BY <1>5, <1>6, <2>1, <2>11, ScalingDone DEF Scaling
<1>11. CASE ~(i < N)
  <2>1. /\ yd' = [yd EXCEPT ![N] = carry] /\ carry' = 0 /\ i' = 0 /\ j' = M - N
        /\ pc' = "estimate"
    BY <1>11 DEF ScaleDivisor
  <2>2. i = N
    BY <1>3, <1>11
  <2>3. e[N] = carry /\ \A k \in 0 .. N - 1 : yd[k] = e[k]
    BY <1>3, <2>1
  <2> HIDE DEF e
  <2>4. ValueOf(e, N + 1) = ValueOf(e, N) + e[N] * Weight(N)
    BY <1>3, <1>9, ValueNext
  <2>5. ValueOf(yd, N) = ValueOf(e, N)
    <3>1. Integral(yd, N)
      BY <1>3, <1>8 DEF Integral
    <3>2. QED
      BY <1>3, <2>3, <3>1, ValueSame
  <2>6. ValueOf(yd, N) + carry * Weight(N) = Y * scale
    BY <1>4, <2>2 DEF Y
  <2>7. ValueOf(e, N + 1) = Y * scale
    BY <2>3, <2>4, <2>5, <2>6
  <2>8. ScaledDivisor' = Y' * scale'
    BY <1>6, <2>7 DEF e, ScaledDivisor
  <2>9. ScalingValues'
    BY <1>4, <1>6, <2>1, <2>8 DEF ScalingValues
  <2>10. TrialValues'
    BY <1>4, <1>6, <1>7, <2>1 DEF TrialValues
  <2>11. Known' = 0
    <3> DEFINE c == ValueOf(quot, M - N + 1)
    <3>1. c \in Int
      <4>1. M - N + 1 \in Nat
        BY <1>3
      <4>2. QED
        BY <1>2, <4>1, Arrays, ValueType
    <3>2. Known' = c - c
      BY <1>6, <2>1 DEF Known
    <3> HIDE DEF c
    <3>3. QED
      BY <3>1, <3>2
  <2>12. /\ X * scale \in Nat /\ Y * scale \in Nat
    BY <1>2, NumberFacts
  <2>13. Rest' = X * scale /\ Unit' = (Y * scale) * Weight(M - N)
    <3>1. Rest' = X' * scale' - (Y' * scale') * Known'
      BY DEF Rest
    <3>2. Unit' = (Y' * scale') * Weight(j')
      BY DEF Unit
    <3>3. (Y * scale) * 0 = 0 /\ X * scale - 0 = X * scale
      BY <2>12
    <3>4. QED
      BY <1>6, <2>1, <2>11, <3>1, <3>2, <3>3
  <2>14. LoopValues'
    <3>1. Rest' \in Nat /\ Rest' < RADIX * Unit'
      BY <1>2, <2>12, <2>13, ScaledIsBelow
    <3>2. \A k \in j' + N' + 1 .. M' : xd'[k] = 0
      <4>1. j' + N' + 1 = M + 1 /\ M' = M
        BY <1>3, <1>6, <2>1
      <4>2. M + 1 .. M = {}
        BY <1>3
      <4>3. QED
        BY <4>1, <4>2
    <3>3. QED
      BY <3>1, <3>2 DEF LoopValues
  <2>15. EstimateValues'
    <3>1. j' + N' + 1 = M + 1
      BY <1>3, <1>6, <2>1
    <3>2. Part' = Rest'
      BY <1>4, <1>6, <2>13, <3>1 DEF Part
    <3>3. QED
      BY <2>1, <3>2 DEF EstimateValues
  <2>16. SubtractValues' /\ AddBackValues' /\ RemainderValues' /\ QuotientIsExact'
    BY <2>1 DEF SubtractValues, AddBackValues, RemainderValues, QuotientIsExact
  <2>17. QED
    BY <1>5, <2>9, <2>10, <2>14, <2>15, <2>16, Zenon DEF DivisionInv
<1>12. QED
  BY <1>10, <1>11

-----------------------------------------------------------------------------
(* A call has scaled nothing yet. *)
LEMMA CallDivides ==
  ASSUME NEW a, NEW b, Proper(a), Proper(b), Call(a, b)
  PROVE  DivisionInv
<1> USE Constants
<1>1. KnuthInv
  BY CallInv
<1>2. /\ pc = "scale_x" /\ x = a /\ xd = digits_copy(a, 0, 1).digits /\ M = a.n_signif
      /\ i = 0 /\ carry = 0 /\ borrow = 0 /\ rem = << >> /\ misled = FALSE
  BY DEF Call, M
<1>3. \A k \in i .. M - 1 : xd[k] = x.digits[k]
  <2>1. \A k \in 0 .. M - 1 : xd[k + 0] = a.digits[k]
    BY <1>2, CopyIsProper
  <2>2. \A k \in 0 .. M - 1 : k + 0 = k
    BY <1>1, InvFacts
  <2>3. QED
    BY <1>2, <2>1, <2>2
<1>4. ValueOf(xd, i) + carry * Weight(i) = ValueOf(x.digits, i) * scale
  <2>1. ValueOf(xd, i) = 0 /\ ValueOf(x.digits, i) = 0 /\ Weight(i) = 1
    BY <1>2, ValueZero, WeightZero
  <2>2. scale \in Nat
    BY <1>1, InvFacts
  <2>3. 0 + 0 * 1 = 0 * scale
    BY <2>2
  <2>4. QED
    BY <1>2, <2>1, <2>3
<1>5. ~misled
  BY <1>2
<1>6. ScalingValues
  BY <1>2, <1>3, <1>4, <1>5 DEF ScalingValues
<1>7. TrialValues
  BY <1>2, <1>5 DEF TrialValues
<1>8. LoopValues /\ EstimateValues /\ SubtractValues /\ AddBackValues /\ RemainderValues
  BY <1>2 DEF LoopValues, EstimateValues, SubtractValues, AddBackValues, RemainderValues
<1>9. QuotientIsExact
  BY <1>2 DEF QuotientIsExact
<1>10. QED
  BY <1>1, <1>6, <1>7, <1>8, <1>9, Zenon DEF DivisionInv

LEMMA InitDivides == Init => DivisionInv
<1>1. MaxDividend \in Int /\ MaxDivisor \in Int /\ MaxDividend - 1 \in Int /\ MaxDivisor - 1 \in Int
  BY DivisionLengths
<1>2. ASSUME NEW a \in Operands(MaxDividend), NEW b \in Operands(MaxDivisor), Call(a, b)
      PROVE  DivisionInv
  BY <1>1, <1>2, OperandsAreProper, CallDivides
<1>3. ASSUME NEW a \in Operands(MaxDividend - 1), NEW b \in Operands(MaxDivisor),
             Call(digits_copy(a, 1, 0), b)
      PROVE  DivisionInv
  BY <1>1, <1>3, OperandsAreProper, ShiftedIsProper, CallDivides
<1>4. ASSUME NEW a \in Operands(MaxDividend), NEW b \in Operands(MaxDivisor - 1),
             Call(a, digits_copy(b, 1, 0))
      PROVE  DivisionInv
  BY <1>1, <1>4, OperandsAreProper, ShiftedIsProper, CallDivides
<1>5. QED
  BY <1>2, <1>3, <1>4 DEF Init

LEMMA StutterDivides ==
  ASSUME DivisionInv, UNCHANGED vars
  PROVE  DivisionInv'
<1>1. /\ UNCHANGED operands /\ xd' = xd /\ yd' = yd /\ xd_n' = xd_n
      /\ quot' = quot /\ rem' = rem /\ i' = i /\ j' = j /\ qhat' = qhat /\ rhat' = rhat
      /\ carry' = carry /\ borrow' = borrow /\ misled' = misled /\ pc' = pc
  BY DEF vars, trial
<1>2. /\ x' = x /\ y' = y /\ scale' = scale /\ M' = M /\ N' = N /\ X' = X /\ Y' = Y
      /\ ScaledDivisor' = ScaledDivisor /\ Rest' = Rest /\ Unit' = Unit /\ Part' = Part
  BY <1>1, SameOperands, SameDivisor, SameRest, SamePart
<1>3. KnuthInv'
  <2>1. KnuthInv
    BY DEF DivisionInv
  <2>2. QED
    BY <2>1, NextInv
<1>4. ScalingValues'
  <2>1. ScalingValues
    BY DEF DivisionInv
  <2>2. QED
    BY <1>1, <1>2, <2>1 DEF ScalingValues
<1>5. TrialValues'
  <2>1. TrialValues
    BY DEF DivisionInv
  <2>2. QED
    BY <1>1, <1>2, <2>1, Zenon DEF TrialValues
<1>6. QuotientIsExact'
  <2>1. QuotientIsExact
    BY DEF DivisionInv
  <2>2. QED
    BY <1>1, <1>2, <2>1, Zenon DEF QuotientIsExact, Divides
<1>7. ASSUME ~misled
      PROVE  LoopValues' /\ EstimateValues' /\ SubtractValues' /\ AddBackValues' /\ RemainderValues'
  <2>1. LoopValues /\ EstimateValues /\ SubtractValues /\ AddBackValues /\ RemainderValues
    BY <1>7, Zenon DEF DivisionInv
  <2>2. LoopValues'
    BY <1>1, <1>2, <2>1, Zenon DEF LoopValues
  <2>3. EstimateValues'
    BY <1>1, <1>2, <2>1, Zenon DEF EstimateValues
  <2>4. SubtractValues'
    BY <1>1, <1>2, <2>1, Zenon DEF SubtractValues
  <2>5. AddBackValues'
    BY <1>1, <1>2, <2>1, Zenon DEF AddBackValues
  <2>6. RemainderValues'
    BY <1>1, <1>2, <2>1, Zenon DEF RemainderValues
  <2>7. QED
    BY <2>2, <2>3, <2>4, <2>5, <2>6
<1>8. ~misled' => ~misled
  BY <1>1
<1>9. QED
  BY <1>3, <1>4, <1>5, <1>6, <1>7, <1>8, Zenon DEF DivisionInv

LEMMA NextDivides == DivisionInv /\ [Next]_vars => DivisionInv'
<1>1. SUFFICES ASSUME DivisionInv, [Next]_vars PROVE DivisionInv'
  OBVIOUS
<1>2. CASE ScaleDividend \/ ScaleDivisor
  BY <1>1, <1>2, ScaleDividendDivides, ScaleDivisorDivides
<1>3. CASE Estimate \/ Correct \/ Accept
  BY <1>1, <1>3, EstimateDivides, CorrectDivides, AcceptDivides
<1>4. CASE MultiplySubtract \/ KeepTrialDigit \/ DecrementTrialDigit
  BY <1>1, <1>4, MultiplySubtractDivides, KeepTrialDigitDivides, DecrementTrialDigitDivides
<1>5. CASE AddBack \/ AddedBack \/ Unnormalize
  BY <1>1, <1>5, AddBackDivides, AddedBackDivides, UnnormalizeDivides
<1>6. CASE Returned \/ UNCHANGED vars
  BY <1>1, <1>6, StutterDivides DEF Returned
<1>7. QED
  BY <1>1, <1>2, <1>3, <1>4, <1>5, <1>6 DEF Next

-----------------------------------------------------------------------------
(***************************************************************************)
(* In every state of a call that has not been misled, the digits found so  *)
(* far and what is left of the dividend make up the scaled dividend.       *)
(***************************************************************************)
THEOREM DivisionInvariant == Spec => []DivisionInv
BY InitDivides, NextDivides, PTL DEF Spec

LEMMA TrialDigitIsClose ==
  ASSUME DivisionInv
  PROVE  EstimateIsClose
<1>1. pc = "correct" => qhat < U64
  BY DEF DivisionInv, TrialValues
<1>2. ASSUME pc = "subtract", i = 0, ~misled
      PROVE  qhat - (Slice \div ScaledDivisor) \in 0 .. 1
  <2>1. KnuthInv /\ ScaledDivisor = Y * scale
    BY <1>2, LoopFacts DEF Dividing
  <2>2. SubtractValues
    BY <1>2, Zenon DEF DivisionInv
  <2>3. /\ (qhat - 1) * Unit =< Rest /\ Rest < (qhat + 1) * Unit
        /\ borrow = 0
        /\ Part + Weight(j) * (qhat * ValueOf(yd, i))
             = Rest + Weight(j) * ((carry + borrow) * Weight(i))
        /\ carry * Weight(i) =< qhat * ValueOf(yd, i)
    BY <1>2, <2>2 DEF SubtractValues
  <2>4. /\ Part \in Nat /\ Rest \in Int /\ Weight(j) \in Nat
        /\ qhat \in Nat /\ carry \in Nat /\ N \in Nat
    BY <2>1, NumberFacts, InvFacts
  <2>5. ValueOf(yd, i) = 0 /\ Weight(i) = 1
    BY <1>2, ValueZero, WeightZero
  <2>6. Part = Rest
    <3> DEFINE p == Part
    <3> DEFINE r == Rest
    <3> DEFINE w == Weight(j)
    <3>1. p + w * (qhat * 0) = r + w * ((carry + 0) * 1) /\ carry * 1 =< qhat * 0
      BY <2>3, <2>5
    <3>2. p \in Int /\ r \in Int /\ w \in Int /\ qhat \in Int /\ carry \in Nat
      BY <2>4
    <3> HIDE DEF p, r, w
    <3>3. carry = 0
      BY <3>1, <3>2
    <3>4. p = r
      BY <3>1, <3>2, <3>3
    <3>5. QED
      BY <3>4 DEF p, r
  <2>7. (qhat - 1) * ScaledDivisor =< Top /\ Top < (qhat + 1) * ScaledDivisor
    <3>1. qhat - 1 \in Int /\ qhat + 1 \in Int
      BY <2>4
    <3>2. (qhat - 1) * Unit =< Part <=> (qhat - 1) * ScaledDivisor =< Top
      BY <2>1, <3>1, PartInUnits
    <3>3. Part < (qhat + 1) * Unit <=> Top < (qhat + 1) * ScaledDivisor
      BY <2>1, <3>1, PartInUnits
    <3>4. QED
      BY <2>3, <2>6, <3>2, <3>3
  <2>8. Slice = Top
    <3> DEFINE s == [k \in 0 .. N |-> xd[j + k]]
    <3>1. N + 1 \in Nat /\ Digital(From(xd, j), N + 1)
      BY <2>1, <2>4, TopDigits
    <3>2. Integral(From(xd, j), N + 1)
      BY <3>1, Constants DEF Digital, Integral
    <3>3. \A k \in 0 .. (N + 1) - 1 : From(xd, j)[k] = s[k]
      BY <2>4 DEF From
    <3> HIDE DEF s
    <3>4. ValueOf(From(xd, j), N + 1) = ValueOf(s, N + 1)
      BY <3>1, <3>2, <3>3, ValueSame
    <3>5. QED
      BY <3>4 DEF Slice, Top, s
  <2> DEFINE v == ScaledDivisor
  <2> DEFINE u == Top
  <2> DEFINE d == u \div v
  <2>9. /\ v \in Nat /\ v # 0 /\ u \in Nat
        /\ (qhat - 1) * v =< u /\ u < (qhat + 1) * v
    BY <2>1, <2>7, NumberFacts, TopDigits
  <2>10. d \in Nat /\ d * v =< u /\ u < (d + 1) * v
    <3> HIDE DEF v, u
    <3>1. d \in Nat /\ v * d =< u /\ u < v * d + v
      BY <2>9
    <3> HIDE DEF d
    <3>2. d * v = v * d /\ (d + 1) * v = v * d + v
      BY <2>9, <3>1
    <3>3. QED
      BY <3>1, <3>2
  <2> HIDE DEF v, u, d
  <2>11. /\ (qhat - 1) * v \in Int /\ (qhat + 1) * v \in Int
         /\ d * v \in Int /\ (d + 1) * v \in Int
    BY <2>4, <2>9, <2>10
  <2>12. qhat - 1 < d + 1
    <3>1. (qhat - 1) * v < (d + 1) * v
      BY <2>9, <2>10, <2>11
    <3>2. QED
      BY <2>4, <2>9, <2>10, <3>1, Cancel
  <2>13. d < qhat + 1
    <3>1. d * v < (qhat + 1) * v
      BY <2>9, <2>10, <2>11
    <3>2. QED
      BY <2>4, <2>9, <2>10, <3>1, Cancel
  <2>14. qhat - d \in 0 .. 1
    BY <2>4, <2>10, <2>12, <2>13
  <2>15. QED
    BY <2>8, <2>14 DEF d, u, v
<1>3. QED
  BY <1>1, <1>2 DEF EstimateIsClose

(***************************************************************************)
(* The trial digit of D3 fits a word (the assertion on U128_HI(t1)), and   *)
(* what digits_divmod subtracts with it is at most one divisor too much,   *)
(* unless the remainder of a trial digit has wrapped.                      *)
(***************************************************************************)
THEOREM CloseEstimate == Spec => []EstimateIsClose
<1>1. DivisionInv => EstimateIsClose
  BY TrialDigitIsClose
<1>2. QED
  BY <1>1, DivisionInvariant, PTL

(***************************************************************************)
(* digits_divmod returns the quotient rounded down, and the remainder if   *)
(* its caller wants it, unless the remainder of a trial digit has wrapped. *)
(***************************************************************************)
THEOREM ExactQuotient == Spec => []QuotientIsExact
<1>1. DivisionInv => QuotientIsExact
  BY DEF DivisionInv
<1>2. QED
  BY <1>1, DivisionInvariant, PTL

=============================================================================
