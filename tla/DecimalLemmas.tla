---------------------------- MODULE DecimalLemmas ----------------------------
(***************************************************************************)
(* What the operators of FpdecOps make of well-formed numbers: digits and  *)
(* logarithms count them, trailing zeros are found, canonical numbers add  *)
(* and multiply like the numbers they stand for.                           *)
(***************************************************************************)
EXTENDS DecimalNumbers, DigitLemmas

-----------------------------------------------------------------------------
(* Powers are unbounded and ordered like their exponents. *)
LEMMA PowerExceeds ==
  ASSUME NEW b \in Nat, b >= 2
  PROVE  \A n \in Nat : n < Power(b, n)
<1> DEFINE S == {n \in Nat : n < Power(b, n)}
<1>1. 0 \in S
  BY PowerZero
<1>2. ASSUME NEW n \in Nat, n \in S PROVE n + 1 \in S
  <2>1. n < Power(b, n) /\ Power(b, n) \in Nat /\ Power(b, n + 1) = b * Power(b, n)
    <3>1. b \in Nat \ {0} /\ n < Power(b, n)
      BY <1>2
    <3>2. QED
      BY <3>1, PowerType, PowerNext
  <2>2. ASSUME NEW p \in Nat, n < p PROVE n + 1 < b * p
    <3>1. 2 * p =< b * p
      OBVIOUS
    <3>2. QED
      BY <2>2, <3>1
  <2>3. QED
    BY <2>1, <2>2
<1> HIDE DEF S
<1>3. \A n \in Nat : n \in S
  BY <1>1, <1>2, SetInduction
<1>4. QED
  BY <1>3 DEF S

LEMMA PowerOrder ==
  ASSUME NEW b \in Nat, b >= 2, NEW m \in Nat, NEW n \in Nat
  PROVE  /\ m =< n => Power(b, m) =< Power(b, n)
         /\ m < n => Power(b, m) < Power(b, n)
<1>1. m =< n => Power(b, m) =< Power(b, n)
  BY PowerDivides
<1>2. ASSUME m < n PROVE Power(b, m) < Power(b, n)
  <2>1. m + 1 \in Nat /\ m + 1 =< n
    BY <1>2
  <2>2. Power(b, m + 1) =< Power(b, n)
    BY <2>1, PowerDivides
  <2>3. Power(b, m + 1) = b * Power(b, m) /\ Power(b, m) \in Nat \ {0}
    BY PowerNext, PowerType
  <2>4. ASSUME NEW p \in Nat \ {0} PROVE p < b * p
    <3>1. 2 * p =< b * p
      OBVIOUS
    <3>2. QED
      BY <3>1
  <2>5. Power(b, m) < Power(b, m + 1)
    BY <2>3, <2>4
  <2>6. Power(b, n) \in Nat
    BY PowerType
  <2>7. QED
    BY <2>2, <2>3, <2>5, <2>6
<1>3. QED
  BY <1>1, <1>2

-----------------------------------------------------------------------------
(* v has n digits in base b. *)
Counts(b, v, n) ==
  /\ n \in Nat
  /\ v = 0 => n = 0
  /\ v # 0 => n > 0 /\ Power(b, n - 1) =< v /\ v < Power(b, n)

(* Every number has exactly one count of digits. *)
LEMMA CountExists ==
  ASSUME NEW b \in Nat, b >= 2, NEW v \in Nat
  PROVE  \E n \in Nat : Counts(b, v, n)
<1>1. CASE v = 0
  BY <1>1 DEF Counts
<1>2. CASE v # 0
  <2> DEFINE S == {n \in Nat : v < Power(b, n)}
  <2>1. v \in S
    BY PowerExceeds
  <2>2. PICK n \in S : \A m \in S : n =< m
    BY <2>1, LeastNatural
  <2>3. n \in Nat /\ v < Power(b, n)
    OBVIOUS
  <2>4. n # 0
    <3>1. Power(b, 0) = 1
      BY PowerZero
    <3>2. QED
      BY <1>2, <2>3, <3>1
  <2>5. n - 1 \in Nat /\ n - 1 \notin S
    BY <2>2, <2>3, <2>4
  <2>6. Power(b, n - 1) =< v
    <3>1. Power(b, n - 1) \in Nat
      BY <2>5, PowerType
    <3>2. QED
      BY <2>5, <3>1
  <2>7. QED
    BY <1>2, <2>3, <2>4, <2>6 DEF Counts
<1>3. QED
  BY <1>1, <1>2

LEMMA CountUnique ==
  ASSUME NEW b \in Nat, b >= 2, NEW v \in Nat, NEW m, NEW n, Counts(b, v, m), Counts(b, v, n)
  PROVE  m = n
<1>1. CASE v = 0
  BY <1>1 DEF Counts
<1>2. CASE v # 0
  <2>1. /\ m \in Nat /\ m > 0 /\ Power(b, m - 1) =< v /\ v < Power(b, m)
        /\ n \in Nat /\ n > 0 /\ Power(b, n - 1) =< v /\ v < Power(b, n)
    BY <1>2 DEF Counts
  <2>2. m - 1 \in Nat /\ n - 1 \in Nat
    BY <2>1
  <2>3. /\ Power(b, m) \in Nat /\ Power(b, m - 1) \in Nat
        /\ Power(b, n) \in Nat /\ Power(b, n - 1) \in Nat
    <3>1. b \in Nat \ {0}
      OBVIOUS
    <3>2. QED
      BY <2>1, <2>2, <3>1, PowerType
  <2>4. ~ (m =< n - 1)
    <3>1. m =< n - 1 => Power(b, m) =< Power(b, n - 1)
      BY <2>1, <2>2, PowerOrder
    <3>2. QED
      BY <2>1, <2>3, <3>1
  <2>5. ~ (n =< m - 1)
    <3>1. n =< m - 1 => Power(b, n) =< Power(b, m - 1)
      BY <2>1, <2>2, PowerOrder
    <3>2. QED
      BY <2>1, <2>3, <3>1
  <2>6. QED
    BY <2>1, <2>4, <2>5
<1>3. QED
  BY <1>1, <1>2

(* One digit more than the number without its last digit. *)
LEMMA CountNext ==
  ASSUME NEW b \in Nat, b >= 2, NEW v \in Nat \ {0}, NEW n, Counts(b, v \div b, n)
  PROVE  Counts(b, v, n + 1)
<1> DEFINE q == v \div b
<1>1. q \in Nat /\ q * b =< v /\ v < (q + 1) * b
  BY Z3
<1>2. n \in Nat
  BY DEF Counts
<1>3. Power(b, n + 1) = b * Power(b, n) /\ Power(b, n) \in Nat \ {0}
  BY <1>2, PowerNext, PowerType
<1> HIDE DEF q
<1>4. Power(b, n) =< v /\ v < Power(b, n + 1)
  <2>1. CASE q = 0
    <3>1. n = 0
      BY <2>1 DEF Counts, q
    <3>2. Power(b, 0) = 1
      BY PowerZero
    <3>3. v < b
      BY <1>1, <2>1
    <3>4. QED
      BY <1>3, <3>1, <3>2, <3>3
  <2>2. CASE q # 0
    <3>1. n > 0 /\ Power(b, n - 1) =< q /\ q < Power(b, n)
      BY <2>2 DEF Counts, q
    <3>2. n - 1 \in Nat /\ (n - 1) + 1 = n
      BY <1>2, <3>1
    <3>3. Power(b, n) = b * Power(b, n - 1) /\ Power(b, n - 1) \in Nat \ {0}
      BY <3>2, PowerNext, PowerType
    <3>4. ASSUME NEW p \in Nat, NEW r \in Nat, p =< q, q < r PROVE b * p =< v /\ v < b * r
      <4>1. b * p =< b * q /\ b * (q + 1) =< b * r
        BY <1>1, <3>4
      <4>2. QED
        BY <1>1, <4>1
    <3>5. QED
      BY <1>3, <3>1, <3>3, <3>4
  <2>3. QED
    BY <2>1, <2>2
<1>5. QED
  BY <1>2, <1>4 DEF Counts

(* Division by the base makes numbers smaller. *)
LEMMA QuotientSmaller ==
  ASSUME NEW b \in Nat, b >= 2, NEW v \in Nat \ {0}
  PROVE  v \div b \in Nat /\ v \div b < v
<1>1. v \div b \in Nat /\ b * (v \div b) =< v
  BY Z3
<1>2. ASSUME NEW q \in Nat, b * q =< v PROVE q < v
  <2>1. 2 * q =< b * q
    OBVIOUS
  <2>2. QED
    BY <1>2, <2>1
<1>3. QED
  BY <1>1, <1>2

(* Induction along v \div b. *)
LEMMA QuotientInduction ==
  ASSUME NEW b \in Nat, b >= 2, NEW S, 0 \in S,
         \A v \in Nat \ {0} : v \div b \in S => v \in S
  PROVE  \A v \in Nat : v \in S
<1> SUFFICES ASSUME NEW k \in Nat, k \notin S PROVE FALSE
  OBVIOUS
<1>1. PICK v \in Nat \ S : \A m \in Nat \ S : v =< m
  BY LeastNatural
<1>2. v \in Nat \ {0}
  BY <1>1
<1>3. v \div b \in Nat /\ v \div b < v
  BY <1>2, QuotientSmaller
<1>4. v \div b \in S
  <2>1. ASSUME NEW q \in Nat, q < v PROVE q \in S
    BY <1>1, <2>1
  <2>2. QED
    BY <1>3, <2>1
<1>5. QED
  BY <1>1, <1>2, <1>4

(* DigitCount counts the digits in base RADIX. *)
LEMMA DigitCountFacts ==
  \A v \in Nat : Counts(RADIX, v, DigitCount[v])
<1> DEFINE g == [v \in Nat |-> CHOOSE n \in Nat : Counts(RADIX, v, n)]
<1>0. RADIX \in Nat /\ RADIX >= 2
  BY Constants
<1>1. \A v \in Nat : Counts(RADIX, v, g[v])
  BY <1>0, CountExists
<1> DEFINE rec(f) == f = [v \in Nat |-> IF v = 0 THEN 0 ELSE 1 + f[v \div RADIX]]
<1>2. rec(g)
  <2>1. ASSUME NEW v \in Nat PROVE g[v] = IF v = 0 THEN 0 ELSE 1 + g[v \div RADIX]
    <3>1. CASE v = 0
      <4>1. Counts(RADIX, v, g[v])
        BY <1>1
      <4> HIDE DEF g
      <4>2. QED
        BY <3>1, <4>1 DEF Counts
    <3>2. CASE v # 0
      <4>1. v \div RADIX \in Nat
        BY <1>0, <3>2, QuotientSmaller
      <4>2. Counts(RADIX, v, g[v]) /\ Counts(RADIX, v \div RADIX, g[v \div RADIX])
        BY <1>1, <4>1
      <4> HIDE DEF g
      <4>3. Counts(RADIX, v, g[v \div RADIX] + 1)
        BY <1>0, <3>2, <4>2, CountNext
      <4>4. g[v] = g[v \div RADIX] + 1 /\ g[v \div RADIX] \in Nat
        <5>1. g[v] = g[v \div RADIX] + 1
          BY <1>0, <4>2, <4>3, CountUnique
        <5>2. QED
          BY <4>2, <5>1 DEF Counts
      <4>5. QED
        BY <3>2, <4>4
    <3>3. QED
      BY <3>1, <3>2
  <2>2. g = [v \in Nat |-> g[v]]
    OBVIOUS
  <2> HIDE DEF g
  <2>3. g = [v \in Nat |-> IF v = 0 THEN 0 ELSE 1 + g[v \div RADIX]]
    BY <2>1, <2>2, Zenon
  <2>4. QED
    BY <2>3
<1>3. rec(DigitCount)
  <2> HIDE DEF g
  <2>1. QED
    BY <1>2 DEF DigitCount
<1> HIDE DEF g
<1>4. \A v \in Nat : DigitCount[v] = IF v = 0 THEN 0 ELSE 1 + DigitCount[v \div RADIX]
  BY <1>3
<1> HIDE DEF rec
<1> DEFINE S == {v \in Nat : Counts(RADIX, v, DigitCount[v])}
<1>5. 0 \in S
  BY <1>4 DEF Counts
<1>6. ASSUME NEW v \in Nat \ {0}, v \div RADIX \in S PROVE v \in S
  <2>1. Counts(RADIX, v \div RADIX, DigitCount[v \div RADIX])
    BY <1>6
  <2>2. Counts(RADIX, v, DigitCount[v \div RADIX] + 1) /\ DigitCount[v \div RADIX] \in Nat
    BY <1>0, <2>1, CountNext DEF Counts
  <2>3. DigitCount[v] = DigitCount[v \div RADIX] + 1
    BY <1>4, <2>2
  <2>4. QED
    BY <2>2, <2>3
<1> HIDE DEF S
<1>7. \A v \in Nat : v \in S
  BY <1>0, <1>5, <1>6, QuotientInduction
<1>8. QED
  BY <1>7 DEF S

(* Log10 is the logarithm, rounded down. *)
LEMMA Log10Facts ==
  \A v \in Nat :
    /\ Log10[v] \in Nat
    /\ v = 0 => Log10[v] = 0
    /\ v # 0 => Power(10, Log10[v]) =< v /\ v < Power(10, Log10[v] + 1)
<1> DEFINE g == [v \in Nat |-> CHOOSE n \in Nat : Counts(10, v, n)]
<1> DEFINE h == [v \in Nat |-> IF v = 0 THEN 0 ELSE g[v] - 1]
<1>1. \A v \in Nat : Counts(10, v, g[v])
  BY CountExists
<1>2. \A v \in Nat : h[v] = IF v = 0 THEN 0 ELSE g[v] - 1
  OBVIOUS
<1>3. h = [v \in Nat |-> h[v]]
  OBVIOUS
<1> HIDE DEF g, h
<1> DEFINE rec(f) == f = [v \in Nat |-> IF v < 10 THEN 0 ELSE 1 + f[v \div 10]]
<1>4. rec(h)
  <2>1. ASSUME NEW v \in Nat PROVE h[v] = IF v < 10 THEN 0 ELSE 1 + h[v \div 10]
    <3>1. CASE v = 0
      BY <1>2, <3>1
    <3>2. CASE v # 0 /\ v < 10
      <4>1. Power(10, 1 - 1) = 1 /\ Power(10, 1) = 10
        <5>1. Power(10, 0) = 1 /\ Power(10, 0 + 1) = 10 * Power(10, 0)
          BY PowerZero, PowerNext
        <5>2. QED
          BY <5>1
      <4>2. Counts(10, v, 1)
        BY <3>2, <4>1 DEF Counts
      <4>3. g[v] = 1
        BY <1>1, <4>2, CountUnique
      <4>4. QED
        BY <1>2, <3>2, <4>3
    <3>3. CASE v >= 10
      <4>1. v \in Nat \ {0} /\ v \div 10 \in Nat /\ v \div 10 # 0
        BY <3>3
      <4>2. Counts(10, v, g[v \div 10] + 1)
        BY <1>1, <4>1, CountNext
      <4>3. g[v] = g[v \div 10] + 1
        BY <1>1, <4>1, <4>2, CountUnique
      <4>4. g[v \div 10] \in Nat
        BY <1>1, <4>1 DEF Counts
      <4>5. QED
        BY <1>2, <3>3, <4>1, <4>3, <4>4
    <3>4. QED
      BY <3>1, <3>2, <3>3
  <2>2. h = [v \in Nat |-> IF v < 10 THEN 0 ELSE 1 + h[v \div 10]]
    BY <1>3, <2>1, Zenon
  <2>3. QED
    BY <2>2
<1>5. rec(Log10)
  BY <1>4 DEF Log10
<1>6. \A v \in Nat : Log10[v] = IF v < 10 THEN 0 ELSE 1 + Log10[v \div 10]
  BY <1>5
<1>7. \A v \in Nat : h[v] = IF v < 10 THEN 0 ELSE 1 + h[v \div 10]
  BY <1>4
<1> HIDE DEF rec
<1> DEFINE S == {v \in Nat : Log10[v] = h[v]}
<1>8. 0 \in S
  BY <1>6, <1>7
<1>9. ASSUME NEW v \in Nat \ {0}, v \div 10 \in S PROVE v \in S
  BY <1>6, <1>7, <1>9
<1> HIDE DEF S
<1>10. \A v \in Nat : v \in S
  <2>1. 10 \in Nat /\ 10 >= 2
    OBVIOUS
  <2>2. QED
    BY <1>8, <1>9, <2>1, QuotientInduction
<1>11. ASSUME NEW v \in Nat
       PROVE  /\ Log10[v] \in Nat
              /\ v = 0 => Log10[v] = 0
              /\ v # 0 => Power(10, Log10[v]) =< v /\ v < Power(10, Log10[v] + 1)
  <2>1. Log10[v] = h[v]
    BY <1>10 DEF S
  <2>2. CASE v = 0
    BY <1>2, <2>1, <2>2
  <2>3. CASE v # 0
    <3>1. Log10[v] = g[v] - 1
      BY <1>2, <2>1, <2>3
    <3>2. g[v] \in Nat /\ g[v] > 0 /\ Power(10, g[v] - 1) =< v /\ v < Power(10, g[v])
      BY <1>1, <2>3 DEF Counts
    <3>3. Log10[v] + 1 = g[v]
      BY <3>1, <3>2
    <3>4. QED
      BY <2>3, <3>1, <3>2, <3>3
  <2>4. QED
    BY <2>2, <2>3
<1>12. QED
  BY <1>11

-----------------------------------------------------------------------------
(* Digit by digit: if the lowest k digits are 0, the power k divides. *)
LEMMA ZerosDivide ==
  ASSUME NEW b \in Nat, b >= 2, NEW v \in Nat
  PROVE  \A k \in Nat : (\A m \in 0 .. k - 1 : (v \div Power(b, m)) % b = 0) =>
           v = Power(b, k) * (v \div Power(b, k)) /\ v \div Power(b, k) \in Nat
<1> DEFINE zeros(k) == \A m \in 0 .. k - 1 : (v \div Power(b, m)) % b = 0
<1> DEFINE S == {k \in Nat : zeros(k) =>
                   v = Power(b, k) * (v \div Power(b, k)) /\ v \div Power(b, k) \in Nat}
<1>1. 0 \in S
  <2>1. Power(b, 0) = 1
    BY PowerZero
  <2>2. v \div 1 = v
    OBVIOUS
  <2>3. QED
    BY <2>1, <2>2
<1>2. ASSUME NEW k \in Nat, k \in S PROVE k + 1 \in S
  <2>1. SUFFICES ASSUME zeros(k + 1)
                 PROVE  /\ v = Power(b, k + 1) * (v \div Power(b, k + 1))
                        /\ v \div Power(b, k + 1) \in Nat
    OBVIOUS
  <2> DEFINE q == v \div Power(b, k)
  <2>2. zeros(k)
    BY <2>1
  <2>3. v = Power(b, k) * q /\ q \in Nat
    BY <1>2, <2>2
  <2>4. q % b = 0
    BY <2>1
  <2>5. b \in Nat \ {0}
    OBVIOUS
  <2>6. Power(b, k + 1) = b * Power(b, k) /\ Power(b, k) \in Nat \ {0}
    BY <2>5, PowerNext, PowerType
  <2> HIDE DEF q
  <2>7. q = b * (q \div b) /\ q \div b \in Nat
    BY <2>3, <2>4, <2>5, Z3
  <2>8. ASSUME NEW p \in Nat \ {0}, NEW r \in Nat, NEW c \in Nat \ {0}, v = p * (c * r)
        PROVE  v = (c * p) * r /\ v \div (c * p) = r
    <3>1. v = (c * p) * r /\ c * p \in Nat \ {0}
      BY <2>8
    <3>2. QED
      BY <3>1
  <2>9. v = Power(b, k) * (b * (q \div b))
    BY <2>3, <2>7
  <2>10. v = (b * Power(b, k)) * (q \div b) /\ v \div (b * Power(b, k)) = q \div b
    BY <2>5, <2>6, <2>7, <2>8, <2>9
  <2>11. QED
    BY <2>6, <2>7, <2>10
<1> HIDE DEF S
<1>3. \A k \in Nat : k \in S
  BY <1>1, <1>2, SetInduction
<1>4. QED
  BY <1>3 DEF S

(* The zeros at the end are found. *)
LEMMA ZerosExist ==
  ASSUME NEW b \in Nat, b >= 2, NEW v \in Nat, NEW n \in Nat
  PROVE  \E k \in 0 .. n :
           /\ \A m \in 0 .. k - 1 : (v \div Power(b, m)) % b = 0
           /\ k < n => (v \div Power(b, k)) % b # 0
<1> DEFINE S == {k \in 0 .. n : k < n => (v \div Power(b, k)) % b # 0}
<1>1. n \in S
  OBVIOUS
<1>2. S \in SUBSET Nat
  OBVIOUS
<1>3. PICK k \in S : \A m \in S : k =< m
  BY <1>1, <1>2, LeastNatural
<1>4. ASSUME NEW m \in 0 .. k - 1 PROVE (v \div Power(b, m)) % b = 0
  <2>1. m \in 0 .. n /\ m < k
    BY <1>3
  <2>2. m \notin S
    BY <1>3, <2>1
  <2>3. QED
    BY <2>1, <2>2
<1>5. QED
  BY <1>3, <1>4

(* The decimal zeros of a number divide it, one more does not. *)
LEMMA TrailingZerosFacts ==
  ASSUME NEW v \in Nat, NEW n \in Nat
  PROVE  LET k == TrailingZeros(v, n)
             q == v \div Power(10, k)
         IN  k \in 0 .. n /\ q \in Nat /\ v = Power(10, k) * q /\ (k < n => q % 10 # 0)
<1> DEFINE good(k) == v % Power(10, k) = 0 /\ (k < n => (v \div Power(10, k)) % 10 # 0)
<1>1. PICK k \in 0 .. n : /\ \A m \in 0 .. k - 1 : (v \div Power(10, m)) % 10 = 0
                          /\ k < n => (v \div Power(10, k)) % 10 # 0
  <2>1. 10 \in Nat /\ 10 >= 2
    OBVIOUS
  <2>2. QED
    BY <2>1, ZerosExist
<1>2. v = Power(10, k) * (v \div Power(10, k)) /\ v \div Power(10, k) \in Nat
  BY <1>1, ZerosDivide
<1>3. Power(10, k) \in Nat \ {0}
  BY PowerType
<1>4. good(k)
  <2>1. ASSUME NEW p \in Nat \ {0}, NEW q \in Nat, v = p * q PROVE v % p = 0
    <3>1. v \div p = q
      BY <2>1
    <3>2. v = p * (v \div p) + (v % p) /\ v % p \in Nat
      BY Z3
    <3>3. QED
      BY <2>1, <3>1, <3>2
  <2>2. v % Power(10, k) = 0
    BY <1>2, <1>3, <2>1
  <2>3. QED
    BY <1>1, <2>2
<1> DEFINE t == TrailingZeros(v, n)
<1>5. t \in 0 .. n /\ good(t)
  BY <1>4 DEF TrailingZeros
<1> HIDE DEF t
<1>6. Power(10, t) \in Nat \ {0}
  BY <1>5, PowerType
<1>7. ASSUME NEW p \in Nat \ {0}, v % p = 0 PROVE v = p * (v \div p) /\ v \div p \in Nat
  BY <1>7, Z3
<1>8. QED
  BY <1>5, <1>6, <1>7 DEF t

(* The same for digits that are zero. *)
LEMMA TrailingZeroDigitsFacts ==
  ASSUME NEW v \in Nat, NEW n \in Nat
  PROVE  LET k == TrailingZeroDigits(v, n)
             q == v \div Weight(k)
         IN  k \in 0 .. n /\ q \in Nat /\ v = Weight(k) * q /\ (k < n => q % RADIX # 0)
<1> DEFINE good(k) == /\ \A m \in 0 .. k - 1 : DigitAt(v, m) = 0
                      /\ k < n => DigitAt(v, k) # 0
<1>0. RADIX \in Nat /\ RADIX >= 2
  BY Constants
<1>1. \E k \in 0 .. n : good(k)
  BY <1>0, ZerosExist DEF DigitAt, Weight
<1> DEFINE t == TrailingZeroDigits(v, n)
<1>2. t \in 0 .. n /\ good(t)
  BY <1>1 DEF TrailingZeroDigits
<1> HIDE DEF t
<1>3. v = Weight(t) * (v \div Weight(t)) /\ v \div Weight(t) \in Nat
  BY <1>0, <1>2, ZerosDivide DEF DigitAt, Weight
<1>4. t < n => (v \div Weight(t)) % RADIX # 0
  BY <1>2 DEF DigitAt
<1>5. QED
  BY <1>2, <1>3, <1>4 DEF t

-----------------------------------------------------------------------------
(* Words. *)
LEMMA Int32Facts ==
  ASSUME NEW v \in Int
  PROVE  /\ Int32(v) \in INT32_MIN .. FPDEC_MAX_EXP
         /\ v \in INT32_MIN .. FPDEC_MAX_EXP => Int32(v) = v
<1> DEFINE w == 2 * (FPDEC_MAX_EXP + 1)
<1>1. FPDEC_MAX_EXP \in Nat /\ w \in Nat \ {0} /\ INT32_MIN = -FPDEC_MAX_EXP - 1
  BY LimitsAssumption DEF INT32_MIN
<1>2. w = FPDEC_MAX_EXP - INT32_MIN + 1
  BY <1>1
<1>3. Int32(v) = ((v - INT32_MIN) % w) + INT32_MIN
  BY DEF Int32
<1> HIDE DEF w
<1>4. (v - INT32_MIN) % w \in 0 .. w - 1
  BY <1>1, Z3
<1>5. ASSUME v \in INT32_MIN .. FPDEC_MAX_EXP PROVE (v - INT32_MIN) % w = v - INT32_MIN
  BY <1>1, <1>2, <1>5, Z3
<1>6. QED
  BY <1>1, <1>2, <1>3, <1>4, <1>5

(* dec_prec is an uint16_t. *)
LEMMA AsDecPrecFacts ==
  ASSUME NEW p \in Int
  PROVE  /\ AsDecPrec(p) \in 0 .. FPDEC_MAX_DEC_PREC
         /\ p \in 0 .. FPDEC_MAX_DEC_PREC => AsDecPrec(p) = p
<1>1. FPDEC_MAX_DEC_PREC \in Nat
  BY LimitsAssumption
<1>2. p % (FPDEC_MAX_DEC_PREC + 1) \in 0 .. FPDEC_MAX_DEC_PREC
  BY <1>1, Z3
<1>3. p \in 0 .. FPDEC_MAX_DEC_PREC => p % (FPDEC_MAX_DEC_PREC + 1) = p
  BY <1>1, Z3
<1>4. QED
  BY <1>2, <1>3 DEF AsDecPrec

-----------------------------------------------------------------------------
(* Digits without zeros on either side. *)
Stripped(d) ==
  /\ d.coeff \in Nat \ {0} /\ d.coeff % RADIX # 0
  /\ d.n \in Nat \ {0} /\ d.n = DigitCount[d.coeff]
  /\ Weight(d.n - 1) =< d.coeff /\ d.coeff < Weight(d.n)

(* The range of the numbers with n digits. *)
LEMMA DigitCountRange ==
  ASSUME NEW v \in Nat \ {0}
  PROVE  /\ DigitCount[v] \in Nat \ {0}
         /\ Weight(DigitCount[v] - 1) =< v /\ v < Weight(DigitCount[v])
BY DigitCountFacts DEF Counts, Weight

LEMMA DigitCountIs ==
  ASSUME NEW v \in Nat \ {0}, NEW n \in Nat \ {0}, Weight(n - 1) =< v, v < Weight(n)
  PROVE  DigitCount[v] = n
<1>1. RADIX \in Nat /\ RADIX >= 2
  BY Constants
<1>2. Counts(RADIX, v, n) /\ Counts(RADIX, v, DigitCount[v])
  BY DigitCountFacts DEF Counts, Weight
<1>3. QED
  BY <1>1, <1>2, CountUnique

LEMMA DigitCountBounds ==
  ASSUME NEW v \in Nat \ {0}, NEW n \in Nat, v < Weight(n)
  PROVE  DigitCount[v] =< n
<1>1. DigitCount[v] \in Nat \ {0} /\ Weight(DigitCount[v] - 1) =< v
  BY DigitCountRange
<1>2. SUFFICES ASSUME n =< DigitCount[v] - 1 PROVE FALSE
  BY <1>1
<1>3. DigitCount[v] - 1 \in Nat
  BY <1>1
<1>4. Weight(n) =< Weight(DigitCount[v] - 1)
  BY <1>2, <1>3, WeightSplit
<1>5. Weight(n) \in Nat /\ Weight(DigitCount[v] - 1) \in Nat
  BY <1>3, WeightFacts
<1>6. QED
  BY <1>1, <1>4, <1>5

(* What is left without zero digits. *)
LEMMA TrimmedFacts ==
  ASSUME NEW v \in Nat, NEW n \in Nat, v # 0, v < Weight(n), NEW exp \in Int
  PROVE  LET k == TrailingZeroDigits(v, n)
             d == Trimmed(v, n, exp)
         IN  /\ k \in 0 .. n - 1
             /\ d.coeff \in Nat \ {0} /\ d.coeff % RADIX # 0
             /\ v = d.coeff * Weight(k)
             /\ d.n = n - k /\ d.coeff < Weight(n - k)
             /\ d.exp = Int32(exp + k)
             /\ Weight(n - 1) =< v => Weight(n - k - 1) =< d.coeff /\ Stripped(d)
<1> DEFINE k == TrailingZeroDigits(v, n)
           c == v \div Weight(k)
           d == Trimmed(v, n, exp)
<1>1. k \in 0 .. n /\ c \in Nat /\ v = Weight(k) * c /\ (k < n => c % RADIX # 0)
  BY TrailingZeroDigitsFacts
<1>2. d.coeff = c /\ d.n = n - k /\ d.exp = Int32(exp + k)
  BY DEF Trimmed
<1> HIDE DEF k, c, d
<1>3. Weight(k) \in Nat \ {0} /\ Weight(n - k) \in Nat \ {0} /\ Weight(n) = Weight(k) * Weight(n - k)
  <2>1. k \in Nat /\ n - k \in Nat /\ k =< n
    BY <1>1
  <2>2. QED
    BY <2>1, WeightFacts, WeightSplit
<1>4. c \in Nat \ {0} /\ c < Weight(n - k)
  <2>1. ASSUME NEW w \in Nat \ {0}, NEW u \in Nat \ {0}, w * c < w * u PROVE c < u
    <3>1. u =< c => w * u =< w * c
      BY <1>1
    <3>2. w * u \in Nat /\ w * c \in Nat
      BY <1>1
    <3>3. QED
      BY <1>1, <2>1, <3>1, <3>2
  <2>2. c < Weight(n - k)
    BY <1>1, <1>3, <2>1
  <2>3. c # 0
    BY <1>1, <1>3
  <2>4. QED
    BY <1>1, <2>2, <2>3
<1>5. k # n
  <2>1. ASSUME k = n PROVE FALSE
    <3>1. Weight(n - k) = 1
      BY <2>1, <1>1, WeightZero
    <3>2. QED
      BY <1>4, <3>1
  <2>2. QED
    BY <2>1
<1>6. k \in 0 .. n - 1 /\ c % RADIX # 0
  BY <1>1, <1>5
<1>7. v = c * Weight(k)
  BY <1>1, <1>3
<1>8. ASSUME Weight(n - 1) =< v PROVE Weight(n - k - 1) =< c /\ DigitCount[c] = n - k
  <2>1. k \in Nat /\ n - 1 \in Nat /\ k =< n - 1 /\ (n - 1) - k = n - k - 1 /\ n - k - 1 \in Nat
    BY <1>6
  <2>2. Weight(n - 1) = Weight(k) * Weight((n - 1) - k) /\ Weight(n - k - 1) \in Nat
    BY <2>1, WeightSplit, WeightFacts
  <2>3. ASSUME NEW w \in Nat \ {0}, NEW u \in Nat, w * u =< w * c PROVE u =< c
    <3>1. c + 1 =< u => w * (c + 1) =< w * u
      BY <1>1
    <3>2. w * (c + 1) = w * c + w /\ w * c \in Nat
      BY <1>1
    <3>3. QED
      BY <1>1, <2>3, <3>1, <3>2
  <2>4. Weight(n - k - 1) =< c
    BY <1>1, <1>3, <1>8, <2>1, <2>2, <2>3
  <2>5. n - k \in Nat \ {0} /\ (n - k) - 1 = n - k - 1
    BY <2>1
  <2>6. DigitCount[c] = n - k
    BY <1>4, <2>4, <2>5, DigitCountIs
  <2>7. QED
    BY <2>4, <2>6
<1>9. Weight(n - 1) =< v => Stripped(d)
  <2>1. n - k \in Nat \ {0} /\ (n - k) - 1 = n - k - 1
    BY <1>6
  <2>2. QED
    BY <1>2, <1>4, <1>6, <1>8, <2>1 DEF Stripped
<1>10. QED
  BY <1>2, <1>4, <1>6, <1>7, <1>8, <1>9 DEF d, k

-----------------------------------------------------------------------------
(* Canonical numbers. *)

(* Powers of 10 are positive. *)
LEMMA PowersOf10 ==
  \A n \in Nat : Power(10, n) \in Nat \ {0} /\ Power(10, n + 1) = 10 * Power(10, n)
<1>1. 10 \in Nat \ {0}
  OBVIOUS
<1>2. QED
  BY <1>1, PowerType, PowerNext

(* From unit 10^i to 10^j and on to 10^k. *)
LEMMA PowerSteps ==
  ASSUME NEW i \in Int, NEW j \in Int, NEW k \in Int, i =< j, j =< k
  PROVE  /\ Power(10, j - i) \in Nat \ {0} /\ Power(10, k - j) \in Nat \ {0}
         /\ Power(10, k - i) = Power(10, j - i) * Power(10, k - j)
<1>1. j - i \in Nat /\ k - j \in Nat /\ (j - i) + (k - j) = k - i /\ 10 \in Nat \ {0}
  OBVIOUS
<1>2. Power(10, (j - i) + (k - j)) = Power(10, j - i) * Power(10, k - j)
  BY <1>1, PowerSum
<1>3. QED
  BY <1>1, <1>2, PowersOf10

(* A multiple of 10 is what a higher power of ten makes of a number. *)
LEMMA TimesTen ==
  ASSUME NEW c \in Int, NEW j \in Nat, j # 0
  PROVE  (c * Power(10, j)) % 10 = 0
<1>1. j - 1 \in Nat /\ (j - 1) + 1 = j
  OBVIOUS
<1>2. Power(10, j) = 10 * Power(10, j - 1) /\ Power(10, j - 1) \in Nat
  BY <1>1, PowerNext, PowerType
<1>3. ASSUME NEW p \in Nat PROVE (c * (10 * p)) % 10 = 0
  <2>1. c * (10 * p) = 10 * (c * p) /\ c * p \in Int
    OBVIOUS
  <2>2. ASSUME NEW q \in Int PROVE (10 * q) % 10 = 0
    OBVIOUS
  <2>3. QED
    BY <2>1, <2>2
<1>4. QED
  BY <1>2, <1>3

LEMMA CancelFactor ==
  ASSUME NEW p \in Nat \ {0}, NEW a \in Int, NEW b \in Int, a * p = b * p
  PROVE  a = b
<1>1. a < b => a * p + p =< b * p
  <2>1. SUFFICES ASSUME a + 1 =< b PROVE (a + 1) * p =< b * p
    OBVIOUS
  <2>2. QED
    BY <2>1
<1>2. b < a => b * p + p =< a * p
  <2>1. SUFFICES ASSUME b + 1 =< a PROVE (b + 1) * p =< a * p
    OBVIOUS
  <2>2. QED
    BY <2>1
<1>3. a * p \in Int /\ b * p \in Int
  OBVIOUS
<1>4. QED
  BY <1>1, <1>2, <1>3

(* Two reduced representations of a number are the same. *)
LEMMA ReducedUnique ==
  ASSUME NEW c \in Int, NEW d \in Int, c % 10 # 0, d % 10 # 0,
         NEW j \in Nat, NEW k \in Nat, c * Power(10, j) = d * Power(10, k)
  PROVE  c = d /\ j = k
<1>1. ASSUME NEW a \in Int, NEW b \in Int, a % 10 # 0, b % 10 # 0,
             NEW m \in Nat, NEW n \in Nat, a * Power(10, m) = b * Power(10, n), m =< n
      PROVE  a = b /\ m = n
  <2>1. Power(10, n) = Power(10, m) * Power(10, n - m) /\ n - m \in Nat
    BY <1>1, PowerDivides
  <2>2. Power(10, m) \in Nat \ {0} /\ Power(10, n - m) \in Nat \ {0}
    BY <1>1, <2>1, PowerType
  <2>3. ASSUME NEW p \in Nat, NEW q \in Nat PROVE b * (p * q) = (b * q) * p /\ b * q \in Int
    BY <1>1
  <2>4. a * Power(10, m) = (b * Power(10, n - m)) * Power(10, m) /\ b * Power(10, n - m) \in Int
    BY <1>1, <2>1, <2>2, <2>3
  <2>5. a = b * Power(10, n - m)
    BY <1>1, <2>2, <2>4, CancelFactor
  <2>6. n - m = 0
    <3>1. n - m # 0 => a % 10 = 0
      BY <1>1, <2>1, <2>5, TimesTen
    <3>2. QED
      BY <1>1, <3>1
  <2>7. Power(10, n - m) = 1
    BY <2>6, PowerZero
  <2>8. QED
    BY <1>1, <2>5, <2>6, <2>7
<1>2. j =< k \/ k =< j
  OBVIOUS
<1>3. QED
  BY <1>1, <1>2

(* A canonical number: its zeros are in its exponent. *)
LEMMA CanonicalFacts ==
  ASSUME NEW m \in Int, NEW e \in Int, m # 0
  PROVE  \E c \in Int, k \in Int :
           /\ Canonical(m, e) = << c, k >>
           /\ c % 10 # 0 /\ e =< k /\ m = c * Power(10, k - e)
<1> DEFINE v == ABS(m)
           n == Log10[v]
           t == TrailingZeros(v, n)
           q == v \div Power(10, t)
           s == CMP(m, 0)
<1>1. v \in Nat \ {0} /\ m = s * v /\ s \in {-1, 1}
  BY DEF ABS, CMP
<1>2. n \in Nat /\ v < Power(10, n + 1)
  BY <1>1, Log10Facts
<1>3. t \in 0 .. n /\ q \in Nat /\ v = Power(10, t) * q /\ (t < n => q % 10 # 0)
  BY <1>1, <1>2, TrailingZerosFacts
<1>4. Canonical(m, e) = << s * q, e + t >>
  BY DEF Canonical
<1> HIDE DEF v, n, t, q, s
<1>5. Power(10, t) \in Nat \ {0}
  BY <1>3, PowerType
<1>6. q # 0
  BY <1>1, <1>3, <1>5
<1>7. q % 10 # 0
  <2>1. CASE t < n
    BY <1>3, <2>1
  <2>2. CASE t = n
    <3>1. Power(10, n + 1) = 10 * Power(10, n) /\ Power(10, n) \in Nat \ {0}
      BY <1>2, PowersOf10
    <3>2. ASSUME NEW p \in Nat \ {0}, p * q < 10 * p PROVE q < 10
      <4>1. 10 =< q => p * 10 =< p * q
        BY <1>3
      <4>2. QED
        BY <1>3, <3>2, <4>1
    <3>3. q < 10
      BY <1>2, <1>3, <2>2, <3>1, <3>2
    <3>4. QED
      BY <1>3, <1>6, <3>3
  <2>3. QED
    BY <1>2, <1>3, <2>1, <2>2
<1>8. s * q \in Int /\ (s * q) % 10 # 0
  <2>1. CASE s = 1
    BY <1>3, <1>7, <2>1
  <2>2. CASE s = -1
    <3>1. s * q = -q
      BY <1>3, <2>2
    <3>2. (-q) % 10 # 0
      BY <1>3, <1>7
    <3>3. QED
      BY <1>3, <3>1, <3>2
  <2>3. QED
    BY <1>1, <2>1, <2>2
<1>9. m = (s * q) * Power(10, (e + t) - e)
  <2>1. (e + t) - e = t
    BY <1>3
  <2>2. ASSUME NEW p \in Nat PROVE s * (p * q) = (s * q) * p
    BY <1>1, <1>3
  <2>3. QED
    BY <1>1, <1>3, <1>5, <2>1, <2>2
<1>10. e + t \in Int /\ e =< e + t
  BY <1>3
<1>11. QED
  BY <1>4, <1>8, <1>9, <1>10

LEMMA CanonicalZero == \A e : Canonical(0, e) = << 0, 0 >>
BY DEF Canonical

(* And these are all canonical numbers. *)
LEMMA CanonicalIs ==
  ASSUME NEW m \in Int, NEW e \in Int, NEW c \in Int, NEW k \in Int,
         c % 10 # 0, e =< k, m = c * Power(10, k - e)
  PROVE  Canonical(m, e) = << c, k >>
<1>1. k - e \in Nat /\ Power(10, k - e) \in Nat \ {0}
  <2>1. k - e \in Nat
    OBVIOUS
  <2>2. QED
    BY <2>1, PowerType
<1>2. c # 0
  OBVIOUS
<1>3. m # 0
  BY <1>1, <1>2
<1>4. PICK d \in Int, j \in Int : /\ Canonical(m, e) = << d, j >>
                                  /\ d % 10 # 0 /\ e =< j /\ m = d * Power(10, j - e)
  BY <1>3, CanonicalFacts
<1>5. j - e \in Nat
  BY <1>4
<1>6. c = d /\ k - e = j - e
  BY <1>1, <1>4, <1>5, ReducedUnique
<1>7. QED
  BY <1>4, <1>6

(* Scaling coefficient and exponent keeps the number. *)
LEMMA CanonicalScale ==
  ASSUME NEW m \in Int, NEW e \in Int, NEW n \in Nat
  PROVE  Canonical(m * Power(10, n), e) = Canonical(m, e + n)
<1>1. Power(10, n) \in Nat \ {0}
  BY PowerType
<1>2. CASE m = 0
  <2>1. m * Power(10, n) = 0
    BY <1>1, <1>2
  <2>2. QED
    BY <1>2, <2>1, CanonicalZero
<1>3. CASE m # 0
  <2>1. PICK c \in Int, k \in Int : /\ Canonical(m, e + n) = << c, k >>
                                    /\ c % 10 # 0 /\ e + n =< k /\ m = c * Power(10, k - (e + n))
    <3>1. e + n \in Int
      OBVIOUS
    <3>2. QED
      BY <1>3, <3>1, CanonicalFacts
  <2>2. k - (e + n) \in Nat /\ (k - (e + n)) + n = k - e /\ e =< k
    BY <2>1
  <2>3. Power(10, k - e) = Power(10, k - (e + n)) * Power(10, n)
    BY <2>2, PowerSum
  <2>4. Power(10, k - (e + n)) \in Nat
    BY <2>2, PowerType
  <2>5. m * Power(10, n) = c * Power(10, k - e)
    <3>1. ASSUME NEW p \in Nat, NEW q \in Nat PROVE (c * p) * q = c * (p * q)
      OBVIOUS
    <3>2. QED
      BY <1>1, <2>1, <2>3, <2>4, <3>1
  <2>6. m * Power(10, n) \in Int
    BY <1>1
  <2>7. Canonical(m * Power(10, n), e) = << c, k >>
    BY <2>1, <2>2, <2>5, <2>6, CanonicalIs
  <2>8. QED
    BY <2>1, <2>7
<1>4. QED
  BY <1>2, <1>3

(* Numbers of the same unit are equal only if their coefficients are. *)
LEMMA CanonicalInjective ==
  ASSUME NEW m \in Int, NEW n \in Int, NEW e \in Int, Canonical(m, e) = Canonical(n, e)
  PROVE  m = n
<1>1. ASSUME NEW a \in Int, a # 0, NEW b \in Int, Canonical(a, e) = Canonical(b, e) PROVE a = b
  <2>1. PICK c \in Int, k \in Int : /\ Canonical(a, e) = << c, k >>
                                    /\ c % 10 # 0 /\ a = c * Power(10, k - e)
    BY <1>1, CanonicalFacts
  <2>2. b # 0
    <3>1. b = 0 => Canonical(b, e) = << 0, 0 >>
      BY CanonicalZero
    <3>2. c # 0
      BY <2>1
    <3>3. QED
      BY <1>1, <2>1, <3>1, <3>2
  <2>3. PICK d \in Int, j \in Int : Canonical(b, e) = << d, j >> /\ b = d * Power(10, j - e)
    BY <1>1, <2>2, CanonicalFacts
  <2>4. << c, k >> = << d, j >>
    BY <1>1, <2>1, <2>3, Zenon
  <2>5. QED
    BY <2>1, <2>3, <2>4
<1>2. CASE m # 0
  BY <1>1, <1>2
<1>3. CASE n # 0
  BY <1>1, <1>3
<1>4. QED
  BY <1>2, <1>3

(* The sign of a number is that of its coefficient. *)
LEMMA CanonicalSign ==
  ASSUME NEW m \in Int, NEW e \in Int
  PROVE  /\ Canonical(m, e)[1] \in Int /\ Canonical(m, e)[2] \in Int
         /\ CMP(Canonical(m, e)[1], 0) = CMP(m, 0)
         /\ Canonical(m, e)[1] = 0 <=> m = 0
<1>1. CASE m = 0
  BY <1>1, CanonicalZero
<1>2. CASE m # 0
  <2>1. PICK c \in Int, k \in Int : /\ Canonical(m, e) = << c, k >>
                                    /\ c % 10 # 0 /\ e =< k /\ m = c * Power(10, k - e)
    BY <1>2, CanonicalFacts
  <2>2. Power(10, k - e) \in Nat \ {0}
    <3>1. k - e \in Nat
      BY <2>1
    <3>2. QED
      BY <3>1, PowerType
  <2>3. ASSUME NEW p \in Nat \ {0} PROVE (c > 0 <=> c * p > 0) /\ (c < 0 <=> c * p < 0)
    <3>1. c > 0 => c * p > 0
      OBVIOUS
    <3>2. c < 0 => c * p < 0
      OBVIOUS
    <3>3. c = 0 => c * p = 0
      OBVIOUS
    <3>4. c * p \in Int
      OBVIOUS
    <3>5. QED
      BY <3>1, <3>2, <3>3, <3>4
  <2>4. (c > 0 <=> m > 0) /\ (c < 0 <=> m < 0)
    BY <2>1, <2>2, <2>3
  <2>5. CMP(c, 0) = CMP(m, 0) /\ c # 0
    BY <1>2, <2>4 DEF CMP
  <2>6. QED
    BY <1>2, <2>1, <2>5
<1>3. QED
  BY <1>1, <1>2

(* Numbers of the same unit add, and are negated, like their coefficients. *)
LEMMA CanonicalPlus ==
  ASSUME NEW m \in Int, NEW n \in Int, NEW e \in Int
  PROVE  Plus(Canonical(m, e), Canonical(n, e)) = Canonical(m + n, e)
<1>1. CASE m = 0
  <2>1. Canonical(m, e)[1] = 0 /\ m + n = n
    BY <1>1, CanonicalSign
  <2>2. QED
    BY <2>1 DEF Plus
<1>2. CASE m # 0 /\ n = 0
  <2>1. Canonical(m, e)[1] # 0 /\ Canonical(n, e)[1] = 0 /\ m + n = m
    BY <1>2, CanonicalSign
  <2>2. QED
    BY <2>1 DEF Plus
<1>3. CASE m # 0 /\ n # 0
  <2>1. PICK c \in Int, k \in Int : /\ Canonical(m, e) = << c, k >>
                                    /\ c % 10 # 0 /\ e =< k /\ m = c * Power(10, k - e)
    BY <1>3, CanonicalFacts
  <2>2. PICK d \in Int, j \in Int : /\ Canonical(n, e) = << d, j >>
                                    /\ d % 10 # 0 /\ e =< j /\ n = d * Power(10, j - e)
    BY <1>3, CanonicalFacts
  <2> DEFINE f == MIN(k, j)
             u == c * Power(10, k - f) + d * Power(10, j - f)
  <2>3. f \in Int /\ e =< f /\ f =< k /\ f =< j
    BY <2>1, <2>2 DEF MIN
  <2>4. Plus(<< c, k >>, << d, j >>) = Canonical(u, f)
    <3>1. c # 0 /\ d # 0
      BY <2>1, <2>2
    <3>2. << c, k >>[1] = c /\ << c, k >>[2] = k /\ << d, j >>[1] = d /\ << d, j >>[2] = j
      OBVIOUS
    <3>3. QED
      BY <3>1, <3>2 DEF Plus
  <2> HIDE DEF f
  <2>5. /\ k - f \in Nat /\ j - f \in Nat /\ f - e \in Nat
        /\ (k - f) + (f - e) = k - e /\ (j - f) + (f - e) = j - e
    BY <2>3
  <2>6. /\ Power(10, k - e) = Power(10, k - f) * Power(10, f - e)
        /\ Power(10, j - e) = Power(10, j - f) * Power(10, f - e)
    BY <2>5, PowerSum
  <2>7. /\ Power(10, k - f) \in Nat /\ Power(10, j - f) \in Nat /\ Power(10, f - e) \in Nat
    BY <2>5, PowersOf10
  <2>8. u \in Int /\ m + n = u * Power(10, f - e)
    <3>1. ASSUME NEW p \in Nat, NEW q \in Nat, NEW r \in Nat
          PROVE  c * (p * r) + d * (q * r) = (c * p + d * q) * r /\ c * p + d * q \in Int
      OBVIOUS
    <3>2. QED
      BY <2>1, <2>2, <2>6, <2>7, <3>1
  <2> HIDE DEF u
  <2>9. Canonical(u * Power(10, f - e), e) = Canonical(u, e + (f - e))
    BY <2>5, <2>8, CanonicalScale
  <2>10. e + (f - e) = f
    BY <2>3
  <2>11. QED
    BY <2>1, <2>2, <2>4, <2>8, <2>9, <2>10
<1>4. QED
  BY <1>1, <1>2, <1>3

(* Its negation. *)
LEMMA CanonicalMinus ==
  ASSUME NEW m \in Int, NEW e \in Int
  PROVE  Minus(Canonical(m, e)) = Canonical(-m, e)
<1>1. CASE m = 0
  <2>1. Canonical(m, e) = << 0, 0 >> /\ Canonical(-m, e) = << 0, 0 >>
    BY <1>1, CanonicalZero
  <2>2. QED
    BY <2>1 DEF Minus
<1>2. CASE m # 0
  <2>1. PICK c \in Int, k \in Int : /\ Canonical(m, e) = << c, k >>
                                    /\ c % 10 # 0 /\ e =< k /\ m = c * Power(10, k - e)
    BY <1>2, CanonicalFacts
  <2>2. Minus(<< c, k >>) = << -c, k >>
    BY DEF Minus
  <2>3. k - e \in Nat
    BY <2>1
  <2>4. Power(10, k - e) \in Nat
    BY <2>3, PowersOf10
  <2>5. -m = (-c) * Power(10, k - e)
    BY <2>1, <2>4
  <2>6. (-c) % 10 # 0 /\ -c \in Int /\ -m \in Int
    BY <2>1
  <2>7. Canonical(-m, e) = << -c, k >>
    BY <2>1, <2>5, <2>6, CanonicalIs
  <2>8. QED
    BY <2>1, <2>2, <2>7
<1>3. QED
  BY <1>1, <1>2

(* Its product with another. *)
LEMMA CanonicalTimes ==
  ASSUME NEW m \in Int, NEW n \in Int, NEW e \in Int, NEW f \in Int
  PROVE  Times(Canonical(m, e), Canonical(n, f)) = Canonical(m * n, e + f)
<1>1. CASE m = 0 \/ n = 0
  <2>1. m * n = 0
    BY <1>1
  <2>2. Canonical(m, e)[1] * Canonical(n, f)[1] = 0
    <3>1. Canonical(m, e)[1] \in Int /\ Canonical(n, f)[1] \in Int
      BY CanonicalSign
    <3>2. Canonical(m, e)[1] = 0 \/ Canonical(n, f)[1] = 0
      BY <1>1, CanonicalSign
    <3>3. ASSUME NEW p \in Int, NEW q \in Int, p = 0 \/ q = 0 PROVE p * q = 0
      BY <3>3
    <3>4. QED
      BY <3>1, <3>2, <3>3
  <2>3. QED
    BY <2>1, <2>2, CanonicalZero DEF Times
<1>2. CASE m # 0 /\ n # 0
  <2>1. PICK c \in Int, k \in Int : /\ Canonical(m, e) = << c, k >>
                                    /\ c % 10 # 0 /\ e =< k /\ m = c * Power(10, k - e)
    BY <1>2, CanonicalFacts
  <2>2. PICK d \in Int, j \in Int : /\ Canonical(n, f) = << d, j >>
                                    /\ d % 10 # 0 /\ f =< j /\ n = d * Power(10, j - f)
    BY <1>2, CanonicalFacts
  <2>3. Times(<< c, k >>, << d, j >>) = Canonical(c * d, k + j)
    <3>1. << c, k >>[1] = c /\ << c, k >>[2] = k /\ << d, j >>[1] = d /\ << d, j >>[2] = j
      OBVIOUS
    <3>2. QED
      BY <3>1 DEF Times
  <2>4. k - e \in Nat /\ j - f \in Nat /\ (k - e) + (j - f) \in Nat
    BY <2>1, <2>2
  <2>5. Power(10, (k - e) + (j - f)) = Power(10, k - e) * Power(10, j - f)
    BY <2>4, PowerSum
  <2>6. Power(10, k - e) \in Nat /\ Power(10, j - f) \in Nat
    BY <2>4, PowersOf10
  <2>7. m * n = (c * d) * Power(10, (k - e) + (j - f))
    <3>1. ASSUME NEW p \in Nat, NEW q \in Nat PROVE (c * p) * (d * q) = (c * d) * (p * q)
      OBVIOUS
    <3>2. QED
      BY <2>1, <2>2, <2>5, <2>6, <3>1
  <2>8. c * d \in Int /\ e + f \in Int /\ (e + f) + ((k - e) + (j - f)) = k + j
    BY <2>1, <2>2
  <2>9. Canonical((c * d) * Power(10, (k - e) + (j - f)), e + f) = Canonical(c * d, k + j)
    BY <2>4, <2>8, CanonicalScale
  <2>10. QED
    BY <2>1, <2>2, <2>3, <2>7, <2>9
<1>3. QED
  BY <1>1, <1>2

-----------------------------------------------------------------------------
(* 10^j in units of 10^i. *)
Ten(i, j) == Power(10, j - i)

LEMMA TenType ==
  ASSUME NEW i \in Int, NEW j \in Int, i =< j
  PROVE  Ten(i, j) \in Nat \ {0}
<1>1. j - i \in Nat
  OBVIOUS
<1>2. QED
  BY <1>1, PowersOf10 DEF Ten

LEMMA TenSteps ==
  ASSUME NEW i \in Int, NEW j \in Int, NEW k \in Int, i =< j, j =< k
  PROVE  Ten(i, k) = Ten(i, j) * Ten(j, k)
BY PowerSteps DEF Ten

LEMMA TenSame ==
  ASSUME NEW i \in Int
  PROVE  Ten(i, i) = 1
<1>1. i - i = 0
  OBVIOUS
<1>2. Power(10, 0) = 1
  BY PowerZero
<1>3. QED
  BY <1>1, <1>2 DEF Ten

LEMMA TenOrder ==
  ASSUME NEW i \in Int, NEW j \in Int, NEW k \in Int, i =< j, j =< k
  PROVE  Ten(i, j) =< Ten(i, k) /\ (j < k => Ten(i, j) < Ten(i, k))
<1>1. j - i \in Nat /\ k - i \in Nat /\ j - i =< k - i /\ (j < k => j - i < k - i)
  OBVIOUS
<1>2. 10 \in Nat /\ 10 >= 2
  OBVIOUS
<1>3. QED
  BY <1>1, <1>2, PowerOrder DEF Ten

(* Numbers in smaller units. *)
LEMMA CanonicalShift ==
  ASSUME NEW m \in Int, NEW i \in Int, NEW j \in Int, i =< j
  PROVE  m * Ten(i, j) \in Int /\ Canonical(m * Ten(i, j), i) = Canonical(m, j)
<1>1. j - i \in Nat /\ i + (j - i) = j
  OBVIOUS
<1>2. Canonical(m * Power(10, j - i), i) = Canonical(m, i + (j - i))
  BY <1>1, CanonicalScale
<1>3. Ten(i, j) \in Nat
  BY TenType
<1>4. QED
  BY <1>1, <1>2, <1>3 DEF Ten

(* c is m without its decimal zeros. *)
Reduced(m, e, c, k) == c % 10 # 0 /\ e =< k /\ m = c * Ten(e, k)

(* The same, as a relation of the two forms. *)
LEMMA CanonicalReduced ==
  ASSUME NEW m \in Int, NEW e \in Int, m # 0
  PROVE  \E c \in Int, k \in Int : Canonical(m, e) = << c, k >> /\ Reduced(m, e, c, k)
BY CanonicalFacts DEF Reduced, Ten

LEMMA ReducedShift ==
  ASSUME NEW m \in Int, NEW e \in Int, NEW c \in Int, NEW k \in Int, NEW f \in Int,
         Reduced(m, e, c, k), f =< k
  PROVE  \E w \in Int : /\ Canonical(w, f) = << c, k >>
                        /\ e =< f => m = w * Ten(e, f)
                        /\ f =< e => w = m * Ten(f, e)
<1> DEFINE w == c * Ten(f, k)
<1>0. e =< k /\ m = c * Ten(e, k)
  BY DEF Reduced
<1>1. w \in Int
  BY TenType
<1>2. Canonical(w, f) = << c, k >>
  <2>1. c % 10 # 0
    BY DEF Reduced
  <2>2. w = c * Power(10, k - f)
    BY DEF Ten
  <2> HIDE DEF w
  <2>3. QED
    BY <1>1, <2>1, <2>2, CanonicalIs
<1>3. ASSUME e =< f PROVE m = w * Ten(e, f)
  <2>1. Ten(e, k) = Ten(e, f) * Ten(f, k)
    BY <1>3, TenSteps, ZenonT(40)
  <2>. Ten(e, f) \in Nat /\ Ten(f, k) \in Nat
    BY <1>3, TenType
  <2>2. ASSUME NEW a \in Nat, NEW b \in Nat PROVE c * (a * b) = (c * b) * a
    OBVIOUS
  <2>3. QED
    BY <1>0, <2>1, <2>2
<1>4. ASSUME f =< e PROVE w = m * Ten(f, e)
  <2>1. Ten(f, k) = Ten(f, e) * Ten(e, k)
    BY <1>0, <1>4, TenSteps, ZenonT(40)
  <2>. Ten(f, e) \in Nat /\ Ten(e, k) \in Nat
    BY <1>0, <1>4, TenType
  <2>2. ASSUME NEW a \in Nat, NEW b \in Nat PROVE c * (a * b) = (c * b) * a
    OBVIOUS
  <2>3. QED
    BY <1>0, <2>1, <2>2
<1> HIDE DEF w
<1>5. QED
  BY <1>1, <1>2, <1>3, <1>4

(* Numbers with their last digit not below 10^f: multiples of 10^f. *)
LEMMA CanonicalCovered ==
  ASSUME NEW m \in Int, NEW e \in Int, NEW f \in Int, f =< 0, f =< e
  PROVE  Canonical(m, e)[2] >= f
<1>1. CASE m = 0
  BY <1>1, CanonicalZero
<1>2. CASE m # 0
  <2>1. PICK c \in Int, k \in Int : Canonical(m, e) = << c, k >> /\ Reduced(m, e, c, k)
    BY <1>2, CanonicalReduced
  <2>2. e =< k
    BY <2>1 DEF Reduced
  <2>3. QED
    BY <2>1, <2>2
<1>3. QED
  BY <1>1, <1>2

(* A number without digits below 10^f is a multiple of it. *)
LEMMA CoveredMultiple ==
  ASSUME NEW m \in Int, NEW e \in Int, NEW f \in Int, Canonical(m, e)[2] >= f
  PROVE  \E w \in Int : /\ Canonical(m, e) = Canonical(w, f)
                        /\ e =< f => m = w * Ten(e, f)
                        /\ f =< e => w = m * Ten(f, e)
<1>1. CASE m = 0
  <2>1. Canonical(m, e) = Canonical(0, f)
    BY <1>1, CanonicalZero
  <2>2. e =< f => 0 = 0 * Ten(e, f)
    BY TenType
  <2>3. f =< e => 0 = 0 * Ten(f, e)
    BY TenType
  <2>4. QED
    BY <1>1, <2>1, <2>2, <2>3
<1>2. CASE m # 0
  <2>1. PICK c \in Int, k \in Int : Canonical(m, e) = << c, k >> /\ Reduced(m, e, c, k)
    BY <1>2, CanonicalReduced
  <2>2. f =< k
    BY <2>1
  <2>3. PICK w \in Int : /\ Canonical(w, f) = << c, k >>
                         /\ e =< f => m = w * Ten(e, f)
                         /\ f =< e => w = m * Ten(f, e)
    BY <2>1, <2>2, ReducedShift
  <2>4. QED
    BY <2>1, <2>3
<1>3. QED
  BY <1>1, <1>2

-----------------------------------------------------------------------------
(* The facts about the limits which the proofs use. *)
LEMMA Limits ==
  /\ DEC_DIGITS_PER_DIGIT \in Nat \ {0} /\ RADIX = Power(10, DEC_DIGITS_PER_DIGIT)
  /\ MAX_DEC_PREC_FOR_SHINT \in Nat /\ MAX_DEC_PREC_FOR_SHINT + 1 < DEC_DIGITS_PER_DIGIT
  /\ FPDEC_MAX_DEC_PREC \in Nat /\ MAX_DEC_PREC_FOR_SHINT =< FPDEC_MAX_DEC_PREC
  /\ FPDEC_MAX_EXP \in Nat /\ FPDEC_MAX_EXP >= 2 /\ INT32_MIN = -FPDEC_MAX_EXP - 1
  /\ SHINT_LIMIT \in Nat \ {0}
<1>1. DEC_DIGITS_PER_DIGIT \in Nat \ {0} /\ RADIX = Power(10, DEC_DIGITS_PER_DIGIT)
  BY RadixAssumption
<1>2. /\ MAX_DEC_PREC_FOR_SHINT \in Nat /\ MAX_DEC_PREC_FOR_SHINT + 1 < DEC_DIGITS_PER_DIGIT
      /\ FPDEC_MAX_DEC_PREC \in Nat /\ MAX_DEC_PREC_FOR_SHINT =< FPDEC_MAX_DEC_PREC
      /\ FPDEC_MAX_EXP \in Nat /\ FPDEC_MAX_EXP >= 2 /\ INT32_MIN = -FPDEC_MAX_EXP - 1
  BY LimitsAssumption DEF INT32_MIN
<1>3. SHINT_LIMIT \in Nat \ {0}
  <2>1. Power(10, MAX_N_DEC_DIGITS_IN_SHINT - 1) \in Nat
    <3>1. MAX_N_DEC_DIGITS_IN_SHINT - 1 \in Nat
      BY <1>1, <1>2, ShintAssumption
    <3>2. QED
      BY <3>1, PowersOf10
  <2>2. SHINT_LIMIT \in Nat /\ SHINT_LIMIT > Power(10, MAX_N_DEC_DIGITS_IN_SHINT - 1)
    BY ShintAssumption
  <2>3. QED
    BY <2>1, <2>2
<1>4. QED
  BY <1>1, <1>2, <1>3

(* Shifted ints have at most MAX_N_DEC_DIGITS_IN_SHINT decimal digits. *)
LEMMA ShintRange ==
  /\ MAX_N_DEC_DIGITS_IN_SHINT = DEC_DIGITS_PER_DIGIT + MAX_DEC_PREC_FOR_SHINT + 1
  /\ SHINT_LIMIT < Power(10, DEC_DIGITS_PER_DIGIT + MAX_DEC_PREC_FOR_SHINT + 1)
BY ShintAssumption

LEMMA Words128 ==
  /\ U64 \in Nat \ {0} /\ U128 = U64 * U64 /\ U128 \in Nat
  /\ SHINT_LIMIT * Power(10, MAX_DEC_PREC_FOR_SHINT) < U128
  /\ SHINT_LIMIT < U128
<1>1. U64 \in Nat /\ U64 # 0
  BY Constants
<1>2. U128 = U64 * U64 /\ U128 \in Nat
  BY <1>1 DEF U128
<1>3. SHINT_LIMIT * Power(10, MAX_DEC_PREC_FOR_SHINT) < U128
  BY ShintAssumption DEF u64_10_pow_n
<1>4. Power(10, MAX_DEC_PREC_FOR_SHINT) \in Nat \ {0} /\ SHINT_LIMIT \in Nat
  BY Limits, PowersOf10
<1>5. ASSUME NEW p \in Nat \ {0} PROVE SHINT_LIMIT =< SHINT_LIMIT * p
  BY <1>4
<1>6. SHINT_LIMIT =< SHINT_LIMIT * Power(10, MAX_DEC_PREC_FOR_SHINT)
  BY <1>4, <1>5
<1>7. SHINT_LIMIT < U128
  <2>1. SHINT_LIMIT * Power(10, MAX_DEC_PREC_FOR_SHINT) \in Nat
    BY <1>4
  <2>2. QED
    BY <1>2, <1>3, <1>4, <1>6, <2>1
<1>8. QED
  BY <1>1, <1>2, <1>3, <1>7

LEMMA RadixPositive == RADIX \in Nat /\ RADIX >= 10
BY Constants

(* Weights are powers of ten. *)
LEMMA WeightTen ==
  ASSUME NEW e \in Int, NEW k \in Nat
  PROVE  /\ e * DEC_DIGITS_PER_DIGIT \in Int /\ (e + k) * DEC_DIGITS_PER_DIGIT \in Int
         /\ e * DEC_DIGITS_PER_DIGIT =< (e + k) * DEC_DIGITS_PER_DIGIT
         /\ Weight(k) = Ten(e * DEC_DIGITS_PER_DIGIT, (e + k) * DEC_DIGITS_PER_DIGIT)
<1>1. PICK n \in Nat \ {0} : n = DEC_DIGITS_PER_DIGIT
  BY Limits
<1>2. /\ e * n \in Int /\ (e + k) * n \in Int /\ n * k \in Nat
      /\ (e + k) * n = e * n + n * k /\ (e + k) * n - e * n = n * k + 0
  OBVIOUS
<1>3. Power(10, n * k + 0) = Weight(k) * Power(10, 0)
  BY <1>1, PowerWeight
<1>4. Power(10, 0) = 1 /\ Weight(k) \in Nat
  BY PowerZero, WeightFacts
<1>5. Power(10, n * k + 0) = Weight(k)
  BY <1>3, <1>4
<1>6. QED
  BY <1>1, <1>2, <1>5 DEF Ten

LEMMA DigitShift ==
  ASSUME NEW m \in Int, NEW e \in Int, NEW k \in Nat
  PROVE  Canonical(m * Weight(k), e * DEC_DIGITS_PER_DIGIT)
           = Canonical(m, (e + k) * DEC_DIGITS_PER_DIGIT)
<1> DEFINE i == e * DEC_DIGITS_PER_DIGIT
           j == (e + k) * DEC_DIGITS_PER_DIGIT
<1>1. i \in Int /\ j \in Int /\ i =< j /\ Weight(k) = Ten(i, j)
  BY WeightTen
<1> HIDE DEF i, j
<1>2. Canonical(m * Ten(i, j), i) = Canonical(m, j)
  BY <1>1, CanonicalShift
<1>3. QED
  BY <1>1, <1>2 DEF i, j

(* Zeros at the end go into the exponent: the number stays the same. *)
LEMMA TrimmedNumber ==
  ASSUME NEW v \in Nat \ {0}, NEW n \in Nat, v < Weight(n), NEW exp \in Int, NEW s \in Int,
         exp + TrailingZeroDigits(v, n) \in INT32_MIN .. FPDEC_MAX_EXP
  PROVE  LET d == Trimmed(v, n, exp)
         IN  /\ d.exp = exp + TrailingZeroDigits(v, n)
             /\ Canonical(s * d.coeff, d.exp * DEC_DIGITS_PER_DIGIT)
                  = Canonical(s * v, exp * DEC_DIGITS_PER_DIGIT)
<1> DEFINE d == Trimmed(v, n, exp)
           k == TrailingZeroDigits(v, n)
<1>1. k \in 0 .. n - 1 /\ d.coeff \in Nat /\ v = d.coeff * Weight(k) /\ d.exp = Int32(exp + k)
  BY TrimmedFacts
<1>2. d.exp = exp + k
  BY <1>1, Int32Facts
<1> DEFINE c == d.coeff
<1> HIDE DEF d, k, c
<1>3. k \in Nat /\ Weight(k) \in Nat /\ c \in Nat /\ v = c * Weight(k)
  BY <1>1, WeightFacts DEF c
<1>4. s * v = (s * c) * Weight(k) /\ s * c \in Int
  BY <1>3
<1>5. Canonical((s * c) * Weight(k), exp * DEC_DIGITS_PER_DIGIT)
        = Canonical(s * c, (exp + k) * DEC_DIGITS_PER_DIGIT)
  BY <1>3, <1>4, DigitShift
<1>6. Canonical(s * d.coeff, d.exp * DEC_DIGITS_PER_DIGIT) = Canonical(s * v, exp * DEC_DIGITS_PER_DIGIT)
  BY <1>2, <1>4, <1>5 DEF c
<1>7. QED
  BY <1>2, <1>6 DEF d, k

-----------------------------------------------------------------------------
(***************************************************************************)
(* A decimal the functions may be given: a value of fpdec_t in the form    *)
(* they take for granted.                                                  *)
(***************************************************************************)
Operand(a) == a \in Decimals /\ WellFormed(a) /\ PrecCoversDigits(a)

(* CEIL of the places of a shifted int: one digit, or none. *)
LEMMA DigitsOfPrec ==
  ASSUME NEW p \in 0 .. MAX_DEC_PREC_FOR_SHINT
  PROVE  CEIL(p, DEC_DIGITS_PER_DIGIT) = IF p = 0 THEN 0 ELSE 1
<1>1. PICK n \in Nat \ {0} : n = DEC_DIGITS_PER_DIGIT /\ p \in Nat /\ p < n
  BY Limits
<1>2. CASE p = 0
  <2>1. (-p) \div n = 0
    BY <1>1, <1>2
  <2>2. QED
    BY <1>1, <1>2, <2>1 DEF CEIL
<1>3. CASE p # 0
  <2>1. (-p) \div n = -1
    BY <1>1, <1>3, Z3
  <2>2. QED
    BY <1>1, <1>3, <2>1 DEF CEIL
<1>4. QED
  BY <1>2, <1>3

(***************************************************************************)
(* The digits of an operand that is not 0 are stripped, those of a shifted *)
(* int are near the point, and both stand for the number.                  *)
(***************************************************************************)
LEMMA DynDigits ==
  ASSUME NEW a, Operand(a), a.sign # 0, a.dyn
  PROVE  LET d == DigitsOf(a)
         IN  /\ Stripped(d) /\ d.exp \in INT32_MIN .. FPDEC_MAX_EXP
             /\ Number(a) = Canonical(a.sign * d.coeff, d.exp * DEC_DIGITS_PER_DIGIT)
             /\ d.coeff = a.coeff /\ d.n = a.n /\ d.exp = a.exp
<1>1. a.coeff \in Nat \ {0} /\ a.coeff % RADIX # 0 /\ a.n = DigitCount[a.coeff]
      /\ a.exp \in INT32_MIN .. FPDEC_MAX_EXP
  BY DEF Operand, Decimals, WellFormed
<1>2. /\ DigitCount[a.coeff] \in Nat \ {0}
      /\ Weight(DigitCount[a.coeff] - 1) =< a.coeff /\ a.coeff < Weight(DigitCount[a.coeff])
  BY <1>1, DigitCountRange
<1>3. DigitsOf(a) = [coeff |-> a.coeff, n |-> a.n, exp |-> a.exp]
  BY DEF DigitsOf
<1>4. QED
  BY <1>1, <1>2, <1>3 DEF Stripped, Number

(* The digits a shifted int is converted to. *)
LEMMA ShintDigits ==
  ASSUME NEW coeff \in Nat \ {0}, coeff < SHINT_LIMIT, NEW p \in 0 .. MAX_DEC_PREC_FOR_SHINT,
         NEW s \in Int
  PROVE  LET d == du64_to_digits(coeff, p)
         IN  /\ Stripped(d) /\ d.exp \in -1 .. 1 /\ d.n + d.exp =< 2
             /\ Canonical(s * d.coeff, d.exp * DEC_DIGITS_PER_DIGIT) = Canonical(s * coeff, -p)
<1> DEFINE k == CEIL(p, DEC_DIGITS_PER_DIGIT)
           v == coeff * u64_10_pow_n(k * DEC_DIGITS_PER_DIGIT - p)
           n == DigitCount[v]
           d == Trimmed(v, n, -k)
<1>1. PICK r \in Nat \ {0} : /\ r = DEC_DIGITS_PER_DIGIT
                             /\ MAX_DEC_PREC_FOR_SHINT \in Nat /\ MAX_DEC_PREC_FOR_SHINT + 1 < r
                             /\ p \in Nat /\ p < r
  BY Limits
<1>2. k = IF p = 0 THEN 0 ELSE 1
  BY DigitsOfPrec
<1>3. du64_to_digits(coeff, p) = d
  BY DEF du64_to_digits
<1> HIDE DEF k
<1>4. /\ (-k) * r \in Int /\ -p \in Int /\ (-k) * r =< -p /\ k * r - p = (-p) - ((-k) * r)
      /\ k * r - p \in Nat
  BY <1>1, <1>2
<1>5. v = coeff * Ten((-k) * r, -p)
  BY <1>1, <1>4 DEF Ten, u64_10_pow_n
<1>6. Ten((-k) * r, -p) \in Nat \ {0}
  BY <1>4, TenType
<1>7. v \in Nat \ {0}
  BY <1>5, <1>6
<1>8. v < Weight(2 + k)
  <2>1. coeff < Power(10, r + MAX_DEC_PREC_FOR_SHINT + 1)
    <3>1. r + MAX_DEC_PREC_FOR_SHINT + 1 \in Nat
      BY <1>1
    <3>2. Power(10, r + MAX_DEC_PREC_FOR_SHINT + 1) \in Nat /\ SHINT_LIMIT \in Nat
      BY <3>1, PowersOf10, Limits
    <3>3. QED
      BY <1>1, <3>2, ShintRange
  <2>2. /\ r + MAX_DEC_PREC_FOR_SHINT + 1 \in Nat
        /\ (r + MAX_DEC_PREC_FOR_SHINT + 1) + (k * r - p) =< r * (2 + k) + 0
        /\ (r + MAX_DEC_PREC_FOR_SHINT + 1) + (k * r - p) \in Nat /\ r * (2 + k) + 0 \in Nat
        /\ 2 + k \in Nat
    BY <1>1, <1>2
  <2>3. Power(10, (r + MAX_DEC_PREC_FOR_SHINT + 1) + (k * r - p))
          = Power(10, r + MAX_DEC_PREC_FOR_SHINT + 1) * Power(10, k * r - p)
    BY <1>4, <2>2, PowerSum, 10 \in Nat \ {0}
  <2>4. Power(10, (r + MAX_DEC_PREC_FOR_SHINT + 1) + (k * r - p)) =< Power(10, r * (2 + k) + 0)
    BY <2>2, PowerOrder, 10 \in Nat /\ 10 >= 2
  <2>5. Power(10, r * (2 + k) + 0) = Weight(2 + k)
    <3>1. Power(10, r * (2 + k) + 0) = Weight(2 + k) * Power(10, 0)
      BY <1>1, <2>2, PowerWeight
    <3>2. QED
      BY <2>2, <3>1, PowerZero, WeightFacts
  <2>6. ASSUME NEW f \in Nat \ {0}, NEW b \in Nat, coeff < b PROVE coeff * f < b * f
    <3>1. (coeff + 1) * f =< b * f
      BY <2>6
    <3>2. (coeff + 1) * f = coeff * f + f /\ coeff * f \in Nat /\ b * f \in Nat
      OBVIOUS
    <3>3. QED
      BY <3>1, <3>2
  <2>7. /\ Power(10, k * r - p) \in Nat \ {0} /\ Weight(2 + k) \in Nat
        /\ Power(10, r + MAX_DEC_PREC_FOR_SHINT + 1) \in Nat
    BY <1>4, <2>2, PowersOf10, WeightFacts
  <2>8. v = coeff * Power(10, k * r - p)
    BY <1>1 DEF u64_10_pow_n
  <2> HIDE DEF v
  <2>9. v < Power(10, r + MAX_DEC_PREC_FOR_SHINT + 1) * Power(10, k * r - p)
    BY <2>1, <2>6, <2>7, <2>8
  <2>10. Power(10, r + MAX_DEC_PREC_FOR_SHINT + 1) * Power(10, k * r - p) \in Nat
    BY <2>7
  <2>11. QED
    BY <1>7, <2>3, <2>4, <2>5, <2>7, <2>9, <2>10
<1> HIDE DEF v
<1>9. n \in Nat \ {0} /\ Weight(n - 1) =< v /\ v < Weight(n) /\ n =< 2 + k
  <2>1. 2 + k \in Nat
    BY <1>2
  <2>2. QED
    BY <1>7, <1>8, <2>1, DigitCountRange, DigitCountBounds
<1> HIDE DEF n
<1> DEFINE t == TrailingZeroDigits(v, n)
<1>10. t \in 0 .. n - 1 /\ d.n = n - t /\ Stripped(d)
  <2>1. -k \in Int
    BY <1>2
  <2>2. QED
    BY <1>7, <1>9, <2>1, TrimmedFacts
<1> HIDE DEF t
<1>11. -k + t \in INT32_MIN .. FPDEC_MAX_EXP /\ -k + t \in -1 .. 1 /\ (n - t) + (-k + t) =< 2
  BY <1>2, <1>9, <1>10, Limits
<1>12. /\ d.exp = -k + t
       /\ Canonical(s * d.coeff, d.exp * DEC_DIGITS_PER_DIGIT)
            = Canonical(s * v, (-k) * DEC_DIGITS_PER_DIGIT)
  <2>1. PICK e \in Int : e = -k
    BY <1>2
  <2>2. v \in Nat \ {0} /\ n \in Nat /\ v < Weight(n) /\ e + TrailingZeroDigits(v, n) \in INT32_MIN .. FPDEC_MAX_EXP
    BY <1>7, <1>9, <1>11, <2>1 DEF t
  <2>3. LET f == Trimmed(v, n, e)
        IN  /\ f.exp = e + TrailingZeroDigits(v, n)
            /\ Canonical(s * f.coeff, f.exp * DEC_DIGITS_PER_DIGIT) = Canonical(s * v, e * DEC_DIGITS_PER_DIGIT)
    BY <2>2, TrimmedNumber, ZenonT(60)
  <2>4. QED
    BY <2>1, <2>3 DEF t
<1>13. Canonical(s * v, (-k) * r) = Canonical(s * coeff, -p)
  <2>1. s * v = (s * coeff) * Ten((-k) * r, -p) /\ s * coeff \in Int
    BY <1>5, <1>6
  <2>2. Canonical((s * coeff) * Ten((-k) * r, -p), (-k) * r) = Canonical(s * coeff, -p)
    BY <1>4, <2>1, CanonicalShift
  <2>3. QED
    BY <2>1, <2>2
<1> HIDE DEF d
<1>14. QED
  BY <1>1, <1>3, <1>10, <1>11, <1>12, <1>13

(* The digits of an operand, in both representations. *)
LEMMA OperandDigits ==
  ASSUME NEW a, Operand(a), a.sign # 0
  PROVE  LET d == DigitsOf(a)
         IN  /\ Stripped(d) /\ d.exp \in INT32_MIN .. FPDEC_MAX_EXP
             /\ Number(a) = Canonical(a.sign * d.coeff, d.exp * DEC_DIGITS_PER_DIGIT)
             /\ ~a.dyn => d.exp \in -1 .. 1 /\ d.n + d.exp =< 2
<1>1. CASE a.dyn
  BY <1>1, DynDigits
<1>2. CASE ~a.dyn
  <2>1. /\ a.coeff \in Nat \ {0} /\ a.coeff < SHINT_LIMIT
        /\ a.dec_prec \in 0 .. MAX_DEC_PREC_FOR_SHINT /\ a.sign \in Int
    BY <1>2, Limits DEF Operand, Decimals, WellFormed
  <2> DEFINE d == du64_to_digits(a.coeff, a.dec_prec)
  <2>2. DigitsOf(a) = d /\ Number(a) = Canonical(a.sign * a.coeff, -a.dec_prec)
    BY <1>2 DEF DigitsOf, Number
  <2>3. /\ Stripped(d) /\ d.exp \in -1 .. 1 /\ d.n + d.exp =< 2
        /\ Canonical(a.sign * d.coeff, d.exp * DEC_DIGITS_PER_DIGIT)
             = Canonical(a.sign * a.coeff, -a.dec_prec)
    BY <2>1, ShintDigits
  <2> HIDE DEF d
  <2>4. d.exp \in INT32_MIN .. FPDEC_MAX_EXP
    BY <2>3, Limits
  <2>5. QED
    BY <2>2, <2>3, <2>4
<1>3. QED
  BY <1>1, <1>2

(* Digits without zeros at their end; the exponent is an int32_t. *)
LEMMA StrippedZeros ==
  ASSUME NEW c \in Nat \ {0}, NEW e \in Int, NEW d, d = Trimmed(c, DigitCount[c], e)
  PROVE  /\ Stripped(d) /\ d.exp \in INT32_MIN .. FPDEC_MAX_EXP
         /\ TrailingZeroDigits(c, DigitCount[c]) \in 0 .. DigitCount[c] - 1
         /\ d.n = DigitCount[c] - TrailingZeroDigits(c, DigitCount[c])
         /\ d.exp = Int32(e + TrailingZeroDigits(c, DigitCount[c]))
<1> DEFINE n == DigitCount[c]
<1>1. n \in Nat /\ Weight(n - 1) =< c /\ c < Weight(n)
  BY DigitCountRange
<1> HIDE DEF n
<1> DEFINE k == TrailingZeroDigits(c, n)
<1>2. k \in 0 .. n - 1 /\ Stripped(d) /\ d.n = n - k /\ d.exp = Int32(e + k)
  BY <1>1, TrimmedFacts DEF n
<1> HIDE DEF k
<1>3. d.exp \in INT32_MIN .. FPDEC_MAX_EXP
  <2>1. e + k \in Int
    BY <1>1, <1>2
  <2>2. QED
    BY <1>2, <2>1, Int32Facts
<1>4. QED
  BY <1>2, <1>3 DEF n, k

LEMMA NoDigits ==
  ASSUME NEW e \in Int
  PROVE  Trimmed(0, DigitCount[0], e).n = 0
<1>1. DigitCount[0] = 0
  <2>1. PICK v \in Nat : v = 0
    OBVIOUS
  <2>2. Counts(RADIX, v, DigitCount[v])
    BY DigitCountFacts
  <2>3. QED
    BY <2>1, <2>2 DEF Counts
<1>2. PICK n \in Nat : n = 0
  OBVIOUS
<1>3. LET k == TrailingZeroDigits(n, n)
      IN  k \in 0 .. n
  BY TrailingZeroDigitsFacts
<1>4. QED
  BY <1>1, <1>2, <1>3 DEF Trimmed

LEMMA QuotientAndRest ==
  ASSUME NEW v \in Nat, NEW d \in Nat \ {0}
  PROVE  v \div d \in Nat /\ v % d \in 0 .. d - 1 /\ v = (v \div d) * d + (v % d)
<1>1. v \div d \in Nat /\ v % d \in 0 .. d - 1 /\ v = d * (v \div d) + (v % d)
  BY Z3
<1>2. d * (v \div d) = (v \div d) * d
  BY <1>1
<1>3. QED
  BY <1>1, <1>2

(* A product that fits is returned. *)
LEMMA ImulExact ==
  ASSUME NEW v \in Nat, NEW w \in Nat, v * w < U128
  PROVE  u128_imul_u64(v, w) = v * w
<1>1. PICK n \in Nat \ {0} : n = U64 /\ n * n = U128
  BY Words128
<1>2. PICK h \in Nat : h = v \div n /\ h * n =< v
  <2>1. v \div n \in Nat /\ v % n \in 0 .. n - 1 /\ v = (v \div n) * n + (v % n)
    BY QuotientAndRest
  <2>2. PICK h \in Nat, l \in 0 .. n - 1 : h = v \div n /\ l = v % n
    BY <2>1
  <2>3. v = h * n + l /\ h * n \in Nat
    BY <2>1, <2>2
  <2>4. h * n =< v
    BY <2>3
  <2>5. QED
    BY <2>2, <2>4
<1>3. PICK k \in Nat, u \in Nat : k = v * w /\ u = n * n /\ k < u
  <2>1. v * w \in Nat /\ n * n \in Nat
    OBVIOUS
  <2>2. QED
    BY <1>1, <2>1
<1>4. ~(h * w >= n)
  <2>1. SUFFICES ASSUME h * w >= n PROVE FALSE
    OBVIOUS
  <2>2. PICK i \in Nat : i = h * w /\ i >= n
    BY <2>1
  <2>3. i * n >= n * n /\ i * n \in Nat
    BY <2>2
  <2>4. i * n = (h * n) * w
    <3>1. (h * w) * n = (h * n) * w
      OBVIOUS
    <3>2. QED
      BY <2>2, <3>1
  <2>5. PICK j \in Nat : j = h * n /\ j =< v
    BY <1>2
  <2>6. j * w =< v * w
    BY <2>5
  <2>7. QED
    BY <1>3, <2>3, <2>4, <2>5, <2>6
<1>5. u128_imul_u64(v, w) = k % u
  BY <1>1, <1>2, <1>3, <1>4, Zenon DEF u128_imul_u64
<1>6. k % u = k
  BY <1>3, Z3
<1>7. QED
  BY <1>3, <1>5, <1>6

=============================================================================
