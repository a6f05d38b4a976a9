------------------------------ MODULE TextProofs ------------------------------
(***************************************************************************)
(* Numbers read from text, word by word and digit by digit, are those of   *)
(* the decimal digits; and a number taken apart into sign, coefficient and *)
(* exponent is the number.                                                 *)
(***************************************************************************)
EXTENDS Text, DecimalLemmas, SequenceTheorems

-----------------------------------------------------------------------------
(* Decimal digits and the numbers they write. *)

LEMMA DigitValueRange ==
  ASSUME NEW c \in Digits
  PROVE  DigitValue(c) \in 0 .. 9
BY DEF Digits, DigitValue, DigitChars

(* f[k] is what the first k digits of s write. *)
Reads(f, s) ==
  /\ f \in [0 .. Len(s) -> Nat] /\ f[0] = 0
  /\ \A k \in 1 .. Len(s) : f[k] = 10 * f[k - 1] + DigitValue(s[k])

NumberStep(s) ==
  [p \in Nat \X Nat |-> IF p[2] \in 1 .. Len(s) THEN 10 * p[1] + DigitValue(s[p[2]]) ELSE 0]

LEMMA NumberStepFacts ==
  ASSUME NEW s \in Seq(Digits)
  PROVE  /\ NumberStep(s) \in [Nat \X Nat -> Nat]
         /\ \A v \in Nat, k \in 1 .. Len(s) : NumberStep(s)[<< v, k >>] = 10 * v + DigitValue(s[k])
<1>1. Len(s) \in Nat
  BY LenProperties
<1>2. \A k \in 1 .. Len(s) : DigitValue(s[k]) \in Nat
  <2>1. ASSUME NEW k \in 1 .. Len(s) PROVE DigitValue(s[k]) \in Nat
    <3>1. s[k] \in Digits
      BY ElementOfSeq
    <3>2. DigitValue(s[k]) \in 0 .. 9
      BY <3>1, DigitValueRange
    <3>3. QED
      BY <3>2
  <2>2. QED
    BY <2>1
<1>3. \A p \in Nat \X Nat : (IF p[2] \in 1 .. Len(s) THEN 10 * p[1] + DigitValue(s[p[2]]) ELSE 0) \in Nat
  BY <1>2
<1>4. \A v \in Nat, k \in 1 .. Len(s) : << v, k >> \in Nat \X Nat
  BY <1>1
<1>5. QED
  BY <1>3, <1>4 DEF NumberStep

LEMMA NumberReads ==
  ASSUME NEW s \in Seq(Digits)
  PROVE  \E f : Reads(f, s) /\ NumberIn(s) = f[Len(s)]
<1> DEFINE rec(f) == f = [k \in 0 .. Len(s) |-> IF k = 0 THEN 0 ELSE 10 * f[k - 1] + DigitValue(s[k])]
<1> DEFINE v == CHOOSE f : rec(f)
<1>1. PICK n \in Nat : n = Len(s)
  BY LenProperties
<1>2. PICK f \in [0 .. n -> Nat] : Unfolds(f, 0, NumberStep(s), n)
  <2>1. NumberStep(s) \in [Nat \X Nat -> Nat]
    BY NumberStepFacts
  <2>2. QED
    BY <2>1, RecursionExists
<1>3. \A k \in 0 .. n : f[k] = IF k = 0 THEN 0 ELSE 10 * f[k - 1] + DigitValue(s[k])
  <2>1. ASSUME NEW k \in 0 .. n, k # 0
        PROVE  NumberStep(s)[<< f[k - 1], k >>] = 10 * f[k - 1] + DigitValue(s[k])
    <3>1. k - 1 \in 0 .. n /\ k \in 1 .. Len(s)
      BY <1>1, <2>1
    <3>2. PICK w \in Nat : w = f[k - 1]
      BY <3>1
    <3>3. NumberStep(s)[<< w, k >>] = 10 * w + DigitValue(s[k])
      BY <3>1, NumberStepFacts
    <3>4. QED
      BY <3>2, <3>3
  <2>2. \A k \in 0 .. n : f[k] = IF k = 0 THEN 0 ELSE NumberStep(s)[<< f[k - 1], k >>]
    BY <1>2 DEF Unfolds
  <2>3. ASSUME NEW k \in 0 .. n
        PROVE  f[k] = IF k = 0 THEN 0 ELSE 10 * f[k - 1] + DigitValue(s[k])
    BY <2>1, <2>2, Zenon
  <2>4. QED
    BY <2>3
<1>4. rec(f)
  <2>1. f = [k \in 0 .. n |-> f[k]]
    OBVIOUS
  <2>2. f = [k \in 0 .. n |-> IF k = 0 THEN 0 ELSE 10 * f[k - 1] + DigitValue(s[k])]
    BY <1>3, <2>1, Zenon
  <2>3. QED
    BY <1>1, <2>2
<1>5. rec(v)
  BY <1>4
<1>6. NumberIn(s) = v[n]
  BY <1>1 DEF NumberIn
<1> HIDE DEF v
<1>7. \A k \in 0 .. n : v[k] = IF k = 0 THEN 0 ELSE 10 * v[k - 1] + DigitValue(s[k])
  BY <1>1, <1>5
<1> DEFINE S == {k \in Nat : k =< n => v[k] = f[k]}
<1>8. 0 \in S
  <2>1. 0 \in 0 .. n
    OBVIOUS
  <2>2. v[0] = 0 /\ f[0] = 0
    BY <1>3, <1>7, <2>1
  <2>3. QED
    BY <2>2
<1>9. ASSUME NEW k \in Nat, k \in S PROVE k + 1 \in S
  <2>1. SUFFICES ASSUME k + 1 =< n PROVE v[k + 1] = f[k + 1]
    OBVIOUS
  <2>2. v[k] = f[k]
    BY <1>9, <2>1
  <2>3. PICK i : i = k + 1 /\ i \in 0 .. n /\ i # 0 /\ i - 1 = k
    BY <2>1
  <2>4. v[i] = 10 * v[k] + DigitValue(s[i]) /\ f[i] = 10 * f[k] + DigitValue(s[i])
    BY <1>3, <1>7, <2>3
  <2>5. QED
    BY <2>2, <2>3, <2>4
<1> HIDE DEF S
<1>10. \A k \in Nat : k \in S
  BY <1>8, <1>9, SetInduction
<1>11. v[n] = f[n]
  BY <1>10 DEF S
<1>12. Reads(f, s)
  <2>1. f \in [0 .. Len(s) -> Nat] /\ f[0] = 0
    BY <1>1, <1>3
  <2>2. ASSUME NEW k \in 1 .. Len(s) PROVE f[k] = 10 * f[k - 1] + DigitValue(s[k])
    <3>1. k \in 0 .. n /\ k # 0
      BY <1>1
    <3>2. QED
      BY <1>3, <3>1
  <2>3. QED
    BY <2>1, <2>2 DEF Reads
<1>13. QED
  BY <1>1, <1>6, <1>11, <1>12

(* A part of some digits, read after i of them. *)
LEMMA ReadsPart ==
  ASSUME NEW s \in Seq(Digits), NEW f, Reads(f, s), NEW t \in Seq(Digits), NEW g, Reads(g, t),
         NEW i \in Nat, i + Len(t) =< Len(s), \A k \in 1 .. Len(t) : t[k] = s[i + k]
  PROVE  \A k \in 0 .. Len(t) : f[i + k] = f[i] * Power(10, k) + g[k] /\ g[k] < Power(10, k)
<1>1. PICK m \in Nat, n \in Nat : m = Len(t) /\ n = Len(s) /\ i + m =< n
  BY LenProperties
<1> DEFINE S == {k \in Nat : k =< m => f[i + k] = f[i] * Power(10, k) + g[k] /\ g[k] < Power(10, k)}
<1>2. 0 \in S
  <2>1. Power(10, 0) = 1 /\ i \in 0 .. n
    BY <1>1, PowerZero
  <2>2. f[i] \in Nat /\ g[0] = 0 /\ i + 0 = i
    BY <1>1, <2>1 DEF Reads
  <2>3. QED
    BY <2>1, <2>2
<1>3. ASSUME NEW k \in Nat, k \in S PROVE k + 1 \in S
  <2>1. SUFFICES ASSUME k + 1 =< m
                 PROVE  f[i + (k + 1)] = f[i] * Power(10, k + 1) + g[k + 1] /\ g[k + 1] < Power(10, k + 1)
    OBVIOUS
  <2>2. PICK j : j = k + 1 /\ j \in 1 .. m /\ j - 1 = k
    BY <2>1
  <2>3. PICK l : l = i + j /\ l \in 1 .. n /\ l - 1 = i + k
    BY <1>1, <2>2
  <2>4. f[l] = 10 * f[i + k] + DigitValue(s[l]) /\ g[j] = 10 * g[k] + DigitValue(t[j])
    BY <1>1, <2>2, <2>3 DEF Reads
  <2>5. t[j] = s[l]
    BY <1>1, <2>2, <2>3
  <2>6. PICK d \in 0 .. 9 : d = DigitValue(t[j])
    <3>1. t[j] \in Digits
      BY <1>1, <2>2, ElementOfSeq
    <3>2. QED
      BY <3>1, DigitValueRange
  <2>7. PICK p \in Nat \ {0} : p = Power(10, k) /\ Power(10, j) = 10 * p
    BY <2>2, PowersOf10
  <2>8. PICK a1 \in Nat, b1 \in Nat : a1 = f[i] /\ b1 = g[k]
    <3>1. i \in 0 .. n /\ k \in 0 .. m
      BY <1>1, <2>2
    <3>2. QED
      BY <1>1, <3>1 DEF Reads
  <2>9. f[i + k] = a1 * p + b1 /\ b1 < p
    BY <1>3, <2>1, <2>7, <2>8
  <2>10. f[l] = 10 * (a1 * p + b1) + d /\ g[j] = 10 * b1 + d
    BY <2>4, <2>5, <2>6, <2>8, <2>9
  <2>11. 10 * (a1 * p + b1) + d = a1 * (10 * p) + (10 * b1 + d) /\ 10 * b1 + d < 10 * p
    BY <2>9
  <2>12. QED
    BY <2>2, <2>3, <2>7, <2>8, <2>10, <2>11
<1> HIDE DEF S
<1>4. \A k \in Nat : k \in S
  BY <1>2, <1>3, SetInduction
<1>5. ASSUME NEW k \in 0 .. Len(t)
      PROVE  f[i + k] = f[i] * Power(10, k) + g[k] /\ g[k] < Power(10, k)
  <2>1. k \in Nat /\ k =< m
    BY <1>1
  <2>2. k \in S
    BY <1>4, <2>1
  <2>3. QED
    BY <2>1, <2>2 DEF S
<1>6. QED
  BY <1>5

LEMMA NumberBelow ==
  ASSUME NEW s \in Seq(Digits)
  PROVE  NumberIn(s) \in Nat /\ NumberIn(s) < Power(10, Len(s))
<1>1. PICK f : Reads(f, s) /\ NumberIn(s) = f[Len(s)]
  BY NumberReads
<1>2. PICK n \in Nat : n = Len(s)
  BY LenProperties
<1>3. 0 + Len(s) =< Len(s) /\ \A k \in 1 .. Len(s) : s[k] = s[0 + k]
  BY <1>2
<1>4. \A k \in 0 .. Len(s) : f[k] < Power(10, k)
  BY <1>1, <1>3, ReadsPart
<1>5. n \in 0 .. Len(s) /\ f[n] \in Nat
  BY <1>1, <1>2 DEF Reads
<1>6. QED
  BY <1>1, <1>2, <1>4, <1>5

(* What the digits i + 1 .. j of s write. *)
WrittenBy(s, i, j) == NumberIn(SubSeq(s, i + 1, j))

LEMMA PartSequence ==
  ASSUME NEW s \in Seq(Digits), NEW i \in Nat, NEW j \in Nat, i =< j, j =< Len(s)
  PROVE  /\ SubSeq(s, i + 1, j) \in Seq(Digits) /\ Len(SubSeq(s, i + 1, j)) = j - i
         /\ \A k \in 1 .. j - i : SubSeq(s, i + 1, j)[k] = s[i + k]
<1>1. PICK n \in Nat : n = Len(s) /\ j =< n
  BY LenProperties
<1>2. PICK m \in Int : m = i + 1 /\ j - m + 1 = j - i
  OBVIOUS
<1>3. \A k \in m .. j : s[k] \in Digits
  <2>1. ASSUME NEW k \in m .. j PROVE s[k] \in Digits
    <3>1. k \in 1 .. Len(s)
      BY <1>1, <1>2
    <3>2. QED
      BY <3>1, ElementOfSeq
  <2>2. QED
    BY <2>1
<1>4. /\ SubSeq(s, m, j) \in Seq(Digits)
      /\ Len(SubSeq(s, m, j)) = IF m =< j THEN j - m + 1 ELSE 0
      /\ \A k \in 1 .. j - m + 1 : SubSeq(s, m, j)[k] = s[m + k - 1]
  BY <1>3, SubSeqProperties
<1>5. Len(SubSeq(s, m, j)) = j - i
  BY <1>2, <1>4
<1>6. ASSUME NEW k \in 1 .. j - i PROVE SubSeq(s, m, j)[k] = s[i + k]
  <2>1. m + k - 1 = i + k /\ k \in 1 .. j - m + 1
    BY <1>2
  <2>2. QED
    BY <1>4, <2>1
<1>7. QED
  BY <1>2, <1>4, <1>5, <1>6

LEMMA PartBelow ==
  ASSUME NEW s \in Seq(Digits), NEW i \in Nat, NEW j \in Nat, i =< j, j =< Len(s)
  PROVE  WrittenBy(s, i, j) \in Nat /\ WrittenBy(s, i, j) < Power(10, j - i)
<1>1. PICK t : t = SubSeq(s, i + 1, j) /\ t \in Seq(Digits) /\ Len(t) = j - i
  BY PartSequence
<1>2. NumberIn(t) \in Nat /\ NumberIn(t) < Power(10, Len(t))
  BY <1>1, NumberBelow
<1>3. QED
  BY <1>1, <1>2 DEF WrittenBy

LEMMA PartRead ==
  ASSUME NEW s \in Seq(Digits), NEW f, Reads(f, s), NEW i \in Nat, NEW j \in Nat, i =< j, j =< Len(s)
  PROVE  f[j] = f[i] * Power(10, j - i) + WrittenBy(s, i, j)
<1> DEFINE t == SubSeq(s, i + 1, j)
<1>1. /\ t \in Seq(Digits) /\ Len(t) = j - i
      /\ \A k \in 1 .. j - i : t[k] = s[i + k]
  BY PartSequence
<1>2. WrittenBy(s, i, j) = NumberIn(t)
  BY DEF WrittenBy
<1> HIDE DEF t
<1>3. PICK g : Reads(g, t) /\ NumberIn(t) = g[Len(t)]
  BY <1>1, NumberReads
<1>4. Len(s) \in Nat
  BY LenProperties
<1>5. i + Len(t) =< Len(s) /\ \A k \in 1 .. Len(t) : t[k] = s[i + k]
  BY <1>1, <1>4
<1>6. \A k \in 0 .. Len(t) : f[i + k] = f[i] * Power(10, k) + g[k] /\ g[k] < Power(10, k)
  BY <1>1, <1>3, <1>5, ReadsPart
<1>7. Len(t) \in 0 .. Len(t) /\ i + Len(t) = j
  BY <1>1
<1>8. f[i + Len(t)] = f[i] * Power(10, Len(t)) + g[Len(t)]
  BY <1>6, <1>7
<1>9. QED
  BY <1>1, <1>2, <1>3, <1>7, <1>8

(* Digits before and after one of them. *)
LEMMA PartsJoin ==
  ASSUME NEW s \in Seq(Digits), NEW i \in Nat, NEW j \in Nat, i =< j, j =< Len(s)
  PROVE  /\ WrittenBy(s, 0, i) \in Nat /\ WrittenBy(s, i, j) \in Nat
         /\ WrittenBy(s, 0, j) = WrittenBy(s, 0, i) * Power(10, j - i) + WrittenBy(s, i, j)
<1>1. PICK f : Reads(f, s)
  BY NumberReads
<1>2. PICK n \in Nat : n = Len(s) /\ i =< n
  BY LenProperties
<1>3. f[0] = 0 /\ 0 \in Nat
  BY <1>1 DEF Reads
<1>4. f[j] = f[i] * Power(10, j - i) + WrittenBy(s, i, j)
  BY <1>1, PartRead
<1>5. ASSUME NEW k \in Nat, k =< n PROVE f[k] = WrittenBy(s, 0, k)
  <2>1. f[k] = f[0] * Power(10, k - 0) + WrittenBy(s, 0, k)
    <3>1. 0 =< k /\ k =< Len(s)
      BY <1>2, <1>5
    <3>2. QED
      BY <1>1, <1>3, <3>1, PartRead
  <2>2. k - 0 = k
    OBVIOUS
  <2>3. Power(10, k) \in Nat
    BY PowersOf10
  <2>4. WrittenBy(s, 0, k) \in Nat
    <3>1. 0 =< k /\ k =< Len(s)
      BY <1>2, <1>5
    <3>2. QED
      BY <1>3, <3>1, PartBelow
  <2>5. QED
    BY <1>3, <2>1, <2>2, <2>3, <2>4
<1>6. f[i] = WrittenBy(s, 0, i) /\ f[j] = WrittenBy(s, 0, j)
  BY <1>2, <1>5
<1>7. WrittenBy(s, 0, i) \in Nat /\ WrittenBy(s, i, j) \in Nat
  BY <1>2, <1>3, PartBelow
<1>8. QED
  BY <1>4, <1>6, <1>7

LEMMA WholePart ==
  ASSUME NEW s \in Seq(Digits)
  PROVE  WrittenBy(s, 0, Len(s)) = NumberIn(s)
<1>1. SubSeq(s, 1, Len(s)) = s /\ 0 + 1 = 1
  BY SubSeqFull
<1>2. QED
  BY <1>1 DEF WrittenBy

LEMMA NoPart ==
  ASSUME NEW s \in Seq(Digits)
  PROVE  WrittenBy(s, 0, 0) = 0
<1>1. Len(s) \in Nat /\ 0 \in Nat
  BY LenProperties
<1>2. WrittenBy(s, 0, 0) \in Nat /\ WrittenBy(s, 0, 0) < Power(10, 0 - 0)
  BY <1>1, PartBelow
<1>3. 0 - 0 = 0 /\ Power(10, 0) = 1
  BY PowerZero
<1>4. QED
  BY <1>2, <1>3

-----------------------------------------------------------------------------
(***************************************************************************)
(* The array of digits. The digits before digit k of the array are the     *)
(* first Ends(n, t, k) of n decimal digits, shifted by t.                  *)
(***************************************************************************)
Ends(n, t, k) == IF k = 0 THEN n ELSE MAX(n + t - k * DEC_DIGITS_PER_DIGIT, 0)

Stop(n, t, k) == MIN(n, n + t - k * DEC_DIGITS_PER_DIGIT)

ArrayDigit(s, t, k) ==
  IF k = 0 THEN WrittenBy(s, MAX(Stop(Len(s), t, 0 + 1), 0), Stop(Len(s), t, 0)) * u64_10_pow_n(t)
  ELSE WrittenBy(s, MAX(Stop(Len(s), t, k + 1), 0), Stop(Len(s), t, k))

(* The number of array digits. *)
LEMMA CeilFacts ==
  ASSUME NEW x \in Nat \ {0}
  PROVE  \E n \in Nat \ {0} : /\ n = CEIL(x, DEC_DIGITS_PER_DIGIT)
                              /\ x =< n * DEC_DIGITS_PER_DIGIT
                              /\ (n - 1) * DEC_DIGITS_PER_DIGIT < x
<1>1. PICK d \in Nat \ {0} : d = DEC_DIGITS_PER_DIGIT
  BY Limits
<1>2. PICK q \in Int, r \in 0 .. d - 1 : q = (-x) \div d /\ -x = d * q + r
  <2>1. (-x) \div d \in Int /\ (-x) % d \in 0 .. d - 1 /\ -x = d * ((-x) \div d) + ((-x) % d)
    BY Z3
  <2>2. QED
    BY <2>1
<1>3. PICK n \in Int : n = -q /\ n = CEIL(x, DEC_DIGITS_PER_DIGIT)
  BY <1>1, <1>2 DEF CEIL
<1>4. n * d = x + r
  <2>1. d * q = -(n * d)
    BY <1>3
  <2>2. n * d \in Int
    OBVIOUS
  <2>3. QED
    BY <1>2, <2>1, <2>2
<1>5. n > 0
  <2>1. SUFFICES ASSUME n =< 0 PROVE FALSE
    OBVIOUS
  <2>2. n * d =< 0
    BY <2>1
  <2>3. QED
    BY <1>4, <2>2
<1>6. (n - 1) * d = n * d - d /\ n * d \in Int
  OBVIOUS
<1>7. x =< n * d /\ (n - 1) * d < x
  BY <1>4, <1>6
<1>8. QED
  BY <1>1, <1>3, <1>5, <1>7

(* Where the parts of the array are. *)
LEMMA EndsFacts ==
  ASSUME NEW n \in Nat \ {0}, NEW t \in 0 .. DEC_DIGITS_PER_DIGIT - 1,
         NEW top \in Nat \ {0}, (top - 1) * DEC_DIGITS_PER_DIGIT < n + t,
         NEW k \in 0 .. top - 1
  PROVE  /\ Ends(n, t, k + 1) \in Nat /\ Ends(n, t, k) \in Nat
         /\ Ends(n, t, k + 1) =< Ends(n, t, k) /\ Ends(n, t, k) =< n
         /\ Stop(n, t, k) = Ends(n, t, k) /\ MAX(Stop(n, t, k + 1), 0) = Ends(n, t, k + 1)
         /\ Ends(n, t, k) - Ends(n, t, k + 1) + (IF k = 0 THEN t ELSE 0) =< DEC_DIGITS_PER_DIGIT
         /\ Ends(n, t, k + 1) # 0 =>
              Ends(n, t, k) - Ends(n, t, k + 1) + (IF k = 0 THEN t ELSE 0) = DEC_DIGITS_PER_DIGIT
<1>1. PICK d \in Nat \ {0} : d = DEC_DIGITS_PER_DIGIT
  BY Limits
<1>2. t \in Nat /\ t < d /\ k \in Nat
  BY <1>1
<1>3. PICK kd \in Nat : kd = k * d /\ (k + 1) * d = kd + d
  BY <1>2
<1>4. kd < n + t
  <2>1. k * d =< (top - 1) * d
    BY <1>2
  <2>2. (top - 1) * d \in Int
    OBVIOUS
  <2>3. QED
    BY <1>1, <1>3, <2>1, <2>2
<1>5. k = 0 => kd = 0
  BY <1>3
<1>6. k # 0 => kd >= d
  <2>1. SUFFICES ASSUME k >= 1 PROVE k * d >= 1 * d
    BY <1>2, <1>3
  <2>2. QED
    BY <1>2, <2>1
<1>7. k + 1 # 0
  BY <1>2
<1>8. Ends(n, t, k) = (IF k = 0 THEN n ELSE MAX(n + t - kd, 0))
  BY <1>1, <1>3 DEF Ends
<1>9. Ends(n, t, k + 1) = MAX(n + t - (kd + d), 0)
  BY <1>1, <1>3, <1>7 DEF Ends
<1>10. Stop(n, t, k) = MIN(n, n + t - kd) /\ Stop(n, t, k + 1) = MIN(n, n + t - (kd + d))
  BY <1>1, <1>3 DEF Stop
<1>11. QED
  BY <1>1, <1>2, <1>4, <1>5, <1>6, <1>8, <1>9, <1>10 DEF MAX, MIN

(* A digit of the array is one of its base, and joins what is before it. *)
LEMMA ArrayDigitFacts ==
  ASSUME NEW s \in Seq(Digits), NEW n \in Nat \ {0}, n = Len(s),
         NEW t \in 0 .. DEC_DIGITS_PER_DIGIT - 1,
         NEW top \in Nat \ {0}, (top - 1) * DEC_DIGITS_PER_DIGIT < n + t,
         NEW k \in 0 .. top - 1
  PROVE  /\ ArrayDigit(s, t, k) \in 0 .. RADIX - 1
         /\ WrittenBy(s, 0, Ends(n, t, k)) * (IF k = 0 THEN Power(10, t) ELSE 1)
              = WrittenBy(s, 0, Ends(n, t, k + 1)) * RADIX + ArrayDigit(s, t, k)
<1>1. PICK i \in Nat, j \in Nat : /\ i = Ends(n, t, k + 1) /\ j = Ends(n, t, k)
                                  /\ i =< j /\ j =< n
                                  /\ Stop(n, t, k) = j /\ MAX(Stop(n, t, k + 1), 0) = i
  <2>1. /\ Ends(n, t, k + 1) \in Nat /\ Ends(n, t, k) \in Nat
        /\ Ends(n, t, k + 1) =< Ends(n, t, k) /\ Ends(n, t, k) =< n
        /\ Stop(n, t, k) = Ends(n, t, k) /\ MAX(Stop(n, t, k + 1), 0) = Ends(n, t, k + 1)
    BY EndsFacts
  <2>2. QED
    BY <2>1
<1>2. PICK x \in Nat : x = IF k = 0 THEN t ELSE 0
  OBVIOUS
<1>3. /\ (j - i) + x =< DEC_DIGITS_PER_DIGIT
      /\ i # 0 => (j - i) + x = DEC_DIGITS_PER_DIGIT
  BY <1>1, <1>2, EndsFacts
<1>4. PICK m \in Nat : m = j - i
  BY <1>1
<1>5. PICK p \in Nat \ {0}, q \in Nat \ {0} : p = Power(10, m) /\ q = Power(10, x)
  BY PowersOf10
<1>6. p * q = Power(10, m + x)
  BY <1>5, PowerSum
<1>7. p * q =< RADIX /\ (i # 0 => p * q = RADIX)
  <2>1. PICK d \in Nat : d = DEC_DIGITS_PER_DIGIT /\ RADIX = Power(10, d)
    BY Limits
  <2>2. m + x \in Nat /\ m + x =< d
    BY <1>3, <1>4, <2>1
  <2>3. Power(10, m + x) =< Power(10, d)
    BY <2>1, <2>2, PowerOrder
  <2>4. i # 0 => m + x = d
    BY <1>3, <1>4, <2>1
  <2>5. QED
    BY <1>6, <2>1, <2>3, <2>4
<1>8. q = IF k = 0 THEN Power(10, t) ELSE 1
  <2>1. Power(10, 0) = 1
    BY PowerZero
  <2>2. QED
    BY <1>2, <1>5, <2>1
<1>9. PICK c \in Nat : c = WrittenBy(s, i, j) /\ c < p
  BY <1>1, <1>4, <1>5, PartBelow
<1>10. ArrayDigit(s, t, k) = c * q
  <2>1. CASE k = 0
    <3>1. Stop(Len(s), t, 0) = j /\ MAX(Stop(Len(s), t, 0 + 1), 0) = i
      BY <1>1, <2>1
    <3>2. ArrayDigit(s, t, k) = WrittenBy(s, i, j) * u64_10_pow_n(t)
      BY <2>1, <3>1 DEF ArrayDigit
    <3>3. QED
      BY <1>8, <1>9, <2>1, <3>2 DEF u64_10_pow_n
  <2>2. CASE k # 0
    <3>1. ArrayDigit(s, t, k) = WrittenBy(s, i, j)
      BY <1>1, <2>2 DEF ArrayDigit
    <3>2. q = 1 /\ c * 1 = c
      BY <1>8, <2>2
    <3>3. QED
      BY <1>9, <3>1, <3>2
  <2>3. QED
    BY <2>1, <2>2
<1>11. PICK cq \in Nat : cq = c * q /\ cq < p * q
  <2>1. c * q < p * q /\ c * q \in Nat
    BY <1>9
  <2>2. QED
    BY <2>1
<1>12. cq < RADIX /\ RADIX \in Nat
  <2>1. p * q \in Nat
    OBVIOUS
  <2>2. QED
    BY <1>7, <1>11, <2>1, RadixPositive
<1>13. PICK u \in Nat : u = WrittenBy(s, 0, i) /\ WrittenBy(s, 0, j) = u * p + c
  <2>1. /\ WrittenBy(s, 0, i) \in Nat
        /\ WrittenBy(s, 0, j) = WrittenBy(s, 0, i) * Power(10, j - i) + WrittenBy(s, i, j)
    BY <1>1, PartsJoin
  <2>2. QED
    BY <1>4, <1>5, <1>9, <2>1
<1>14. (u * p + c) * q = u * (p * q) + cq
  BY <1>11
<1>15. u * (p * q) = u * RADIX
  <2>1. CASE i = 0
    <3>1. u = 0
      BY <1>13, <2>1, NoPart
    <3>2. p * q \in Nat
      OBVIOUS
    <3>3. QED
      BY <1>12, <3>1, <3>2
  <2>2. CASE i # 0
    BY <1>7, <2>2
  <2>3. QED
    BY <2>1, <2>2
<1>16. WrittenBy(s, 0, j) * q = u * RADIX + cq
  BY <1>13, <1>14, <1>15
<1>17. ArrayDigit(s, t, k) = cq /\ cq \in 0 .. RADIX - 1
  BY <1>10, <1>11, <1>12
<1>18. WrittenBy(s, 0, i) = u
  BY <1>13
<1>19. QED
  BY <1>1, <1>8, <1>16, <1>17, <1>18

(* The digits of the array are the number shifted by t. *)
LEMMA ArrayValue ==
  ASSUME NEW s \in Seq(Digits), NEW n \in Nat \ {0}, n = Len(s),
         NEW t \in 0 .. DEC_DIGITS_PER_DIGIT - 1,
         NEW top \in Nat \ {0}, (top - 1) * DEC_DIGITS_PER_DIGIT < n + t,
         n + t =< top * DEC_DIGITS_PER_DIGIT,
         NEW d, \A k \in 0 .. top - 1 : d[k] = ArrayDigit(s, t, k)
  PROVE  Digital(d, top) /\ ValueOf(d, top) = NumberIn(s) * Power(10, t)
<1>1. Digital(d, top)
  BY ArrayDigitFacts DEF Digital
<1>2. PICK z \in Nat \ {0} : z = Power(10, t)
  <2>1. t \in Nat
    BY Limits
  <2>2. QED
    BY <2>1, PowersOf10
<1>3. PICK v \in Nat : v = NumberIn(s)
  BY NumberBelow
<1> DEFINE Rest0(k) == WrittenBy(s, 0, Ends(n, t, k)) * (IF k = 0 THEN z ELSE 1)
           S == {k \in Nat : k =< top => ValueOf(d, k) + Rest0(k) * Weight(k) = v * z}
<1>4. 0 \in S
  <2>1. Ends(n, t, 0) = n
    BY DEF Ends
  <2>2. WrittenBy(s, 0, Ends(n, t, 0)) = v
    BY <1>3, <2>1, WholePart
  <2>3. Rest0(0) = v * z
    BY <2>2
  <2>4. ValueOf(d, 0) = 0 /\ Weight(0) = 1
    BY ValueZero, WeightZero
  <2>5. v * z \in Nat
    OBVIOUS
  <2>6. ValueOf(d, 0) + Rest0(0) * Weight(0) = v * z
    BY <2>3, <2>4, <2>5
  <2>7. QED
    BY <2>6
<1>5. ASSUME NEW k \in Nat, k \in S PROVE k + 1 \in S
  <2>1. SUFFICES ASSUME k + 1 =< top
                 PROVE  ValueOf(d, k + 1) + Rest0(k + 1) * Weight(k + 1) = v * z
    OBVIOUS
  <2>2. k \in 0 .. top - 1 /\ k + 1 \in 0 .. top
    BY <2>1
  <2>3. PICK c \in 0 .. RADIX - 1 : c = d[k] /\ c = ArrayDigit(s, t, k)
    BY <2>2, ArrayDigitFacts
  <2>4. WrittenBy(s, 0, Ends(n, t, k)) * (IF k = 0 THEN Power(10, t) ELSE 1)
          = WrittenBy(s, 0, Ends(n, t, k + 1)) * RADIX + ArrayDigit(s, t, k)
    BY <2>2, ArrayDigitFacts
  <2>5. PICK u \in Nat : u = WrittenBy(s, 0, Ends(n, t, k + 1))
    <3>1. Ends(n, t, k + 1) \in Nat /\ Ends(n, t, k + 1) =< n /\ 0 \in Nat /\ 0 =< Ends(n, t, k + 1)
      BY <2>2, EndsFacts
    <3>2. QED
      BY <3>1, PartBelow
  <2>6. Rest0(k) = u * RADIX + c
    BY <1>2, <2>3, <2>4, <2>5
  <2>7. Rest0(k + 1) = u
    <3>1. k + 1 # 0
      OBVIOUS
    <3>2. Rest0(k + 1) = u * 1
      BY <2>5, <3>1
    <3>3. QED
      BY <3>2
  <2>8. ValueOf(d, k + 1) = ValueOf(d, k) + c * Weight(k)
    <3>1. Integral(d, k + 1)
      BY <1>1, <2>2, DigitalIntegral
    <3>2. QED
      BY <2>3, <3>1, ValueNext
  <2>9. PICK a1 \in Int : a1 = ValueOf(d, k)
    <3>1. Integral(d, k)
      BY <1>1, <2>2, DigitalIntegral
    <3>2. QED
      BY <3>1, ValueType
  <2>10. PICK w \in Nat, r \in Nat : w = Weight(k) /\ r = RADIX /\ Weight(k + 1) = r * w
    BY WeightFacts, RadixPositive
  <2>11. a1 + (u * r + c) * w = v * z
    <3>1. ValueOf(d, k) + Rest0(k) * Weight(k) = v * z
      BY <1>5, <2>1
    <3>2. QED
      BY <2>6, <2>9, <2>10, <3>1
  <2>12. (a1 + c * w) + u * (r * w) = a1 + (u * r + c) * w
    <3>1. c \in Nat
      BY RadixPositive
    <3>2. QED
      BY <3>1
  <2>13. QED
    BY <2>7, <2>8, <2>9, <2>10, <2>11, <2>12
<1> HIDE DEF S
<1>6. \A k \in Nat : k \in S
  BY <1>4, <1>5, SetInduction
<1>7. ValueOf(d, top) + Rest0(top) * Weight(top) = v * z
  <2>1. top \in S
    BY <1>6
  <2>2. QED
    BY <2>1 DEF S
<1>8. Rest0(top) = 0
  <2>1. PICK m \in Nat : m = top * DEC_DIGITS_PER_DIGIT /\ n + t =< m
    BY Limits
  <2>2. t \in Int
    BY Limits
  <2>3. Ends(n, t, top) = 0
    BY <2>1, <2>2 DEF Ends, MAX
  <2>4. WrittenBy(s, 0, Ends(n, t, top)) = 0
    BY <2>3, NoPart
  <2>5. QED
    BY <2>4
<1>9. ValueOf(d, top) = v * z
  <2>1. Weight(top) \in Nat
    BY WeightFacts
  <2>2. ValueOf(d, top) \in Int
    BY <1>1, ValueRange
  <2>3. QED
    BY <1>7, <1>8, <2>1, <2>2
<1>10. QED
  BY <1>1, <1>2, <1>3, <1>9

(* digits_from_dec_coeff_exp gives the digits of the shifted number. *)
LEMMA DigitsRead ==
  ASSUME NEW s \in Seq(Digits), s # <<>>, NEW e \in Int
  PROVE  LET v == NumberIn(s) * u64_10_pow_n(MOD(e, DEC_DIGITS_PER_DIGIT))
         IN  /\ v \in Nat
             /\ digits_from_dec_coeff_exp(s, e)
                  = [coeff |-> v, n |-> DigitCount[v], exp |-> FLOOR(e, DEC_DIGITS_PER_DIGIT)]
<1>1. PICK n \in Nat \ {0} : n = Len(s)
  BY EmptySeq, LenProperties
<1>2. PICK t \in 0 .. DEC_DIGITS_PER_DIGIT - 1 : t = MOD(e, DEC_DIGITS_PER_DIGIT)
  <2>1. PICK d \in Nat \ {0} : d = DEC_DIGITS_PER_DIGIT
    BY Limits
  <2>2. e % d \in 0 .. d - 1
    BY Z3
  <2>3. QED
    BY <2>1, <2>2 DEF MOD
<1>3. n + t \in Nat \ {0}
  BY Limits
<1>4. PICK top \in Nat \ {0} : /\ top = CEIL(n + t, DEC_DIGITS_PER_DIGIT)
                               /\ n + t =< top * DEC_DIGITS_PER_DIGIT
                               /\ (top - 1) * DEC_DIGITS_PER_DIGIT < n + t
  BY <1>3, CeilFacts
<1> DEFINE stop(k) == MIN(Len(s), Len(s) + t - k * DEC_DIGITS_PER_DIGIT)
           chunk(k) == NumberIn(SubSeq(s, MAX(stop(k + 1), 0) + 1, stop(k)))
           digit == [k \in 0 .. top - 1 |->
                       IF k = 0 THEN chunk(0) * u64_10_pow_n(t) ELSE chunk(k)]
           Signif(m) == (\A k \in m .. top - 1 : digit[k] = 0) /\ (m > 0 => digit[m - 1] # 0)
           n_signif == CHOOSE m \in 0 .. top : Signif(m)
<1>5. digits_from_dec_coeff_exp(s, e)
        = [coeff |-> ValueOf(digit, n_signif), n |-> n_signif, exp |-> FLOOR(e, DEC_DIGITS_PER_DIGIT)]
  BY <1>1, <1>2, <1>4 DEF digits_from_dec_coeff_exp
<1>6. \A k \in 0 .. top - 1 : digit[k] = ArrayDigit(s, t, k)
  BY DEF ArrayDigit, Stop, WrittenBy
<1> HIDE DEF digit
<1> DEFINE v == NumberIn(s) * Power(10, t)
<1>7. Digital(digit, top) /\ ValueOf(digit, top) = v
  BY <1>1, <1>4, <1>6, ArrayValue
<1>8. v \in Nat
  BY <1>7, ValueRange
<1>9. \E m \in 0 .. top : Signif(m)
  <2> DEFINE All == {m \in 0 .. top : \A k \in m .. top - 1 : digit[k] = 0}
  <2>1. top \in All /\ All \in SUBSET Nat
    OBVIOUS
  <2>2. PICK m \in All : \A l \in All : m =< l
    BY <2>1, LeastNatural
  <2>3. ASSUME m > 0, digit[m - 1] = 0 PROVE FALSE
    <3>1. m - 1 \in 0 .. top /\ \A k \in m - 1 .. top - 1 : k = m - 1 \/ k \in m .. top - 1
      BY <2>3
    <3>2. m - 1 \in All
      BY <2>2, <2>3, <3>1
    <3>3. QED
      BY <2>2, <3>2
  <2>4. QED
    BY <2>2, <2>3
<1>10. PICK m \in 0 .. top : m = n_signif /\ Signif(m)
  BY <1>9
<1>11. ValueOf(digit, m) = v /\ Digital(digit, m)
  BY <1>7, <1>10, DigitalIntegral, ValueZeros
<1>12. m = DigitCount[v]
  <2>1. CASE m = 0
    <3>1. v = 0
      BY <1>11, <2>1, ValueZero
    <3>2. Counts(RADIX, v, DigitCount[v])
      BY <1>8, DigitCountFacts
    <3>3. QED
      BY <2>1, <3>1, <3>2 DEF Counts
  <2>2. CASE m # 0
    <3>1. PICK k \in Nat : k = m - 1 /\ m = k + 1
      BY <2>2
    <3>2. digit[k] \in 0 .. RADIX - 1 /\ digit[k] # 0
      BY <1>10, <1>11, <2>2, <3>1 DEF Digital
    <3>3. v = ValueOf(digit, k) + digit[k] * Weight(k) /\ ValueOf(digit, k) \in Nat
      <4>1. Integral(digit, k + 1) /\ Digital(digit, k)
        BY <1>7, <1>10, <3>1, DigitalIntegral
      <4>2. QED
        BY <1>11, <3>1, <4>1, ValueNext, ValueRange
    <3>4. Weight(k) =< v
      <4>1. PICK c \in Nat \ {0}, w \in Nat, b \in Nat : c = digit[k] /\ w = Weight(k) /\ b = ValueOf(digit, k)
        <5>1. Weight(k) \in Nat
          BY WeightFacts
        <5>2. digit[k] \in Nat \ {0}
          BY <3>2, RadixPositive
        <5>3. QED
          BY <3>3, <5>1, <5>2
      <4>2. v = b + c * w
        BY <3>3, <4>1
      <4>3. c * w >= w
        BY <4>1
      <4>4. c * w \in Nat
        OBVIOUS
      <4>5. QED
        BY <4>1, <4>2, <4>3, <4>4
    <3>5. v < Weight(m)
      BY <1>11, ValueRange
    <3>6. v # 0
      <4>1. Weight(k) \in Nat \ {0}
        BY WeightFacts
      <4>2. QED
        BY <1>8, <3>4, <4>1
    <3>7. Weight(m - 1) =< v
      BY <3>1, <3>4
    <3>8. QED
      BY <1>8, <2>2, <3>5, <3>6, <3>7, DigitCountIs
  <2>3. QED
    BY <2>1, <2>2
<1>13. v = NumberIn(s) * u64_10_pow_n(MOD(e, DEC_DIGITS_PER_DIGIT))
  BY <1>2 DEF u64_10_pow_n
<1>14. QED
  BY <1>5, <1>8, <1>10, <1>11, <1>12, <1>13

-----------------------------------------------------------------------------
(***************************************************************************)
(* The two words.                                                          *)
(***************************************************************************)
Holds(sh, v) == sh.lo \in 0 .. U64 - 1 /\ sh.hi \in Nat /\ sh.hi * U64 + sh.lo = v

(* One more digit, carries included. *)
LEMMA OneMoreDigit ==
  ASSUME NEW sh, NEW v \in Nat, Holds(sh, v), NEW d \in 0 .. 9
  PROVE  Holds(WithDigit(sh, d), 10 * v + d)
<1>1. PICK n \in Nat, h \in Nat \ {0} : n = U64 /\ h = HALF /\ n = h * h /\ n > 10
  <2>1. HALF \in Nat /\ HALF * HALF = U64 /\ U64 \in Nat /\ U64 > 10
    BY HalfAssumption, Constants
  <2>2. HALF # 0
    BY <2>1
  <2>3. QED
    BY <2>1, <2>2
<1>2. PICK lo \in Nat, hi \in Nat : lo = sh.lo /\ hi = sh.hi /\ lo < n /\ v = hi * n + lo
  BY <1>1 DEF Holds
<1>3. PICK a1 \in Nat, a0 \in Nat : /\ a1 = U64_HI(lo) /\ a0 = U64_LO(lo)
                                    /\ lo = a1 * h + a0
  <2>1. lo \div h \in Nat /\ lo % h \in 0 .. h - 1 /\ lo = (lo \div h) * h + (lo % h)
    BY QuotientAndRest
  <2>2. QED
    BY <1>1, <2>1 DEF U64_HI, U64_LO
<1>4. PICK c \in Nat, m \in Nat : c = U64_HI(a0 * 10) /\ a0 * 10 = c * h + m /\ m < h
  <2>1. PICK y \in Nat : y = a0 * 10
    OBVIOUS
  <2>2. y \div h \in Nat /\ y % h \in 0 .. h - 1 /\ y = (y \div h) * h + (y % h)
    BY QuotientAndRest
  <2>3. QED
    BY <1>1, <2>1, <2>2 DEF U64_HI
<1>5. PICK b \in Nat, x \in Nat : b = U64_HI(a1 * 10 + c) /\ a1 * 10 + c = b * h + x /\ x < h
  <2>1. PICK y \in Nat : y = a1 * 10 + c
    OBVIOUS
  <2>2. y \div h \in Nat /\ y % h \in 0 .. h - 1 /\ y = (y \div h) * h + (y % h)
    BY QuotientAndRest
  <2>3. QED
    BY <1>1, <2>1, <2>2 DEF U64_HI
<1>6. PICK r \in Nat : r = x * h + m /\ r < n
  <2>1. x * h + m \in Nat /\ (x + 1) * h =< h * h /\ (x + 1) * h = x * h + h
    BY <1>5
  <2>2. x * h \in Nat /\ h * h \in Nat
    OBVIOUS
  <2>3. QED
    BY <1>1, <1>4, <2>1, <2>2
<1>7. lo * 10 = b * n + r
  <2>1. lo * 10 = (a1 * 10) * h + a0 * 10
    BY <1>3
  <2>2. (a1 * 10) * h + (c * h + m) = (a1 * 10 + c) * h + m
    OBVIOUS
  <2>3. (b * h + x) * h + m = b * (h * h) + (x * h + m)
    OBVIOUS
  <2>4. QED
    BY <1>1, <1>4, <1>5, <1>6, <2>1, <2>2, <2>3
<1>8. PICK e \in {0, 1}, s0 \in Nat : /\ r + d = e * n + s0 /\ s0 < n
                                      /\ (s0 < d <=> e = 1)
  <2>1. CASE r + d < n
    <3>1. r + d = 0 * n + (r + d) /\ r + d \in Nat /\ ~(r + d < d)
      OBVIOUS
    <3>2. QED
      BY <2>1, <3>1
  <2>2. CASE r + d >= n
    <3>1. r + d = 1 * n + (r + d - n) /\ r + d - n \in Nat /\ r + d - n < d /\ r + d - n < n
      BY <1>1, <1>6, <2>2
    <3>2. QED
      BY <3>1
  <2>3. QED
    BY <2>1, <2>2
<1>9. (lo * 10 + d) % n = s0
  <2>1. lo * 10 + d = s0 + (b + e) * n
    <3>1. (b + e) * n = b * n + e * n /\ b * n \in Nat /\ e * n \in Nat
      OBVIOUS
    <3>2. QED
      BY <1>7, <1>8, <3>1
  <2>2. b + e \in Nat /\ n \in Nat \ {0} /\ lo * 10 + d \in Int
    BY <1>1
  <2>3. QED
    BY <1>8, <2>1, <2>2, LowAndHigh
<1>10. WithDigit(sh, d) = [lo |-> s0, hi |-> hi * 10 + b + e]
  <2>1. (IF s0 < d THEN 1 ELSE 0) = e
    BY <1>8
  <2>2. QED
    BY <1>1, <1>2, <1>3, <1>4, <1>5, <1>9, <2>1 DEF WithDigit
<1>11. (hi * 10 + b + e) * n + s0 = 10 * v + d
  <2>1. (hi * 10 + b + e) * n = (hi * n) * 10 + b * n + e * n
    OBVIOUS
  <2>2. hi * n \in Nat /\ b * n \in Nat /\ e * n \in Nat
    OBVIOUS
  <2>3. PICK p \in Nat, q \in Nat, i \in Nat : p = hi * n /\ q = b * n /\ i = e * n
    BY <2>2
  <2>4. v = p + lo /\ lo * 10 = q + r /\ r + d = i + s0
    BY <1>2, <1>7, <1>8, <2>3
  <2>5. p * 10 + q + i + s0 = 10 * v + d
    BY <2>4
  <2>6. QED
    BY <2>1, <2>3, <2>5
<1>12. QED
  BY <1>1, <1>8, <1>10, <1>11 DEF Holds

(* r is x, or like it too great for a shifted int. *)
Clipped(r, x) == r \in Nat /\ (x < SHINT_LIMIT => r = x) /\ (x >= SHINT_LIMIT => r >= SHINT_LIMIT)

LEMMA HighLimit ==
  \E h \in Nat : h = SHINT_LIMIT \div U64 /\ SHINT_LIMIT = h * U64 /\ h > 0
<1>1. PICK n \in Nat \ {0}, m \in Nat \ {0} : n = U64 /\ m = SHINT_LIMIT /\ m % n = 0
  BY Constants, Limits, ShintAssumption
<1>2. m \div n \in Nat /\ m = (m \div n) * n + (m % n)
  BY QuotientAndRest
<1>3. PICK h \in Nat : h = m \div n /\ m = h * n
  BY <1>1, <1>2
<1>4. h # 0
  BY <1>3
<1>5. QED
  BY <1>1, <1>3, <1>4

LEMMA JoinedFacts ==
  ASSUME NEW sh, NEW v \in Nat, Holds(sh, v)
  PROVE  Joined(sh) = IF v < SHINT_LIMIT THEN v ELSE SHINT_LIMIT
<1>1. PICK h \in Nat : h = SHINT_LIMIT \div U64 /\ SHINT_LIMIT = h * U64
  BY HighLimit
<1>2. PICK n \in Nat, lo \in Nat, hi \in Nat : /\ n = U64 /\ lo = sh.lo /\ hi = sh.hi
                                               /\ lo < n /\ v = hi * n + lo
  BY Constants DEF Holds
<1>3. hi < h => hi * n + lo < h * n
  <2>1. SUFFICES ASSUME hi + 1 =< h PROVE hi * n + lo < h * n
    OBVIOUS
  <2>2. (hi + 1) * n =< h * n /\ (hi + 1) * n = hi * n + n /\ hi * n \in Nat /\ h * n \in Nat
    BY <2>1
  <2>3. QED
    BY <1>2, <2>2
<1>4. hi >= h => hi * n + lo >= h * n
  <2>1. SUFFICES ASSUME hi >= h PROVE hi * n + lo >= h * n
    OBVIOUS
  <2>2. hi * n >= h * n /\ hi * n \in Nat /\ h * n \in Nat
    BY <2>1
  <2>3. QED
    BY <2>2
<1>5. QED
  BY <1>1, <1>2, <1>3, <1>4 DEF Joined

(* What the first digits write, digit by digit. *)
LEMMA ReadSoFar ==
  ASSUME NEW s \in Seq(Digits)
  PROVE  \E f : /\ Reads(f, s) /\ NumberIn(s) = f[Len(s)]
                /\ \A k \in 0 .. Len(s) : f[k] = WrittenBy(s, 0, k)
<1>1. PICK f : Reads(f, s) /\ NumberIn(s) = f[Len(s)]
  BY NumberReads
<1>2. PICK n \in Nat : n = Len(s)
  BY LenProperties
<1>3. ASSUME NEW k \in 0 .. Len(s) PROVE f[k] = WrittenBy(s, 0, k)
  <2>1. k \in Nat /\ 0 \in Nat /\ 0 =< k /\ k =< Len(s)
    BY <1>2
  <2>2. f[k] = f[0] * Power(10, k - 0) + WrittenBy(s, 0, k)
    BY <1>1, <2>1, PartRead
  <2>3. Power(10, k - 0) \in Nat
    <3>1. k - 0 = k
      BY <2>1
    <3>2. QED
      BY <2>1, <3>1, PowersOf10
  <2>4. WrittenBy(s, 0, k) \in Nat
    BY <2>1, PartBelow
  <2>5. f[0] = 0
    BY <1>1 DEF Reads
  <2>6. QED
    BY <2>2, <2>3, <2>4, <2>5
<1>4. QED
  BY <1>1, <1>3

(* The words after digits cut + 1 .. k of s. *)
WordsStep(s, cut) ==
  [p \in [lo : Nat, hi : Nat] \X Nat |->
     IF p[2] \in 1 .. Len(s) - cut /\ Joined(p[1]) # SHINT_LIMIT
     THEN WithDigit(p[1], DigitValue(s[p[2] + cut])) ELSE p[1]]

LEMMA WithDigitType ==
  ASSUME NEW sh \in [lo : Nat, hi : Nat], NEW d \in 0 .. 9
  PROVE  WithDigit(sh, d) \in [lo : Nat, hi : Nat]
<1>1. PICK h \in Nat \ {0}, n \in Nat \ {0} : h = HALF /\ n = U64
  <2>1. HALF \in Nat /\ HALF * HALF = U64 /\ U64 \in Nat \ {0}
    BY HalfAssumption, Constants
  <2>2. HALF # 0
    BY <2>1
  <2>3. QED
    BY <2>1, <2>2
<1>2. \A x \in Nat : U64_HI(x) \in Nat /\ U64_LO(x) \in Nat
  <2>1. ASSUME NEW x \in Nat PROVE U64_HI(x) \in Nat /\ U64_LO(x) \in Nat
    <3>1. x \div h \in Nat /\ x % h \in 0 .. h - 1
      BY QuotientAndRest
    <3>2. QED
      BY <1>1, <3>1 DEF U64_HI, U64_LO
  <2>2. QED
    BY <2>1
<1>3. PICK lo \in Nat, hi \in Nat : lo = sh.lo /\ hi = sh.hi
  OBVIOUS
<1>4. PICK lo1 \in Nat : lo1 = (lo * 10 + d) % U64
  <2>1. PICK x \in Nat : x = lo * 10 + d
    OBVIOUS
  <2>2. x % n \in 0 .. n - 1
    BY QuotientAndRest
  <2>3. QED
    BY <1>1, <2>1, <2>2
<1>5. PICK b \in Nat : b = U64_HI(U64_HI(lo) * 10 + U64_HI(U64_LO(lo) * 10))
  <2>1. PICK x \in Nat, y \in Nat : x = U64_HI(lo) /\ y = U64_LO(lo)
    BY <1>2
  <2>2. PICK w \in Nat : w = U64_HI(y * 10)
    <3>1. y * 10 \in Nat
      OBVIOUS
    <3>2. QED
      BY <1>2, <3>1
  <2>3. x * 10 + w \in Nat
    OBVIOUS
  <2>4. QED
    BY <1>2, <2>1, <2>2, <2>3
<1>6. WithDigit(sh, d) = [lo |-> lo1, hi |-> hi * 10 + b + (IF lo1 < d THEN 1 ELSE 0)]
  BY <1>3, <1>4, <1>5 DEF WithDigit
<1>7. hi * 10 + b + (IF lo1 < d THEN 1 ELSE 0) \in Nat
  OBVIOUS
<1>8. QED
  BY <1>6, <1>7

LEMMA WordsStepType ==
  ASSUME NEW s \in Seq(Digits), NEW cut \in Nat
  PROVE  WordsStep(s, cut) \in [[lo : Nat, hi : Nat] \X Nat -> [lo : Nat, hi : Nat]]
<1>1. Len(s) \in Nat
  BY LenProperties
<1>2. ASSUME NEW p \in [lo : Nat, hi : Nat] \X Nat, p[2] \in 1 .. Len(s) - cut
      PROVE  WithDigit(p[1], DigitValue(s[p[2] + cut])) \in [lo : Nat, hi : Nat]
  <2>1. p[2] + cut \in 1 .. Len(s)
    BY <1>1, <1>2
  <2>2. s[p[2] + cut] \in Digits
    BY <2>1, ElementOfSeq
  <2>3. DigitValue(s[p[2] + cut]) \in 0 .. 9
    BY <2>2, DigitValueRange
  <2>4. p[1] \in [lo : Nat, hi : Nat]
    OBVIOUS
  <2>5. QED
    BY <2>3, <2>4, WithDigitType
<1>3. ASSUME NEW p \in [lo : Nat, hi : Nat] \X Nat
      PROVE  (IF p[2] \in 1 .. Len(s) - cut /\ Joined(p[1]) # SHINT_LIMIT
              THEN WithDigit(p[1], DigitValue(s[p[2] + cut])) ELSE p[1]) \in [lo : Nat, hi : Nat]
  <2>1. p[1] \in [lo : Nat, hi : Nat]
    OBVIOUS
  <2>2. QED
    BY <1>2, <2>1
<1>4. QED
  BY <1>3 DEF WordsStep

(* Whether g has the words of digits cut .. n of s. *)
ReadsWords(g, s, cut) ==
  g = [k \in cut .. Len(s) |->
         IF k = cut THEN [lo |-> NumberIn(SubSeq(s, 1, cut)), hi |-> 0]
         ELSE IF Joined(g[k - 1]) = SHINT_LIMIT THEN g[k - 1]
         ELSE WithDigit(g[k - 1], DigitValue(s[k]))]

LEMMA WordsExist ==
  ASSUME NEW s \in Seq(Digits), NEW cut \in Nat, cut =< Len(s)
  PROVE  \E g : ReadsWords(g, s, cut)
<1> DEFINE c == [lo |-> NumberIn(SubSeq(s, 1, cut)), hi |-> 0]
<1>1. c \in [lo : Nat, hi : Nat]
  <2>1. SubSeq(s, 0 + 1, cut) \in Seq(Digits)
    BY PartSequence
  <2>2. SubSeq(s, 1, cut) \in Seq(Digits)
    BY <2>1
  <2>3. NumberIn(SubSeq(s, 1, cut)) \in Nat
    BY <2>2, NumberBelow
  <2>4. QED
    BY <2>3
<1> HIDE DEF c
<1>2. PICK n \in Nat : n = Len(s) - cut /\ cut + n = Len(s)
  <2>1. Len(s) \in Nat
    BY LenProperties
  <2>2. QED
    BY <2>1
<1>3. PICK f \in [0 .. n -> [lo : Nat, hi : Nat]] : Unfolds(f, c, WordsStep(s, cut), n)
  BY <1>1, WordsStepType, RecursionExists
<1> DEFINE g == [k \in cut .. Len(s) |-> f[k - cut]]
<1>4. ASSUME NEW k \in cut .. Len(s)
      PROVE  g[k] = IF k = cut THEN c
                    ELSE IF Joined(g[k - 1]) = SHINT_LIMIT THEN g[k - 1]
                    ELSE WithDigit(g[k - 1], DigitValue(s[k]))
  <2>1. PICK i \in 0 .. n : i = k - cut /\ i + cut = k
    BY <1>2
  <2>2. g[k] = f[i]
    BY <2>1
  <2>3. CASE k = cut
    <3>1. i = 0
      BY <2>1, <2>3
    <3>2. f[i] = c
      BY <1>3, <3>1 DEF Unfolds
    <3>3. QED
      BY <2>2, <2>3, <3>2
  <2>4. CASE k # cut
    <3>1. i # 0 /\ i - 1 \in 0 .. n /\ k - 1 \in cut .. Len(s) /\ (k - 1) - cut = i - 1 /\ i \in Nat
      BY <2>1, <2>4
    <3>2. f[i] = WordsStep(s, cut)[<< f[i - 1], i >>]
      BY <1>3, <2>1, <3>1 DEF Unfolds
    <3>3. PICK w \in [lo : Nat, hi : Nat] : w = f[i - 1] /\ w = g[k - 1]
      BY <3>1
    <3>4. i \in 1 .. Len(s) - cut
      BY <1>2, <2>1, <3>1
    <3>5. << w, i >> \in [lo : Nat, hi : Nat] \X Nat
      BY <3>1
    <3>6. WordsStep(s, cut)[<< w, i >>]
            = IF Joined(w) # SHINT_LIMIT THEN WithDigit(w, DigitValue(s[i + cut])) ELSE w
      BY <3>4, <3>5 DEF WordsStep
    <3> HIDE DEF g
    <3>7. g[k] = IF Joined(w) # SHINT_LIMIT THEN WithDigit(w, DigitValue(s[k])) ELSE w
      BY <2>1, <2>2, <3>2, <3>3, <3>6
    <3>8. QED
      BY <2>4, <3>3, <3>7
  <2>5. QED
    BY <2>3, <2>4
<1>5. g = [k \in cut .. Len(s) |-> g[k]]
  OBVIOUS
<1> HIDE DEF g
<1>6. g = [k \in cut .. Len(s) |->
             IF k = cut THEN c
             ELSE IF Joined(g[k - 1]) = SHINT_LIMIT THEN g[k - 1]
             ELSE WithDigit(g[k - 1], DigitValue(s[k]))]
  BY <1>4, <1>5, Zenon
<1>7. QED
  BY <1>6 DEF ReadsWords, c

(* After each digit, the words hold what was read so far, or an overflow. *)
LEMMA WordsRead ==
  ASSUME NEW s \in Seq(Digits), NEW cut \in Nat, cut =< Len(s), cut =< DEC_DIGITS_PER_DIGIT,
         NEW g, ReadsWords(g, s, cut)
  PROVE  Joined(g[Len(s)]) = IF NumberIn(s) < SHINT_LIMIT THEN NumberIn(s) ELSE SHINT_LIMIT
<1>1. PICK n \in Nat : n = Len(s) /\ cut =< n
  BY LenProperties
<1>2. PICK f : /\ Reads(f, s) /\ NumberIn(s) = f[n]
               /\ \A k \in 0 .. n : f[k] = WrittenBy(s, 0, k)
  BY <1>1, ReadSoFar
<1>3. \A k \in 0 .. n : f[k] \in Nat
  BY <1>1, <1>2 DEF Reads
<1> DEFINE Is(k) == IF f[k] < SHINT_LIMIT THEN Holds(g[k], f[k]) ELSE Joined(g[k]) = SHINT_LIMIT
           S == {i \in Nat : cut + i =< n => Is(cut + i)}
<1>4. 0 \in S
  <2>1. g[cut] = [lo |-> NumberIn(SubSeq(s, 1, cut)), hi |-> 0]
    <3>1. cut \in cut .. Len(s)
      BY <1>1
    <3>2. QED
      BY <3>1 DEF ReadsWords
  <2>2. f[cut] = NumberIn(SubSeq(s, 1, cut))
    <3>1. cut \in 0 .. n /\ 0 + 1 = 1
      BY <1>1
    <3>2. QED
      BY <1>2, <3>1 DEF WrittenBy
  <2>3. PICK v \in Nat : v = f[cut] /\ v < U64
    <3>1. WrittenBy(s, 0, cut) \in Nat /\ WrittenBy(s, 0, cut) < Power(10, cut - 0)
      <4>1. 0 \in Nat /\ 0 =< cut
        OBVIOUS
      <4>2. QED
        BY <4>1, PartBelow
    <3>2. cut - 0 = cut
      OBVIOUS
    <3>3. Power(10, cut) =< RADIX /\ Power(10, cut) \in Nat
      BY Limits, PowerOrder, PowersOf10
    <3>4. f[cut] = WrittenBy(s, 0, cut)
      BY <1>1, <1>2
    <3>5. QED
      BY <3>1, <3>2, <3>3, <3>4, Constants
  <2>4. Holds(g[cut], v)
    <3>1. g[cut].lo = v /\ g[cut].hi = 0
      BY <2>1, <2>2, <2>3
    <3>2. 0 * U64 + v = v /\ v \in 0 .. U64 - 1
      BY <2>3, Constants
    <3>3. QED
      BY <3>1, <3>2 DEF Holds
  <2>5. v < SHINT_LIMIT
    <3>1. PICK h \in Nat : SHINT_LIMIT = h * U64 /\ h > 0
      BY HighLimit
    <3>2. PICK m \in Nat : m = U64
      BY Constants
    <3>3. h * m >= 1 * m
      BY <3>1
    <3>4. QED
      BY <2>3, <3>1, <3>2, <3>3
  <2>6. cut + 0 = cut
    OBVIOUS
  <2>7. QED
    BY <2>3, <2>4, <2>5, <2>6
<1>5. ASSUME NEW i \in Nat, i \in S PROVE i + 1 \in S
  <2>1. SUFFICES ASSUME cut + (i + 1) =< n PROVE Is(cut + (i + 1))
    OBVIOUS
  <2>2. PICK k : /\ k = cut + (i + 1) /\ k \in 1 .. n /\ k - 1 = cut + i
                 /\ k \in cut .. n /\ k # cut /\ k - 1 \in 0 .. n
    BY <2>1
  <2>3. Is(k - 1)
    BY <1>5, <2>1, <2>2
  <2>4. g[k] = IF Joined(g[k - 1]) = SHINT_LIMIT THEN g[k - 1]
               ELSE WithDigit(g[k - 1], DigitValue(s[k]))
    BY <1>1, <2>2 DEF ReadsWords
  <2>5. PICK v \in Nat, w \in Nat, d \in 0 .. 9 :
          v = f[k - 1] /\ w = f[k] /\ d = DigitValue(s[k]) /\ w = 10 * v + d
    <3>1. f[k] = 10 * f[k - 1] + DigitValue(s[k])
      BY <1>1, <1>2, <2>2 DEF Reads
    <3>2. s[k] \in Digits
      BY <1>1, <2>2, ElementOfSeq
    <3>3. DigitValue(s[k]) \in 0 .. 9
      BY <3>2, DigitValueRange
    <3>4. f[k] \in Nat /\ f[k - 1] \in Nat
      BY <1>3, <2>2
    <3>5. QED
      BY <3>1, <3>3, <3>4
  <2>6. SHINT_LIMIT \in Nat
    BY Limits
  <2>7. CASE v < SHINT_LIMIT
    <3>1. Holds(g[k - 1], v)
      BY <2>3, <2>5, <2>7
    <3>2. Joined(g[k - 1]) = v
      BY <2>7, <3>1, JoinedFacts
    <3>3. g[k] = WithDigit(g[k - 1], d)
      BY <2>4, <2>5, <2>6, <2>7, <3>2
    <3>4. Holds(g[k], w)
      BY <2>5, <3>1, <3>3, OneMoreDigit
    <3>5. Joined(g[k]) = IF w < SHINT_LIMIT THEN w ELSE SHINT_LIMIT
      BY <3>4, JoinedFacts
    <3>6. QED
      BY <2>2, <2>5, <3>4, <3>5
  <2>8. CASE ~(v < SHINT_LIMIT)
    <3>1. Joined(g[k - 1]) = SHINT_LIMIT
      BY <2>3, <2>5, <2>8
    <3>2. g[k] = g[k - 1]
      BY <2>4, <3>1
    <3>3. ~(w < SHINT_LIMIT)
      <4>1. 10 * v + d >= v
        OBVIOUS
      <4>2. w = 10 * v + d
        BY <2>5, Zenon
      <4>3. w >= v
        BY <4>1, <4>2
      <4>4. QED
        BY <2>6, <2>8, <4>3
    <3>4. QED
      BY <2>2, <2>5, <3>1, <3>2, <3>3
  <2>9. QED
    BY <2>7, <2>8
<1> HIDE DEF S
<1>6. \A i \in Nat : i \in S
  BY <1>4, <1>5, SetInduction
<1>7. Is(n)
  <2>1. n - cut \in Nat /\ cut + (n - cut) = n
    BY <1>1
  <2>2. n - cut \in S
    BY <1>6, <2>1
  <2>3. QED
    BY <2>1, <2>2 DEF S
<1>8. PICK v \in Nat : v = f[n]
  BY <1>3
<1>9. QED
  BY <1>1, <1>2, <1>7, <1>8, JoinedFacts

(* One multiplication for up to DEC_DIGITS_PER_DIGIT zeros. *)
MoreZeros(v, k) == IF v >= SHINT_LIMIT THEN v ELSE u128_imul_u64(v, u64_10_pow_n(k))

LEMMA MoreZerosClipped ==
  ASSUME NEW v, NEW x \in Nat, Clipped(v, x), NEW k \in Nat, x * Power(10, k) < U128
  PROVE  Clipped(MoreZeros(v, k), x * Power(10, k))
<1>1. PICK m \in Nat \ {0}, l \in Nat : m = Power(10, k) /\ l = SHINT_LIMIT
  BY PowersOf10, Limits
<1>2. v \in Nat
  BY DEF Clipped
<1>3. CASE v >= l
  <2>1. x >= l
    BY <1>1, <1>2, <1>3 DEF Clipped
  <2>2. x * m >= x /\ x * m \in Nat
    BY <1>1
  <2>3. x * m >= l
    BY <1>1, <2>1, <2>2
  <2>4. MoreZeros(v, k) = v
    BY <1>1, <1>3 DEF MoreZeros
  <2>5. QED
    BY <1>1, <1>2, <1>3, <2>2, <2>3, <2>4 DEF Clipped
<1>4. CASE v < l
  <2>1. v = x
    BY <1>1, <1>2, <1>4 DEF Clipped
  <2>2. u128_imul_u64(x, m) = x * m
    BY <1>1, ImulExact
  <2>3. MoreZeros(v, k) = x * m
    BY <1>1, <1>2, <1>4, <2>1, <2>2 DEF MoreZeros, u64_10_pow_n
  <2>4. x * m \in Nat
    BY <1>1
  <2>5. QED
    BY <1>1, <2>3, <2>4 DEF Clipped
<1>5. QED
  BY <1>1, <1>2, <1>3, <1>4

(* Fewer zeros than two multiplications provide. *)
AllZeros(v, n) ==
  IF n = 0 THEN v
  ELSE IF n =< UINT64_10_POW_N_CUTOFF THEN MoreZeros(v, n)
  ELSE MoreZeros(MoreZeros(v, n - UINT64_10_POW_N_CUTOFF), UINT64_10_POW_N_CUTOFF)

AddsZeros(z, v, n_add_zeros) ==
  z = [n \in 0 .. n_add_zeros |->
         IF n = 0 THEN v
         ELSE IF z[n - MIN(n, UINT64_10_POW_N_CUTOFF)] >= SHINT_LIMIT
         THEN z[n - MIN(n, UINT64_10_POW_N_CUTOFF)]
         ELSE u128_imul_u64(z[n - MIN(n, UINT64_10_POW_N_CUTOFF)],
                            u64_10_pow_n(MIN(n, UINT64_10_POW_N_CUTOFF)))]

LEMMA ZerosAdded ==
  ASSUME NEW v, NEW m \in Nat, m < 2 * DEC_DIGITS_PER_DIGIT
  PROVE  /\ AddsZeros([n \in 0 .. m |-> AllZeros(v, n)], v, m)
         /\ \A z : AddsZeros(z, v, m) => z[m] = AllZeros(v, m)
<1>1. PICK d \in Nat \ {0} : d = UINT64_10_POW_N_CUTOFF /\ m < 2 * d
  BY Limits DEF UINT64_10_POW_N_CUTOFF
<1>2. ASSUME NEW z, NEW n \in 1 .. m,
             z[n] = MoreZeros(z[n - MIN(n, d)], MIN(n, d)),
             z[0] = v, n > d => z[n - d] = MoreZeros(z[0], n - d)
      PROVE  z[n] = AllZeros(v, n)
  <2>1. CASE n =< d
    <3>1. MIN(n, d) = n /\ n - n = 0 /\ n # 0
      BY <2>1 DEF MIN
    <3>2. QED
      BY <1>1, <1>2, <2>1, <3>1 DEF AllZeros
  <2>2. CASE n > d
    <3>1. MIN(n, d) = d /\ n # 0 /\ ~(n =< d)
      BY <2>2 DEF MIN
    <3>2. QED
      BY <1>1, <1>2, <2>2, <3>1 DEF AllZeros
  <2>3. QED
    BY <2>1, <2>2
<1> DEFINE y == [n \in 0 .. m |-> AllZeros(v, n)]
<1>3. ASSUME NEW n \in 0 .. m
      PROVE  y[n] = IF n = 0 THEN v ELSE MoreZeros(y[n - MIN(n, d)], MIN(n, d))
  <2>1. CASE n = 0
    BY <2>1 DEF AllZeros
  <2>2. CASE n # 0 /\ n =< d
    <3>1. MIN(n, d) = n /\ n - n = 0 /\ 0 \in 0 .. m
      BY <2>2 DEF MIN
    <3>2. y[0] = v
      BY <3>1 DEF AllZeros
    <3>3. y[n] = MoreZeros(v, n)
      BY <1>1, <2>2 DEF AllZeros
    <3>4. QED
      BY <2>2, <3>1, <3>2, <3>3
  <2>3. CASE n > d
    <3>1. /\ MIN(n, d) = d /\ n # 0 /\ ~(n =< d)
          /\ n - d \in 0 .. m /\ n - d # 0 /\ n - d =< d
      BY <1>1, <2>3 DEF MIN
    <3>2. y[n - d] = MoreZeros(v, n - d)
      BY <1>1, <3>1 DEF AllZeros
    <3>3. y[n] = MoreZeros(MoreZeros(v, n - d), d)
      BY <1>1, <3>1 DEF AllZeros
    <3>4. QED
      BY <3>1, <3>2, <3>3
  <2>4. QED
    BY <2>1, <2>2, <2>3
<1>4. y = [n \in 0 .. m |-> y[n]]
  OBVIOUS
<1>5. AddsZeros(y, v, m)
  <2> HIDE DEF y
  <2>1. y = [n \in 0 .. m |-> IF n = 0 THEN v ELSE MoreZeros(y[n - MIN(n, d)], MIN(n, d))]
    BY <1>3, <1>4, Zenon
  <2>2. QED
    BY <1>1, <2>1, Zenon DEF AddsZeros, MoreZeros
<1>6. ASSUME NEW z, AddsZeros(z, v, m) PROVE z[m] = AllZeros(v, m)
  <2>1. \A n \in 0 .. m : z[n] = IF n = 0 THEN v ELSE MoreZeros(z[n - MIN(n, d)], MIN(n, d))
    <3>1. z = [n \in 0 .. m |-> IF n = 0 THEN v ELSE MoreZeros(z[n - MIN(n, d)], MIN(n, d))]
      BY <1>1, <1>6, Zenon DEF AddsZeros, MoreZeros
    <3>2. QED
      BY <3>1, Zenon
  <2>2. z[0] = v
    <3>1. 0 \in 0 .. m
      OBVIOUS
    <3>2. QED
      BY <2>1, <3>1
  <2>3. CASE m = 0
    BY <2>2, <2>3 DEF AllZeros
  <2>4. CASE m # 0
    <3>1. m \in 1 .. m /\ m \in 0 .. m
      BY <2>4
    <3>2. z[m] = MoreZeros(z[m - MIN(m, d)], MIN(m, d))
      BY <2>1, <2>4, <3>1
    <3>3. ASSUME m > d PROVE z[m - d] = MoreZeros(z[0], m - d)
      <4>1. m - d \in 0 .. m /\ m - d # 0 /\ MIN(m - d, d) = m - d /\ (m - d) - (m - d) = 0
        BY <1>1, <3>3 DEF MIN
      <4>2. QED
        BY <2>1, <4>1
    <3>4. QED
      BY <1>2, <2>2, <3>1, <3>2, <3>3
  <2>5. QED
    BY <2>3, <2>4
<1>7. QED
  BY <1>5, <1>6

(***************************************************************************)
(* shint_from_dec_coeff gives the number if a shifted int may hold it, and *)
(* an overflow otherwise.                                                  *)
(***************************************************************************)
LEMMA ShintRead ==
  ASSUME NEW s \in Seq(Digits), s # <<>>, NEW m \in Nat, Len(s) + m =< MAX_N_DEC_DIGITS_IN_SHINT
  PROVE  NumberIn(s) * Power(10, m) \in Nat /\ Clipped(shint_from_dec_coeff(s, m), NumberIn(s) * Power(10, m))
<1>1. PICK n \in Nat \ {0} : n = Len(s)
  BY EmptySeq, LenProperties
<1>2. PICK d \in Nat \ {0} : d = UINT64_10_POW_N_CUTOFF /\ d = DEC_DIGITS_PER_DIGIT /\ m < 2 * d
  <2>1. MAX_N_DEC_DIGITS_IN_SHINT \in Nat /\ MAX_N_DEC_DIGITS_IN_SHINT =< 2 * DEC_DIGITS_PER_DIGIT
    BY Limits, ShintRange
  <2>2. QED
    BY <1>1, <2>1, Limits DEF UINT64_10_POW_N_CUTOFF
<1>3. PICK v \in Nat : v = NumberIn(s) /\ v < Power(10, n)
  BY <1>1, NumberBelow
<1>4. PICK p \in Nat \ {0} : p = Power(10, m)
  BY PowersOf10
<1>5. ASSUME NEW k \in 0 .. m PROVE v * Power(10, k) \in Nat /\ v * Power(10, k) < U128
  <2>0. k \in Nat /\ n \in Nat
    OBVIOUS
  <2>9. Power(10, k) \in Nat \ {0} /\ Power(10, n) \in Nat \ {0}
    BY <2>0, PowersOf10
  <2>1. PICK q \in Nat \ {0}, r \in Nat \ {0} : q = Power(10, k) /\ r = Power(10, n) /\ v < r
    BY <1>3, <2>9
  <2>2. v * q < r * q /\ v * q \in Nat /\ r * q \in Nat
    BY <2>1
  <2>3. r * q = Power(10, n + k)
    BY <2>0, <2>1, PowerSum
  <2>4. PICK top \in Nat : top = MAX_N_DEC_DIGITS_IN_SHINT /\ Power(10, top + 1) < U128
    BY Limits, ShintAssumption
  <2>5. n + k \in Nat /\ n + k =< top + 1
    BY <1>1, <2>4
  <2>6. Power(10, n + k) =< Power(10, top + 1)
    BY <2>4, <2>5, PowerOrder
  <2>7. Power(10, top + 1) \in Nat
    <3>1. top + 1 \in Nat
      OBVIOUS
    <3>2. QED
      BY <3>1, PowersOf10
  <2>8. PICK a1 \in Nat, b1 \in Nat, c1 \in Nat :
          a1 = v * q /\ b1 = r * q /\ c1 = Power(10, top + 1) /\ a1 < b1 /\ b1 =< c1
    BY <2>2, <2>3, <2>6, <2>7
  <2>10. U128 \in Nat /\ c1 < U128
    BY <2>4, <2>8, Words128
  <2>11. QED
    BY <2>1, <2>8, <2>10
<1> DEFINE cut == MIN(UINT64_10_POW_N_CUTOFF, Len(s))
           words(g) == g = [k \in cut .. Len(s) |->
                              IF k = cut THEN [lo |-> NumberIn(SubSeq(s, 1, cut)), hi |-> 0]
                              ELSE IF Joined(g[k - 1]) = SHINT_LIMIT THEN g[k - 1]
                              ELSE WithDigit(g[k - 1], DigitValue(s[k]))]
           sh == CHOOSE g : words(g)
           adds(z) == z = [k \in 0 .. m |->
                             IF k = 0 THEN Joined(sh[Len(s)])
                             ELSE LET n_shift == MIN(k, UINT64_10_POW_N_CUTOFF)
                                      w == z[k - n_shift]
                                  IN  IF w >= SHINT_LIMIT THEN w ELSE u128_imul_u64(w, u64_10_pow_n(n_shift))]
           zeros == CHOOSE z : adds(z)
<1>6. shint_from_dec_coeff(s, m) = zeros[m]
  BY DEF shint_from_dec_coeff
<1>7. cut \in Nat /\ cut =< Len(s) /\ cut =< DEC_DIGITS_PER_DIGIT
  BY <1>1, <1>2 DEF MIN
<1> HIDE DEF cut
<1>8. \A g : words(g) <=> ReadsWords(g, s, cut)
  BY DEF ReadsWords
<1>9. \E g : words(g)
  BY <1>7, <1>8, WordsExist
<1>10. words(sh)
  BY <1>9
<1>11. ReadsWords(sh, s, cut)
  BY <1>8, <1>10
<1> HIDE DEF sh, words
<1>12. PICK j : j = Joined(sh[Len(s)]) /\ j = IF v < SHINT_LIMIT THEN v ELSE SHINT_LIMIT
  BY <1>3, <1>7, <1>11, WordsRead
<1>13. Clipped(j, v)
  BY <1>12, Limits DEF Clipped
<1>14. \A z : adds(z) <=> AddsZeros(z, j, m)
  BY <1>12 DEF AddsZeros
<1>15. m < 2 * DEC_DIGITS_PER_DIGIT
  BY <1>2
<1>16. \E z : adds(z)
  BY <1>14, <1>15, ZerosAdded
<1>17. adds(zeros)
  BY <1>16
<1> HIDE DEF adds, zeros
<1>18. zeros[m] = AllZeros(j, m)
  BY <1>14, <1>15, <1>17, ZerosAdded
<1>19. Clipped(AllZeros(j, m), v * Power(10, m))
  <2>1. CASE m = 0
    <3>1. Power(10, m) = 1 /\ v * 1 = v
      BY <2>1, PowerZero
    <3>2. AllZeros(j, m) = j
      BY <2>1 DEF AllZeros
    <3>3. QED
      BY <1>13, <3>1, <3>2
  <2>2. CASE m # 0 /\ m =< d
    <3>1. AllZeros(j, m) = MoreZeros(j, m)
      BY <1>2, <2>2 DEF AllZeros
    <3>2. v * Power(10, m) < U128
      BY <1>5
    <3>3. QED
      BY <1>13, <3>1, <3>2, MoreZerosClipped
  <2>3. CASE m > d
    <3>1. PICK k \in Nat : k = m - d /\ k \in 0 .. m
      BY <2>3
    <3>2. AllZeros(j, m) = MoreZeros(MoreZeros(j, k), d)
      BY <1>2, <2>3, <3>1 DEF AllZeros
    <3>3. PICK x \in Nat : x = v * Power(10, k) /\ x < U128
      BY <1>5, <3>1
    <3>4. Clipped(MoreZeros(j, k), x)
      BY <1>13, <3>1, <3>3, MoreZerosClipped
    <3>5. x * Power(10, d) = v * Power(10, m)
      <4>1. k + d = m
        BY <3>1
      <4>2. Power(10, m) = Power(10, k) * Power(10, d)
        <5>1. Power(10, k + d) = Power(10, k) * Power(10, d)
          BY PowerSum
        <5>2. QED
          BY <4>1, <5>1
      <4>3. PICK a1 \in Nat, b1 \in Nat : a1 = Power(10, k) /\ b1 = Power(10, d)
        BY PowersOf10
      <4>4. (v * a1) * b1 = v * (a1 * b1)
        OBVIOUS
      <4>5. QED
        BY <3>3, <4>2, <4>3, <4>4
    <3>6. x * Power(10, d) < U128
      BY <1>5, <3>5
    <3>7. Clipped(MoreZeros(MoreZeros(j, k), d), x * Power(10, d))
      BY <3>4, <3>6, MoreZerosClipped
    <3>8. QED
      BY <3>2, <3>5, <3>7
  <2>4. QED
    BY <2>1, <2>2, <2>3
<1>20. QED
  BY <1>3, <1>5, <1>6, <1>18, <1>19

-----------------------------------------------------------------------------
(***************************************************************************)
(* The words hold what fpdec_from_ascii_literal of FpdecOps computes.      *)
(***************************************************************************)
Parsed(p) ==
  /\ p.rc = "OK" /\ p.digits \in Seq(Digits) /\ p.digits # <<>>
  /\ p.literal.negative \in BOOLEAN /\ p.literal.coeff = NumberIn(p.digits)
  /\ p.literal.n_dec_digits = Len(p.digits) /\ p.literal.exp \in Int
  /\ CEIL(p.literal.exp, DEC_DIGITS_PER_DIGIT) =< FPDEC_MAX_EXP
  /\ -p.literal.exp =< FPDEC_MAX_DEC_PREC

LEMMA WordsAreNumbers ==
  ASSUME NEW p, Parsed(p)
  PROVE  from_parsed(p) = fpdec_from_ascii_literal(p.literal)
<1>1. PICK n \in Nat, e \in Int, c \in Nat :
        /\ n = Len(p.digits) /\ n = p.literal.n_dec_digits /\ e = p.literal.exp
        /\ c = NumberIn(p.digits) /\ c = p.literal.coeff
  BY LenProperties, NumberBelow DEF Parsed
<1>2. PICK sign \in {-1, 1}, prec \in Nat, m \in Nat :
        /\ sign = IF p.literal.negative THEN -1 ELSE 1
        /\ prec = MAX(0, -e) /\ m = MAX(0, e)
  BY DEF MAX
<1>3. -e =< MAX_DEC_PREC_FOR_SHINT <=> prec =< MAX_DEC_PREC_FOR_SHINT
  BY <1>2, Limits DEF MAX
<1> DEFINE v == c * u64_10_pow_n(MOD(e, DEC_DIGITS_PER_DIGIT))
           d == Trimmed(v, DigitCount[v], FLOOR(e, DEC_DIGITS_PER_DIGIT))
           words == shint_from_dec_coeff(p.digits, m)
           x == c * Power(10, m)
<1>4. /\ v \in Nat
      /\ digits_from_dec_coeff_exp(p.digits, e)
           = [coeff |-> v, n |-> DigitCount[v], exp |-> FLOOR(e, DEC_DIGITS_PER_DIGIT)]
  BY <1>1, DigitsRead DEF Parsed
<1>5. n + m =< MAX_N_DEC_DIGITS_IN_SHINT => Clipped(words, x) /\ x \in Nat
  BY <1>1, <1>2, ShintRead DEF Parsed
<1> HIDE DEF v, words, x
<1>6. from_parsed(p)
        = IF /\ n + m =< MAX_N_DEC_DIGITS_IN_SHINT
             /\ -e =< MAX_DEC_PREC_FOR_SHINT
             /\ words < SHINT_LIMIT
          THEN Ok(Shint(IF words = 0 THEN 0 ELSE sign, prec, words))
          ELSE Ok(IF d.n = 0 THEN ResetToZero(prec) ELSE Dyn(sign, prec, d.coeff, d.n, d.exp))
  <2>1. p.rc = "OK"
    BY DEF Parsed
  <2>2. LET array == digits_from_dec_coeff_exp(p.digits, e)
        IN  Trimmed(array.coeff, array.n, array.exp) = d
    BY <1>4
  <2> HIDE DEF d
  <2>3. QED
    BY <1>1, <1>2, <2>1, <2>2 DEF from_parsed, words
<1>7. fpdec_from_ascii_literal(p.literal)
        = IF /\ n + m =< MAX_N_DEC_DIGITS_IN_SHINT
             /\ prec =< MAX_DEC_PREC_FOR_SHINT
             /\ x < SHINT_LIMIT
          THEN Ok(Shint(IF x = 0 THEN 0 ELSE sign, prec, x))
          ELSE Ok(IF d.n > 0 THEN Dyn(sign, prec, d.coeff, d.n, d.exp) ELSE ResetToZero(prec))
  <2>1. ~(CEIL(e, DEC_DIGITS_PER_DIGIT) > FPDEC_MAX_EXP)
    <3>1. CEIL(e, DEC_DIGITS_PER_DIGIT) =< FPDEC_MAX_EXP
      BY <1>1 DEF Parsed
    <3>2. CEIL(e, DEC_DIGITS_PER_DIGIT) \in Int
      <4>1. PICK b \in Nat \ {0} : b = DEC_DIGITS_PER_DIGIT
        BY Limits
      <4>2. (-e) \div b \in Int
        BY Z3
      <4>3. QED
        BY <4>1, <4>2 DEF CEIL
    <3>3. QED
      BY <3>1, <3>2, Limits
  <2>2. ~(-e > FPDEC_MAX_DEC_PREC)
    BY <1>1, Limits DEF Parsed
  <2>3. QED
    BY <1>1, <1>2, <2>1, <2>2 DEF fpdec_from_ascii_literal, v, x
<1>8. d.n = 0 <=> ~(d.n > 0)
  <2>1. CASE v = 0
    <3>1. FLOOR(e, DEC_DIGITS_PER_DIGIT) \in Int
      <4>1. PICK b \in Nat \ {0} : b = DEC_DIGITS_PER_DIGIT
        BY Limits
      <4>2. e \div b \in Int
        BY Z3
      <4>3. QED
        BY <4>1, <4>2 DEF FLOOR
    <3>2. d.n = 0
      BY <2>1, <3>1, NoDigits
    <3> HIDE DEF d
    <3>3. QED
      BY <3>2
  <2>2. CASE v # 0
    <3>1. FLOOR(e, DEC_DIGITS_PER_DIGIT) \in Int
      <4>1. PICK b \in Nat \ {0} : b = DEC_DIGITS_PER_DIGIT
        BY Limits
      <4>2. e \div b \in Int
        BY Z3
      <4>3. QED
        BY <4>1, <4>2 DEF FLOOR
    <3>2. Stripped(d)
      BY <1>4, <2>2, <3>1, StrippedZeros
    <3> HIDE DEF d
    <3>3. QED
      BY <3>2 DEF Stripped
  <2>3. QED
    BY <2>1, <2>2
<1> HIDE DEF d
<1>9. CASE n + m =< MAX_N_DEC_DIGITS_IN_SHINT /\ prec =< MAX_DEC_PREC_FOR_SHINT
  <2>1. words \in Nat /\ x \in Nat /\ SHINT_LIMIT \in Nat
    BY <1>5, <1>9, Limits DEF Clipped
  <2>2. (words < SHINT_LIMIT <=> x < SHINT_LIMIT) /\ (x < SHINT_LIMIT => words = x)
    BY <1>5, <1>9, <2>1 DEF Clipped
  <2>3. QED
    BY <1>3, <1>6, <1>7, <1>8, <1>9, <2>2
<1>10. CASE ~(n + m =< MAX_N_DEC_DIGITS_IN_SHINT /\ prec =< MAX_DEC_PREC_FOR_SHINT)
  BY <1>3, <1>6, <1>7, <1>8, <1>10
<1>11. QED
  BY <1>9, <1>10

-----------------------------------------------------------------------------
(* The parts of a literal. *)
LEMMA SkipFacts ==
  ASSUME NEW s, NEW n \in Nat, n = Len(s), NEW i \in 1 .. n + 1, NEW chars, "end" \notin chars
  PROVE  LET j == SkipFrom(s, i, chars)
         IN  j \in i .. n + 1 /\ \A k \in i .. j - 1 : s[k] \in chars
<1> DEFINE Stops == {j \in i .. n + 1 : CharAt(s, j) \notin chars}
<1>1. n + 1 \in Stops /\ Stops \in SUBSET Nat
  BY DEF CharAt
<1>2. PICK j \in Stops : \A k \in Stops : j =< k
  BY <1>1, LeastNatural
<1>3. ASSUME NEW k \in i .. j - 1 PROVE s[k] \in chars
  <2>1. k \in i .. n + 1 /\ k \in 1 .. n /\ ~(j =< k)
    BY <1>2, <1>3
  <2>2. k \notin Stops
    BY <1>2, <2>1
  <2>3. CharAt(s, k) \in chars
    BY <2>1, <2>2
  <2>4. QED
    BY <2>1, <2>3 DEF CharAt
<1>4. \E l \in i .. Len(s) + 1 : (\A k \in i .. l - 1 : s[k] \in chars) /\ CharAt(s, l) \notin chars
  BY <1>2, <1>3
<1>5. QED
  BY <1>4 DEF SkipFrom

LEMMA PastFacts ==
  ASSUME NEW s, NEW n \in Nat, n = Len(s), NEW i \in 1 .. n + 1, NEW chars, "end" \notin chars
  PROVE  Past(s, i, chars) \in i .. n + 1
BY DEF Past, CharAt

LEMMA OnlyDigitsSkipped ==
  ASSUME NEW s, s \in Seq(STRING), NEW i \in 1 .. Len(s) + 1, NEW j \in i .. Len(s) + 1,
         \A k \in i .. j - 1 : s[k] \in Digits
  PROVE  SubSeq(s, i, j - 1) \in Seq(Digits)
<1>1. Len(s) \in Nat
  BY LenProperties
<1>2. i \in Int /\ j - 1 \in Int
  BY <1>1
<1>3. QED
  BY <1>2, SubSeqProperties

LEMMA NotADigit == "end" \notin Digits /\ "end" \notin {"e", "E"} /\ "0" \in Digits
BY DEF Digits, DigitChars

LEMMA PartsFacts ==
  ASSUME NEW s \in Seq(STRING)
  PROVE  LET p == Parts(s)
         IN  /\ SubSeq(s, p.signif, p.int_end - 1) \in Seq(Digits)
             /\ SubSeq(s, p.frac, p.frac_end - 1) \in Seq(Digits)
             /\ SubSeq(s, p.exp, p.exp_end - 1) \in Seq(Digits)
             /\ p.frac_end - p.frac \in Int
<1>1. PICK n \in Nat : n = Len(s)
  BY LenProperties
<1> DEFINE first == SkipFrom(s, 1, {" "})
           int == Past(s, first, {"+", "-"})
           signif == SkipFrom(s, int, {"0"})
           int_end == SkipFrom(s, signif, Digits)
           frac == Past(s, int_end, {"."})
           frac_end == IF CharAt(s, int_end) = "." THEN SkipFrom(s, frac, Digits) ELSE int_end
           has_exp == CharAt(s, frac_end) \in {"e", "E"}
           exp == IF has_exp THEN Past(s, frac_end + 1, {"+", "-"}) ELSE frac_end
           exp_end == IF has_exp THEN SkipFrom(s, exp, Digits) ELSE frac_end
           p == Parts(s)
<1>2. /\ p.signif = signif /\ p.int_end = int_end /\ p.frac = frac /\ p.frac_end = frac_end
      /\ p.exp = exp /\ p.exp_end = exp_end
  BY DEF Parts
<1> HIDE DEF p
<1>3. first \in 1 .. n + 1
  <2>1. 1 \in 1 .. n + 1 /\ "end" \notin {" "}
    OBVIOUS
  <2>2. QED
    BY <1>1, <2>1, SkipFacts
<1> HIDE DEF first
<1>4. int \in 1 .. n + 1
  <2>1. "end" \notin {"+", "-"}
    OBVIOUS
  <2>2. int \in first .. n + 1
    BY <1>1, <1>3, <2>1, PastFacts
  <2>3. QED
    BY <1>3, <2>2
<1> HIDE DEF int
<1>5. signif \in 1 .. n + 1
  <2>1. "end" \notin {"0"}
    OBVIOUS
  <2>2. signif \in int .. n + 1
    BY <1>1, <1>4, <2>1, SkipFacts
  <2>3. QED
    BY <1>4, <2>2
<1> HIDE DEF signif
<1>6. int_end \in signif .. n + 1 /\ \A k \in signif .. int_end - 1 : s[k] \in Digits
  BY <1>1, <1>5, NotADigit, SkipFacts
<1>7. int_end \in 1 .. n + 1
  BY <1>5, <1>6
<1> HIDE DEF int_end
<1>8. frac \in 1 .. n + 1 /\ (CharAt(s, int_end) # "." => frac = int_end)
  <2>1. "end" \notin {"."}
    OBVIOUS
  <2>2. frac \in int_end .. n + 1
    BY <1>1, <1>7, <2>1, PastFacts
  <2>3. QED
    BY <1>7, <2>2 DEF Past
<1> HIDE DEF frac
<1>9. frac_end \in frac .. n + 1 /\ \A k \in frac .. frac_end - 1 : s[k] \in Digits
  <2>1. CASE CharAt(s, int_end) = "."
    <3>1. LET j == SkipFrom(s, frac, Digits) IN j \in frac .. n + 1 /\ \A k \in frac .. j - 1 : s[k] \in Digits
      BY <1>1, <1>8, NotADigit, SkipFacts
    <3>2. QED
      BY <2>1, <3>1
  <2>2. CASE CharAt(s, int_end) # "."
    <3>1. frac_end = frac
      BY <1>8, <2>2
    <3> HIDE DEF frac_end
    <3>2. QED
      BY <1>8, <3>1
  <2>3. QED
    BY <2>1, <2>2
<1>10. frac_end \in 1 .. n + 1
  BY <1>8, <1>9
<1> HIDE DEF frac_end
<1>11. exp \in 1 .. n + 1 /\ exp_end \in exp .. n + 1 /\ \A k \in exp .. exp_end - 1 : s[k] \in Digits
  <2>1. CASE has_exp
    <3>1. frac_end + 1 \in 1 .. n + 1
      BY <1>1, <1>10, <2>1 DEF CharAt
    <3>2. "end" \notin {"+", "-"}
      OBVIOUS
    <3>3. Past(s, frac_end + 1, {"+", "-"}) \in frac_end + 1 .. n + 1
      BY <1>1, <3>1, <3>2, PastFacts
    <3>4. exp \in 1 .. n + 1
      BY <2>1, <3>1, <3>3
    <3> HIDE DEF exp
    <3>5. exp_end = SkipFrom(s, exp, Digits)
      BY <2>1
    <3>6. LET j == SkipFrom(s, exp, Digits) IN j \in exp .. n + 1 /\ \A k \in exp .. j - 1 : s[k] \in Digits
      BY <1>1, <3>4, NotADigit, SkipFacts
    <3>7. QED
      BY <3>4, <3>5, <3>6
  <2>2. CASE ~has_exp
    <3>1. exp = frac_end /\ exp_end = frac_end
      BY <2>2
    <3> HIDE DEF exp, exp_end
    <3>2. QED
      BY <1>10, <3>1
  <2>3. QED
    BY <2>1, <2>2
<1> HIDE DEF exp, exp_end
<1>12. SubSeq(s, signif, int_end - 1) \in Seq(Digits)
  BY <1>1, <1>5, <1>6, OnlyDigitsSkipped
<1>13. SubSeq(s, frac, frac_end - 1) \in Seq(Digits)
  BY <1>1, <1>8, <1>9, OnlyDigitsSkipped
<1>14. SubSeq(s, exp, exp_end - 1) \in Seq(Digits)
  BY <1>1, <1>11, OnlyDigitsSkipped
<1>15. QED
  BY <1>2, <1>8, <1>10, <1>12, <1>13, <1>14 DEF p

(* The exponent of a literal is an integer, or -1. *)
Wrap64(v) == ((v + INT64_MAX + 1) % (2 * (INT64_MAX + 1))) - INT64_MAX - 1

ExponentStep(s) ==
  [p \in Int \X Nat |->
     IF p[2] \in 1 .. Len(s)
     THEN LET next == Wrap64(10 * p[1] + DigitValue(s[p[2]]))
          IN  IF p[1] < 0 \/ next < p[1] THEN -1 ELSE next
     ELSE 0]

LEMMA ExponentStepType ==
  ASSUME NEW s \in Seq(Digits)
  PROVE  ExponentStep(s) \in [Int \X Nat -> Int]
<1>1. \A v \in Int : Wrap64(v) \in Int
  <2>1. PICK m \in Nat \ {0} : m = INT64_MAX + 1
    BY ExponentAssumption
  <2>2. ASSUME NEW v \in Int PROVE Wrap64(v) \in Int
    <3>1. PICK x \in Int : x = v + INT64_MAX + 1
      BY ExponentAssumption
    <3>2. 2 * m \in Nat \ {0}
      OBVIOUS
    <3>3. x % (2 * m) \in Int
      BY <3>2, Z3
    <3>4. QED
      BY <2>1, <3>1, <3>3, ExponentAssumption DEF Wrap64
  <2>3. QED
    BY <2>2
<1>2. \A k \in 1 .. Len(s) : DigitValue(s[k]) \in Int
  <2>1. ASSUME NEW k \in 1 .. Len(s) PROVE DigitValue(s[k]) \in Int
    <3>1. s[k] \in Digits
      BY ElementOfSeq
    <3>2. DigitValue(s[k]) \in 0 .. 9
      BY <3>1, DigitValueRange
    <3>3. QED
      BY <3>2
  <2>2. QED
    BY <2>1
<1>3. ASSUME NEW p \in Int \X Nat
      PROVE  (IF p[2] \in 1 .. Len(s)
              THEN LET next == Wrap64(10 * p[1] + DigitValue(s[p[2]]))
                   IN  IF p[1] < 0 \/ next < p[1] THEN -1 ELSE next
              ELSE 0) \in Int
  <2>1. CASE p[2] \in 1 .. Len(s)
    <3>1. 10 * p[1] + DigitValue(s[p[2]]) \in Int
      BY <1>2, <2>1
    <3>2. Wrap64(10 * p[1] + DigitValue(s[p[2]])) \in Int
      BY <1>1, <3>1
    <3>3. QED
      BY <2>1, <3>2
  <2>2. CASE p[2] \notin 1 .. Len(s)
    BY <2>2
  <2>3. QED
    BY <2>1, <2>2
<1>4. QED
  BY <1>3 DEF ExponentStep

LEMMA ExponentType ==
  ASSUME NEW s \in Seq(Digits)
  PROVE  Exponent(s) \in Int
<1> DEFINE rec(f) == f = [k \in 0 .. Len(s) |->
                            IF k = 0 THEN 0
                            ELSE LET next == Wrap64(10 * f[k - 1] + DigitValue(s[k]))
                                 IN  IF f[k - 1] < 0 \/ next < f[k - 1] THEN -1 ELSE next]
           e == CHOOSE f : rec(f)
<1>1. PICK n \in Nat : n = Len(s)
  BY LenProperties
<1>2. PICK f \in [0 .. n -> Int] : Unfolds(f, 0, ExponentStep(s), n)
  <2>1. 0 \in Int
    OBVIOUS
  <2>2. QED
    BY <2>1, ExponentStepType, RecursionExists
<1>3. ASSUME NEW g, \A k \in 0 .. n : g[k] \in Int, NEW k \in 1 .. n
      PROVE  ExponentStep(s)[<< g[k - 1], k >>]
               = LET next == Wrap64(10 * g[k - 1] + DigitValue(s[k]))
                 IN  IF g[k - 1] < 0 \/ next < g[k - 1] THEN -1 ELSE next
  <2>1. k - 1 \in 0 .. n
    OBVIOUS
  <2>2. PICK w \in Int : w = g[k - 1]
    BY <1>3, <2>1
  <2>3. << w, k >> \in Int \X Nat /\ k \in 1 .. Len(s)
    BY <1>1
  <2>4. QED
    BY <2>2, <2>3 DEF ExponentStep
<1>4. ASSUME NEW k \in 0 .. n
      PROVE  f[k] = IF k = 0 THEN 0
                    ELSE LET next == Wrap64(10 * f[k - 1] + DigitValue(s[k]))
                         IN  IF f[k - 1] < 0 \/ next < f[k - 1] THEN -1 ELSE next
  <2>1. f[k] = IF k = 0 THEN 0 ELSE ExponentStep(s)[<< f[k - 1], k >>]
    BY <1>2 DEF Unfolds
  <2>2. CASE k = 0
    BY <2>1, <2>2
  <2>3. CASE k # 0
    <3>1. k \in 1 .. n
      BY <2>3
    <3>2. QED
      BY <1>3, <2>1, <2>3, <3>1
  <2>4. QED
    BY <2>2, <2>3
<1>5. rec(f)
  <2>1. f = [k \in 0 .. n |-> f[k]]
    OBVIOUS
  <2>2. f = [k \in 0 .. n |-> IF k = 0 THEN 0
                              ELSE LET next == Wrap64(10 * f[k - 1] + DigitValue(s[k]))
                                   IN  IF f[k - 1] < 0 \/ next < f[k - 1] THEN -1 ELSE next]
    BY <1>4, <2>1, Zenon
  <2>3. QED
    BY <1>1, <2>2
<1>6. rec(e)
  BY <1>5
<1>7. Exponent(s) = e[n]
  BY <1>1 DEF Exponent, Wrap64
<1> HIDE DEF e
<1>8. \A k \in 0 .. n : e[k] = IF k = 0 THEN 0
                               ELSE LET next == Wrap64(10 * e[k - 1] + DigitValue(s[k]))
                                    IN  IF e[k - 1] < 0 \/ next < e[k - 1] THEN -1 ELSE next
  BY <1>1, <1>6
<1> DEFINE S == {k \in Nat : k =< n => e[k] = f[k]}
<1>9. 0 \in S
  <2>1. 0 \in 0 .. n
    OBVIOUS
  <2>2. QED
    BY <1>4, <1>8, <2>1
<1>10. ASSUME NEW k \in Nat, k \in S PROVE k + 1 \in S
  <2>1. SUFFICES ASSUME k + 1 =< n PROVE e[k + 1] = f[k + 1]
    OBVIOUS
  <2>2. PICK i : i = k + 1 /\ i \in 0 .. n /\ i # 0 /\ i - 1 = k
    BY <2>1
  <2>3. PICK w : w = e[k] /\ w = f[k]
    BY <1>10, <2>1
  <2>4. e[i] = LET next == Wrap64(10 * w + DigitValue(s[i]))
               IN  IF w < 0 \/ next < w THEN -1 ELSE next
    BY <1>8, <2>2, <2>3
  <2>5. f[i] = LET next == Wrap64(10 * w + DigitValue(s[i]))
               IN  IF w < 0 \/ next < w THEN -1 ELSE next
    BY <1>4, <2>2, <2>3
  <2>6. QED
    BY <2>2, <2>4, <2>5
<1> HIDE DEF S
<1>11. n \in S
  BY <1>9, <1>10, SetInduction
<1>12. e[n] = f[n]
  BY <1>11 DEF S
<1>13. QED
  BY <1>7, <1>12

(* What parse_ascii_dec_literal accepts. *)
LEMMA LiteralParsed ==
  ASSUME NEW s \in Seq(STRING), parse_ascii_dec_literal(s).rc = "OK"
  PROVE  Parsed(parse_ascii_dec_literal(s))
<1> DEFINE p == Parts(s)
           digits == SubSeq(s, p.signif, p.int_end - 1) \o SubSeq(s, p.frac, p.frac_end - 1)
           e == Exponent(SubSeq(s, p.exp, p.exp_end - 1))
           exp == (IF p.exp_sign = "-" THEN -e ELSE e) - (p.frac_end - p.frac)
           coeff == IF digits = <<>> THEN << "0" >> ELSE digits
           lit == Literal(CharAt(s, p.first) = "-", NumberIn(coeff), Len(coeff), exp)
           r == parse_ascii_dec_literal(s)
<1>1. digits \in Seq(Digits)
  BY PartsFacts, ConcatProperties
<1>2. e \in Int /\ p.frac_end - p.frac \in Int
  BY PartsFacts, ExponentType
<1>3. coeff \in Seq(Digits) /\ coeff # <<>>
  <2>1. << "0" >> \in Seq(Digits) /\ << "0" >> # <<>>
    BY NotADigit
  <2> HIDE DEF digits
  <2>2. QED
    BY <1>1, <2>1
<1>4. r = CASE CharAt(s, p.first) = "end" -> Fails("INVALID_DECIMAL_LITERAL")
            [] digits = <<>> /\ CharAt(s, p.int) # "0" -> Fails("INVALID_DECIMAL_LITERAL")
            [] p.has_exp /\ p.exp_sign \notin Digits \cup {"+", "-"} -> Fails("INVALID_DECIMAL_LITERAL")
            [] e < 0 -> Fails("EXP_LIMIT_EXCEEDED")
            [] CharAt(s, p.end) # "end" -> Fails("INVALID_DECIMAL_LITERAL")
            [] exp < -INT64_MAX - 1 -> Fails("EXP_LIMIT_EXCEEDED")
            [] exp > 0 /\ CEIL(exp, DEC_DIGITS_PER_DIGIT) > FPDEC_MAX_EXP -> Fails("EXP_LIMIT_EXCEEDED")
            [] -exp > FPDEC_MAX_DEC_PREC -> Fails("PREC_LIMIT_EXCEEDED")
            [] OTHER -> [rc |-> "OK", digits |-> coeff, literal |-> lit]
  BY DEF parse_ascii_dec_literal, LiteralOf
<1> HIDE DEF p, digits, e, exp, coeff, lit, r
<1>5. Fails("INVALID_DECIMAL_LITERAL").rc # "OK" /\ Fails("EXP_LIMIT_EXCEEDED").rc # "OK"
      /\ Fails("PREC_LIMIT_EXCEEDED").rc # "OK"
  BY DEF Fails
<1>6. r.rc = "OK"
  BY DEF r
<1>7. /\ ~(exp > 0 /\ CEIL(exp, DEC_DIGITS_PER_DIGIT) > FPDEC_MAX_EXP)
      /\ ~(-exp > FPDEC_MAX_DEC_PREC)
      /\ r = [rc |-> "OK", digits |-> coeff, literal |-> lit]
  BY <1>4, <1>5, <1>6
<1>8. exp \in Int
  BY <1>2 DEF exp
<1>9. CEIL(exp, DEC_DIGITS_PER_DIGIT) =< FPDEC_MAX_EXP
  <2>1. PICK b \in Nat \ {0} : b = DEC_DIGITS_PER_DIGIT
    BY Limits
  <2>2. PICK q \in Int : q = (-exp) \div b /\ CEIL(exp, DEC_DIGITS_PER_DIGIT) = -q
    <3>1. (-exp) \div b \in Int
      BY <1>8, Z3
    <3>2. QED
      BY <2>1, <3>1 DEF CEIL
  <2>3. exp =< 0 => q >= 0
    BY <1>8, <2>2, Z3
  <2>4. QED
    BY <1>7, <1>8, <2>2, <2>3, Limits
<1>10. -exp =< FPDEC_MAX_DEC_PREC
  BY <1>7, <1>8, Limits
<1>11. /\ lit.negative \in BOOLEAN /\ lit.coeff = NumberIn(coeff)
       /\ lit.n_dec_digits = Len(coeff) /\ lit.exp = exp
  BY DEF lit, Literal
<1>12. QED
  BY <1>3, <1>6, <1>7, <1>8, <1>9, <1>10, <1>11 DEF Parsed, r

-----------------------------------------------------------------------------
(* Whatever a literal is read to is the number computed from what it says. *)
LEMMA LiteralRead ==
  ASSUME NEW s \in Seq(STRING), from_ascii_literal(s).rc = "OK"
  PROVE  /\ Parsed(parse_ascii_dec_literal(s))
         /\ from_ascii_literal(s) = fpdec_from_ascii_literal(parse_ascii_dec_literal(s).literal)
<1>1. parse_ascii_dec_literal(s).rc = "OK"
  BY DEF from_ascii_literal, from_parsed, Returns
<1>2. QED
  BY <1>1, LiteralParsed, WordsAreNumbers DEF from_ascii_literal

(***************************************************************************)
(* No digit of a literal is lost, for every base, word size and limits.    *)
(***************************************************************************)
THEOREM DigitsAreKept == Spec => []NoDigitIsLost
<1>1. Init => NoDigitIsLost
  BY DEF Init, NoDigitIsLost, Called
<1>2. ASSUME NoDigitIsLost, [Next]_vars PROVE NoDigitIsLost'
  <2>1. ASSUME Read PROVE NoDigitIsLost'
    <3>1. PICK s \in Literals : /\ a' = from_ascii_literal(s).v
                                /\ call' = Called("read", s, from_ascii_literal(s).rc)
      BY <2>1 DEF Read
    <3>2. s \in Seq(STRING)
      BY TextAssumption
    <3>3. call'.arg = s /\ call'.rc = from_ascii_literal(s).rc
      BY <3>1 DEF Called
    <3>4. QED
      BY <3>1, <3>2, <3>3, LiteralRead DEF NoDigitIsLost
  <2>2. ASSUME ReadUnicode PROVE NoDigitIsLost'
    <3>1. call'.fn = "read_unicode"
      BY <2>2 DEF ReadUnicode, Called
    <3>2. QED
      BY <3>1 DEF NoDigitIsLost
  <2>3. ASSUME Make PROVE NoDigitIsLost'
    <3>1. call'.fn = "make"
      BY <2>3 DEF Make, Called
    <3>2. QED
      BY <3>1 DEF NoDigitIsLost
  <2>4. ASSUME Format PROVE NoDigitIsLost'
    <3>1. call'.fn = "formatted"
      BY <2>4 DEF Format, Called
    <3>2. QED
      BY <3>1 DEF NoDigitIsLost
  <2>5. ASSUME AsAsciiLiteral PROVE NoDigitIsLost'
    <3>1. call'.fn = "as_ascii_literal"
      BY <2>5 DEF AsAsciiLiteral, Called
    <3>2. QED
      BY <3>1 DEF NoDigitIsLost
  <2>6. ASSUME AsSignCoeffExp PROVE NoDigitIsLost'
    <3>1. call'.fn = "as_sign_coeff128_exp"
      BY <2>6 DEF AsSignCoeffExp, Called
    <3>2. QED
      BY <3>1 DEF NoDigitIsLost
  <2>7. ASSUME Reset PROVE NoDigitIsLost'
    <3>1. call'.fn = "none"
      BY <2>7 DEF Reset, Called
    <3>2. QED
      BY <3>1 DEF NoDigitIsLost
  <2>8. CASE UNCHANGED vars
    BY <1>2, <2>8 DEF vars, NoDigitIsLost
  <2>9. QED
    BY <1>2, <2>1, <2>2, <2>3, <2>4, <2>5, <2>6, <2>7, <2>8 DEF Next
<1>3. QED
  BY <1>1, <1>2, PTL DEF Spec

-----------------------------------------------------------------------------
(***************************************************************************)
(* Sign, coefficient and exponent of the numbers there are.                *)
(***************************************************************************)
Stored(x) ==
  /\ x.dyn \in BOOLEAN /\ x.sign \in {-1, 0, 1} /\ x.coeff \in Nat
  /\ x.dec_prec \in Int /\ x.exp \in Int
  /\ ~x.dyn => x.coeff < SHINT_LIMIT
  /\ x.dyn => x.sign # 0 /\ Stripped(x)

LEMMA StoredShint ==
  ASSUME NEW s \in {-1, 0, 1}, NEW p \in Int, NEW c \in Nat, c < SHINT_LIMIT
  PROVE  Stored(Shint(s, p, c))
BY DEF Stored, Shint

LEMMA StoredDyn ==
  ASSUME NEW s \in {-1, 1}, NEW p \in Int, NEW v \in Nat \ {0}, NEW e \in Int,
         NEW d, d = Trimmed(v, DigitCount[v], e)
  PROVE  Stripped(d) /\ Stored(Dyn(s, p, d.coeff, d.n, d.exp))
<1>1. Stripped(d) /\ d.exp \in Int
  <2>1. Stripped(d) /\ d.exp \in INT32_MIN .. FPDEC_MAX_EXP
    BY StrippedZeros
  <2>2. QED
    BY <2>1
<1>2. PICK b : b = Dyn(s, p, d.coeff, d.n, d.exp)
  OBVIOUS
<1>3. /\ b.coeff = d.coeff /\ b.n = d.n /\ b.exp = d.exp /\ b.dyn = TRUE
      /\ b.sign = s /\ b.dec_prec = p
  BY <1>2 DEF Dyn
<1>4. Stripped(b)
  BY <1>1, <1>3 DEF Stripped
<1>5. b.coeff \in Nat
  BY <1>4 DEF Stripped
<1>6. Stored(b)
  <2>1. s \in {-1, 0, 1} /\ s # 0
    OBVIOUS
  <2>2. b.dyn /\ b.dyn \in BOOLEAN
    BY <1>3
  <2>3. QED
    BY <1>1, <1>3, <1>4, <1>5, <2>1, <2>2, Zenon DEF Stored
<1>7. QED
  BY <1>1, <1>2, <1>6

LEMMA StoredZero ==
  ASSUME NEW p \in Int
  PROVE  Stored(ResetToZero(p))
BY StoredShint, Limits DEF ResetToZero

(* What is read from a literal. *)
LEMMA StoredLiteral ==
  ASSUME NEW literal, literal.coeff \in Nat, literal.exp \in Int
  PROVE  Stored(fpdec_from_ascii_literal(literal).v)
<1>1. PICK c \in Nat, e \in Int : c = literal.coeff /\ e = literal.exp
  OBVIOUS
<1>2. PICK s \in {-1, 1}, p \in Nat, m \in Nat :
        /\ s = IF literal.negative THEN -1 ELSE 1
        /\ p = MAX(0, -e) /\ m = MAX(0, e)
  BY DEF MAX
<1>3. PICK x \in Nat : x = c * Power(10, m)
  <2>1. Power(10, m) \in Nat
    BY PowersOf10
  <2>2. QED
    BY <2>1
<1>4. PICK f \in Int, t \in Nat : /\ f = FLOOR(e, DEC_DIGITS_PER_DIGIT)
                                  /\ t = MOD(e, DEC_DIGITS_PER_DIGIT)
  <2>1. PICK b \in Nat \ {0} : b = DEC_DIGITS_PER_DIGIT
    BY Limits
  <2>2. e \div b \in Int /\ e % b \in Nat
    BY Z3
  <2>3. QED
    BY <2>1, <2>2 DEF FLOOR, MOD
<1>5. PICK v \in Nat : v = c * u64_10_pow_n(t)
  <2>1. Power(10, t) \in Nat
    BY PowersOf10
  <2>2. QED
    BY <2>1 DEF u64_10_pow_n
<1>6. PICK d : d = Trimmed(v, DigitCount[v], f)
  OBVIOUS
<1>7. PICK o : o = fpdec_from_ascii_literal(literal)
  OBVIOUS
<1>8. \/ o.v = FPDEC_ZERO
      \/ o.v = Shint(IF x = 0 THEN 0 ELSE s, p, x) /\ x < SHINT_LIMIT
      \/ o.v = IF d.n > 0 THEN Dyn(s, p, d.coeff, d.n, d.exp) ELSE ResetToZero(p)
  BY <1>1, <1>2, <1>3, <1>4, <1>5, <1>6, <1>7 DEF fpdec_from_ascii_literal, Returns, Ok
<1>9. Stored(FPDEC_ZERO)
  BY StoredShint, Limits DEF FPDEC_ZERO
<1>10. x < SHINT_LIMIT => Stored(Shint(IF x = 0 THEN 0 ELSE s, p, x))
  BY StoredShint
<1>11. Stored(IF d.n > 0 THEN Dyn(s, p, d.coeff, d.n, d.exp) ELSE ResetToZero(p))
  <2>1. CASE v = 0
    <3>1. d.n = 0
      BY <1>6, <2>1, NoDigits
    <3>2. QED
      BY <3>1, StoredZero
  <2>2. CASE v # 0
    <3>1. Stored(Dyn(s, p, d.coeff, d.n, d.exp))
      BY <1>6, <2>2, StoredDyn
    <3>2. Stored(ResetToZero(p))
      BY StoredZero
    <3>3. QED
      BY <3>1, <3>2
  <2>3. QED
    BY <2>1, <2>2
<1>12. QED
  BY <1>7, <1>8, <1>9, <1>10, <1>11

(* What is made of digits. *)
LEMMA StoredDigits ==
  ASSUME NEW s \in {-1, 1}, NEW c \in Nat, NEW e \in Int
  PROVE  Stored(fpdec_from_sign_digits_exp(s, c, e).v)
<1>1. PICK d : d = Trimmed(c, DigitCount[c], e)
  OBVIOUS
<1>2. PICK o : o = fpdec_from_sign_digits_exp(s, c, e)
  OBVIOUS
<1>3. o.v = IF d.n = 0 THEN Shint(s, 0, 0)
            ELSE IF d.n = 1 /\ d.exp = 0 THEN Shint(s, 0, d.coeff)
            ELSE Dyn(s, IF d.exp >= 0 THEN 0 ELSE AsDecPrec(-d.exp * DEC_DIGITS_PER_DIGIT),
                     d.coeff, d.n, d.exp)
  BY <1>1, <1>2 DEF fpdec_from_sign_digits_exp, Ok, Returns
<1>4. Stored(Shint(s, 0, 0))
  BY StoredShint, Limits
<1>5. CASE c = 0
  <2>1. d.n = 0
    BY <1>1, <1>5, NoDigits
  <2>2. QED
    BY <1>2, <1>3, <1>4, <2>1
<1>6. CASE c # 0
  <2>1. Stripped(d) /\ d.exp \in Int
    <3>1. Stripped(d) /\ d.exp \in INT32_MIN .. FPDEC_MAX_EXP
      BY <1>1, <1>6, StrippedZeros
    <3>2. QED
      BY <3>1
  <2>2. ASSUME d.n = 1 PROVE Stored(Shint(s, 0, d.coeff))
    <3>1. d.coeff \in Nat /\ d.coeff < Weight(1)
      BY <2>1, <2>2 DEF Stripped
    <3>2. PICK r \in Nat, w \in Nat : /\ r = RADIX /\ w = RADIX * u64_10_pow_n(MAX_DEC_PREC_FOR_SHINT)
                                      /\ r + w < SHINT_LIMIT
      <4>1. Power(10, MAX_DEC_PREC_FOR_SHINT) \in Nat
        BY Limits, PowersOf10
      <4>2. RADIX * Power(10, MAX_DEC_PREC_FOR_SHINT) \in Nat
        BY <4>1, RadixPositive
      <4>3. RADIX + RADIX * u64_10_pow_n(MAX_DEC_PREC_FOR_SHINT) < SHINT_LIMIT
        BY ShintAssumption
      <4>4. QED
        BY <4>2, <4>3, RadixPositive DEF u64_10_pow_n
    <3>3. Weight(1) = RADIX
      <4>1. Weight(0 + 1) = RADIX * Weight(0) /\ Weight(0) = 1 /\ 0 + 1 = 1
        BY WeightFacts, WeightZero
      <4>2. QED
        BY <4>1, RadixPositive
    <3>4. d.coeff < SHINT_LIMIT
      BY <3>1, <3>2, <3>3, Limits
    <3>5. QED
      BY <3>1, <3>4, StoredShint
  <2>3. (IF d.exp >= 0 THEN 0 ELSE AsDecPrec(-d.exp * DEC_DIGITS_PER_DIGIT)) \in Int
    <3>1. PICK b \in Nat : b = DEC_DIGITS_PER_DIGIT
      BY Limits
    <3>2. PICK k \in Int : k = -d.exp * b
      BY <2>1
    <3>3. AsDecPrec(k) \in 0 .. FPDEC_MAX_DEC_PREC
      BY AsDecPrecFacts
    <3>4. QED
      BY <3>1, <3>2, <3>3
  <2>4. Stored(Dyn(s, IF d.exp >= 0 THEN 0 ELSE AsDecPrec(-d.exp * DEC_DIGITS_PER_DIGIT),
                   d.coeff, d.n, d.exp))
    BY <1>1, <1>6, <2>3, StoredDyn
  <2>5. QED
    BY <1>2, <1>3, <1>4, <2>2, <2>4
<1>7. QED
  BY <1>5, <1>6

-----------------------------------------------------------------------------
(* The coefficient of a number is the least there is. *)
LEMMA LeastCoefficient ==
  ASSUME NEW m \in Int, NEW e \in Int
  PROVE  ABS(Canonical(m, e)[1]) \in Nat /\ ABS(Canonical(m, e)[1]) =< ABS(m)
<1>1. CASE m = 0
  BY <1>1, CanonicalZero DEF ABS
<1>2. CASE m # 0
  <2>1. PICK c \in Int, k \in Int : Canonical(m, e) = << c, k >> /\ e =< k /\ m = c * Power(10, k - e)
    BY <1>2, CanonicalFacts
  <2>2. PICK p \in Nat \ {0} : p = Power(10, k - e)
    <3>1. k - e \in Nat
      BY <2>1
    <3>2. QED
      BY <3>1, PowersOf10
  <2>3. m = c * p
    BY <2>1, <2>2
  <2>4. c >= 0 => c * p >= c
    OBVIOUS
  <2>5. c =< 0 => c * p =< c
    OBVIOUS
  <2>6. Canonical(m, e)[1] = c
    BY <2>1
  <2>7. QED
    BY <2>3, <2>4, <2>5, <2>6 DEF ABS
<1>3. QED
  BY <1>1, <1>2

(* What CoefficientIsExact demands of an outcome for s * c * 10^e. *)
Takes(o, s, c, e) ==
  LET num == Canonical(s * c, e)
  IN  IF ABS(num[1]) < U128
      THEN o.rc = 0 /\ o.coeff < U128 /\ Canonical(o.sign * o.coeff, o.exp) = num
      ELSE o.rc = -1

LEMMA NormalizedTaken ==
  ASSUME NEW s \in {-1, 1}, NEW c \in Nat, c < U128, NEW e \in Int
  PROVE  Takes(TakenNormalized(s, c, e), s, c, e)
<1>1. PICK n \in Nat : n = MAX_N_DEC_DIGITS_IN_SHINT
  BY ShintRange, Limits
<1>2. PICK k \in 0 .. n : /\ k = TrailingZeros(c, n)
                          /\ c \div Power(10, k) \in Nat
                          /\ c = Power(10, k) * (c \div Power(10, k))
  BY TrailingZerosFacts
<1>3. PICK q \in Nat, p \in Nat \ {0} : q = c \div Power(10, k) /\ p = Power(10, k) /\ c = p * q
  <2>1. k \in Nat
    OBVIOUS
  <2>2. Power(10, k) \in Nat \ {0}
    BY <2>1, PowersOf10
  <2>3. QED
    BY <1>2, <2>2
<1>4. TakenNormalized(s, c, e) = [rc |-> 0, sign |-> s, coeff |-> q, exp |-> e + k]
  BY <1>1, <1>2, <1>3 DEF TakenNormalized, Taken, u64_10_pow_n
<1>5. Canonical(s * q, e + k) = Canonical(s * c, e)
  <2>1. s * q \in Int /\ (s * q) * p = s * c
    BY <1>3
  <2>2. Canonical((s * q) * Power(10, k), e) = Canonical(s * q, e + k)
    BY <2>1, CanonicalScale
  <2>3. QED
    BY <1>3, <2>1, <2>2
<1>6. q =< c
  <2>1. p * q >= q
    OBVIOUS
  <2>2. QED
    BY <1>3, <2>1
<1>7. ABS(Canonical(s * c, e)[1]) < U128
  <2>1. s * c \in Int /\ ABS(s * c) = c
    BY DEF ABS
  <2>2. ABS(Canonical(s * c, e)[1]) \in Nat /\ ABS(Canonical(s * c, e)[1]) =< c
    BY <2>1, LeastCoefficient
  <2>3. QED
    BY <2>2, Words128
<1>8. q < U128
  BY <1>6, Words128
<1>9. QED
  BY <1>4, <1>5, <1>7, <1>8 DEF Takes

(* Three digits and the weights of them. *)
LEMMA ThreeDigits ==
  ASSUME NEW c \in Nat, c < Weight(3)
  PROVE  \E d0 \in 0 .. RADIX - 1, d1 \in 0 .. RADIX - 1, d2 \in 0 .. RADIX - 1 :
           /\ d0 = DigitAt(c, 0) /\ d1 = DigitAt(c, 1) /\ d2 = DigitAt(c, 2)
           /\ d0 = c % RADIX
           /\ c = d0 + RADIX * (d1 + RADIX * d2)
<1>1. PICK r \in Nat \ {0} : r = RADIX
  BY RadixPositive
<1>2. Weight(0) = 1 /\ Weight(1) = r /\ Weight(2) = r * r /\ Weight(3) = r * (r * r)
  <2>1. Weight(0) = 1 /\ Weight(0 + 1) = RADIX * Weight(0) /\ Weight(1 + 1) = RADIX * Weight(1)
        /\ Weight(2 + 1) = RADIX * Weight(2)
    BY WeightZero, WeightFacts
  <2>2. 0 + 1 = 1 /\ 1 + 1 = 2 /\ 2 + 1 = 3 /\ r * 1 = r
    OBVIOUS
  <2>3. QED
    BY <1>1, <2>1, <2>2
<1>3. PICK q1 \in Nat, d0 \in 0 .. r - 1 : q1 = c \div r /\ d0 = c % r /\ c = q1 * r + d0
  BY QuotientAndRest
<1>4. PICK q2 \in Nat, d1 \in 0 .. r - 1 : q2 = q1 \div r /\ d1 = q1 % r /\ q1 = q2 * r + d1
  BY QuotientAndRest
<1>5. PICK w \in Nat \ {0}, l \in Nat : /\ w = r * r /\ l = d1 * r + d0 /\ l < w
                                        /\ c = l + q2 * w
  <2>1. (q2 * r + d1) * r + d0 = (d1 * r + d0) + q2 * (r * r)
    OBVIOUS
  <2>2. d1 * r + d0 \in Nat /\ r * r \in Nat \ {0}
    OBVIOUS
  <2>3. d1 * r + d0 < r * r
    <3>1. d1 + 1 =< r /\ (d1 + 1) * r =< r * r /\ (d1 + 1) * r = d1 * r + r
      OBVIOUS
    <3>2. d1 * r \in Nat
      OBVIOUS
    <3>3. QED
      BY <2>2, <3>1, <3>2
  <2>4. QED
    BY <1>3, <1>4, <2>1, <2>2, <2>3
<1>6. c \div w = q2
  BY <1>5, LowAndHigh
<1>7. q2 < r
  <2>1. SUFFICES ASSUME q2 >= r PROVE FALSE
    OBVIOUS
  <2>2. q2 * w >= r * w /\ q2 * w \in Nat /\ r * w \in Nat
    BY <2>1
  <2>3. c < r * w
    BY <1>2, <1>5
  <2>4. QED
    BY <1>5, <2>2, <2>3
<1>8. q2 % r = q2
  BY <1>7, Z3
<1>9. DigitAt(c, 0) = d0 /\ DigitAt(c, 1) = d1 /\ DigitAt(c, 2) = q2
  <2>1. c \div 1 = c
    OBVIOUS
  <2>2. QED
    BY <1>1, <1>2, <1>3, <1>4, <1>5, <1>6, <1>8, <2>1 DEF DigitAt
<1>10. c = d0 + r * (d1 + r * q2)
  BY <1>3, <1>4
<1>11. q2 \in 0 .. r - 1
  BY <1>7
<1>12. QED
  BY <1>1, <1>3, <1>4, <1>9, <1>10, <1>11

(* A word squared: even, and less than ten digits squared. *)
LEMMA WordSquare ==
  /\ U128 \in Nat /\ RADIX * RADIX < U128 /\ U128 < 10 * (RADIX * RADIX)
  /\ \E y \in Nat : U128 = 2 * y
<1>1. PICK n \in Nat, r \in Nat : n = U64 /\ r = RADIX /\ r < n /\ n < 2 * r /\ n % 2 = 0 /\ r >= 10
  BY Constants, WordAssumption
<1>2. U128 = n * n
  BY <1>1, Words128
<1>3. r * r < n * n /\ n * n < 10 * (r * r) /\ n * n \in Nat
  <2>1. r * r =< r * n /\ r * n < n * n /\ r * r \in Nat /\ r * n \in Nat /\ n * n \in Nat
    BY <1>1
  <2>2. n * n =< (2 * r) * (2 * r) /\ (2 * r) * (2 * r) = 4 * (r * r)
    <3>1. n * n =< n * (2 * r) /\ n * (2 * r) =< (2 * r) * (2 * r)
      BY <1>1
    <3>2. n * (2 * r) \in Nat /\ (2 * r) * (2 * r) \in Nat
      OBVIOUS
    <3>3. QED
      BY <2>1, <3>1, <3>2
  <2>3. r * r > 0
    BY <1>1
  <2>4. QED
    BY <2>1, <2>2, <2>3
<1>4. PICK m \in Nat : n = 2 * m
  <2>1. n \div 2 \in Nat /\ n = 2 * (n \div 2) + (n % 2)
    BY Z3
  <2>2. n = 2 * (n \div 2)
    BY <1>1, <2>1
  <2>3. QED
    BY <2>1, <2>2
<1>5. n * n = 2 * (m * n) /\ m * n \in Nat
  BY <1>4
<1>6. QED
  BY <1>1, <1>2, <1>3, <1>5

(* The k zeros at the end of the least digit, and the power that shifts the others. *)
LeastDigit(d0, k, z, p, t) ==
  /\ k = TrailingZeros(d0, DEC_DIGITS_PER_DIGIT)
  /\ p = u64_10_pow_n(k) /\ p = Power(10, k) /\ 10 * t = u64_10_pow_n(DEC_DIGITS_PER_DIGIT - k)
  /\ z = d0 \div u64_10_pow_n(k) /\ d0 = p * z /\ z % 10 # 0
  /\ RADIX = p * (10 * t) /\ z < 10 * t

LEMMA LeastDigitZeros ==
  ASSUME NEW d0 \in 0 .. RADIX - 1, d0 # 0
  PROVE  \E k \in Nat, z \in Nat, p \in Nat \ {0}, t \in Nat \ {0} : LeastDigit(d0, k, z, p, t)
<1>1. PICK d \in Nat : d = DEC_DIGITS_PER_DIGIT /\ RADIX = Power(10, d)
  BY Limits
<1>2. d0 \in Nat /\ d0 < RADIX
  BY RadixPositive
<1>3. PICK k \in 0 .. d : /\ k = TrailingZeros(d0, d) /\ d0 \div Power(10, k) \in Nat
                          /\ d0 = Power(10, k) * (d0 \div Power(10, k))
                          /\ k < d => (d0 \div Power(10, k)) % 10 # 0
  BY <1>2, TrailingZerosFacts
<1>4. PICK p \in Nat \ {0} : p = Power(10, k)
  BY PowersOf10
<1>5. PICK z \in Nat : z = d0 \div p /\ d0 = p * z /\ (k < d => z % 10 # 0)
  BY <1>3, <1>4
<1>6. k # d
  <2>1. SUFFICES ASSUME k = d PROVE FALSE
    OBVIOUS
  <2>2. z # 0
    <3>1. p * 0 = 0
      OBVIOUS
    <3>2. QED
      BY <1>5, <3>1
  <2>3. p * z >= p
    BY <2>2
  <2>4. QED
    BY <1>1, <1>2, <1>4, <1>5, <2>1, <2>3
<1>7. PICK i \in Nat : d - k = i + 1 /\ k < d
  <2>1. d - k - 1 \in Nat /\ k < d
    BY <1>6
  <2>2. QED
    BY <2>1
<1>8. PICK t \in Nat \ {0} : t = Power(10, i) /\ Power(10, d - k) = 10 * t
  BY <1>7, PowersOf10
<1>9. RADIX = p * (10 * t)
  <2>1. k \in Nat /\ d - k \in Nat /\ k + (d - k) = d
    BY <1>7
  <2>2. Power(10, k + (d - k)) = Power(10, k) * Power(10, d - k)
    BY <2>1, PowerSum
  <2>3. QED
    BY <1>1, <1>4, <1>8, <2>1, <2>2
<1>10. z < 10 * t
  <2>1. SUFFICES ASSUME z >= 10 * t PROVE FALSE
    OBVIOUS
  <2>2. p * z >= p * (10 * t) /\ p * z \in Nat /\ p * (10 * t) \in Nat
    BY <2>1
  <2>3. QED
    BY <1>2, <1>5, <1>9, <2>2
<1>11. LeastDigit(d0, k, z, p, t)
  BY <1>1, <1>3, <1>4, <1>5, <1>7, <1>8, <1>9, <1>10 DEF u64_10_pow_n, LeastDigit
<1>12. QED
  BY <1>11

(* The product of the high part, unless it wraps unnoticed. *)
LEMMA HighProduct ==
  ASSUME NEW h \in Nat, NEW s \in Nat,
         ~((h \div U64) * s < U64 /\ h * s >= U128)
  PROVE  IF h * s < U128 THEN u128_imul_u64(h, s) = h * s ELSE u128_imul_u64(h, s) = U128 - 1
<1>1. CASE h * s < U128
  BY <1>1, ImulExact
<1>2. CASE ~(h * s < U128)
  <2>1. PICK n \in Nat \ {0} : n = U64
    BY Words128
  <2>2. PICK v \in Nat, k \in Nat : v = h \div n /\ k = v * s
    <3>1. h \div n \in Nat
      BY QuotientAndRest
    <3>2. QED
      BY <3>1
  <2>3. PICK m \in Nat : m = h * s
    OBVIOUS
  <2>4. m >= U128
    BY <1>2, <2>3, Words128
  <2>5. ~(k < n)
    BY <2>1, <2>2, <2>3, <2>4, Zenon
  <2>6. k >= n
    BY <2>5
  <2>7. u128_imul_u64(h, s) = U128 - 1
    BY <2>1, <2>2, <2>6, Zenon DEF u128_imul_u64
  <2>8. QED
    BY <1>2, <2>7
<1>3. QED
  BY <1>1, <1>2

(* A number not divisible by ten, with either sign. *)
LEMMA NoZeroAtEnd ==
  ASSUME NEW s \in {-1, 1}, NEW z \in Nat, z % 10 # 0, NEW w \in Nat
  PROVE  (s * (z + 10 * w)) % 10 # 0
<1>1. CASE s = 1
  <2>1. (z + 10 * w) % 10 = z % 10
    BY Z3
  <2>2. s * (z + 10 * w) = z + 10 * w
    BY <1>1
  <2>3. QED
    BY <2>1, <2>2
<1>2. CASE s = -1
  <2>1. (-(z + 10 * w)) % 10 # 0
    BY Z3
  <2>2. s * (z + 10 * w) = -(z + 10 * w)
    BY <1>2
  <2>3. QED
    BY <2>1, <2>2
<1>3. QED
  BY <1>1, <1>2

(* Three digits: low and high part of the coefficient without zeros at its end. *)
PartsOfThree(c, k, low, h, s, q) ==
  /\ k = TrailingZeros(DigitAt(c, 0), DEC_DIGITS_PER_DIGIT)
  /\ s = u64_10_pow_n(DEC_DIGITS_PER_DIGIT - k)
  /\ low = DigitAt(c, 0) \div u64_10_pow_n(k) + DigitAt(c, 1) * s
  /\ h = DigitAt(c, 2) * RADIX /\ u128_imul_u64(DigitAt(c, 2), RADIX) = h
  /\ low < U128 /\ q = low + h * s /\ c = q * Power(10, k)
  /\ \E y \in Nat : h * s = 2 * y
  /\ \A g \in {-1, 1} : (g * q) % 10 # 0

LEMMA ThreeParts ==
  ASSUME NEW c \in Nat, c < Weight(3), c % RADIX # 0
  PROVE  \E k \in Nat, low \in Nat, h \in Nat, s \in Nat, q \in Nat :
           PartsOfThree(c, k, low, h, s, q)
<1>1. PICK r \in Nat \ {0} : r = RADIX
  BY RadixPositive
<1>2. PICK d0 \in 0 .. r - 1, d1 \in 0 .. r - 1, d2 \in 0 .. r - 1 :
        /\ d0 = DigitAt(c, 0) /\ d1 = DigitAt(c, 1) /\ d2 = DigitAt(c, 2)
        /\ d0 = c % r
        /\ c = d0 + r * (d1 + r * d2)
  BY <1>1, ThreeDigits
<1>3. d0 # 0
  BY <1>1, <1>2
<1>4. PICK k \in Nat, z \in Nat, p \in Nat \ {0}, t \in Nat \ {0} :
        /\ k = TrailingZeros(d0, DEC_DIGITS_PER_DIGIT)
        /\ p = u64_10_pow_n(k) /\ p = Power(10, k)
        /\ 10 * t = u64_10_pow_n(DEC_DIGITS_PER_DIGIT - k)
        /\ z = d0 \div u64_10_pow_n(k) /\ d0 = p * z /\ z % 10 # 0
        /\ r = p * (10 * t) /\ z < 10 * t
  <2>1. d0 \in 0 .. RADIX - 1
    BY <1>1
  <2>2. PICK k \in Nat, z \in Nat, p \in Nat \ {0}, t \in Nat \ {0} : LeastDigit(d0, k, z, p, t)
    BY <1>3, <2>1, LeastDigitZeros
  <2>3. QED
    BY <1>1, <2>2, Zenon DEF LeastDigit
<1>5. PICK s \in Nat : s = 10 * t
  OBVIOUS
<1>6. PICK low \in Nat : low = z + d1 * s
  <2>1. d1 * s \in Nat
    OBVIOUS
  <2>2. QED
    BY <2>1
<1>7. PICK h \in Nat : h = d2 * r
  <2>1. d2 * r \in Nat
    OBVIOUS
  <2>2. QED
    BY <2>1
<1>8. PICK g \in Nat, q \in Nat : g = h * s /\ q = low + g
  <2>1. h * s \in Nat
    OBVIOUS
  <2>2. QED
    BY <2>1
<1>9. low < U128
  <2>1. PICK x \in Nat, u \in Nat, y \in Nat : x = d1 * s /\ u = r * s /\ y = r * r
    BY <1>1, <1>5
  <2>2. s =< r
    <3>1. p * s >= s
      OBVIOUS
    <3>2. QED
      BY <1>4, <1>5, <3>1
  <2>3. x + s =< u
    <3>1. d1 + 1 =< r
      OBVIOUS
    <3>2. (d1 + 1) * s =< r * s
      BY <3>1
    <3>3. (d1 + 1) * s = d1 * s + s
      OBVIOUS
    <3>4. QED
      BY <2>1, <3>2, <3>3
  <2>4. u =< y
    BY <2>1, <2>2
  <2>5. y < U128 /\ U128 \in Nat
    BY <1>1, <2>1, WordSquare
  <2>6. QED
    <3>1. low = z + x /\ z < s
      BY <1>4, <1>5, <1>6, <2>1
    <3>2. QED
      BY <2>3, <2>4, <2>5, <3>1
<1>10. u128_imul_u64(d2, r) = h
  <2>1. d2 * r =< r * r /\ r * r \in Nat
    OBVIOUS
  <2>2. d2 * r < U128
    BY <1>1, <1>7, <2>1, WordSquare
  <2>3. d2 \in Nat
    OBVIOUS
  <2>4. QED
    BY <1>7, <2>2, <2>3, ImulExact
<1>11. PICK m \in Nat : m = d1 + r * d2
  <2>1. d1 + r * d2 \in Nat
    OBVIOUS
  <2>2. QED
    BY <2>1
<1>12. q = z + s * m
  <2>1. h * s = s * (r * d2) /\ r * d2 \in Nat
    BY <1>7
  <2>2. s * (d1 + r * d2) = d1 * s + s * (r * d2)
    BY <2>1
  <2>3. QED
    BY <1>6, <1>8, <1>11, <2>1, <2>2
<1>13. c = q * p
  <2>1. (z + s * m) * p = p * z + (p * s) * m
    OBVIOUS
  <2>2. QED
    BY <1>2, <1>4, <1>5, <1>11, <1>12, <2>1
<1>14. \E y \in Nat : g = 2 * y
  <2>1. 5 * (h * t) \in Nat /\ h * (10 * t) = 2 * (5 * (h * t))
    OBVIOUS
  <2>2. QED
    BY <1>5, <1>8, <2>1
<1>15. \A i \in {-1, 1} : (i * q) % 10 # 0
  <2>1. PICK w \in Nat : w = t * m
    <3>1. t * m \in Nat
      OBVIOUS
    <3>2. QED
      BY <3>1
  <2>2. q = z + 10 * w
    <3>1. (10 * t) * m = 10 * (t * m)
      OBVIOUS
    <3>2. QED
      BY <1>5, <1>12, <2>1, <3>1
  <2>3. QED
    BY <1>4, <2>2, NoZeroAtEnd
<1>16. /\ k = TrailingZeros(DigitAt(c, 0), DEC_DIGITS_PER_DIGIT)
       /\ s = u64_10_pow_n(DEC_DIGITS_PER_DIGIT - k)
       /\ low = DigitAt(c, 0) \div u64_10_pow_n(k) + DigitAt(c, 1) * s
       /\ h = DigitAt(c, 2) * RADIX /\ u128_imul_u64(DigitAt(c, 2), RADIX) = h
  BY <1>1, <1>2, <1>4, <1>5, <1>6, <1>7, <1>10
<1>17. q = low + h * s /\ c = q * Power(10, k) /\ \E y \in Nat : h * s = 2 * y
  BY <1>4, <1>8, <1>13, <1>14
<1>18. PartsOfThree(c, k, low, h, s, q)
  BY <1>9, <1>15, <1>16, <1>17, Zenon DEF PartsOfThree
<1>19. QED
  BY <1>18

(* The decimal exponent is an integer, the one of the number unless it wraps. *)
LEMMA DecimalExp ==
  ASSUME NEW x, Stored(x)
  PROVE  /\ decimal_exp(x) \in Int
         /\ x.exp * DEC_DIGITS_PER_DIGIT \in INT32_MIN .. FPDEC_MAX_EXP =>
              decimal_exp(x) = x.exp * DEC_DIGITS_PER_DIGIT
<1>1. PICK v \in Int : v = x.exp * DEC_DIGITS_PER_DIGIT
  <2>1. PICK b \in Nat, i \in Int : b = DEC_DIGITS_PER_DIGIT /\ i = x.exp
    BY Limits DEF Stored
  <2>2. i * b \in Int
    OBVIOUS
  <2>3. QED
    BY <2>1, <2>2
<1>2. /\ Int32(v) \in INT32_MIN .. FPDEC_MAX_EXP
      /\ v \in INT32_MIN .. FPDEC_MAX_EXP => Int32(v) = v
  BY Int32Facts
<1>3. INT32_MIN \in Int /\ FPDEC_MAX_EXP \in Int
  BY LimitsAssumption DEF INT32_MIN
<1>4. QED
  BY <1>1, <1>2, <1>3 DEF decimal_exp

(* What the number says besides its exponent does not depend on it. *)
LEMMA CanonicalSignificand ==
  ASSUME NEW m \in Int, NEW e \in Int, NEW f \in Int
  PROVE  Canonical(m, e)[1] = Canonical(m, f)[1]
<1>1. CASE m = 0
  BY <1>1, CanonicalZero
<1>2. CASE m # 0
  <2>1. PICK c \in Int, k \in Int : /\ Canonical(m, e) = << c, k >>
                                    /\ c % 10 # 0 /\ e =< k /\ m = c * Power(10, k - e)
    BY <1>2, CanonicalFacts
  <2>2. PICK j \in Int : j = (k - e) + f /\ f =< j /\ j - f = k - e
    BY <2>1
  <2>3. m = c * Power(10, j - f)
    BY <2>1, <2>2
  <2>4. Canonical(m, f) = << c, j >>
    BY <2>1, <2>2, <2>3, CanonicalIs
  <2>5. QED
    BY <2>1, <2>4
<1>3. QED
  BY <1>1, <1>2

(***************************************************************************)
(* The coefficient of three digits: its two parts are added, and an        *)
(* overflow of the sum, or of the product before it, is noticed.           *)
(***************************************************************************)
LEMMA ThreeTaken ==
  ASSUME NEW x, Stored(x), x.dyn, x.n = 3,
         LET high == DigitAt(x.coeff, 2) * RADIX
             shift == u64_10_pow_n(DEC_DIGITS_PER_DIGIT
                                   - TrailingZeros(DigitAt(x.coeff, 0), DEC_DIGITS_PER_DIGIT))
         IN  ~((high \div U64) * shift < U64 /\ high * shift >= U128)
  PROVE  Takes(coeff128_of_three(x), x.sign, x.coeff, decimal_exp(x))
<1>1. PICK c \in Nat, g \in {-1, 1} : /\ c = x.coeff /\ g = x.sign /\ c < Weight(3)
                                      /\ c % RADIX # 0
  BY DEF Stored, Stripped
<1>2. PICK e \in Int : e = decimal_exp(x)
  BY DecimalExp
<1>3. PICK k \in Nat, low \in Nat, h \in Nat, s \in Nat, q \in Nat :
        PartsOfThree(c, k, low, h, s, q)
  BY <1>1, ThreeParts
<1>4. PICK f \in Nat, u \in Nat : f = h * s /\ u = U128
  <2>1. h * s \in Nat
    OBVIOUS
  <2>2. QED
    BY <2>1, Words128
<1>5. /\ low < u /\ q = low + f /\ c = q * Power(10, k)
      /\ \A i \in {-1, 1} : (i * q) % 10 # 0
  BY <1>3, <1>4, Zenon DEF PartsOfThree
<1>6. PICK m : m = u128_imul_u64(h, s) /\ m = IF f < u THEN f ELSE u - 1
  <2>1. ~((h \div U64) * s < U64 /\ h * s >= U128)
    BY <1>1, <1>3, Zenon DEF PartsOfThree
  <2>2. QED
    BY <1>4, <2>1, HighProduct
<1>7. coeff128_of_three(x)
        = IF m = u - 1 \/ (low + m) % u < m THEN NotTaken ELSE Taken(g, (low + m) % u, e + k)
  BY <1>1, <1>2, <1>3, <1>4, <1>6, Zenon DEF PartsOfThree, coeff128_of_three
<1>8. f # u - 1
  <2>1. PICK y \in Nat : f = 2 * y
    BY <1>3, <1>4, Zenon DEF PartsOfThree
  <2>2. PICK v \in Nat : u = 2 * v
    BY <1>4, WordSquare
  <2>3. QED
    BY <2>1, <2>2
<1>9. /\ f < u /\ q < u => coeff128_of_three(x) = Taken(g, q, e + k)
      /\ ~(f < u /\ q < u) => coeff128_of_three(x) = NotTaken
  <2>1. CASE f < u /\ q < u
    <3>1. m = f /\ (low + f) % u = q
      <4>1. q % u = q
        BY <2>1, Z3
      <4>2. QED
        BY <1>5, <1>6, <2>1, <4>1
    <3>2. ~(q < f)
      BY <1>5
    <3>3. QED
      BY <1>5, <1>7, <1>8, <2>1, <3>1, <3>2
  <2>2. CASE f < u /\ ~(q < u)
    <3>1. PICK j \in Nat : q = u + j /\ j < f /\ j < u
      <4>1. q - u \in Nat /\ q - u < f /\ q - u < u
        BY <1>5, <2>2
      <4>2. QED
        BY <4>1
    <3>2. q % u = j
      BY <3>1, Z3
    <3>3. m = f
      BY <1>6, <2>2
    <3>4. QED
      BY <1>5, <1>7, <2>2, <3>1, <3>2, <3>3
  <2>3. CASE ~(f < u)
    BY <1>6, <1>7, <2>3
  <2>4. QED
    BY <2>1, <2>2, <2>3
<1>10. (f < u /\ q < u) <=> q < u
  BY <1>5
<1>11. Canonical(g * c, e) = << g * q, e + k >> /\ Canonical(g * q, e + k) = << g * q, e + k >>
  <2>1. g * q \in Int /\ (g * q) % 10 # 0 /\ g * c \in Int
    BY <1>5
  <2>2. PICK p \in Nat \ {0} : p = Power(10, k)
    BY PowersOf10
  <2>3. g * c = (g * q) * p
    <3>1. c = q * p
      BY <1>5, <2>2
    <3>2. g * (q * p) = (g * q) * p
      OBVIOUS
    <3>3. QED
      BY <3>1, <3>2
  <2>4. Canonical((g * q) * Power(10, k), e) = Canonical(g * q, e + k)
    BY <2>1, CanonicalScale
  <2>5. Canonical(g * q, e + k) = << g * q, e + k >>
    <3>1. PICK i \in Int, l \in Int : i = g * q /\ l = e + k /\ i % 10 # 0
      BY <2>1
    <3>2. l - l = 0 /\ Power(10, 0) = 1 /\ i = i * 1 /\ l =< l
      BY PowerZero
    <3>3. i = i * Power(10, l - l)
      BY <3>2
    <3>4. Canonical(i, l) = << i, l >>
      BY <3>1, <3>2, <3>3, CanonicalIs
    <3>5. QED
      BY <3>1, <3>4
  <2>6. QED
    BY <2>2, <2>3, <2>4, <2>5
<1>12. ABS(g * q) = q
  BY DEF ABS
<1>13. CASE q < u
  BY <1>1, <1>2, <1>4, <1>9, <1>10, <1>11, <1>12, <1>13 DEF Takes, Taken
<1>14. CASE ~(q < u)
  BY <1>1, <1>2, <1>4, <1>9, <1>10, <1>11, <1>12, <1>14 DEF Takes, NotTaken
<1>15. QED
  BY <1>13, <1>14

(* More than three digits never fit. *)
LEMMA MoreNotTaken ==
  ASSUME NEW x, Stored(x), x.dyn, x.n > 3
  PROVE  Takes(NotTaken, x.sign, x.coeff, decimal_exp(x))
<1>1. PICK c \in Nat, g \in {-1, 1}, n \in Nat :
        /\ c = x.coeff /\ g = x.sign /\ n = x.n /\ n > 3 /\ Weight(n - 1) =< c
        /\ c % RADIX # 0 /\ c # 0
  BY DEF Stored, Stripped
<1>2. PICK b \in Nat \ {0}, e \in Int : b = DEC_DIGITS_PER_DIGIT /\ e = decimal_exp(x)
  BY Limits, DecimalExp
<1>3. PICK r \in Nat, w \in Nat : /\ r = RADIX /\ r >= 10 /\ w = r * r /\ r * w =< c
  <2>1. PICK r \in Nat : r = RADIX /\ r >= 10
    BY RadixPositive
  <2>2. Weight(3) = r * (r * r)
    <3>1. Weight(0) = 1 /\ Weight(0 + 1) = RADIX * Weight(0) /\ Weight(1 + 1) = RADIX * Weight(1)
          /\ Weight(2 + 1) = RADIX * Weight(2)
      BY WeightZero, WeightFacts
    <3>2. 0 + 1 = 1 /\ 1 + 1 = 2 /\ 2 + 1 = 3 /\ r * 1 = r
      BY <2>1
    <3>3. QED
      BY <2>1, <3>1, <3>2
  <2>3. Weight(3) =< Weight(n - 1)
    <3>1. 3 \in Nat /\ n - 1 \in Nat /\ 3 =< n - 1
      BY <1>1
    <3>2. QED
      BY <3>1, WeightSplit
  <2>4. Weight(3) \in Nat /\ Weight(n - 1) \in Nat
    <3>1. 3 \in Nat /\ n - 1 \in Nat
      BY <1>1
    <3>2. QED
      BY <3>1, WeightFacts
  <2>5. r * r \in Nat
    OBVIOUS
  <2>6. QED
    BY <1>1, <2>1, <2>2, <2>3, <2>4, <2>5
<1>4. PICK i \in Int, l \in Int : /\ Canonical(g * c, e) = << i, l >>
                                  /\ e =< l /\ g * c = i * Power(10, l - e)
  <2>1. g * c \in Int /\ g * c # 0
    BY <1>1
  <2>2. QED
    BY <2>1, CanonicalFacts
<1>5. PICK j \in Nat : j = l - e
  BY <1>4
<1>6. PICK p \in Nat \ {0} : p = Power(10, j)
  BY PowersOf10
<1>7. PICK y \in Nat : y = ABS(i)
  BY DEF ABS
<1>8. c = y * p
  <2>1. g * c = i * p
    BY <1>4, <1>5, <1>6
  <2>2. CASE i >= 0
    <3>1. i * p >= 0
      BY <2>2
    <3>2. QED
      BY <1>7, <2>1, <2>2, <3>1 DEF ABS
  <2>3. CASE i < 0
    <3>1. i * p =< 0 /\ (-i) * p = -(i * p)
      BY <2>3
    <3>2. QED
      BY <1>7, <2>1, <2>3, <3>1 DEF ABS
  <2>4. QED
    BY <2>2, <2>3
<1>9. j < b
  <2>1. SUFFICES ASSUME ~(j < b) PROVE FALSE
    OBVIOUS
  <2>2. PICK o \in Nat : o = Power(10, j - b) /\ p = r * o
    <3>1. j - b \in Nat /\ b \in Nat /\ b + (j - b) = j
      BY <2>1
    <3>2. Power(10, b + (j - b)) = Power(10, b) * Power(10, j - b)
      BY <3>1, PowerSum
    <3>3. Power(10, j - b) \in Nat
      BY <3>1, PowersOf10
    <3>4. QED
      BY <1>2, <1>3, <1>6, <3>1, <3>2, <3>3, Limits
  <2>3. c = (y * o) * r /\ y * o \in Nat
    BY <1>8, <2>2
  <2>4. c % r = 0
    <3>1. PICK v \in Nat : v = y * o
      BY <2>3
    <3>2. PICK r1 \in Nat \ {0} : r1 = r
      BY <1>3
    <3>3. c = v * r1
      BY <2>3, <3>1, <3>2
    <3>4. 0 \in Nat /\ 0 < r1 /\ c = 0 + v * r1
      BY <3>3
    <3>5. c % r1 = 0
      BY <3>4, LowAndHigh
    <3>6. QED
      BY <3>2, <3>5
  <2>5. QED
    BY <1>1, <1>3, <2>4
<1>10. 10 * p =< r
  <2>1. PICK h \in Nat : h = b - (j + 1) /\ b = (j + 1) + h
    BY <1>9
  <2>2. Power(10, (j + 1) + h) = Power(10, j + 1) * Power(10, h)
    BY PowerSum
  <2>3. PICK o \in Nat \ {0} : o = Power(10, h)
    BY PowersOf10
  <2>4. Power(10, j + 1) = 10 * p
    BY <1>6, PowersOf10
  <2>5. r = (10 * p) * o
    BY <1>2, <1>3, <2>1, <2>2, <2>3, <2>4, Limits
  <2>6. (10 * p) * o >= 10 * p
    BY <2>3
  <2>7. QED
    BY <2>5, <2>6
<1>11. ~(y < U128)
  <2>1. SUFFICES ASSUME y < U128 PROVE FALSE
    OBVIOUS
  <2>2. y < 10 * w
    <3>1. U128 \in Nat /\ U128 < 10 * w
      BY <1>3, WordSquare
    <3>2. QED
      BY <2>1, <3>1
  <2>3. y * p < (10 * w) * p
    BY <2>2
  <2>4. (10 * w) * p = w * (10 * p) /\ w * (10 * p) =< w * r /\ w * r = r * w
    BY <1>10
  <2>5. y * p \in Nat /\ (10 * w) * p \in Nat /\ r * w \in Nat
    OBVIOUS
  <2>6. QED
    BY <1>3, <1>8, <2>3, <2>4, <2>5
<1>12. QED
  BY <1>1, <1>2, <1>4, <1>7, <1>11 DEF Takes, NotTaken

(* At most two digits. *)
LEMMA TwoDigitsTaken ==
  ASSUME NEW x, Stored(x), x.dyn, x.n < 3
  PROVE  Takes(TakenNormalized(x.sign, x.coeff, decimal_exp(x)), x.sign, x.coeff, decimal_exp(x))
<1>1. PICK c \in Nat, g \in {-1, 1}, n \in Nat :
        c = x.coeff /\ g = x.sign /\ n = x.n /\ n < 3 /\ c < Weight(n)
  BY DEF Stored, Stripped
<1>2. PICK e \in Int : e = decimal_exp(x)
  BY DecimalExp
<1>3. c < U128
  <2>1. PICK r \in Nat : r = RADIX /\ r >= 10
    BY RadixPositive
  <2>2. Weight(2) = r * r
    <3>1. Weight(0) = 1 /\ Weight(0 + 1) = RADIX * Weight(0) /\ Weight(1 + 1) = RADIX * Weight(1)
      BY WeightZero, WeightFacts
    <3>2. 0 + 1 = 1 /\ 1 + 1 = 2 /\ r * 1 = r
      BY <2>1
    <3>3. QED
      BY <2>1, <3>1, <3>2
  <2>3. Weight(n) =< Weight(2) /\ Weight(n) \in Nat
    <3>1. 2 \in Nat /\ n =< 2
      BY <1>1
    <3>2. QED
      BY <3>1, WeightSplit, WeightFacts
  <2>4. r * r \in Nat /\ r * r < U128 /\ U128 \in Nat
    BY <2>1, WordSquare
  <2>5. QED
    BY <1>1, <2>2, <2>3, <2>4
<1>4. QED
  BY <1>1, <1>2, <1>3, NormalizedTaken

(***************************************************************************)
(* fpdec_as_sign_coeff128_exp gives a stored number exactly, or refuses    *)
(* it, whatever form and however many digits the number has.               *)
(***************************************************************************)
LEMMA NumberTaken ==
  ASSUME Stored(a), ~CoefficientWraps, out' = fpdec_as_sign_coeff128_exp(a)
  PROVE  IF ABS(Number(a)[1]) < U128
         THEN /\ out'.rc = 0 /\ out'.coeff < U128
              /\ Canonical(out'.sign * out'.coeff, out'.exp)[1] = Number(a)[1]
              /\ ~ExponentWraps => Canonical(out'.sign * out'.coeff, out'.exp) = Number(a)
         ELSE out'.rc = -1
<1>1. PICK o : o = fpdec_as_sign_coeff128_exp(a) /\ o = out'
  OBVIOUS
<1>2. PICK e : e = IF a.dyn THEN decimal_exp(a) ELSE -a.dec_prec
  OBVIOUS
<1>3. Takes(o, a.sign, a.coeff, e)
  <2>1. CASE a.sign = 0
    <3>1. a.sign * a.coeff = 0
      BY <2>1 DEF Stored
    <3>2. o = [rc |-> 0, sign |-> 0, coeff |-> 0, exp |-> 0]
      BY <1>1, <2>1 DEF fpdec_as_sign_coeff128_exp, Taken
    <3>3. Canonical(0, e) = << 0, 0 >> /\ Canonical(0, 0) = << 0, 0 >> /\ 0 * 0 = 0
      BY CanonicalZero
    <3>4. 0 < U128 /\ ABS(0) = 0
      <4>1. PICK n \in Nat \ {0}, u \in Nat : n = U64 /\ u = U128 /\ u = n * n
        BY Words128
      <4>2. n * n > 0
        OBVIOUS
      <4>3. QED
        BY <4>1, <4>2 DEF ABS
    <3>5. QED
      BY <3>1, <3>2, <3>3, <3>4 DEF Takes
  <2>2. CASE a.sign # 0 /\ ~a.dyn
    <3>1. /\ a.sign \in {-1, 1} /\ a.coeff \in Nat /\ a.coeff < SHINT_LIMIT
          /\ -a.dec_prec \in Int /\ e = -a.dec_prec
      BY <1>2, <2>2 DEF Stored
    <3>2. a.coeff < U128
      BY <3>1, Words128, Limits
    <3>3. o = TakenNormalized(a.sign, a.coeff, e)
      BY <1>1, <2>2, <3>1 DEF fpdec_as_sign_coeff128_exp
    <3>4. QED
      BY <3>1, <3>2, <3>3, NormalizedTaken
  <2>3. CASE a.dyn
    <3>1. a.sign # 0 /\ a.n \in Nat /\ e = decimal_exp(a)
      BY <1>2, <2>3 DEF Stored, Stripped
    <3>2. CASE a.n < 3
      <4>1. o = TakenNormalized(a.sign, a.coeff, decimal_exp(a))
        BY <1>1, <2>3, <3>1, <3>2 DEF fpdec_as_sign_coeff128_exp
      <4>2. QED
        BY <2>3, <3>1, <3>2, <4>1, TwoDigitsTaken
    <3>3. CASE a.n = 3
      <4>1. o = coeff128_of_three(a)
        BY <1>1, <2>3, <3>1, <3>3 DEF fpdec_as_sign_coeff128_exp
      <4>2. Takes(coeff128_of_three(a), a.sign, a.coeff, decimal_exp(a))
        BY <2>3, <3>3, ThreeTaken, Zenon DEF CoefficientWraps
      <4>3. QED
        BY <3>1, <4>1, <4>2
    <3>4. CASE a.n > 3
      <4>1. o = NotTaken
        BY <1>1, <2>3, <3>1, <3>4 DEF fpdec_as_sign_coeff128_exp
      <4>2. QED
        BY <2>3, <3>1, <3>4, <4>1, MoreNotTaken
    <3>5. QED
      BY <3>1, <3>2, <3>3, <3>4
  <2>4. QED
    BY <2>1, <2>2, <2>3
<1>4. PICK m \in Int, d \in Int : /\ m = a.sign * a.coeff
                                  /\ d = (IF a.dyn THEN a.exp * DEC_DIGITS_PER_DIGIT ELSE -a.dec_prec)
  <2>1. a.sign * a.coeff \in Int
    <3>1. a.sign \in {-1, 0, 1} /\ a.coeff \in Nat
      BY DEF Stored, Stripped
    <3>2. QED
      BY <3>1
  <2>2. (IF a.dyn THEN a.exp * DEC_DIGITS_PER_DIGIT ELSE -a.dec_prec) \in Int
    <3>1. a.exp \in Int /\ a.dec_prec \in Int
      BY DEF Stored
    <3>2. PICK b \in Nat, i \in Int : b = DEC_DIGITS_PER_DIGIT /\ i = a.exp
      BY <3>1, Limits
    <3>3. i * b \in Int
      OBVIOUS
    <3>4. QED
      BY <3>1, <3>2, <3>3
  <2>3. QED
    BY <2>1, <2>2
<1>5. Number(a) = Canonical(m, d)
  BY <1>4 DEF Number
<1>6. e \in Int
  BY <1>2, DecimalExp DEF Stored
<1>7. Canonical(m, e)[1] = Number(a)[1]
  BY <1>4, <1>5, <1>6, CanonicalSignificand
<1>8. ~ExponentWraps => e = d
  BY <1>2, <1>4, DecimalExp DEF ExponentWraps
<1>9. IF ABS(Canonical(m, e)[1]) < U128
      THEN o.rc = 0 /\ o.coeff < U128 /\ Canonical(o.sign * o.coeff, o.exp) = Canonical(m, e)
      ELSE o.rc = -1
  BY <1>3, <1>4 DEF Takes
<1>10. QED
  BY <1>1, <1>5, <1>7, <1>8, <1>9

(***************************************************************************)
(* Sign, coefficient and exponent, for every base, word size and limits:   *)
(* a number that can be asked for them is stored in normal form.           *)
(***************************************************************************)
ReadyIsStored == Ready => Stored(a)

THEOREM CoefficientsAreExact == Spec => []CoefficientIsExact
<1> DEFINE Inv == ReadyIsStored /\ CoefficientIsExact
<1>1. Init => Inv
  BY DEF Init, ReadyIsStored, Ready, CoefficientIsExact, Called
<1>2. ASSUME Inv, [Next]_vars PROVE Inv'
  <2>1. ASSUME Read PROVE Inv'
    <3>1. PICK s \in Literals : /\ a' = from_ascii_literal(s).v
                                /\ call' = Called("read", s, from_ascii_literal(s).rc)
      BY <2>1 DEF Read
    <3>2. s \in Seq(STRING)
      BY TextAssumption
    <3>3. call'.fn = "read" /\ call'.rc = from_ascii_literal(s).rc
      BY <3>1 DEF Called
    <3>4. ASSUME from_ascii_literal(s).rc = "OK" PROVE Stored(a)'
      <4>1. PICK p : p = parse_ascii_dec_literal(s)
        OBVIOUS
      <4>2. Parsed(p) /\ a' = fpdec_from_ascii_literal(p.literal).v
        BY <3>1, <3>2, <3>4, <4>1, LiteralRead
      <4>3. p.literal.coeff \in Nat /\ p.literal.exp \in Int
        BY <4>2, NumberBelow DEF Parsed
      <4>4. Stored(fpdec_from_ascii_literal(p.literal).v)
        BY <4>3, StoredLiteral
      <4>5. QED
        BY <4>2, <4>4 DEF Stored, Stripped
    <3>5. QED
      BY <3>3, <3>4 DEF ReadyIsStored, Ready, CoefficientIsExact
  <2>2. ASSUME ReadUnicode PROVE Inv'
    <3>1. call'.fn = "read_unicode"
      BY <2>2 DEF ReadUnicode, Called
    <3>2. QED
      BY <3>1 DEF ReadyIsStored, Ready, CoefficientIsExact
  <2>3. ASSUME Make PROVE Inv'
    <3>1. PICK d \in DigitValues : /\ a' = fpdec_from_sign_digits_exp(d[1], d[2], d[3]).v
                                   /\ call' = Called("make", d, "OK")
      BY <2>3 DEF Make
    <3>2. d[1] \in {-1, 1} /\ d[2] \in Nat /\ d[3] \in Int
      <4>1. d[1] \in {-1, 1} /\ d[2] \in Nat /\ d[3] \in INT32_MIN .. FPDEC_MAX_EXP
        BY TextAssumption
      <4>2. QED
        BY <4>1
    <3>3. Stored(fpdec_from_sign_digits_exp(d[1], d[2], d[3]).v)
      BY <3>2, StoredDigits
    <3>4. Stored(a)'
      BY <3>1, <3>3 DEF Stored, Stripped
    <3>5. call'.fn = "make"
      BY <3>1 DEF Called
    <3>6. QED
      BY <3>4, <3>5 DEF ReadyIsStored, CoefficientIsExact
  <2>4. ASSUME Format PROVE Inv'
    <3>1. call'.fn = "formatted"
      BY <2>4 DEF Format, Called
    <3>2. QED
      BY <3>1 DEF ReadyIsStored, Ready, CoefficientIsExact
  <2>5. ASSUME AsAsciiLiteral PROVE Inv'
    <3>1. call'.fn = "as_ascii_literal"
      BY <2>5 DEF AsAsciiLiteral, Called
    <3>2. QED
      BY <3>1 DEF ReadyIsStored, Ready, CoefficientIsExact
  <2>6. ASSUME AsSignCoeffExp PROVE Inv'
    <3>1. /\ Stored(a) /\ out' = fpdec_as_sign_coeff128_exp(a)
          /\ call'.fn = "as_sign_coeff128_exp" /\ UNCHANGED a
      BY <1>2, <2>6 DEF AsSignCoeffExp, Called, ReadyIsStored
    <3>2. ReadyIsStored'
      BY <3>1 DEF ReadyIsStored, Ready
    <3>3. (CoefficientWraps' <=> CoefficientWraps) /\ (ExponentWraps' <=> ExponentWraps)
      BY <3>1 DEF CoefficientWraps, ExponentWraps
    <3>4. Number(a)' = Number(a)
      BY <3>1 DEF Number
    <3>5. CoefficientIsExact'
      BY <3>1, <3>3, <3>4, NumberTaken DEF CoefficientIsExact
    <3>6. QED
      BY <3>2, <3>5
  <2>7. ASSUME Reset PROVE Inv'
    <3>1. call'.fn = "none"
      BY <2>7 DEF Reset, Called
    <3>2. QED
      BY <3>1 DEF ReadyIsStored, Ready, CoefficientIsExact
  <2>8. CASE UNCHANGED vars
    BY <1>2, <2>8 DEF vars, ReadyIsStored, Ready, Stored, Stripped, CoefficientIsExact,
                      CoefficientWraps, ExponentWraps, Number
  <2>9. QED
    BY <1>2, <2>1, <2>2, <2>3, <2>4, <2>5, <2>6, <2>7, <2>8 DEF Next
<1>3. QED
  BY <1>1, <1>2, PTL DEF Spec

=============================================================================
