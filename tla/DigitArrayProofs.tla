--------------------------- MODULE DigitArrayProofs ---------------------------
(***************************************************************************)
(* The loops of digit_array.c stay inside their arrays and produce proper  *)
(* digits, and they compute the arithmetic they are there for.             *)
(***************************************************************************)
EXTENDS DigitArray, DigitLemmas

-----------------------------------------------------------------------------
(* Writing a digit changes that digit and nothing else. *)
LEMMA SetDigitFacts ==
  ASSUME NEW a, WellFormed(a), NEW k \in 0 .. a.n_alloc - 1, NEW d \in Word
  PROVE  /\ WellFormed(SetDigit(a, k, d))
         /\ SetDigit(a, k, d).n_alloc = a.n_alloc
         /\ SetDigit(a, k, d).n_signif = a.n_signif
         /\ SetDigit(a, k, d).digits[k] = d
         /\ \A m \in 0 .. a.n_alloc - 1 : m # k => SetDigit(a, k, d).digits[m] = a.digits[m]
<1> DEFINE b == [n_alloc |-> a.n_alloc, n_signif |-> a.n_signif,
                 digits |-> [a.digits EXCEPT ![k] = d]]
<1> DEFINE r == [n_alloc |-> a.n_alloc, n_signif |-> a.n_signif, digits |-> a.digits]
<1>0. a = r
  BY DEF WellFormed
<1>1. SetDigit(a, k, d) = b
  <2>1. [r EXCEPT !.digits[k] = d] = b
    OBVIOUS
  <2>2. QED
    BY <1>0, <2>1 DEF SetDigit
<1>2. b.digits \in [0 .. a.n_alloc - 1 -> Word]
  BY DEF WellFormed
<1>3. QED
  BY <1>1, <1>2 DEF WellFormed

(* So does writing the count. *)
LEMMA SetCountFacts ==
  ASSUME NEW a, WellFormed(a), NEW n \in 0 .. a.n_alloc
  PROVE  /\ WellFormed([a EXCEPT !.n_signif = n])
         /\ [a EXCEPT !.n_signif = n].n_alloc = a.n_alloc
         /\ [a EXCEPT !.n_signif = n].n_signif = n
         /\ [a EXCEPT !.n_signif = n].digits = a.digits
<1>1. [a EXCEPT !.n_signif = n] =
        [n_alloc |-> a.n_alloc, n_signif |-> n, digits |-> a.digits]
  BY DEF WellFormed
<1>2. QED
  BY <1>1 DEF WellFormed

-----------------------------------------------------------------------------
(***************************************************************************)
(* A call writes only its own function's part of the invariant: the parts  *)
(* of the other functions hold because fn does not change.                 *)
(***************************************************************************)
LEMMA OneFunction ==
  ASSUME IInv, UNCHANGED operands, WellFormed(z'),
         i' \in Int, j' \in Nat, carry' \in Nat, ret' \in Int,
         pc' \in {"loop", "carry", "done"},
         fn = "iadd_digits" => AddInv',
         fn = "isub_digits" => SubInv',
         fn = "iadd_digit" => IncrementInv',
         fn = "imul_digit" => MulDigitInv',
         fn = "mul" => MulInv',
         fn = "div_digit" => DivDigitInv',
         fn = "round" => RoundInv',
         fn = "cmp" => CmpInv',
         fn = "eliminate_trailing_zeros" => EliminateInv'
  PROVE  IInv'
<1>1. x' = x /\ y' = y /\ fn' = fn /\ arg' = arg
  BY DEF operands
<1>2. TypeOK'
  BY <1>1 DEF IInv, TypeOK, WellFormed
<1>3. ProperCells(x)' /\ ProperCells(y)'
  BY <1>1 DEF IInv, ProperCells
<1>4. AddInv' /\ SubInv' /\ IncrementInv'
  BY <1>1 DEF AddInv, SubInv, IncrementInv
<1>5. MulDigitInv' /\ MulInv' /\ DivDigitInv'
  BY <1>1 DEF MulDigitInv, MulInv, DivDigitInv
<1>6. RoundInv' /\ CmpInv' /\ EliminateInv'
  BY <1>1 DEF RoundInv, CmpInv, EliminateInv
<1>7. QED
  BY <1>2, <1>3, <1>4, <1>5, <1>6 DEF IInv

(* The digits of a proper array are below RADIX. *)
LEMMA DigitRange ==
  ASSUME NEW a, WellFormed(a), ProperCells(a)
  PROVE  /\ a.n_alloc \in Nat /\ a.n_signif \in Nat /\ a.n_signif =< a.n_alloc
         /\ \A k \in 0 .. a.n_alloc - 1 : a.digits[k] \in 0 .. RADIX - 1
<1>1. \A k \in 0 .. a.n_alloc - 1 : a.digits[k] \in 0 .. U64 - 1 /\ a.digits[k] < RADIX
  BY DEF WellFormed, ProperCells, Word
<1>2. QED
  BY <1>1, Constants DEF WellFormed

(* A proper digit written to a proper array leaves a proper array. *)
LEMMA SetProper ==
  ASSUME NEW a, WellFormed(a), ProperCells(a),
         NEW k \in 0 .. a.n_alloc - 1, NEW d \in 0 .. RADIX - 1
  PROVE  /\ WellFormed(SetDigit(a, k, d))
         /\ SetDigit(a, k, d).n_alloc = a.n_alloc
         /\ SetDigit(a, k, d).n_signif = a.n_signif
         /\ ProperCells(SetDigit(a, k, d))
         /\ SetDigit(a, k, d).digits[k] = d
         /\ \A m \in 0 .. a.n_alloc - 1 : m # k => SetDigit(a, k, d).digits[m] = a.digits[m]
<1>1. d \in Word
  BY Constants DEF Word
<1> DEFINE b == SetDigit(a, k, d)
<1>2. /\ WellFormed(b) /\ b.n_alloc = a.n_alloc /\ b.n_signif = a.n_signif
      /\ b.digits[k] = d
      /\ \A m \in 0 .. a.n_alloc - 1 : m # k => b.digits[m] = a.digits[m]
  BY <1>1, SetDigitFacts
<1> HIDE DEF b
<1>3. ProperCells(b)
  <2>1. \A m \in 0 .. a.n_alloc - 1 : a.digits[m] < RADIX
    BY DEF ProperCells
  <2>2. d < RADIX
    BY Constants
  <2>3. QED
    BY <1>2, <2>1, <2>2 DEF ProperCells
<1>4. QED
  BY <1>2, <1>3 DEF b

(* digits_iadd_digits. *)
LEMMA AddPreserves ==
  ASSUME IInv, AddDigit \/ AddEnd \/ AddRipple \/ AddSettle
  PROVE  IInv'
<1> USE Constants
<1>1. /\ fn = "iadd_digits"
      /\ WellFormed(x) /\ WellFormed(y) /\ WellFormed(z)
      /\ i \in Int /\ j \in Nat /\ ret \in Int /\ carry \in 0 .. 1
      /\ y.n_signif >= 1
      /\ x.n_alloc = z.n_alloc
      /\ x.n_signif < x.n_alloc /\ y.n_signif < x.n_alloc
      /\ \A k \in x.n_signif .. x.n_alloc - 1 : x.digits[k] = 0
      /\ ProperCells(y) /\ ProperCells(z) /\ ProperCells(x)
      /\ pc # "done"
      /\ z.n_signif = MAX(x.n_signif, y.n_signif)
      /\ SameFrom(z, x, i)
      /\ pc = "loop" => i \in 0 .. y.n_signif
      /\ pc = "carry" => i \in y.n_signif .. MAX(x.n_signif, y.n_signif)
  BY DEF IInv, TypeOK, AddInv, AddDigit, AddEnd, AddRipple, AddSettle
<1>2. /\ y.n_alloc \in Nat /\ y.n_signif \in 0 .. y.n_alloc /\ x.n_signif \in Nat
      /\ z.n_alloc \in Nat /\ z.n_signif \in Nat
      /\ \A k \in 0 .. z.n_alloc - 1 : z.digits[k] \in 0 .. RADIX - 1
      /\ \A k \in 0 .. y.n_alloc - 1 : y.digits[k] \in 0 .. RADIX - 1
  BY <1>1, DigitRange
<1>3. /\ MAX(x.n_signif, y.n_signif) \in 0 .. z.n_alloc - 1
      /\ y.n_signif =< MAX(x.n_signif, y.n_signif)
  BY <1>1, <1>2 DEF MAX
<1>4. ASSUME NEW d \in 0 .. RADIX - 1, i \in 0 .. z.n_alloc - 1
      PROVE  /\ WellFormed(SetDigit(z, i, d))
             /\ SetDigit(z, i, d).n_alloc = z.n_alloc
             /\ SetDigit(z, i, d).n_signif = z.n_signif
             /\ ProperCells(SetDigit(z, i, d))
             /\ SameFrom(SetDigit(z, i, d), x, i + 1)
  <2> DEFINE b == SetDigit(z, i, d)
  <2>1. /\ WellFormed(b) /\ b.n_alloc = z.n_alloc /\ b.n_signif = z.n_signif
        /\ ProperCells(b)
        /\ \A m \in 0 .. z.n_alloc - 1 : m # i => b.digits[m] = z.digits[m]
    BY <1>1, <1>4, SetProper
  <2> HIDE DEF b
  <2>2. SameFrom(b, x, i + 1)
    BY <1>1, <1>2, <1>4, <2>1 DEF SameFrom
  <2>3. QED
    BY <2>1, <2>2 DEF b
<1>5. CASE AddDigit
  <2> DEFINE sum == (z.digits[i] + y.digits[i] + carry) % U64
  <2> DEFINE c == IF sum < y.digits[i] \/ sum >= RADIX THEN 1 ELSE 0
  <2> DEFINE d == (sum - c * RADIX) % U64
  <2>0. i < y.n_signif /\ pc = "loop"
    BY <1>5 DEF AddDigit
  <2>1. i \in 0 .. z.n_alloc - 1 /\ i \in 0 .. y.n_alloc - 1 /\ i < y.n_signif /\ pc = "loop"
    BY <1>1, <1>2, <2>0
  <2>2. z.digits[i] \in 0 .. RADIX - 1 /\ y.digits[i] \in 0 .. RADIX - 1
    BY <1>2, <2>1
  <2>3. d \in 0 .. RADIX - 1
    BY <1>1, <2>2, DigitSum
  <2>4. c \in 0 .. 1
    OBVIOUS
  <2>5. z' = SetDigit(z, i, d) /\ carry' = c /\ i' = i + 1 /\ UNCHANGED << operands, j, pc, ret >>
    BY <1>5 DEF AddDigit
  <2> HIDE DEF d, c
  <2>6. AddInv'
    BY <1>1, <1>2, <1>4, <2>1, <2>3, <2>4, <2>5 DEF AddInv, operands
  <2>7. /\ WellFormed(z') /\ i' \in Int /\ j' \in Nat /\ carry' \in Nat /\ ret' \in Int
        /\ pc' \in {"loop", "carry", "done"}
    BY <1>1, <1>2, <1>4, <2>1, <2>3, <2>4, <2>5
  <2>8. fn = "iadd_digits"
    BY <1>1
  <2>9. QED
    BY <2>5, <2>6, <2>7, <2>8, OneFunction
<1>6. CASE AddEnd
  <2>1. AddInv'
    BY <1>1, <1>2, <1>6 DEF AddInv, AddEnd, operands, ProperCells, SameFrom, MAX
  <2>2. /\ UNCHANGED operands /\ i' = i /\ j' = j /\ ret' = ret
        /\ carry' \in Nat /\ pc' \in {"loop", "carry", "done"} /\ fn = "iadd_digits"
    BY <1>1, <1>6 DEF AddEnd
  <2>3. WellFormed(z')
    BY <1>1, <1>6 DEF AddEnd, WellFormed
  <2>4. QED
    BY <1>1, <2>1, <2>2, <2>3, OneFunction
<1>7. CASE AddRipple
  <2>1. i \in 0 .. z.n_alloc - 1 /\ pc = "carry" /\ z.digits[i] # 0
    BY <1>1, <1>2, <1>3, <1>7 DEF AddRipple
  <2>2. i < x.n_signif
    BY <1>1, <1>2, <2>1 DEF SameFrom
  <2>3. AddInv'
    BY <1>1, <1>2, <1>4, <1>7, <2>1, <2>2 DEF AddInv, AddRipple, operands, MAX
  <2>4. QED
    BY <1>1, <1>4, <1>7, <2>1, <2>3, OneFunction DEF AddRipple, operands
<1>8. CASE AddSettle
  <2> DEFINE s == SetDigit(z, i, z.digits[i] + 1)
  <2>1. i \in 0 .. z.n_alloc - 1 /\ z.digits[i] + 1 \in 0 .. RADIX - 1
    BY <1>1, <1>2, <1>3, <1>8 DEF AddSettle, MAX_DIGIT
  <2>2. WellFormed(s) /\ s.n_alloc = z.n_alloc /\ s.n_signif = z.n_signif /\ ProperCells(s)
    BY <1>4, <2>1
  <2> HIDE DEF s
  <2>3. z.n_signif + 1 \in 0 .. s.n_alloc
    <3>1. z.n_signif \in 0 .. z.n_alloc - 1
      BY <1>1, <1>3
    <3>2. QED
      BY <1>2, <2>2, <3>1
  <2>4. WellFormed(z') /\ z'.n_alloc = z.n_alloc /\ ProperCells(z')
    BY <1>8, <2>2, <2>3, SetCountFacts DEF AddSettle, s, ProperCells
  <2>5. AddInv'
    BY <1>1, <1>8, <2>4 DEF AddInv, AddSettle, operands, ProperCells
  <2>6. QED
    BY <1>1, <1>8, <2>4, <2>5, OneFunction DEF AddSettle, operands
<1>9. QED
  BY <1>5, <1>6, <1>7, <1>8

(***************************************************************************)
(* digits_isub_digits. A borrow that reaches digit i passed digits of x    *)
(* that do not exceed y, so that it dies at p at the latest.               *)
(***************************************************************************)
LEMMA SubPreserves ==
  ASSUME IInv, SubDigit \/ SubEnd \/ SubRipple \/ SubSettle
  PROVE  IInv'
<1> USE Constants
<1>1. /\ fn = "isub_digits"
      /\ WellFormed(x) /\ WellFormed(y) /\ WellFormed(z)
      /\ ProperCells(x) /\ ProperCells(y) /\ ProperCells(z)
      /\ i \in Int /\ j \in Nat /\ ret \in Int /\ carry \in 0 .. 1
      /\ x.n_signif >= 1 /\ y.n_signif =< x.n_signif
      /\ x.n_alloc = x.n_signif /\ z.n_alloc = x.n_signif
      /\ pc # "done"
      /\ z.n_signif = x.n_signif
      /\ SameFrom(z, x, i)
      /\ pc = "loop" => i \in 0 .. y.n_signif
      /\ pc = "carry" => i >= y.n_signif /\ carry = 1
  BY DEF IInv, TypeOK, SubInv, SubDigit, SubEnd, SubRipple, SubSettle
<1>2. /\ y.n_alloc \in Nat /\ y.n_signif \in 0 .. y.n_alloc /\ x.n_signif \in Nat
      /\ z.n_alloc \in Nat /\ z.n_signif \in Nat
      /\ \A k \in 0 .. x.n_alloc - 1 : x.digits[k] \in 0 .. RADIX - 1
      /\ \A k \in 0 .. y.n_alloc - 1 : y.digits[k] \in 0 .. RADIX - 1
      /\ \A k \in 0 .. z.n_alloc - 1 : z.digits[k] \in 0 .. RADIX - 1
  BY <1>1, DigitRange
<1>3. PICK p \in 0 .. x.n_signif - 1 : ExceedsAt(x, y, p) /\ (carry = 1 => i =< p)
  BY <1>1 DEF IInv, SubInv
<1>4. ASSUME NEW d \in 0 .. RADIX - 1, i \in 0 .. z.n_alloc - 1
      PROVE  /\ WellFormed(SetDigit(z, i, d))
             /\ SetDigit(z, i, d).n_alloc = z.n_alloc
             /\ SetDigit(z, i, d).n_signif = z.n_signif
             /\ ProperCells(SetDigit(z, i, d))
             /\ SameFrom(SetDigit(z, i, d), x, i + 1)
  <2> DEFINE b == SetDigit(z, i, d)
  <2>1. /\ WellFormed(b) /\ b.n_alloc = z.n_alloc /\ b.n_signif = z.n_signif
        /\ ProperCells(b)
        /\ \A m \in 0 .. z.n_alloc - 1 : m # i => b.digits[m] = z.digits[m]
    BY <1>1, <1>4, SetProper
  <2> HIDE DEF b
  <2>2. SameFrom(b, x, i + 1)
    BY <1>1, <1>2, <1>4, <2>1 DEF SameFrom
  <2>3. QED
    BY <2>1, <2>2 DEF b
<1>5. ASSUME NEW a, WellFormed(a), ProperCells(a), a.n_alloc = x.n_alloc, a.n_signif = x.n_signif
      PROVE  /\ WellFormed(DropLeadingZero(a)) /\ ProperCells(DropLeadingZero(a))
             /\ DropLeadingZero(a).n_alloc = a.n_alloc
  <2>1. x.n_signif - 1 \in 0 .. a.n_alloc
    BY <1>1, <1>2, <1>5
  <2>2. QED
    BY <1>5, <2>1, SetCountFacts DEF DropLeadingZero, ProperCells
<1>6. CASE SubDigit
  <2> DEFINE d == (z.digits[i] - (y.digits[i] + carry)) % U64
  <2> DEFINE b == IF d > z.digits[i] THEN 1 ELSE 0
  <2> DEFINE e == (d + b * RADIX) % U64
  <2>1. i < y.n_signif /\ pc = "loop"
    BY <1>6 DEF SubDigit
  <2>2. i \in 0 .. z.n_alloc - 1 /\ i \in 0 .. y.n_alloc - 1
    BY <1>1, <1>2, <2>1
  <2>3. z.digits[i] \in 0 .. RADIX - 1 /\ y.digits[i] \in 0 .. RADIX - 1
    BY <1>2, <2>2
  <2>4. e \in 0 .. RADIX - 1 /\ (b = 0 <=> z.digits[i] >= y.digits[i] + carry)
    BY <1>1, <2>3, DigitDifference
  <2>5. b \in 0 .. 1
    OBVIOUS
  <2>6. z' = SetDigit(z, i, e) /\ carry' = b /\ i' = i + 1 /\ UNCHANGED << operands, j, pc, ret >>
    BY <1>6 DEF SubDigit
  <2>7. b = 1 => i + 1 =< p
    <3>1. SUFFICES ASSUME b = 1, ~ (i + 1 =< p) PROVE FALSE
      OBVIOUS
    <3> HIDE DEF b
    <3>2. z.digits[i] = x.digits[i] /\ DigitOf(y, i) = y.digits[i]
      BY <1>1, <1>2, <2>1, <2>2 DEF SameFrom, DigitOf
    <3>3. z.digits[i] < y.digits[i] + carry
      BY <1>1, <2>3, <2>4, <3>1
    <3>4. CASE i = p
      BY <1>1, <1>3, <2>3, <3>2, <3>3, <3>4 DEF ExceedsAt
    <3>5. CASE i > p
      <4>1. x.digits[i] = y.digits[i]
        BY <1>1, <1>2, <1>3, <2>2, <3>2, <3>5 DEF ExceedsAt
      <4>2. carry = 1
        BY <1>1, <2>3, <3>2, <3>3, <4>1
      <4>3. QED
        BY <1>3, <2>2, <3>5, <4>2
    <3>6. QED
      BY <2>2, <3>1, <3>4, <3>5
  <2> HIDE DEF b, e
  <2>8. SubInv'
    BY <1>1, <1>2, <1>3, <1>4, <2>1, <2>2, <2>4, <2>5, <2>6, <2>7
       DEF SubInv, ExceedsAt, DigitOf, operands
  <2>9. QED
    BY <1>1, <1>4, <2>1, <2>2, <2>4, <2>5, <2>6, <2>8, OneFunction DEF operands
<1>7. CASE SubEnd
  <2>1. CASE carry = 0
    <3>1. z' = DropLeadingZero(z) /\ pc' = "done" /\ UNCHANGED << operands, i, j, carry, ret >>
      BY <1>7, <2>1 DEF SubEnd
    <3>2. WellFormed(z') /\ ProperCells(z') /\ z'.n_alloc = z.n_alloc
      BY <1>1, <1>5, <3>1
    <3>3. SubInv'
      BY <1>1, <1>3, <3>1, <3>2 DEF SubInv, ProperCells, ExceedsAt, DigitOf, operands
    <3>4. QED
      BY <1>1, <3>1, <3>2, <3>3, OneFunction
  <2>2. CASE carry # 0
    <3>1. pc' = "carry" /\ UNCHANGED << z, operands, i, j, carry, ret >> /\ i = y.n_signif
      BY <1>7, <2>2 DEF SubEnd
    <3>2. SubInv'
      BY <1>1, <1>2, <1>3, <2>2, <3>1
         DEF SubInv, ProperCells, SameFrom, ExceedsAt, DigitOf, operands
    <3>3. QED
      BY <1>1, <3>1, <3>2, OneFunction DEF WellFormed
  <2>3. QED
    BY <2>1, <2>2
<1>8. CASE SubRipple \/ SubSettle
  <2>1. pc = "carry" /\ i \in 0 .. p /\ i \in 0 .. z.n_alloc - 1
    BY <1>1, <1>2, <1>3, <1>8 DEF SubRipple, SubSettle
  <2>2. i < p => z.digits[i] \in 0 .. RADIX - 1
    BY <1>2, <2>1
  <2>3. z.digits[i] = x.digits[i] /\ DigitOf(y, i) = 0
    BY <1>1, <1>2, <2>1 DEF SameFrom, DigitOf
  <2>4. CASE SubRipple
    <3>1. z' = SetDigit(z, i, MAX_DIGIT) /\ i' = i + 1 /\ z.digits[i] = 0
          /\ UNCHANGED << operands, j, carry, pc, ret >>
      BY <2>4 DEF SubRipple
    <3>2. i + 1 =< p
      <4>1. ASSUME i = p PROVE FALSE
        <5>1. x.digits[i] > DigitOf(y, i)
          BY <1>3, <4>1 DEF ExceedsAt
        <5>2. x.digits[i] = 0 /\ DigitOf(y, i) = 0
          BY <2>3, <3>1
        <5>3. 0 > 0
          BY <5>1, <5>2
        <5>4. QED
          BY <5>3
      <4>2. QED
        BY <1>2, <2>1, <4>1
    <3>3. MAX_DIGIT \in 0 .. RADIX - 1
      OBVIOUS
    <3>4. SubInv'
      BY <1>1, <1>2, <1>3, <1>4, <2>1, <3>1, <3>2, <3>3 DEF SubInv, ExceedsAt, DigitOf, operands
    <3>5. QED
      BY <1>1, <1>4, <2>1, <3>1, <3>3, <3>4, OneFunction
  <2>5. CASE SubSettle
    <3> DEFINE s == SetDigit(z, i, z.digits[i] - 1)
    <3>1. z' = DropLeadingZero(s) /\ carry' = 0 /\ pc' = "done" /\ z.digits[i] # 0
          /\ UNCHANGED << operands, i, j, ret >>
      BY <2>5 DEF SubSettle
    <3>2. z.digits[i] - 1 \in 0 .. RADIX - 1
      BY <1>2, <2>1, <3>1
    <3>3. WellFormed(s) /\ ProperCells(s) /\ s.n_alloc = z.n_alloc /\ s.n_signif = z.n_signif
      BY <1>4, <2>1, <3>2
    <3> HIDE DEF s
    <3>4. WellFormed(z') /\ ProperCells(z') /\ z'.n_alloc = z.n_alloc
      BY <1>1, <1>5, <3>1, <3>3
    <3>5. SubInv'
      BY <1>1, <1>3, <3>1, <3>4 DEF SubInv, ProperCells, ExceedsAt, DigitOf, operands
    <3>6. QED
      BY <1>1, <3>1, <3>4, <3>5, OneFunction
  <2>6. QED
    BY <1>8, <2>4, <2>5
<1>9. QED
  BY <1>6, <1>7, <1>8

(* digits_iadd_digit. *)
LEMMA IncrementPreserves ==
  ASSUME IInv, IncrementDigit \/ IncrementRipple \/ IncrementSettle
  PROVE  IInv'
<1> USE Constants
<1>1. /\ fn = "iadd_digit"
      /\ WellFormed(z) /\ ProperCells(z)
      /\ i \in Int /\ j \in Nat /\ ret \in Int /\ carry \in Nat
      /\ z.n_alloc >= 1 /\ arg = 1
      /\ pc = "carry" => i \in 1 .. z.n_alloc
  BY DEF IInv, TypeOK, IncrementInv, IncrementDigit, IncrementRipple, IncrementSettle
<1>2. /\ z.n_alloc \in Nat /\ z.n_signif \in Nat
      /\ \A k \in 0 .. z.n_alloc - 1 : z.digits[k] \in 0 .. RADIX - 1
  BY <1>1, DigitRange
<1>3. ASSUME NEW k \in 0 .. z.n_alloc - 1, NEW d \in 0 .. RADIX - 1
      PROVE  /\ WellFormed(SetDigit(z, k, d))
             /\ SetDigit(z, k, d).n_alloc = z.n_alloc
             /\ ProperCells(SetDigit(z, k, d))
  BY <1>1, SetProper
<1>4. CASE IncrementDigit
  <2> DEFINE sum == (z.digits[0] + arg) % U64
  <2> DEFINE c == IF sum < arg \/ sum >= RADIX THEN 1 ELSE 0
  <2> DEFINE d == (sum - c * RADIX) % U64
  <2>1. /\ z' = SetDigit(z, 0, d) /\ i' = c /\ pc' = IF c = 1 THEN "carry" ELSE "done"
        /\ UNCHANGED << operands, j, carry, ret >>
    BY <1>4 DEF IncrementDigit
  <2>2. 0 \in 0 .. z.n_alloc - 1
    BY <1>1, <1>2
  <2>3. z.digits[0] \in 0 .. RADIX - 1
    BY <1>2, <2>2
  <2>4. d \in 0 .. RADIX - 1
    <3>1. z.digits[0] + 1 + 0 = z.digits[0] + arg
      BY <1>1, <2>3
    <3>2. 1 \in 0 .. RADIX - 1 /\ 0 \in 0 .. 1
      OBVIOUS
    <3>3. LET w == (z.digits[0] + 1 + 0) % U64
              k == IF w < 1 \/ w >= RADIX THEN 1 ELSE 0
          IN  (w - k * RADIX) % U64 \in 0 .. RADIX - 1
      BY <2>3, <3>2, DigitSum
    <3>4. QED
      BY <1>1, <3>1, <3>3
  <2>5. c \in 0 .. 1
    OBVIOUS
  <2> HIDE DEF c, d
  <2>6. IncrementInv'
    BY <1>1, <1>2, <1>3, <2>1, <2>2, <2>4, <2>5 DEF IncrementInv, operands
  <2>7. QED
    BY <1>1, <1>3, <2>1, <2>2, <2>4, <2>5, <2>6, OneFunction
<1>5. CASE IncrementRipple
  <2>1. i \in 0 .. z.n_alloc - 1 /\ 0 \in 0 .. RADIX - 1
    BY <1>1, <1>2, <1>5 DEF IncrementRipple
  <2>2. IncrementInv'
    BY <1>1, <1>2, <1>3, <1>5, <2>1 DEF IncrementInv, IncrementRipple, operands
  <2>3. QED
    BY <1>1, <1>3, <1>5, <2>1, <2>2, OneFunction DEF IncrementRipple
<1>6. CASE IncrementSettle
  <2>1. CASE i = z.n_alloc
    <3>1. IncrementInv'
      BY <1>1, <1>6, <2>1 DEF IncrementInv, IncrementSettle, operands, ProperCells
    <3>2. QED
      BY <1>1, <1>6, <2>1, <3>1, OneFunction DEF IncrementSettle, WellFormed
  <2>2. CASE i # z.n_alloc
    <3> DEFINE d == IF i = z.n_signif THEN 1 ELSE z.digits[i] + 1
    <3>1. i \in 0 .. z.n_alloc - 1
      BY <1>1, <1>2, <1>6, <2>2 DEF IncrementSettle
    <3>2. d \in 0 .. RADIX - 1
      BY <1>2, <1>6, <3>1 DEF IncrementSettle
    <3>3. z' = SetDigit(z, i, d)
      BY <1>6, <2>2 DEF IncrementSettle
    <3> HIDE DEF d
    <3>4. IncrementInv'
      BY <1>1, <1>3, <1>6, <3>1, <3>2, <3>3 DEF IncrementInv, IncrementSettle, operands
    <3>5. QED
      BY <1>1, <1>3, <1>6, <3>1, <3>2, <3>3, <3>4, OneFunction DEF IncrementSettle
  <2>3. QED
    BY <2>1, <2>2
<1>7. QED
  BY <1>4, <1>5, <1>6

-----------------------------------------------------------------------------
(* digits_imul_digit. *)
LEMMA MulDigitPreserves ==
  ASSUME IInv, MulDigitStep \/ MulDigitEnd
  PROVE  IInv'
<1> USE Constants
<1>1. /\ fn = "imul_digit" /\ pc = "loop"
      /\ WellFormed(x) /\ WellFormed(z) /\ ProperCells(x) /\ ProperCells(z)
      /\ i \in 0 .. z.n_signif /\ j \in Nat /\ ret \in Int
      /\ arg \in 1 .. RADIX - 1
      /\ carry \in 0 .. arg - 1
      /\ x.n_signif >= 1 /\ x.n_alloc = z.n_alloc /\ z.n_signif = x.n_signif
      /\ x.n_alloc = x.n_signif =>
           x.digits[x.n_signif - 1] * arg + (arg - 1) =< RADIX - 1
      /\ SameFrom(z, x, i)
      /\ i = z.n_alloc => carry = 0
  BY DEF IInv, TypeOK, MulDigitInv, MulDigitStep, MulDigitEnd
<1>2. /\ z.n_alloc \in Nat /\ z.n_signif \in Nat /\ z.n_signif =< z.n_alloc
      /\ \A k \in 0 .. z.n_alloc - 1 : z.digits[k] \in 0 .. RADIX - 1
  BY <1>1, DigitRange
<1>3. CASE MulDigitStep
  <2> DEFINE t == z.digits[i] * arg + carry
  <2> DEFINE d == t % RADIX
  <2> DEFINE c == t \div RADIX
  <2>1. /\ i < z.n_signif
        /\ z' = SetDigit(z, i, d) /\ carry' = c /\ i' = i + 1
        /\ UNCHANGED << operands, j, pc, ret >>
    BY <1>3 DEF MulDigitStep
  <2>2. i \in 0 .. z.n_alloc - 1 /\ i \in Int
    BY <1>1, <1>2, <2>1
  <2>3. z.digits[i] \in 0 .. RADIX - 1
    BY <1>2, <2>2
  <2>4. t \in Nat /\ t < RADIX * arg
    <3>1. \A a \in 0 .. RADIX - 1, m \in 1 .. RADIX - 1, r \in 0 .. RADIX - 1 :
            r < m => a * m + r \in Nat /\ a * m + r < RADIX * m
      <4>1. SUFFICES ASSUME NEW a \in 0 .. RADIX - 1, NEW m \in 1 .. RADIX - 1,
                            NEW r \in 0 .. RADIX - 1, r < m
                     PROVE  a * m + r \in Nat /\ a * m + r < RADIX * m
        OBVIOUS
      <4>2. a * m \in Nat /\ a * m =< (RADIX - 1) * m
        OBVIOUS
      <4>3. (RADIX - 1) * m = RADIX * m - m
        OBVIOUS
      <4>4. ASSUME NEW p \in Nat, NEW q \in Int, p =< q - m
            PROVE  p + r \in Nat /\ p + r < q
        BY <4>1, <4>4
      <4>5. RADIX * m \in Int /\ a * m =< RADIX * m - m
        BY <4>2, <4>3
      <4> HIDE Constants
      <4>6. QED
        BY <4>2, <4>4, <4>5
    <3>2. carry \in 0 .. RADIX - 1 /\ carry < arg
      BY <1>1
    <3>3. QED
      BY <1>1, <2>3, <3>1, <3>2
  <2>5. d \in 0 .. RADIX - 1 /\ c \in 0 .. arg - 1
    <3>1. arg \in 1 .. RADIX
      BY <1>1
    <3> HIDE DEF t
    <3>2. QED
      BY <2>4, <3>1, ProductSplit
  <2>6. i + 1 = z.n_alloc => c = 0
    <3>1. SUFFICES ASSUME i + 1 = z.n_alloc PROVE c = 0
      OBVIOUS
    <3>2. x.n_alloc = x.n_signif /\ i = x.n_signif - 1
      BY <1>1, <1>2, <2>1, <3>1
    <3>3. z.digits[i] = x.digits[x.n_signif - 1]
      BY <1>1, <1>2, <2>2, <3>2 DEF SameFrom
    <3>4. z.digits[i] * arg + (arg - 1) =< RADIX - 1
      BY <1>1, <3>2, <3>3
    <3>5. z.digits[i] * arg \in Nat
      BY <1>1, <2>3
    <3>6. t =< RADIX - 1
      BY <1>1, <3>4, <3>5
    <3> HIDE DEF t
    <3>7. QED
      BY <2>4, <3>6
  <2> HIDE DEF d, c
  <2>7. /\ WellFormed(z') /\ ProperCells(z') /\ z'.n_alloc = z.n_alloc /\ z'.n_signif = z.n_signif
        /\ \A m \in 0 .. z.n_alloc - 1 : m # i => z'.digits[m] = z.digits[m]
    BY <1>1, <2>1, <2>2, <2>5, SetProper
  <2>8. SameFrom(z', x, i + 1)
    BY <1>1, <1>2, <2>2, <2>7 DEF SameFrom
  <2>9. MulDigitInv'
    BY <1>1, <1>2, <2>1, <2>2, <2>5, <2>6, <2>7, <2>8 DEF MulDigitInv, operands, SameFrom
  <2>10. QED
    BY <1>1, <2>1, <2>2, <2>5, <2>7, <2>9, OneFunction
<1>4. CASE MulDigitEnd
  <2>1. i = z.n_signif /\ pc' = "done" /\ UNCHANGED << operands, i, j, carry, ret >>
    BY <1>4 DEF MulDigitEnd
  <2>2. WellFormed(z') /\ ProperCells(z') /\ z'.n_alloc = z.n_alloc
    <3>1. CASE carry > 0
      <4> DEFINE s == SetDigit(z, i, carry)
      <4>1. i \in 0 .. z.n_alloc - 1 /\ carry \in 0 .. RADIX - 1
        BY <1>1, <1>2, <2>1, <3>1
      <4>2. WellFormed(s) /\ ProperCells(s) /\ s.n_alloc = z.n_alloc /\ s.n_signif = z.n_signif
        BY <1>1, <4>1, SetProper
      <4>3. z' = [s EXCEPT !.n_signif = @ + 1]
        BY <1>4, <3>1 DEF MulDigitEnd
      <4> HIDE DEF s
      <4>4. s.n_signif + 1 \in 0 .. s.n_alloc
        BY <1>2, <2>1, <4>1, <4>2
      <4>5. QED
        BY <4>2, <4>3, <4>4, SetCountFacts DEF ProperCells
    <3>2. CASE ~ (carry > 0)
      BY <1>1, <1>4, <3>2 DEF MulDigitEnd
    <3>3. QED
      BY <3>1, <3>2
  <2>3. MulDigitInv'
    BY <1>1, <2>1, <2>2 DEF MulDigitInv, operands, ProperCells
  <2>4. QED
    BY <1>1, <1>2, <2>1, <2>2, <2>3, OneFunction
<1>5. QED
  BY <1>3, <1>4

(* digits_mul. *)
LEMMA MulPreserves ==
  ASSUME IInv, MulStep \/ MulRow \/ MulEnd
  PROVE  IInv'
<1> USE Constants
<1>1. /\ fn = "mul" /\ pc = "loop"
      /\ WellFormed(x) /\ WellFormed(y) /\ WellFormed(z)
      /\ ProperCells(x) /\ ProperCells(y) /\ ProperCells(z)
      /\ carry \in Nat /\ ret \in Int
      /\ x.n_signif >= 1
      /\ z.n_alloc = x.n_signif + y.n_signif
      /\ i \in 0 .. x.n_signif /\ j \in 0 .. y.n_signif
  BY DEF IInv, TypeOK, MulInv, MulStep, MulRow, MulEnd
<1>2. /\ x.n_alloc \in Nat /\ x.n_signif \in 0 .. x.n_alloc
      /\ y.n_alloc \in Nat /\ y.n_signif \in 0 .. y.n_alloc
      /\ z.n_alloc \in Nat
      /\ \A k \in 0 .. x.n_alloc - 1 : x.digits[k] \in 0 .. RADIX - 1
      /\ \A k \in 0 .. y.n_alloc - 1 : y.digits[k] \in 0 .. RADIX - 1
      /\ \A k \in 0 .. z.n_alloc - 1 : z.digits[k] \in 0 .. RADIX - 1
  BY <1>1, DigitRange
<1>3. CASE MulStep
  <2> DEFINE top == j + x.n_signif
  <2> DEFINE t == x.digits[i] * y.digits[j] + z.digits[i + j] + z.digits[top]
  <2> DEFINE d == t % RADIX
  <2> DEFINE e == t \div RADIX
  <2> DEFINE s == SetDigit(z, i + j, d)
  <2>1. /\ j < y.n_signif /\ i < x.n_signif
        /\ z' = SetDigit(s, top, e) /\ i' = i + 1
        /\ UNCHANGED << operands, j, carry, pc, ret >>
    BY <1>3 DEF MulStep
  <2>2. /\ i \in 0 .. x.n_alloc - 1 /\ j \in 0 .. y.n_alloc - 1
        /\ i + j \in 0 .. z.n_alloc - 1 /\ top \in 0 .. z.n_alloc - 1
    BY <1>1, <1>2, <2>1
  <2>3. /\ x.digits[i] \in 0 .. RADIX - 1 /\ y.digits[j] \in 0 .. RADIX - 1
        /\ z.digits[i + j] \in 0 .. RADIX - 1 /\ z.digits[top] \in 0 .. RADIX - 1
    BY <1>2, <2>2
  <2>4. t \in Nat /\ t < RADIX * RADIX
    <3>1. ASSUME NEW a \in 0 .. RADIX - 1, NEW b \in 0 .. RADIX - 1,
                 NEW p \in 0 .. RADIX - 1, NEW q \in 0 .. RADIX - 1
          PROVE  a * b + p + q \in Nat /\ a * b + p + q < RADIX * RADIX
      <4>1. a * b \in Nat /\ a * b =< (RADIX - 1) * (RADIX - 1)
        OBVIOUS
      <4>2. (RADIX - 1) * (RADIX - 1) = RADIX * RADIX - 2 * RADIX + 1
        OBVIOUS
      <4>3. ASSUME NEW u \in Nat, NEW v \in Int, u =< v - 2 * RADIX + 1
            PROVE  u + p + q \in Nat /\ u + p + q < v
        BY <4>3
      <4>4. RADIX * RADIX \in Int /\ a * b =< RADIX * RADIX - 2 * RADIX + 1
        BY <4>1, <4>2
      <4>5. QED
        BY <4>1, <4>3, <4>4
    <3>2. QED
      BY <2>3, <3>1
  <2>5. d \in 0 .. RADIX - 1 /\ e \in 0 .. RADIX - 1
    <3>1. RADIX \in 1 .. RADIX
      OBVIOUS
    <3> HIDE DEF t
    <3>2. QED
      BY <2>4, <3>1, ProductSplit
  <2> HIDE DEF d, e
  <2>6. WellFormed(s) /\ ProperCells(s) /\ s.n_alloc = z.n_alloc
    BY <1>1, <2>2, <2>5, SetProper
  <2> HIDE DEF s
  <2>7. WellFormed(z') /\ ProperCells(z') /\ z'.n_alloc = z.n_alloc
    BY <2>1, <2>2, <2>5, <2>6, SetProper
  <2>8. MulInv'
    BY <1>1, <1>2, <2>1, <2>7 DEF MulInv, operands
  <2>9. i' \in Int /\ j' \in Nat /\ carry' \in Nat /\ ret' \in Int /\ pc' = "loop"
    BY <1>1, <1>2, <2>1
  <2>10. fn = "mul" /\ UNCHANGED operands
    BY <1>1, <2>1
  <2> HIDE Constants
  <2>11. QED
    BY <2>7, <2>8, <2>9, <2>10, OneFunction
<1>4. CASE MulRow \/ MulEnd
  <2>1. MulInv'
    BY <1>1, <1>2, <1>4 DEF MulInv, MulRow, MulEnd, operands, ProperCells
  <2>2. z' = z /\ i' \in Int /\ j' \in Nat /\ carry' = carry /\ ret' = ret
        /\ UNCHANGED operands /\ pc' \in {"loop", "done"}
    BY <1>1, <1>2, <1>4 DEF MulRow, MulEnd
  <2>3. WellFormed(z')
    BY <1>1, <2>2
  <2>4. QED
    BY <1>1, <2>1, <2>2, <2>3, OneFunction
<1>5. QED
  BY <1>3, <1>4

(* digits_div_digit. *)
LEMMA DivDigitPreserves ==
  ASSUME IInv, DivDigitStep \/ DivDigitEnd
  PROVE  IInv'
<1> USE Constants
<1>1. /\ fn = "div_digit" /\ pc = "loop"
      /\ WellFormed(x) /\ WellFormed(z) /\ ProperCells(x) /\ ProperCells(z)
      /\ arg \in 1 .. RADIX - 1
      /\ carry \in 0 .. arg - 1
      /\ z.n_alloc = x.n_alloc
      /\ i \in -1 .. z.n_alloc - 1 /\ j \in Nat /\ ret \in Int
  BY DEF IInv, TypeOK, DivDigitInv, DivDigitStep, DivDigitEnd
<1>2. /\ z.n_alloc \in Nat
      /\ \A k \in 0 .. x.n_alloc - 1 : x.digits[k] \in 0 .. RADIX - 1
  BY <1>1, DigitRange
<1>3. CASE DivDigitStep
  <2> DEFINE t == carry * RADIX + x.digits[i]
  <2>1. /\ i >= 0 /\ z' = SetDigit(z, i, t \div arg) /\ carry' = t % arg /\ i' = i - 1
        /\ UNCHANGED << operands, j, pc, ret >>
    BY <1>3 DEF DivDigitStep
  <2>2. i \in 0 .. z.n_alloc - 1 /\ i \in Int
    BY <1>1, <1>2, <2>1
  <2>3. x.digits[i] \in 0 .. RADIX - 1
    BY <1>1, <1>2, <2>2
  <2>4. t \in Nat /\ t < arg * RADIX
    <3>1. ASSUME NEW m \in 1 .. RADIX - 1, NEW c \in 0 .. m - 1, NEW b \in 0 .. RADIX - 1
          PROVE  c * RADIX + b \in Nat /\ c * RADIX + b < m * RADIX
      <4>1. c * RADIX \in Nat /\ c * RADIX =< (m - 1) * RADIX
        OBVIOUS
      <4>2. (m - 1) * RADIX = m * RADIX - RADIX
        OBVIOUS
      <4>3. ASSUME NEW u \in Nat, NEW v \in Int, u =< v - RADIX
            PROVE  u + b \in Nat /\ u + b < v
        BY <4>3
      <4>4. m * RADIX \in Int /\ c * RADIX =< m * RADIX - RADIX
        BY <4>1, <4>2
      <4>5. QED
        BY <4>1, <4>3, <4>4
    <3>2. QED
      BY <1>1, <2>3, <3>1
  <2>5. t \div arg \in 0 .. RADIX - 1 /\ t % arg \in 0 .. arg - 1
    <3>1. ASSUME NEW m \in 1 .. RADIX - 1, NEW u \in Nat, u < m * RADIX
          PROVE  u \div m \in 0 .. RADIX - 1 /\ u % m \in 0 .. m - 1
      <4>1. u \div m \in Nat /\ m * (u \div m) =< u /\ u % m \in 0 .. m - 1
        OBVIOUS
      <4>2. ASSUME u \div m >= RADIX PROVE FALSE
        <5>1. m * (u \div m) >= m * RADIX
          BY <4>1, <4>2
        <5>2. QED
          BY <3>1, <4>1, <5>1
      <4>3. QED
        BY <4>1, <4>2
    <3> HIDE DEF t
    <3>2. QED
      BY <1>1, <2>4, <3>1
  <2> HIDE DEF t
  <2>6. WellFormed(z') /\ ProperCells(z') /\ z'.n_alloc = z.n_alloc
    BY <1>1, <2>1, <2>2, <2>5, SetProper
  <2>7. DivDigitInv'
    BY <1>1, <1>2, <2>1, <2>2, <2>5, <2>6 DEF DivDigitInv, operands
  <2>8. QED
    BY <1>1, <2>1, <2>2, <2>5, <2>6, <2>7, OneFunction
<1>4. CASE DivDigitEnd
  <2>1. DivDigitInv'
    BY <1>1, <1>2, <1>4 DEF DivDigitInv, DivDigitEnd, operands, ProperCells
  <2>2. QED
    BY <1>1, <1>2, <1>4, <2>1, OneFunction DEF DivDigitEnd, WellFormed
<1>5. QED
  BY <1>3, <1>4

(* digits_cmp writes no digit. *)
LEMMA CmpPreserves ==
  ASSUME IInv, CmpStep
  PROVE  IInv'
<1>1. fn = "cmp" /\ z' = z /\ carry' = carry /\ UNCHANGED operands
  BY DEF CmpStep
<1>2. /\ WellFormed(x) /\ WellFormed(y) /\ WellFormed(z) /\ ProperCells(z)
      /\ i \in Int /\ j \in Nat /\ carry \in Nat /\ ret \in Int
      /\ pc \in {"loop", "carry", "done"}
  BY <1>1 DEF IInv, TypeOK, CmpInv
<1>3. \A a, b : CMP(a, b) \in Int
  BY DEF CMP
<1>4. i' \in Int /\ j' \in Nat /\ ret' \in Int /\ pc' \in {"loop", "carry", "done"}
  BY <1>2, <1>3 DEF CmpStep
<1>5. CmpInv'
  BY <1>1, <1>2 DEF CmpInv, ProperCells
<1>6. WellFormed(z')
  BY <1>1, <1>2
<1>7. QED
  BY <1>1, <1>2, <1>4, <1>5, <1>6, OneFunction

(* digits_eliminate_trailing_zeros. *)
LEMMA EliminatePreserves ==
  ASSUME IInv, FindLeastSignificant \/ Found \/ MoveDown \/ MoveEnd
  PROVE  IInv'
<1> USE Constants
<1>1. /\ fn = "eliminate_trailing_zeros"
      /\ WellFormed(z) /\ ProperCells(z)
      /\ i \in 0 .. z.n_alloc /\ j \in Nat /\ carry \in Nat /\ ret \in Int
      /\ pc = "loop" => i =< z.n_signif /\ j = 0
      /\ pc = "carry" => z.n_signif + i =< z.n_alloc /\ j \in 0 .. z.n_signif
  BY DEF IInv, TypeOK, EliminateInv, FindLeastSignificant, Found, MoveDown, MoveEnd
<1>2. /\ z.n_alloc \in Nat /\ z.n_signif \in 0 .. z.n_alloc /\ i \in Int
      /\ \A k \in 0 .. z.n_alloc - 1 : z.digits[k] \in 0 .. RADIX - 1
  BY <1>1, DigitRange
<1>3. CASE FindLeastSignificant \/ MoveEnd
  <2>1. EliminateInv'
    BY <1>1, <1>2, <1>3 DEF EliminateInv, FindLeastSignificant, MoveEnd, operands, ProperCells
  <2>2. /\ UNCHANGED operands /\ z' = z /\ j' = j /\ carry' = carry /\ ret' = ret
        /\ i' \in Int /\ pc' \in {"loop", "carry", "done"}
    BY <1>2, <1>3 DEF FindLeastSignificant, MoveEnd
  <2>3. WellFormed(z')
    BY <1>1, <2>2
  <2>4. QED
    BY <1>1, <2>1, <2>2, <2>3, OneFunction
<1>4. CASE Found
  <2>1. z.n_signif - i \in 0 .. z.n_alloc
    BY <1>1, <1>2, <1>4 DEF Found
  <2>2. /\ WellFormed(z') /\ ProperCells(z') /\ z'.n_alloc = z.n_alloc
        /\ z'.n_signif = z.n_signif - i
    BY <1>1, <1>4, <2>1, SetCountFacts DEF Found, ProperCells
  <2>3. j = 0
    BY <1>1, <1>4 DEF Found
  <2>4. EliminateInv'
    BY <1>1, <1>2, <1>4, <2>1, <2>2, <2>3 DEF EliminateInv, Found, operands
  <2>5. QED
    BY <1>1, <1>2, <1>4, <2>2, <2>4, OneFunction DEF Found
<1>5. CASE MoveDown
  <2>1. /\ j \in 0 .. z.n_alloc - 1 /\ z.digits[i + j] \in 0 .. RADIX - 1
        /\ j < z.n_signif /\ z' = SetDigit(z, j, z.digits[i + j])
    BY <1>1, <1>2, <1>5 DEF MoveDown
  <2>2. /\ WellFormed(z') /\ ProperCells(z') /\ z'.n_alloc = z.n_alloc
        /\ z'.n_signif = z.n_signif
    BY <1>1, <2>1, SetProper
  <2>3. EliminateInv'
    BY <1>1, <1>2, <1>5, <2>1, <2>2 DEF EliminateInv, MoveDown, operands
  <2>4. QED
    BY <1>1, <1>2, <1>5, <2>2, <2>3, OneFunction DEF MoveDown
<1>6. QED
  BY <1>3, <1>4, <1>5

-----------------------------------------------------------------------------
(***************************************************************************)
(* Rounding a digit gives a proper digit or RADIX: a divisor of RADIX has  *)
(* a multiple at RADIX and none between the digit rounded down and that.   *)
(***************************************************************************)
LEMMA RoundedBound ==
  ASSUME NEW num \in 0 .. RADIX - 1, NEW quant \in Nat \ {0}, RADIX % quant = 0,
         NEW up \in 0 .. 1
  PROVE  num - (num % quant) + quant * up \in 0 .. RADIX
<1> USE Constants
<1> DEFINE q == num \div quant
<1> DEFINE p == RADIX \div quant
<1>1. q \in Nat /\ num = quant * q + (num % quant) /\ num % quant \in 0 .. quant - 1
  OBVIOUS
<1>2. p \in Nat /\ RADIX = quant * p
  OBVIOUS
<1> HIDE DEF q, p
<1>3. q + 1 =< p
  <2>1. ASSUME q >= p PROVE FALSE
    <3>1. quant * q >= quant * p
      BY <1>1, <1>2, <2>1
    <3>2. quant * q \in Nat
      BY <1>1
    <3>3. QED
      BY <1>1, <1>2, <3>1, <3>2
  <2>2. QED
    BY <1>1, <1>2, <2>1
<1>4. quant * (q + 1) =< RADIX /\ quant * (q + 1) = quant * q + quant /\ quant * q \in Nat
  BY <1>1, <1>2, <1>3
<1>5. CASE up = 0
  BY <1>1, <1>4, <1>5
<1>6. CASE up = 1
  BY <1>1, <1>4, <1>6
<1>7. QED
  BY <1>5, <1>6

(* The digit a rounding position falls into, DPD decimal digits each. *)
LEMMA RoundingPosition ==
  ASSUME NEW dpd \in Nat \ {0}, NEW n \in Nat, NEW shift \in 1 .. n * dpd
  PROVE  /\ shift \div dpd \in 0 .. n /\ shift % dpd \in 0 .. dpd - 1
         /\ shift % dpd = 0 => shift \div dpd >= 1
         /\ shift % dpd # 0 => shift \div dpd =< n - 1
<1> DEFINE idx == shift \div dpd
<1> DEFINE r == shift % dpd
<1>0. n * dpd \in Nat /\ shift \in Nat /\ shift >= 1 /\ shift =< n * dpd
  OBVIOUS
<1>1. idx \in Nat /\ r \in 0 .. dpd - 1 /\ shift = dpd * idx + r
  BY <1>0
<1> HIDE DEF idx, r
<1>2. ASSUME idx >= n + 1 PROVE FALSE
  <2>1. dpd * idx >= dpd * (n + 1) /\ dpd * (n + 1) = n * dpd + dpd
    BY <1>1, <1>2
  <2>2. QED
    BY <1>0, <1>1, <2>1
<1>3. ASSUME r = 0, idx = 0 PROVE FALSE
  BY <1>0, <1>1, <1>3
<1>4. ASSUME r # 0, idx = n PROVE FALSE
  <2>1. dpd * idx = n * dpd
    BY <1>1, <1>4
  <2>2. QED
    BY <1>0, <1>1, <1>4, <2>1
<1>5. QED
  BY <1>1, <1>2, <1>3, <1>4 DEF idx, r

(* digits_round. *)
LEMMA RoundPreserves ==
  ASSUME IInv, RoundDigit \/ RoundRipple
  PROVE  IInv'
<1> USE Constants
<1>1. /\ fn = "round"
      /\ WellFormed(x) /\ WellFormed(z)
      /\ i \in Int /\ j \in Nat /\ carry \in Nat /\ ret \in Int
      /\ arg.shift \in 1 .. x.n_signif * DEC_DIGITS_PER_DIGIT
      /\ x.n_signif >= 1
      /\ z.n_signif = x.n_signif /\ z.n_alloc = x.n_signif
      /\ \A k \in 0 .. z.n_alloc - 1 :
           IF pc = "carry" /\ k = i THEN z.digits[k] = RADIX ELSE z.digits[k] < RADIX
      /\ pc = "carry" => i \in 0 .. z.n_alloc - 1
  BY DEF IInv, TypeOK, RoundInv, RoundDigit, RoundRipple
<1>2. /\ z.n_alloc \in Nat /\ z.n_signif \in Nat
      /\ \A k \in 0 .. z.n_alloc - 1 : z.digits[k] \in 0 .. U64 - 1
  BY <1>1 DEF WellFormed, Word
<1>3. CASE RoundDigit
  <2> DEFINE idx == arg.shift \div DEC_DIGITS_PER_DIGIT
  <2> DEFINE n_dec == arg.shift % DEC_DIGITS_PER_DIGIT
  <2> DEFINE at == IF n_dec = 0 THEN idx - 1 ELSE idx
  <2> DEFINE quot == IF idx < z.n_signif THEN z.digits[idx] ELSE 0
  <2> DEFINE digit == z.digits[at]
  <2> DEFINE rounded ==
        IF n_dec # 0
        THEN round_to_multiple(arg.sign, digit, at > 0, u64_10_pow_n(n_dec), arg.mode)
        ELSE IF digit # 0 \/ at > 0
        THEN RADIX * round_qr(arg.sign, quot, digit, at > 0, RADIX, arg.mode)
        ELSE digit
  <2> DEFINE low == ZeroBelow(z, at)
  <2>1. /\ pc = "loop" /\ z' = SetDigit(low, at, rounded) /\ i' = at
        /\ pc' = IF rounded = RADIX THEN "carry" ELSE "done"
        /\ UNCHANGED << operands, j, carry, ret >>
    BY <1>3 DEF RoundDigit
  <2>2. at \in 0 .. z.n_alloc - 1 /\ n_dec \in 0 .. DEC_DIGITS_PER_DIGIT
    <3>1. DEC_DIGITS_PER_DIGIT \in Nat \ {0}
      BY RadixAssumption
    <3>2. /\ idx \in 0 .. z.n_alloc /\ n_dec \in 0 .. DEC_DIGITS_PER_DIGIT - 1
          /\ n_dec = 0 => idx >= 1
          /\ n_dec # 0 => idx =< z.n_alloc - 1
      BY <1>1, <1>2, <3>1, RoundingPosition
    <3> HIDE DEF idx, n_dec
    <3>3. QED
      BY <1>2, <3>1, <3>2
  <2>3. digit \in 0 .. RADIX - 1
    <3> HIDE DEF at
    <3>1. pc # "carry"
      BY <1>3 DEF RoundDigit
    <3>2. z.digits[at] \in 0 .. U64 - 1 /\ z.digits[at] < RADIX
      BY <1>1, <1>2, <2>2, <3>1
    <3>3. QED
      BY <3>2
  <2>4. rounded \in 0 .. RADIX
    <3> HIDE DEF n_dec, digit, at, quot
    <3>1. \A s, q, m, t, d, w : round_qr(s, q, m, t, d, w) \in 0 .. 1
      BY DEF round_qr
    <3>2. CASE n_dec # 0
      <4> DEFINE quant == u64_10_pow_n(n_dec)
      <4>1. quant \in Nat \ {0} /\ RADIX % quant = 0
        BY <2>2, PowersOfTen
      <4> HIDE DEF quant
      <4> DEFINE up == round_qr(arg.sign, digit \div quant, digit % quant, at > 0, quant, arg.mode)
      <4>2. up \in 0 .. 1
        BY <3>1
      <4> HIDE DEF up
      <4>3. digit - (digit % quant) + quant * up \in 0 .. RADIX
        BY <2>3, <4>1, <4>2, RoundedBound
      <4>4. rounded = digit \/ rounded = digit - (digit % quant) + quant * up
        BY <3>2 DEF round_to_multiple, quant, up
      <4>5. QED
        BY <2>3, <4>3, <4>4
    <3>3. CASE n_dec = 0
      <4>1. rounded = digit \/ \E up \in 0 .. 1 : rounded = RADIX * up
        BY <3>1, <3>3
      <4>2. QED
        BY <2>3, <4>1
    <3>4. QED
      BY <3>2, <3>3
  <2> HIDE DEF rounded, digit, at
  <2>5. /\ WellFormed(low) /\ low.n_alloc = z.n_alloc /\ low.n_signif = z.n_signif
        /\ \A k \in 0 .. z.n_alloc - 1 : low.digits[k] \in 0 .. RADIX - 1
    <3>1. low = [n_alloc |-> z.n_alloc, n_signif |-> z.n_signif,
                 digits |-> [m \in 0 .. z.n_alloc - 1 |-> IF m < at THEN 0 ELSE z.digits[m]]]
      <4> DEFINE r == [n_alloc |-> z.n_alloc, n_signif |-> z.n_signif, digits |-> z.digits]
      <4>1. z = r /\ DOMAIN z.digits = 0 .. z.n_alloc - 1
        BY <1>1 DEF WellFormed
      <4>2. ZeroBelow(r, at) =
              [n_alloc |-> z.n_alloc, n_signif |-> z.n_signif,
               digits |-> [m \in DOMAIN z.digits |-> IF m < at THEN 0 ELSE z.digits[m]]]
        BY DEF ZeroBelow
      <4> HIDE DEF r
      <4>3. QED
        BY <4>1, <4>2
    <3>2. \A m \in 0 .. z.n_alloc - 1 :
             (IF m < at THEN 0 ELSE z.digits[m]) \in 0 .. RADIX - 1
      BY <1>1, <1>2, <2>1
    <3> HIDE DEF low
    <3>3. \A m \in 0 .. z.n_alloc - 1 : low.digits[m] \in 0 .. RADIX - 1 /\ low.digits[m] \in Word
      BY <3>1, <3>2 DEF Word
    <3>4. low.digits \in [0 .. z.n_alloc - 1 -> Word]
      BY <3>1, <3>3
    <3>5. QED
      BY <1>1, <3>1, <3>3, <3>4 DEF WellFormed
  <2> HIDE DEF low
  <2>6. rounded \in Word
    BY <2>4 DEF Word
  <2>7. /\ WellFormed(z') /\ z'.n_alloc = z.n_alloc /\ z'.n_signif = z.n_signif
        /\ z'.digits[at] = rounded
        /\ \A k \in 0 .. z.n_alloc - 1 : k # at => z'.digits[k] = low.digits[k]
    BY <2>1, <2>2, <2>5, <2>6, SetDigitFacts
  <2>8. RoundInv'
    <3>1. \A k \in 0 .. z.n_alloc - 1 :
            IF pc' = "carry" /\ k = at THEN z'.digits[k] = RADIX ELSE z'.digits[k] < RADIX
      BY <2>1, <2>2, <2>4, <2>5, <2>7
    <3>2. QED
      BY <1>1, <2>1, <2>2, <2>7, <3>1 DEF RoundInv, operands
  <2>9. i' \in Int /\ j' \in Nat /\ carry' \in Nat /\ ret' \in Int
        /\ pc' \in {"carry", "done"} /\ UNCHANGED operands
    BY <1>1, <1>2, <2>1, <2>2
  <2>10. QED
    BY <1>1, <2>7, <2>8, <2>9, OneFunction
<1>4. CASE RoundRipple
  <2> DEFINE cleared == SetDigit(z, i, 0)
  <2>1. i \in 0 .. z.n_alloc - 1 /\ i \in Int /\ pc = "carry" /\ 0 \in Word
    BY <1>1, <1>2, <1>4 DEF RoundRipple, Word
  <2>2. /\ WellFormed(cleared) /\ cleared.n_alloc = z.n_alloc /\ cleared.n_signif = z.n_signif
        /\ cleared.digits[i] = 0
        /\ \A k \in 0 .. z.n_alloc - 1 : k # i => cleared.digits[k] = z.digits[k]
    BY <1>1, <2>1, SetDigitFacts
  <2>3. /\ i' = i + 1 /\ UNCHANGED << operands, j, carry >>
    BY <1>4 DEF RoundRipple
  <2>4. CASE i + 1 < z.n_signif
    <3>1. /\ z' = SetDigit(cleared, i + 1, z.digits[i + 1] + 1)
          /\ pc' = IF z.digits[i + 1] + 1 = RADIX THEN "carry" ELSE "done"
          /\ ret' = ret
      BY <1>4, <2>4 DEF RoundRipple
    <3>2. i + 1 \in 0 .. z.n_alloc - 1 /\ i + 1 # i
      BY <1>1, <1>2, <2>1, <2>4
    <3>3. z.digits[i + 1] \in 0 .. RADIX - 1
      BY <1>1, <1>2, <3>2
    <3>4. z.digits[i + 1] + 1 \in Word /\ z.digits[i + 1] + 1 =< RADIX
      BY <3>3 DEF Word
    <3> HIDE DEF cleared
    <3>5. /\ WellFormed(z') /\ z'.n_alloc = z.n_alloc /\ z'.n_signif = z.n_signif
          /\ z'.digits[i + 1] = z.digits[i + 1] + 1
          /\ \A k \in 0 .. z.n_alloc - 1 : k # i + 1 => z'.digits[k] = cleared.digits[k]
      BY <2>2, <3>1, <3>2, <3>4, SetDigitFacts
    <3>6. \A k \in 0 .. z.n_alloc - 1 :
            IF pc' = "carry" /\ k = i + 1 THEN z'.digits[k] = RADIX ELSE z'.digits[k] < RADIX
      BY <1>1, <2>1, <2>2, <3>1, <3>2, <3>3, <3>5
    <3>7. RoundInv'
      BY <1>1, <2>3, <3>1, <3>2, <3>5, <3>6 DEF RoundInv, operands
    <3>8. QED
      BY <1>1, <2>1, <2>3, <3>1, <3>5, <3>7, OneFunction
  <2>5. CASE ~ (i + 1 < z.n_signif)
    <3>1. z' = cleared /\ pc' = "done" /\ ret' = 1
      BY <1>4, <2>5 DEF RoundRipple
    <3> HIDE DEF cleared
    <3>2. \A k \in 0 .. z.n_alloc - 1 : z'.digits[k] < RADIX
      BY <1>1, <2>1, <2>2, <3>1
    <3>3. RoundInv'
      BY <1>1, <2>2, <2>3, <3>1, <3>2 DEF RoundInv, operands
    <3>4. QED
      BY <1>1, <2>1, <2>2, <2>3, <3>1, <3>3, OneFunction
  <2>6. QED
    BY <2>4, <2>5
<1>5. QED
  BY <1>3, <1>4

-----------------------------------------------------------------------------
(* The arrays calls are made with are proper. *)
LEMMA ArrayFacts ==
  ASSUME NEW n \in Lengths, NEW a \in Arrays(n)
  PROVE  /\ WellFormed(a) /\ ProperCells(a)
         /\ a.n_alloc = n /\ a.n_signif = n /\ n \in Nat /\ n >= 1
<1> USE Constants
<1>1. n \in Nat /\ n >= 1
  BY MaxLenAssumption DEF Lengths
<1>2. PICK d \in [0 .. n - 1 -> Digits] :
        a = [n_alloc |-> n, n_signif |-> n, digits |-> d]
  BY DEF Arrays
<1>3. \A k \in 0 .. n - 1 : d[k] \in 0 .. RADIX - 1
  BY <1>2, DigitsAssumption
<1>4. d \in [0 .. n - 1 -> Word]
  BY <1>2, <1>3 DEF Word
<1>5. QED
  BY <1>1, <1>2, <1>3, <1>4 DEF WellFormed, ProperCells

LEMMA OperandFacts ==
  ASSUME NEW a \in Operands
  PROVE  /\ WellFormed(a) /\ ProperCells(a)
         /\ a.n_alloc = a.n_signif /\ a.n_signif \in Nat /\ a.n_signif >= 1
BY ArrayFacts DEF Operands

(* So are the zeroed arrays and the copies made for a result. *)
LEMMA AllocFacts ==
  ASSUME NEW n \in Nat
  PROVE  /\ WellFormed(digits_alloc(n)) /\ ProperCells(digits_alloc(n))
         /\ digits_alloc(n).n_alloc = n /\ digits_alloc(n).n_signif = n
<1>1. 0 \in Word /\ 0 < RADIX
  BY Constants DEF Word
<1>2. [k \in 0 .. n - 1 |-> 0] \in [0 .. n - 1 -> Word]
  BY <1>1
<1>3. QED
  BY <1>1, <1>2 DEF digits_alloc, WellFormed, ProperCells

LEMMA WellFormedRecord ==
  ASSUME NEW p \in Nat, NEW q \in 0 .. p, NEW f \in [0 .. p - 1 -> Word]
  PROVE  WellFormed([n_alloc |-> p, n_signif |-> q, digits |-> f])
BY DEF WellFormed

LEMMA CopyFacts ==
  ASSUME NEW a, WellFormed(a), ProperCells(a), NEW n_shift \in Nat, NEW n_add \in Nat,
         NEW c, c = digits_copy(a, n_shift, n_add)
  PROVE  /\ WellFormed(c) /\ ProperCells(c)
         /\ c.n_signif = a.n_signif + n_shift
         /\ c.n_alloc = a.n_signif + n_shift + n_add
<1> USE Constants
<1> DEFINE n == a.n_signif + n_shift
<1> DEFINE d == [k \in 0 .. n + n_add - 1 |->
                   IF k \in n_shift .. n - 1 THEN a.digits[k - n_shift] ELSE 0]
<1>1. /\ a.n_alloc \in Nat /\ a.n_signif \in Nat /\ a.n_signif =< a.n_alloc
      /\ \A k \in 0 .. a.n_alloc - 1 : a.digits[k] \in 0 .. RADIX - 1
  BY DigitRange
<1>2. c = [n_alloc |-> n + n_add, n_signif |-> n, digits |-> d]
  BY DEF digits_copy
<1>3. \A k \in 0 .. n + n_add - 1 : d[k] \in 0 .. RADIX - 1
  <2>1. SUFFICES ASSUME NEW k \in 0 .. n + n_add - 1 PROVE d[k] \in 0 .. RADIX - 1
    OBVIOUS
  <2>2. CASE k \in n_shift .. n - 1
    <3>1. k - n_shift \in 0 .. a.n_alloc - 1
      BY <1>1, <2>2
    <3>2. QED
      BY <1>1, <2>2, <3>1
  <2>3. CASE k \notin n_shift .. n - 1
    BY <2>3
  <2>4. QED
    BY <2>2, <2>3
<1>5. d \in [0 .. n + n_add - 1 -> Word]
  BY <1>3 DEF Word
<1>6. n \in Nat /\ n + n_add \in Nat /\ n \in 0 .. n + n_add
  BY <1>1
<1>8. n + n_add = a.n_signif + n_shift + n_add /\ n = a.n_signif + n_shift
  OBVIOUS
<1> HIDE DEF d, n
<1>9. c.n_alloc = n + n_add /\ c.n_signif = n /\ c.digits = d
  BY <1>2
<1>10. WellFormed(c)
  <2> DEFINE m == n + n_add
  <2>1. m \in Nat /\ n \in 0 .. m /\ d \in [0 .. m - 1 -> Word]
    BY <1>5, <1>6
  <2>2. c = [n_alloc |-> m, n_signif |-> n, digits |-> d]
    BY <1>2
  <2> HIDE DEF m
  <2>3. QED
    BY <2>1, <2>2, WellFormedRecord
<1>11. ProperCells(c)
  <2>1. \A k \in 0 .. n + n_add - 1 : d[k] < RADIX
    BY <1>3
  <2>2. QED
    BY <1>6, <1>9, <2>1 DEF ProperCells
<1>12. QED
  BY <1>8, <1>9, <1>10, <1>11

LEMMA CopyDigits ==
  ASSUME NEW a, a.n_signif \in Nat, NEW n_add \in Nat,
         NEW c, c = digits_copy(a, 0, n_add), NEW k \in 0 .. a.n_signif + n_add - 1
  PROVE  c.digits[k] = IF k < a.n_signif THEN a.digits[k] ELSE 0
<1>1. c.digits = [m \in 0 .. (a.n_signif + 0) + n_add - 1 |->
                    IF m \in 0 .. (a.n_signif + 0) - 1 THEN a.digits[m - 0] ELSE 0]
  BY DEF digits_copy
<1>2. k \in 0 .. (a.n_signif + 0) + n_add - 1 /\ k - 0 = k
      /\ (k \in 0 .. (a.n_signif + 0) - 1 <=> k < a.n_signif)
  OBVIOUS
<1>3. QED
  BY <1>1, <1>2

(* The parts of the invariant that no call but the one made touches. *)
LEMMA OneCall ==
  ASSUME NEW f \in Functions, NEW a, NEW b, NEW m, NEW r,
         Call(f, a, b, m, r), i \in Int,
         WellFormed(a), ProperCells(a), WellFormed(b), ProperCells(b), WellFormed(r),
         f = "iadd_digits" => AddInv,
         f = "isub_digits" => SubInv,
         f = "iadd_digit" => IncrementInv,
         f = "imul_digit" => MulDigitInv,
         f = "mul" => MulInv,
         f = "div_digit" => DivDigitInv,
         f = "round" => RoundInv,
         f = "cmp" => CmpInv,
         f = "eliminate_trailing_zeros" => EliminateInv
  PROVE  IInv
<1>1. fn = f /\ x = a /\ y = b /\ z = r /\ j = 0 /\ carry = 0 /\ ret = 0 /\ pc = "loop"
  BY DEF Call
<1>2. TypeOK
  BY <1>1 DEF TypeOK
<1>3. AddInv /\ SubInv /\ IncrementInv
  BY <1>1 DEF AddInv, SubInv, IncrementInv
<1>4. MulDigitInv /\ MulInv /\ DivDigitInv
  BY <1>1 DEF MulDigitInv, MulInv, DivDigitInv
<1>5. RoundInv /\ CmpInv /\ EliminateInv
  BY <1>1 DEF RoundInv, CmpInv, EliminateInv
<1>6. QED
  BY <1>1, <1>2, <1>3, <1>4, <1>5 DEF IInv

LEMMA InitInv == Init => IInv
<1> USE Constants
<1>1. ASSUME CallAdd PROVE IInv
  <2>1. PICK a \in Operands, b \in Operands :
          LET c == digits_copy(a, 0, MAX(b.n_signif - a.n_signif + 1, 1))
          IN  /\ Call("iadd_digits", c, b, 0,
                      [c EXCEPT !.n_signif = MAX(a.n_signif, b.n_signif)])
              /\ i = 0
    BY <1>1 DEF CallAdd
  <2> DEFINE n_add == MAX(b.n_signif - a.n_signif + 1, 1)
  <2> DEFINE c == digits_copy(a, 0, n_add)
  <2> DEFINE n == MAX(a.n_signif, b.n_signif)
  <2> DEFINE r == [c EXCEPT !.n_signif = n]
  <2>2. /\ WellFormed(a) /\ ProperCells(a) /\ a.n_signif \in Nat
        /\ WellFormed(b) /\ ProperCells(b) /\ b.n_signif \in Nat /\ b.n_signif >= 1
    BY OperandFacts
  <2>3. n_add \in Nat /\ n \in 0 .. a.n_signif + n_add - 1 /\ a.n_signif < a.n_signif + n_add
        /\ b.n_signif < a.n_signif + n_add
    BY <2>2 DEF MAX
  <2> HIDE DEF n_add
  <2>4. /\ WellFormed(c) /\ ProperCells(c) /\ c.n_signif = a.n_signif
        /\ c.n_alloc = a.n_signif + n_add
        /\ \A k \in c.n_signif .. c.n_alloc - 1 : c.digits[k] = 0
    <3>1. WellFormed(a) /\ ProperCells(a) /\ 0 \in Nat /\ n_add \in Nat
          /\ c = digits_copy(a, 0, n_add)
      BY <2>2, <2>3
    <3> HIDE DEF c
    <3>2. WellFormed(c) /\ ProperCells(c)
      BY <3>1, CopyFacts
    <3>3. c.n_signif = a.n_signif + 0
      BY <3>1, CopyFacts
    <3>4. c.n_alloc = a.n_signif + 0 + n_add
      BY <3>1, CopyFacts
    <3>5. ASSUME NEW k \in c.n_signif .. c.n_alloc - 1 PROVE c.digits[k] = 0
      <4>1. k \in 0 .. a.n_signif + n_add - 1 /\ ~ (k < a.n_signif)
        BY <2>2, <2>3, <3>3, <3>4, <3>5
      <4>2. QED
        BY <2>2, <3>1, <4>1, CopyDigits
    <3>6. QED
      BY <2>2, <2>3, <3>2, <3>3, <3>4, <3>5
  <2> HIDE DEF c
  <2>5. WellFormed(r) /\ r.n_alloc = c.n_alloc /\ r.n_signif = n /\ r.digits = c.digits
    BY <2>2, <2>3, <2>4, SetCountFacts
  <2> HIDE DEF r
  <2>6. Call("iadd_digits", c, b, 0, r) /\ i = 0
    BY <2>1 DEF c, r, n_add
  <2>7. AddInv
    BY <2>2, <2>3, <2>4, <2>5, <2>6 DEF AddInv, Call, ProperCells, SameFrom
  <2>8. QED
    BY <2>2, <2>4, <2>5, <2>6, <2>7, OneCall DEF Functions
<1>2. ASSUME CallSub PROVE IInv
  <2>1. PICK a \in Operands, b \in Operands :
          /\ a.n_signif >= b.n_signif
          /\ \E p \in 0 .. a.n_signif - 1 : ExceedsAt(a, b, p)
          /\ Call("isub_digits", a, b, 0, a)
          /\ i = 0
    BY <1>2 DEF CallSub
  <2>2. /\ WellFormed(a) /\ ProperCells(a) /\ a.n_signif \in Nat /\ a.n_signif >= 1
        /\ a.n_alloc = a.n_signif
        /\ WellFormed(b) /\ ProperCells(b) /\ b.n_signif \in Nat
    BY OperandFacts
  <2>3. SubInv
    BY <2>1, <2>2 DEF SubInv, Call, ProperCells, SameFrom
  <2>4. QED
    BY <2>1, <2>2, <2>3, OneCall DEF Functions
<1>3. ASSUME CallIncrement PROVE IInv
  <2>1. PICK n \in Lengths : \E a \in Arrays(n) : Call("iadd_digit", a, NoArray, 1, a) /\ i = 0
    BY <1>3 DEF CallIncrement
  <2> PICK a \in Arrays(n) : Call("iadd_digit", a, NoArray, 1, a) /\ i = 0
    BY <2>1
  <2>2. WellFormed(a) /\ ProperCells(a) /\ a.n_alloc >= 1
    BY ArrayFacts
  <2>3. WellFormed(NoArray) /\ ProperCells(NoArray)
    BY AllocFacts DEF NoArray
  <2>4. IncrementInv
    BY <2>1, <2>2 DEF IncrementInv, Call
  <2>5. QED
    BY <2>1, <2>2, <2>3, <2>4, OneCall DEF Functions
<1>4. ASSUME CallMulDigit PROVE IInv
  <2>1. PICK a \in Operands, m \in Digits, room \in 0 .. 1 :
          /\ room = 0 => a.digits[a.n_signif - 1] * m =< MAX_DIGIT - (m - 1)
          /\ m > 0
          /\ LET c == digits_copy(a, 0, room) IN Call("imul_digit", c, NoArray, m, c)
          /\ i = 0
    BY <1>4 DEF CallMulDigit
  <2> DEFINE c == digits_copy(a, 0, room)
  <2>2. WellFormed(a) /\ ProperCells(a) /\ a.n_signif \in Nat /\ a.n_signif >= 1
        /\ a.n_signif = a.n_alloc
    BY OperandFacts
  <2>3. /\ WellFormed(c) /\ ProperCells(c) /\ c.n_signif = a.n_signif
        /\ c.n_alloc = a.n_signif + room
        /\ \A k \in 0 .. a.n_signif - 1 : c.digits[k] = a.digits[k]
    <3>1. WellFormed(a) /\ ProperCells(a) /\ 0 \in Nat /\ room \in Nat
          /\ c = digits_copy(a, 0, room)
      BY <2>2
    <3> HIDE DEF c
    <3>2. WellFormed(c) /\ ProperCells(c)
      BY <3>1, CopyFacts
    <3>3. c.n_signif = a.n_signif + 0
      BY <3>1, CopyFacts
    <3>4. c.n_alloc = a.n_signif + 0 + room
      BY <3>1, CopyFacts
    <3>5. ASSUME NEW k \in 0 .. a.n_signif - 1 PROVE c.digits[k] = a.digits[k]
      <4>1. k \in 0 .. a.n_signif + room - 1 /\ k < a.n_signif
        BY <2>2, <3>5
      <4>2. QED
        BY <2>2, <3>1, <4>1, CopyDigits
    <3>6. QED
      BY <2>2, <3>2, <3>3, <3>4, <3>5
  <2>4. Call("imul_digit", c, NoArray, m, c)
    BY <2>1
  <2> HIDE DEF c
  <2>5. m \in 1 .. RADIX - 1
    BY <2>1, DigitsAssumption
  <2>6. c.n_alloc = c.n_signif => c.digits[c.n_signif - 1] * m + (m - 1) =< RADIX - 1
    <3>1. SUFFICES ASSUME c.n_alloc = c.n_signif
                   PROVE  c.digits[c.n_signif - 1] * m + (m - 1) =< RADIX - 1
      OBVIOUS
    <3>2. room = 0 /\ c.digits[c.n_signif - 1] = a.digits[a.n_signif - 1]
      BY <2>2, <2>3, <3>1
    <3>3. a.digits[a.n_signif - 1] \in 0 .. RADIX - 1
      BY <2>2, DigitRange
    <3>4. a.digits[a.n_signif - 1] * m =< RADIX - 1 - (m - 1)
          /\ a.digits[a.n_signif - 1] * m \in Int
      BY <2>1, <2>5, <3>2, <3>3
    <3>5. QED
      BY <2>5, <3>2, <3>4
  <2>7. MulDigitInv
    BY <2>1, <2>2, <2>3, <2>4, <2>5, <2>6 DEF MulDigitInv, Call, SameFrom
  <2>8. WellFormed(NoArray) /\ ProperCells(NoArray)
    BY AllocFacts DEF NoArray
  <2>9. QED
    BY <2>1, <2>3, <2>4, <2>7, <2>8, OneCall DEF Functions
<1>5. ASSUME CallMul PROVE IInv
  <2>1. PICK a \in Operands, b \in Operands :
          Call("mul", a, b, 0, digits_alloc(a.n_signif + b.n_signif)) /\ i = 0
    BY <1>5 DEF CallMul
  <2>2. /\ WellFormed(a) /\ ProperCells(a) /\ a.n_signif \in Nat /\ a.n_signif >= 1
        /\ WellFormed(b) /\ ProperCells(b) /\ b.n_signif \in Nat
    BY OperandFacts
  <2> DEFINE r == digits_alloc(a.n_signif + b.n_signif)
  <2>3. WellFormed(r) /\ ProperCells(r) /\ r.n_alloc = a.n_signif + b.n_signif
    BY <2>2, AllocFacts
  <2> HIDE DEF r
  <2>4. Call("mul", a, b, 0, r) /\ i = 0
    BY <2>1 DEF r
  <2>5. MulInv
    BY <2>2, <2>3, <2>4 DEF MulInv, Call
  <2>6. QED
    BY <2>2, <2>3, <2>4, <2>5, OneCall DEF Functions
<1>6. ASSUME CallDivDigit PROVE IInv
  <2>1. PICK a \in Operands, d \in Digits \ {0}, n_shift \in 0 .. 1 :
          LET c == digits_copy(a, n_shift, 0)
          IN  /\ Call("div_digit", c, NoArray, d, digits_alloc(c.n_signif))
              /\ i = c.n_signif - 1
    BY <1>6 DEF CallDivDigit
  <2> DEFINE c == digits_copy(a, n_shift, 0)
  <2> DEFINE r == digits_alloc(c.n_signif)
  <2>2. WellFormed(a) /\ ProperCells(a) /\ a.n_signif \in Nat /\ a.n_signif >= 1
    BY OperandFacts
  <2>3. WellFormed(c) /\ ProperCells(c) /\ c.n_signif \in Nat /\ c.n_signif = c.n_alloc
    <3>1. WellFormed(a) /\ ProperCells(a) /\ 0 \in Nat /\ n_shift \in Nat
          /\ c = digits_copy(a, n_shift, 0)
      BY <2>2
    <3> HIDE DEF c
    <3>2. WellFormed(c) /\ ProperCells(c)
      BY <3>1, CopyFacts
    <3>3. c.n_signif = a.n_signif + n_shift
      BY <3>1, CopyFacts
    <3>4. c.n_alloc = a.n_signif + n_shift + 0
      BY <3>1, CopyFacts
    <3>5. QED
      BY <2>2, <3>2, <3>3, <3>4
  <2>4. Call("div_digit", c, NoArray, d, r) /\ i = c.n_signif - 1
    BY <2>1
  <2> HIDE DEF c
  <2>5. WellFormed(r) /\ ProperCells(r) /\ r.n_alloc = c.n_signif
    BY <2>3, AllocFacts
  <2> HIDE DEF r
  <2>6. d \in 1 .. MAX_DIGIT
    BY <2>1, DigitsAssumption
  <2>7. DivDigitInv
    BY <2>3, <2>4, <2>5, <2>6 DEF DivDigitInv, Call
  <2>8. WellFormed(NoArray) /\ ProperCells(NoArray)
    BY AllocFacts DEF NoArray
  <2>9. i \in Int
    BY <2>3, <2>4
  <2>10. QED
    BY <2>3, <2>4, <2>5, <2>7, <2>8, <2>9, OneCall DEF Functions
<1>7. ASSUME CallRound PROVE IInv
  <2>1. PICK a \in Operands, sign \in {-1, 1}, mode \in RoundingModes, shift \in Int :
          /\ shift \in 1 .. a.n_signif * DEC_DIGITS_PER_DIGIT
          /\ Call("round", a, NoArray, [shift |-> shift, sign |-> sign, mode |-> mode], a)
          /\ i = 0
    <3>1. PICK a \in Operands, sign \in {-1, 1}, mode \in RoundingModes :
            \E shift \in 1 .. a.n_signif * DEC_DIGITS_PER_DIGIT :
              /\ Call("round", a, NoArray, [shift |-> shift, sign |-> sign, mode |-> mode], a)
              /\ i = 0
      BY <1>7 DEF CallRound
    <3>2. QED
      BY <3>1
  <2>2. /\ WellFormed(a) /\ ProperCells(a) /\ a.n_signif \in Nat /\ a.n_signif >= 1
        /\ a.n_alloc = a.n_signif
    BY OperandFacts
  <2>3. RoundInv
    BY <2>1, <2>2 DEF RoundInv, Call, ProperCells
  <2>4. WellFormed(NoArray) /\ ProperCells(NoArray)
    BY AllocFacts DEF NoArray
  <2>5. QED
    BY <2>1, <2>2, <2>3, <2>4, OneCall DEF Functions
<1>8. ASSUME CallCmp PROVE IInv
  <2>1. PICK a \in Operands, b \in Operands :
          Call("cmp", a, b, 0, a) /\ i = a.n_signif - 1
    BY <1>8 DEF CallCmp
  <2>2. /\ WellFormed(a) /\ ProperCells(a) /\ a.n_signif \in Nat
        /\ WellFormed(b) /\ ProperCells(b)
    BY OperandFacts
  <2>3. CmpInv /\ i \in Int
    BY <2>1, <2>2 DEF CmpInv, Call
  <2>4. QED
    BY <2>1, <2>2, <2>3, OneCall DEF Functions
<1>9. ASSUME CallEliminate PROVE IInv
  <2>1. PICK a \in Operands :
          Call("eliminate_trailing_zeros", a, NoArray, 0, a) /\ i = 0
    BY <1>9 DEF CallEliminate
  <2>2. /\ WellFormed(a) /\ ProperCells(a) /\ a.n_signif \in Nat
        /\ a.n_alloc = a.n_signif
    BY OperandFacts
  <2>3. EliminateInv
    BY <2>1, <2>2 DEF EliminateInv, Call
  <2>4. WellFormed(NoArray) /\ ProperCells(NoArray)
    BY AllocFacts DEF NoArray
  <2>5. QED
    BY <2>1, <2>2, <2>3, <2>4, OneCall DEF Functions
<1>10. QED
  BY <1>1, <1>2, <1>3, <1>4, <1>5, <1>6, <1>7, <1>8, <1>9 DEF Init

LEMMA NextInv == IInv /\ [Next]_vars => IInv'
<1>1. ASSUME IInv, UNCHANGED vars PROVE IInv'
  <2>1. /\ fn' = fn /\ x' = x /\ y' = y /\ arg' = arg /\ z' = z
        /\ i' = i /\ j' = j /\ carry' = carry /\ pc' = pc /\ ret' = ret
    BY <1>1 DEF vars
  <2>2. AddInv' /\ SubInv' /\ IncrementInv'
    BY <1>1, <2>1 DEF IInv, AddInv, SubInv, IncrementInv, ProperCells, SameFrom, ExceedsAt, DigitOf
  <2>3. MulDigitInv' /\ MulInv' /\ DivDigitInv'
    BY <1>1, <2>1 DEF IInv, MulDigitInv, MulInv, DivDigitInv, ProperCells, SameFrom
  <2>4. RoundInv' /\ CmpInv' /\ EliminateInv'
    BY <1>1, <2>1 DEF IInv, RoundInv, CmpInv, EliminateInv, ProperCells
  <2>5. TypeOK'
    BY <1>1, <2>1 DEF IInv, TypeOK, WellFormed
  <2>6. QED
    BY <1>1, <2>1, <2>2, <2>3, <2>4, <2>5 DEF IInv, ProperCells
<1>2. ASSUME IInv, Next PROVE IInv'
  <2>1. CASE Returned
    BY <1>1, <1>2, <2>1 DEF Returned
  <2>2. CASE ~ Returned
    BY <1>2, <2>2, AddPreserves, SubPreserves, IncrementPreserves, MulDigitPreserves,
       MulPreserves, DivDigitPreserves, RoundPreserves, CmpPreserves, EliminatePreserves
       DEF Next
  <2>3. QED
    BY <2>1, <2>2
<1>3. QED
  BY <1>1, <1>2

-----------------------------------------------------------------------------
(* IInv holds in every state a call can be in. *)
THEOREM Invariance == Spec => []IInv
BY InitInv, NextInv, PTL DEF Spec

(* The variables always have the types of the C variables. *)
THEOREM TypeCorrect == Spec => []TypeOK
<1>1. IInv => TypeOK
  BY DEF IInv
<1>2. QED
  BY <1>1, Invariance, PTL

(***************************************************************************)
(* The loops of digit_array.c never leave their arrays, those that have no *)
(* bound included.                                                         *)
(***************************************************************************)
THEOREM NoOverrun == Spec => []InBounds
<1>1. IInv => InBounds
  <2> SUFFICES ASSUME IInv PROVE InBounds
    OBVIOUS
  <2>1. WellFormed(x) /\ WellFormed(y) /\ WellFormed(z) /\ j \in Nat
    BY DEF IInv, TypeOK
  <2>2. /\ x.n_alloc \in Nat /\ x.n_signif \in 0 .. x.n_alloc
        /\ y.n_alloc \in Nat /\ y.n_signif \in 0 .. y.n_alloc
        /\ z.n_alloc \in Nat /\ z.n_signif \in 0 .. z.n_alloc
    BY <2>1 DEF WellFormed
  <2>3. /\ pc = "carry" /\ fn \in {"iadd_digits", "isub_digits", "round"} =>
             i \in 0 .. z.n_alloc - 1
        /\ pc = "loop" /\ fn \in {"iadd_digits", "isub_digits"} /\ i < y.n_signif =>
             i \in 0 .. z.n_alloc - 1
    BY <2>1, <2>2 DEF IInv, TypeOK, AddInv, SubInv, RoundInv, MAX
  <2>4. pc = "loop" /\ fn = "imul_digit" /\ carry > 0 => i < z.n_alloc
    BY <2>2 DEF IInv, MulDigitInv
  <2>5. pc = "loop" /\ fn = "mul" /\ j < y.n_signif =>
          i + j < z.n_alloc /\ j + x.n_signif < z.n_alloc
    BY <2>2 DEF IInv, MulInv
  <2>6. pc = "carry" /\ fn = "eliminate_trailing_zeros" /\ j < z.n_signif => i + j < z.n_alloc
    BY <2>1, <2>2 DEF IInv, TypeOK, EliminateInv
  <2>7. QED
    BY <2>3, <2>4, <2>5, <2>6 DEF InBounds
<1>2. QED
  BY <1>1, Invariance, PTL

(* What is carried from digit to digit fits one digit position. *)
THEOREM CarryCorrect == Spec => []CarryIsBit
<1>1. IInv => CarryIsBit
  BY Constants DEF IInv, AddInv, SubInv, MulDigitInv, DivDigitInv, CarryIsBit
<1>2. QED
  BY <1>1, Invariance, PTL

(* Whatever the words wrapped to, a function returns proper digits. *)
THEOREM ProperResult == Spec => []ResultIsProper
<1>1. IInv => ResultIsProper
  <2> SUFFICES ASSUME IInv, pc = "done", NEW k \in 0 .. z.n_signif - 1
               PROVE  z.digits[k] < RADIX
    BY DEF ResultIsProper, Proper
  <2>1. z.n_alloc \in Nat /\ z.n_signif \in 0 .. z.n_alloc /\ fn \in Functions
    BY DEF IInv, TypeOK, WellFormed
  <2>2. k \in 0 .. z.n_alloc - 1
    BY <2>1
  <2>3. ProperCells(z) \/ fn = "round"
    BY <2>1 DEF IInv, AddInv, SubInv, IncrementInv, MulDigitInv, MulInv, DivDigitInv,
                CmpInv, EliminateInv, Functions
  <2>4. CASE ProperCells(z)
    BY <2>2, <2>4 DEF ProperCells
  <2>5. CASE fn = "round"
    BY <2>2, <2>5 DEF IInv, RoundInv
  <2>6. QED
    BY <2>3, <2>4, <2>5
<1>2. QED
  BY <1>1, Invariance, PTL

-----------------------------------------------------------------------------
(***************************************************************************)
(* The loops of digit_array.c compute the arithmetic they are there for:   *)
(* for every radix and word size, every length and every operand, each     *)
(* function returns the number and the count DigitArithmetic promises.     *)
(***************************************************************************)

(* The digits of a well-formed array are numbers, those of a proper one    *)
(* are digits of the radix.                                                *)
LEMMA Cells ==
  ASSUME NEW a, WellFormed(a)
  PROVE  /\ a.n_alloc \in Nat /\ a.n_signif \in Nat /\ a.n_signif =< a.n_alloc
         /\ \A n \in 0 .. a.n_alloc : n \in Nat /\ Integral(a.digits, n)
         /\ ProperCells(a) => \A n \in 0 .. a.n_alloc : Digital(a.digits, n)
<1>1. a.n_alloc \in Nat /\ a.n_signif \in Nat /\ a.n_signif =< a.n_alloc
  BY DEF WellFormed
<1>2. \A n \in 0 .. a.n_alloc : n \in Nat /\ Integral(a.digits, n)
  BY <1>1, Constants DEF WellFormed, Word, Integral
<1>3. ASSUME ProperCells(a) PROVE \A n \in 0 .. a.n_alloc : Digital(a.digits, n)
  <2>1. \A k \in 0 .. a.n_alloc - 1 : a.digits[k] \in 0 .. RADIX - 1
    BY <1>3, DigitRange
  <2>2. QED
    BY <1>1, <2>1 DEF Digital
<1>4. QED
  BY <1>1, <1>2, <1>3

LEMMA LowZero == \A a : Low(a, 0) = 0
BY ValueZero DEF Low

LEMMA LowNext ==
  ASSUME NEW a, WellFormed(a), NEW k \in 0 .. a.n_alloc - 1
  PROVE  /\ Low(a, k) \in Int /\ Low(a, k + 1) \in Int
         /\ a.digits[k] \in Int /\ Weight(k) \in Nat \ {0}
         /\ Weight(k + 1) = RADIX * Weight(k)
         /\ Low(a, k + 1) = Low(a, k) + a.digits[k] * Weight(k)
<1>1. a.n_alloc \in Nat
  BY Cells
<1>2. k \in Nat /\ k + 1 \in Nat /\ k \in 0 .. a.n_alloc /\ k + 1 \in 0 .. a.n_alloc
  BY <1>1
<1>3. Integral(a.digits, k) /\ Integral(a.digits, k + 1)
  BY <1>2, Cells
<1>4. a.digits[k] \in Int
  BY <1>2, <1>3 DEF Integral
<1>5. ValueOf(a.digits, k) \in Int /\ ValueOf(a.digits, k + 1) \in Int
      /\ ValueOf(a.digits, k + 1) = ValueOf(a.digits, k) + a.digits[k] * Weight(k)
  BY <1>2, <1>3, ValueType, ValueNext
<1>6. QED
  BY <1>2, <1>4, <1>5, WeightFacts DEF Low

LEMMA LowRange ==
  ASSUME NEW a, WellFormed(a), ProperCells(a), NEW k \in 0 .. a.n_alloc
  PROVE  Low(a, k) \in Nat /\ Low(a, k) < Weight(k) /\ Weight(k) \in Nat \ {0}
<1>1. k \in Nat /\ Digital(a.digits, k)
  BY Cells
<1>2. QED
  BY <1>1, ValueRange, WeightFacts DEF Low

LEMMA LowType ==
  ASSUME NEW a, WellFormed(a), NEW k \in 0 .. a.n_alloc
  PROVE  Low(a, k) \in Int
<1>1. k \in Nat /\ Integral(a.digits, k)
  BY Cells
<1>2. QED
  BY <1>1, ValueType DEF Low

LEMMA LowSame ==
  ASSUME NEW a, WellFormed(a), NEW b, NEW k \in 0 .. a.n_alloc,
         \A m \in 0 .. k - 1 : b.digits[m] = a.digits[m]
  PROVE  Low(b, k) = Low(a, k)
<1>1. k \in Nat /\ Integral(a.digits, k)
  BY Cells
<1>2. \A m \in 0 .. k - 1 : a.digits[m] = b.digits[m]
  OBVIOUS
<1>3. ValueOf(a.digits, k) = ValueOf(b.digits, k)
  BY <1>1, <1>2, ValueSame
<1>4. QED
  BY <1>3 DEF Low

LEMMA LowHigh ==
  ASSUME NEW a, WellFormed(a), NEW b, WellFormed(b), b.n_alloc = a.n_alloc,
         NEW m \in 0 .. a.n_alloc, NEW n \in 0 .. a.n_alloc, m =< n,
         \A k \in m .. n - 1 : b.digits[k] = a.digits[k]
  PROVE  Low(b, n) - Low(b, m) = Low(a, n) - Low(a, m)
<1>1. m \in Nat /\ n \in Nat /\ Integral(a.digits, n)
  BY Cells
<1>2. Integral(b.digits, n)
  BY Cells
<1>3. ValueOf(b.digits, n) - ValueOf(b.digits, m) = ValueOf(a.digits, n) - ValueOf(a.digits, m)
  BY <1>1, <1>2, ValueHigh
<1>4. QED
  BY <1>3 DEF Low

LEMMA LowZeros ==
  ASSUME NEW a, WellFormed(a),
         NEW m \in 0 .. a.n_alloc, NEW n \in 0 .. a.n_alloc, m =< n,
         \A k \in m .. n - 1 : a.digits[k] = 0
  PROVE  Low(a, n) = Low(a, m)
<1>1. m \in Nat /\ n \in Nat /\ Integral(a.digits, n)
  BY Cells
<1>2. QED
  BY <1>1, ValueZeros DEF Low

(* What a digit written changes. *)
LEMMA SetLow ==
  ASSUME NEW a, WellFormed(a), NEW k \in 0 .. a.n_alloc - 1, NEW d \in Word
  PROVE  /\ \A m \in 0 .. k : Low(SetDigit(a, k, d), m) = Low(a, m)
         /\ Low(SetDigit(a, k, d), k + 1) = Low(a, k) + d * Weight(k)
         /\ \A m \in k + 1 .. a.n_alloc :
              Low(SetDigit(a, k, d), m) = Low(a, m) + (d - a.digits[k]) * Weight(k)
<1> DEFINE b == SetDigit(a, k, d)
<1>1. /\ WellFormed(b) /\ b.n_alloc = a.n_alloc /\ b.digits[k] = d
      /\ \A m \in 0 .. a.n_alloc - 1 : m # k => b.digits[m] = a.digits[m]
  BY SetDigitFacts
<1> HIDE DEF b
<1>2. a.n_alloc \in Nat /\ k \in Nat /\ k + 1 \in 0 .. a.n_alloc
  BY Cells
<1>3. ASSUME NEW m \in 0 .. k PROVE Low(b, m) = Low(a, m)
  <2>1. m \in 0 .. a.n_alloc /\ \A l \in 0 .. m - 1 : b.digits[l] = a.digits[l]
    BY <1>1, <1>2
  <2>2. QED
    BY <2>1, LowSame
<1>4. k \in 0 .. k /\ k \in 0 .. b.n_alloc - 1
  BY <1>1, <1>2
<1>5. Low(b, k) = Low(a, k)
  BY <1>3, <1>4
<1>6. Low(b, k + 1) = Low(b, k) + b.digits[k] * Weight(k)
  BY <1>1, <1>4, LowNext
<1>7. Low(b, k + 1) = Low(a, k) + d * Weight(k)
  BY <1>1, <1>5, <1>6
<1>8. ASSUME NEW m \in k + 1 .. a.n_alloc
      PROVE  Low(b, m) = Low(a, m) + (d - a.digits[k]) * Weight(k)
  <2>1. /\ m \in 0 .. a.n_alloc /\ k + 1 \in 0 .. a.n_alloc /\ k + 1 =< m
        /\ \A l \in k + 1 .. m - 1 : b.digits[l] = a.digits[l]
    BY <1>1, <1>2
  <2>2. Low(b, m) - Low(b, k + 1) = Low(a, m) - Low(a, k + 1)
    BY <1>1, <2>1, LowHigh
  <2>3. /\ Low(a, k) \in Int /\ a.digits[k] \in Int /\ Weight(k) \in Nat
        /\ Low(a, k + 1) = Low(a, k) + a.digits[k] * Weight(k)
    BY LowNext
  <2>4. Low(a, m) \in Int /\ Low(b, m) \in Int
    BY <1>1, <2>1, LowType
  <2>5. d \in Int
    BY Constants DEF Word
  <2>6. ASSUME NEW u \in Int, NEW v \in Int, NEW l \in Int, NEW e \in Int, NEW w \in Nat,
               u - (l + d * w) = v - (l + e * w)
        PROVE  u = v + (d - e) * w
    <3>1. (d - e) * w = d * w - e * w /\ d * w \in Int /\ e * w \in Int
      BY <2>5
    <3>2. QED
      BY <2>6, <3>1
  <2>7. QED
    BY <1>7, <2>2, <2>3, <2>4, <2>6
<1>9. QED
  BY <1>3, <1>7, <1>8 DEF b

-----------------------------------------------------------------------------
(* Only the values of the function called change, and its result appears.  *)
LEMMA OneValue ==
  ASSUME UNCHANGED operands, IInv',
         fn = "iadd_digits" => AddValues',
         fn = "isub_digits" => SubValues',
         fn = "iadd_digit" => IncrementValues',
         fn = "imul_digit" => MulDigitValues',
         fn = "mul" => MulValues',
         fn = "div_digit" => DivDigitValues',
         fn = "round" => RoundValues',
         fn = "cmp" => CmpValues',
         fn = "eliminate_trailing_zeros" => EliminateValues',
         ResultAsPromised'
  PROVE  VInv'
<1>1. fn' = fn
  BY DEF operands
<1>2. AddValues' /\ SubValues' /\ IncrementValues'
  BY <1>1 DEF AddValues, SubValues, IncrementValues
<1>3. MulDigitValues' /\ MulValues' /\ DivDigitValues'
  BY <1>1 DEF MulDigitValues, MulValues, DivDigitValues
<1>4. RoundValues' /\ CmpValues' /\ EliminateValues'
  BY <1>1 DEF RoundValues, CmpValues, EliminateValues
<1>5. QED
  BY <1>2, <1>3, <1>4 DEF VInv

-----------------------------------------------------------------------------
(***************************************************************************)
(* The operators of the abstract module are those of this one.             *)
(***************************************************************************)
LEMMA PromisedValue == \A d, n : Promise!ValueOf(d, n) = ValueOf(d, n)
BY Zenon DEF ValueOf, Weight, Power, Promise!ValueOf, Promise!Weight, Promise!Power

LEMMA PromisedWeight == \A k : Promise!Weight(k) = Weight(k)
BY Zenon DEF Weight, Power, Promise!Weight, Promise!Power

LEMMA PromisedDigitAt == \A v, k : Promise!DigitAt(v, k) = DigitAt(v, k)
BY PromisedWeight DEF DigitAt, Promise!DigitAt

LEMMA PromisedSum ==
  \A v, k, w, l :
    /\ Promise!SumCount(v, k, w, l) = SumCount(v, k, w, l)
    /\ Promise!Sum(v, k, w, l) = Sum(v, k, w, l)
<1>1. \A k, l : Promise!MAX(k, l) = MAX(k, l)
  BY DEF MAX, Promise!MAX
<1>2. \A v, k, w, l : Promise!SumCount(v, k, w, l) = SumCount(v, k, w, l)
  BY <1>1, PromisedWeight, PromisedDigitAt DEF SumCount, Promise!SumCount
<1>3. \A v, k, w, l : Promise!Sum(v, k, w, l) = Sum(v, k, w, l)
  BY <1>1, <1>2, PromisedWeight DEF Sum, Promise!Sum
<1>4. QED
  BY <1>2, <1>3

LEMMA PromisedCounts ==
  \A v, k, w :
    /\ Promise!DifferenceCount(v, k, w) = DifferenceCount(v, k, w)
    /\ Promise!ProductCount(v, k, w) = ProductCount(v, k, w)
BY PromisedWeight DEF DifferenceCount, ProductCount, Promise!DifferenceCount, Promise!ProductCount

LEMMA PromisedRounding ==
  \A v, n, sign, s, mode :
    /\ Promise!RoundedDigits(v, sign, s, mode) = RoundedDigits(v, sign, s, mode)
    /\ Promise!RoundCarry(v, n, sign, s, mode) = RoundCarry(v, n, sign, s, mode)
<1>1. \A b, n : Promise!Power(b, n) = Power(b, n)
  BY Zenon DEF Power, Promise!Power
<1>2. \A n : Promise!u64_10_pow_n(n) = u64_10_pow_n(n)
  BY <1>1 DEF u64_10_pow_n, Promise!u64_10_pow_n
<1>3. \A sign, v, q, mode : Promise!Rounded(sign, v, q, mode) = Rounded(sign, v, q, mode)
  <2>1. ASSUME NEW sign, NEW v, NEW q, NEW mode
        PROVE  Promise!AwayFromZero(sign, v, q, mode) <=> AwayFromZero(sign, v, q, mode)
    BY Zenon DEF AwayFromZero, Promise!AwayFromZero
  <2>2. QED
    BY <2>1 DEF Rounded, Promise!Rounded
<1>4. \A v, sign, s, mode :
        Promise!RoundedDigits(v, sign, s, mode) = RoundedDigits(v, sign, s, mode)
  BY <1>2, <1>3 DEF RoundedDigits, Promise!RoundedDigits
<1>5. QED
  BY <1>4, PromisedWeight DEF RoundCarry, Promise!RoundCarry

LEMMA PromisedComparison ==
  \A v, k, w, l : Promise!CmpAligned(v, k, w, l) = CmpAligned(v, k, w, l)
<1>1. \A k, l : Promise!MIN(k, l) = MIN(k, l) /\ Promise!CMP(k, l) = CMP(k, l)
  BY DEF CMP, MIN, Promise!CMP, Promise!MIN
<1>2. QED
  BY <1>1, PromisedWeight DEF CmpAligned, Promise!CmpAligned

LEMMA PromisedZeros ==
  \A v, n : Promise!TrailingZeroDigits(v, n) = TrailingZeroDigits(v, n)
BY PromisedDigitAt, Zenon DEF TrailingZeroDigits, Promise!TrailingZeroDigits

-----------------------------------------------------------------------------
(* digits_iadd_digits: what is returned is the sum. *)
LEMMA AddResult ==
  ASSUME NEW a, WellFormed(a), ProperCells(a),
         WellFormed(x), ProperCells(x), WellFormed(y), ProperCells(y),
         x.n_alloc = MAX(x.n_signif, y.n_signif) + 1, a.n_alloc = x.n_alloc,
         Low(a, a.n_alloc) = Value(x) + Value(y),
         a.n_signif = IF a.digits[x.n_signif] # 0 /\ Value(x) + Value(y) >= Weight(MAX(x.n_signif, y.n_signif))
                      THEN MAX(x.n_signif, y.n_signif) + 1
                      ELSE MAX(x.n_signif, y.n_signif)
  PROVE  Promise!Added(a, 0)
<1> DEFINE n == MAX(x.n_signif, y.n_signif)
<1> DEFINE s == Value(x) + Value(y)
<1> DEFINE total == Sum(Value(x), x.n_signif, Value(y), y.n_signif)
<1> DEFINE count == SumCount(Value(x), x.n_signif, Value(y), y.n_signif)
<1>0. a.n_signif = n \/ a.n_signif = n + 1
  OBVIOUS
<1>1. /\ n \in Nat /\ x.n_signif \in Nat /\ x.n_signif =< n
      /\ a.n_alloc = n + 1 /\ n \in 0 .. a.n_alloc - 1 /\ x.n_signif < n + 1
      /\ n \in 0 .. a.n_alloc /\ n + 1 \in 0 .. a.n_alloc
  BY Cells DEF MAX
<1>2. s = Low(a, n + 1)
  BY <1>1
<1> HIDE DEF n, s
<1>3. DigitAt(s, x.n_signif) = a.digits[x.n_signif]
  <2>1. Digital(a.digits, n + 1) /\ n + 1 \in Nat
    BY <1>1, Cells
  <2>2. DigitAt(ValueOf(a.digits, n + 1), x.n_signif) = a.digits[x.n_signif]
    BY <1>1, <2>1, DigitAtDigit
  <2>3. QED
    BY <1>2, <2>2 DEF Low
<1>4. a.n_signif = count
  BY <1>3 DEF SumCount, n, s
<1>5. /\ Low(a, n + 1) = Low(a, n) + a.digits[n] * Weight(n)
      /\ Low(a, n) \in Nat /\ Low(a, n) < Weight(n) /\ Weight(n) \in Nat \ {0}
      /\ a.digits[n] \in 0 .. RADIX - 1
  BY <1>1, LowNext, LowRange, DigitRange
<1>9. /\ Value(x) < Weight(n) /\ Value(y) < Weight(n)
      /\ Value(x) \in Nat /\ Value(y) \in Nat
  <2>1. /\ x.n_signif \in 0 .. x.n_alloc /\ y.n_signif \in 0 .. y.n_alloc
        /\ x.n_signif \in Nat /\ y.n_signif \in Nat
        /\ x.n_signif =< n /\ y.n_signif =< n /\ n \in Nat
    BY <1>1, Cells DEF MAX, n
  <2>2. /\ Value(x) \in Nat /\ Value(x) < Weight(x.n_signif)
        /\ Value(y) \in Nat /\ Value(y) < Weight(y.n_signif)
    BY <2>1, LowRange DEF Value, Low
  <2>3. Weight(x.n_signif) =< Weight(n) /\ Weight(y.n_signif) =< Weight(n)
    BY <2>1, WeightSplit
  <2>4. Weight(x.n_signif) \in Nat /\ Weight(y.n_signif) \in Nat /\ Weight(n) \in Nat
    BY <2>1, WeightFacts
  <2>5. QED
    BY <2>2, <2>3, <2>4
<1>6. ASSUME a.n_signif = n + 1 PROVE Value(a) = total
  <2>1. Value(a) = s
    BY <1>2, <1>6 DEF Value, Low
  <2>2. n + 1 # n
    BY <1>1
  <2>3. QED
    BY <1>4, <1>6, <2>1, <2>2 DEF Sum, s, n
<1>7. ASSUME a.n_signif = n PROVE Value(a) = total
  <2>1. Value(a) = Low(a, n)
    BY <1>7 DEF Value, Low
  <2>2. CASE s < Weight(n)
    <3>1. a.digits[n] = 0
      <4>1. SUFFICES ASSUME a.digits[n] >= 1 PROVE FALSE
        BY <1>5, Constants
      <4>2. a.digits[n] * Weight(n) >= Weight(n)
        BY <1>5, <4>1, Constants
      <4>3. QED
        BY <1>2, <1>5, <2>2, <4>2, Constants
    <3>2. Low(a, n) = s
      BY <1>2, <1>5, <3>1
    <3>3. total = s
      BY <1>2, <1>5, <2>2 DEF Sum, s, n
    <3>4. QED
      BY <2>1, <3>2, <3>3
  <2>3. CASE s >= Weight(n)
    <3>1. a.digits[n] = 1
      <4>1. Value(x) < Weight(n) /\ Value(y) < Weight(n) /\ Value(x) \in Nat /\ Value(y) \in Nat
        BY <1>9
      <4>2. CASE a.digits[n] = 0
        BY <1>2, <1>5, <2>3, <4>2
      <4>3. CASE a.digits[n] >= 2
        <5>1. a.digits[n] * Weight(n) >= 2 * Weight(n)
          BY <1>5, <4>3, Constants
        <5>2. a.digits[n] * Weight(n) \in Int
          BY <1>5, Constants
        <5>3. s < 2 * Weight(n) /\ s \in Int
          BY <1>5, <4>1 DEF s
        <5>4. QED
          BY <1>2, <1>5, <5>1, <5>2, <5>3
      <4>4. QED
        BY <1>5, <4>2, <4>3, Constants
    <3>2. Low(a, n) = s - Weight(n)
      BY <1>2, <1>5, <3>1
    <3>3. total = s - Weight(n)
      BY <1>4, <1>7, <2>3 DEF Sum, s, n
    <3>4. QED
      BY <2>1, <3>2, <3>3
  <2>4. s \in Int
    BY <1>9 DEF s
  <2>5. QED
    BY <1>5, <2>2, <2>3, <2>4
<1>8. Value(a) = total
  BY <1>0, <1>6, <1>7 DEF n
<1> HIDE DEF total, count
<1>10. Promise!Value(a) = total /\ a.n_signif = count
  BY <1>4, <1>8, PromisedValue DEF Promise!Value, Value
<1>11. /\ total = Promise!Sum(Promise!Value(x), x.n_signif, Promise!Value(y), y.n_signif)
       /\ count = Promise!SumCount(Promise!Value(x), x.n_signif, Promise!Value(y), y.n_signif)
  BY PromisedSum, PromisedValue DEF Promise!Value, Value, total, count
<1>12. QED
  BY <1>10, <1>11 DEF Promise!Added, Promise!Holds

LEMMA AddReturns ==
  ASSUME fn = "iadd_digits", UNCHANGED operands, Promise!Added(z', 0), ret' = 0
  PROVE  ResultAsPromised'
<1>1. fn' = "iadd_digits" /\ x' = x /\ y' = y
  BY DEF operands
<1>2. Promise!Added(z, ret)'
  BY <1>1 DEF Promise!Added, Promise!Value
<1>3. QED
  BY <1>1, <1>2 DEF ResultAsPromised, Promise!Result

LEMMA AddComputes ==
  ASSUME VInv, IInv', AddDigit \/ AddEnd \/ AddRipple \/ AddSettle
  PROVE  VInv'
<1> DEFINE n == MAX(x.n_signif, y.n_signif)
<1>1. /\ fn = "iadd_digits"
      /\ WellFormed(x) /\ WellFormed(y) /\ WellFormed(z)
      /\ ProperCells(x) /\ ProperCells(y) /\ ProperCells(z)
      /\ carry \in 0 .. 1
      /\ x.n_alloc = z.n_alloc
      /\ \A k \in x.n_signif .. x.n_alloc - 1 : x.digits[k] = 0
      /\ pc # "done"
      /\ z.n_signif = n
      /\ SameFrom(z, x, i)
      /\ pc = "loop" => i \in 0 .. y.n_signif
      /\ pc = "carry" => i \in y.n_signif .. n
  BY DEF VInv, IInv, TypeOK, AddInv, AddDigit, AddEnd, AddRipple, AddSettle
<1>2. /\ ret = 0
      /\ x.n_alloc = n + 1
      /\ pc = "loop" => Low(z, i) + carry * Weight(i) = Low(x, i) + Low(y, i)
      /\ pc = "carry" => Low(z, i) + Weight(i) = Low(x, i) + Value(y)
  BY <1>1 DEF VInv, AddValues
<1>3. /\ n \in Nat /\ x.n_signif \in Nat /\ y.n_signif \in Nat
      /\ x.n_signif =< n /\ y.n_signif =< n /\ y.n_signif =< y.n_alloc /\ y.n_alloc \in Nat
      /\ x.n_alloc = n + 1 /\ z.n_alloc = n + 1
      /\ \A k \in 0 .. z.n_alloc - 1 : z.digits[k] \in 0 .. RADIX - 1
      /\ \A k \in 0 .. y.n_alloc - 1 : y.digits[k] \in 0 .. RADIX - 1
  <2>1. /\ x.n_signif \in Nat /\ y.n_signif \in Nat
        /\ y.n_signif =< y.n_alloc /\ y.n_alloc \in Nat
    BY <1>1, Cells
  <2>2. n \in Nat /\ x.n_signif =< n /\ y.n_signif =< n
    BY <2>1 DEF MAX
  <2>3. x.n_alloc = n + 1 /\ z.n_alloc = n + 1
    BY <1>1, <1>2
  <2>4. /\ \A k \in 0 .. z.n_alloc - 1 : z.digits[k] \in 0 .. RADIX - 1
        /\ \A k \in 0 .. y.n_alloc - 1 : y.digits[k] \in 0 .. RADIX - 1
    BY <1>1, DigitRange
  <2>5. QED
    BY <2>1, <2>2, <2>3, <2>4
<1> HIDE DEF n
<1>4. WellFormed(z') /\ ProperCells(z') /\ UNCHANGED operands /\ ret' = ret /\ x' = x /\ y' = y
  <2>1. UNCHANGED operands /\ ret' = ret
    BY DEF AddDigit, AddEnd, AddRipple, AddSettle
  <2>2. fn' = "iadd_digits" /\ x' = x /\ y' = y
    BY <1>1, <2>1 DEF operands
  <2>3. QED
    BY <2>1, <2>2 DEF IInv, TypeOK, AddInv
(* Above digit i the sum is x, and all of x is below n. *)
<1>5. ASSUME NEW k \in 0 .. n, y.n_signif =< k
      PROVE  /\ Low(x, n + 1) - Low(x, k) = Low(z, n + 1) - Low(z, k) \/ ~ (i =< k)
             /\ Low(x, n + 1) = Value(x)
  <2>1. Low(x, n + 1) = Low(x, x.n_signif)
    <3>1. x.n_signif \in 0 .. x.n_alloc /\ n + 1 \in 0 .. x.n_alloc /\ x.n_signif =< n + 1
      BY <1>3
    <3>2. \A l \in x.n_signif .. (n + 1) - 1 : x.digits[l] = 0
      BY <1>1, <1>3
    <3>3. QED
      BY <1>1, <3>1, <3>2, LowZeros
  <2>2. ASSUME i =< k PROVE Low(x, n + 1) - Low(x, k) = Low(z, n + 1) - Low(z, k)
    <3>1. k \in 0 .. x.n_alloc /\ n + 1 \in 0 .. x.n_alloc /\ k =< n + 1
      BY <1>3
    <3>2. \A l \in k .. (n + 1) - 1 : x.digits[l] = z.digits[l]
      <4>1. i \in Int
        BY DEF VInv, IInv, TypeOK
      <4>2. QED
        BY <1>1, <1>3, <2>2, <4>1 DEF SameFrom
    <3>3. QED
      BY <1>1, <3>1, <3>2, LowHigh
  <2>3. QED
    BY <2>1, <2>2 DEF Value, Low
<1>6. CASE AddDigit
  <2> DEFINE sum == (z.digits[i] + y.digits[i] + carry) % U64
  <2> DEFINE c == IF sum < y.digits[i] \/ sum >= RADIX THEN 1 ELSE 0
  <2> DEFINE d == (sum - c * RADIX) % U64
  <2>1. /\ i < y.n_signif /\ pc = "loop" /\ pc' = "loop"
        /\ z' = SetDigit(z, i, d) /\ carry' = c /\ i' = i + 1
    BY <1>6 DEF AddDigit
  <2>2. i \in 0 .. z.n_alloc - 1 /\ i \in 0 .. y.n_alloc - 1 /\ i \in 0 .. x.n_alloc - 1
    BY <1>1, <1>3, <2>1
  <2>3. z.digits[i] \in 0 .. RADIX - 1 /\ y.digits[i] \in 0 .. RADIX - 1
        /\ z.digits[i] = x.digits[i]
    BY <1>1, <1>3, <2>2 DEF SameFrom
  <2>4. d \in 0 .. RADIX - 1 /\ d + c * RADIX = z.digits[i] + y.digits[i] + carry
    BY <1>1, <2>3, DigitSum
  <2>5. c \in Int
    OBVIOUS
  <2> HIDE DEF d, c
  <2>6. d \in Word
    BY <2>4, Constants DEF Word
  <2>7. Low(z', i + 1) = Low(z, i) + d * Weight(i)
    BY <1>1, <2>1, <2>2, <2>6, SetLow
  <2>8. /\ Low(x, i + 1) = Low(x, i) + x.digits[i] * Weight(i)
        /\ Low(x, i) \in Int /\ Weight(i) \in Int
        /\ Weight(i + 1) = RADIX * Weight(i)
    BY <1>1, <2>2, LowNext
  <2>9. Low(y, i + 1) = Low(y, i) + y.digits[i] * Weight(i) /\ Low(y, i) \in Int
    BY <1>1, <2>2, LowNext
  <2>10. Low(z, i) \in Int
    BY <1>1, <2>2, LowNext
  <2>11. Low(z, i) + carry * Weight(i) = Low(x, i) + Low(y, i)
    BY <1>2, <2>1
  <2>12. d \in Int /\ z.digits[i] \in Int /\ y.digits[i] \in Int /\ carry \in Int
    BY <1>1, <2>3, <2>4, Constants
  <2>13. (Low(z, i) + d * Weight(i)) + c * (RADIX * Weight(i)) =
           (Low(x, i) + z.digits[i] * Weight(i)) + (Low(y, i) + y.digits[i] * Weight(i))
    <3> DEFINE w == Weight(i)
    <3> DEFINE l == Low(z, i)
    <3> DEFINE u == Low(x, i)
    <3> DEFINE v == Low(y, i)
    <3> DEFINE a == z.digits[i]
    <3> DEFINE b == y.digits[i]
    <3>1. w \in Int /\ l \in Int /\ u \in Int /\ v \in Int /\ a \in Int /\ b \in Int
      BY <2>8, <2>9, <2>10, <2>12
    <3>2. d + c * RADIX = a + b + carry /\ l + carry * w = u + v
      BY <2>4, <2>11
    <3> HIDE DEF w, l, u, v, a, b
    <3>3. (l + d * w) + c * (RADIX * w) = (u + a * w) + (v + b * w)
      <4>1. (d + c * RADIX) * w = d * w + c * (RADIX * w)
        BY <2>5, <2>12, <3>1, Constants
      <4>2. (a + b + carry) * w = a * w + b * w + carry * w
        BY <2>12, <3>1
      <4>3. /\ d * w \in Int /\ a * w \in Int /\ b * w \in Int /\ carry * w \in Int
            /\ c * (RADIX * w) \in Int
        BY <2>5, <2>12, <3>1, Constants
      <4>4. d * w + c * (RADIX * w) = a * w + b * w + carry * w
        BY <3>2, <4>1, <4>2
      <4>5. QED
        BY <3>1, <3>2, <4>3, <4>4
    <3>4. QED
      BY <3>3 DEF w, l, u, v, a, b
  <2>14. Low(z', i') + carry' * Weight(i') = Low(x, i') + Low(y, i')
    BY <2>1, <2>3, <2>7, <2>8, <2>9, <2>13
  <2>15. AddValues'
    BY <1>2, <1>4, <2>1, <2>14 DEF AddValues, n
  <2>16. QED
    BY <1>1, <1>4, <2>1, <2>15, OneValue DEF ResultAsPromised
<1>7. CASE AddEnd
  <2>1. /\ i = y.n_signif /\ pc = "loop" /\ z' = z /\ i' = i /\ carry' = carry
        /\ pc' = IF carry = 0 THEN "done" ELSE "carry"
    BY <1>7 DEF AddEnd
  <2>2. Low(y, i) = Value(y)
    BY <2>1 DEF Value, Low
  <2>3. i \in 0 .. n /\ i \in Nat /\ i \in 0 .. z.n_alloc /\ i \in 0 .. y.n_alloc /\ i \in 0 .. x.n_alloc
    BY <1>3, <2>1
  <2>4. Low(z, i) \in Int /\ Weight(i) \in Int /\ Low(x, i) \in Int /\ Low(y, i) \in Int
    BY <1>1, <2>3, LowType, WeightFacts
  <2>5. CASE carry = 0
    <3>1. Low(z, i) = Low(x, i) + Value(y)
      BY <1>2, <2>1, <2>2, <2>4, <2>5
    <3>2. Low(x, n + 1) - Low(x, i) = Low(z, n + 1) - Low(z, i) /\ Low(x, n + 1) = Value(x)
      BY <1>5, <2>1, <2>3
    <3>3. Low(x, n + 1) \in Int /\ Low(z, n + 1) \in Int
      <4>1. n + 1 \in 0 .. x.n_alloc /\ n + 1 \in 0 .. z.n_alloc
        BY <1>3
      <4>2. QED
        BY <1>1, <4>1, LowType
    <3>4. Low(z, z.n_alloc) = Value(x) + Value(y)
      BY <1>3, <2>2, <2>4, <3>1, <3>2, <3>3
    <3>5. Promise!Added(z', 0)
      <4>1. n \in 0 .. z.n_alloc - 1 /\ n \in 0 .. z.n_alloc /\ n \in x.n_signif .. x.n_alloc - 1
        BY <1>3
      <4>2. z.digits[n] = 0
        BY <1>1, <2>3, <4>1 DEF SameFrom
      <4>3. Low(z, n + 1) = Low(z, n) + z.digits[n] * Weight(n) /\ Low(z, n) < Weight(n)
            /\ Weight(n) \in Nat /\ Low(z, n) \in Nat
        BY <1>1, <4>1, LowNext, LowRange
      <4>4. ~ (Value(x) + Value(y) >= Weight(n))
        BY <1>3, <3>4, <4>2, <4>3
      <4>5. z.n_signif = IF z.digits[x.n_signif] # 0 /\ Value(x) + Value(y) >= Weight(n)
                         THEN n + 1 ELSE n
        BY <1>1, <4>4
      <4>6. QED
        BY <1>1, <1>3, <2>1, <3>4, <4>5, AddResult DEF n
    <3>6. AddValues'
      BY <1>2, <1>4, <2>1, <2>5 DEF AddValues, n
    <3>7. QED
      BY <1>1, <1>2, <1>4, <3>5, <3>6, AddReturns, OneValue
  <2>6. CASE carry # 0
    <3>1. carry = 1 /\ pc' = "carry"
      BY <1>1, <2>1, <2>6
    <3>2. Low(z, i) + Weight(i) = Low(x, i) + Value(y)
      BY <1>2, <2>1, <2>2, <2>4, <3>1
    <3>3. AddValues'
      BY <1>2, <1>4, <2>1, <3>1, <3>2 DEF AddValues, n
    <3>4. QED
      BY <1>1, <1>4, <3>1, <3>3, OneValue DEF ResultAsPromised
  <2>7. QED
    BY <2>5, <2>6
<1>8. CASE AddRipple
  <2>1. /\ pc = "carry" /\ pc' = "carry" /\ z.digits[i] = MAX_DIGIT
        /\ z' = SetDigit(z, i, 0) /\ i' = i + 1 /\ carry' = carry
    BY <1>8 DEF AddRipple
  <2>2. i \in 0 .. z.n_alloc - 1 /\ i \in 0 .. x.n_alloc - 1
    BY <1>1, <1>3, <2>1
  <2>3. x.digits[i] = RADIX - 1
    BY <1>1, <2>1, <2>2, Constants DEF SameFrom
  <2>4. 0 \in Word
    BY Constants DEF Word
  <2>5. Low(z', i + 1) = Low(z, i) + 0 * Weight(i)
    BY <1>1, <2>1, <2>2, <2>4, SetLow
  <2>6. /\ Low(x, i + 1) = Low(x, i) + x.digits[i] * Weight(i)
        /\ Low(x, i) \in Int /\ Weight(i) \in Int
        /\ Weight(i + 1) = RADIX * Weight(i)
    BY <1>1, <2>2, LowNext
  <2>7. Low(z, i) \in Int /\ Value(y) \in Int
    <3>1. y.n_signif \in 0 .. y.n_alloc
      BY <1>3
    <3>2. QED
      BY <1>1, <2>2, <3>1, LowNext, LowType DEF Value, Low
  <2>8. Low(z, i) + Weight(i) = Low(x, i) + Value(y)
    BY <1>2, <2>1
  <2>9. (Low(z, i) + 0 * Weight(i)) + RADIX * Weight(i) =
          (Low(x, i) + (RADIX - 1) * Weight(i)) + Value(y)
    <3>1. (RADIX - 1) * Weight(i) = RADIX * Weight(i) - Weight(i) /\ RADIX * Weight(i) \in Int
      BY <2>6, Constants
    <3> DEFINE w == Weight(i)
    <3> DEFINE r == RADIX * Weight(i)
    <3> DEFINE q == (RADIX - 1) * Weight(i)
    <3>2. 0 * w = 0 /\ w \in Int /\ r \in Int /\ q = r - w
      BY <2>6, <3>1
    <3>3. Low(z, i) + w = Low(x, i) + Value(y)
      BY <2>8
    <3> HIDE DEF w, r, q
    <3>4. (Low(z, i) + 0 * w) + r = (Low(x, i) + q) + Value(y)
      BY <2>6, <2>7, <3>2, <3>3
    <3>5. QED
      BY <3>4 DEF w, r, q
  <2>10. Low(z', i') + Weight(i') = Low(x, i') + Value(y)
    BY <2>1, <2>3, <2>5, <2>6, <2>9
  <2>11. AddValues'
    BY <1>2, <1>4, <2>1, <2>10 DEF AddValues, n, Value
  <2>12. QED
    BY <1>1, <1>4, <2>1, <2>11, OneValue DEF ResultAsPromised
<1>9. CASE AddSettle
  <2> DEFINE d == z.digits[i] + 1
  <2> DEFINE s == SetDigit(z, i, d)
  <2>1. /\ pc = "carry" /\ pc' = "done" /\ z.digits[i] # MAX_DIGIT
        /\ z' = IF s.digits[x.n_signif] # 0 THEN [s EXCEPT !.n_signif = @ + 1] ELSE s
    BY <1>9 DEF AddSettle
  <2>2. /\ i \in 0 .. z.n_alloc - 1 /\ i \in 0 .. x.n_alloc - 1 /\ i + 1 \in 0 .. z.n_alloc
        /\ i \in 0 .. n /\ i \in Nat /\ n + 1 \in i + 1 .. z.n_alloc
    BY <1>1, <1>3, <2>1
  <2>3. d \in 0 .. RADIX - 1 /\ d # 0
    BY <1>3, <2>1, <2>2, Constants
  <2>4. d \in Word
    BY <2>3, Constants DEF Word
  <2>5. /\ WellFormed(s) /\ s.n_alloc = z.n_alloc /\ s.n_signif = z.n_signif
        /\ ProperCells(s) /\ s.digits[i] = d
        /\ \A k \in 0 .. z.n_alloc - 1 : k # i => s.digits[k] = z.digits[k]
    BY <1>1, <2>2, <2>3, SetProper
  <2>6. Low(s, n + 1) = Low(z, n + 1) + (d - z.digits[i]) * Weight(i)
    BY <1>1, <2>2, <2>4, SetLow
  <2> HIDE DEF s
  <2>7. Low(s, n + 1) = Value(x) + Value(y)
    <3>1. Low(z, i) + Weight(i) = Low(x, i) + Value(y)
      BY <1>2, <2>1
    <3>2. Low(x, n + 1) - Low(x, i) = Low(z, n + 1) - Low(z, i) /\ Low(x, n + 1) = Value(x)
      <4>1. y.n_signif =< i /\ i =< i
        BY <1>1, <1>3, <2>1
      <4>2. QED
        BY <1>5, <2>2, <4>1
    <3>3. n + 1 \in 0 .. x.n_alloc /\ n + 1 \in 0 .. z.n_alloc /\ y.n_signif \in 0 .. y.n_alloc
      BY <1>3
    <3>4. /\ Low(x, n + 1) \in Int /\ Low(z, n + 1) \in Int /\ Value(y) \in Int
          /\ Low(x, i) \in Int /\ Low(z, i) \in Int /\ Weight(i) \in Int
      BY <1>1, <2>2, <3>3, LowType, LowNext DEF Value, Low
    <3>5. (d - z.digits[i]) * Weight(i) = Weight(i)
      <4>1. d - z.digits[i] = 1
        BY <1>3, <2>2, Constants
      <4>2. QED
        BY <3>4, <4>1
    <3>6. QED
      BY <2>6, <3>1, <3>2, <3>4, <3>5
  <2> HIDE DEF d
  <2>8. /\ n \in 0 .. s.n_alloc - 1 /\ n \in 0 .. s.n_alloc
        /\ Low(s, n + 1) = Low(s, n) + s.digits[n] * Weight(n)
        /\ Low(s, n) \in Nat /\ Weight(n) \in Nat /\ s.digits[n] \in 0 .. RADIX - 1
    <3>1. n \in 0 .. s.n_alloc - 1 /\ n \in 0 .. s.n_alloc
      BY <1>3, <2>5
    <3>2. QED
      BY <2>5, <3>1, LowNext, LowRange, DigitRange
  <2>9. ASSUME s.digits[x.n_signif] # 0 PROVE Value(x) + Value(y) >= Weight(n)
    <3>1. s.digits[n] >= 1
      <4>1. CASE x.n_signif = n
        BY <2>8, <2>9, <4>1, Constants
      <4>2. CASE x.n_signif # n
        <5>1. i = n
          BY <1>1, <1>3, <2>1, <4>2 DEF n, MAX
        <5>2. QED
          BY <2>3, <2>5, <5>1, Constants
      <4>3. QED
        BY <4>1, <4>2
    <3>2. s.digits[n] * Weight(n) >= Weight(n) /\ s.digits[n] * Weight(n) \in Int
      BY <2>8, <3>1, Constants
    <3>3. QED
      BY <2>7, <2>8, <3>2
  <2>10. /\ WellFormed(z') /\ ProperCells(z') /\ z'.n_alloc = n + 1 /\ z'.digits = s.digits
         /\ z'.n_signif = IF s.digits[x.n_signif] # 0 THEN n + 1 ELSE n
    <3>1. CASE s.digits[x.n_signif] # 0
      <4>1. z' = [s EXCEPT !.n_signif = n + 1]
        BY <1>1, <2>1, <2>5, <3>1
      <4>2. n + 1 \in 0 .. s.n_alloc
        BY <1>3, <2>5
      <4>3. QED
        BY <1>3, <1>4, <2>5, <3>1, <4>1, <4>2, SetCountFacts
    <3>2. CASE s.digits[x.n_signif] = 0
      BY <1>1, <1>3, <1>4, <2>1, <2>5, <3>2
    <3>3. QED
      BY <3>1, <3>2
  <2>11. Promise!Added(z', 0)
    <3>1. Low(z', z'.n_alloc) = Value(x) + Value(y)
      BY <2>7, <2>10 DEF Low
    <3>2. z'.n_signif = IF z'.digits[x.n_signif] # 0 /\ Value(x) + Value(y) >= Weight(n)
                        THEN n + 1 ELSE n
      BY <2>9, <2>10
    <3>3. QED
      BY <1>1, <1>3, <2>10, <3>1, <3>2, AddResult DEF n
  <2>12. AddValues'
    BY <1>2, <1>4, <2>1 DEF AddValues, n
  <2>13. QED
    BY <1>1, <1>2, <1>4, <2>11, <2>12, AddReturns, OneValue
<1>10. QED
  BY <1>6, <1>7, <1>8, <1>9

-----------------------------------------------------------------------------
(* Above digit k two arrays are the same: so are the numbers held there.   *)
LEMMA Rest ==
  ASSUME NEW a, WellFormed(a), NEW b, WellFormed(b), a.n_alloc = b.n_alloc,
         NEW k \in 0 .. a.n_alloc, SameFrom(a, b, k)
  PROVE  /\ Low(a, a.n_alloc) - Low(a, k) = Low(b, a.n_alloc) - Low(b, k)
         /\ Low(a, a.n_alloc) \in Int /\ Low(a, k) \in Int
         /\ Low(b, a.n_alloc) \in Int /\ Low(b, k) \in Int
         /\ Weight(k) \in Nat \ {0}
<1>1. a.n_alloc \in Nat /\ a.n_alloc \in 0 .. a.n_alloc /\ k =< a.n_alloc /\ k \in Nat
  BY Cells
<1>2. \A l \in k .. a.n_alloc - 1 : a.digits[l] = b.digits[l]
  BY <1>1 DEF SameFrom
<1>3. Low(a, a.n_alloc) - Low(a, k) = Low(b, a.n_alloc) - Low(b, k)
  BY <1>1, <1>2, LowHigh
<1>4. QED
  BY <1>1, <1>3, LowType, WeightFacts

(***************************************************************************)
(* digits_isub_digits: what is returned is the difference, and its leading *)
(* zero is dropped.                                                        *)
(***************************************************************************)
LEMMA SubResult ==
  ASSUME NEW a, WellFormed(a), ProperCells(a), x.n_signif \in Nat \ {0},
         a.n_alloc = x.n_signif, a.n_signif = x.n_signif,
         Low(a, x.n_signif) = Value(x) - Value(y)
  PROVE  Promise!Subtracted(DropLeadingZero(a), 0)
<1> DEFINE n == x.n_signif
<1> DEFINE r == DropLeadingZero(a)
<1> DEFINE s == Value(x) - Value(y)
<1> DEFINE w == Weight(n - 1)
<1> DEFINE l == Low(a, n - 1)
<1> DEFINE d == a.digits[n - 1]
<1>1. n \in Nat /\ n - 1 \in 0 .. a.n_alloc - 1 /\ n - 1 \in 0 .. a.n_alloc
      /\ (n - 1) + 1 = n /\ n # n - 1
  OBVIOUS
<1>2. l \in Nat /\ w \in Nat \ {0} /\ l < w /\ d \in 0 .. RADIX - 1
  BY <1>1, LowRange, DigitRange
<1>3. s = l + d * w
  <2>1. Low(a, (n - 1) + 1) = l + d * w
    BY <1>1, LowNext
  <2>2. QED
    BY <1>1, <2>1
<1>4. SUFFICES Value(r) = s /\ r.n_signif = IF s < w THEN n - 1 ELSE n
  BY PromisedCounts, PromisedValue, Zenon
     DEF Promise!Subtracted, Promise!Holds, Promise!Value, Value, DifferenceCount
<1> HIDE DEF s, w, l
<1>5. CASE d = 0
  <2>1. r = [a EXCEPT !.n_signif = n - 1]
    BY <1>5 DEF DropLeadingZero
  <2>2. r.n_signif = n - 1 /\ r.digits = a.digits
    BY <1>1, <2>1, SetCountFacts
  <2>3. s = l /\ s < w
    BY <1>2, <1>3, <1>5
  <2>4. Value(r) = l
    BY <2>2 DEF Value, Low, l
  <2>5. QED
    BY <2>2, <2>3, <2>4
<1>6. CASE d # 0
  <2>1. r = a
    BY <1>6 DEF DropLeadingZero
  <2>2. Value(r) = s
    BY <2>1 DEF Value, Low, s
  <2>3. ~ (s < w)
    <3>1. d * w >= w /\ d * w \in Int
      BY <1>2, <1>6, Constants
    <3>2. QED
      BY <1>2, <1>3, <3>1
  <2>4. QED
    BY <2>1, <2>2, <2>3
<1>7. QED
  BY <1>5, <1>6

LEMMA SubReturns ==
  ASSUME fn = "isub_digits", UNCHANGED operands, Promise!Subtracted(z', 0), ret' = 0
  PROVE  ResultAsPromised'
<1>1. fn' = "isub_digits" /\ x' = x /\ y' = y
  BY DEF operands
<1>2. Promise!Subtracted(z, ret)'
  BY <1>1 DEF Promise!Subtracted, Promise!Value
<1>3. QED
  BY <1>1, <1>2 DEF ResultAsPromised, Promise!Result

LEMMA SubComputes ==
  ASSUME VInv, IInv', SubDigit \/ SubEnd \/ SubRipple \/ SubSettle
  PROVE  VInv'
<1> DEFINE n == x.n_signif
<1>1. /\ fn = "isub_digits"
      /\ WellFormed(x) /\ WellFormed(y) /\ WellFormed(z)
      /\ ProperCells(x) /\ ProperCells(y) /\ ProperCells(z)
      /\ i \in Int /\ carry \in 0 .. 1
      /\ n >= 1 /\ y.n_signif =< n /\ x.n_alloc = n /\ z.n_alloc = n
      /\ pc # "done"
      /\ z.n_signif = n
      /\ SameFrom(z, x, i)
      /\ pc = "loop" => i \in 0 .. y.n_signif
      /\ pc = "carry" => i >= y.n_signif /\ carry = 1
  BY DEF VInv, IInv, TypeOK, SubInv, SubDigit, SubEnd, SubRipple, SubSettle
<1>2. /\ ret = 0
      /\ pc = "loop" => Low(z, i) - carry * Weight(i) = Low(x, i) - Low(y, i)
      /\ pc = "carry" => Low(z, i) - Weight(i) = Low(x, i) - Value(y)
  BY <1>1 DEF VInv, SubValues
<1>3. /\ n \in Nat \ {0} /\ y.n_signif \in Nat /\ y.n_signif =< y.n_alloc /\ y.n_alloc \in Nat
      /\ \A k \in 0 .. n - 1 : z.digits[k] \in 0 .. RADIX - 1
      /\ \A k \in 0 .. y.n_alloc - 1 : y.digits[k] \in 0 .. RADIX - 1
  <2>1. n \in Nat /\ y.n_signif \in Nat /\ y.n_signif =< y.n_alloc /\ y.n_alloc \in Nat
    BY <1>1, Cells
  <2>2. /\ \A k \in 0 .. n - 1 : z.digits[k] \in 0 .. RADIX - 1
        /\ \A k \in 0 .. y.n_alloc - 1 : y.digits[k] \in 0 .. RADIX - 1
    BY <1>1, DigitRange
  <2>3. QED
    BY <1>1, <2>1, <2>2
<1>4. pc = "carry" => i \in y.n_signif .. n - 1
  <2>1. SUFFICES ASSUME pc = "carry" PROVE i \in y.n_signif .. n - 1
    OBVIOUS
  <2>2. PICK p \in 0 .. n - 1 : pc # "done" /\ carry = 1 => i =< p
    BY <1>1 DEF VInv, IInv, SubInv
  <2>3. QED
    BY <1>1, <1>3, <2>1, <2>2
<1>5. UNCHANGED operands /\ ret' = ret /\ fn' = fn /\ x' = x /\ y' = y
  BY DEF SubDigit, SubEnd, SubRipple, SubSettle, operands
<1> HIDE DEF n
<1>6. Value(y) \in Int
  <2>1. y.n_signif \in 0 .. y.n_alloc
    BY <1>3
  <2>2. QED
    BY <1>1, <2>1, LowType DEF Value, Low
<1>7. CASE SubDigit
  <2> DEFINE e == (z.digits[i] - (y.digits[i] + carry)) % U64
  <2> DEFINE c == IF e > z.digits[i] THEN 1 ELSE 0
  <2> DEFINE d == (e + c * RADIX) % U64
  <2>1. /\ i < y.n_signif /\ pc = "loop" /\ pc' = "loop"
        /\ z' = SetDigit(z, i, d) /\ carry' = c /\ i' = i + 1
    BY <1>7 DEF SubDigit
  <2>2. i \in 0 .. z.n_alloc - 1 /\ i \in 0 .. y.n_alloc - 1 /\ i \in 0 .. x.n_alloc - 1
        /\ i \in 0 .. n - 1
    BY <1>1, <1>3, <2>1 DEF n
  <2>3. z.digits[i] \in 0 .. RADIX - 1 /\ y.digits[i] \in 0 .. RADIX - 1
        /\ z.digits[i] = x.digits[i]
    BY <1>1, <1>3, <2>2 DEF SameFrom
  <2>4. d \in 0 .. RADIX - 1 /\ d - c * RADIX = z.digits[i] - (y.digits[i] + carry)
    BY <1>1, <2>3, DigitDifference
  <2>5. c \in Int
    OBVIOUS
  <2> HIDE DEF d, c
  <2>6. d \in Word
    BY <2>4, Constants DEF Word
  <2>7. Low(z', i + 1) = Low(z, i) + d * Weight(i)
    BY <1>1, <2>1, <2>2, <2>6, SetLow
  <2>8. /\ Low(x, i + 1) = Low(x, i) + x.digits[i] * Weight(i)
        /\ Low(x, i) \in Int /\ Weight(i) \in Int
        /\ Weight(i + 1) = RADIX * Weight(i)
    BY <1>1, <2>2, LowNext
  <2>9. Low(y, i + 1) = Low(y, i) + y.digits[i] * Weight(i) /\ Low(y, i) \in Int
    BY <1>1, <2>2, LowNext
  <2>10. Low(z, i) \in Int
    BY <1>1, <2>2, LowNext
  <2>11. Low(z, i) - carry * Weight(i) = Low(x, i) - Low(y, i)
    BY <1>2, <2>1
  <2>12. d \in Int /\ z.digits[i] \in Int /\ y.digits[i] \in Int /\ carry \in Int
    BY <1>1, <2>3, <2>4, Constants
  <2>13. (Low(z, i) + d * Weight(i)) - c * (RADIX * Weight(i)) =
           (Low(x, i) + z.digits[i] * Weight(i)) - (Low(y, i) + y.digits[i] * Weight(i))
    <3> DEFINE w == Weight(i)
    <3> DEFINE l == Low(z, i)
    <3> DEFINE u == Low(x, i)
    <3> DEFINE v == Low(y, i)
    <3> DEFINE a == z.digits[i]
    <3> DEFINE b == y.digits[i]
    <3>1. w \in Int /\ l \in Int /\ u \in Int /\ v \in Int /\ a \in Int /\ b \in Int
      BY <2>8, <2>9, <2>10, <2>12
    <3>2. d - c * RADIX = a - (b + carry) /\ l - carry * w = u - v
      BY <2>4, <2>11
    <3> HIDE DEF w, l, u, v, a, b
    <3>3. (l + d * w) - c * (RADIX * w) = (u + a * w) - (v + b * w)
      <4>1. (d - c * RADIX) * w = d * w - c * (RADIX * w)
        BY <2>5, <2>12, <3>1, Constants
      <4>2. (a - (b + carry)) * w = a * w - (b * w + carry * w)
        BY <2>12, <3>1
      <4>3. /\ d * w \in Int /\ a * w \in Int /\ b * w \in Int /\ carry * w \in Int
            /\ c * (RADIX * w) \in Int
        BY <2>5, <2>12, <3>1, Constants
      <4>4. d * w - c * (RADIX * w) = a * w - (b * w + carry * w)
        BY <3>2, <4>1, <4>2
      <4>5. QED
        BY <3>1, <3>2, <4>3, <4>4
    <3>4. QED
      BY <3>3 DEF w, l, u, v, a, b
  <2>14. Low(z', i') - carry' * Weight(i') = Low(x, i') - Low(y, i')
    BY <2>1, <2>3, <2>7, <2>8, <2>9, <2>13
  <2>15. SubValues'
    BY <1>2, <1>5, <2>1, <2>14 DEF SubValues
  <2>16. QED
    BY <1>1, <1>5, <2>1, <2>15, OneValue DEF ResultAsPromised
<1>8. CASE SubEnd
  <2>1. /\ i = y.n_signif /\ pc = "loop" /\ i' = i /\ carry' = carry
        /\ carry = 0 => z' = DropLeadingZero(z) /\ pc' = "done"
        /\ carry # 0 => z' = z /\ pc' = "carry"
    BY <1>8 DEF SubEnd
  <2>2. Low(y, i) = Value(y) /\ i \in 0 .. z.n_alloc
    BY <1>1, <1>3, <2>1 DEF Value, Low, n
  <2>3. /\ Low(z, n) - Low(z, i) = Low(x, n) - Low(x, i)
        /\ Low(z, n) \in Int /\ Low(z, i) \in Int /\ Low(x, n) \in Int /\ Low(x, i) \in Int
        /\ Weight(i) \in Int
    BY <1>1, <2>2, Rest
  <2>4. CASE carry = 0
    <3>1. Low(z, i) = Low(x, i) - Value(y)
      BY <1>2, <2>1, <2>2, <2>3, <2>4
    <3>2. Low(z, n) = Value(x) - Value(y)
      BY <1>6, <2>3, <3>1 DEF Value, Low, n
    <3>3. Promise!Subtracted(z', 0)
      BY <1>1, <1>3, <2>1, <2>4, <3>2, SubResult DEF n
    <3>4. SubValues'
      BY <1>2, <1>5, <2>1, <2>4 DEF SubValues
    <3>5. QED
      BY <1>1, <1>2, <1>5, <3>3, <3>4, SubReturns, OneValue
  <2>5. CASE carry # 0
    <3>1. carry = 1 /\ pc' = "carry" /\ z' = z
      BY <1>1, <2>1, <2>5
    <3>2. Low(z, i) - Weight(i) = Low(x, i) - Value(y)
      BY <1>2, <2>1, <2>2, <2>3, <3>1
    <3>3. SubValues'
      BY <1>2, <1>5, <2>1, <3>1, <3>2 DEF SubValues, Value
    <3>4. QED
      BY <1>1, <1>5, <3>1, <3>3, OneValue DEF ResultAsPromised
  <2>6. QED
    BY <2>4, <2>5
<1>9. CASE SubRipple
  <2>1. /\ pc = "carry" /\ pc' = "carry" /\ z.digits[i] = 0
        /\ z' = SetDigit(z, i, MAX_DIGIT) /\ i' = i + 1 /\ carry' = carry
    BY <1>9 DEF SubRipple
  <2>2. i \in 0 .. z.n_alloc - 1 /\ i \in 0 .. x.n_alloc - 1 /\ i \in 0 .. n - 1
    BY <1>1, <1>3, <1>4, <2>1 DEF n
  <2>3. x.digits[i] = 0
    BY <1>1, <2>1, <2>2 DEF SameFrom
  <2>4. MAX_DIGIT \in Word
    BY Constants DEF Word
  <2>5. Low(z', i + 1) = Low(z, i) + MAX_DIGIT * Weight(i)
    BY <1>1, <2>1, <2>2, <2>4, SetLow
  <2>6. /\ Low(x, i + 1) = Low(x, i) + x.digits[i] * Weight(i)
        /\ Low(x, i) \in Int /\ Weight(i) \in Int
        /\ Weight(i + 1) = RADIX * Weight(i)
    BY <1>1, <2>2, LowNext
  <2>7. Low(z, i) \in Int
    BY <1>1, <2>2, LowNext
  <2>8. Low(z, i) - Weight(i) = Low(x, i) - Value(y)
    BY <1>2, <2>1
  <2>9. (Low(z, i) + MAX_DIGIT * Weight(i)) - RADIX * Weight(i) =
          (Low(x, i) + x.digits[i] * Weight(i)) - Value(y)
    <3>1. (RADIX - 1) * Weight(i) = RADIX * Weight(i) - Weight(i) /\ RADIX * Weight(i) \in Int
      BY <2>6, Constants
    <3>2. x.digits[i] * Weight(i) = 0
      BY <2>3, <2>6
    <3> DEFINE w == Weight(i)
    <3> DEFINE r == RADIX * Weight(i)
    <3> DEFINE q == MAX_DIGIT * Weight(i)
    <3> DEFINE p == x.digits[i] * Weight(i)
    <3>3. w \in Int /\ r \in Int /\ q = r - w /\ p = 0
      BY <2>6, <3>1, <3>2, Constants
    <3>4. Low(z, i) - w = Low(x, i) - Value(y)
      BY <2>8
    <3> HIDE DEF w, r, q, p
    <3>5. (Low(z, i) + q) - r = (Low(x, i) + p) - Value(y)
      BY <1>6, <2>6, <2>7, <3>3, <3>4
    <3>6. QED
      BY <3>5 DEF w, r, q, p
  <2>10. Low(z', i') - Weight(i') = Low(x, i') - Value(y)
    BY <2>1, <2>5, <2>6, <2>9
  <2>11. SubValues'
    BY <1>2, <1>5, <2>1, <2>10 DEF SubValues, Value
  <2>12. QED
    BY <1>1, <1>5, <2>1, <2>11, OneValue DEF ResultAsPromised
<1>10. CASE SubSettle
  <2> DEFINE d == z.digits[i] - 1
  <2> DEFINE s == SetDigit(z, i, d)
  <2>1. /\ pc = "carry" /\ pc' = "done" /\ z.digits[i] # 0
        /\ z' = DropLeadingZero(s)
    BY <1>10 DEF SubSettle
  <2>2. i \in 0 .. z.n_alloc - 1 /\ i \in 0 .. n - 1 /\ i \in 0 .. z.n_alloc
        /\ n \in i + 1 .. z.n_alloc
    BY <1>1, <1>3, <1>4, <2>1 DEF n
  <2>3. d \in 0 .. RADIX - 1 /\ d - z.digits[i] = -1
    BY <1>3, <2>1, <2>2, Constants
  <2>4. d \in Word
    BY <2>3, Constants DEF Word
  <2>5. /\ WellFormed(s) /\ s.n_alloc = z.n_alloc /\ s.n_signif = z.n_signif
        /\ ProperCells(s)
    BY <1>1, <2>2, <2>3, SetProper
  <2>6. Low(s, n) = Low(z, n) + (d - z.digits[i]) * Weight(i)
    BY <1>1, <2>2, <2>4, SetLow
  <2> HIDE DEF s
  <2>7. Low(s, n) = Value(x) - Value(y)
    <3>1. /\ Low(z, n) - Low(z, i) = Low(x, n) - Low(x, i)
          /\ Low(z, n) \in Int /\ Low(z, i) \in Int /\ Low(x, n) \in Int /\ Low(x, i) \in Int
          /\ Weight(i) \in Int
      BY <1>1, <2>2, Rest
    <3>2. Low(z, i) - Weight(i) = Low(x, i) - Value(y)
      BY <1>2, <2>1
    <3>3. (d - z.digits[i]) * Weight(i) = - Weight(i)
      BY <2>3, <3>1
    <3>4. Low(x, n) = Value(x)
      BY DEF Value, Low, n
    <3> HIDE DEF d
    <3>5. QED
      BY <1>6, <2>6, <3>1, <3>2, <3>3, <3>4
  <2>8. Promise!Subtracted(z', 0)
    BY <1>1, <1>3, <2>1, <2>5, <2>7, SubResult DEF n
  <2>9. SubValues'
    BY <1>2, <1>5, <2>1 DEF SubValues
  <2>10. QED
    BY <1>1, <1>2, <1>5, <2>8, <2>9, SubReturns, OneValue
<1>11. QED
  BY <1>7, <1>8, <1>9, <1>10

-----------------------------------------------------------------------------
LEMMA PromisedIncrement ==
  \A v, n, w :
    /\ Promise!Increment(v, n, w) = Increment(v, n, w)
    /\ Promise!IncrementCarry(v, n, w) = IncrementCarry(v, n, w)
BY PromisedWeight DEF Increment, IncrementCarry, Promise!Increment, Promise!IncrementCarry

(* digits_iadd_digit: what is returned is the number after x, or 0 and a carry. *)
LEMMA IncrementReturns ==
  ASSUME fn = "iadd_digit", UNCHANGED operands, arg = 1, x.n_signif \in Nat,
         z'.n_signif = x.n_signif,
         Low(z', x.n_signif) = Increment(Value(x), x.n_signif, 1),
         ret' = IF IncrementCarry(Value(x), x.n_signif, 1) THEN 1 ELSE 0
  PROVE  ResultAsPromised'
<1>1. fn' = "iadd_digit" /\ x' = x /\ y' = y /\ arg' = 1
  BY DEF operands
<1>2. Promise!Value(z') = Increment(Promise!Value(x'), x'.n_signif, arg')
  BY <1>1, PromisedValue DEF Promise!Value, Value, Low
<1>3. ret' = IF IncrementCarry(Promise!Value(x'), x'.n_signif, arg') THEN 1 ELSE 0
  BY <1>1, PromisedValue DEF Promise!Value, Value
<1>4. Promise!Incremented(z, ret)'
  BY <1>1, <1>2, <1>3, PromisedIncrement DEF Promise!Incremented, Promise!Holds
<1>5. QED
  BY <1>1, <1>4 DEF ResultAsPromised, Promise!Result

(* Without a carry out of the array, the number after x is returned. *)
LEMMA IncrementFits ==
  ASSUME fn = "iadd_digit", UNCHANGED operands, arg = 1,
         WellFormed(z'), ProperCells(z'), z'.n_alloc = x.n_signif,
         x.n_signif \in Nat, z'.n_signif = x.n_signif,
         Low(z', x.n_signif) = Value(x) + 1, ret' = 0
  PROVE  ResultAsPromised'
<1>1. /\ Low(z', x.n_signif) \in Nat /\ Low(z', x.n_signif) < Weight(x.n_signif)
      /\ Weight(x.n_signif) \in Nat
  <2>1. x.n_signif \in 0 .. z'.n_alloc
    OBVIOUS
  <2>2. QED
    BY <2>1, LowRange
<1>2. ~IncrementCarry(Value(x), x.n_signif, 1)
  BY <1>1 DEF IncrementCarry
<1>3. Increment(Value(x), x.n_signif, 1) = Value(x) + 1
  BY <1>2 DEF Increment, IncrementCarry
<1>4. QED
  BY <1>2, <1>3, IncrementReturns

LEMMA IncrementComputes ==
  ASSUME VInv, IInv', IncrementDigit \/ IncrementRipple \/ IncrementSettle
  PROVE  VInv'
<1> DEFINE n == x.n_signif
<1>1. /\ fn = "iadd_digit" /\ arg = 1
      /\ WellFormed(x) /\ WellFormed(z)
      /\ ProperCells(x) /\ ProperCells(z)
      /\ x.n_alloc = n /\ z.n_alloc = n /\ z.n_signif = n /\ n >= 1
      /\ pc = "loop" \/ pc = "carry"
      /\ pc = "carry" => i \in 1 .. n
      /\ ret = 0
  BY DEF VInv, IInv, TypeOK, IncrementInv, IncrementValues,
         IncrementDigit, IncrementRipple, IncrementSettle
<1>2. /\ pc = "loop" => z = x
      /\ pc = "carry" => SameFrom(z, x, i) /\ Low(z, i) + Weight(i) = Low(x, i) + 1
  BY <1>1 DEF VInv, IncrementValues
<1>3. /\ n \in Nat \ {0} /\ 0 \in 0 .. n - 1 /\ n \in 0 .. n
      /\ \A k \in 0 .. n - 1 : z.digits[k] \in 0 .. RADIX - 1
  BY <1>1, Cells, DigitRange
<1>4. UNCHANGED operands /\ fn' = fn /\ x' = x /\ y' = y /\ arg' = arg
  BY DEF IncrementDigit, IncrementRipple, IncrementSettle, operands
<1>5. Low(x, n) = Value(x)
  BY DEF Low, Value
<1> HIDE DEF n
<1>6. CASE IncrementDigit
  <2> DEFINE a == z.digits[0]
  <2> DEFINE sum == (a + 1) % U64
  <2> DEFINE c == IF sum < 1 \/ sum >= RADIX THEN 1 ELSE 0
  <2> DEFINE d == (sum - c * RADIX) % U64
  <2>1. /\ pc = "loop" /\ z' = SetDigit(z, 0, d) /\ i' = c
        /\ pc' = IF c = 1 THEN "carry" ELSE "done"
        /\ ret' = ret
    BY <1>1, <1>6 DEF IncrementDigit
  <2>2. d \in 0 .. RADIX - 1 /\ d + c * RADIX = a + 1
    <3>1. a \in 0 .. RADIX - 1 /\ 1 \in 0 .. RADIX - 1 /\ 0 \in 0 .. 1 /\ a + 1 + 0 = a + 1
      BY <1>3, Constants
    <3> HIDE DEF a
    <3>2. LET s == (a + 1 + 0) % U64
              k == IF s < 1 \/ s >= RADIX THEN 1 ELSE 0
          IN  /\ (s - k * RADIX) % U64 \in 0 .. RADIX - 1
              /\ ((s - k * RADIX) % U64) + k * RADIX = a + 1 + 0
      BY <3>1, DigitSum
    <3>3. QED
      BY <3>1, <3>2
  <2>3. c \in 0 .. 1
    OBVIOUS
  <2>4. a \in Int /\ z = x
    BY <1>2, <1>3, <2>1, Constants
  <2> HIDE DEF d, c
  <2>5. /\ WellFormed(z') /\ z'.n_alloc = n /\ z'.n_signif = n
        /\ \A k \in 0 .. n - 1 : k # 0 => z'.digits[k] = z.digits[k]
    <3>1. WellFormed(z) /\ ProperCells(z) /\ 0 \in 0 .. z.n_alloc - 1 /\ d \in 0 .. RADIX - 1
      BY <1>1, <1>3, <2>2
    <3>2. WellFormed(SetDigit(z, 0, d))
      BY <3>1, SetProper
    <3>3. SetDigit(z, 0, d).n_alloc = z.n_alloc /\ SetDigit(z, 0, d).n_signif = z.n_signif
      BY <3>1, SetProper
    <3>4. \A k \in 0 .. z.n_alloc - 1 : k # 0 => SetDigit(z, 0, d).digits[k] = z.digits[k]
      BY <3>1, SetProper
    <3>5. QED
      BY <1>1, <2>1, <3>2, <3>3, <3>4
  <2>6. d \in Word
    BY <2>2, Constants DEF Word
  <2>7. Low(z', 0 + 1) = Low(z, 0) + d * Weight(0)
    BY <1>1, <1>3, <2>1, <2>6, SetLow
  <2>8. Low(z', n) = Low(z, n) + (d - a) * Weight(0)
    <3>1. n \in 0 + 1 .. z.n_alloc
      BY <1>1, <1>3 DEF n
    <3>2. QED
      BY <1>1, <1>3, <2>1, <2>6, <3>1, SetLow
  <2>9. CASE c = 0
    <3>1. d - a = 1
      BY <2>2, <2>4, <2>9, Constants
    <3>2. Low(z, n) \in Int
      BY <1>1, <1>3, LowType
    <3>3. Low(z', n) = Value(x) + 1
      BY <1>5, <2>4, <2>8, <3>1, <3>2, WeightZero
    <3>4. ResultAsPromised'
      <4>1. ProperCells(z')
        BY <1>1, <1>3, <2>1, <2>2, SetProper
      <4>2. QED
        BY <1>1, <1>3, <1>4, <2>1, <2>5, <3>3, <4>1, IncrementFits DEF n
    <3>5. IncrementValues'
      BY <1>1, <1>2, <1>4, <2>1, <2>5, <2>9 DEF IncrementValues, n, Value
    <3>6. QED
      BY <1>1, <1>4, <3>4, <3>5, OneValue
  <2>10. CASE c = 1
    <3>1. d = 0 /\ a = RADIX - 1
      BY <1>3, <2>2, <2>10, Constants
    <3>2. Low(x, 0 + 1) = Low(x, 0) + a * Weight(0) /\ Weight(0 + 1) = RADIX * Weight(0)
      BY <1>1, <1>3, <2>4, LowNext
    <3>3. Low(z', 1) + Weight(1) = Low(x, 1) + 1
      BY <2>7, <3>1, <3>2, WeightZero, LowZero, Constants
    <3>4. SameFrom(z', x, 1)
      BY <1>1, <1>3, <2>4, <2>5 DEF SameFrom
    <3>5. IncrementValues'
      BY <1>1, <1>2, <1>4, <2>1, <2>5, <2>10, <3>3, <3>4 DEF IncrementValues, n, Value
    <3>6. QED
      BY <1>1, <1>4, <2>1, <2>10, <3>5, OneValue DEF ResultAsPromised
  <2>11. QED
    BY <2>3, <2>9, <2>10
<1>7. CASE IncrementRipple
  <2>1. /\ pc = "carry" /\ pc' = "carry" /\ i < n /\ z.digits[i] = MAX_DIGIT
        /\ z' = SetDigit(z, i, 0) /\ i' = i + 1 /\ ret' = ret
    BY <1>1, <1>7 DEF IncrementRipple
  <2>2. i \in 0 .. z.n_alloc - 1 /\ i \in 0 .. x.n_alloc - 1 /\ i \in 0 .. n - 1
    BY <1>1, <1>3, <2>1
  <2>3. x.digits[i] = RADIX - 1
    BY <1>1, <1>2, <2>1, <2>2, Constants DEF SameFrom
  <2>4. 0 \in Word
    BY Constants DEF Word
  <2>5. Low(z', i + 1) = Low(z, i) + 0 * Weight(i)
    BY <1>1, <2>1, <2>2, <2>4, SetLow
  <2>6. /\ Low(x, i + 1) = Low(x, i) + x.digits[i] * Weight(i)
        /\ Low(x, i) \in Int /\ Weight(i) \in Int
        /\ Weight(i + 1) = RADIX * Weight(i)
    BY <1>1, <2>2, LowNext
  <2>7. Low(z, i) \in Int
    BY <1>1, <2>2, LowNext
  <2>8. Low(z, i) + Weight(i) = Low(x, i) + 1
    BY <1>2, <2>1
  <2>9. (Low(z, i) + 0 * Weight(i)) + RADIX * Weight(i) =
          (Low(x, i) + (RADIX - 1) * Weight(i)) + 1
    <3>1. (RADIX - 1) * Weight(i) = RADIX * Weight(i) - Weight(i) /\ RADIX * Weight(i) \in Int
      BY <2>6, Constants
    <3> DEFINE w == Weight(i)
    <3> DEFINE r == RADIX * Weight(i)
    <3> DEFINE q == (RADIX - 1) * Weight(i)
    <3>2. 0 * w = 0 /\ w \in Int /\ r \in Int /\ q = r - w
      BY <2>6, <3>1
    <3>3. Low(z, i) + w = Low(x, i) + 1
      BY <2>8
    <3> HIDE DEF w, r, q
    <3>4. (Low(z, i) + 0 * w) + r = (Low(x, i) + q) + 1
      BY <2>6, <2>7, <3>2, <3>3
    <3>5. QED
      BY <3>4 DEF w, r, q
  <2>10. Low(z', i') + Weight(i') = Low(x, i') + 1
    BY <2>1, <2>3, <2>5, <2>6, <2>9
  <2>11. /\ z'.n_alloc = n /\ z'.n_signif = n
         /\ \A k \in 0 .. n - 1 : k # i => z'.digits[k] = z.digits[k]
    BY <1>1, <2>1, <2>2, <2>4, SetDigitFacts
  <2>12. SameFrom(z', x, i')
    BY <1>1, <1>2, <1>3, <2>1, <2>2, <2>11 DEF SameFrom
  <2>13. IncrementValues'
    BY <1>1, <1>2, <1>4, <2>1, <2>10, <2>11, <2>12 DEF IncrementValues, n, Value
  <2>14. QED
    BY <1>1, <1>4, <2>1, <2>13, OneValue DEF ResultAsPromised
<1>8. CASE IncrementSettle
  <2>1. /\ i \in 1 .. n /\ i \in 0 .. z.n_alloc
        /\ SameFrom(z, x, i) /\ Low(z, i) + Weight(i) = Low(x, i) + 1
    BY <1>1, <1>2, <1>3, <1>8 DEF IncrementSettle
  <2>2. /\ Low(z, n) - Low(z, i) = Low(x, n) - Low(x, i)
        /\ Low(z, n) \in Int /\ Low(z, i) \in Int /\ Low(x, n) \in Int /\ Low(x, i) \in Int
        /\ Weight(i) \in Int
    BY <1>1, <2>1, Rest
  <2>3. pc' = "done"
    BY <1>8 DEF IncrementSettle
  (* The carry leaves an array whose digits are all maximal. *)
  <2>4. CASE i = n
    <3>1. UNCHANGED z /\ ret' = 1
      BY <1>1, <1>8, <2>4 DEF IncrementSettle
    <3>2. Low(z, n) \in Nat /\ Weight(n) \in Nat
      BY <1>1, <1>3, LowRange
    <3>3. Low(z, n) + Weight(n) = Value(x) + 1
      BY <1>5, <2>1, <2>4
    <3>4. Value(x) + 1 >= Weight(n) /\ Value(x) + 1 - Weight(n) = Low(z, n)
      BY <3>2, <3>3, <1>5, <2>2
    <3>5. Increment(Value(x), n, 1) = Low(z, n) /\ IncrementCarry(Value(x), n, 1)
      BY <3>4 DEF Increment, IncrementCarry
    <3>6. ResultAsPromised'
      BY <1>1, <1>3, <1>4, <3>1, <3>5, IncrementReturns DEF n, Low
    <3>7. IncrementValues'
      BY <1>1, <1>4, <2>3, <3>1 DEF IncrementValues, n
    <3>8. QED
      BY <1>1, <1>4, <3>6, <3>7, OneValue
  <2>5. SUFFICES ASSUME i # n PROVE VInv'
    BY <2>4
  (* Otherwise the number has become that after x. *)
  <2> DEFINE d == z.digits[i] + 1
  <2>6. i \in 0 .. z.n_alloc - 1 /\ i \in 0 .. n - 1 /\ n \in i + 1 .. z.n_alloc
    BY <1>1, <1>3, <2>1, <2>5
  <2>7. z' = SetDigit(z, i, d) /\ ret' = ret
    BY <1>1, <1>8, <2>5 DEF IncrementSettle
  <2>8. d \in Word /\ d - z.digits[i] = 1
    BY <1>3, <2>6, Constants DEF Word
  <2>9. Low(z', n) = Low(z, n) + (d - z.digits[i]) * Weight(i)
    BY <1>1, <2>6, <2>7, <2>8, SetLow
  <2>10. Low(z', n) = Value(x) + 1
    <3>1. (d - z.digits[i]) * Weight(i) = Weight(i)
      BY <2>2, <2>8
    <3>2. Low(z', n) = Low(z, n) + Weight(i)
      BY <2>9, <3>1, Zenon
    <3>3. QED
      BY <1>5, <2>1, <2>2, <3>2
  <2>11. z'.n_alloc = n /\ z'.n_signif = n
    BY <1>1, <2>6, <2>7, <2>8, SetDigitFacts
  <2>12. ResultAsPromised'
    <3>1. d \in 0 .. RADIX - 1
      <4>1. z.digits[i] # MAX_DIGIT
        BY <1>1, <1>8, <2>6 DEF IncrementSettle
      <4>2. z.digits[i] \in 0 .. RADIX - 1
        BY <1>3, <2>6
      <4>3. QED
        BY <4>1, <4>2, Constants
    <3>2. WellFormed(z') /\ ProperCells(z')
      BY <1>1, <2>6, <2>7, <3>1, SetProper
    <3>3. QED
      BY <1>1, <1>3, <1>4, <2>7, <2>10, <2>11, <3>2, IncrementFits DEF n
  <2>13. IncrementValues'
    BY <1>1, <1>2, <1>4, <2>11, <2>3 DEF IncrementValues, n, Value
  <2>14. QED
    BY <1>1, <1>4, <2>12, <2>13, OneValue
<1>9. QED
  BY <1>6, <1>7, <1>8

-----------------------------------------------------------------------------
(* digits_imul_digit: what is returned is the product with a digit. *)
LEMMA MulDigitReturns ==
  ASSUME fn = "imul_digit", UNCHANGED operands,
         NEW n, n = x.n_signif,
         z'.n_signif = ProductCount(Value(x), n, arg),
         Low(z', z'.n_signif) = Value(x) * arg, ret' = 0
  PROVE  ResultAsPromised'
<1>1. fn' = "imul_digit" /\ x' = x /\ y' = y /\ arg' = arg
  BY DEF operands
<1>2. Promise!MultipliedByDigit(z, ret)'
  BY <1>1, PromisedValue, PromisedCounts
     DEF Promise!MultipliedByDigit, Promise!Holds, Promise!Value, Value, Low
<1>3. QED
  BY <1>1, <1>2 DEF ResultAsPromised, Promise!Result

LEMMA MulDigitComputes ==
  ASSUME VInv, IInv', MulDigitStep \/ MulDigitEnd
  PROVE  VInv'
<1> DEFINE n == x.n_signif
<1>1. /\ fn = "imul_digit" /\ arg \in 1 .. MAX_DIGIT
      /\ WellFormed(x) /\ WellFormed(z)
      /\ ProperCells(x) /\ ProperCells(z)
      /\ x.n_alloc = z.n_alloc /\ z.n_signif = n
      /\ carry \in 0 .. arg - 1
      /\ pc = "loop"
      /\ i \in 0 .. n
      /\ SameFrom(z, x, i)
      /\ i = z.n_alloc => carry = 0
  BY DEF VInv, IInv, TypeOK, MulDigitInv, MulDigitStep, MulDigitEnd
<1>2. ret = 0 /\ Low(z, i) + carry * Weight(i) = Low(x, i) * arg
  BY <1>1 DEF VInv, MulDigitValues
<1>3. /\ n \in Nat /\ z.n_alloc \in Nat /\ n =< z.n_alloc
      /\ \A k \in 0 .. z.n_alloc - 1 : z.digits[k] \in 0 .. RADIX - 1
  BY <1>1, Cells, DigitRange
<1>4. UNCHANGED operands /\ ret' = ret /\ fn' = fn /\ x' = x /\ y' = y /\ arg' = arg
  BY DEF MulDigitStep, MulDigitEnd, operands
<1>5. arg \in Int /\ carry \in Int /\ MAX_DIGIT = RADIX - 1 /\ RADIX \in Int
  BY <1>1, Constants
<1> HIDE DEF n
<1>6. CASE MulDigitStep
  <2> DEFINE t == z.digits[i] * arg + carry
  <2> DEFINE d == t % RADIX
  <2> DEFINE c == t \div RADIX
  <2>1. /\ i < n /\ pc' = "loop" /\ z' = SetDigit(z, i, d) /\ carry' = c /\ i' = i + 1
    BY <1>1, <1>6 DEF MulDigitStep
  <2>2. i \in 0 .. z.n_alloc - 1 /\ i \in 0 .. x.n_alloc - 1
    BY <1>1, <1>3, <2>1
  <2>3. z.digits[i] \in 0 .. RADIX - 1 /\ z.digits[i] = x.digits[i] /\ z.digits[i] \in Int
    BY <1>1, <1>3, <1>5, <2>2 DEF SameFrom
  <2>4. t \in Int
    BY <1>5, <2>3
  <2>5. d \in 0 .. RADIX - 1 /\ c \in Int /\ d + c * RADIX = t
    <3> HIDE DEF t
    <3>1. QED
      BY <2>4, Constants
  <2> HIDE DEF d, c
  <2>6. d \in Word /\ d \in Int
    BY <2>5, Constants DEF Word
  <2>7. Low(z', i + 1) = Low(z, i) + d * Weight(i)
    BY <1>1, <2>1, <2>2, <2>6, SetLow
  <2>8. /\ Low(x, i + 1) = Low(x, i) + x.digits[i] * Weight(i)
        /\ Low(x, i) \in Int /\ Weight(i) \in Int
        /\ Weight(i + 1) = RADIX * Weight(i)
    BY <1>1, <2>2, LowNext
  <2>9. Low(z, i) \in Int
    BY <1>1, <2>2, LowNext
  <2>10. (Low(z, i) + d * Weight(i)) + c * (RADIX * Weight(i)) =
           (Low(x, i) + z.digits[i] * Weight(i)) * arg
    <3> DEFINE w == Weight(i)
    <3> DEFINE l == Low(z, i)
    <3> DEFINE u == Low(x, i)
    <3> DEFINE a == z.digits[i]
    <3>1. w \in Int /\ l \in Int /\ u \in Int /\ a \in Int
      BY <2>3, <2>8, <2>9
    <3>2. d + c * RADIX = a * arg + carry /\ l + carry * w = u * arg
      BY <1>2, <2>5
    <3> HIDE DEF w, l, u, a
    <3>3. (l + d * w) + c * (RADIX * w) = (u + a * w) * arg
      <4>1. (d + c * RADIX) * w = d * w + c * (RADIX * w)
        BY <1>5, <2>5, <2>6, <3>1
      <4>2. (a * arg + carry) * w = (a * w) * arg + carry * w
        BY <1>5, <3>1
      <4>3. (u + a * w) * arg = u * arg + (a * w) * arg
        BY <1>5, <3>1
      <4>4. /\ d * w \in Int /\ (a * w) * arg \in Int /\ carry * w \in Int /\ u * arg \in Int
            /\ c * (RADIX * w) \in Int
        BY <1>5, <2>5, <2>6, <3>1
      <4>5. d * w + c * (RADIX * w) = (a * w) * arg + carry * w
        BY <3>2, <4>1, <4>2
      <4>6. QED
        BY <3>1, <3>2, <4>3, <4>4, <4>5
    <3>4. QED
      BY <3>3 DEF w, l, u, a
  <2>11. Low(z', i') + carry' * Weight(i') = Low(x, i') * arg
    BY <2>1, <2>3, <2>7, <2>8, <2>10
  <2>12. MulDigitValues'
    BY <1>2, <1>4, <2>1, <2>11 DEF MulDigitValues
  <2>13. QED
    BY <1>1, <1>4, <2>1, <2>12, OneValue DEF ResultAsPromised
<1>7. CASE MulDigitEnd
  <2>1. /\ i = n /\ pc' = "done"
        /\ z' = IF carry > 0 THEN [SetDigit(z, i, carry) EXCEPT !.n_signif = @ + 1] ELSE z
    BY <1>1, <1>7 DEF MulDigitEnd
  <2> DEFINE w == Weight(n)
  <2> DEFINE l == Low(z, n)
  <2> DEFINE p == Value(x) * arg
  <2>2. l + carry * w = p
    BY <1>2, <2>1 DEF Value, Low, n
  <2>3. l \in Nat /\ l < w /\ w \in Nat \ {0}
    <3>1. n \in 0 .. z.n_alloc
      BY <1>3
    <3>2. QED
      BY <1>1, <3>1, LowRange
  <2>4. ProductCount(Value(x), n, arg) = IF p >= w THEN n + 1 ELSE n
    BY DEF ProductCount
  <2> HIDE DEF w, l, p
  <2>5. z'.n_signif = ProductCount(Value(x), n, arg) /\ Low(z', z'.n_signif) = p
    <3>1. CASE carry > 0
      <4> DEFINE s == SetDigit(z, n, carry)
      <4>1. n \in 0 .. z.n_alloc - 1 /\ carry \in Word /\ n + 1 \in 0 .. z.n_alloc
        BY <1>1, <1>3, <1>5, <2>1, <3>1, Constants DEF Word
      <4>2. WellFormed(s) /\ s.n_alloc = z.n_alloc /\ s.n_signif = n
        BY <1>1, <4>1, SetDigitFacts
      <4>3. Low(s, n + 1) = l + carry * w
        BY <1>1, <4>1, SetLow DEF l, w
      <4> HIDE DEF s
      <4>4. z' = [s EXCEPT !.n_signif = n + 1]
        BY <2>1, <3>1, <4>2 DEF s
      <4>5. z'.n_signif = n + 1 /\ z'.digits = s.digits
        BY <4>1, <4>2, <4>4, SetCountFacts
      <4>6. p >= w
        <5>1. carry * w >= w /\ carry * w \in Int
          BY <1>5, <2>3, <3>1
        <5>2. QED
          BY <2>2, <2>3, <5>1
      <4>7. Low(z', n + 1) = p
        BY <2>2, <4>3, <4>5 DEF Low
      <4>8. QED
        BY <2>4, <4>5, <4>6, <4>7
    <3>2. CASE ~ (carry > 0)
      <4>1. carry = 0 /\ z' = z
        BY <1>1, <1>5, <2>1, <3>2
      <4>2. p = l
        BY <2>2, <2>3, <4>1
      <4>3. ~ (p >= w)
        BY <2>3, <4>2
      <4>4. QED
        BY <1>1, <2>4, <4>1, <4>2, <4>3 DEF l
    <3>3. QED
      BY <3>1, <3>2
  <2>6. ResultAsPromised'
    BY <1>1, <1>2, <1>4, <2>5, MulDigitReturns DEF p, n
  <2>7. MulDigitValues'
    BY <1>2, <1>4, <2>1 DEF MulDigitValues
  <2>8. QED
    BY <1>1, <1>4, <2>6, <2>7, OneValue
<1>8. QED
  BY <1>6, <1>7

-----------------------------------------------------------------------------
(* digits_div_digit: what is returned is the quotient and the remainder. *)
LEMMA DivDigitReturns ==
  ASSUME fn = "div_digit", UNCHANGED operands,
         z'.n_signif = x.n_signif, Value(z') = Value(x) \div arg, ret' = Value(x) % arg
  PROVE  ResultAsPromised'
<1>1. fn' = "div_digit" /\ x' = x /\ y' = y /\ arg' = arg
  BY DEF operands
<1>2. Promise!DividedByDigit(z, ret)'
  BY <1>1, PromisedValue
     DEF Promise!DividedByDigit, Promise!Holds, Promise!Value, Value
<1>3. QED
  BY <1>1, <1>2 DEF ResultAsPromised, Promise!Result

LEMMA DivDigitComputes ==
  ASSUME VInv, IInv', DivDigitStep \/ DivDigitEnd
  PROVE  VInv'
<1> DEFINE n == x.n_signif
<1>1. /\ fn = "div_digit" /\ arg \in 1 .. MAX_DIGIT
      /\ WellFormed(x) /\ WellFormed(z)
      /\ ProperCells(x) /\ ProperCells(z)
      /\ x.n_alloc = n /\ z.n_alloc = n /\ z.n_signif = n
      /\ carry \in 0 .. arg - 1
      /\ pc = "loop"
      /\ i \in -1 .. n - 1
  BY DEF VInv, IInv, TypeOK, DivDigitInv, DivDigitValues, DivDigitStep, DivDigitEnd
<1>2. /\ ret = 0
      /\ Value(x) - Low(x, i + 1) = (Value(z) - Low(z, i + 1)) * arg + carry * Weight(i + 1)
  BY <1>1 DEF VInv, DivDigitValues
<1>3. /\ n \in Nat /\ n \in 0 .. n
      /\ \A k \in 0 .. n - 1 : x.digits[k] \in 0 .. RADIX - 1 /\ z.digits[k] \in Int
      /\ Value(x) = Low(x, n) /\ Value(z) = Low(z, n)
      /\ Value(x) \in Nat /\ Value(z) \in Nat
  <2>1. n \in Nat /\ n \in 0 .. n
    BY <1>1, Cells
  <2>2. \A k \in 0 .. n - 1 : x.digits[k] \in 0 .. RADIX - 1 /\ z.digits[k] \in 0 .. RADIX - 1
    BY <1>1, DigitRange
  <2>3. Value(x) = Low(x, n) /\ Value(z) = Low(z, n)
    BY <1>1 DEF Value, Low
  <2>4. Value(x) \in Nat /\ Value(z) \in Nat
    BY <1>1, <2>1, <2>3, LowRange
  <2>5. QED
    BY <2>1, <2>2, <2>3, <2>4, Constants
<1>4. UNCHANGED operands /\ fn' = fn /\ x' = x /\ y' = y /\ arg' = arg
  BY DEF DivDigitStep, DivDigitEnd, operands
<1>5. arg \in Int /\ arg \in 1 .. RADIX - 1 /\ carry \in Int /\ RADIX \in Int
  BY <1>1, Constants
<1> HIDE DEF n
<1>6. CASE DivDigitStep
  <2> DEFINE t == carry * RADIX + x.digits[i]
  <2> DEFINE d == t \div arg
  <2> DEFINE c == t % arg
  <2>1. /\ i >= 0 /\ pc' = "loop" /\ z' = SetDigit(z, i, d) /\ carry' = c /\ i' = i - 1
        /\ ret' = ret
    BY <1>6 DEF DivDigitStep
  <2>2. i \in 0 .. z.n_alloc - 1 /\ i \in 0 .. x.n_alloc - 1 /\ i \in 0 .. n - 1 /\ i \in Int
        /\ i' + 1 = i /\ n \in i + 1 .. z.n_alloc /\ i \in 0 .. i
    BY <1>1, <1>3, <2>1 DEF n
  <2>3. x.digits[i] \in 0 .. RADIX - 1 /\ x.digits[i] \in Int /\ z.digits[i] \in Int
    BY <1>3, <1>5, <2>2
  <2>4. t \in Int
    BY <1>5, <2>3
  <2>5. d \in 0 .. RADIX - 1 /\ c \in Int /\ d * arg + c = t
    <3>1. d \in 0 .. RADIX - 1
      BY <1>1, <1>5, <2>3, ShortDivision
    <3> HIDE DEF t
    <3>2. c \in Int /\ d * arg + c = t
      BY <1>5, <2>4
    <3>3. QED
      BY <3>1, <3>2
  <2> HIDE DEF d, c
  <2>6. d \in Word /\ d \in Int
    BY <2>5, Constants DEF Word
  <2>7. /\ Low(z', i) = Low(z, i)
        /\ Low(z', n) = Low(z, n) + (d - z.digits[i]) * Weight(i)
    BY <1>1, <2>1, <2>2, <2>6, SetLow
  <2>8. z'.n_alloc = n /\ z'.n_signif = n
    BY <1>1, <2>1, <2>2, <2>6, SetDigitFacts
  <2>9. /\ Low(x, i + 1) = Low(x, i) + x.digits[i] * Weight(i)
        /\ Low(x, i) \in Int /\ Weight(i) \in Int
        /\ Weight(i + 1) = RADIX * Weight(i)
    BY <1>1, <2>2, LowNext
  <2>10. Low(z, i + 1) = Low(z, i) + z.digits[i] * Weight(i) /\ Low(z, i) \in Int
    BY <1>1, <2>2, LowNext
  <2>11. Value(x) - Low(x, i) = (Low(z', n) - Low(z', i)) * arg + c * Weight(i)
    <3> DEFINE w == Weight(i)
    <3> DEFINE l == Low(z, i)
    <3> DEFINE u == Low(x, i)
    <3> DEFINE a == x.digits[i]
    <3> DEFINE b == z.digits[i]
    <3> DEFINE v == Value(x)
    <3> DEFINE q == Low(z, n)
    <3>1. /\ w \in Int /\ l \in Int /\ u \in Int /\ a \in Int /\ b \in Int /\ v \in Int
          /\ q \in Int
      BY <1>3, <2>3, <2>9, <2>10
    <3>2. d * arg + c = carry * RADIX + a
      BY <2>5
    <3>3. v - (u + a * w) = (q - (l + b * w)) * arg + carry * (RADIX * w)
      BY <1>2, <1>3, <2>9, <2>10
    <3> HIDE DEF w, l, u, a, b, v, q, t
    <3>4. v - u = ((q + (d - b) * w) - l) * arg + c * w
      <4> DEFINE h == q - (l + b * w)
      <4>1. (d - b) * w = d * w - b * w /\ d * w \in Int /\ b * w \in Int
        BY <2>6, <3>1
      <4>2. h \in Int /\ (q + (d - b) * w) - l = h + d * w
        BY <3>1, <4>1
      <4> HIDE DEF h
      <4>3. (h + d * w) * arg = h * arg + (d * w) * arg
        BY <1>5, <4>1, <4>2
      <4>4. (d * arg + c) * w = (d * w) * arg + c * w
        BY <1>5, <2>5, <2>6, <3>1
      <4>5. (carry * RADIX + a) * w = carry * (RADIX * w) + a * w
        BY <1>5, <3>1
      <4>6. /\ h * arg \in Int /\ (d * w) * arg \in Int /\ c * w \in Int
            /\ carry * (RADIX * w) \in Int /\ a * w \in Int
        BY <1>5, <2>5, <3>1, <4>1, <4>2
      <4>7. (d * w) * arg + c * w = carry * (RADIX * w) + a * w
        BY <3>2, <4>4, <4>5
      <4>8. v - (u + a * w) = h * arg + carry * (RADIX * w)
        BY <3>3 DEF h
      <4>9. v - u = (h * arg + (d * w) * arg) + c * w
        <5> DEFINE p == h * arg
        <5> DEFINE r == (d * w) * arg
        <5> DEFINE s == c * w
        <5> DEFINE k == carry * (RADIX * w)
        <5> DEFINE m == a * w
        <5>1. /\ p \in Int /\ r \in Int /\ s \in Int /\ k \in Int /\ m \in Int
              /\ r + s = k + m /\ v - (u + m) = p + k
          BY <4>6, <4>7, <4>8
        <5> HIDE DEF p, r, s, k, m
        <5>2. v - u = (p + r) + s
          BY <3>1, <5>1
        <5>3. QED
          BY <5>2 DEF p, r, s
      <4>10. QED
        BY <4>2, <4>3, <4>9
    <3>5. QED
      BY <2>7, <3>4 DEF w, l, u, b, v, q
  <2>12. DivDigitValues'
    <3>1. /\ Value(x)' = Value(x) /\ Low(x, i + 1)' = Low(x, i)
          /\ Value(z)' = Low(z', n) /\ Low(z, i + 1)' = Low(z', i)
          /\ Weight(i + 1)' = Weight(i)
      BY <1>4, <2>2, <2>8 DEF Value, Low
    <3>2. QED
      BY <1>1, <1>2, <1>4, <2>1, <2>8, <2>11, <3>1 DEF DivDigitValues, n
  <2>13. QED
    BY <1>1, <1>4, <2>1, <2>12, OneValue DEF ResultAsPromised
<1>7. CASE DivDigitEnd
  <2>1. i = -1 /\ ret' = carry /\ pc' = "done" /\ z' = z
    BY <1>1, <1>3, <1>7 DEF DivDigitEnd
  <2>2. Value(x) = carry + Value(z) * arg
    <3>1. i + 1 = 0
      BY <2>1
    <3>2. Value(x) - 0 = (Value(z) - 0) * arg + carry * 1
      BY <1>2, <3>1, LowZero, WeightZero
    <3> DEFINE p == Value(z) * arg
    <3>3. p \in Int /\ Value(z) - 0 = Value(z)
      BY <1>3, <1>5
    <3>4. Value(x) - 0 = p + carry * 1
      BY <3>2, <3>3
    <3> HIDE DEF p
    <3>5. Value(x) = carry + p
      BY <1>3, <1>5, <3>3, <3>4
    <3>6. QED
      BY <3>5 DEF p
  <2>3. Value(x) \div arg = Value(z) /\ Value(x) % arg = carry
    <3>1. arg \in Nat \ {0} /\ carry \in Nat /\ carry < arg /\ Value(x) \in Int
      BY <1>1, <1>3, <1>5
    <3>2. QED
      BY <1>3, <2>2, <3>1, LowAndHigh
  <2>4. ResultAsPromised'
    BY <1>1, <1>4, <2>1, <2>3, DivDigitReturns DEF n
  <2>5. DivDigitValues'
    BY <1>1, <1>4, <2>1 DEF DivDigitValues, n
  <2>6. QED
    BY <1>1, <1>4, <2>4, <2>5, OneValue
<1>8. QED
  BY <1>6, <1>7

-----------------------------------------------------------------------------
(***************************************************************************)
(* digits_cmp: the operands from the index on at which the shorter one is  *)
(* aligned with the longer one.                                            *)
(***************************************************************************)
Lead(a, n) == From(a.digits, a.n_signif - n)

LEMMA LeadFacts ==
  ASSUME NEW a, WellFormed(a), ProperCells(a), NEW n \in Nat, n =< a.n_signif
  PROVE  /\ Digital(Lead(a, n), n)
         /\ ValueOf(a.digits, a.n_signif) \div Weight(a.n_signif - n) = ValueOf(Lead(a, n), n)
         /\ ValueOf(Lead(a, n), n) \in Nat
         /\ \A k \in 0 .. n - 1 : Lead(a, n)[k] = a.digits[(a.n_signif - n) + k]
<1> DEFINE l == a.n_signif
<1> DEFINE m == l - n
<1>1. l \in Nat /\ m \in Nat /\ m =< l /\ l - m = n /\ l \in 0 .. a.n_alloc
  BY Cells
<1>2. Digital(a.digits, l)
  BY <1>1, Cells
<1> HIDE DEF l, m
<1>3. /\ ValueOf(a.digits, l) \div Weight(m) = ValueOf(From(a.digits, m), l - m)
      /\ Digital(From(a.digits, m), l - m)
  BY <1>1, <1>2, ValueDivides
<1>4. ValueOf(From(a.digits, m), n) \in Nat /\ Digital(From(a.digits, m), n)
  BY <1>1, <1>3, ValueRange
<1>5. \A k \in 0 .. n - 1 : From(a.digits, m)[k] = a.digits[m + k]
  BY DEF From
<1>6. QED
  BY <1>1, <1>3, <1>4, <1>5 DEF Lead, l, m

LEMMA CmpComputes ==
  ASSUME VInv, IInv', CmpStep
  PROVE  VInv'
<1> DEFINE xn == x.n_signif
<1> DEFINE yn == y.n_signif
<1> DEFINE yi == yn - 1 - j
<1> DEFINE n == MIN(xn, yn)
<1>1. /\ fn = "cmp" /\ pc = "loop" /\ z = x
      /\ WellFormed(x) /\ WellFormed(y) /\ ProperCells(x) /\ ProperCells(y)
      /\ i \in Int /\ j \in Nat
      /\ i + j = xn - 1 /\ j =< xn /\ j =< yn
      /\ \A k \in 1 .. j : x.digits[xn - k] = y.digits[yn - k]
  BY DEF VInv, IInv, TypeOK, CmpValues, CmpStep
<1>2. UNCHANGED operands /\ fn' = fn /\ x' = x /\ y' = y /\ z' = z
  BY DEF CmpStep, operands
<1>3. /\ xn \in Nat /\ yn \in Nat /\ n \in Nat /\ n =< xn /\ n =< yn /\ (n = xn \/ n = yn)
      /\ xn =< x.n_alloc /\ yn =< y.n_alloc /\ x.n_alloc \in Nat /\ y.n_alloc \in Nat
  <2>1. xn \in Nat /\ yn \in Nat /\ xn =< x.n_alloc /\ yn =< y.n_alloc
        /\ x.n_alloc \in Nat /\ y.n_alloc \in Nat
    BY <1>1, Cells
  <2>2. QED
    BY <2>1 DEF MIN
<1> DEFINE d == Lead(x, n)
<1> DEFINE e == Lead(y, n)
<1>4. /\ Digital(d, n) /\ Digital(e, n)
      /\ Value(x) \div Weight(xn - n) = ValueOf(d, n)
      /\ Value(y) \div Weight(yn - n) = ValueOf(e, n)
      /\ ValueOf(d, n) \in Nat /\ ValueOf(e, n) \in Nat
      /\ \A k \in 0 .. n - 1 : d[k] = x.digits[(xn - n) + k] /\ e[k] = y.digits[(yn - n) + k]
  BY <1>1, <1>3, LeadFacts DEF Value
<1>5. CmpAligned(Value(x), xn, Value(y), yn) =
        IF ValueOf(d, n) # ValueOf(e, n) THEN CMP(ValueOf(d, n), ValueOf(e, n)) ELSE CMP(xn, yn)
  BY <1>4 DEF CmpAligned
<1>6. ASSUME NEW k \in n - j .. n - 1, k >= 0 PROVE d[k] = e[k]
  <2>1. k \in 0 .. n - 1 /\ n - k \in 1 .. j /\ (xn - n) + k = xn - (n - k)
        /\ (yn - n) + k = yn - (n - k)
    BY <1>1, <1>3
  <2>2. QED
    BY <1>1, <1>4, <2>1
<1> DEFINE c == CmpAligned(Value(x), xn, Value(y), yn)
<1>7. ASSUME pc' = "done", ret' = c PROVE VInv'
  <2>1. Promise!Compared(z, ret)'
    BY <1>1, <1>2, <1>7, PromisedValue, PromisedComparison
       DEF Promise!Compared, Promise!Value, Value
  <2>2. ResultAsPromised'
    BY <1>1, <1>2, <2>1 DEF ResultAsPromised, Promise!Result
  <2>3. CmpValues'
    BY <1>1, <1>2, <1>7 DEF CmpValues
  <2>4. QED
    BY <1>1, <1>2, <2>2, <2>3, OneValue
<1> HIDE DEF d, e
<1>8. CASE i >= 0 /\ yi >= 0
  <2>1. j =< n - 1 /\ n - 1 - j \in 0 .. n - 1
    BY <1>1, <1>3, <1>8
  <2>2. (xn - n) + (n - 1 - j) = i /\ (yn - n) + (n - 1 - j) = yi
    BY <1>1, <1>3
  <2>3. d[n - 1 - j] = x.digits[i] /\ e[n - 1 - j] = y.digits[yi]
    BY <1>4, <2>1, <2>2
  <2>4. CASE x.digits[i] # y.digits[yi]
    <3> DEFINE p == n - 1 - j
    <3>1. ret' = CMP(x.digits[i], y.digits[yi]) /\ pc' = "done"
      BY <1>8, <2>4 DEF CmpStep
    <3>2. p \in 0 .. n - 1 /\ \A k \in p + 1 .. n - 1 : d[k] = e[k]
      BY <1>1, <1>3, <1>6, <2>1
    <3>3. d[p] \in Int /\ e[p] \in Int /\ d[p] # e[p]
      BY <1>4, <2>3, <2>4, <3>2, DigitalIntegral, Constants DEF Digital
    <3>4. d[p] = x.digits[i] /\ e[p] = y.digits[yi]
      BY <2>3
    <3> HIDE DEF p, n
    <3>5. CASE e[p] < d[p]
      <4>1. ValueOf(e, n) < ValueOf(d, n)
        BY <1>3, <1>4, <3>2, <3>5, ValueOrder
      <4>2. c = 1
        BY <1>4, <1>5, <4>1 DEF CMP
      <4>3. ret' = 1
        BY <3>1, <3>3, <3>4, <3>5 DEF CMP
      <4>4. QED
        BY <1>7, <3>1, <4>2, <4>3
    <3>6. CASE d[p] < e[p]
      <4>1. \A k \in p + 1 .. n - 1 : e[k] = d[k]
        BY <3>2
      <4>2. ValueOf(d, n) < ValueOf(e, n)
        BY <1>3, <1>4, <3>2, <3>6, <4>1, ValueOrder
      <4>3. c = -1
        BY <1>4, <1>5, <4>2 DEF CMP
      <4>4. ret' = -1
        BY <3>1, <3>3, <3>4, <3>6 DEF CMP
      <4>5. QED
        BY <1>7, <3>1, <4>3, <4>4
    <3>7. QED
      BY <3>3, <3>5, <3>6
  <2>5. CASE x.digits[i] = y.digits[yi]
    <3>1. i' = i - 1 /\ j' = j + 1 /\ pc' = pc
      BY <1>8, <2>5 DEF CmpStep
    <3>2. /\ i' + j' = xn - 1 /\ j' =< xn /\ j' =< yn
      BY <1>1, <1>3, <1>8, <3>1
    <3>3. \A k \in 1 .. j' : x.digits[xn - k] = y.digits[yn - k]
      <4>1. xn - (j + 1) = i /\ yn - (j + 1) = yi
        BY <1>1, <1>3
      <4>2. \A k \in 1 .. j + 1 : k \in 1 .. j \/ k = j + 1
        BY <1>1
      <4>3. QED
        BY <1>1, <2>5, <3>1, <4>1, <4>2
    <3>4. CmpValues'
      BY <1>1, <1>2, <3>1, <3>2, <3>3 DEF CmpValues
    <3>5. QED
      BY <1>1, <1>2, <3>1, <3>4, OneValue DEF ResultAsPromised
  <2>6. QED
    BY <2>4, <2>5
<1>9. CASE ~ (i >= 0 /\ yi >= 0)
  <2>1. ret' = CMP(xn, yn) /\ pc' = "done"
    BY <1>9 DEF CmpStep
  <2>2. j = n
    BY <1>1, <1>3, <1>9 DEF MIN
  <2>3. \A k \in 0 .. n - 1 : d[k] = e[k]
    BY <1>3, <1>6, <2>2
  <2>4. ValueOf(d, n) = ValueOf(e, n)
    <3>1. Integral(d, n) /\ n \in 0 .. n
      BY <1>3, <1>4, DigitalIntegral
    <3> HIDE DEF n
    <3>2. QED
      BY <1>3, <2>3, <3>1, ValueSame
  <2>5. QED
    BY <1>5, <1>7, <2>1, <2>4
<1>10. QED
  BY <1>8, <1>9

-----------------------------------------------------------------------------
(***************************************************************************)
(* digits_eliminate_trailing_zeros: as many digits of 0 as were skipped    *)
(* there are at the end, and what remains is the number without them.      *)
(***************************************************************************)
LEMMA SkippedZeros ==
  ASSUME NEW a, WellFormed(a), ProperCells(a), NEW k \in 0 .. a.n_signif,
         \A m \in 0 .. k - 1 : a.digits[m] = 0, k < a.n_signif => a.digits[k] # 0
  PROVE  TrailingZeroDigits(Value(a), a.n_signif) = k
<1> DEFINE n == a.n_signif
<1> DEFINE v == Value(a)
<1>1. n \in Nat /\ n \in 0 .. a.n_alloc
  BY Cells
<1>2. Digital(a.digits, n)
  BY <1>1, Cells
<1>3. \A m \in 0 .. n - 1 : DigitAt(v, m) = a.digits[m]
  <2> SUFFICES ASSUME NEW m \in 0 .. n - 1 PROVE DigitAt(v, m) = a.digits[m]
    OBVIOUS
  <2>1. m \in Nat /\ m < n
    BY <1>1
  <2>2. QED
    BY <1>1, <1>2, <2>1, DigitAtDigit DEF Value
<1> HIDE DEF v
<1> DEFINE Fits(l) == /\ \A m \in 0 .. l - 1 : DigitAt(v, m) = 0
                      /\ l < n => DigitAt(v, l) # 0
<1>4. Fits(k)
  BY <1>1, <1>3
<1>5. ASSUME NEW l \in 0 .. n, Fits(l) PROVE l = k
  <2>1. l \in Nat /\ k \in Nat /\ k =< n /\ l =< n
    BY <1>1
  <2>2. ~ (l < k)
    <3>1. SUFFICES ASSUME l < k PROVE FALSE
      OBVIOUS
    <3>2. l \in 0 .. k - 1 /\ l < n
      BY <1>1, <2>1, <3>1
    <3>3. QED
      BY <1>4, <1>5, <3>2, Zenon
  <2>3. ~ (k < l)
    <3>1. SUFFICES ASSUME k < l PROVE FALSE
      OBVIOUS
    <3>2. k \in 0 .. l - 1 /\ k < n
      BY <1>1, <2>1, <3>1
    <3>3. QED
      BY <1>4, <1>5, <3>2, Zenon
  <2>4. QED
    BY <2>1, <2>2, <2>3
<1>6. TrailingZeroDigits(v, n) = CHOOSE l \in 0 .. n : Fits(l)
  BY DEF TrailingZeroDigits
<1> HIDE DEF Fits
<1>7. QED
  BY <1>4, <1>5, <1>6 DEF v

LEMMA EliminateReturns ==
  ASSUME fn = "eliminate_trailing_zeros", UNCHANGED operands,
         WellFormed(x), ProperCells(x), NEW k \in 0 .. x.n_signif,
         \A m \in 0 .. k - 1 : x.digits[m] = 0, k < x.n_signif => x.digits[k] # 0,
         z'.n_signif = x.n_signif - k, Value(z') = Value(x) \div Weight(k), ret' = k
  PROVE  ResultAsPromised'
<1>1. fn' = "eliminate_trailing_zeros" /\ x' = x
  BY DEF operands
<1>2. TrailingZeroDigits(Value(x), x.n_signif) = k
  BY SkippedZeros
<1>3. Promise!Trimmed(z, ret)'
  BY <1>1, <1>2, PromisedValue, PromisedZeros, PromisedWeight
     DEF Promise!Trimmed, Promise!Holds, Promise!Value, Value
<1>4. QED
  BY <1>1, <1>3 DEF ResultAsPromised, Promise!Result

LEMMA EliminateComputes ==
  ASSUME VInv, IInv', FindLeastSignificant \/ Found \/ MoveDown \/ MoveEnd
  PROVE  VInv'
<1> DEFINE n == x.n_signif
<1>1. /\ fn = "eliminate_trailing_zeros"
      /\ WellFormed(x) /\ WellFormed(z) /\ ProperCells(x) /\ ProperCells(z)
      /\ x.n_alloc = n /\ z.n_alloc = n /\ i \in 0 .. n
      /\ pc = "loop" => z = x /\ ret = 0 /\ j = 0
      /\ \A k \in 0 .. i - 1 : x.digits[k] = 0
      /\ pc = "carry" =>
           /\ ret = i /\ z.n_signif = n - i /\ j \in 0 .. z.n_signif
           /\ i < n => x.digits[i] # 0
           /\ \A k \in 0 .. j - 1 : z.digits[k] = x.digits[i + k]
           /\ SameFrom(z, x, j)
      /\ pc = "loop" \/ pc = "carry"
  BY DEF VInv, IInv, TypeOK, EliminateInv, EliminateValues,
         FindLeastSignificant, Found, MoveDown, MoveEnd
<1>2. n \in Nat /\ n \in 0 .. x.n_alloc
  BY <1>1, Cells
<1>3. UNCHANGED operands /\ fn' = fn /\ x' = x /\ y' = y
  BY DEF FindLeastSignificant, Found, MoveDown, MoveEnd, operands
<1> HIDE DEF n
<1>5. CASE FindLeastSignificant
  <2>1. pc = "loop" /\ pc' = "loop" /\ i < z.n_signif /\ z.digits[i] = 0 /\ i' = i + 1
        /\ z' = z /\ ret' = ret
    BY <1>5 DEF FindLeastSignificant
  <2>2. \A k \in 0 .. i' - 1 : x.digits[k] = 0
    <3>1. \A k \in 0 .. (i + 1) - 1 : k \in 0 .. i - 1 \/ k = i
      BY <1>1, <1>2
    <3>2. QED
      BY <1>1, <2>1, <3>1
  <2>3. EliminateValues'
    BY <1>1, <1>3, <2>1, <2>2 DEF EliminateValues, n
  <2>4. QED
    BY <1>1, <1>3, <2>1, <2>3, OneValue DEF ResultAsPromised
<1>6. CASE Found
  <2>1. /\ pc = "loop" /\ i < n => x.digits[i] # 0
        /\ ret' = i /\ i' = i /\ j' = 0
        /\ z' = [x EXCEPT !.n_signif = n - i]
        /\ pc' = IF i = 0 THEN "done" ELSE "carry"
    BY <1>1, <1>6 DEF Found, n
  <2>2. z'.n_alloc = n /\ z'.n_signif = n - i /\ z'.digits = x.digits
    <3>1. n - i \in 0 .. x.n_alloc
      BY <1>1, <1>2
    <3>2. QED
      BY <1>1, <2>1, <3>1, SetCountFacts
  <2>3. CASE i = 0
    <3>1. n - 0 = n
      BY <1>2
    <3>2. Value(x) \in Nat
      BY <1>1, <1>2, LowRange DEF Value, Low, n
    <3>3. Value(x) \div 1 = Value(x)
      BY <3>2
    <3>4. Value(z') = Value(x)
      BY <2>2, <2>3, <3>1 DEF Value, n
    <3>5. Value(z') = Value(x) \div Weight(0)
      BY <3>3, <3>4, WeightZero
    <3>6. ResultAsPromised'
      BY <1>1, <1>3, <2>1, <2>2, <2>3, <3>5, EliminateReturns DEF n
    <3>7. EliminateValues'
      BY <1>1, <1>3, <2>1, <2>2, <2>3 DEF EliminateValues, n
    <3>8. QED
      BY <1>1, <1>3, <3>6, <3>7, OneValue
  <2>4. CASE i # 0
    <3>1. SameFrom(z', x, 0) /\ \A k \in 0 .. 0 - 1 : z'.digits[k] = x.digits[i + k]
      BY <2>2 DEF SameFrom
    <3>2. EliminateValues'
      BY <1>1, <1>3, <2>1, <2>2, <2>4, <3>1 DEF EliminateValues, n
    <3>3. QED
      BY <1>1, <1>3, <2>1, <2>4, <3>2, OneValue DEF ResultAsPromised
  <2>5. QED
    BY <2>3, <2>4
<1>7. CASE MoveDown
  <2>1. /\ pc = "carry" /\ pc' = "carry" /\ j < z.n_signif /\ j' = j + 1 /\ i' = i /\ ret' = ret
        /\ z' = SetDigit(z, j, z.digits[i + j])
    BY <1>7 DEF MoveDown
  <2>2. /\ j \in 0 .. n - 1 /\ i + j \in j .. n - 1 /\ i + j \in 0 .. n - 1 /\ j \in Int
        /\ i \in Int
    BY <1>1, <1>2, <2>1
  <2>3. z.digits[i + j] = x.digits[i + j] /\ z.digits[i + j] \in Word
    BY <1>1, <2>1, <2>2 DEF SameFrom, WellFormed
  <2>4. /\ z'.n_alloc = n /\ z'.n_signif = z.n_signif /\ z'.digits[j] = x.digits[i + j]
        /\ \A k \in 0 .. n - 1 : k # j => z'.digits[k] = z.digits[k]
    BY <1>1, <2>1, <2>2, <2>3, SetDigitFacts
  <2>5. \A k \in 0 .. j' - 1 : z'.digits[k] = x.digits[i + k]
    <3>1. \A k \in 0 .. (j + 1) - 1 : k = j \/ (k \in 0 .. j - 1 /\ k # j /\ k \in 0 .. n - 1)
      BY <1>2, <2>2
    <3>2. QED
      BY <1>1, <2>1, <2>4, <3>1
  <2>6. SameFrom(z', x, j')
    <3>1. \A k \in j + 1 .. n - 1 : k # j /\ k \in 0 .. n - 1 /\ k \in j .. n - 1
      BY <1>2, <2>2
    <3>2. QED
      BY <1>1, <2>1, <2>4, <3>1 DEF SameFrom
  <2>7. EliminateValues'
    BY <1>1, <1>3, <2>1, <2>4, <2>5, <2>6 DEF EliminateValues, n
  <2>8. QED
    BY <1>1, <1>3, <2>1, <2>7, OneValue DEF ResultAsPromised
<1>8. CASE MoveEnd
  <2>1. pc = "carry" /\ j = z.n_signif /\ pc' = "done" /\ z' = z /\ i' = i /\ ret' = ret
    BY <1>8 DEF MoveEnd
  <2>2. i \in Nat /\ i =< n /\ n - i \in Nat /\ j = n - i /\ j \in Nat
    BY <1>1, <1>2, <2>1
  <2>3. Digital(x.digits, n)
    BY <1>1, <1>2, Cells
  <2>4. Value(x) \div Weight(i) = ValueOf(From(x.digits, i), n - i)
        /\ Digital(From(x.digits, i), n - i)
    BY <1>2, <2>2, <2>3, ValueDivides DEF Value, n
  <2>5. \A k \in 0 .. (n - i) - 1 : From(x.digits, i)[k] = z.digits[k]
    BY <1>1, <2>1, <2>2 DEF From
  <2>6. Integral(From(x.digits, i), n - i)
    <3>1. n - i \in 0 .. n - i
      BY <2>2
    <3>2. QED
      BY <2>2, <2>4, <3>1, DigitalIntegral
  <2>7. ValueOf(From(x.digits, i), n - i) = ValueOf(z.digits, n - i)
    <3> DEFINE m == n - i
    <3>1. m \in Nat /\ Integral(From(x.digits, i), m)
          /\ \A k \in 0 .. m - 1 : From(x.digits, i)[k] = z.digits[k]
      BY <2>2, <2>5, <2>6
    <3> HIDE DEF m
    <3>2. ValueOf(From(x.digits, i), m) = ValueOf(z.digits, m)
      BY <3>1, ValueSame
    <3>3. QED
      BY <3>2 DEF m
  <2>8. Value(z') = Value(x) \div Weight(i)
    BY <1>1, <2>1, <2>4, <2>7 DEF Value
  <2>9. ResultAsPromised'
    BY <1>1, <1>3, <2>1, <2>8, EliminateReturns DEF n
  <2>10. EliminateValues'
    BY <1>1, <1>3, <2>1 DEF EliminateValues, n
  <2>11. QED
    BY <1>1, <1>3, <2>9, <2>10, OneValue
<1>9. QED
  BY <1>5, <1>6, <1>7, <1>8

-----------------------------------------------------------------------------
(* digits_mul: what is returned is the product. *)
LEMMA MulReturns ==
  ASSUME fn = "mul", UNCHANGED operands, z'.n_signif = x.n_signif + y.n_signif,
         Value(z') = Value(x) * Value(y), ret' = 0
  PROVE  ResultAsPromised'
<1>1. fn' = "mul" /\ x' = x /\ y' = y
  BY DEF operands
<1>2. Promise!Multiplied(z, ret)'
  BY <1>1, PromisedValue DEF Promise!Multiplied, Promise!Holds, Promise!Value, Value
<1>3. QED
  BY <1>1, <1>2 DEF ResultAsPromised, Promise!Result

LEMMA MulComputes ==
  ASSUME VInv, IInv', MulStep \/ MulRow \/ MulEnd
  PROVE  VInv'
<1> DEFINE xn == x.n_signif
<1> DEFINE yn == y.n_signif
<1> DEFINE top == j + xn
<1> DEFINE v == y.digits[j] * Weight(j)
<1>1. /\ fn = "mul" /\ pc = "loop" /\ ret = 0
      /\ WellFormed(x) /\ WellFormed(y) /\ WellFormed(z)
      /\ ProperCells(x) /\ ProperCells(y) /\ ProperCells(z)
      /\ xn >= 1 /\ z.n_alloc = xn + yn /\ z.n_signif = xn + yn
      /\ i \in 0 .. xn /\ j \in 0 .. yn
  BY DEF VInv, IInv, TypeOK, MulInv, MulValues, MulStep, MulRow, MulEnd
<1>2. j = yn => i = 0 /\ Value(z) = Value(x) * Value(y)
  BY <1>1 DEF VInv, MulValues
<1>3. j # yn =>
        /\ Low(z, top) + z.digits[top] * Weight(i + j) =
             Value(x) * Low(y, j) + Low(x, i) * v
        /\ i = 0 => z.digits[top] = 0
        /\ \A k \in top + 1 .. z.n_alloc - 1 : z.digits[k] = 0
  BY <1>1 DEF VInv, MulValues
<1>4. /\ xn \in Nat \ {0} /\ yn \in Nat /\ xn =< x.n_alloc /\ yn =< y.n_alloc
      /\ x.n_alloc \in Nat /\ y.n_alloc \in Nat
  BY <1>1, Cells
<1>5. UNCHANGED operands /\ fn' = fn /\ x' = x /\ y' = y /\ ret' = ret
  BY DEF MulStep, MulRow, MulEnd, operands
<1>6. i \in Nat /\ j \in Nat /\ top \in Nat /\ i + j \in Nat
  BY <1>1, <1>4
<1> HIDE DEF xn, yn
<1>7. Value(x) \in Int
  <2>1. xn \in 0 .. x.n_alloc
    BY <1>4
  <2>2. QED
    BY <1>1, <2>1, LowType DEF Value, Low, xn
<1>8. CASE MulStep
  <2> DEFINE a == x.digits[i]
  <2> DEFINE e == y.digits[j]
  <2> DEFINE b == z.digits[i + j]
  <2> DEFINE q == z.digits[top]
  <2> DEFINE t == a * e + b + q
  <2> DEFINE d == t % RADIX
  <2> DEFINE c == t \div RADIX
  <2> DEFINE s == SetDigit(z, i + j, d)
  <2>1. /\ j < yn /\ i < xn /\ i' = i + 1 /\ j' = j /\ pc' = "loop"
        /\ z' = SetDigit(s, top, c)
    BY <1>1, <1>8 DEF MulStep, xn, yn
  <2>2. /\ i \in 0 .. x.n_alloc - 1 /\ j \in 0 .. y.n_alloc - 1
        /\ i + j \in 0 .. z.n_alloc - 1 /\ top \in 0 .. z.n_alloc - 1
        /\ i + j < top /\ top \in i + j + 1 .. z.n_alloc /\ top \in 0 .. top
    BY <1>1, <1>4, <1>6, <2>1
  <2>3. /\ a \in 0 .. RADIX - 1 /\ e \in 0 .. RADIX - 1 /\ b \in 0 .. RADIX - 1
        /\ q \in 0 .. RADIX - 1
    BY <1>1, <2>2, DigitRange
  <2> HIDE DEF a, e, b, q
  <2>4. a \in Int /\ e \in Int /\ b \in Int /\ q \in Int /\ t \in Int
    BY <2>3, Constants
  <2>5. d \in 0 .. RADIX - 1 /\ c \in Int /\ d + c * RADIX = t
    <3> HIDE DEF t
    <3>1. QED
      BY <2>4, Constants
  <2>6. c \in Word
    <3>1. t \in Nat /\ t < RADIX * RADIX
      <4>1. a * e \in Nat /\ a * e =< (RADIX - 1) * (RADIX - 1)
        <5>1. a * e =< (RADIX - 1) * e /\ (RADIX - 1) * e =< (RADIX - 1) * (RADIX - 1)
              /\ a * e \in Nat /\ (RADIX - 1) * e \in Nat /\ (RADIX - 1) * (RADIX - 1) \in Nat
          BY <2>3, Constants
        <5>2. QED
          BY <5>1
      <4>2. (RADIX - 1) * (RADIX - 1) = RADIX * RADIX - RADIX - RADIX + 1
            /\ RADIX * RADIX \in Int
        BY Constants
      <4> DEFINE p == a * e
      <4> DEFINE r == RADIX * RADIX
      <4>3. p \in Nat /\ r \in Int /\ p =< r - RADIX - RADIX + 1
        BY <4>1, <4>2
      <4> HIDE DEF p, r
      <4>4. p + b + q \in Nat /\ p + b + q < r
        BY <2>3, <4>3, Constants
      <4>5. QED
        BY <4>4 DEF p, r
    <3>2. RADIX \in 1 .. RADIX
      BY Constants
    <3> HIDE DEF t
    <3>3. c \in 0 .. RADIX - 1
      BY <3>1, <3>2, ProductSplit
    <3>4. QED
      BY <3>3, Constants DEF Word
  <2>7. d \in Word /\ d \in Int
    BY <2>5, Constants DEF Word
  <2> HIDE DEF d, c
  <2>8. /\ WellFormed(s) /\ s.n_alloc = z.n_alloc /\ s.n_signif = z.n_signif
        /\ \A k \in 0 .. z.n_alloc - 1 : k # i + j => s.digits[k] = z.digits[k]
    BY <1>1, <2>2, <2>7, SetDigitFacts
  <2>9. Low(s, top) = Low(z, top) + (d - b) * Weight(i + j)
    BY <1>1, <2>2, <2>7, SetLow DEF b
  <2> HIDE DEF s
  <2>10. /\ z'.n_alloc = z.n_alloc /\ z'.n_signif = z.n_signif /\ z'.digits[top] = c
         /\ \A k \in 0 .. z.n_alloc - 1 : k # top => z'.digits[k] = s.digits[k]
    BY <2>1, <2>2, <2>6, <2>8, SetDigitFacts
  <2>11. Low(z', top) = Low(z, top) + (d - b) * Weight(i + j)
    BY <2>1, <2>2, <2>6, <2>8, <2>9, SetLow
  <2>12. /\ Low(x, i + 1) = Low(x, i) + a * Weight(i)
         /\ Low(x, i) \in Int /\ Weight(i) \in Int
    BY <1>1, <2>2, LowNext DEF a
  <2>13. Low(y, j) \in Int /\ Weight(j) \in Int
    BY <1>1, <2>2, LowNext
  <2>14. /\ Weight(i + j) \in Int /\ Low(z, top) \in Int
         /\ Weight((i + 1) + j) = RADIX * Weight(i + j)
    <3>1. (i + 1) + j = (i + j) + 1
      BY <1>6
    <3>2. QED
      BY <1>1, <2>2, <3>1, LowNext
  <2>15. Weight(i + j) = Weight(i) * Weight(j)
    <3>1. i =< i + j /\ (i + j) - i = j
      BY <1>6
    <3> DEFINE m == i + j
    <3>2. i \in Nat /\ m \in Nat /\ i =< m /\ m - i = j
      BY <1>6, <3>1
    <3> HIDE DEF m
    <3>3. Weight(m) = Weight(i) * Weight(j)
      BY <3>2, WeightSplit
    <3>4. QED
      BY <3>3 DEF m
  <2>16. Low(z', top) + c * (RADIX * Weight(i + j)) =
           Value(x) * Low(y, j) + (Low(x, i) + a * Weight(i)) * v
    <3> DEFINE wi == Weight(i)
    <3> DEFINE wj == Weight(j)
    <3> DEFINE w == Weight(i + j)
    <3> DEFINE l == Low(z, top)
    <3> DEFINE u == Low(x, i)
    <3> DEFINE g == Value(x) * Low(y, j)
    <3>1. /\ wi \in Int /\ wj \in Int /\ w \in Int /\ l \in Int /\ u \in Int /\ g \in Int
          /\ w = wi * wj
      BY <1>7, <2>12, <2>13, <2>14, <2>15
    <3>2. d + c * RADIX = a * e + b + q /\ v = e * wj
      BY <2>5 DEF e
    <3>3. l + q * w = g + u * v
      BY <1>3, <2>1, <2>4, <1>6 DEF q
    <3> HIDE DEF wi, wj, w, l, u, g, t, v
    <3>4. v \in Int
      BY <2>4, <3>1, <3>2
    <3>5. (l + (d - b) * w) + c * (RADIX * w) = g + (u + a * wi) * v
      <4>1. (d + c * RADIX) * w = d * w + c * (RADIX * w)
        BY <2>5, <2>7, <3>1, Constants
      <4>2. (a * e + b + q) * w = (a * e) * w + b * w + q * w
        <5> DEFINE f == a * e
        <5>1. f \in Int
          BY <2>4
        <5> HIDE DEF f
        <5>2. (f + b + q) * w = f * w + b * w + q * w
          BY <2>4, <3>1, <5>1
        <5>3. QED
          BY <5>2 DEF f
      <4>3. (d - b) * w = d * w - b * w
        BY <2>4, <2>7, <3>1
      <4>4. (u + a * wi) * v = u * v + (a * wi) * v
        BY <2>4, <3>1, <3>4
      <4>5. (a * wi) * v = (a * e) * w
        <5>1. (a * wi) * (e * wj) = (a * e) * (wi * wj)
          BY <2>4, <3>1
        <5>2. QED
          BY <3>1, <3>2, <5>1
      <4> DEFINE p1 == d * w
      <4> DEFINE p2 == c * (RADIX * w)
      <4> DEFINE p3 == (a * e) * w
      <4> DEFINE p4 == b * w
      <4> DEFINE p5 == q * w
      <4> DEFINE p6 == u * v
      <4>6. /\ p1 \in Int /\ p2 \in Int /\ p3 \in Int /\ p4 \in Int /\ p5 \in Int
            /\ p6 \in Int
        BY <2>4, <2>5, <2>7, <3>1, <3>4, Constants
      <4>7. p1 + p2 = p3 + p4 + p5
        BY <3>2, <4>1, <4>2
      <4>8. l + p5 = g + p6 /\ (d - b) * w = p1 - p4 /\ (u + a * wi) * v = p6 + p3
        BY <3>3, <4>3, <4>4, <4>5
      <4> HIDE DEF p1, p3, p4, p5, p6
      <4>9. (l + (p1 - p4)) + p2 = g + (p6 + p3)
        <5> HIDE DEF p2
        <5>1. QED
          BY <3>1, <4>6, <4>7, <4>8
      <4>10. QED
        BY <4>8, <4>9
    <3>6. QED
      BY <2>11, <3>5 DEF wi, w, l, u, g
  <2>17. Low(z', top) + z'.digits[top] * Weight(i' + j) = Value(x) * Low(y, j) + Low(x, i') * v
    BY <2>1, <2>10, <2>12, <2>14, <2>16
  <2>18. \A k \in top + 1 .. z'.n_alloc - 1 : z'.digits[k] = 0
    <3>1. \A k \in top + 1 .. z.n_alloc - 1 : k \in 0 .. z.n_alloc - 1 /\ k # top /\ k # i + j
      BY <1>1, <1>4, <1>6, <2>2
    <3>2. QED
      BY <1>3, <2>1, <2>8, <2>10, <3>1, <1>4, <1>6
  <2>19. MulValues'
    <3>1. i' # 0 /\ j' # yn /\ j < yn
      BY <1>4, <1>6, <2>1
    <3>2. QED
      BY <1>1, <1>5, <2>1, <2>10, <2>17, <2>18, <3>1 DEF MulValues, xn, yn, Value
  <2>20. QED
    BY <1>1, <1>5, <2>1, <2>19, OneValue DEF ResultAsPromised
<1>9. CASE MulRow
  <2>1. /\ j < yn /\ i = xn /\ i' = 0 /\ j' = j + 1 /\ pc' = "loop" /\ z' = z
    BY <1>1, <1>9 DEF MulRow, xn, yn
  <2>2. /\ j \in 0 .. y.n_alloc - 1 /\ top \in 0 .. z.n_alloc - 1 /\ j # yn
        /\ i + j = top
    BY <1>1, <1>4, <1>6, <2>1
  <2>3. Low(z, top + 1) = Low(z, top) + z.digits[top] * Weight(top)
    BY <1>1, <2>2, LowNext
  <2>4. Low(y, j + 1) = Low(y, j) + v /\ Low(y, j) \in Int /\ v \in Int
    <3>1. Low(y, j + 1) = Low(y, j) + v /\ Low(y, j) \in Int /\ y.digits[j] \in Int
          /\ Weight(j) \in Int
      BY <1>1, <2>2, LowNext
    <3>2. QED
      BY <3>1
  <2>5. Low(x, i) = Value(x)
    BY <2>1 DEF Value, Low, xn
  <2>6. Low(z, top + 1) = Value(x) * Low(y, j) + Value(x) * v
    BY <1>3, <2>2, <2>3, <2>5
  <2> HIDE DEF v
  <2>7. Low(z, top + 1) = Value(x) * Low(y, j + 1)
    <3> DEFINE l == Low(y, j)
    <3> DEFINE g == Value(x)
    <3>1. l \in Int /\ g \in Int
      BY <1>7, <2>4
    <3> HIDE DEF l, g
    <3>2. g * (l + v) = g * l + g * v
      BY <2>4, <3>1
    <3>3. QED
      BY <2>4, <2>6, <3>2 DEF l, g
  <2>8. CASE j + 1 = yn
    <3>1. top + 1 = z.n_signif
      BY <1>1, <1>4, <1>6, <2>8
    <3>2. Value(z) = Value(x) * Value(y)
      BY <2>7, <2>8, <3>1 DEF Value, Low, yn
    <3>3. MulValues'
      BY <1>1, <1>5, <2>1, <2>8, <3>2 DEF MulValues, xn, yn, Value
    <3>4. QED
      BY <1>1, <1>5, <2>1, <3>3, OneValue DEF ResultAsPromised
  <2>9. CASE j + 1 # yn
    <3>1. top + 1 \in top + 1 .. z.n_alloc - 1 /\ (j + 1) + xn = top + 1
          /\ j + 1 \in 0 .. y.n_alloc - 1
      BY <1>1, <1>4, <1>6, <2>1, <2>9
    <3>2. z.digits[top + 1] = 0
      BY <1>3, <2>2, <3>1
    <3>3. Low(z, top + 1) + z.digits[top + 1] * Weight(0 + (j + 1)) =
            Value(x) * Low(y, j + 1) + Low(x, 0) * (y.digits[j + 1] * Weight(j + 1))
      <4> DEFINE w == Weight(0 + (j + 1))
      <4> DEFINE p == y.digits[j + 1] * Weight(j + 1)
      <4> DEFINE g == Value(x) * Low(y, j + 1)
      <4>1. w \in Int /\ p \in Int /\ g \in Int
        <5>1. 0 + (j + 1) = j + 1
          BY <1>6
        <5>2. /\ Low(y, j + 1) \in Int /\ y.digits[j + 1] \in Int
              /\ Weight(j + 1) \in Int
          BY <1>1, <3>1, LowNext
        <5>3. QED
          BY <1>7, <5>1, <5>2
      <4> HIDE DEF w, p, g
      <4>2. 0 * w = 0 /\ 0 * p = 0 /\ g + 0 = g
        BY <4>1
      <4>3. z.digits[top + 1] * w = 0 /\ Low(x, 0) * p = 0
        BY <3>2, <4>2, LowZero
      <4>4. Low(z, top + 1) = g
        BY <2>7 DEF g
      <4>5. Low(z, top + 1) + z.digits[top + 1] * w = g + Low(x, 0) * p
        BY <4>3, <4>4
      <4>6. QED
        BY <4>5 DEF w, p, g
    <3>4. \A k \in (top + 1) + 1 .. z.n_alloc - 1 : z.digits[k] = 0
      <4>1. \A k \in (top + 1) + 1 .. z.n_alloc - 1 : k \in top + 1 .. z.n_alloc - 1
        BY <1>1, <1>4, <1>6
      <4>2. QED
        BY <1>3, <2>2, <4>1
    <3>5. MulValues'
      BY <1>1, <1>5, <2>1, <2>9, <3>1, <3>2, <3>3, <3>4 DEF MulValues, xn, yn, Value
    <3>6. QED
      BY <1>1, <1>5, <2>1, <3>5, OneValue DEF ResultAsPromised
  <2>10. QED
    BY <2>8, <2>9
<1>10. CASE MulEnd
  <2>1. j = yn /\ pc' = "done" /\ z' = z
    BY <1>10 DEF MulEnd, yn
  <2>2. ResultAsPromised'
    BY <1>1, <1>2, <1>5, <2>1, MulReturns DEF xn, yn
  <2>3. MulValues'
    BY <1>1, <1>5, <2>1 DEF MulValues, xn, yn
  <2>4. QED
    BY <1>1, <1>5, <2>2, <2>3, OneValue
<1>11. QED
  BY <1>8, <1>9, <1>10

-----------------------------------------------------------------------------
(* digits_round: the number rounded, by the digit that is rounded. *)
LEMMA RoundedAt ==
  ASSUME NEW a, WellFormed(a), ProperCells(a), a.n_alloc = a.n_signif,
         a.n_signif \in Nat \ {0}, NonZeroLow(a),
         NEW shift \in 1 .. a.n_signif * DEC_DIGITS_PER_DIGIT, NEW sign, NEW mode
  PROVE  LET idx == shift \div DEC_DIGITS_PER_DIGIT
             n_dec == shift % DEC_DIGITS_PER_DIGIT
             at == IF n_dec = 0 THEN idx - 1 ELSE idx
             quot == IF idx < a.n_signif THEN a.digits[idx] ELSE 0
             digit == a.digits[at]
             rounded ==
               IF n_dec # 0
               THEN round_to_multiple(sign, digit, at > 0, u64_10_pow_n(n_dec), mode)
               ELSE IF digit # 0 \/ at > 0
               THEN RADIX * round_qr(sign, quot, digit, at > 0, RADIX, mode)
               ELSE digit
         IN  /\ at \in 0 .. a.n_signif - 1 /\ rounded \in 0 .. RADIX
             /\ RoundedDigits(Value(a), sign, shift, mode) =
                  (Value(a) - Low(a, at)) + (rounded - digit) * Weight(at)
<1> DEFINE n == a.n_signif
<1> DEFINE dpd == DEC_DIGITS_PER_DIGIT
<1> DEFINE idx == shift \div DEC_DIGITS_PER_DIGIT
<1> DEFINE n_dec == shift % DEC_DIGITS_PER_DIGIT
<1> DEFINE at == IF n_dec = 0 THEN idx - 1 ELSE idx
<1> DEFINE quot == IF idx < a.n_signif THEN a.digits[idx] ELSE 0
<1> DEFINE digit == a.digits[at]
<1> DEFINE delta == at > 0
<1> DEFINE rounded ==
      IF n_dec # 0
      THEN round_to_multiple(sign, digit, at > 0, u64_10_pow_n(n_dec), mode)
      ELSE IF digit # 0 \/ at > 0
      THEN RADIX * round_qr(sign, quot, digit, at > 0, RADIX, mode)
      ELSE digit
<1> DEFINE low == Low(a, at)
<1> DEFINE w == Weight(at)
<1> DEFINE v == Value(a)
<1> DEFINE h == ValueOf(From(a.digits, at + 1), n - (at + 1))
<1> DEFINE b == RoundBase(n_dec)
<1>1. /\ dpd \in Nat \ {0} /\ n \in Nat
      /\ idx \in 0 .. n /\ n_dec \in 0 .. dpd - 1
      /\ n_dec = 0 => idx >= 1
      /\ n_dec # 0 => idx =< n - 1
      /\ shift \in Nat /\ shift = dpd * idx + n_dec
  <2>1. dpd \in Nat \ {0} /\ n \in Nat
    BY RadixAssumption
  <2>2. /\ idx \in 0 .. n /\ n_dec \in 0 .. dpd - 1
        /\ n_dec = 0 => idx >= 1
        /\ n_dec # 0 => idx =< n - 1
    BY <2>1, RoundingPosition
  <2>3. n * dpd \in Nat
    BY <2>1
  <2>4. shift \in Nat
    BY <2>3
  <2>5. shift = dpd * idx + n_dec
    BY <2>1, <2>4
  <2>6. QED
    BY <2>1, <2>2, <2>4, <2>5
<1> HIDE DEF dpd, idx, n_dec
<1>2. at \in 0 .. n - 1 /\ at \in Nat /\ at + 1 \in Nat /\ at + 1 =< n
      /\ n - (at + 1) \in Nat /\ at \in 0 .. n
  BY <1>1
<1>3. /\ digit \in 0 .. RADIX - 1
      /\ low \in Nat /\ low < w /\ w \in Nat \ {0}
  BY <1>2, DigitRange, LowRange
<1>4. Digital(a.digits, n)
  <2>1. n \in 0 .. a.n_alloc
    BY <1>1
  <2>2. QED
    BY <2>1, Cells
<1>5. /\ v \div Weight(at + 1) = h /\ h \in Nat
      /\ v = low + w * (digit + RADIX * h)
  <2> DEFINE m == at + 1
  <2>1. m \in Nat /\ m =< n
    BY <1>2
  <2>2. v = ValueOf(a.digits, n)
    BY DEF Value
  <2>3. Low(a, at + 1) = low + digit * w /\ Weight(at + 1) = RADIX * w
    BY <1>2, LowNext
  <2> HIDE DEF m, at, v
  <2>4. /\ v \div Weight(m) = ValueOf(From(a.digits, m), n - m)
        /\ Digital(From(a.digits, m), n - m)
    BY <1>1, <1>4, <2>1, <2>2, ValueDivides
  <2>5. Integral(a.digits, n)
    BY <1>1, <1>4, DigitalIntegral
  <2>6. v = ValueOf(a.digits, m) + ValueOf(From(a.digits, m), n - m) * Weight(m)
    BY <1>1, <2>1, <2>2, <2>5, ValueSplit
  <2>7. n - m \in Nat
    BY <1>1, <2>1
  <2>8. ValueOf(From(a.digits, m), n - m) \in Nat
    BY <2>4, <2>7, ValueRange
  <2>9. v = (low + digit * w) + h * (RADIX * w) /\ h \in Nat
    BY <2>3, <2>6, <2>8 DEF m, Low
  <2>10. (low + digit * w) + h * (RADIX * w) = low + w * (digit + RADIX * h)
    <3> HIDE DEF low, digit, w, h
    <3>1. w * (digit + RADIX * h) = digit * w + h * (RADIX * w)
      BY <1>3, <2>9, Constants
    <3>2. digit * w \in Int /\ h * (RADIX * w) \in Int
      BY <1>3, <2>9, Constants
    <3>3. QED
      BY <1>3, <3>1, <3>2
  <2>11. QED
    BY <2>4, <2>9, <2>10 DEF m
<1>6. b \in Nat \ {0} /\ b % 2 = 0
  BY <1>1, RoundBaseFacts DEF dpd
<1>7. PICK c \in Nat \ {0} :
        RADIX = b * c /\ (n_dec = 0 => c = 1) /\ (n_dec # 0 => c % 10 = 0)
  BY <1>1, RoundBaseFacts DEF dpd
<1>8. u64_10_pow_n(shift) = w * b
  <2>1. 10 \in Nat
    OBVIOUS
  <2>2. CASE n_dec # 0
    <3>1. Power(10, DEC_DIGITS_PER_DIGIT * idx + n_dec) = Weight(idx) * Power(10, n_dec)
      BY <1>1, PowerWeight
    <3>2. b = Power(10, n_dec)
      BY <2>2 DEF RoundBase, u64_10_pow_n
    <3>3. QED
      BY <1>1, <2>2, <3>1, <3>2 DEF u64_10_pow_n, dpd
  <2>3. CASE n_dec = 0
    <3>1. idx \in Nat /\ shift = dpd * idx + 0
      BY <1>1, <2>3
    <3>2. Power(10, DEC_DIGITS_PER_DIGIT * idx + 0) = Weight(idx) * Power(10, 0)
      BY <3>1, PowerWeight
    <3>3. Power(10, 0) = 1
      BY PowerZero
    <3>4. Weight(idx) = RADIX * w /\ Weight(idx) \in Nat
      <4>1. at \in Nat /\ at + 1 = idx
        BY <1>1, <1>2, <2>3
      <4> HIDE DEF at
      <4>2. Weight(at + 1) = RADIX * Weight(at) /\ Weight(idx) \in Nat
        BY <3>1, <4>1, WeightFacts
      <4>3. QED
        BY <4>1, <4>2
    <3>5. b = RADIX
      BY <2>3 DEF RoundBase
    <3>6. u64_10_pow_n(shift) = RADIX * w
      <4>1. u64_10_pow_n(shift) = Weight(idx) * 1
        BY <3>1, <3>2, <3>3 DEF u64_10_pow_n, dpd
      <4>2. Weight(idx) * 1 = Weight(idx)
        BY <3>4
      <4>3. QED
        BY <3>4, <4>1, <4>2
    <3>7. RADIX * w = w * RADIX
      <4> HIDE DEF w
      <4>1. QED
        BY <1>3, Constants
    <3>8. QED
      BY <3>5, <3>6, <3>7
  <2>4. QED
    BY <2>2, <2>3
<1>9. Cut(v, w, low, digit, h, b, c)
  <2>1. low \in 0 .. w - 1
    <3> HIDE DEF low, w
    <3>1. QED
      BY <1>3
  <2> HIDE DEF low, w, v, h, b, digit
  <2>2. QED
    BY <1>3, <1>5, <1>6, <1>7, <2>1 DEF Cut
<1> DEFINE q == IF n_dec # 0 THEN digit \div b ELSE quot
<1>10. q \in Nat /\ (digit \div b + c * h) % 10 = q % 10
  <2>1. CASE n_dec # 0
    <3> HIDE DEF digit, b, h
    <3>1. digit \in Nat /\ c % 10 = 0 /\ q = digit \div b
      BY <1>3, <1>7, <2>1, Constants
    <3>2. digit \div b \in Nat
      BY <1>6, <3>1
    <3>3. QED
      BY <1>5, <1>7, <3>1, <3>2, SameLastDigit
  <2>2. CASE n_dec = 0
    <3>1. at + 1 = idx /\ c = 1 /\ b = RADIX /\ idx \in Nat
      BY <1>1, <1>7, <2>2 DEF RoundBase
    <3>2. digit \div b = 0
      <4> HIDE DEF digit, b
      <4>1. QED
        BY <1>3, <3>1, Constants
    <3>3. digit \div b + c * h = h
      <4> HIDE DEF digit, b, h
      <4>1. QED
        BY <1>5, <3>1, <3>2
    (* The digit above is the last one of h. *)
    <3>4. quot = h % RADIX
      <4>1. DigitAt(ValueOf(a.digits, n), idx) = quot
        BY <1>1, <1>4, <3>1, DigitAtDigit
      <4>2. ValueOf(a.digits, n) \div Weight(idx) = h
        BY <1>5, <3>1 DEF Value
      <4>3. QED
        BY <4>1, <4>2 DEF DigitAt
    <3> HIDE DEF quot, h
    <3>5. quot \in Nat /\ h % 10 = quot % 10
      <4> DEFINE r == h \div RADIX
      <4>1. RADIX \in Nat \ {0} /\ RADIX % 10 = 0
        BY RadixFacts
      <4>2. h \in Nat
        BY <1>5
      <4>3. h % RADIX \in Nat /\ r \in Nat /\ h = (h % RADIX) + RADIX * r
        BY <4>1, <4>2
      <4> HIDE DEF r
      <4>4. quot \in Nat /\ h = quot + RADIX * r
        BY <3>4, <4>3
      <4>5. (quot + RADIX * r) % 10 = quot % 10
        BY <4>1, <4>3, <4>4, SameLastDigit
      <4>6. QED
        BY <4>4, <4>5
    <3>6. QED
      BY <2>2, <3>3, <3>5
  <2>3. QED
    BY <2>1, <2>2
(* Below a digit at index 1 or above there is the lowest one, not 0. *)
<1>11. delta \in BOOLEAN /\ (delta <=> low > 0)
  <2> HIDE DEF at
  <2>1. CASE at = 0
    BY <2>1, LowZero
  <2>2. CASE at # 0
    <3>1. 1 =< at /\ 0 \in 0 .. a.n_alloc - 1 /\ 1 \in 0 .. a.n_alloc
      BY <1>2, <2>2
    <3>2. /\ Low(a, 0 + 1) = Low(a, 0) + a.digits[0] * Weight(0)
          /\ a.digits[0] \in 0 .. RADIX - 1
      BY <3>1, LowNext, DigitRange
    <3>3. Low(a, 1) = a.digits[0] /\ a.digits[0] > 0
      <4>1. Low(a, 0 + 1) = 0 + a.digits[0] * 1
        BY <3>2, LowZero, WeightZero
      <4>2. QED
        BY <3>2, <4>1, Constants DEF NonZeroLow
    <3>4. low # 0
      <4>1. ASSUME low = 0 PROVE FALSE
        <5> DEFINE e == From(a.digits, 1)
        <5>1. Digital(a.digits, at)
          BY <1>2, Cells
        <5>2. 0 \in Nat /\ 0 < at /\ at \in Nat
          BY <1>2, <2>2
        <5>3. DigitAt(ValueOf(a.digits, at), 0) = a.digits[0]
          BY <5>1, <5>2, DigitAtDigit
        <5>4. ValueOf(a.digits, at) = 0
          BY <4>1 DEF Low
        <5>5. DigitAt(0, 0) = 0
          BY WeightZero, Constants DEF DigitAt
        <5>6. QED
          BY <3>3, <5>3, <5>4, <5>5
      <4>2. QED
        BY <4>1
    <3> HIDE DEF low
    <3>5. QED
      BY <1>2, <1>3, <2>2, <3>4
  <2>3. QED
    BY <2>1, <2>2
<1> DEFINE rem == digit % b
<1> DEFINE up == IF (rem # 0 \/ delta) /\ RoundsUp(sign, q, rem, delta, b, mode) THEN 1 ELSE 0
<1>12. (w * b) * Rounded(sign, v, w * b, mode) = (v - low) + (b * up - rem) * w
  <2> HIDE DEF w, b, v, low, digit, h, q, delta
  <2>1. QED
    BY <1>6, <1>9, <1>10, <1>11, RoundedAtDigit
<1>13. rounded = (digit - rem) + b * up
  <2>1. CASE n_dec # 0
    <3>1. b = u64_10_pow_n(n_dec) /\ q = digit \div b
      BY <2>1 DEF RoundBase
    <3>2. rounded = IF rem = 0 /\ ~delta THEN digit
                    ELSE digit - rem + b * round_qr(sign, q, rem, delta, b, mode)
      BY <2>1, <3>1 DEF round_to_multiple
    <3>3. round_qr(sign, q, rem, delta, b, mode) =
            IF RoundsUp(sign, q, rem, delta, b, mode) THEN 1 ELSE 0
      BY DEF round_qr
    <3>4. rem \in Nat /\ digit \in Nat
      <4> HIDE DEF digit, b
      <4>1. QED
        BY <1>3, <1>6, Constants
    <3> HIDE DEF rounded, q, delta, digit, b, rem
    <3>5. CASE rem = 0 /\ ~delta
      <4>1. up = 0
        BY <3>5
      <4>2. QED
        BY <1>6, <3>2, <3>4, <3>5, <4>1
    <3>6. CASE ~ (rem = 0 /\ ~delta)
      <4>1. up = round_qr(sign, q, rem, delta, b, mode)
        BY <3>3, <3>6
      <4>2. QED
        BY <3>2, <3>6, <4>1
    <3>7. QED
      BY <3>5, <3>6
  <2>2. CASE n_dec = 0
    <3>1. b = RADIX /\ q = quot
      BY <2>2 DEF RoundBase
    <3>2. rem = digit
      <4> HIDE DEF digit, b
      <4>1. QED
        BY <1>3, <3>1, Constants
    <3>3. rounded = IF digit # 0 \/ delta THEN RADIX * round_qr(sign, q, digit, delta, RADIX, mode)
                    ELSE digit
      BY <2>2, <3>1
    <3>4. round_qr(sign, q, digit, delta, RADIX, mode) =
            IF RoundsUp(sign, q, digit, delta, RADIX, mode) THEN 1 ELSE 0
      BY DEF round_qr
    <3>5. digit \in Nat /\ RADIX \in Nat
      <4> HIDE DEF digit
      <4>1. QED
        BY <1>3, Constants
    <3> HIDE DEF rounded, q, delta, digit, b, rem
    <3>6. CASE digit # 0 \/ delta
      <4>1. up = round_qr(sign, q, digit, delta, RADIX, mode) /\ up \in 0 .. 1
        BY <3>1, <3>2, <3>4, <3>6
      <4> HIDE DEF up
      <4>2. rounded = RADIX * up /\ RADIX * up \in Int
        BY <3>3, <3>5, <3>6, <4>1
      <4>3. QED
        BY <3>1, <3>2, <3>5, <4>2
    <3>7. CASE ~ (digit # 0 \/ delta)
      <4>1. up = 0
        BY <3>2, <3>7
      <4>2. QED
        BY <3>1, <3>2, <3>3, <3>5, <3>7, <4>1
    <3>8. QED
      BY <3>6, <3>7
  <2>3. QED
    BY <2>1, <2>2
<1>14. up \in 0 .. 1 /\ rem \in Int /\ digit \in Int
  <2>1. up \in 0 .. 1
    OBVIOUS
  <2> HIDE DEF digit, b
  <2>2. QED
    BY <1>3, <1>6, <2>1, Constants
<1>15. rounded \in 0 .. RADIX
  <2>1. RADIX % b = 0
    <3> HIDE DEF b
    <3>1. QED
      BY <1>6, <1>7
  <2> HIDE DEF b, digit, up, rounded
  <2>2. QED
    BY <1>3, <1>6, <1>13, <1>14, <2>1, RoundedBound
<1>16. b * up - rem = rounded - digit
  <2> HIDE DEF b, digit, up, rounded, rem
  <2>1. b * up \in Int
    BY <1>6, <1>14
  <2>2. QED
    BY <1>13, <1>14, <2>1
<1>17. RoundedDigits(v, sign, shift, mode) = (v - low) + (rounded - digit) * w
  <2>1. RoundedDigits(v, sign, shift, mode) = (w * b) * Rounded(sign, v, w * b, mode)
    BY <1>8 DEF RoundedDigits
  <2> HIDE DEF w, b, v, low, rounded, digit, up, rem
  <2>2. QED
    BY <1>12, <1>16, <2>1
<1>18. QED
  BY <1>2, <1>15, <1>17 DEF idx, n_dec, dpd

(* What is returned is the rounded number, or 0 and a carry. *)
LEMMA RoundReturns ==
  ASSUME fn = "round", UNCHANGED operands, z'.n_signif = x.n_signif,
         NEW v, v = RoundedDigits(Value(x), arg.sign, arg.shift, arg.mode),
         \/ Value(z') = v /\ ret' = 0 /\ ~ (v >= Weight(x.n_signif))
         \/ Value(z') = 0 /\ ret' = 1 /\ v >= Weight(x.n_signif)
  PROVE  ResultAsPromised'
<1>1. fn' = "round" /\ x' = x /\ arg' = arg
  BY DEF operands
<1>2. /\ Promise!RoundedDigits(Value(x), arg.sign, arg.shift, arg.mode) = v
      /\ Promise!RoundCarry(Value(x), x.n_signif, arg.sign, arg.shift, arg.mode) <=>
           v >= Weight(x.n_signif)
  BY PromisedRounding, Zenon DEF RoundCarry
<1>3. Promise!RoundedTo(z, ret)'
  BY <1>1, <1>2, PromisedValue DEF Promise!RoundedTo, Promise!Holds, Promise!Value, Value
<1>4. QED
  BY <1>1, <1>3 DEF ResultAsPromised, Promise!Result

LEMMA ZeroBelowFacts ==
  ASSUME NEW a, WellFormed(a), NEW k \in 0 .. a.n_alloc
  PROVE  /\ WellFormed(ZeroBelow(a, k))
         /\ ZeroBelow(a, k).n_alloc = a.n_alloc /\ ZeroBelow(a, k).n_signif = a.n_signif
         /\ \A m \in 0 .. a.n_alloc - 1 :
              ZeroBelow(a, k).digits[m] = IF m < k THEN 0 ELSE a.digits[m]
<1> DEFINE r == [n_alloc |-> a.n_alloc, n_signif |-> a.n_signif, digits |-> a.digits]
<1> DEFINE e == [m \in 0 .. a.n_alloc - 1 |-> IF m < k THEN 0 ELSE a.digits[m]]
<1>1. a = r /\ DOMAIN a.digits = 0 .. a.n_alloc - 1
  BY DEF WellFormed
<1>2. ZeroBelow(r, k) = [n_alloc |-> a.n_alloc, n_signif |-> a.n_signif,
                         digits |-> [m \in DOMAIN a.digits |-> IF m < k THEN 0 ELSE a.digits[m]]]
  BY DEF ZeroBelow
<1> HIDE DEF r
<1>3. ZeroBelow(a, k) = [n_alloc |-> a.n_alloc, n_signif |-> a.n_signif, digits |-> e]
  BY <1>1, <1>2
<1>4. 0 \in Word
  BY Constants DEF Word
<1>5. e \in [0 .. a.n_alloc - 1 -> Word]
  BY <1>4 DEF WellFormed
<1>6. \A m \in 0 .. a.n_alloc - 1 : e[m] = IF m < k THEN 0 ELSE a.digits[m]
  OBVIOUS
<1> HIDE DEF e
<1>7. QED
  BY <1>3, <1>5, <1>6 DEF WellFormed

LEMMA RoundComputes ==
  ASSUME VInv, IInv', RoundDigit \/ RoundRipple
  PROVE  VInv'
<1> DEFINE n == x.n_signif
<1> DEFINE v == RoundedDigits(Value(x), arg.sign, arg.shift, arg.mode)
<1>1. /\ fn = "round" /\ ret = 0
      /\ WellFormed(x) /\ ProperCells(x) /\ WellFormed(z) /\ WellFormed(z')
      /\ x.n_alloc = n /\ n >= 1 /\ z.n_alloc = n /\ z.n_signif = n
      /\ arg.shift \in 1 .. n * DEC_DIGITS_PER_DIGIT
      /\ NonZeroLow(x)
      /\ pc = "loop" => z = x
  <2>1. fn = "round" /\ (pc = "loop" \/ pc = "carry")
    BY DEF RoundDigit, RoundRipple
  <2>2. ret = 0 /\ x.n_alloc = n /\ NonZeroLow(x) /\ (pc = "loop" => z = x)
    BY <2>1 DEF VInv, RoundValues
  <2>3. WellFormed(x) /\ ProperCells(x) /\ WellFormed(z) /\ WellFormed(z')
    BY DEF VInv, IInv, TypeOK
  <2>4. n >= 1 /\ z.n_alloc = n /\ z.n_signif = n
        /\ arg.shift \in 1 .. n * DEC_DIGITS_PER_DIGIT
    BY <2>1 DEF VInv, IInv, RoundInv
  <2>5. QED
    BY <2>1, <2>2, <2>3, <2>4
<1>2. n \in Nat \ {0} /\ n \in 0 .. n
  BY <1>1, Cells
<1>3. UNCHANGED operands /\ fn' = fn /\ x' = x /\ y' = y /\ arg' = arg
  BY DEF RoundDigit, RoundRipple, operands
<1>4. /\ z'.n_signif = n /\ z'.n_alloc = n
      /\ \A k \in 0 .. n - 1 :
           ~ (pc' = "carry" /\ k = i') => z'.digits[k] < RADIX
  BY <1>1, <1>3 DEF IInv, RoundInv
(* What is written stands for the rounded number: either it fits, or one   *)
(* digit is RADIX and those below it are 0.                                *)
<1>5. ASSUME Value(z') = v, ret' = ret, pc' = "done" PROVE VInv'
  <2>1. ProperCells(z')
    BY <1>4, <1>5 DEF ProperCells
  <2>2. Value(z') \in Nat /\ Value(z') < Weight(n) /\ Weight(n) \in Nat
    BY <1>1, <1>2, <1>4, <2>1, LowRange DEF Value, Low
  <2>3. ~ (v >= Weight(n))
    <3> HIDE DEF v, n
    <3>1. QED
      BY <1>5, <2>2
  <2>4. ResultAsPromised'
    BY <1>1, <1>3, <1>4, <1>5, <2>3, RoundReturns
  <2>5. RoundValues'
    BY <1>1, <1>3, <1>5 DEF RoundValues, NonZeroLow
  <2>6. QED
    BY <1>1, <1>3, <2>4, <2>5, OneValue
<1>6. ASSUME Value(z') = v, ret' = ret, pc' = "carry", \A k \in 0 .. i' - 1 : z'.digits[k] = 0
      PROVE  VInv'
  <2>1. RoundValues'
    BY <1>1, <1>3, <1>6 DEF RoundValues, NonZeroLow, Value
  <2>2. QED
    BY <1>1, <1>3, <1>6, <2>1, OneValue DEF ResultAsPromised
<1> HIDE DEF n
<1>7. CASE RoundDigit
  <2> DEFINE idx == arg.shift \div DEC_DIGITS_PER_DIGIT
  <2> DEFINE n_dec == arg.shift % DEC_DIGITS_PER_DIGIT
  <2> DEFINE at == IF n_dec = 0 THEN idx - 1 ELSE idx
  <2> DEFINE quot == IF idx < x.n_signif THEN x.digits[idx] ELSE 0
  <2> DEFINE digit == x.digits[at]
  <2> DEFINE rounded ==
        IF n_dec # 0
        THEN round_to_multiple(arg.sign, digit, at > 0, u64_10_pow_n(n_dec), arg.mode)
        ELSE IF digit # 0 \/ at > 0
        THEN RADIX * round_qr(arg.sign, quot, digit, at > 0, RADIX, arg.mode)
        ELSE digit
  <2> DEFINE low == ZeroBelow(x, at)
  <2>1. z = x
    BY <1>1, <1>7 DEF RoundDigit
  <2>2. /\ z' = SetDigit(low, at, rounded) /\ i' = at
        /\ pc' = IF rounded = RADIX THEN "carry" ELSE "done"
        /\ ret' = ret
    BY <1>7, <2>1 DEF RoundDigit
  <2>3. /\ at \in 0 .. x.n_signif - 1 /\ rounded \in 0 .. RADIX
        /\ v = (Value(x) - Low(x, at)) + (rounded - digit) * Weight(at)
    BY <1>1, <1>2, RoundedAt DEF n
  <2> HIDE DEF idx, n_dec, at, quot, rounded, v
  <2>4. at \in 0 .. x.n_alloc - 1 /\ at \in 0 .. x.n_alloc /\ at \in 0 .. at
        /\ n \in at + 1 .. x.n_alloc /\ at =< n
    BY <1>1, <1>2, <2>3 DEF n
  <2>5. /\ WellFormed(low) /\ low.n_alloc = x.n_alloc
        /\ \A m \in 0 .. x.n_alloc - 1 :
             low.digits[m] = IF m < at THEN 0 ELSE x.digits[m]
    BY <1>1, <2>4, ZeroBelowFacts
  <2> HIDE DEF low
  <2>6. rounded \in Word
    BY <2>3, Constants DEF Word
  <2>7. /\ z'.digits[at] = rounded
        /\ \A k \in 0 .. x.n_alloc - 1 : k # at => z'.digits[k] = low.digits[k]
    BY <2>2, <2>4, <2>5, <2>6, SetDigitFacts
  <2>8. Low(z', n) = Low(low, n) + (rounded - digit) * Weight(at)
    <3>1. low.digits[at] = digit
      BY <2>4, <2>5
    <3> HIDE DEF digit
    <3>2. Low(z', n) = Low(low, n) + (rounded - low.digits[at]) * Weight(at)
      BY <2>2, <2>4, <2>5, <2>6, SetLow
    <3>3. QED
      BY <3>1, <3>2
  <2>9. Low(low, n) - Low(low, at) = Low(x, n) - Low(x, at)
    <3>1. \A k \in at .. n - 1 : low.digits[k] = x.digits[k]
      BY <1>1, <1>2, <2>4, <2>5
    <3>2. n \in 0 .. x.n_alloc
      BY <1>1, <1>2
    <3>3. QED
      BY <1>1, <2>4, <2>5, <3>1, <3>2, LowHigh
  <2>10. Low(low, at) = 0
    <3>1. 0 \in 0 .. low.n_alloc /\ at \in 0 .. low.n_alloc /\ 0 =< at
      BY <1>1, <1>2, <2>4, <2>5
    <3>2. \A k \in 0 .. at - 1 : low.digits[k] = 0
      BY <1>1, <1>2, <2>4, <2>5
    <3>3. Low(low, at) = Low(low, 0)
      BY <2>5, <3>1, <3>2, LowZeros
    <3>4. QED
      BY <3>3, LowZero
  <2>11. Low(low, n) \in Int /\ Low(x, n) \in Int /\ Low(x, at) \in Int
    <3>1. n \in 0 .. x.n_alloc
      BY <1>1, <1>2
    <3>2. QED
      BY <1>1, <2>4, <2>5, <3>1, LowType
  <2>12. Value(z') = v
    <3>1. Value(x) = Low(x, n) /\ Value(z') = Low(z', n)
      BY <1>4 DEF Value, Low, n
    <3>2. Low(low, n) = Value(x) - Low(x, at)
      BY <2>9, <2>10, <2>11, <3>1
    <3>3. QED
      BY <2>3, <2>8, <3>1, <3>2
  <2>13. \A k \in 0 .. at - 1 : z'.digits[k] = 0
    <3>1. \A k \in 0 .. at - 1 : k \in 0 .. x.n_alloc - 1 /\ k # at /\ k < at
      BY <1>1, <1>2, <2>4
    <3>2. QED
      BY <2>5, <2>7, <3>1
  <2>14. CASE rounded = RADIX
    BY <1>6, <2>2, <2>12, <2>13, <2>14
  <2>15. CASE rounded # RADIX
    BY <1>5, <2>2, <2>12, <2>15
  <2>16. QED
    BY <2>14, <2>15
<1>8. CASE RoundRipple
  <2> DEFINE cleared == SetDigit(z, i, 0)
  <2>1. /\ pc = "carry" /\ i \in 0 .. n - 1 /\ z.digits[i] = RADIX
        /\ i' = i + 1
    BY <1>1, <1>8 DEF VInv, IInv, RoundInv, RoundRipple
  <2>2. /\ Value(z) = v /\ \A k \in 0 .. i - 1 : z.digits[k] = 0
    BY <1>1, <2>1 DEF VInv, RoundValues
  <2> HIDE DEF v
  <2>3. i \in 0 .. z.n_alloc - 1 /\ i \in Nat /\ n \in i + 1 .. z.n_alloc /\ 0 \in Word
        /\ i \in 0 .. z.n_alloc
    BY <1>1, <1>2, <2>1, Constants DEF Word
  <2>4. /\ WellFormed(cleared) /\ cleared.n_alloc = n /\ cleared.n_signif = n
        /\ cleared.digits[i] = 0
        /\ \A k \in 0 .. n - 1 : k # i => cleared.digits[k] = z.digits[k]
    BY <1>1, <2>3, SetDigitFacts
  <2>5. Low(cleared, n) = Low(z, n) + (0 - z.digits[i]) * Weight(i)
    BY <1>1, <2>3, SetLow
  <2>6. /\ Weight(i) \in Nat /\ Low(z, n) \in Int
        /\ Weight(i + 1) = RADIX * Weight(i)
        /\ Low(z, i + 1) = Low(z, i) + z.digits[i] * Weight(i)
    <3>1. n \in 0 .. z.n_alloc
      BY <1>1, <1>2
    <3>2. QED
      BY <1>1, <2>3, <3>1, LowNext, LowType
  <2>7. Low(cleared, n) = Low(z, n) - Weight(i + 1) /\ Weight(i + 1) \in Int
        /\ Low(cleared, n) \in Int
    <3>1. (0 - RADIX) * Weight(i) = - (RADIX * Weight(i)) /\ RADIX * Weight(i) \in Int
      BY <2>6, Constants
    <3> DEFINE r == RADIX * Weight(i)
    <3> HIDE DEF r, cleared
    <3>2. Low(cleared, n) = Low(z, n) + (- r) /\ r \in Int /\ Weight(i + 1) = r
      BY <2>1, <2>5, <2>6, <3>1 DEF r
    <3>3. QED
      BY <2>6, <3>2
  <2>8. Low(z, n) = v
    BY <1>1, <2>2 DEF Value, Low
  <2>9. \A k \in 0 .. (i + 1) - 1 : cleared.digits[k] = 0
    <3>1. \A k \in 0 .. (i + 1) - 1 : k = i \/ (k \in 0 .. i - 1 /\ k # i /\ k \in 0 .. n - 1)
      BY <1>2, <2>1
    <3> HIDE DEF cleared
    <3>2. QED
      BY <2>2, <2>4, <3>1
  <2>10. CASE i + 1 < n
    <3> DEFINE d == z.digits[i + 1] + 1
    <3>1. /\ z' = SetDigit(cleared, i + 1, d)
          /\ pc' = IF d = RADIX THEN "carry" ELSE "done"
          /\ ret' = ret
      BY <1>1, <1>8, <2>10 DEF RoundRipple
    <3> HIDE DEF cleared
    <3>2. /\ i + 1 \in 0 .. cleared.n_alloc - 1 /\ n \in (i + 1) + 1 .. cleared.n_alloc
          /\ i + 1 \in 0 .. z.n_alloc - 1 /\ i + 1 # i /\ i + 1 \in 0 .. n - 1
      BY <1>1, <1>2, <2>3, <2>4, <2>10
    <3>3. z.digits[i + 1] \in Int /\ d \in Word
      <4>1. z.digits[i + 1] \in 0 .. U64 - 1
        BY <1>1, <3>2 DEF WellFormed, Word
      <4>2. z.digits[i + 1] < RADIX
        BY <1>1, <2>1, <3>2 DEF VInv, IInv, RoundInv
      <4>3. QED
        BY <4>1, <4>2, Constants DEF Word
    <3>4. cleared.digits[i + 1] = z.digits[i + 1] /\ d - cleared.digits[i + 1] = 1
      BY <2>4, <3>2, <3>3
    <3>5. Low(z', n) = Low(cleared, n) + (d - cleared.digits[i + 1]) * Weight(i + 1)
      BY <2>4, <3>1, <3>2, <3>3, SetLow
    <3>6. Value(z') = v
      <4>1. Low(z', n) = Low(cleared, n) + 1 * Weight(i + 1)
        BY <3>4, <3>5, Zenon
      <4>2. Low(z', n) = v
        BY <2>6, <2>7, <2>8, <4>1
      <4>3. QED
        BY <1>4, <4>2 DEF Value, Low
    <3>7. \A k \in 0 .. i' - 1 : z'.digits[k] = 0
      <4>1. \A k \in 0 .. cleared.n_alloc - 1 : k # i + 1 => z'.digits[k] = cleared.digits[k]
        BY <2>4, <3>1, <3>2, <3>3, SetDigitFacts
      <4>2. \A k \in 0 .. (i + 1) - 1 : k # i + 1 /\ k \in 0 .. cleared.n_alloc - 1
        BY <2>3, <2>4, <3>2
      <4>3. QED
        BY <2>1, <2>9, <4>1, <4>2
    <3>8. CASE d = RADIX
      BY <1>6, <3>1, <3>6, <3>7, <3>8
    <3>9. CASE d # RADIX
      BY <1>5, <3>1, <3>6, <3>9
    <3>10. QED
      BY <3>8, <3>9
  <2>11. CASE ~ (i + 1 < n)
    <3>1. z' = cleared /\ pc' = "done" /\ ret' = 1
      BY <1>1, <1>8, <2>11 DEF RoundRipple
    <3> HIDE DEF cleared
    <3>2. i + 1 = n
      BY <1>2, <2>1, <2>11
    <3>3. Value(z') = 0
      <4>1. 0 \in 0 .. cleared.n_alloc /\ n \in 0 .. cleared.n_alloc /\ 0 =< n
        BY <1>2, <2>4
      <4>2. \A k \in 0 .. n - 1 : cleared.digits[k] = 0
        BY <2>9, <3>2
      <4>3. Low(cleared, n) = Low(cleared, 0)
        BY <2>4, <4>1, <4>2, LowZeros
      <4>4. QED
        BY <1>4, <3>1, <4>3, LowZero DEF Value, Low
    <3>4. v = Weight(n)
      <4>1. Low(cleared, n) = 0
        BY <1>4, <3>1, <3>3 DEF Value, Low
      <4>2. QED
        BY <2>6, <2>7, <2>8, <3>2, <4>1
    <3>5. v >= Weight(n)
      BY <2>6, <2>7, <3>2, <3>4
    <3>6. ResultAsPromised'
      BY <1>1, <1>3, <1>4, <3>1, <3>3, <3>5, RoundReturns DEF v, n
    <3>7. RoundValues'
      BY <1>1, <1>3, <3>1 DEF RoundValues, NonZeroLow, n
    <3>8. QED
      BY <1>1, <1>3, <3>6, <3>7, OneValue
  <2>12. QED
    BY <2>10, <2>11
<1>9. QED
  BY <1>7, <1>8

-----------------------------------------------------------------------------
(* At the call only the part about the function called says something. *)
LEMMA OneStart ==
  ASSUME IInv, pc = "loop",
         fn = "iadd_digits" => AddValues,
         fn = "isub_digits" => SubValues,
         fn = "iadd_digit" => IncrementValues,
         fn = "imul_digit" => MulDigitValues,
         fn = "mul" => MulValues,
         fn = "div_digit" => DivDigitValues,
         fn = "round" => RoundValues,
         fn = "cmp" => CmpValues,
         fn = "eliminate_trailing_zeros" => EliminateValues
  PROVE  VInv
<1>1. AddValues /\ SubValues /\ IncrementValues
  BY DEF AddValues, SubValues, IncrementValues
<1>2. MulDigitValues /\ MulValues /\ DivDigitValues
  BY DEF MulDigitValues, MulValues, DivDigitValues
<1>3. RoundValues /\ CmpValues /\ EliminateValues
  BY DEF RoundValues, CmpValues, EliminateValues
<1>4. ResultAsPromised
  BY DEF ResultAsPromised
<1>5. QED
  BY <1>1, <1>2, <1>3, <1>4 DEF VInv

LEMMA InitValues == Init => VInv
<1>1. ASSUME Init, CallAdd PROVE VInv
  <2>1. PICK a \in Operands, b \in Operands :
          LET c == digits_copy(a, 0, MAX(b.n_signif - a.n_signif + 1, 1))
          IN  /\ Call("iadd_digits", c, b, 0,
                      [c EXCEPT !.n_signif = MAX(a.n_signif, b.n_signif)])
              /\ i = 0
    BY <1>1 DEF CallAdd
  <2> DEFINE n_add == MAX(b.n_signif - a.n_signif + 1, 1)
  <2>2. /\ WellFormed(a) /\ ProperCells(a) /\ a.n_signif \in Nat
        /\ b.n_signif \in Nat
    BY OperandFacts
  <2>3. n_add \in Nat /\ a.n_signif + n_add = MAX(a.n_signif, b.n_signif) + 1
    BY <2>2 DEF MAX
  <2>4. /\ fn = "iadd_digits" /\ pc = "loop" /\ i = 0 /\ carry = 0 /\ ret = 0
        /\ x = digits_copy(a, 0, n_add) /\ y = b
    BY <2>1 DEF Call
  <2> HIDE DEF n_add
  <2>5. x.n_alloc = a.n_signif + 0 + n_add /\ x.n_signif = a.n_signif + 0
    <3>1. WellFormed(a) /\ ProperCells(a) /\ 0 \in Nat /\ n_add \in Nat
          /\ x = digits_copy(a, 0, n_add)
      BY <2>2, <2>3, <2>4
    <3>2. x.n_alloc = a.n_signif + 0 + n_add
      BY <3>1, CopyFacts
    <3>3. x.n_signif = a.n_signif + 0
      BY <3>1, CopyFacts
    <3>4. QED
      BY <3>2, <3>3
  <2>6. x.n_alloc = MAX(x.n_signif, y.n_signif) + 1
    BY <2>2, <2>3, <2>4, <2>5
  <2>7. Low(z, i) + carry * Weight(i) = Low(x, i) + Low(y, i)
    BY <2>4, LowZero, WeightZero
  <2>8. AddValues
    BY <2>4, <2>6, <2>7 DEF AddValues
  <2>9. QED
    BY <1>1, <2>4, <2>8, InitInv, OneStart
<1>2. ASSUME Init, CallSub PROVE VInv
  <2>1. fn = "isub_digits" /\ pc = "loop" /\ i = 0 /\ carry = 0 /\ ret = 0
    BY <1>2 DEF CallSub, Call
  <2>2. Low(z, i) - carry * Weight(i) = Low(x, i) - Low(y, i)
    BY <2>1, LowZero, WeightZero
  <2>3. SubValues
    BY <2>1, <2>2 DEF SubValues
  <2>4. QED
    BY <1>2, <2>1, <2>3, InitInv, OneStart
<1>3. ASSUME Init, CallIncrement PROVE VInv
  <2>1. PICK n \in Lengths :
          \E a \in Arrays(n) :
            /\ Call("iadd_digit", a, NoArray, 1, a)
            /\ i = 0
    BY <1>3 DEF CallIncrement
  <2>2. /\ fn = "iadd_digit" /\ pc = "loop" /\ ret = 0 /\ z = x
        /\ x.n_alloc = x.n_signif
    BY <2>1, ArrayFacts DEF Call
  <2>3. IncrementValues
    BY <2>2 DEF IncrementValues
  <2>4. QED
    BY <1>3, <2>2, <2>3, InitInv, OneStart
<1>4. ASSUME Init, CallMulDigit PROVE VInv
  <2>1. /\ fn = "imul_digit" /\ pc = "loop" /\ i = 0 /\ carry = 0 /\ ret = 0
        /\ arg \in Digits
    BY <1>4 DEF CallMulDigit, Call
  <2>2. arg \in Int
    BY <2>1, DigitsAssumption, Constants
  <2>3. Low(z, i) + carry * Weight(i) = Low(x, i) * arg
    BY <2>1, <2>2, LowZero, WeightZero
  <2>4. MulDigitValues
    BY <2>1, <2>3 DEF MulDigitValues
  <2>5. QED
    BY <1>4, <2>1, <2>4, InitInv, OneStart
<1>5. ASSUME Init, CallMul PROVE VInv
  <2>1. PICK a \in Operands, b \in Operands :
          Call("mul", a, b, 0, digits_alloc(a.n_signif + b.n_signif)) /\ i = 0
    BY <1>5 DEF CallMul
  <2>2. /\ a.n_signif \in Nat /\ a.n_signif >= 1 /\ a.n_alloc = a.n_signif
        /\ b.n_signif \in Nat /\ b.n_signif >= 1 /\ WellFormed(a)
    BY OperandFacts
  <2> DEFINE n == a.n_signif + b.n_signif
  <2>3. /\ fn = "mul" /\ pc = "loop" /\ i = 0 /\ j = 0 /\ carry = 0 /\ ret = 0
        /\ x = a /\ y = b /\ z = digits_alloc(n)
    BY <2>1 DEF Call
  <2>4. n \in Nat
    BY <2>2
  <2> HIDE DEF n
  <2>5. WellFormed(z) /\ z.n_alloc = n /\ z.n_signif = n
    BY <2>3, <2>4, AllocFacts
  <2>6. \A k \in 0 .. n - 1 : z.digits[k] = 0
    BY <2>3, <2>4 DEF digits_alloc
  <2>7. x.n_signif \in 0 .. n - 1 /\ n - 1 >= x.n_signif /\ j + x.n_signif = x.n_signif
        /\ ~ (j = y.n_signif)
    BY <2>2, <2>3 DEF n
  <2>8. Low(z, x.n_signif) = 0
    <3>1. 0 \in 0 .. z.n_alloc /\ x.n_signif \in 0 .. z.n_alloc /\ 0 =< x.n_signif
      BY <2>4, <2>5, <2>7
    <3>2. \A k \in 0 .. x.n_signif - 1 : z.digits[k] = 0
      BY <2>4, <2>6, <2>7
    <3>3. Low(z, x.n_signif) = Low(z, 0)
      BY <2>5, <3>1, <3>2, LowZeros
    <3>4. QED
      BY <3>3, LowZero
  <2>9. Value(x) * Low(y, j) = 0
    <3>1. Value(x) = Low(x, x.n_signif) /\ x.n_signif \in 0 .. x.n_alloc
      BY <2>2, <2>3 DEF Value, Low
    <3>2. Value(x) \in Int
      BY <2>2, <2>3, <3>1, LowType
    <3>3. QED
      BY <2>3, <3>2, LowZero
  <2>10. Low(x, i) * (y.digits[j] * Weight(j)) = 0
    <3>1. y.digits[0] \in Int
      BY <2>2, <2>3, OperandFacts, DigitRange
    <3>2. y.digits[j] * Weight(j) \in Int
      BY <2>3, <3>1, WeightZero
    <3>3. QED
      BY <2>3, <3>2, LowZero
  <2>11. z.digits[j + x.n_signif] = 0 /\ z.digits[j + x.n_signif] * Weight(i + j) = 0
    BY <2>3, <2>6, <2>7, WeightZero
  <2>12. \A k \in j + x.n_signif + 1 .. z.n_alloc - 1 : z.digits[k] = 0
    BY <2>4, <2>5, <2>6, <2>7
  <2>13. MulValues
    BY <2>3, <2>5, <2>7, <2>8, <2>9, <2>10, <2>11, <2>12 DEF MulValues
  <2>14. QED
    BY <1>5, <2>3, <2>13, InitInv, OneStart
<1>6. ASSUME Init, CallDivDigit PROVE VInv
  <2>1. PICK a \in Operands, d \in Digits \ {0}, n_shift \in 0 .. 1 :
          LET c == digits_copy(a, n_shift, 0)
          IN  /\ Call("div_digit", c, NoArray, d, digits_alloc(c.n_signif))
              /\ i = c.n_signif - 1
    BY <1>6 DEF CallDivDigit
  <2>2. WellFormed(a) /\ ProperCells(a) /\ a.n_signif \in Nat /\ a.n_signif >= 1
    BY OperandFacts
  <2> DEFINE n == x.n_signif
  <2>3. /\ fn = "div_digit" /\ pc = "loop" /\ carry = 0 /\ ret = 0 /\ arg \in Digits
        /\ x = digits_copy(a, n_shift, 0) /\ z = digits_alloc(n) /\ i = n - 1
    BY <2>1 DEF Call
  <2>4. WellFormed(x) /\ n = a.n_signif + n_shift /\ x.n_alloc = a.n_signif + n_shift + 0
    <3>1. WellFormed(a) /\ ProperCells(a) /\ n_shift \in Nat /\ 0 \in Nat
          /\ x = digits_copy(a, n_shift, 0)
      BY <2>2, <2>3
    <3>2. WellFormed(x)
      BY <3>1, CopyFacts
    <3>3. n = a.n_signif + n_shift
      BY <3>1, CopyFacts
    <3>4. x.n_alloc = a.n_signif + n_shift + 0
      BY <3>1, CopyFacts
    <3>5. QED
      BY <3>2, <3>3, <3>4
  <2>5. n \in Nat /\ n \in 0 .. x.n_alloc /\ x.n_alloc = n /\ i + 1 = n
    BY <2>2, <2>3, <2>4
  <2>6. WellFormed(z) /\ z.n_alloc = n /\ z.n_signif = n
    BY <2>3, <2>5, AllocFacts
  <2>7. Value(x) = Low(x, i + 1) /\ Value(z) = Low(z, i + 1)
    BY <2>5, <2>6 DEF Value, Low
  <2>8. Low(x, i + 1) \in Int /\ Low(z, i + 1) \in Int /\ Weight(i + 1) \in Int /\ arg \in Int
    BY <2>3, <2>4, <2>5, <2>6, LowType, WeightFacts, DigitsAssumption, Constants
  <2>9. Value(x) - Low(x, i + 1) = (Value(z) - Low(z, i + 1)) * arg + carry * Weight(i + 1)
    BY <2>3, <2>7, <2>8
  <2>10. DivDigitValues
    BY <2>3, <2>5, <2>6, <2>9 DEF DivDigitValues
  <2>11. QED
    BY <1>6, <2>3, <2>10, InitInv, OneStart
<1>7. ASSUME Init, CallRound PROVE VInv
  <2>1. PICK a \in Operands, sign \in {-1, 1}, mode \in RoundingModes :
          \E shift \in 1 .. a.n_signif * DEC_DIGITS_PER_DIGIT :
            /\ NonZeroLow(a)
            /\ Call("round", a, NoArray, [shift |-> shift, sign |-> sign, mode |-> mode], a)
            /\ i = 0
    BY <1>7 DEF CallRound
  <2>2. fn = "round" /\ pc = "loop" /\ ret = 0 /\ z = x /\ x = a /\ NonZeroLow(a)
    BY <2>1 DEF Call
  <2>3. x.n_alloc = x.n_signif
    BY <2>2, OperandFacts
  <2>4. RoundValues
    BY <2>2, <2>3 DEF RoundValues
  <2>5. QED
    BY <1>7, <2>2, <2>4, InitInv, OneStart
<1>8. ASSUME Init, CallCmp PROVE VInv
  <2>1. PICK a \in Operands, b \in Operands :
          Call("cmp", a, b, 0, a) /\ i = a.n_signif - 1
    BY <1>8 DEF CallCmp
  <2>2. /\ fn = "cmp" /\ pc = "loop" /\ z = x /\ x = a /\ y = b /\ j = 0 /\ i = a.n_signif - 1
    BY <2>1 DEF Call
  <2>3. x.n_signif \in Nat /\ y.n_signif \in Nat
    BY <2>2, OperandFacts
  <2>4. CmpValues
    BY <2>2, <2>3 DEF CmpValues
  <2>5. QED
    BY <1>8, <2>2, <2>4, InitInv, OneStart
<1>9. ASSUME Init, CallEliminate PROVE VInv
  <2>1. PICK a \in Operands :
          Call("eliminate_trailing_zeros", a, NoArray, 0, a) /\ i = 0
    BY <1>9 DEF CallEliminate
  <2>2. /\ fn = "eliminate_trailing_zeros" /\ pc = "loop" /\ ret = 0 /\ z = x /\ x = a /\ i = 0
    BY <2>1 DEF Call
  <2>3. x.n_alloc = x.n_signif
    BY <2>2, OperandFacts
  <2>4. EliminateValues
    BY <2>2, <2>3 DEF EliminateValues
  <2>5. QED
    BY <1>9, <2>2, <2>4, InitInv, OneStart
<1>10. QED
  BY <1>1, <1>2, <1>3, <1>4, <1>5, <1>6, <1>7, <1>8, <1>9 DEF Init

LEMMA NextValues == VInv /\ [Next]_vars => VInv'
<1>1. ASSUME VInv, UNCHANGED vars PROVE VInv'
  <2>1. /\ fn' = fn /\ x' = x /\ y' = y /\ arg' = arg /\ z' = z
        /\ i' = i /\ j' = j /\ carry' = carry /\ pc' = pc /\ ret' = ret
    BY <1>1 DEF vars
  <2>2. IInv'
    BY <1>1, NextInv DEF VInv
  <2>3. AddValues' /\ SubValues' /\ IncrementValues'
    BY <1>1, <2>1 DEF VInv, AddValues, SubValues, IncrementValues, SameFrom, Low, Value
  <2>4. MulDigitValues' /\ MulValues' /\ DivDigitValues'
    BY <1>1, <2>1 DEF VInv, MulDigitValues, MulValues, DivDigitValues, Low, Value
  <2>5. RoundValues' /\ CmpValues' /\ EliminateValues'
    BY <1>1, <2>1 DEF VInv, RoundValues, CmpValues, EliminateValues, SameFrom, NonZeroLow, Value
  <2>6. ResultAsPromised'
    BY <1>1, <2>1 DEF VInv, ResultAsPromised, Promise!Result, Promise!Added, Promise!Subtracted,
       Promise!Incremented, Promise!MultipliedByDigit, Promise!Multiplied, Promise!DividedByDigit,
       Promise!RoundedTo, Promise!Compared, Promise!Trimmed, Promise!Value
  <2>7. QED
    BY <2>2, <2>3, <2>4, <2>5, <2>6 DEF VInv
<1>2. ASSUME VInv, Next PROVE VInv'
  <2>1. IInv'
    BY <1>2, NextInv DEF VInv
  <2>2. CASE Returned
    BY <1>1, <1>2, <2>2 DEF Returned
  <2>3. CASE ~ Returned
    BY <1>2, <2>1, <2>3, AddComputes, SubComputes, IncrementComputes, MulDigitComputes,
       MulComputes, DivDigitComputes, RoundComputes, CmpComputes, EliminateComputes
       DEF Next
  <2>4. QED
    BY <2>2, <2>3
<1>3. QED
  BY <1>1, <1>2

-----------------------------------------------------------------------------
(***************************************************************************)
(* While a function of digit_array.c runs, the digits it has written stand *)
(* for what they should, and when it returns its result does.              *)
(***************************************************************************)
THEOREM ValuesInvariant == Spec => []VInv
BY InitValues, NextValues, PTL DEF Spec

(* With as many digits as the other operand a sum needs no more than one more. *)
LEMMA SumFits ==
  ASSUME NEW v \in Nat, NEW w \in Nat, NEW k \in Nat, NEW l \in Nat, l =< k,
         v < Weight(k), w < Weight(l)
  PROVE  Sum(v, k, w, l) = v + w
<1> DEFINE m == Weight(k)
<1> DEFINE sum == v + w
<1>1. m \in Nat \ {0} /\ Weight(l) =< m /\ Weight(l) \in Nat
  BY WeightFacts, WeightSplit
<1>2. MAX(k, l) = k
  BY DEF MAX
<1> HIDE DEF m
<1>3. sum \in Nat /\ sum < 2 * m
  BY <1>1 DEF m
<1> HIDE DEF sum
<1>4. CASE sum >= m
  <2>1. sum \div m = 1
    BY <1>1, <1>3, <1>4
  <2>2. 1 % RADIX = 1
    BY Constants
  <2>3. DigitAt(sum, k) # 0
    BY <2>1, <2>2 DEF DigitAt, m
  <2>4. SumCount(v, k, w, l) = k + 1
    BY <1>2, <1>4, <2>3 DEF SumCount, sum, m
  <2>5. k + 1 # k
    OBVIOUS
  <2>6. QED
    BY <1>2, <2>4, <2>5 DEF Sum
<1>5. CASE ~ (sum >= m)
  BY <1>2, <1>5 DEF Sum, sum, m
<1>6. QED
  BY <1>4, <1>5 DEF sum

(***************************************************************************)
(* digits_iadd_digits returns the exact sum, carries and wrapped words     *)
(* included, if the array added to is not the shorter one.                 *)
(***************************************************************************)
THEOREM SumExact == Spec => []SumIsExact
<1>1. VInv => SumIsExact
  <2> SUFFICES ASSUME VInv, pc = "done", fn = "iadd_digits", x.n_signif >= y.n_signif
               PROVE  Value(z) = Value(x) + Value(y)
    BY DEF SumIsExact
  <2>1. /\ WellFormed(x) /\ WellFormed(y) /\ ProperCells(x) /\ ProperCells(y)
        /\ Promise!Result(z, ret)
    BY DEF VInv, IInv, TypeOK, ResultAsPromised
  <2>2. Promise!Added(z, ret)
    BY <2>1 DEF Promise!Result
  <2>3. Value(z) = Sum(Value(x), x.n_signif, Value(y), y.n_signif)
    BY <2>2, PromisedSum, PromisedValue DEF Promise!Added, Promise!Holds, Promise!Value, Value
  <2>4. /\ x.n_signif \in Nat /\ x.n_signif \in 0 .. x.n_alloc
        /\ y.n_signif \in Nat /\ y.n_signif \in 0 .. y.n_alloc
    BY <2>1, Cells
  <2>5. Value(x) \in Nat /\ Value(x) < Weight(x.n_signif)
    BY <2>1, <2>4, LowRange DEF Low, Value
  <2>6. Value(y) \in Nat /\ Value(y) < Weight(y.n_signif)
    BY <2>1, <2>4, LowRange DEF Low, Value
  <2>7. QED
    BY <2>3, <2>4, <2>5, <2>6, SumFits
<1>2. QED
  BY <1>1, ValuesInvariant, PTL

-----------------------------------------------------------------------------
(* No step of a call touches its operands. *)
LEMMA OperandsKept == Next => UNCHANGED operands
<1>1. AddDigit \/ AddEnd \/ AddRipple \/ AddSettle => UNCHANGED operands
  BY DEF AddDigit, AddEnd, AddRipple, AddSettle
<1>2. SubDigit \/ SubEnd \/ SubRipple \/ SubSettle => UNCHANGED operands
  BY DEF SubDigit, SubEnd, SubRipple, SubSettle
<1>3. IncrementDigit \/ IncrementRipple \/ IncrementSettle => UNCHANGED operands
  BY DEF IncrementDigit, IncrementRipple, IncrementSettle
<1>4. MulDigitStep \/ MulDigitEnd \/ MulStep \/ MulRow \/ MulEnd => UNCHANGED operands
  BY DEF MulDigitStep, MulDigitEnd, MulStep, MulRow, MulEnd
<1>5. DivDigitStep \/ DivDigitEnd \/ RoundDigit \/ RoundRipple => UNCHANGED operands
  BY DEF DivDigitStep, DivDigitEnd, RoundDigit, RoundRipple
<1>6. CmpStep \/ FindLeastSignificant \/ Found \/ MoveDown \/ MoveEnd => UNCHANGED operands
  BY DEF CmpStep, FindLeastSignificant, Found, MoveDown, MoveEnd
<1>7. Returned => UNCHANGED operands
  BY DEF Returned, vars, operands
<1>8. QED
  BY <1>1, <1>2, <1>3, <1>4, <1>5, <1>6, <1>7 DEF Next

(* A call that has returned takes no further step. *)
LEMMA DoneStays == Next /\ pc = "done" => UNCHANGED vars
BY DEF Next, Returned, AddDigit, AddEnd, AddRipple, AddSettle, SubDigit, SubEnd, SubRipple,
       SubSettle, IncrementDigit, IncrementRipple, IncrementSettle, MulDigitStep, MulDigitEnd,
       MulStep, MulRow, MulEnd, DivDigitStep, DivDigitEnd, RoundDigit, RoundRipple, CmpStep,
       FindLeastSignificant, Found, MoveDown, MoveEnd

(***************************************************************************)
(* The loops of digit_array.c refine the one-step promises of module       *)
(* DigitArithmetic: the step in which a function returns leaves exactly    *)
(* the number promised in exactly the digits promised, every other step    *)
(* is invisible to the caller.                                             *)
(***************************************************************************)
THEOREM ArithmeticImplemented == Spec => ImplementsArithmetic
<1>1. Init => Promise!Init
  <2>1. Init => pc = "loop"
    BY DEF Init, CallAdd, CallSub, CallIncrement, CallMulDigit, CallMul, CallDivDigit,
           CallRound, CallCmp, CallEliminate, Call
  <2>2. QED
    BY <2>1 DEF Promise!Init
<1>2. VInv' /\ [Next]_vars => [Promise!Return]_(Promise!vars)
  <2> SUFFICES ASSUME VInv', [Next]_vars
               PROVE  [Promise!Return]_(Promise!vars)
    OBVIOUS
  <2>1. CASE UNCHANGED vars
    BY <2>1 DEF vars, Promise!vars
  <2>2. CASE Next /\ pc = "done"
    BY <2>2, DoneStays DEF vars, Promise!vars
  <2>3. CASE Next /\ pc # "done" /\ pc' # "done"
    BY <2>3, OperandsKept DEF operands, Promise!vars
  <2>4. CASE Next /\ pc # "done" /\ pc' = "done"
    <3>1. fn' = fn /\ x' = x /\ y' = y /\ arg' = arg
      BY <2>4, OperandsKept DEF operands
    <3>2. Promise!Result(z, ret)'
      BY <2>4 DEF VInv, ResultAsPromised
    <3>3. Promise!Result(z', ret')
      BY <3>1, <3>2 DEF Promise!Result, Promise!Added, Promise!Subtracted, Promise!Incremented,
         Promise!MultipliedByDigit, Promise!Multiplied, Promise!DividedByDigit,
         Promise!RoundedTo, Promise!Compared, Promise!Trimmed, Promise!Value
    <3>4. Promise!Return
      BY <2>4, <3>1, <3>3 DEF Promise!Return
    <3>5. QED
      BY <3>4
  <2>5. QED
    BY <2>1, <2>2, <2>3, <2>4
<1>3. QED
  BY <1>1, <1>2, ValuesInvariant, PTL DEF Spec, ImplementsArithmetic, Promise!Spec

=============================================================================
