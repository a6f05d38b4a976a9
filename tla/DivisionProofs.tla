---------------------------- MODULE DivisionProofs ----------------------------
(***************************************************************************)
(* Quotients and remainders are in the form the functions take for granted *)
(* and stand for the right numbers: for every base, word size and set of   *)
(* limits, whatever the client calls.                                      *)
(***************************************************************************)
EXTENDS FpdecDivision, FpdecProofs

-----------------------------------------------------------------------------
(***************************************************************************)
(* The inductive invariant of DivisionSpec: the operands are in form, and  *)
(* so is what a client may keep of the last call; a remainder is kept or   *)
(* freed before the next one.                                              *)
(***************************************************************************)
DivisionResults ==
  /\ r \in Decimals
  /\ call.fn # "divmod" => r = FPDEC_ZERO
  /\ call.fn \in DivisionCalls =>
       /\ call.rc = "OK" /\ Usable(z) => Operand(z)
       /\ call.rc = "OK" /\ Usable(r) => Operand(r)
  /\ call.fn \notin DivisionCalls => ResultInv

DivisionInv ==
  /\ TypeOK /\ Operand(x) /\ Operand(y) /\ DivisionResults
  /\ DivisionsAreWellFormed /\ DivisionsDoNotAbort
  /\ DivModIsFloor /\ DivIsExact /\ QuotientIsConcise /\ DivIsRounded

-----------------------------------------------------------------------------
(* fpdec_divmod: quotient, remainder and the operands, as amounts. *)

LEMMA MagnitudeOf ==
  ASSUME NEW s \in {-1, 1}, NEW m \in Nat, NEW e \in Int
  PROVE  Magnitude(Canonical(s * m, e)) = Canonical(m, e)
<1>1. PICK k \in Int : k = s * m /\ (k = m \/ k = -m)
  OBVIOUS
<1>2. Canonical(m, e)[1] \in Int /\ CMP(Canonical(m, e)[1], 0) = CMP(m, 0)
  BY CanonicalSign
<1>3. PICK c \in Int : c = Canonical(m, e)[1] /\ c >= 0
  BY <1>2 DEF CMP
<1>4. Canonical(m, e) = << c, Canonical(m, e)[2] >>
  <2>1. CASE m = 0
    BY <2>1, <1>3, CanonicalZero
  <2>2. CASE m # 0
    <3>1. m \in Int
      OBVIOUS
    <3>2. \E i \in Int, j \in Int : Canonical(m, e) = << i, j >>
      BY <2>2, <3>1, CanonicalFacts, ZenonT(60)
    <3>3. QED
      BY <3>2, <1>3
  <2>3. QED
    BY <2>1, <2>2
<1>5. CASE k = m
  <2>1. Magnitude(Canonical(m, e)) = << c, Canonical(m, e)[2] >>
    BY <1>3, <1>4 DEF Magnitude, ABS
  <2>2. QED
    BY <2>1, <1>4, <1>5, <1>1
<1>6. CASE k = -m
  <2>1. Canonical(-m, e) = Minus(Canonical(m, e))
    BY CanonicalMinus
  <2>2. Minus(Canonical(m, e)) = << -c, Canonical(m, e)[2] >>
    BY <1>3, <1>4 DEF Minus
  <2>3. Magnitude(<< -c, Canonical(m, e)[2] >>) = << c, Canonical(m, e)[2] >>
    BY <1>3 DEF Magnitude, ABS
  <2>4. QED
    BY <2>1, <2>2, <2>3, <1>4, <1>6, <1>1
<1>7. QED
  BY <1>1, <1>5, <1>6

(* The sign of a number is that of what it stands for. *)
SignIs(a, s, v) == a.sign = IF v = 0 THEN 0 ELSE s

(***************************************************************************)
(* What DivModIsFloor says of the results of a call. The quotient meant is *)
(* that of the results, unless its increment has lost a carry.             *)
(***************************************************************************)
FloorOf(a, b, meant, o) ==
  /\ o.rc = "OK"
  /\ Number(a) = Plus(Times(meant, Number(b)), Number(o.r))
  /\ Number(o.q)[2] >= 0
  /\ o.r.sign # 0 => /\ o.r.sign = b.sign
                     /\ Excess(Magnitude(Number(b)), Magnitude(Number(o.r)))[1] > 0

(* a = q b + r in a common unit: the signs of q and r are those wanted. *)
Floors(s, m, k, v, w) == w < v /\ (s = 1 => m = k * v + w) /\ (s = -1 => m + w = k * v)

FloorSumIs(i, j, m, k, v, w) == ((i * j) * k) * (j * v) + j * w = i * m

LEMMA FloorSum ==
  ASSUME NEW i \in {-1, 1}, NEW j \in {-1, 1}, NEW m \in Nat, NEW k \in Nat, NEW v \in Nat, NEW w \in Nat,
         Floors(i * j, m, k, v, w)
  PROVE  FloorSumIs(i, j, m, k, v, w)
<1>1. PICK u \in Nat : u = k * v
  OBVIOUS
<1>2. ((i * j) * k) * (j * v) = i * u
  <2>1. CASE i = 1 /\ j = 1
    BY <2>1, <1>1
  <2>2. CASE i = 1 /\ j = -1
    <3>1. PICK g \in Int : g = -k /\ g * (-v) = k * v
      OBVIOUS
    <3>2. QED
      BY <2>2, <1>1, <3>1
  <2>3. CASE i = -1 /\ j = 1
    <3>1. (-k) * v = -(k * v)
      OBVIOUS
    <3>2. QED
      BY <2>3, <1>1, <3>1
  <2>4. CASE i = -1 /\ j = -1
    <3>1. k * (-v) = -(k * v)
      OBVIOUS
    <3>2. QED
      BY <2>4, <1>1, <3>1
  <2>5. QED
    BY <2>1, <2>2, <2>3, <2>4
<1>3. i * u + j * w = i * m
  <2>1. CASE i = j
    BY <2>1, <1>1 DEF Floors
  <2>2. CASE i = -j
    BY <2>2, <1>1 DEF Floors
  <2>3. QED
    BY <2>1, <2>2
<1>4. QED
  BY <1>2, <1>3 DEF FloorSumIs

LEMMA FloorIsMeant ==
  ASSUME NEW a, a.sign \in {-1, 1}, NEW b, b.sign \in {-1, 1}, NEW e \in Int,
         NEW m, Amount(a, e, m), NEW v, Amount(b, e, v),
         NEW k \in Nat, NEW w \in Nat, NEW s, s = a.sign * b.sign, Floors(s, m, k, v, w),
         NEW meant, meant = Canonical(s * k, 0), NEW q, Number(q)[2] >= 0,
         NEW res, Number(res) = Canonical(b.sign * w, e), SignIs(res, b.sign, w)
  PROVE  FloorOf(a, b, meant, Results("OK", q, res))
<1>1. m \in Nat /\ v \in Nat /\ Number(a) = Canonical(a.sign * m, e) /\ Number(b) = Canonical(b.sign * v, e)
  BY DEF Amount
<1>2. meant = Canonical(s * k, 0) /\ Number(res) = Canonical(b.sign * w, e)
  OBVIOUS
<1>3. PICK i \in {-1, 1}, j \in {-1, 1} : i = a.sign /\ j = b.sign /\ s = i * j
  OBVIOUS
<1>4. s * k \in Int /\ j * v \in Int /\ j * w \in Int /\ i * m \in Int /\ s \in {-1, 1}
  <2>1. s \in {-1, 1}
    BY <1>3
  <2>2. \A g \in {-1, 1}, n \in Nat : g * n \in Int
    OBVIOUS
  <2>3. QED
    BY <1>1, <2>1, <2>2
<1>5. (s * k) * (j * v) + j * w = i * m
  <2>1. Floors(i * j, m, k, v, w)
    BY <1>3
  <2>2. FloorSumIs(i, j, m, k, v, w)
    BY <2>1, <1>1, FloorSum
  <2>3. QED
    BY <2>2, <1>3 DEF FloorSumIs
<1>6. Times(meant, Number(b)) = Canonical((s * k) * (j * v), e)
  <2>1. Times(Canonical(s * k, 0), Canonical(j * v, e)) = Canonical((s * k) * (j * v), 0 + e)
    <3>1. PICK c \in Int, d \in Int, f \in Int : c = s * k /\ d = j * v /\ f = 0
      BY <1>4
    <3>2. Times(Canonical(c, f), Canonical(d, e)) = Canonical(c * d, f + e)
      BY CanonicalTimes
    <3>3. QED
      BY <3>1, <3>2
  <2>2. 0 + e = e
    OBVIOUS
  <2>3. QED
    BY <1>1, <1>2, <1>3, <2>1, <2>2
<1>7. Number(a) = Plus(Times(meant, Number(b)), Number(res))
  <2>1. PICK u \in Int, t \in Int : u = (s * k) * (j * v) /\ t = j * w /\ u + t = i * m
    BY <1>4, <1>5
  <2>2. Plus(Canonical(u, e), Canonical(t, e)) = Canonical(u + t, e)
    BY CanonicalPlus
  <2>3. QED
    BY <1>1, <1>2, <1>3, <1>6, <2>1, <2>2
<1>8. Number(q)[2] >= 0
  OBVIOUS
<1>9. res.sign # 0 => res.sign = b.sign
  BY DEF SignIs
<1>10. Excess(Magnitude(Number(b)), Magnitude(Number(res)))[1] > 0
  <2>1. Magnitude(Number(b)) = Canonical(v, e) /\ Magnitude(Number(res)) = Canonical(w, e)
    BY <1>1, <1>2, <1>3, MagnitudeOf
  <2>2. Minus(Canonical(w, e)) = Canonical(-w, e)
    BY CanonicalMinus
  <2>3. PICK u \in Int, d \in Int : u = -w /\ d = v + u /\ d > 0
    BY <1>1 DEF Floors
  <2>4. Plus(Canonical(v, e), Canonical(u, e)) = Canonical(d, e)
    BY <1>1, <2>3, CanonicalPlus
  <2>5. Canonical(d, e)[1] \in Int /\ CMP(Canonical(d, e)[1], 0) = CMP(d, 0)
    BY CanonicalSign
  <2>6. Canonical(d, e)[1] > 0
    BY <2>3, <2>5 DEF CMP
  <2>7. QED
    BY <2>1, <2>2, <2>3, <2>4, <2>6 DEF Excess
<1>11. QED
  BY <1>7, <1>8, <1>9, <1>10 DEF FloorOf, Results

LEMMA IntegralNumber ==
  ASSUME NEW s \in {-1, 1}, NEW k \in Nat, NEW v, v = Canonical(s * k, 0)
  PROVE  v[2] >= 0
<1>1. PICK u \in Int, g \in Int : u = s * k /\ g = 0 /\ g =< g /\ g =< 0
  OBVIOUS
<1>2. Canonical(u, g)[2] >= g
  BY <1>1, CanonicalCovered
<1>3. QED
  BY <1>1, <1>2

LEMMA FloorIs ==
  ASSUME NEW a, a.sign \in {-1, 1}, NEW b, b.sign \in {-1, 1}, NEW e \in Int,
         NEW m, Amount(a, e, m), NEW v, Amount(b, e, v),
         NEW k \in Nat, NEW w \in Nat, NEW s, s = a.sign * b.sign, Floors(s, m, k, v, w),
         NEW q, Number(q) = Canonical(s * k, 0),
         NEW res, Number(res) = Canonical(b.sign * w, e), SignIs(res, b.sign, w)
  PROVE  FloorOf(a, b, Number(q), Results("OK", q, res))
<1>1. s \in {-1, 1}
  OBVIOUS
<1>2. Number(q)[2] >= 0
  BY <1>1, IntegralNumber
<1>3. PICK meant : meant = Number(q)
  OBVIOUS
<1>4. FloorOf(a, b, meant, Results("OK", q, res))
  BY <1>2, <1>3, FloorIsMeant
<1>5. QED
  BY <1>3, <1>4

-----------------------------------------------------------------------------
(* Digits of results. *)

LEMMA SignOf ==
  ASSUME NEW a, Operand(a), NEW s \in {-1, 1}, NEW v \in Nat, NEW e \in Int, Number(a) = Canonical(s * v, e)
  PROVE  SignIs(a, s, v)
<1>1. a.sign \in -1 .. 1 /\ a.coeff \in Nat /\ (a.sign = 0 <=> a.coeff = 0)
      /\ a.dec_prec \in Int /\ a.exp \in Int /\ DEC_DIGITS_PER_DIGIT \in Int
  BY Room DEF Operand, Decimals, WellFormed
<1>2. PICK f \in Int : f = IF a.dyn THEN a.exp * DEC_DIGITS_PER_DIGIT ELSE -a.dec_prec
  BY <1>1
<1>3. PICK c \in Int : c = a.sign * a.coeff /\ (c > 0 <=> a.sign = 1) /\ (c < 0 <=> a.sign = -1)
  BY <1>1
<1>4. PICK u \in Int : u = s * v /\ (u > 0 <=> v # 0 /\ s = 1) /\ (u < 0 <=> v # 0 /\ s = -1)
  OBVIOUS
<1>5. Canonical(c, f) = Canonical(u, e)
  BY <1>2, <1>3, <1>4 DEF Number
<1>6. CMP(Canonical(c, f)[1], 0) = CMP(c, 0) /\ CMP(Canonical(u, e)[1], 0) = CMP(u, 0)
  BY CanonicalSign
<1>7. CMP(c, 0) = CMP(u, 0)
  BY <1>5, <1>6
<1>8. QED
  BY <1>1, <1>3, <1>4, <1>7 DEF CMP, SignIs

(* A number with n digits from exp on has no digits beyond them. *)
Within(a, exp, n) == exp =< DigitsOf(a).exp /\ DigitsOf(a).exp + DigitsOf(a).n =< exp + n

LEMMA DigitsWithin ==
  ASSUME NEW a, Operand(a), NEW s \in {-1, 1}, NEW v \in Nat \ {0}, NEW f \in Int, NEW n \in Nat,
         v < Weight(n), Number(a) = Canonical(s * v, Place(f))
  PROVE  Within(a, f, n)
<1>1. Place(f) \in Int /\ Place(f + n) \in Int /\ Place(f) =< Place(f + n)
  BY PlaceFacts
<1>2. a.sign = s /\ a.sign # 0
  BY <1>1, SignOf DEF SignIs
<1>3. PICK d : d = DigitsOf(a) /\ Stripped(d) /\ d.exp \in Int /\ d.n \in Nat \ {0} /\ d.coeff \in Nat \ {0}
               /\ Unit(a) \in Int /\ d.coeff % RADIX # 0
  <2>1. PICK d : d = DigitsOf(a) /\ Stripped(d) /\ d.exp \in INT32_MIN .. FPDEC_MAX_EXP
    BY <1>2, OperandDigits
  <2>2. d.exp \in Int /\ a.dec_prec \in Int
    BY <2>1, Room DEF Operand, Decimals
  <2>3. Unit(a) \in Int
    <3>1. Place(d.exp) \in Int
      BY <2>2, PlaceFacts
    <3>2. PICK i \in Int, j \in Int : i = Place(d.exp) /\ j = -a.dec_prec
      BY <2>2, <3>1
    <3>3. Unit(a) = MIN(i, j)
      BY <2>1, <3>2 DEF Unit
    <3>4. QED
      BY <3>2, <3>3 DEF MIN
  <2>4. QED
    BY <2>1, <2>2, <2>3 DEF Stripped
<1>4. PICK e \in Int : e =< Unit(a) /\ e =< Place(f)
  BY <1>1, <1>3
<1>5. PICK t \in Nat \ {0} : t = Ten(e, Place(f))
  BY <1>1, <1>4, TenType
<1>6. PICK m \in Nat : m = v * t
  OBVIOUS
<1>7. Amount(a, e, m)
  <2>1. ShiftsTo(s, v, e, Place(f))
    BY <1>1, <1>4, SignedShift
  <2>2. QED
    BY <2>1, <1>2, <1>5, <1>6 DEF ShiftsTo, Amount
<1>8. m = d.coeff * Ten(e, Place(d.exp)) /\ e =< Place(d.exp) /\ Place(d.exp) \in Int
  BY <1>2, <1>3, <1>4, <1>7, Amounts
<1>9. d.exp + d.n =< f + n
  <2>1. Weight(n) \in Nat /\ Weight(n) = Ten(Place(f), Place(f + n))
    BY WeightTen, WeightFacts DEF Place
  <2>2. Ten(e, Place(f + n)) = t * Weight(n)
    BY <1>1, <1>4, <1>5, <2>1, TenSteps
  <2>3. m < Ten(e, Place(f + n))
    <3>1. PICK w \in Nat : w = Weight(n) /\ v < w
      BY <2>1
    <3>2. v * t < t * w
      <4>1. v * t < w * t
        BY <3>1
      <4>2. w * t = t * w
        OBVIOUS
      <4>3. QED
        BY <4>1, <4>2
    <3>3. QED
      BY <3>1, <3>2, <2>2, <1>6
  <2>4. Ten(e, Place(d.exp + d.n - 1)) =< m /\ Place(d.exp + d.n - 1) \in Int /\ Place(d.exp) =< Place(d.exp + d.n - 1)
    BY <1>3, <1>8, DigitBounds
  <2>5. PICK i \in Int, j \in Int : i = Place(d.exp + d.n - 1) /\ j = Place(f + n) /\ e =< i /\ e =< j
    BY <2>4, <1>1, <1>4, <1>8
  <2>6. i < j
    BY <2>3, <2>4, <2>5, TenLess
  <2>7. PICK g \in Int, h \in Int : g = f + n /\ h = d.exp + d.n - 1
    BY <1>3
  <2>8. ~(g =< h)
    <3>1. g =< h => Place(g) =< Place(h)
      BY PlaceFacts
    <3>2. QED
      BY <3>1, <2>5, <2>6, <2>7
  <2>9. QED
    BY <2>7, <2>8, <1>3
<1>10. f =< d.exp
  <2>1. SUFFICES ASSUME d.exp + 1 =< f PROVE FALSE
    BY <1>3
  <2>2. PICK k \in Nat, i \in Int : k = f - d.exp /\ k > 0 /\ i = d.exp /\ i + k = f
    BY <1>3, <2>1
  <2>3. Weight(k) = Ten(Place(i), Place(f)) /\ Place(i) =< Place(f)
    BY <2>2, WeightTen DEF Place
  <2>4. Weight(k) = RADIX * Weight(k - 1) /\ Weight(k - 1) \in Nat /\ RADIX \in Nat \ {0} /\ Weight(k) \in Nat
    <3>1. Weight(k) = RADIX * Weight(k - 1) /\ Weight(k) \in Nat
      BY <2>2, WeightFacts
    <3>2. Weight(k - 1) \in Nat
      BY <2>2, WeightFacts
    <3>3. QED
      BY <3>1, <3>2, RadixPositive
  <2>5. PICK u \in Nat \ {0} : u = Ten(e, Place(i))
    BY <1>8, <2>2, TenType
  <2>6. Ten(e, Place(f)) = u * Weight(k)
    BY <1>1, <1>4, <1>8, <2>2, <2>3, <2>5, TenSteps
  <2>7. d.coeff = v * Weight(k)
    <3>1. PICK w \in Nat : w = Weight(k)
      BY <2>4
    <3>2. v * (u * w) = (v * w) * u
      OBVIOUS
    <3>3. d.coeff * u = (v * w) * u
      BY <3>1, <3>2, <2>5, <2>6, <2>2, <1>5, <1>6, <1>8
    <3>4. d.coeff \in Int /\ v * w \in Int
      BY <1>3
    <3>5. QED
      BY <3>1, <3>3, <3>4, CancelFactor
  <2>8. d.coeff % RADIX = 0
    <3>1. PICK w \in Nat, g \in Nat \ {0} : w = Weight(k - 1) /\ g = RADIX /\ Weight(k) = g * w
      BY <2>4
    <3>2. PICK c \in Nat : c = v * w
      OBVIOUS
    <3>3. d.coeff = c * g + 0
      <4>1. v * (g * w) = (v * w) * g
        OBVIOUS
      <4>2. QED
        BY <4>1, <3>1, <3>2, <2>7
    <3>4. PICK u1 \in Int, i1 \in Nat : u1 = d.coeff /\ i1 = 0 /\ i1 < g /\ u1 = i1 + c * g
      BY <3>1, <3>3, <1>3
    <3>5. u1 % g = i1
      BY <3>4, LowAndHigh
    <3>6. QED
      BY <3>1, <3>4, <3>5
  <2>9. QED
    BY <2>8, <1>3
<1>11. QED
  BY <1>3, <1>9, <1>10 DEF Within

-----------------------------------------------------------------------------
(* Division of digits, aligned at the lesser exponent. *)

AlignedAs(a, b, f) ==
  LET i == AlignedTo(a, b)
  IN  /\ i \in Nat \ {0} /\ i < Weight(a.n + (a.exp - f)) /\ a.n + (a.exp - f) \in Nat
      /\ Amount(a, Place(f), i)
      /\ \A p \in Nat : a.dec_prec =< p => \A s \in {-1, 1} : CoveredBy(s, i, Place(f), p)

LEMMA AlignedAmounts ==
  ASSUME NEW a, Operand(a), a.dyn, NEW b, Operand(b), b.dyn, NEW f, f = MIN(a.exp, b.exp)
  PROVE  /\ AlignedAs(a, b, f) /\ f \in INT32_MIN .. FPDEC_MAX_EXP /\ f \in Int
         /\ f =< a.exp /\ f =< b.exp /\ Place(f) \in Int
<1>1. /\ a.sign \in {-1, 1} /\ a.n \in Nat \ {0} /\ Stripped(a)
      /\ a.exp \in INT32_MIN .. FPDEC_MAX_EXP /\ a.exp \in Int
      /\ Number(a) = Canonical(a.sign * a.coeff, Place(a.exp))
  BY DynFacts
<1>2. b.exp \in INT32_MIN .. FPDEC_MAX_EXP /\ b.exp \in Int
  BY DynFacts
<1>3. f \in INT32_MIN .. FPDEC_MAX_EXP /\ f \in Int /\ f =< a.exp /\ f =< b.exp
  BY <1>1, <1>2 DEF MIN
<1>4. Place(f) \in Int
  BY <1>3, PlaceFacts
<1>5. MAX(0, a.exp - b.exp) = a.exp - f
  BY <1>1, <1>2 DEF MAX, MIN
<1>6. AlignedTo(a, b) = ShiftedTo(a, f).coeff /\ ShiftedTo(a, f).n = a.n + (a.exp - f)
  BY <1>5 DEF AlignedTo, ShiftedTo
<1>7. PICK c : c = ShiftedTo(a, f)
  OBVIOUS
<1>8. \A s \in {-1, 1} :
        /\ c.coeff \in Nat \ {0} /\ c.n \in Nat \ {0} /\ c.coeff < Weight(c.n)
        /\ Canonical(s * c.coeff, Place(f)) = Canonical(s * a.coeff, Place(a.exp))
  BY <1>1, <1>3, <1>7, ShiftedDigitsFacts
<1>9. Amount(a, Place(f), c.coeff)
  BY <1>1, <1>8 DEF Amount
<1>10. ASSUME NEW p \in Nat, a.dec_prec =< p, NEW s \in {-1, 1}
       PROVE  CoveredBy(s, c.coeff, Place(f), p)
  <2>1. a.sign # 0
    BY <1>1
  <2>2. Number(a)[2] >= -a.dec_prec /\ a.dec_prec \in 0 .. FPDEC_MAX_DEC_PREC
    BY DEF Operand, PrecCoversDigits, Decimals
  <2>3. PICK k \in Int : k = Canonical(a.sign * a.coeff, Place(a.exp))[2] /\ k >= -a.dec_prec
    <3>1. Place(a.exp) \in Int
      BY <1>1, PlaceFacts
    <3>2. PICK u \in Int : u = a.sign * a.coeff
      <4>1. PICK i \in {-1, 1}, c1 \in Nat : i = a.sign /\ c1 = a.coeff
        BY <1>1 DEF Stripped
      <4>2. QED
        BY <4>1
    <3>3. Canonical(u, Place(a.exp))[2] \in Int
      BY <3>1, CanonicalSign
    <3>4. QED
      BY <3>2, <3>3, <2>2, <1>1
  <2>4. Canonical(a.sign * a.coeff, Place(a.exp)) = Canonical(a.sign * c.coeff, Place(f))
    BY <1>1, <1>8
  <2>5. -a.dec_prec \in Int /\ -p \in Int /\ -p =< -a.dec_prec /\ FPDEC_MAX_DEC_PREC \in Int
    BY <1>10, <2>2, Room
  <2>6. Canonical(a.sign * c.coeff, Place(f))[2] >= -p
    BY <2>3, <2>4, <2>5
  <2>7. Canonical(s * c.coeff, Place(f))[2] >= -p
    <3>1. PICK g \in Int : g = -p
      BY <2>5
    <3>2. c.coeff \in Nat /\ Canonical(a.sign * c.coeff, Place(f))[2] >= g
      BY <1>8, <2>6, <3>1
    <3>3. Canonical(s * c.coeff, Place(f))[2] >= g
      BY <3>2, <1>1, <1>4, CoveredSign
    <3>4. QED
      BY <3>1, <3>3
  <2>8. QED
    BY <2>7 DEF CoveredBy
<1>11. QED
  BY <1>3, <1>4, <1>6, <1>7, <1>8, <1>9, <1>10 DEF AlignedAs

(* What is left of covered digits is covered. *)
LEMMA CoveredRest ==
  ASSUME NEW s \in {-1, 1}, NEW i \in Nat, NEW j \in Nat \ {0}, NEW g \in Int, NEW p \in Nat,
         CoveredBy(s, i, g, p), CoveredBy(s, j, g, p), NEW w \in Nat, w = i % j
  PROVE  CoveredBy(s, w, g, p)
<1>1. PICK f \in Int : f = -p /\ f =< 0
  OBVIOUS
<1>2. PICK q \in Nat : i = q * j + w
  BY QuotientAndRest
<1>3. CASE f =< g
  <2>1. s * w \in Int
    OBVIOUS
  <2>2. Canonical(s * w, g)[2] >= f
    BY <1>1, <1>3, <2>1, CanonicalCovered
  <2>3. QED
    BY <1>1, <2>2 DEF CoveredBy
<1>4. CASE g =< f
  <2>1. PICK i1 \in Int, j1 \in Int, w1 \in Int : i1 = s * i /\ j1 = s * j /\ w1 = s * w
    OBVIOUS
  <2>2. Canonical(i1, g)[2] >= f /\ Canonical(j1, g)[2] >= f
    BY <1>1, <2>1 DEF CoveredBy
  <2>3. PICK t \in Nat : t = Ten(g, f)
    BY <1>4, TenType
  <2>4. PICK c \in Int : i1 = c * t
    <3>1. \E u \in Int : /\ Canonical(i1, g) = Canonical(u, f)
                         /\ g =< f => i1 = u * Ten(g, f)
                         /\ f =< g => u = i1 * Ten(f, g)
      BY <2>2, CoveredMultiple
    <3>2. QED
      BY <3>1, <1>4, <2>3
  <2>5. PICK d \in Int : j1 = d * t
    <3>1. \E u \in Int : /\ Canonical(j1, g) = Canonical(u, f)
                         /\ g =< f => j1 = u * Ten(g, f)
                         /\ f =< g => u = j1 * Ten(f, g)
      BY <2>2, CoveredMultiple
    <3>2. QED
      BY <3>1, <1>4, <2>3
  <2>6. w1 = i1 - q * j1
    <3>1. CASE s = 1
      BY <3>1, <2>1, <1>2
    <3>2. CASE s = -1
      <4>1. q * (-j) = -(q * j)
        OBVIOUS
      <4>2. i1 = -i /\ j1 = -j /\ w1 = -w
        BY <2>1, <3>2
      <4>3. QED
        BY <4>1, <4>2, <1>2
    <3>3. QED
      BY <3>1, <3>2
  <2>7. PICK k \in Int : k = c - q * d
    OBVIOUS
  <2>8. w1 = k * t
    <3>1. q * (d * t) = (q * d) * t
      OBVIOUS
    <3>2. c * t - (q * d) * t = (c - q * d) * t
      <4>1. PICK h \in Int : h = q * d
        OBVIOUS
      <4>2. c * t - h * t = (c - h) * t
        OBVIOUS
      <4>3. QED
        BY <4>1, <4>2
    <3>3. QED
      BY <3>1, <3>2, <2>4, <2>5, <2>6, <2>7
  <2>9. Canonical(w1, g) = Canonical(k, f)
    BY <1>4, <2>3, <2>8, CanonicalShift
  <2>10. f =< f
    BY <1>1
  <2>11. Canonical(k, f)[2] >= f
    BY <1>1, <2>10, CanonicalCovered
  <2>12. QED
    BY <1>1, <2>1, <2>9, <2>11 DEF CoveredBy
<1>5. QED
  BY <1>3, <1>4

-----------------------------------------------------------------------------
(***************************************************************************)
(* Remainders. They are in form, unless one of a divisor of one digit is   *)
(* stored with too many places in a shifted int.                           *)
(***************************************************************************)
RestInForm(a, short) ==
  /\ a \in Decimals /\ PrecCoversDigits(a) /\ (Usable(a) => Operand(a))
  /\ WellFormed(a) \/ (short /\ a.sign # 0 /\ a.dec_prec > MAX_DEC_PREC_FOR_SHINT)

Remains(o, s, w, e) == o.rc = "OK" /\ Number(o.v) = Canonical(s * w, e) /\ SignIs(o.v, s, w)

LEMMA OperandInForm ==
  ASSUME NEW a, Operand(a), NEW short
  PROVE  RestInForm(a, short)
BY DEF RestInForm, Operand

LEMMA GoodRemains ==
  ASSUME NEW o, NEW s \in {-1, 1}, NEW w \in Nat, NEW e \in Int, Good(o, s * w, e)
  PROVE  Remains(o, s, w, e) /\ Operand(o.v)
<1>1. o.rc = "OK" /\ Operand(o.v) /\ Number(o.v) = Canonical(s * w, e)
  BY DEF Good
<1>2. SignIs(o.v, s, w)
  BY <1>1, SignOf
<1>3. QED
  BY <1>1, <1>2 DEF Remains

(* 0 is in form, whatever its precision. *)
LEMMA ZeroInForm ==
  ASSUME NEW a \in Decimals, a.dyn = FALSE, a.coeff = 0, a.sign = 0
  PROVE  Operand(a) /\ Number(a) = << 0, 0 >>
<1>1. Number(a) = << 0, 0 >>
  BY CanonicalZero DEF Number
<1>2. a.dec_prec \in Int /\ a.dec_prec >= 0
  BY Room DEF Decimals
<1>3. QED
  BY <1>1, <1>2 DEF Operand, WellFormed, PrecCoversDigits

(* A remainder in a shifted int. *)
LEMMA StoredRest ==
  ASSUME NEW s \in {-1, 1}, NEW p \in 0 .. FPDEC_MAX_DEC_PREC, NEW w \in Nat, w < SHINT_LIMIT
  PROVE  LET o == Finished(Shint(s, p, w))
         IN  /\ Remains(o, s, w, -p) /\ RestInForm(o.v, TRUE)
             /\ p =< MAX_DEC_PREC_FOR_SHINT => Operand(o.v)
<1> DEFINE o == Finished(Shint(s, p, w))
<1>1. p \in Int /\ -p \in Int /\ MAX_DEC_PREC_FOR_SHINT \in Nat /\ FPDEC_MAX_DEC_PREC \in Nat
  BY Room
<1>2. Shint(s, p, w) \in Decimals
  <2>1. FPDEC_MAX_EXP \in Nat /\ INT32_MIN = -FPDEC_MAX_EXP - 1
    BY Room
  <2>2. 0 \in INT32_MIN .. FPDEC_MAX_EXP
    BY <2>1
  <2>3. s \in -1 .. 1
    OBVIOUS
  <2>4. QED
    BY <2>2, <2>3 DEF Decimals, Shint
<1>3. CASE w = 0
  <2>1. PICK a : a = Shint(s, p, w)
    OBVIOUS
  <2>2. a.dyn = FALSE /\ a.coeff = 0 /\ a \in Decimals
    BY <1>2, <1>3, <2>1 DEF Shint
  <2>3. PICK b : b = [a EXCEPT !.sign = 0]
    OBVIOUS
  <2>4. o = Ok(b)
    BY <2>1, <2>2, <2>3 DEF Finished
  <2>5. b \in Decimals /\ b.dyn = FALSE /\ b.coeff = 0 /\ b.sign = 0
    BY <2>2, <2>3 DEF Decimals
  <2>6. Operand(b) /\ Number(b) = << 0, 0 >>
    BY <2>5, ZeroInForm
  <2>7. s * w = 0
    BY <1>3
  <2>8. Remains(o, s, w, -p)
    BY <1>3, <2>4, <2>5, <2>6, <2>7, CanonicalZero DEF Remains, SignIs, Ok, Returns
  <2>9. Operand(o.v)
    BY <2>4, <2>6 DEF Ok, Returns
  <2>10. QED
    BY <2>8, <2>9, OperandInForm
<1>4. CASE w # 0
  <2>1. o = Ok(Shint(s, p, w))
    BY <1>4 DEF Finished, Shint
  <2>2. PICK a : a = Shint(s, p, w) /\ o.v = a /\ o.rc = "OK"
    BY <2>1 DEF Ok, Returns
  <2>3. /\ a.dyn = FALSE /\ a.sign = s /\ a.dec_prec = p /\ a.coeff = w /\ a.exp = 0 /\ a.n = 0
        /\ a.normalized = FALSE
    BY <2>2 DEF Shint
  <2>4. Number(a) = Canonical(s * w, -p)
    BY <2>3 DEF Number
  <2>5. Remains(o, s, w, -p)
    BY <1>4, <2>2, <2>3, <2>4 DEF Remains, SignIs
  <2>6. ASSUME p =< MAX_DEC_PREC_FOR_SHINT PROVE Operand(a)
    <3>1. p \in 0 .. MAX_DEC_PREC_FOR_SHINT
      BY <2>6, <1>1
    <3>2. QED
      BY <3>1, <2>2, <1>4, ShintOperand
  <2>7. ASSUME p > MAX_DEC_PREC_FOR_SHINT PROVE RestInForm(a, TRUE)
    <3>1. a \in Decimals
      BY <1>2, <2>2
    <3>2. PrecCoversDigits(a)
      <4>1. PICK u \in Int, f \in Int : u = s * w /\ f = -p /\ f =< 0 /\ f =< f
        BY <1>1
      <4>2. Canonical(u, f)[2] >= f
        BY <4>1, CanonicalCovered
      <4>3. QED
        BY <4>1, <4>2, <2>3, <2>4 DEF PrecCoversDigits
    <3>3. ~Usable(a)
      BY <2>3, <2>7, <1>1 DEF Usable
    <3>4. QED
      BY <3>1, <3>2, <3>3, <2>3, <2>7 DEF RestInForm
  <2>8. Operand(a) => RestInForm(a, TRUE)
    BY OperandInForm
  <2>9. p =< MAX_DEC_PREC_FOR_SHINT \/ p > MAX_DEC_PREC_FOR_SHINT
    BY <1>1
  <2>10. RestInForm(a, TRUE) /\ (p =< MAX_DEC_PREC_FOR_SHINT => Operand(a))
    BY <2>6, <2>7, <2>8, <2>9
  <2>11. QED
    BY <2>2, <2>5, <2>10
<1>5. QED
  BY <1>3, <1>4

-----------------------------------------------------------------------------
(* Numbers of a division are within the limits the client keeps to. *)
QuotientRoom(a, b) ==
  LET room == 2 * (ABS(a.exp) + a.n + ABS(b.exp) + b.n + 2)
  IN  room \in Nat /\ Place(room) =< FPDEC_MAX_EXP /\ room =< FPDEC_MAX_EXP

LEMMA QuotientHasRoom ==
  ASSUME NEW a, a.exp \in Int, a.n \in Nat, NEW b, b.exp \in Int, b.n \in Nat, QuotientFits(a, b)
  PROVE  QuotientRoom(a, b)
<1>1. PICK room \in Nat : room = 2 * (ABS(a.exp) + a.n + ABS(b.exp) + b.n + 2)
  BY DEF ABS
<1>2. room * DEC_DIGITS_PER_DIGIT =< FPDEC_MAX_EXP
  BY <1>1 DEF QuotientFits
<1>3. PICK d \in Nat \ {0} : d = DEC_DIGITS_PER_DIGIT
  BY Room
<1>4. room =< room * d
  <2>1. PICK k \in Nat : d = k + 1
    BY <1>3
  <2>2. room * (k + 1) = room * k + room
    OBVIOUS
  <2>3. room * k \in Nat
    OBVIOUS
  <2>4. QED
    BY <2>1, <2>2, <2>3
<1>5. FPDEC_MAX_EXP \in Nat /\ room * d \in Nat
  BY Room
<1>6. QED
  BY <1>1, <1>2, <1>3, <1>4, <1>5 DEF QuotientRoom, Place

(* What is within room is within the limits. *)
LEMMA WithinRoom ==
  ASSUME NEW room \in Nat, Place(room) =< FPDEC_MAX_EXP, NEW e \in Int, e =< room
  PROVE  Place(e) =< FPDEC_MAX_EXP /\ e =< FPDEC_MAX_EXP
<1>1. FPDEC_MAX_EXP \in Nat /\ DEC_DIGITS_PER_DIGIT \in Nat \ {0}
  BY Room
<1>2. Place(e) \in Int /\ Place(room) \in Int /\ Place(e) =< Place(room)
  <2>1. PICK h \in Int : h = room
    OBVIOUS
  <2>2. Place(e) \in Int /\ (e =< h => Place(e) =< Place(h))
    BY PlaceFacts
  <2>3. Place(h) \in Int
    BY PlaceFacts
  <2>4. QED
    BY <2>1, <2>2, <2>3
<1>3. Place(e) =< FPDEC_MAX_EXP
  BY <1>1, <1>2
<1>4. e =< FPDEC_MAX_EXP
  <2>1. CASE e =< 0
    BY <2>1, <1>1
  <2>2. CASE e > 0
    <3>1. PICK d \in Nat \ {0}, k \in Nat : d = DEC_DIGITS_PER_DIGIT /\ d = k + 1
      BY <1>1
    <3>2. e * (k + 1) = e * k + e /\ e * k \in Nat
      BY <2>2
    <3>3. e =< e * d
      BY <3>1, <3>2
    <3>4. QED
      BY <1>1, <1>3, <3>1, <3>3 DEF Place
  <2>3. QED
    BY <2>1, <2>2
<1>5. QED
  BY <1>3, <1>4

(* The quotient of digits, one up if it is negative, has no more digits than the dividend. *)
LEMMA QuotientBelow ==
  ASSUME NEW i \in Nat \ {0}, NEW j \in Nat \ {0}, NEW u \in {0, 1}, u = 1 => i % j # 0,
         NEW k, k = i \div j + u
  PROVE  k \in Nat /\ k =< i
<1>1. PICK q \in Nat, w \in Nat : q = i \div j /\ w = i % j /\ w < j /\ i = q * j + w
  BY QuotientAndRest
<1>2. PICK h \in Nat : j = h + 1
  OBVIOUS
<1>3. q * (h + 1) = q * h + q /\ q * h \in Nat
  OBVIOUS
<1>4. q * j >= q
  BY <1>2, <1>3
<1>5. q * j \in Nat
  BY <1>1
<1>6. u = 0 => q + u =< i
  BY <1>1, <1>4, <1>5
<1>7. u = 1 => q + u =< i
  BY <1>1, <1>4, <1>5
<1>8. k = q + u
  BY <1>1
<1>9. QED
  BY <1>6, <1>7, <1>8

(* The quotient is an integral operand. *)
LEMMA DigitsQuotient ==
  ASSUME NEW a, Operand(a), a.dyn, NEW b, Operand(b), b.dyn, QuotientRoom(a, b), NEW s \in {-1, 1},
         NEW u \in {0, 1}, u = 1 => AlignedTo(a, b) % AlignedTo(b, a) # 0,
         NEW k, k = AlignedTo(a, b) \div AlignedTo(b, a) + u
  PROVE  k \in Nat /\ Good(fpdec_dyn_normalize(Dyn(s, 0, k, DigitCount[k], 0)), s * k, 0)
<1>1. PICK f : f = MIN(a.exp, b.exp)
  OBVIOUS
<1>2. AlignedAs(a, b, f) /\ f \in Int
  BY <1>1, AlignedAmounts
<1>3. AlignedAs(b, a, f)
  <2>1. a.exp \in Int /\ b.exp \in Int
    BY DynFacts
  <2>2. f = MIN(b.exp, a.exp)
    BY <1>1, <2>1 DEF MIN
  <2>3. QED
    BY <2>2, AlignedAmounts
<1>4. PICK i \in Nat \ {0}, j \in Nat \ {0}, n \in Nat :
        i = AlignedTo(a, b) /\ j = AlignedTo(b, a) /\ n = a.n + (a.exp - f) /\ i < Weight(n)
  BY <1>2, <1>3 DEF AlignedAs
<1>5. k \in Nat /\ k =< i
  BY <1>4, QuotientBelow
<1>6. k < Weight(n)
  <2>1. PICK w \in Nat : w = Weight(n)
    BY WeightFacts
  <2>2. QED
    BY <2>1, <1>4, <1>5
<1>7. Place(0 + n) =< FPDEC_MAX_EXP /\ 0 + n =< FPDEC_MAX_EXP
  <2>1. a.exp \in Int /\ b.exp \in Int /\ a.n \in Nat /\ b.n \in Nat
    BY DynFacts
  <2>2. PICK room \in Nat : room = 2 * (ABS(a.exp) + a.n + ABS(b.exp) + b.n + 2) /\ Place(room) =< FPDEC_MAX_EXP
    BY DEF QuotientRoom
  <2>3. n =< room
    BY <2>1, <2>2, <1>1, <1>4 DEF ABS, MIN
  <2>4. 0 + n = n /\ n \in Int
    OBVIOUS
  <2>5. QED
    BY <2>2, <2>3, <2>4, WithinRoom
<1>8. PICK a0 : a0 = Dyn(s, 0, k, DigitCount[k], 0)
  OBVIOUS
<1>9. /\ a0.coeff = k /\ a0.exp = 0 /\ a0.sign = s /\ a0.dec_prec = 0
  BY <1>8 DEF Dyn
<1>10. 0 \in INT32_MIN .. FPDEC_MAX_EXP /\ 0 \in 0 .. FPDEC_MAX_DEC_PREC
  BY Room
<1>11. Place(0) = 0
  BY Places
<1>12. Canonical(a0.sign * a0.coeff, Place(a0.exp))[2] >= -a0.dec_prec
  <2>1. PICK c \in Int, g \in Int : c = s * k /\ g = 0 /\ g =< 0 /\ g =< g /\ -g = g
    BY <1>5
  <2>2. Canonical(c, g)[2] >= g
    BY <2>1, CanonicalCovered
  <2>3. QED
    BY <2>1, <2>2, <1>9, <1>11
<1>13. Good(fpdec_dyn_normalize(a0), a0.sign * a0.coeff, Place(a0.exp))
  BY <1>5, <1>6, <1>7, <1>9, <1>10, <1>12, NormalizedBelow
<1>14. QED
  BY <1>5, <1>8, <1>9, <1>11, <1>13

(* The digits of the remainder, in absolute terms. *)
LEMMA DigitsRest ==
  ASSUME NEW a, Operand(a), a.dyn, NEW b, Operand(b), b.dyn, QuotientRoom(a, b), NEW s \in {-1, 1},
         NEW p \in 0 .. FPDEC_MAX_DEC_PREC, a.dec_prec =< p, b.dec_prec =< p,
         NEW f, f = MIN(a.exp, b.exp), NEW w \in Nat, w = AlignedTo(a, b) % AlignedTo(b, a)
  PROVE  Good(fpdec_dyn_normalize(Rest(s, p, a, b, w)), s * w, Place(f))
<1>1. AlignedAs(a, b, f) /\ f \in INT32_MIN .. FPDEC_MAX_EXP /\ f \in Int /\ Place(f) \in Int
  BY AlignedAmounts
<1>2. AlignedAs(b, a, f) /\ f =< b.exp
  <2>1. a.exp \in Int /\ b.exp \in Int
    BY DynFacts
  <2>2. f = MIN(b.exp, a.exp)
    BY <2>1 DEF MIN
  <2>3. QED
    BY <2>2, AlignedAmounts
<1>3. p \in Nat
  BY Room
<1>4. PICK i \in Nat \ {0}, j \in Nat \ {0}, n \in Nat :
        i = AlignedTo(a, b) /\ j = AlignedTo(b, a) /\ n = b.n + (b.exp - f) /\ j < Weight(n)
  BY <1>1, <1>2 DEF AlignedAs
<1>5. CoveredBy(s, i, Place(f), p) /\ CoveredBy(s, j, Place(f), p)
  BY <1>1, <1>2, <1>3, <1>4 DEF AlignedAs
<1>6. CoveredBy(s, w, Place(f), p)
  BY <1>1, <1>3, <1>4, <1>5, CoveredRest
<1>7. w < Weight(n)
  <2>1. PICK h \in Nat : h = Weight(n)
    BY WeightFacts
  <2>2. w < j
    BY <1>4
  <2>3. QED
    BY <2>1, <2>2, <1>4
<1>8. PICK a0 : a0 = Rest(s, p, a, b, w)
  OBVIOUS
<1>9. a0.coeff = w /\ a0.exp = f /\ a0.sign = s /\ a0.dec_prec = p
  BY <1>8 DEF Rest, Dyn
<1>10. Place(f + n) =< FPDEC_MAX_EXP /\ f + n =< FPDEC_MAX_EXP
  <2>1. a.exp \in Int /\ b.exp \in Int /\ a.n \in Nat /\ b.n \in Nat
    BY DynFacts
  <2>2. PICK room \in Nat : room = 2 * (ABS(a.exp) + a.n + ABS(b.exp) + b.n + 2) /\ Place(room) =< FPDEC_MAX_EXP
    BY DEF QuotientRoom
  <2>3. PICK g \in Int : g = f + n
    BY <1>1
  <2>4. g =< room
    BY <2>1, <2>2, <2>3, <1>1, <1>4 DEF ABS
  <2>5. QED
    BY <2>2, <2>3, <2>4, WithinRoom
<1>11. Canonical(a0.sign * a0.coeff, Place(a0.exp))[2] >= -a0.dec_prec
  BY <1>6, <1>9 DEF CoveredBy
<1>12. Good(fpdec_dyn_normalize(a0), a0.sign * a0.coeff, Place(a0.exp))
  BY <1>1, <1>7, <1>9, <1>10, <1>11, NormalizedBelow
<1>13. QED
  BY <1>8, <1>9, <1>12

(* Differences of numbers in one unit are those in another. *)
LEMMA DifferencesAgree ==
  ASSUME NEW s \in {-1, 1}, NEW e \in Int, NEW g \in Int,
         NEW j \in Nat, NEW w \in Nat, NEW v \in Nat, NEW u \in Nat,
         Canonical(s * v, e) = Canonical(s * j, g), Canonical(s * u, e) = Canonical(s * w, g)
  PROVE  Canonical(s * (v - u), e) = Canonical(s * (j - w), g)
<1>1. PICK v1 \in Int, u1 \in Int, j1 \in Int, w1 \in Int :
        /\ v1 = s * v /\ u1 = -(s * u) /\ j1 = s * j /\ w1 = -(s * w)
        /\ v1 + u1 = s * (v - u) /\ j1 + w1 = s * (j - w)
  OBVIOUS
<1>2. Canonical(v1, e) = Canonical(j1, g)
  BY <1>1
<1>3. Canonical(u1, e) = Canonical(w1, g)
  <2>1. PICK u2 \in Int, w2 \in Int : u2 = s * u /\ w2 = s * w
    OBVIOUS
  <2>2. Minus(Canonical(u2, e)) = Canonical(-u2, e) /\ Minus(Canonical(w2, g)) = Canonical(-w2, g)
    BY CanonicalMinus
  <2>3. QED
    BY <2>1, <2>2, <1>1
<1>4. Plus(Canonical(v1, e), Canonical(u1, e)) = Canonical(v1 + u1, e)
  BY CanonicalPlus
<1>5. Plus(Canonical(j1, g), Canonical(w1, g)) = Canonical(j1 + w1, g)
  BY CanonicalPlus
<1>6. QED
  BY <1>1, <1>2, <1>3, <1>4, <1>5

(* The remainder of a negative quotient is subtracted from the divisor. *)
LEMMA ComplementedRest ==
  ASSUME NEW b, Operand(b), b.dyn, LogarithmIsExact(b), MagnitudeFits(b),
         NEW g \in Int, NEW j \in Nat, Amount(b, g, j),
         NEW w \in Nat \ {0}, w < j, NEW o, Good(o, b.sign * w, g),
         LogarithmIsExact(o.v), MagnitudeFits(DigitsOf(o.v))
  PROVE  Good(Complemented(b, o), b.sign * (j - w), g)
<1>1. PICK a : a = o.v /\ o.rc = "OK" /\ Operand(a) /\ Number(a) = Canonical(b.sign * w, g)
  BY DEF Good
<1>2. PICK s \in {-1, 1} : s = b.sign
  BY DynFacts
<1>3. a.sign = s /\ a.sign # 0 /\ b.sign # 0
  BY <1>1, <1>2, SignOf DEF SignIs
<1>4. Comparable(b, a)
  <2>1. MagnitudeFits(DigitsOf(b))
    BY DEF DigitsOf, MagnitudeFits
  <2>2. QED
    BY <2>1, <1>1 DEF Comparable
<1>5. PICK e \in Int, v \in Nat, u \in Nat :
        /\ Amount(b, e, v) /\ e =< Unit(b) /\ Amount(a, e, u) /\ e =< Unit(a)
  BY <1>1, <1>3, CommonUnit
<1>6. ~ShintsLost(b, a, FALSE)
  BY DEF ShintsLost
<1>7. Good(DifferenceOf(s, b, a), s * (v - u), e)
  BY <1>1, <1>3, <1>4, <1>5, <1>6, Difference
<1>8. Complemented(b, o) = DifferenceOf(s, b, a)
  BY <1>1, <1>2, <1>3 DEF Complemented, fpdec_sub
<1>9. Canonical(s * (v - u), e) = Canonical(s * (j - w), g)
  <2>1. Canonical(s * v, e) = Canonical(s * j, g)
    BY <1>2, <1>5 DEF Amount
  <2>2. Canonical(s * u, e) = Canonical(s * w, g)
    BY <1>1, <1>2, <1>3, <1>5 DEF Amount
  <2>3. PICK w1 \in Nat : w1 = w
    OBVIOUS
  <2>4. Canonical(s * u, e) = Canonical(s * w1, g)
    BY <2>2, <2>3
  <2>5. Canonical(s * (v - u), e) = Canonical(s * (j - w1), g)
    BY <2>1, <2>4, DifferencesAgree, SMTT(40)
  <2>6. QED
    BY <2>3, <2>5
<1>10. QED
  BY <1>2, <1>7, <1>8, <1>9 DEF Good

(* A number in form is so when it is normalized once more. *)
LEMMA FinishedAgain ==
  ASSUME NEW s \in {-1, 1}, NEW w \in Nat \ {0}, NEW f \in Int, NEW o, Good(o, s * w, Place(f)),
         NEW n \in Nat, w < Weight(n), f + n =< FPDEC_MAX_EXP, Place(f + n) =< FPDEC_MAX_EXP
  PROVE  Good(FinishedIfOk(o), s * w, Place(f))
<1>1. PICK a : a = o.v /\ o.rc = "OK" /\ Operand(a) /\ Number(a) = Canonical(s * w, Place(f))
  BY DEF Good
<1>2. Place(f) \in Int
  BY PlaceFacts
<1>3. a.sign = s
  BY <1>1, <1>2, SignOf DEF SignIs
<1>4. FinishedIfOk(o) = Finished(a)
  BY <1>1 DEF FinishedIfOk
<1>5. CASE a.dyn
  <2>1. /\ a.coeff \in Nat \ {0} /\ a.n \in Nat \ {0} /\ Stripped(a) /\ a.exp \in INT32_MIN .. FPDEC_MAX_EXP
        /\ a.exp \in Int /\ a.dec_prec \in 0 .. FPDEC_MAX_DEC_PREC
        /\ Number(a) = Canonical(a.sign * a.coeff, Place(a.exp))
    BY <1>1, <1>5, DynFacts
  <2>2. Within(a, f, n)
    BY <1>1, DigitsWithin
  <2>3. a.exp + a.n =< f + n /\ a.coeff < Weight(a.n)
    BY <1>5, <2>1, <2>2 DEF Within, DigitsOf, Stripped
  <2>4. PICK i \in Int, j \in Int : i = a.exp + a.n /\ j = f + n /\ i =< j
    BY <2>1, <2>3
  <2>5. Place(i) \in Int /\ Place(j) \in Int /\ Place(i) =< Place(j)
    <3>1. Place(i) \in Int /\ (i =< j => Place(i) =< Place(j))
      BY PlaceFacts
    <3>2. Place(j) \in Int
      BY PlaceFacts
    <3>3. QED
      BY <2>4, <3>1, <3>2
  <2>6. FPDEC_MAX_EXP \in Nat
    BY Room
  <2>7. a.exp + a.n =< FPDEC_MAX_EXP /\ Place(a.exp + a.n) =< FPDEC_MAX_EXP
    BY <2>4, <2>5, <2>6
  <2>8. Canonical(a.sign * a.coeff, Place(a.exp))[2] >= -a.dec_prec
    BY <1>1, <2>1 DEF Operand, PrecCoversDigits
  <2>9. a.sign \in {-1, 1} /\ a.coeff \in Nat /\ a.n \in Nat
    BY <1>3, <2>1
  <2>10. Good(fpdec_dyn_normalize(a), a.sign * a.coeff, Place(a.exp))
    BY <2>1, <2>3, <2>7, <2>8, <2>9, NormalizedBelow
  <2>11. QED
    BY <1>1, <1>4, <1>5, <2>1, <2>10 DEF Good, Finished
<1>6. CASE ~a.dyn
  <2>1. a.coeff # 0
    BY <1>1, <1>3 DEF Operand, WellFormed
  <2>2. QED
    BY <1>1, <1>4, <1>6, <2>1 DEF Good, Finished, Ok, Returns
<1>7. QED
  BY <1>5, <1>6

(* The digits of the remainder are those of the operands. *)
LEMMA RestFits ==
  ASSUME NEW a, Operand(a), a.dyn, NEW b, Operand(b), b.dyn, QuotientRoom(a, b), NEW s \in {-1, 1},
         NEW f, f = MIN(a.exp, b.exp), NEW w \in Nat \ {0}, w < AlignedTo(b, a),
         NEW c, Operand(c), Number(c) = Canonical(s * w, Place(f))
  PROVE  /\ MagnitudeFits(DigitsOf(c)) /\ MagnitudeFits(b)
         /\ \E n \in Nat : w < Weight(n) /\ f + n =< FPDEC_MAX_EXP /\ Place(f + n) =< FPDEC_MAX_EXP
<1>1. a.exp \in Int /\ b.exp \in Int /\ a.n \in Nat \ {0} /\ b.n \in Nat \ {0}
  BY DynFacts
<1>2. f \in Int /\ Place(f) \in Int /\ AlignedAs(b, a, f)
  <2>1. f = MIN(b.exp, a.exp)
    BY <1>1 DEF MIN
  <2>2. QED
    BY <2>1, AlignedAmounts
<1>3. PICK room \in Nat : room = 2 * (ABS(a.exp) + a.n + ABS(b.exp) + b.n + 2) /\ Place(room) =< FPDEC_MAX_EXP
  BY DEF QuotientRoom
<1>4. PICK n \in Nat, j \in Nat : n = b.n + (b.exp - f) /\ j = AlignedTo(b, a) /\ j < Weight(n)
  BY <1>2 DEF AlignedAs
<1>5. w < Weight(n)
  <2>1. PICK h \in Nat : h = Weight(n)
    BY WeightFacts
  <2>2. QED
    BY <2>1, <1>4
<1>6. Within(c, f, n)
  BY <1>2, <1>5, DigitsWithin
<1>7. PICK d : d = DigitsOf(c) /\ d.exp \in Int /\ d.n \in Nat
  <2>1. c.sign # 0
    BY <1>2, SignOf DEF SignIs
  <2>2. Stripped(DigitsOf(c)) /\ DigitsOf(c).exp \in INT32_MIN .. FPDEC_MAX_EXP
    BY <2>1, OperandDigits
  <2>3. QED
    BY <2>2, Room DEF Stripped
<1>8. f =< d.exp /\ d.exp + d.n =< f + n
  BY <1>6, <1>7 DEF Within
<1>9. PICK g \in Int : g = ABS(d.exp) + d.n /\ g =< room
  BY <1>1, <1>2, <1>3, <1>4, <1>7, <1>8 DEF ABS, MIN
<1>10. MagnitudeFits(d)
  <2>1. Place(g) =< FPDEC_MAX_EXP
    BY <1>3, <1>9, WithinRoom
  <2>2. QED
    BY <1>9, <2>1 DEF MagnitudeFits, Place
<1>11. MagnitudeFits(b)
  <2>1. PICK h \in Int : h = ABS(b.exp) + b.n /\ h =< room
    BY <1>1, <1>3 DEF ABS
  <2>2. Place(h) =< FPDEC_MAX_EXP
    BY <1>3, <2>1, WithinRoom
  <2>3. QED
    BY <2>1, <2>2 DEF MagnitudeFits, Place
<1>12. f + n =< FPDEC_MAX_EXP /\ Place(f + n) =< FPDEC_MAX_EXP
  <2>1. PICK h \in Int : h = f + n /\ h =< room
    BY <1>1, <1>2, <1>3, <1>4 DEF ABS
  <2>2. QED
    BY <1>3, <2>1, WithinRoom
<1>13. QED
  BY <1>5, <1>7, <1>10, <1>11, <1>12

-----------------------------------------------------------------------------
(***************************************************************************)
(* fpdec_divmod_abs_dyn_by_dyn.                                            *)
(***************************************************************************)
DividesWithRest(a, b, p, meant, o, short) ==
  /\ o.rc = "OK" /\ Operand(o.q) /\ RestInForm(o.r, short)
  /\ FloorOf(a, b, meant, o) \/ (short /\ o.r.sign # 0 /\ Place(DigitsOf(b).exp) # -p)

(***************************************************************************)
(* A negative quotient with a remainder whose digits, as many as have been *)
(* allocated, are all RADIX - 1: the increment loses the carry.            *)
(***************************************************************************)
LosesCarry(s, a, b) ==
  /\ s = -1 /\ AlignedTo(a, b) % AlignedTo(b, a) # 0
  /\ IncrementCarry(AlignedTo(a, b) \div AlignedTo(b, a), QuotientLength(a, b), 1)

QuotientMeant(s, a, b, q) ==
  IF LosesCarry(s, a, b) THEN Canonical(-1, Place(QuotientLength(a, b))) ELSE Number(q)

(* The quotient is that of the operands in some unit. *)
DividesInUnits(a, b, s, q) ==
  \E e \in Int, m \in Nat, v \in Nat, k \in Nat, w \in Nat :
    /\ Amount(a, e, m) /\ Amount(b, e, v) /\ m # 0 /\ v # 0
    /\ Floors(s, m, k, v, w) /\ Number(q) = Canonical(s * k, 0)

(* Quotient and remainder of whole numbers, the remainder made positive. *)
LEMMA FloorParts ==
  ASSUME NEW s \in {-1, 1}, NEW i \in Nat, NEW j \in Nat \ {0}, NEW rem, rem = i % j,
         NEW adjust \in BOOLEAN, adjust <=> s = -1 /\ rem # 0,
         NEW k, k = i \div j + (IF adjust THEN 1 ELSE 0),
         NEW w, w = IF adjust THEN j - rem ELSE rem
  PROVE  Floors(s, i, k, j, w) /\ k \in Nat /\ w \in Nat /\ w < j /\ rem \in Nat /\ rem < j
<1>1. PICK q \in Nat, t \in Nat : q = i \div j /\ t = rem /\ t < j /\ i = q * j + t
  <2>1. i \div j \in Nat /\ i % j \in 0 .. j - 1 /\ i = (i \div j) * j + (i % j)
    BY QuotientAndRest
  <2>2. QED
    BY <2>1
<1>2. (q + 1) * j = q * j + j /\ q * j \in Nat
  OBVIOUS
<1>3. CASE adjust
  <2>1. k = q + 1 /\ w = j - t /\ s = -1 /\ t # 0
    BY <1>1, <1>3
  <2>2. QED
    BY <1>1, <1>2, <2>1 DEF Floors
<1>4. CASE ~adjust
  <2>1. k = q /\ w = t /\ (s = -1 => t = 0)
    BY <1>1, <1>4
  <2>2. QED
    BY <1>1, <2>1 DEF Floors
<1>5. QED
  BY <1>3, <1>4

LEMMA QuotientLess ==
  ASSUME NEW i \in Nat, NEW j \in Nat \ {0}, NEW v \in Nat, NEW w \in Nat, v =< j, i < v * w
  PROVE  i \div j < w
<1>1. PICK q \in Nat, t \in Nat : q = i \div j /\ i = q * j + t
  <2>1. i \div j \in Nat /\ i % j \in 0 .. j - 1 /\ i = (i \div j) * j + (i % j)
    BY QuotientAndRest
  <2>2. QED
    BY <2>1
<1>2. SUFFICES ASSUME w =< q PROVE FALSE
  BY <1>1
<1>3. PICK c \in Nat, d \in Nat : q = w + c /\ j = v + d
  <2>1. q - w \in Nat /\ j - v \in Nat /\ q = w + (q - w) /\ j = v + (j - v)
    BY <1>2
  <2>2. QED
    BY <2>1
<1>4. /\ (w + c) * (v + d) = v * w + w * d + c * v + c * d
      /\ w * d \in Nat /\ c * v \in Nat /\ c * d \in Nat /\ v * w \in Nat
  OBVIOUS
<1>5. QED
  BY <1>1, <1>3, <1>4

(* As many digits as digits_div_digit and digits_divmod allocate hold the quotient. *)
LEMMA QuotientDigitsSuffice ==
  ASSUME NEW a, Operand(a), a.dyn, NEW b, Operand(b), b.dyn,
         NEW i, i = AlignedTo(a, b), NEW j, j = AlignedTo(b, a), j =< i,
         NEW n, n = QuotientLength(a, b)
  PROVE  /\ i \in Nat \ {0} /\ j \in Nat \ {0} /\ n \in Nat /\ i \div j < Weight(n)
         /\ HasShortDivisor(a, b) => i < Weight(n)
<1>1. /\ a.exp \in Int /\ a.n \in Nat \ {0} /\ b.exp \in Int /\ b.n \in Nat \ {0}
      /\ b.coeff \in Nat \ {0} /\ Weight(b.n - 1) =< b.coeff
  BY DynFacts DEF Stripped
<1>2. PICK f \in Int : f = MIN(a.exp, b.exp)
  BY <1>1 DEF MIN
<1>3. AlignedAs(a, b, f)
  BY <1>2, AlignedAmounts
<1>4. PICK h \in Nat : h = a.n + (a.exp - f) /\ i \in Nat \ {0} /\ i < Weight(h)
  BY <1>3 DEF AlignedAs
<1>5. PICK k \in Nat, l \in Nat : k = b.exp - f /\ l = (b.n - 1) + k /\ n = h - l
  <2>1. f =< b.exp
    BY <1>1, <1>2 DEF MIN
  <2>2. b.exp - f \in Nat /\ (b.n - 1) + (b.exp - f) \in Nat
    BY <1>1, <2>1
  <2>3. n = h - ((b.n - 1) + (b.exp - f))
    BY <1>1, <1>4 DEF QuotientLength
  <2>4. QED
    BY <2>2, <2>3
<1>6. j = b.coeff * Weight(k)
  <2>1. MAX(0, b.exp - a.exp) = k
    BY <1>1, <1>2, <1>5 DEF MAX, MIN
  <2>2. QED
    BY <2>1 DEF AlignedTo
<1>7. Weight(l) =< j /\ j \in Nat \ {0}
  <2>1. Weight(l) = Weight(k) * Weight(l - k) /\ l - k = b.n - 1
    BY <1>1, <1>5, WeightSplit
  <2>2. PICK w \in Nat \ {0} : w = Weight(k)
    BY WeightFacts
  <2>3. PICK v \in Nat : v = Weight(b.n - 1)
    BY <1>1, WeightFacts
  <2>4. PICK d \in Nat : b.coeff = v + d
    <3>1. b.coeff - v \in Nat /\ b.coeff = v + (b.coeff - v)
      BY <1>1, <2>3
    <3>2. QED
      BY <3>1
  <2>5. (v + d) * w = w * v + d * w /\ d * w \in Nat /\ w * v \in Nat
    OBVIOUS
  <2>6. b.coeff * w # 0 /\ b.coeff * w \in Nat
    BY <1>1
  <2>7. QED
    BY <1>6, <2>1, <2>2, <2>3, <2>4, <2>5, <2>6
<1>8. Weight(h) \in Nat /\ Weight(l) \in Nat
  BY WeightFacts
<1>9. l < h
  <2>1. SUFFICES ASSUME h =< l PROVE FALSE
    OBVIOUS
  <2>2. Weight(h) =< Weight(l)
    BY <2>1, WeightSplit
  <2>3. QED
    BY <2>2, <1>4, <1>7, <1>8
<1>10. n \in Nat
  BY <1>5, <1>9
<1>11. i \div j < Weight(n)
  <2>1. PICK w \in Nat : w = Weight(n)
    BY <1>10, WeightFacts
  <2>2. PICK v \in Nat : v = Weight(l)
    BY <1>8
  <2>3. Weight(h) = v * w
    BY <1>5, <1>9, <2>1, <2>2, WeightSplit
  <2>4. PICK k1 \in Nat, l1 \in Nat \ {0} : k1 = i /\ l1 = j /\ v =< l1 /\ k1 < v * w
    BY <1>4, <1>7, <2>2, <2>3
  <2>5. k1 \div l1 < w
    BY <2>4, QuotientLess
  <2>6. QED
    BY <2>1, <2>4, <2>5
<1>12. ASSUME HasShortDivisor(a, b) PROVE i < Weight(n)
  <2>1. n = h
    BY <1>1, <1>2, <1>5, <1>12 DEF HasShortDivisor, MIN
  <2>2. QED
    BY <1>4, <2>1
<1>13. QED
  BY <1>4, <1>7, <1>10, <1>11, <1>12

(* The quotient meant is the number next to the one above 0, if the carry is lost. *)
LEMMA CarryLoses ==
  ASSUME NEW i \in Nat \ {0}, NEW j \in Nat \ {0}, NEW w \in Nat \ {0}, i \div j < w,
         i % j # 0, i \div j + 1 >= w
  PROVE  i \div j + 1 = w /\ i >= w
<1>1. PICK q \in Nat, t \in Nat \ {0} : q = i \div j /\ t = i % j /\ t < j /\ i = q * j + t
  BY QuotientAndRest
<1>2. PICK d \in Nat : j = d + 1
  BY <1>1
<1>3. q * (d + 1) = q * d + q /\ q * d \in Nat
  OBVIOUS
<1>4. QED
  BY <1>1, <1>2, <1>3

LEMMA DigitsIncrement ==
  ASSUME NEW a, Operand(a), a.dyn, NEW b, Operand(b), b.dyn, QuotientRoom(a, b), NEW s \in {-1, 1},
         NEW i, i = AlignedTo(a, b), NEW j, j = AlignedTo(b, a), j =< i,
         NEW adjust \in BOOLEAN, adjust <=> s = -1 /\ i % j # 0,
         NEW k, k = i \div j + (IF adjust THEN 1 ELSE 0),
         NEW c, c = IF adjust THEN Increment(i \div j, QuotientLength(a, b), 1) ELSE i \div j,
         NEW o, o = fpdec_dyn_normalize(Dyn(s, 0, c, DigitCount[c], 0))
  PROVE  /\ k \in Nat /\ o.rc = "OK" /\ Operand(o.v) /\ Number(o.v)[2] >= 0
         /\ QuotientMeant(s, a, b, o.v) = Canonical(s * k, 0)
         /\ LosesCarry(s, a, b) => ~HasShortDivisor(a, b) /\ o.v.sign = 0
<1>1. PICK n : n = QuotientLength(a, b)
  OBVIOUS
<1>2. /\ i \in Nat \ {0} /\ j \in Nat \ {0} /\ n \in Nat /\ i \div j < Weight(n)
      /\ HasShortDivisor(a, b) => i < Weight(n)
  BY <1>1, QuotientDigitsSuffice
<1>3. PICK w \in Nat \ {0} : w = Weight(n)
  BY <1>2, WeightFacts
<1>4. PICK u \in {0, 1} : u = (IF adjust THEN 1 ELSE 0)
  OBVIOUS
<1>5. k = AlignedTo(a, b) \div AlignedTo(b, a) + u /\ (u = 1 => AlignedTo(a, b) % AlignedTo(b, a) # 0)
  BY <1>4
<1>6. k \in Nat /\ Good(fpdec_dyn_normalize(Dyn(s, 0, k, DigitCount[k], 0)), s * k, 0)
  BY <1>5, DigitsQuotient
<1>7. LosesCarry(s, a, b) <=> adjust /\ i \div j + 1 >= w
  BY <1>1, <1>3 DEF LosesCarry, IncrementCarry
<1>8. PICK floor \in Nat : floor = i \div j
  BY <1>2, QuotientAndRest
<1>9. CASE LosesCarry(s, a, b)
  <2>1. adjust /\ s = -1 /\ i % j # 0 /\ i \div j + 1 >= w
    BY <1>7, <1>9
  <2>2. i \div j + 1 = w /\ i >= w
    BY <1>2, <1>3, <2>1, CarryLoses
  <2>3. k = w
    BY <2>1, <2>2
  <2>4. c = 0
    <3>1. Increment(floor, n, 1) = 0
      BY <1>3, <1>8, <2>2 DEF Increment
    <3>2. c = Increment(floor, n, 1)
      BY <1>1, <1>8, <2>1
    <3>3. QED
      BY <3>1, <3>2
  <2>5. o = Ok(ResetToZero(0))
    BY <2>4 DEF fpdec_dyn_normalize, Dyn
  <2>6. PICK v : v = ResetToZero(0)
    OBVIOUS
  <2>7. v \in Decimals /\ v.dyn = FALSE /\ v.coeff = 0 /\ v.sign = 0
    <3>1. 0 \in -1 .. 1 /\ 0 \in 0 .. FPDEC_MAX_DEC_PREC /\ 0 \in INT32_MIN .. FPDEC_MAX_EXP
      BY Room
    <3>2. QED
      BY <2>6, <3>1 DEF ResetToZero, Shint, Decimals
  <2>8. Operand(v) /\ Number(v) = << 0, 0 >>
    BY <2>7, ZeroInForm
  <2>9. o.rc = "OK" /\ o.v = v
    BY <2>5, <2>6 DEF Ok, Returns
  <2>10. Canonical(-1, Place(n)) = Canonical(s * k, 0)
    <3>1. PICK g \in Int : g = 0
      OBVIOUS
    <3>2. PICK l \in Int : l = Place(n)
      <4>1. PICK h \in Int : h = n
        BY <1>2
      <4>2. Place(h) \in Int
        BY PlaceFacts
      <4>3. QED
        BY <4>1, <4>2
    <3>3. Weight(n) = Ten(g, l) /\ g =< l
      <4>1. /\ Weight(n) = Ten(g * DEC_DIGITS_PER_DIGIT, (g + n) * DEC_DIGITS_PER_DIGIT)
            /\ g * DEC_DIGITS_PER_DIGIT =< (g + n) * DEC_DIGITS_PER_DIGIT
        BY <1>2, WeightTen
      <4>2. g * DEC_DIGITS_PER_DIGIT = g /\ g + n = n
        BY <1>2, <3>1, Limits
      <4>3. QED
        BY <3>2, <4>1, <4>2 DEF Place
    <3>4. PICK m \in Int : m = -1
      OBVIOUS
    <3>5. Canonical(m * Ten(g, l), g) = Canonical(m, l)
      BY <3>3, CanonicalShift
    <3>6. m * Ten(g, l) = s * k
      BY <1>3, <2>1, <2>3, <3>3, <3>4
    <3>7. QED
      BY <3>1, <3>2, <3>4, <3>5, <3>6
  <2>11. QuotientMeant(s, a, b, o.v) = Canonical(s * k, 0)
    BY <1>1, <1>9, <2>10 DEF QuotientMeant
  <2>12. ~HasShortDivisor(a, b)
    BY <1>2, <1>3, <2>2
  <2>13. Number(o.v)[2] >= 0
    BY <2>8, <2>9
  <2>14. QED
    BY <1>6, <2>7, <2>8, <2>9, <2>11, <2>12, <2>13
<1>10. CASE ~LosesCarry(s, a, b)
  <2>1. c = k
    <3>1. CASE adjust
      <4>1. ~(floor + 1 >= Weight(n))
        BY <1>3, <1>7, <1>8, <1>10, <3>1
      <4>2. Increment(floor, n, 1) = floor + 1
        BY <4>1 DEF Increment
      <4>3. c = Increment(floor, n, 1) /\ k = floor + 1
        BY <1>1, <1>8, <3>1
      <4>4. QED
        BY <4>2, <4>3
    <3>2. CASE ~adjust
      BY <1>8, <3>2
    <3>3. QED
      BY <3>1, <3>2
  <2>2. Good(o, s * k, 0)
    BY <1>6, <2>1
  <2>3. o.rc = "OK" /\ Operand(o.v) /\ Number(o.v) = Canonical(s * k, 0)
    BY <2>2 DEF Good
  <2>4. Number(o.v)[2] >= 0
    BY <1>6, <2>3, IntegralNumber
  <2>5. QuotientMeant(s, a, b, o.v) = Canonical(s * k, 0)
    BY <1>10, <2>3 DEF QuotientMeant
  <2>6. QED
    BY <1>6, <1>10, <2>3, <2>4, <2>5
<1>11. QED
  BY <1>9, <1>10

LEMMA DivModDigits ==
  ASSUME NEW a, Operand(a), a.dyn, NEW b, Operand(b), b.dyn, QuotientFits(a, b),
         NEW s, s = a.sign * b.sign, NEW p \in 0 .. FPDEC_MAX_DEC_PREC,
         a.dec_prec =< p, b.dec_prec =< p, s = -1 => RemainderFits(a, b, p),
         AlignedTo(b, a) =< AlignedTo(a, b)
  PROVE  LET o == divmod_abs_dyn_by_dyn(s, b.sign, p, a, b)
         IN  /\ DividesWithRest(a, b, p, QuotientMeant(s, a, b, o.q), o, HasShortDivisor(a, b))
             /\ LosesCarry(s, a, b) \/ DividesInUnits(a, b, s, o.q)
             /\ LosesCarry(s, a, b) => ~HasShortDivisor(a, b) /\ o.q.sign = 0
<1>1. /\ a.exp \in Int /\ b.exp \in Int /\ a.n \in Nat /\ b.n \in Nat
      /\ a.sign \in {-1, 1} /\ b.sign \in {-1, 1} /\ DigitsOf(b).exp = b.exp
  BY DynFacts DEF DigitsOf
<1>2. s \in {-1, 1}
  BY <1>1
<1>3. QuotientRoom(a, b)
  BY <1>1, QuotientHasRoom
<1>4. PICK f : f = MIN(a.exp, b.exp) /\ f = MIN(b.exp, a.exp)
  BY <1>1 DEF MIN
<1>5. AlignedAs(a, b, f) /\ AlignedAs(b, a, f) /\ f \in Int /\ Place(f) \in Int
  BY <1>4, AlignedAmounts
<1>6. PICK i \in Nat \ {0}, j \in Nat \ {0} :
        i = AlignedTo(a, b) /\ j = AlignedTo(b, a) /\ Amount(a, Place(f), i) /\ Amount(b, Place(f), j)
  BY <1>5 DEF AlignedAs
<1>7. PICK rem : rem = i % j
  OBVIOUS
<1>8. PICK adjust \in BOOLEAN : adjust = (s = -1 /\ rem # 0)
  OBVIOUS
<1>9. PICK k, w : k = i \div j + (IF adjust THEN 1 ELSE 0) /\ w = IF adjust THEN j - rem ELSE rem
  OBVIOUS
<1>10. Floors(s, i, k, j, w) /\ k \in Nat /\ w \in Nat /\ w < j /\ rem \in Nat /\ rem < j
  BY <1>2, <1>7, <1>8, <1>9, FloorParts
<1>11. PICK stored, nq : /\ stored = IF adjust THEN Increment(i \div j, QuotientLength(a, b), 1) ELSE i \div j
                    /\ nq = fpdec_dyn_normalize(Dyn(s, 0, stored, DigitCount[stored], 0))
  OBVIOUS
<1>12. /\ nq.rc = "OK" /\ Operand(nq.v) /\ Number(nq.v)[2] >= 0
       /\ QuotientMeant(s, a, b, nq.v) = Canonical(s * k, 0)
       /\ LosesCarry(s, a, b) => ~HasShortDivisor(a, b) /\ nq.v.sign = 0
  <2>1. adjust <=> s = -1 /\ i % j # 0
    BY <1>7, <1>8
  <2>2. j =< i
    BY <1>6
  <2>3. k = i \div j + (IF adjust THEN 1 ELSE 0)
    BY <1>9
  <2>4. QED
    BY <1>2, <1>3, <1>6, <1>11, <2>1, <2>2, <2>3, DigitsIncrement
<1>13. PICK nr : nr = FinishedIfOk(
                        IF HasShortDivisor(a, b) THEN Ok(Shint(b.sign, p, w))
                        ELSE IF adjust THEN Complemented(b, fpdec_dyn_normalize(Rest(b.sign, p, a, b, rem)))
                        ELSE Ok(Rest(b.sign, p, a, b, rem)))
  OBVIOUS
<1>14. divmod_abs_dyn_by_dyn(s, b.sign, p, a, b) = BothResults(nq, nr)
  <2>1. PICK digits : digits = Rest(b.sign, p, a, b, rem)
    OBVIOUS
  <2>2. HasShortDivisor(a, b) => Ok(Shint(b.sign, p, w)) = Ok(Shint(b.sign, p, IF adjust THEN j - rem ELSE rem))
    BY <1>9
  <2>3. QED
    BY <1>6, <1>7, <1>8, <1>9, <1>11, <1>13 DEF divmod_abs_dyn_by_dyn, divmod_digits
<1>15. PICK meant : meant = QuotientMeant(s, a, b, nq.v) /\ meant = Canonical(s * k, 0)
  BY <1>12
<1>16. ASSUME Remains(nr, b.sign, w, Place(f)), RestInForm(nr.v, HasShortDivisor(a, b))
       PROVE  DividesWithRest(a, b, p, meant, BothResults(nq, nr), HasShortDivisor(a, b))
  <2>1. nr.rc = "OK" /\ Number(nr.v) = Canonical(b.sign * w, Place(f)) /\ SignIs(nr.v, b.sign, w)
    BY <1>16 DEF Remains
  <2>2. BothResults(nq, nr) = Results("OK", nq.v, nr.v)
    BY <2>1, <1>12 DEF BothResults
  <2>3. FloorOf(a, b, meant, Results("OK", nq.v, nr.v))
    BY <2>1, <1>1, <1>5, <1>6, <1>10, <1>12, <1>15, FloorIsMeant
  <2>4. QED
    BY <1>12, <1>16, <2>2, <2>3 DEF DividesWithRest, Results
<1>17. ASSUME HasShortDivisor(a, b)
       PROVE  DividesWithRest(a, b, p, meant, BothResults(nq, nr), HasShortDivisor(a, b))
  <2>1. nr = Finished(Shint(b.sign, p, w))
    BY <1>13, <1>17 DEF FinishedIfOk, Ok, Returns
  <2>2. f = b.exp /\ w < SHINT_LIMIT
    <3>1. f = b.exp /\ b.n = 1
      BY <1>1, <1>4, <1>17 DEF HasShortDivisor, MIN
    <3>2. j < Weight(1)
      BY <3>1, <1>1, <1>5, <1>6 DEF AlignedAs
    <3>3. Weight(1) = RADIX
      <4>1. Weight(0 + 1) = RADIX * Weight(0) /\ Weight(0) = 1 /\ RADIX \in Nat
        BY WeightFacts, WeightZero, RadixPositive
      <4>2. QED
        BY <4>1
    <3>4. RADIX < SHINT_LIMIT /\ SHINT_LIMIT \in Nat
      <4>1. PICK c \in Nat : c = u64_10_pow_n(MAX_DEC_PREC_FOR_SHINT)
        BY PowersOf10, Room DEF u64_10_pow_n
      <4>2. RADIX * c \in Nat /\ RADIX \in Nat \ {0}
        BY <4>1, RadixPositive
      <4>3. c # 0
        BY <4>1, PowersOf10, Room DEF u64_10_pow_n
      <4>4. RADIX * c # 0
        BY <4>1, <4>2, <4>3
      <4>5. SHINT_LIMIT \in Nat /\ RADIX + RADIX * c < SHINT_LIMIT
        BY <4>1, ShintAssumption, Limits
      <4>6. QED
        BY <4>2, <4>4, <4>5
    <3>5. QED
      BY <3>1, <3>2, <3>3, <3>4, <1>10, RadixPositive
  <2>3. Remains(nr, b.sign, w, -p) /\ RestInForm(nr.v, TRUE)
    BY <1>1, <1>10, <2>1, <2>2, StoredRest
  <2>4. CASE Place(b.exp) = -p
    BY <1>16, <1>17, <2>2, <2>3, <2>4 DEF RestInForm
  <2>5. CASE Place(b.exp) # -p /\ w # 0
    <3>1. nr.rc = "OK" /\ nr.v.sign # 0
      BY <1>1, <2>3, <2>5 DEF Remains, SignIs
    <3>2. BothResults(nq, nr) = Results("OK", nq.v, nr.v)
      BY <3>1, <1>12 DEF BothResults
    <3>3. QED
      BY <1>1, <1>12, <1>17, <2>3, <2>5, <3>1, <3>2 DEF DividesWithRest, Results, RestInForm
  <2>6. CASE w = 0
    <3>1. b.sign * w = 0
      BY <1>1, <2>6
    <3>2. Canonical(b.sign * w, -p) = Canonical(b.sign * w, Place(f))
      BY <3>1, CanonicalZero
    <3>3. Remains(nr, b.sign, w, Place(f))
      BY <2>3, <3>2 DEF Remains
    <3>4. QED
      BY <1>16, <1>17, <2>3, <3>3 DEF RestInForm
  <2>7. QED
    BY <2>4, <2>5, <2>6
<1>18. ASSUME ~HasShortDivisor(a, b)
       PROVE  DividesWithRest(a, b, p, meant, BothResults(nq, nr), HasShortDivisor(a, b))
  <2>1. PICK t : t = fpdec_dyn_normalize(Rest(b.sign, p, a, b, rem))
    OBVIOUS
  <2>2. Good(t, b.sign * rem, Place(f))
    BY <1>1, <1>3, <1>4, <1>6, <1>7, <1>10, <2>1, DigitsRest
  <2>3. CASE ~adjust
    <3>1. nr = t
      BY <1>13, <1>18, <2>1, <2>3 DEF FinishedIfOk, Ok, Returns, Finished, Rest, Dyn
    <3>2. w = rem
      BY <1>9, <2>3
    <3>3. Remains(nr, b.sign, w, Place(f)) /\ Operand(nr.v)
      BY <3>1, <3>2, <2>2, <1>1, <1>5, <1>10, GoodRemains
    <3>4. QED
      BY <3>3, <1>16, OperandInForm
  <2>4. CASE adjust
    <3>a. s = -1 /\ rem # 0
      BY <1>8, <2>4
    <3>b. w = j - rem
      BY <1>9, <2>4
    <3>1. rem \in Nat \ {0} /\ w = j - rem /\ s = -1 /\ w \in Nat \ {0}
      BY <3>a, <3>b, <1>10
    <3>2. LogarithmIsExact(b) /\ LogarithmIsExact(t.v)
      BY <1>6, <1>7, <2>1, <3>1 DEF RemainderFits
    <3>3. Operand(t.v) /\ Number(t.v) = Canonical(b.sign * rem, Place(f))
      BY <2>2 DEF Good
    <3>4. MagnitudeFits(DigitsOf(t.v)) /\ MagnitudeFits(b)
      BY <1>1, <1>3, <1>4, <1>6, <1>10, <3>1, <3>3, RestFits
    <3>5. PICK c : c = Complemented(b, t)
      OBVIOUS
    <3>6. Good(c, b.sign * (j - rem), Place(f))
      BY <1>5, <1>6, <1>10, <2>2, <3>1, <3>2, <3>4, <3>5, ComplementedRest
    <3>7. Good(c, b.sign * w, Place(f))
      BY <3>1, <3>6
    <3>8. w < AlignedTo(b, a)
      BY <1>6, <1>10
    <3>9. Operand(c.v) /\ Number(c.v) = Canonical(b.sign * w, Place(f))
      BY <3>7 DEF Good
    <3>10. PICK n \in Nat : w < Weight(n) /\ f + n =< FPDEC_MAX_EXP /\ Place(f + n) =< FPDEC_MAX_EXP
      BY <1>1, <1>3, <1>4, <3>1, <3>8, <3>9, RestFits
    <3>11. Good(FinishedIfOk(c), b.sign * w, Place(f))
      BY <1>1, <1>5, <3>1, <3>7, <3>10, FinishedAgain
    <3>12. nr = FinishedIfOk(c)
      BY <1>13, <1>18, <2>1, <2>4, <3>5
    <3>13. Remains(nr, b.sign, w, Place(f)) /\ Operand(nr.v)
      BY <3>11, <3>12, <1>1, <1>5, <1>10, GoodRemains
    <3>14. QED
      BY <3>13, <1>16, OperandInForm
  <2>5. QED
    BY <2>3, <2>4
<1>19. DividesWithRest(a, b, p, meant, BothResults(nq, nr), HasShortDivisor(a, b))
  BY <1>17, <1>18
<1>20. BothResults(nq, nr).q = nq.v
  <2>1. BothResults(nq, nr).rc = "OK"
    BY <1>19 DEF DividesWithRest
  <2>2. QED
    BY <2>1 DEF BothResults, Results
<1>21. ASSUME ~LosesCarry(s, a, b) PROVE DividesInUnits(a, b, s, nq.v)
  <2>1. Number(nq.v) = Canonical(s * k, 0)
    BY <1>12, <1>21 DEF QuotientMeant
  <2>2. QED
    BY <1>5, <1>6, <1>10, <2>1 DEF DividesInUnits
<1>22. QED
  BY <1>12, <1>14, <1>15, <1>19, <1>20, <1>21

(* The quotient does not depend on the unit. *)
LEMMA FloorsUnique ==
  ASSUME NEW s \in {-1, 1}, NEW m \in Nat, NEW v \in Nat,
         NEW k \in Nat, NEW w \in Nat, Floors(s, m, k, v, w),
         NEW q \in Nat, NEW u \in Nat, Floors(s, m, q, v, u)
  PROVE  k = q
<1>1. ASSUME NEW i \in Nat, NEW j \in Nat, i < j
      PROVE  i * v + v =< j * v
  <2>1. PICK d \in Nat : j = i + 1 + d
    <3>1. j - i - 1 \in Nat /\ j = i + 1 + (j - i - 1)
      BY <1>1
    <3>2. QED
      BY <3>1
  <2>2. (i + 1 + d) * v = i * v + v + d * v /\ d * v \in Nat /\ i * v \in Nat
    OBVIOUS
  <2>3. QED
    BY <2>1, <2>2
<1>2. k * v \in Nat /\ q * v \in Nat
  OBVIOUS
<1>3. ~(k < q)
  BY <1>1, <1>2 DEF Floors
<1>4. ~(q < k)
  BY <1>1, <1>2 DEF Floors
<1>5. QED
  BY <1>3, <1>4

LEMMA FloorsScaled ==
  ASSUME NEW s \in {-1, 1}, NEW m \in Nat, NEW v \in Nat, NEW k \in Nat, NEW w \in Nat,
         Floors(s, m, k, v, w), NEW t \in Nat \ {0}
  PROVE  Floors(s, m * t, k, v * t, w * t) /\ m * t \in Nat /\ v * t \in Nat /\ w * t \in Nat
<1>1. /\ m * t \in Nat /\ v * t \in Nat /\ w * t \in Nat
      /\ (k * v + w) * t = k * (v * t) + w * t /\ (m + w) * t = m * t + w * t /\ (k * v) * t = k * (v * t)
  OBVIOUS
<1>2. w * t < v * t
  <2>1. PICK d \in Nat \ {0} : v = w + d
    <3>1. v - w \in Nat \ {0} /\ v = w + (v - w)
      BY DEF Floors
    <3>2. QED
      BY <3>1
  <2>2. (w + d) * t = w * t + d * t /\ d * t \in Nat \ {0}
    OBVIOUS
  <2>3. QED
    BY <1>1, <2>1, <2>2
<1>3. QED
  BY <1>1, <1>2 DEF Floors

LEMMA QuotientsAgree ==
  ASSUME NEW a, a.sign \in {-1, 1}, NEW b, b.sign \in {-1, 1}, NEW s \in {-1, 1},
         NEW q, DividesInUnits(a, b, s, q), NEW q1, DividesInUnits(a, b, s, q1)
  PROVE  Number(q) = Number(q1)
<1>1. SUFFICES ASSUME NEW e \in Int, NEW m \in Nat, NEW v \in Nat, NEW k \in Nat, NEW w \in Nat,
                      Amount(a, e, m), Amount(b, e, v), Floors(s, m, k, v, w),
                      NEW e1 \in Int, NEW m1 \in Nat, NEW v1 \in Nat, NEW k1 \in Nat, NEW w1 \in Nat,
                      Amount(a, e1, m1), Amount(b, e1, v1), Floors(s, m1, k1, v1, w1), e =< e1
               PROVE  k = k1
  <2>1. PICK e \in Int, m \in Nat, v \in Nat, k \in Nat, w \in Nat :
          Amount(a, e, m) /\ Amount(b, e, v) /\ Floors(s, m, k, v, w) /\ Number(q) = Canonical(s * k, 0)
    BY DEF DividesInUnits
  <2>2. PICK e1 \in Int, m1 \in Nat, v1 \in Nat, k1 \in Nat, w1 \in Nat :
          /\ Amount(a, e1, m1) /\ Amount(b, e1, v1) /\ Floors(s, m1, k1, v1, w1)
          /\ Number(q1) = Canonical(s * k1, 0)
    BY DEF DividesInUnits
  <2>3. CASE e =< e1
    <3>1. k = k1
      BY <1>1, <2>1, <2>2, <2>3
    <3>2. QED
      BY <2>1, <2>2, <3>1
  <2>4. CASE e1 =< e
    <3>1. k1 = k
      BY <1>1, <2>1, <2>2, <2>4
    <3>2. QED
      BY <2>1, <2>2, <3>1
  <2>5. QED
    BY <2>3, <2>4
<1>2. PICK t \in Nat \ {0} : t = Ten(e, e1)
  BY <1>1, TenType
<1>3. m = m1 * t
  <2>1. Canonical(a.sign * m, e) = Canonical(a.sign * m1, e1)
    BY <1>1 DEF Amount
  <2>2. QED
    BY <1>1, <1>2, <2>1, AmountIs, SMTT(40)
<1>4. v = v1 * t
  <2>1. Canonical(b.sign * v, e) = Canonical(b.sign * v1, e1)
    BY <1>1 DEF Amount
  <2>2. QED
    BY <1>1, <1>2, <2>1, AmountIs, SMTT(40)
<1>5. Floors(s, m1 * t, k1, v1 * t, w1 * t) /\ w1 * t \in Nat
  BY <1>1, FloorsScaled
<1>6. QED
  BY <1>1, <1>3, <1>4, <1>5, FloorsUnique

-----------------------------------------------------------------------------
(***************************************************************************)
(* fpdec_divmod. Excepted are the remainder of two shifted ints that does  *)
(* not fit one, and that of a divisor of one digit.                        *)
(***************************************************************************)
RestIsLost(a, b) ==
  /\ a.sign # 0 /\ b.sign # 0 /\ fpdec_compare(a, b, TRUE) = -1
  /\ a.sign # b.sign /\ ShintsLost(a, b, FALSE)

ShortRest(a, b, o) ==
  /\ o.r.sign # 0
  /\ a.dyn \/ b.dyn \/ o.q.dyn
  /\ fpdec_compare(a, b, TRUE) = 1
  /\ HasShortDivisor(DigitsOf(a), DigitsOf(b))

(* The quotient of two shifted ints that does not fit one, or any other. *)
ByDigits(a, b) ==
  ~a.dyn /\ ~b.dyn =>
    LET prec == MAX(a.dec_prec, b.dec_prec)
        i == AdjustedShint(a, prec)
        j == AdjustedShint(b, prec)
    IN  i \div j + (IF i % j # 0 THEN 1 ELSE 0) >= SHINT_LIMIT

CarryLeaves(a, b) ==
  /\ fpdec_compare(a, b, TRUE) = 1 /\ ByDigits(a, b)
  /\ LosesCarry(a.sign * b.sign, DigitsOf(a), DigitsOf(b))

FloorMeant(a, b, q) ==
  IF CarryLeaves(a, b) THEN Canonical(-1, Place(QuotientLength(DigitsOf(a), DigitsOf(b)))) ELSE Number(q)

DivModOf(a, b, o) ==
  /\ o.rc = "OK" /\ Operand(o.q) /\ (CarryLeaves(a, b) => o.q.sign = 0)
  /\ o.r \in Decimals /\ PrecCoversDigits(o.r) /\ (Usable(o.r) => Operand(o.r))
  /\ \/ RestIsLost(a, b) \/ FloorOf(a, b, FloorMeant(a, b, o.q), o)
     \/ ShortRest(a, b, o) /\ Place(DigitsOf(b).exp) # -MAX(a.dec_prec, b.dec_prec)
  /\ \/ RestIsLost(a, b) \/ WellFormed(o.r)
     \/ ShortRest(a, b, o) /\ o.r.dec_prec > MAX_DEC_PREC_FOR_SHINT

LEMMA LessKeepsCarry ==
  ASSUME NEW a, NEW b, fpdec_compare(a, b, TRUE) = -1
  PROVE  ~CarryLeaves(a, b)
<1>1. PICK c : c = fpdec_compare(a, b, TRUE)
  OBVIOUS
<1>2. c = -1
  BY <1>1, Zenon
<1>3. c # 1
  BY <1>2
<1>4. QED
  BY <1>1, <1>3, Zenon DEF CarryLeaves

LEMMA EqualKeepsCarry ==
  ASSUME NEW a, NEW b, fpdec_compare(a, b, TRUE) = 0
  PROVE  ~CarryLeaves(a, b)
<1>1. PICK c : c = fpdec_compare(a, b, TRUE)
  OBVIOUS
<1>2. c = 0
  BY <1>1, Zenon
<1>3. c # 1
  BY <1>2
<1>4. QED
  BY <1>1, <1>3, Zenon DEF CarryLeaves

LEMMA RightDivMod ==
  ASSUME NEW a, NEW b, NEW o, ~CarryLeaves(a, b),
         FloorOf(a, b, Number(o.q), o), Operand(o.q), Operand(o.r)
  PROVE  DivModOf(a, b, o)
<1>1. FloorMeant(a, b, o.q) = Number(o.q)
  BY DEF FloorMeant
<1>2. QED
  BY <1>1 DEF DivModOf, FloorOf, Operand

(* The greater precision of two operands. *)
LEMMA GreaterPrec ==
  ASSUME NEW a, Operand(a), NEW b, Operand(b)
  PROVE  LET p == MAX(a.dec_prec, b.dec_prec)
         IN  p \in 0 .. FPDEC_MAX_DEC_PREC /\ a.dec_prec =< p /\ b.dec_prec =< p
<1>1. a.dec_prec \in 0 .. FPDEC_MAX_DEC_PREC /\ b.dec_prec \in 0 .. FPDEC_MAX_DEC_PREC
  BY DEF Operand, Decimals
<1>2. FPDEC_MAX_DEC_PREC \in Nat
  BY Room
<1>3. QED
  BY <1>1, <1>2 DEF MAX

LEMMA OperandSign ==
  ASSUME NEW a, Operand(a), a.sign # 0
  PROVE  a.sign \in {-1, 1}
BY DEF Operand, Decimals

(* The divisor in digits. *)
LEMMA DigitsAlike ==
  ASSUME NEW a
  PROVE  /\ AsDyn(a).n = DigitsOf(a).n /\ AsDyn(a).exp = DigitsOf(a).exp /\ AsDyn(a).coeff = DigitsOf(a).coeff
         /\ DigitsOf(AsDyn(a)).exp = DigitsOf(a).exp
BY DEF AsDyn, DigitsOf, Dyn

LEMMA UnitIsInt ==
  ASSUME NEW a, Operand(a), a.sign # 0
  PROVE  Unit(a) \in Int
<1>1. PICK d : d = DigitsOf(a) /\ Stripped(d) /\ d.exp \in INT32_MIN .. FPDEC_MAX_EXP
  BY OperandDigits
<1>2. d.exp \in Int /\ a.dec_prec \in Int
  BY <1>1, Room DEF Operand, Decimals
<1>3. PICK i \in Int, j \in Int : i = Place(d.exp) /\ j = -a.dec_prec
  <2>1. Place(d.exp) \in Int
    BY <1>2, PlaceFacts
  <2>2. -a.dec_prec \in Int
    BY <1>2
  <2>3. QED
    BY <2>1, <2>2
<1>4. Unit(a) = MIN(i, j)
  BY <1>1, <1>3 DEF Unit
<1>5. QED
  BY <1>3, <1>4 DEF MIN

(* A dividend that is not less than the divisor is not when they are aligned. *)
LEMMA AlignedCompare ==
  ASSUME NEW a, Operand(a), a.sign # 0, NEW b, Operand(b), b.sign # 0, Comparable(a, b),
         fpdec_compare(a, b, TRUE) = 1
  PROVE  AlignedTo(AsDyn(b), AsDyn(a)) =< AlignedTo(AsDyn(a), AsDyn(b))
<1>1. PICK c, d : c = AsDyn(a) /\ d = AsDyn(b)
  OBVIOUS
<1>2. /\ Operand(c) /\ c.dyn /\ c.sign = a.sign /\ Number(c) = Number(a)
      /\ Operand(d) /\ d.dyn /\ d.sign = b.sign /\ Number(d) = Number(b)
  BY <1>1, AsDynOperand
<1>3. PICK f \in Int : f = MIN(c.exp, d.exp) /\ f = MIN(d.exp, c.exp)
  BY <1>2, DynFacts DEF MIN
<1>4. AlignedAs(c, d, f) /\ AlignedAs(d, c, f) /\ Place(f) \in Int
  BY <1>2, <1>3, AlignedAmounts
<1>5. PICK i \in Nat \ {0}, j \in Nat \ {0} :
        /\ i = AlignedTo(c, d) /\ j = AlignedTo(d, c)
        /\ Number(a) = Canonical(a.sign * i, Place(f)) /\ Number(b) = Canonical(b.sign * j, Place(f))
  BY <1>2, <1>4 DEF AlignedAs, Amount
<1>6. PICK e0 \in Int, m0 \in Nat, v0 \in Nat :
        /\ Amount(a, e0, m0) /\ e0 =< Unit(a)
        /\ Amount(b, e0, v0) /\ e0 =< Unit(b)
  BY CommonUnit
<1>7. PICK e \in Int : e =< e0 /\ e =< Place(f) /\ e =< Unit(a) /\ e =< Unit(b)
  <2>1. CASE e0 =< Place(f)
    BY <1>6, <2>1
  <2>2. CASE Place(f) =< e0
    <3>1. PICK g \in Int : g = Place(f)
      BY <1>4
    <3>2. g =< Unit(a) /\ g =< Unit(b)
      BY <1>6, <2>2, <3>1, UnitIsInt
    <3>3. QED
      BY <2>2, <3>1, <3>2
  <2>3. QED
    BY <1>4, <2>1, <2>2
<1>8. PICK t \in Nat \ {0} : t = Ten(e, Place(f))
  BY <1>4, <1>7, TenType
<1>9. a.sign \in {-1, 1} /\ b.sign \in {-1, 1}
  BY OperandSign
<1>10. PICK m \in Nat, v \in Nat : m = i * t /\ v = j * t
  OBVIOUS
<1>11. Amount(a, e, m) /\ Amount(b, e, v)
  <2>1. ShiftsTo(a.sign, i, e, Place(f)) /\ ShiftsTo(b.sign, j, e, Place(f))
    BY <1>4, <1>7, <1>9, SignedShift
  <2>2. QED
    BY <1>5, <1>8, <1>10, <2>1 DEF ShiftsTo, Amount
<1>12. CMP(m, v) = 1
  <2>1. ComparesAs(a, b, m, v)
    BY <1>7, <1>11, CompareAbs
  <2>2. QED
    BY <2>1, Zenon DEF ComparesAs
<1>13. CMP(i, j) = 1
  <2>1. CMP(i * t, j * t) = 1
    BY <1>10, <1>12
  <2>2. CMP(i * t, j * t) = CMP(i, j)
    BY CompareScaled
  <2>3. QED
    BY <2>1, <2>2
<1>14. j =< i
  BY <1>13 DEF CMP
<1>15. QED
  BY <1>1, <1>5, <1>14

LEMMA DivModViaDigits ==
  ASSUME NEW a, Operand(a), a.sign # 0, NEW b, Operand(b), b.sign # 0, Comparable(a, b),
         QuotientFits(DigitsOf(a), DigitsOf(b)), NEW s, s = a.sign * b.sign,
         NEW p, p = MAX(a.dec_prec, b.dec_prec),
         s = -1 => RemainderFits(AsDyn(a), AsDyn(b), p), fpdec_compare(a, b, TRUE) = 1,
         s = -1 => ByDigits(a, b),
         NEW o, o = divmod_abs_dyn_by_dyn(s, b.sign, p, AsDyn(a), AsDyn(b))
  PROVE  /\ Operand(o.q)
         /\ CarryLeaves(a, b) \/ DividesInUnits(a, b, s, o.q)
         /\ a.dyn \/ b.dyn \/ o.q.dyn \/ CarryLeaves(a, b) => DivModOf(a, b, o)
<1>1. PICK c, d : c = AsDyn(a) /\ d = AsDyn(b)
  OBVIOUS
<1>2. /\ Operand(c) /\ c.dyn /\ c.dec_prec = a.dec_prec /\ c.sign = a.sign /\ Number(c) = Number(a)
      /\ Operand(d) /\ d.dyn /\ d.dec_prec = b.dec_prec /\ d.sign = b.sign /\ Number(d) = Number(b)
  BY <1>1, AsDynOperand
<1>3. /\ c.n = DigitsOf(a).n /\ c.exp = DigitsOf(a).exp /\ c.coeff = DigitsOf(a).coeff
      /\ d.n = DigitsOf(b).n /\ d.exp = DigitsOf(b).exp /\ d.coeff = DigitsOf(b).coeff
      /\ DigitsOf(d).exp = DigitsOf(b).exp
  BY <1>1, DigitsAlike
<1>4. QuotientFits(c, d) /\ (HasShortDivisor(c, d) <=> HasShortDivisor(DigitsOf(a), DigitsOf(b)))
  BY <1>3 DEF QuotientFits, HasShortDivisor
<1>5. p \in 0 .. FPDEC_MAX_DEC_PREC /\ c.dec_prec =< p /\ d.dec_prec =< p
  BY <1>2, GreaterPrec
<1>6. s = c.sign * d.sign /\ (s = -1 => RemainderFits(c, d, p)) /\ o = divmod_abs_dyn_by_dyn(s, d.sign, p, c, d)
  BY <1>1, <1>2
<1>7. PICK short : short = HasShortDivisor(c, d)
  OBVIOUS
<1>8. /\ DividesWithRest(c, d, p, QuotientMeant(s, c, d, o.q), o, short)
      /\ LosesCarry(s, c, d) \/ DividesInUnits(c, d, s, o.q)
      /\ LosesCarry(s, c, d) => ~short /\ o.q.sign = 0
  <2>1. AlignedTo(d, c) =< AlignedTo(c, d)
    BY <1>1, AlignedCompare
  <2>2. QED
    BY <2>1, <1>2, <1>4, <1>5, <1>6, <1>7, DivModDigits
<1>a. /\ CarryLeaves(a, b) <=> LosesCarry(s, c, d)
      /\ QuotientMeant(s, c, d, o.q) = FloorMeant(a, b, o.q)
  <2>1. /\ AlignedTo(c, d) = AlignedTo(DigitsOf(a), DigitsOf(b))
        /\ AlignedTo(d, c) = AlignedTo(DigitsOf(b), DigitsOf(a))
    BY <1>3 DEF AlignedTo
  <2>2. QuotientLength(c, d) = QuotientLength(DigitsOf(a), DigitsOf(b))
    BY <1>3 DEF QuotientLength
  <2>3. LosesCarry(s, c, d) <=> LosesCarry(s, DigitsOf(a), DigitsOf(b))
    BY <2>1, <2>2 DEF LosesCarry
  <2>4. CarryLeaves(a, b) <=> LosesCarry(s, c, d)
    BY <2>3 DEF CarryLeaves, LosesCarry
  <2>5. QED
    BY <2>2, <2>4 DEF QuotientMeant, FloorMeant
<1>9. CarryLeaves(a, b) \/ DividesInUnits(a, b, s, o.q)
  BY <1>2, <1>8, <1>a DEF DividesInUnits, Amount
<1>10. o.rc = "OK" /\ Operand(o.q) /\ RestInForm(o.r, short)
  BY <1>8 DEF DividesWithRest
<1>11. \A meant : FloorOf(c, d, meant, o) => FloorOf(a, b, meant, o)
  BY <1>2 DEF FloorOf
<1>12. \/ FloorOf(a, b, FloorMeant(a, b, o.q), o)
       \/ short /\ o.r.sign # 0 /\ Place(DigitsOf(b).exp) # -p
  BY <1>3, <1>8, <1>a, <1>11 DEF DividesWithRest
<1>13. ASSUME a.dyn \/ b.dyn \/ o.q.dyn \/ CarryLeaves(a, b)
       PROVE  DivModOf(a, b, o)
  <2>1. short /\ o.r.sign # 0 => ShortRest(a, b, o)
    BY <1>4, <1>7, <1>8, <1>a, <1>13 DEF ShortRest
  <2>2. FloorOf(a, b, FloorMeant(a, b, o.q), o) \/ (ShortRest(a, b, o) /\ Place(DigitsOf(b).exp) # -MAX(a.dec_prec, b.dec_prec))
    BY <1>12, <2>1
  <2>3. WellFormed(o.r) \/ (ShortRest(a, b, o) /\ o.r.dec_prec > MAX_DEC_PREC_FOR_SHINT)
    BY <1>10, <2>1 DEF RestInForm
  <2>4. o.r \in Decimals /\ PrecCoversDigits(o.r) /\ (Usable(o.r) => Operand(o.r))
    BY <1>10 DEF RestInForm
  <2>5. QED
    BY <1>8, <1>10, <1>a, <2>2, <2>3, <2>4 DEF DivModOf
<1>14. QED
  BY <1>9, <1>10, <1>13

(* A whole number too great for a shifted int is one in digits. *)
LEMMA GreatIsDyn ==
  ASSUME NEW a, Operand(a), NEW s \in {-1, 1}, NEW k \in Nat, k >= SHINT_LIMIT,
         Number(a) = Canonical(s * k, 0)
  PROVE  a.dyn
<1>1. k # 0
  BY Limits
<1>2. SignIs(a, s, k)
  BY SignOf
<1>3. a.sign = s
  BY <1>1, <1>2 DEF SignIs
<1>4. SUFFICES ASSUME ~a.dyn PROVE FALSE
  OBVIOUS
<1>5. a.coeff \in Nat /\ a.coeff < SHINT_LIMIT /\ a.dec_prec \in Nat
  BY <1>3, <1>4, Room DEF Operand, WellFormed, Decimals
<1>6. PICK f \in Int, g \in Int : f = -a.dec_prec /\ g = 0 /\ f =< g
  BY <1>5
<1>7. Canonical(s * a.coeff, f) = Canonical(s * k, g)
  BY <1>3, <1>4, <1>6 DEF Number
<1>8. PICK t \in Nat \ {0} : t = Ten(f, g)
  BY <1>6, TenType
<1>9. a.coeff = k * t
  <2>1. PICK c \in Nat : c = a.coeff
    BY <1>5
  <2>2. Canonical(s * c, f) = Canonical(s * k, g)
    BY <1>7, <2>1
  <2>3. c = k * Ten(f, g)
    BY <1>6, <2>2, AmountIs
  <2>4. QED
    BY <1>8, <2>1, <2>3
<1>10. k =< k * t
  <2>1. PICK i \in Nat : t = i + 1
    <3>1. t - 1 \in Nat /\ t = (t - 1) + 1
      OBVIOUS
    <3>2. QED
      BY <3>1
  <2>2. k * (i + 1) = k * i + k /\ k * i \in Nat
    OBVIOUS
  <2>3. QED
    BY <2>1, <2>2
<1>11. k * t \in Nat /\ SHINT_LIMIT \in Nat
  BY Limits
<1>12. QED
  BY <1>5, <1>9, <1>10, <1>11

(* Of two shifted ints one is not scaled up, so that the lesser one fits. *)
LEMMA LesserFits ==
  ASSUME NEW a, Operand(a), a.sign # 0, ~a.dyn, NEW b, Operand(b), b.sign # 0, ~b.dyn,
         NEW p, p = MAX(a.dec_prec, b.dec_prec),
         NEW i \in Nat, i = AdjustedShint(a, p), NEW j \in Nat, j = AdjustedShint(b, p), j =< i
  PROVE  j < SHINT_LIMIT
<1>1. /\ a.coeff \in Nat /\ a.coeff < SHINT_LIMIT /\ a.dec_prec \in Int
      /\ b.coeff \in Nat /\ b.coeff < SHINT_LIMIT /\ b.dec_prec \in Int
  BY Room DEF Operand, WellFormed, Decimals
<1>2. SHINT_LIMIT \in Nat /\ Power(10, 0) = 1
  BY Limits, PowerZero
<1>3. CASE p = a.dec_prec
  <2>1. p - a.dec_prec = 0
    BY <1>1, <1>3
  <2>2. i = a.coeff
    BY <1>1, <1>2, <2>1 DEF AdjustedShint, u64_10_pow_n
  <2>3. QED
    BY <1>1, <1>2, <2>2
<1>4. CASE p = b.dec_prec
  <2>1. p - b.dec_prec = 0
    BY <1>1, <1>4
  <2>2. j = b.coeff
    BY <1>1, <1>2, <2>1 DEF AdjustedShint, u64_10_pow_n
  <2>3. QED
    BY <1>1, <2>2
<1>5. QED
  BY <1>3, <1>4 DEF MAX

(* An amount in a greater unit. *)
LEMMA AmountInUnit ==
  ASSUME NEW a, a.sign \in {-1, 1}, NEW e \in Int, NEW f \in Int, e =< f, NEW i \in Nat,
         NEW t, t = Ten(e, f), Amount(a, e, i * t)
  PROVE  Amount(a, f, i)
<1>1. ShiftsTo(a.sign, i, e, f)
  BY SignedShift
<1>2. QED
  BY <1>1 DEF ShiftsTo, Amount

LEMMA ShintsInUnit ==
  ASSUME NEW a, Operand(a), a.sign # 0, ~a.dyn, NEW b, Operand(b), b.sign # 0, ~b.dyn,
         Comparable(a, b)
  PROVE  \E p \in 0 .. MAX_DEC_PREC_FOR_SHINT, i \in Nat \ {0}, j \in Nat \ {0}, f \in Int :
           /\ p = MAX(a.dec_prec, b.dec_prec) /\ f = -p
           /\ i = AdjustedShint(a, p) /\ j = AdjustedShint(b, p)
           /\ Amount(a, f, i) /\ Amount(b, f, j)
           /\ fpdec_compare(a, b, TRUE) = 1 => j < i
<1>1. PICK e \in Int, m \in Nat, v \in Nat :
        /\ Amount(a, e, m) /\ m # 0 /\ e =< Unit(a)
        /\ Amount(b, e, v) /\ v # 0 /\ e =< Unit(b)
  BY CommonUnit
<1>2. PICK p \in 0 .. MAX_DEC_PREC_FOR_SHINT, i \in Nat \ {0}, j \in Nat \ {0}, t \in Nat \ {0}, f \in Int :
        /\ p = MAX(a.dec_prec, b.dec_prec) /\ p = MAX(b.dec_prec, a.dec_prec)
        /\ i = AdjustedShint(a, p) /\ j = AdjustedShint(b, p)
        /\ f = -p /\ e =< f /\ t = Ten(e, f) /\ m = i * t /\ v = j * t
  BY <1>1, AdjustedShints
<1>3. Amount(a, f, i)
  BY <1>1, <1>2, OperandSign, AmountInUnit
<1>4. Amount(b, f, j)
  BY <1>1, <1>2, OperandSign, AmountInUnit
<1>5. ComparesAs(a, b, m, v)
  BY <1>1, CompareAbs
<1>6. ASSUME fpdec_compare(a, b, TRUE) = 1
      PROVE  j < i
  <2>1. CMP(i * t, j * t) = 1
    BY <1>2, <1>5, <1>6 DEF ComparesAs
  <2>2. CMP(i, j) = 1
    BY <2>1, CompareScaled
  <2>3. QED
    BY <2>2 DEF CMP
<1>7. QED
  BY <1>2, <1>3, <1>4, <1>6

LEMMA DivModShints ==
  ASSUME NEW a, Operand(a), a.sign # 0, ~a.dyn, NEW b, Operand(b), b.sign # 0, ~b.dyn,
         Comparable(a, b), QuotientFits(DigitsOf(a), DigitsOf(b)), NEW s, s = a.sign * b.sign,
         s = -1 => RemainderFits(AsDyn(a), AsDyn(b), MAX(a.dec_prec, b.dec_prec)),
         fpdec_compare(a, b, TRUE) = 1
  PROVE  DivModOf(a, b, divmod_abs_shint_by_shint(s, b.sign, a, b))
<1>1. a.sign \in {-1, 1} /\ b.sign \in {-1, 1} /\ s \in {-1, 1}
  <2>1. a.sign \in {-1, 1} /\ b.sign \in {-1, 1}
    BY OperandSign
  <2>2. QED
    BY <2>1
<1>2. PICK p \in 0 .. MAX_DEC_PREC_FOR_SHINT, i \in Nat \ {0}, j \in Nat \ {0}, f \in Int :
        /\ p = MAX(a.dec_prec, b.dec_prec) /\ f = -p
        /\ i = AdjustedShint(a, p) /\ j = AdjustedShint(b, p)
        /\ Amount(a, f, i) /\ Amount(b, f, j)
        /\ fpdec_compare(a, b, TRUE) = 1 => j < i
  BY ShintsInUnit
<1>3. j < i
  BY <1>2
<1>4. PICK rem : rem = i % j
  OBVIOUS
<1>5. PICK adjust \in BOOLEAN : adjust <=> s = -1 /\ rem # 0
  OBVIOUS
<1>6. PICK k, w : k = i \div j + (IF adjust THEN 1 ELSE 0) /\ w = IF adjust THEN j - rem ELSE rem
  OBVIOUS
<1>7. Floors(s, i, k, j, w) /\ k \in Nat /\ w \in Nat /\ w < j /\ rem \in Nat /\ rem < j
  BY <1>1, <1>4, <1>5, <1>6, FloorParts, ZenonT(60)
<1>8. w < SHINT_LIMIT
  <2>1. j < SHINT_LIMIT
    BY <1>2, <1>3, LesserFits
  <2>2. SHINT_LIMIT \in Nat
    BY Limits
  <2>3. QED
    BY <1>7, <2>1, <2>2
<1>9. k \in Nat \ {0}
  <2>1. k # 0
    <3>1. SUFFICES ASSUME k = 0 PROVE FALSE
      OBVIOUS
    <3>2. k * j = 0
      BY <3>1
    <3>3. QED
      BY <1>1, <1>3, <1>7, <3>2 DEF Floors
  <2>2. QED
    BY <1>7, <2>1
<1>10. PICK q : q = Shint(s, 0, k)
  OBVIOUS
<1>11. Number(q) = Canonical(s * k, 0)
  BY <1>10 DEF Number, Shint
<1>12. DividesInUnits(a, b, s, q)
  BY <1>2, <1>7, <1>11 DEF DividesInUnits
<1>13. PICK o : o = divmod_abs_shint_by_shint(s, b.sign, a, b)
  OBVIOUS
<1>14. CASE k < SHINT_LIMIT
  <2>1. PICK rest : rest = Finished(Shint(b.sign, p, w))
    OBVIOUS
  <2>2. o = Results("OK", q, rest.v)
    <3>1. adjust = (s = -1 /\ i % j # 0)
      BY <1>4, <1>5
    <3>2. k = i \div j + (IF adjust THEN 1 ELSE 0) /\ w = IF adjust THEN j - (i % j) ELSE i % j
      BY <1>4, <1>6
    <3>3. QED
      BY <1>2, <1>10, <1>13, <1>14, <2>1, <3>1, <3>2 DEF divmod_abs_shint_by_shint
  <2>3. p \in 0 .. FPDEC_MAX_DEC_PREC /\ p =< MAX_DEC_PREC_FOR_SHINT
    BY Room
  <2>4. Remains(rest, b.sign, w, f) /\ Operand(rest.v)
    BY <1>1, <1>2, <1>7, <1>8, <2>1, <2>3, StoredRest
  <2>5. Number(rest.v) = Canonical(b.sign * w, f) /\ SignIs(rest.v, b.sign, w)
    BY <2>4 DEF Remains
  <2>6. FloorOf(a, b, Number(q), Results("OK", q, rest.v))
    BY <1>1, <1>2, <1>7, <1>11, <2>5, FloorIs
  <2>a. ~CarryLeaves(a, b)
    <3>1. SUFFICES ASSUME CarryLeaves(a, b) PROVE FALSE
      OBVIOUS
    <3>2. s = -1 /\ ByDigits(a, b)
      BY <3>1 DEF CarryLeaves, LosesCarry
    <3>3. i \div j + (IF i % j # 0 THEN 1 ELSE 0) >= SHINT_LIMIT
      BY <1>2, <3>2 DEF ByDigits
    <3>4. k = i \div j + (IF i % j # 0 THEN 1 ELSE 0)
      BY <1>4, <1>5, <1>6, <3>2
    <3>5. QED
      BY <1>7, <1>14, <3>3, <3>4, Limits
  <2>7. Operand(q)
    <3>1. 0 \in 0 .. MAX_DEC_PREC_FOR_SHINT
      BY Room
    <3>2. QED
      BY <1>1, <1>9, <1>10, <1>14, <3>1, ShintOperand
  <2>8. o.q = q /\ o.r = rest.v
    BY <2>2 DEF Results
  <2>9. QED
    BY <1>13, <2>2, <2>4, <2>6, <2>7, <2>8, <2>a, RightDivMod
<1>15. CASE ~(k < SHINT_LIMIT)
  <2>1. o = divmod_abs_dyn_by_dyn(s, b.sign, p, AsDyn(a), AsDyn(b))
    <3>1. adjust = (s = -1 /\ i % j # 0)
      BY <1>4, <1>5
    <3>2. k = i \div j + (IF adjust THEN 1 ELSE 0)
      BY <1>6
    <3>3. QED
      BY <1>2, <1>13, <1>15, <3>1, <3>2 DEF divmod_abs_shint_by_shint
  <2>4. k >= SHINT_LIMIT
    BY <1>7, <1>15, Limits
  <2>2. /\ Operand(o.q)
        /\ CarryLeaves(a, b) \/ DividesInUnits(a, b, s, o.q)
        /\ a.dyn \/ b.dyn \/ o.q.dyn \/ CarryLeaves(a, b) => DivModOf(a, b, o)
    <3>1. s = -1 => RemainderFits(AsDyn(a), AsDyn(b), p)
      BY <1>2
    <3>2. ASSUME s = -1 PROVE ByDigits(a, b)
      <4>1. k = i \div j + (IF i % j # 0 THEN 1 ELSE 0)
        BY <1>4, <1>5, <1>6, <3>2
      <4>2. i \div j + (IF i % j # 0 THEN 1 ELSE 0) >= SHINT_LIMIT
        BY <2>4, <4>1
      <4>3. QED
        BY <1>2, <4>2 DEF ByDigits
    <3>3. QED
      BY <1>2, <2>1, <3>1, <3>2, DivModViaDigits
  <2>3. ASSUME ~CarryLeaves(a, b) PROVE Number(o.q) = Canonical(s * k, 0)
    BY <1>1, <1>11, <1>12, <2>2, <2>3, QuotientsAgree
  <2>5. o.q.dyn \/ CarryLeaves(a, b)
    BY <1>1, <1>7, <2>2, <2>3, <2>4, GreatIsDyn
  <2>6. QED
    BY <1>13, <2>2, <2>5
<1>16. QED
  BY <1>14, <1>15

LEMMA UnitNumbers ==
  ASSUME NEW s \in {-1, 1}
  PROVE  Operand(Shint(s, 0, 1)) /\ Number(Shint(s, 0, 1)) = Canonical(s * 1, 0)
<1>1. 0 \in 0 .. MAX_DEC_PREC_FOR_SHINT
  BY Room
<1>2. 1 < SHINT_LIMIT
  BY ShintAssumption, Limits, RadixPositive, PowersOf10 DEF u64_10_pow_n
<1>3. Number(Shint(s, 0, 1)) = Canonical(s * 1, 0)
  BY DEF Number, Shint
<1>4. Operand(Shint(s, 0, 1))
  BY <1>1, <1>2, ShintOperand
<1>5. QED
  BY <1>3, <1>4

(* fpdec_divmod by what fpdec_compare gives. *)
DivModBy(a, b, cmp) ==
  IF b.sign = 0
  THEN Results("DIVIDE_BY_ZERO", FPDEC_ZERO, FPDEC_ZERO)
  ELSE IF a.sign = 0
  THEN Results("OK", FPDEC_ZERO, FPDEC_ZERO)
  ELSE IF cmp < 0
  THEN IF a.sign = b.sign THEN Results("OK", FPDEC_ZERO, a)
       ELSE WithRemainder(FPDEC_MINUS_ONE, fpdec_add(a, b))
  ELSE IF cmp = 0
  THEN Results("OK", IF a.sign = b.sign THEN FPDEC_ONE ELSE FPDEC_MINUS_ONE, FPDEC_ZERO)
  ELSE IF ~a.dyn /\ ~b.dyn
  THEN divmod_abs_shint_by_shint(a.sign * b.sign, b.sign, a, b)
  ELSE divmod_abs_dyn_by_dyn(a.sign * b.sign, b.sign, MAX(a.dec_prec, b.dec_prec), AsDyn(a), AsDyn(b))

LEMMA DivModCases ==
  ASSUME NEW a, NEW b, NEW c, fpdec_compare(a, b, TRUE) = c
  PROVE  fpdec_divmod(a, b) = DivModBy(a, b, c)
<1>1. fpdec_divmod(a, b) = DivModBy(a, b, fpdec_compare(a, b, TRUE))
  BY DEF fpdec_divmod, DivModBy
<1>2. QED
  BY <1>1, Zenon

(* The dividend is less than the divisor, or equal to it. *)
LEMMA DivModSmaller ==
  ASSUME NEW a, Operand(a), a.sign # 0, NEW b, Operand(b), b.sign # 0, Comparable(a, b),
         NEW e \in Int, e =< Unit(a), e =< Unit(b),
         NEW m \in Nat \ {0}, Amount(a, e, m), NEW v \in Nat \ {0}, Amount(b, e, v),
         m < v, fpdec_compare(a, b, TRUE) = -1
  PROVE  DivModOf(a, b, fpdec_divmod(a, b))
<1>1. a.sign \in {-1, 1} /\ b.sign \in {-1, 1}
  BY OperandSign
<1>2. CASE a.sign = b.sign
  <2>1. fpdec_divmod(a, b) = Results("OK", FPDEC_ZERO, a)
    <3>1. PICK c : c = -1 /\ fpdec_compare(a, b, TRUE) = c
      BY Zenon
    <3>2. fpdec_divmod(a, b) = DivModBy(a, b, c)
      BY <3>1, DivModCases
    <3>3. DivModBy(a, b, c) = Results("OK", FPDEC_ZERO, a)
      BY <1>2, <3>1 DEF DivModBy
    <3>4. QED
      BY <3>2, <3>3
  <2>2. PICK s, k \in Nat : s = a.sign * b.sign /\ s = 1 /\ k = 0
    BY <1>1, <1>2
  <2>3. k * v = 0 /\ s * k = 0
    BY <2>2
  <2>4. Floors(s, m, k, v, m)
    BY <2>2, <2>3 DEF Floors
  <2>5. Number(FPDEC_ZERO) = Canonical(s * k, 0)
    BY <2>3, ZeroIsOperand, CanonicalZero
  <2>6. Number(a) = Canonical(b.sign * m, e) /\ SignIs(a, b.sign, m)
    BY <1>2 DEF Amount, SignIs
  <2>7. FloorOf(a, b, Number(FPDEC_ZERO), Results("OK", FPDEC_ZERO, a))
    BY <1>1, <2>2, <2>4, <2>5, <2>6, FloorIs
  <2>8. PICK o : o = Results("OK", FPDEC_ZERO, a)
    OBVIOUS
  <2>9. o.q = FPDEC_ZERO /\ o.r = a
    BY <2>8 DEF Results
  <2>10. QED
    <3>1. ~CarryLeaves(a, b)
      BY LessKeepsCarry
    <3>2. QED
      BY <2>1, <2>7, <2>8, <2>9, <3>1, ZeroIsOperand, RightDivMod
<1>3. CASE a.sign # b.sign
  <2>1. PICK s \in {-1, 1}, g \in {-1, 1}, k \in Nat, w \in Nat \ {0} :
          s = a.sign * b.sign /\ s = -1 /\ g = a.sign /\ a.sign = -b.sign /\ k = 1 /\ w = v - m
    BY <1>1, <1>3
  <2>2. PICK sum : sum = DifferenceOf(a.sign, a, b)
    OBVIOUS
  <2>3. fpdec_divmod(a, b) = Results(sum.rc, FPDEC_MINUS_ONE, sum.v)
    <3>1. PICK c : c = -1 /\ fpdec_compare(a, b, TRUE) = c
      BY Zenon
    <3>2. fpdec_divmod(a, b) = DivModBy(a, b, c)
      BY <3>1, DivModCases
    <3>3. fpdec_add(a, b) = sum
      BY <1>1, <1>3, <2>2 DEF fpdec_add
    <3>4. DivModBy(a, b, c) = WithRemainder(FPDEC_MINUS_ONE, sum)
      BY <1>1, <1>3, <3>1, <3>3 DEF DivModBy
    <3>5. QED
      BY <3>2, <3>4 DEF WithRemainder
  <2>4. Safe(sum) /\ (~ShintsLost(a, b, FALSE) => Good(sum, g * (m - v), e))
    BY <2>1, <2>2, Difference
  <2>5. PICK o : o = Results(sum.rc, FPDEC_MINUS_ONE, sum.v)
    OBVIOUS
  <2>6. o.rc = sum.rc /\ o.q = FPDEC_MINUS_ONE /\ o.r = sum.v
    BY <2>5 DEF Results
  <2>7. Operand(FPDEC_MINUS_ONE) /\ Number(FPDEC_MINUS_ONE) = Canonical(s * k, 0)
    <3>1. FPDEC_MINUS_ONE = Shint(s, 0, 1) /\ s * k = s * 1
      BY <2>1 DEF FPDEC_MINUS_ONE
    <3>2. QED
      BY <3>1, UnitNumbers
  <2>8. CASE ShintsLost(a, b, FALSE)
    <3>1. RestIsLost(a, b)
      BY <1>3, <2>8 DEF RestIsLost
    <3>2. sum.rc = "OK"
      <4>1. a.dyn = FALSE /\ b.dyn = FALSE
        BY <2>8 DEF ShintsLost, Operand, Decimals
      <4>2. -1 # 1
        OBVIOUS
      <4>3. sum = sub_abs(-a.sign, b, a)
        BY <2>2, <4>2, Zenon DEF DifferenceOf
      <4>4. QED
        BY <4>1, <4>3 DEF sub_abs, sub_abs_shint_from_shint, Ok, Returns
    <3>3. o.r \in Decimals /\ PrecCoversDigits(o.r) /\ (Usable(o.r) => Operand(o.r))
      BY <2>4, <2>6, <3>2 DEF Safe
    <3>4. ~CarryLeaves(a, b)
      BY LessKeepsCarry
    <3>5. QED
      BY <2>3, <2>5, <2>6, <2>7, <3>1, <3>2, <3>3, <3>4 DEF DivModOf
  <2>9. CASE ~ShintsLost(a, b, FALSE)
    <3>1. g * (m - v) = b.sign * w
      BY <1>1, <2>1
    <3>2. Good(sum, b.sign * w, e)
      BY <2>4, <2>9, <3>1
    <3>3. Remains(sum, b.sign, w, e) /\ Operand(sum.v)
      BY <1>1, <3>2, GoodRemains
    <3>4. Number(sum.v) = Canonical(b.sign * w, e) /\ SignIs(sum.v, b.sign, w) /\ sum.rc = "OK"
      BY <3>3 DEF Remains
    <3>5. Floors(s, m, k, v, w)
      <4>1. k * v = v
        BY <2>1
      <4>2. QED
        BY <2>1, <4>1 DEF Floors
    <3>6. FloorOf(a, b, Number(FPDEC_MINUS_ONE), Results("OK", FPDEC_MINUS_ONE, sum.v))
      BY <1>1, <2>1, <2>7, <3>4, <3>5, FloorIs
    <3>7. ~CarryLeaves(a, b)
      BY LessKeepsCarry
    <3>8. FloorOf(a, b, Number(o.q), o) /\ Operand(o.q) /\ Operand(o.r)
      BY <2>5, <2>6, <2>7, <3>3, <3>4, <3>6
    <3>9. fpdec_divmod(a, b) = o
      BY <2>3, <2>5
    <3>10. QED
      BY <3>7, <3>8, <3>9, RightDivMod
  <2>10. QED
    BY <2>8, <2>9
<1>4. QED
  BY <1>2, <1>3

LEMMA DivModEqual ==
  ASSUME NEW a, Operand(a), a.sign # 0, NEW b, Operand(b), b.sign # 0,
         NEW e \in Int, NEW m \in Nat \ {0}, Amount(a, e, m), Amount(b, e, m),
         fpdec_compare(a, b, TRUE) = 0
  PROVE  DivModOf(a, b, fpdec_divmod(a, b))
<1>1. a.sign \in {-1, 1} /\ b.sign \in {-1, 1}
  BY OperandSign
<1>2. PICK s \in {-1, 1} : s = a.sign * b.sign /\ (a.sign = b.sign <=> s = 1)
  BY <1>1
<1>3. PICK k \in Nat, w \in Nat : k = 1 /\ w = 0
  OBVIOUS
<1>4. PICK q : q = Shint(s, 0, 1)
  OBVIOUS
<1>5. fpdec_divmod(a, b) = Results("OK", q, FPDEC_ZERO)
  <2>1. q = IF a.sign = b.sign THEN FPDEC_ONE ELSE FPDEC_MINUS_ONE
    BY <1>2, <1>4 DEF FPDEC_ONE, FPDEC_MINUS_ONE
  <2>2. PICK c : c = 0 /\ fpdec_compare(a, b, TRUE) = c
    BY Zenon
  <2>3. fpdec_divmod(a, b) = DivModBy(a, b, c)
    BY <2>2, DivModCases
  <2>4. DivModBy(a, b, c) = Results("OK", q, FPDEC_ZERO)
    BY <1>1, <2>1, <2>2 DEF DivModBy
  <2>5. QED
    BY <2>3, <2>4
<1>6. Operand(q) /\ Number(q) = Canonical(s * k, 0)
  BY <1>3, <1>4, UnitNumbers
<1>7. Floors(s, m, k, m, w)
  <2>1. k * m = m
    BY <1>3
  <2>2. QED
    BY <1>3, <2>1 DEF Floors
<1>8. Number(FPDEC_ZERO) = Canonical(b.sign * w, e) /\ SignIs(FPDEC_ZERO, b.sign, w)
  <2>1. b.sign * w = 0
    BY <1>1, <1>3
  <2>2. QED
    BY <1>3, <2>1, ZeroIsOperand, CanonicalZero DEF SignIs, FPDEC_ZERO, Shint
<1>9. FloorOf(a, b, Number(q), Results("OK", q, FPDEC_ZERO))
  BY <1>1, <1>2, <1>6, <1>7, <1>8, FloorIs
<1>10. PICK o : o = Results("OK", q, FPDEC_ZERO)
  OBVIOUS
<1>11. o.q = q /\ o.r = FPDEC_ZERO
  BY <1>10 DEF Results
<1>12. ~CarryLeaves(a, b)
  BY EqualKeepsCarry
<1>13. QED
  BY <1>5, <1>6, <1>9, <1>10, <1>11, <1>12, ZeroIsOperand, RightDivMod

LEMMA DivModOutcome ==
  ASSUME NEW a, Operand(a), NEW b, Operand(b),
         a.sign # 0 /\ b.sign # 0 =>
           /\ Comparable(a, b) /\ QuotientFits(DigitsOf(a), DigitsOf(b))
           /\ a.sign * b.sign = -1 => RemainderFits(AsDyn(a), AsDyn(b), MAX(a.dec_prec, b.dec_prec))
  PROVE  LET o == fpdec_divmod(a, b)
         IN  /\ b.sign # 0 => DivModOf(a, b, o)
             /\ b.sign = 0 => o = Results("DIVIDE_BY_ZERO", FPDEC_ZERO, FPDEC_ZERO)
<1>a. PICK c : fpdec_compare(a, b, TRUE) = c
  OBVIOUS
<1>b. fpdec_divmod(a, b) = DivModBy(a, b, c)
  BY <1>a, DivModCases
<1>1. CASE b.sign = 0
  BY <1>b, <1>1 DEF DivModBy
<1>2. CASE b.sign # 0 /\ a.sign = 0
  <2>1. fpdec_divmod(a, b) = Results("OK", FPDEC_ZERO, FPDEC_ZERO)
    BY <1>b, <1>2 DEF DivModBy
  <2>o. PICK o : o = Results("OK", FPDEC_ZERO, FPDEC_ZERO)
    OBVIOUS
  <2>2. o.rc = "OK" /\ o.q = FPDEC_ZERO /\ o.r = FPDEC_ZERO
    BY <2>o DEF Results
  <2>3. Number(a) = << 0, 0 >>
    BY <1>2, ZeroNumber
  <2>4. Times(<< 0, 0 >>, Number(b)) = << 0, 0 >>
    <3>1. PICK u \in Int, g \in Int : u = b.sign * b.coeff /\ Number(b) = Canonical(u, g)
      <4>0. b.sign \in Int /\ b.coeff \in Int /\ b.exp \in Int /\ b.dec_prec \in Int
        BY Room DEF Operand, Decimals
      <4>1. PICK u \in Int : u = b.sign * b.coeff
        BY <4>0
      <4>2. PICK g : g = IF b.dyn THEN b.exp * DEC_DIGITS_PER_DIGIT ELSE -b.dec_prec
        OBVIOUS
      <4>3. b.exp * DEC_DIGITS_PER_DIGIT \in Int /\ -b.dec_prec \in Int
        BY <4>0, Room
      <4>4. g \in Int
        BY <4>2, <4>3
      <4>5. Number(b) = Canonical(u, g)
        BY <4>1, <4>2 DEF Number
      <4>6. QED
        BY <4>1, <4>4, <4>5
    <3>2. Number(b)[1] \in Int
      BY <3>1, CanonicalSign
    <3>3. 0 * Number(b)[1] = 0
      BY <3>2
    <3>4. QED
      BY <3>3, CanonicalZero DEF Times
  <2>5. FloorOf(a, b, Number(o.q), o)
    BY <2>2, <2>3, <2>4, ZeroIsOperand DEF FloorOf, Plus, FPDEC_ZERO, Shint
  <2>a. ~CarryLeaves(a, b)
    <3>1. b.sign \in {-1, 1}
      BY <1>2, OperandSign
    <3>2. a.sign * b.sign # -1
      BY <1>2, <3>1
    <3>3. QED
      BY <3>2 DEF CarryLeaves, LosesCarry
  <2>6. QED
    BY <1>2, <2>1, <2>o, <2>2, <2>5, <2>a, ZeroIsOperand, RightDivMod
<1>3. CASE b.sign # 0 /\ a.sign # 0
  <2>1. PICK e \in Int, m \in Nat, v \in Nat :
          /\ Amount(a, e, m) /\ m # 0 /\ e =< Unit(a)
          /\ Amount(b, e, v) /\ v # 0 /\ e =< Unit(b)
    BY <1>3, CommonUnit
  <2>0. ComparesAs(a, b, m, v)
    BY <1>3, <2>1, CompareAbs
  <2>2. c = CMP(m, v)
    BY <1>a, <2>0, Zenon DEF ComparesAs
  <2>3. CASE m < v
    <3>1. c = -1
      BY <2>2, <2>3 DEF CMP
    <3>2. fpdec_compare(a, b, TRUE) = -1
      BY <1>a, <3>1, Zenon
    <3>3. QED
      BY <1>3, <2>1, <2>3, <3>2, DivModSmaller
  <2>4. CASE m = v
    <3>1. c = 0
      BY <2>2, <2>4 DEF CMP
    <3>2. fpdec_compare(a, b, TRUE) = 0
      BY <1>a, <3>1, Zenon
    <3>3. QED
      BY <1>3, <2>1, <2>4, <3>2, DivModEqual
  <2>5. CASE v < m
    <3>1. c = 1
      BY <2>2, <2>5 DEF CMP
    <3>0. fpdec_compare(a, b, TRUE) = 1
      BY <1>a, <3>1, Zenon
    <3>2. PICK s : s = a.sign * b.sign
      OBVIOUS
    <3>3. CASE ~a.dyn /\ ~b.dyn
      <4>1. fpdec_divmod(a, b) = divmod_abs_shint_by_shint(s, b.sign, a, b)
        BY <1>3, <1>b, <3>1, <3>2, <3>3 DEF DivModBy
      <4>2. QED
        BY <1>3, <3>0, <3>2, <3>3, <4>1, DivModShints
    <3>4. CASE a.dyn \/ b.dyn
      <4>1. PICK p : p = MAX(a.dec_prec, b.dec_prec)
        OBVIOUS
      <4>2. fpdec_divmod(a, b) = divmod_abs_dyn_by_dyn(s, b.sign, p, AsDyn(a), AsDyn(b))
        BY <1>3, <1>b, <3>1, <3>2, <3>4, <4>1 DEF DivModBy
      <4>3. s = -1 => RemainderFits(AsDyn(a), AsDyn(b), p)
        BY <1>3, <3>2, <4>1
      <4>4. DivModOf(a, b, divmod_abs_dyn_by_dyn(s, b.sign, p, AsDyn(a), AsDyn(b)))
        <5>1. ByDigits(a, b)
          BY <3>4 DEF ByDigits
        <5>2. QED
          BY <1>3, <3>0, <3>2, <3>4, <4>1, <4>3, <5>1, DivModViaDigits
      <4>5. QED
        BY <1>3, <4>2, <4>4
    <3>5. QED
      BY <3>3, <3>4
  <2>6. QED
    BY <2>1, <2>3, <2>4, <2>5
<1>4. QED
  BY <1>1, <1>2, <1>3

-----------------------------------------------------------------------------
(***************************************************************************)
(* fpdec_div. Quotients of up to 128 bits get into a shifted int, or into  *)
(* digits.                                                                 *)
(***************************************************************************)
GoodPrec(o, m, e, p) == Good(o, m, e) /\ o.v.dec_prec = p

(* 128 bits are less than three digits. *)
LEMMA WordsInDigits == \A c \in Nat : c =< U128 => c < Weight(3)
<1>1. RADIX \in Nat /\ RADIX >= 10 /\ U64 \in Nat /\ U64 < 2 * RADIX /\ U128 = U64 * U64 /\ U128 \in Nat
  BY Constants, Words128
<1>2. Weight(3) = RADIX * (RADIX * RADIX)
  <2>1. Weight(1) = RADIX * Weight(0) /\ Weight(2) = RADIX * Weight(1) /\ Weight(3) = RADIX * Weight(2)
    BY WeightFacts
  <2>2. Weight(0) = 1
    BY WeightZero
  <2>3. RADIX * 1 = RADIX
    BY <1>1
  <2>4. QED
    BY <2>1, <2>2, <2>3
<1>3. PICK q \in Nat : q = RADIX * RADIX /\ q >= 10
  <2>1. PICK u \in Nat : RADIX = 10 + u
    <3>1. RADIX - 10 \in Nat /\ RADIX = 10 + (RADIX - 10)
      BY <1>1
    <3>2. QED
      BY <3>1
  <2>2. (10 + u) * (10 + u) = 100 + 20 * u + u * u /\ u * u \in Nat
    OBVIOUS
  <2>3. QED
    BY <1>1, <2>1, <2>2
<1>4. U64 * U64 =< 4 * q
  <2>1. PICK u \in Nat : 2 * RADIX = U64 + u
    <3>1. 2 * RADIX - U64 \in Nat /\ 2 * RADIX = U64 + (2 * RADIX - U64)
      BY <1>1
    <3>2. QED
      BY <3>1
  <2>2. (U64 + u) * (U64 + u) = U64 * U64 + 2 * (U64 * u) + u * u
    BY <1>1
  <2>3. (2 * RADIX) * (2 * RADIX) = 4 * (RADIX * RADIX)
    BY <1>1
  <2>4. U64 * u \in Nat /\ u * u \in Nat /\ U64 * U64 \in Nat
    BY <1>1
  <2>5. QED
    BY <1>3, <2>1, <2>2, <2>3, <2>4
<1>5. 10 * q =< RADIX * q
  <2>1. PICK u \in Nat : RADIX = 10 + u
    <3>1. RADIX - 10 \in Nat /\ RADIX = 10 + (RADIX - 10)
      BY <1>1
    <3>2. QED
      BY <3>1
  <2>2. (10 + u) * q = 10 * q + u * q /\ u * q \in Nat
    OBVIOUS
  <2>3. QED
    BY <2>1, <2>2
<1>6. RADIX * q \in Nat
  BY <1>1
<1>7. QED
  BY <1>1, <1>2, <1>3, <1>4, <1>5, <1>6

(* TrimmedNumber, under a name. *)
TrimmedAs(d, s, v, n, e) ==
  /\ d.exp = e + TrailingZeroDigits(v, n)
  /\ Canonical(s * d.coeff, d.exp * DEC_DIGITS_PER_DIGIT) = Canonical(s * v, e * DEC_DIGITS_PER_DIGIT)

LEMMA TrimmedDigits ==
  ASSUME NEW v \in Nat \ {0}, NEW n \in Nat, v < Weight(n), NEW exp \in Int, NEW s \in Int,
         exp + TrailingZeroDigits(v, n) \in INT32_MIN .. FPDEC_MAX_EXP
  PROVE  TrimmedAs(Trimmed(v, n, exp), s, v, n, exp)
BY TrimmedNumber, ZenonT(60) DEF TrimmedAs

LEMMA WideDigits ==
  ASSUME NEW c \in Nat \ {0}, c =< U128, NEW p \in 0 .. MAX_DEC_PREC_FOR_SHINT, NEW s \in {-1, 1}
  PROVE  LET d == du64_to_digits(c, p)
         IN  /\ Stripped(d) /\ d.exp \in -1 .. 2 /\ d.n + d.exp =< 3
             /\ Canonical(s * d.coeff, Place(d.exp)) = Canonical(s * c, -p)
<1>1. PICK w \in Nat \ {0} : /\ w = DEC_DIGITS_PER_DIGIT
                             /\ MAX_DEC_PREC_FOR_SHINT \in Nat /\ MAX_DEC_PREC_FOR_SHINT + 1 < w
                             /\ p \in Nat /\ p < w
  BY Limits
<1>2. PICK k \in {0, 1} : k = CEIL(p, DEC_DIGITS_PER_DIGIT) /\ (k = 0 <=> p = 0)
  BY DigitsOfPrec
<1>3. PICK e \in Int, f \in Int : e = -k /\ f = -p /\ Place(e) \in Int /\ Place(e) =< f
  <2>1. -k \in Int /\ -p \in Int /\ (-k) * w \in Int /\ (-k) * w =< -p
    BY <1>1, <1>2
  <2>2. QED
    BY <1>1, <2>1 DEF Place
<1>4. PICK t \in Nat \ {0} : t = Ten(Place(e), f)
  BY <1>3, TenType
<1>5. k * DEC_DIGITS_PER_DIGIT - p = f - Place(e)
  BY <1>1, <1>2, <1>3 DEF Place
<1>6. PICK v : v = c * t
  OBVIOUS
<1>7. du64_to_digits(c, p) = Trimmed(v, DigitCount[v], e)
  <2>1. u64_10_pow_n(k * DEC_DIGITS_PER_DIGIT - p) = t
    BY <1>4, <1>5 DEF u64_10_pow_n, Ten
  <2>2. QED
    BY <1>2, <1>3, <1>6, <2>1 DEF du64_to_digits
<1>8. v \in Nat \ {0}
  BY <1>6
<1>9. v < Weight(3 + k)
  <2>1. t =< Weight(k)
    <3>1. f =< Place(e + k) /\ Place(e + k) \in Int
      <4>1. e + k = 0
        BY <1>2, <1>3
      <4>2. QED
        BY <1>1, <1>3, <4>1, Places
    <3>2. Ten(Place(e), f) =< Ten(Place(e), Place(e + k))
      BY <1>3, <3>1, TenOrder
    <3>3. Weight(k) = Ten(Place(e), Place(e + k))
      <4>1. PICK j \in Nat : j = k
        BY <1>2
      <4>2. Weight(j) = Ten(e * DEC_DIGITS_PER_DIGIT, (e + j) * DEC_DIGITS_PER_DIGIT)
        BY <1>3, WeightTen
      <4>3. QED
        BY <4>1, <4>2 DEF Place
    <3>4. QED
      BY <1>4, <3>2, <3>3
  <2>2. PICK i \in Nat, j \in Nat : i = 3 /\ j = k
    BY <1>2
  <2>3. c < Weight(i)
    BY <2>2, WordsInDigits
  <2>4. t =< Weight(j) /\ Weight(j) \in Nat /\ Weight(i) \in Nat \ {0} /\ Weight(i + j) = Weight(i) * Weight(j)
    <3>1. (i + j) - i = j /\ i =< i + j /\ i + j \in Nat
      OBVIOUS
    <3>2. Weight(i + j) = Weight(i) * Weight((i + j) - i)
      BY <3>1, WeightSplit
    <3>3. QED
      BY <2>1, <2>2, <3>1, <3>2, WeightFacts
  <2>5. PICK a \in Nat, b \in Nat : a = Weight(i) /\ b = Weight(j) /\ c < a /\ t =< b
    BY <2>3, <2>4
  <2>6. c * t < a * t
    <3>1. PICK u \in Nat \ {0} : a = c + u
      <4>1. a - c \in Nat \ {0} /\ a = c + (a - c)
        BY <2>5
      <4>2. QED
        BY <4>1
    <3>2. (c + u) * t = c * t + u * t /\ u * t \in Nat \ {0} /\ c * t \in Nat
      OBVIOUS
    <3>3. QED
      BY <3>1, <3>2
  <2>7. a * t =< a * b
    <3>1. PICK u \in Nat : b = t + u
      <4>1. b - t \in Nat /\ b = t + (b - t)
        BY <2>5
      <4>2. QED
        BY <4>1
    <3>2. a * (t + u) = a * t + a * u /\ a * u \in Nat /\ a * t \in Nat
      OBVIOUS
    <3>3. QED
      BY <3>1, <3>2
  <2>8. c * t \in Nat /\ a * t \in Nat /\ a * b \in Nat
    OBVIOUS
  <2>9. c * t < a * b
    BY <2>6, <2>7, <2>8
  <2>10. QED
    BY <1>6, <2>2, <2>4, <2>5, <2>9
<1>10. PICK n \in Nat \ {0} : n = DigitCount[v] /\ n =< 3 + k /\ v < Weight(n)
  <2>1. PICK m \in Nat : m = 3 + k
    BY <1>2
  <2>2. v < Weight(m)
    BY <1>9, <2>1
  <2>3. DigitCount[v] =< m
    BY <1>8, <2>2, DigitCountBounds
  <2>4. DigitCount[v] \in Nat \ {0} /\ v < Weight(DigitCount[v])
    BY <1>8, DigitCountRange
  <2>5. QED
    BY <2>1, <2>3, <2>4
<1>11. PICK d : d = Trimmed(v, DigitCount[v], e)
  OBVIOUS
<1>12. PICK z1 \in 0 .. n - 1 : z1 = TrailingZeroDigits(v, n) /\ Stripped(d) /\ d.n = n - z1
  <2>1. /\ Stripped(d)
        /\ TrailingZeroDigits(v, DigitCount[v]) \in 0 .. DigitCount[v] - 1
        /\ d.n = DigitCount[v] - TrailingZeroDigits(v, DigitCount[v])
    BY <1>3, <1>8, <1>11, StrippedZeros
  <2>2. /\ TrailingZeroDigits(v, n) \in 0 .. n - 1
        /\ d.n = n - TrailingZeroDigits(v, n)
    BY <1>10, <2>1
  <2>3. QED
    BY <2>1, <2>2
<1>13. e + z1 \in INT32_MIN .. FPDEC_MAX_EXP /\ e + z1 \in -1 .. 2 /\ (n - z1) + (e + z1) =< 3
  <2>1. e \in Int /\ z1 \in Nat /\ n \in Nat /\ z1 =< n - 1 /\ n =< 3 - e /\ e >= -1 /\ e =< 0
    BY <1>2, <1>3, <1>10, <1>12
  <2>2. FPDEC_MAX_EXP \in Nat /\ FPDEC_MAX_EXP >= 2 /\ INT32_MIN = -FPDEC_MAX_EXP - 1
    BY Limits
  <2>3. QED
    BY <2>1, <2>2
<1>14. d.exp = e + z1
       /\ Canonical(s * d.coeff, d.exp * DEC_DIGITS_PER_DIGIT) = Canonical(s * v, e * DEC_DIGITS_PER_DIGIT)
  <2>1. PICK m \in Nat, sg \in Int : m = n /\ sg = s
    BY <1>10
  <2>2. v < Weight(m) /\ e + TrailingZeroDigits(v, m) \in INT32_MIN .. FPDEC_MAX_EXP
    BY <1>10, <1>12, <1>13, <2>1
  <2>3. TrimmedAs(Trimmed(v, m, e), sg, v, m, e)
    BY <1>3, <1>8, <2>2, TrimmedDigits
  <2>4. d = Trimmed(v, m, e) /\ TrailingZeroDigits(v, m) = z1
    BY <1>10, <1>11, <1>12, <2>1
  <2>5. d.exp = e + z1
    BY <2>3, <2>4 DEF TrimmedAs
  <2>6. Canonical(s * d.coeff, d.exp * DEC_DIGITS_PER_DIGIT) = Canonical(s * v, e * DEC_DIGITS_PER_DIGIT)
    BY <2>1, <2>3, <2>4 DEF TrimmedAs
  <2>7. QED
    BY <2>5, <2>6
<1>15. Canonical(s * v, Place(e)) = Canonical(s * c, f)
  <2>1. ShiftsTo(s, c, Place(e), f)
    BY <1>3, SignedShift
  <2>2. QED
    BY <1>4, <1>6, <2>1 DEF ShiftsTo
<1>16. QED
  BY <1>3, <1>7, <1>11, <1>12, <1>13, <1>14, <1>15 DEF Place

(* Digits up to the third one, of a number whose places the precision covers. *)
LEMMA ThreeDigits ==
  ASSUME NEW s \in {-1, 1}, NEW d, Stripped(d), d.exp \in -1 .. 2, d.n + d.exp =< 3,
         NEW c \in Nat, NEW j \in Nat, Canonical(s * d.coeff, Place(d.exp)) = Canonical(s * c, -j),
         NEW p \in 0 .. FPDEC_MAX_DEC_PREC, j =< p, Place(3) =< FPDEC_MAX_EXP,
         NEW a, a.sign = s /\ a.dec_prec = p /\ a.coeff = d.coeff /\ a.exp = d.exp
  PROVE  GoodPrec(fpdec_dyn_normalize(a), s * c, -j, p)
<1>1. a.sign = s /\ a.dec_prec = p /\ a.coeff = d.coeff /\ a.exp = d.exp
  OBVIOUS
<1>2. PICK n \in Nat : n = d.n
  BY DEF Stripped
<1>3. a.coeff \in Nat /\ a.coeff < Weight(n) /\ a.sign \in {-1, 1} /\ a.dec_prec \in 0 .. FPDEC_MAX_DEC_PREC
  BY <1>1, <1>2 DEF Stripped
<1>4. PICK e \in Int : e = a.exp /\ e + n =< 3 /\ e \in -1 .. 2
  BY <1>1, <1>2
<1>5. Place(e + n) =< FPDEC_MAX_EXP /\ e + n =< FPDEC_MAX_EXP /\ e \in INT32_MIN .. FPDEC_MAX_EXP
  <2>1. PICK u \in Nat : u = 3
    OBVIOUS
  <2>2. e + n \in Int /\ e + n =< u
    BY <1>4, <2>1
  <2>3. Place(e + n) =< FPDEC_MAX_EXP /\ e + n =< FPDEC_MAX_EXP
    BY <2>1, <2>2, WithinRoom
  <2>4. QED
    BY <1>4, <2>3, Limits
<1>6. Canonical(a.sign * a.coeff, Place(a.exp))[2] >= -a.dec_prec
  <2>1. PICK u \in Int, f \in Int : u = s * c /\ f = -j /\ f =< 0 /\ f =< f /\ f >= -p
    OBVIOUS
  <2>2. Canonical(u, f)[2] >= f /\ Canonical(u, f)[2] \in Int
    BY <2>1, CanonicalCovered, CanonicalSign
  <2>3. QED
    BY <1>1, <2>1, <2>2
<1>7. Good(fpdec_dyn_normalize(a), a.sign * a.coeff, Place(a.exp))
  BY <1>3, <1>4, <1>5, <1>6, NormalizedBelow
<1>8. Good(fpdec_dyn_normalize(a), s * c, -j)
  BY <1>1, <1>7 DEF Good
<1>9. fpdec_dyn_normalize(a).v.dec_prec = p
  BY <1>1, <1>8, NormalizedPrec DEF Good
<1>10. QED
  BY <1>8, <1>9 DEF GoodPrec

(* A quotient of at most 128 bits with a precision of shifted ints is good. *)
LEMMA FinishedU128 ==
  ASSUME NEW s \in {-1, 1}, NEW p \in 0 .. MAX_DEC_PREC_FOR_SHINT, NEW c \in Nat, c =< U128,
         Place(3) =< FPDEC_MAX_EXP
  PROVE  GoodPrec(FinishedIfOk(FromU128(s, [dec_prec |-> p, coeff |-> c])), s * c, -p, p)
<1>1. p \in Nat /\ p \in Int /\ -p \in Int /\ p \in 0 .. FPDEC_MAX_DEC_PREC /\ AsDecPrec(p) = p
  <2>1. p \in Nat /\ p \in Int /\ -p \in Int /\ p \in 0 .. FPDEC_MAX_DEC_PREC
    BY Limits
  <2>2. QED
    BY <2>1, AsDecPrecFacts
<1>2. PICK q : q = Shint(s, p, c)
  OBVIOUS
<1>3. q.dyn = FALSE /\ q.coeff = c /\ q.dec_prec = p /\ q.sign = s
  BY <1>2 DEF Shint
<1>4. FromU128(s, [dec_prec |-> p, coeff |-> c]) = Ok(IF c < SHINT_LIMIT THEN q ELSE AsDyn(q))
  <2>1. PICK g : g = [dec_prec |-> p, coeff |-> c]
    OBVIOUS
  <2>2. g.dec_prec = p /\ g.coeff = c
    BY <2>1
  <2>3. FromU128(s, g) = Ok(IF c < SHINT_LIMIT THEN q ELSE AsDyn(q))
    BY <1>1, <1>2, <2>2 DEF FromU128
  <2>4. QED
    BY <2>1, <2>3
<1>5. ASSUME c < SHINT_LIMIT
      PROVE  GoodPrec(FinishedIfOk(FromU128(s, [dec_prec |-> p, coeff |-> c])), s * c, -p, p)
  <2>1. FinishedIfOk(FromU128(s, [dec_prec |-> p, coeff |-> c])) = Finished(q)
    BY <1>4, <1>5 DEF FinishedIfOk, Ok, Returns
  <2>2. PICK o : o = Finished(q)
    OBVIOUS
  <2>3. Remains(o, s, c, -p) /\ (p =< MAX_DEC_PREC_FOR_SHINT => Operand(o.v))
    BY <1>1, <1>2, <1>5, <2>2, StoredRest
  <2>4. o.v.dec_prec = p
    BY <1>3, <1>2, <2>2 DEF Finished, Ok, Returns, Shint
  <2>5. QED
    BY <2>1, <2>2, <2>3, <2>4 DEF GoodPrec, Good, Remains
<1>6. ASSUME ~(c < SHINT_LIMIT)
      PROVE  GoodPrec(FinishedIfOk(FromU128(s, [dec_prec |-> p, coeff |-> c])), s * c, -p, p)
  <2>1. c \in Nat \ {0}
    BY <1>6, Limits
  <2>2. PICK d : d = du64_to_digits(c, p)
    OBVIOUS
  <2>3. /\ Stripped(d) /\ d.exp \in -1 .. 2 /\ d.n + d.exp =< 3
        /\ Canonical(s * d.coeff, Place(d.exp)) = Canonical(s * c, -p)
    BY <2>1, <2>2, WideDigits
  <2>4. PICK a : a = Dyn(s, p, d.coeff, d.n, d.exp)
    OBVIOUS
  <2>5. AsDyn(q) = a
    BY <1>3, <2>2, <2>4 DEF DigitsOf, AsDyn
  <2>6. PICK j \in Nat : j = p /\ j =< p
    BY <1>1
  <2>7. GoodPrec(fpdec_dyn_normalize(a), s * c, -j, p)
    <3>1. a.sign = s /\ a.dec_prec = p /\ a.coeff = d.coeff /\ a.exp = d.exp
      BY <2>4 DEF Dyn
    <3>2. QED
      BY <1>1, <2>3, <2>6, <3>1, ThreeDigits
  <2>8. FinishedIfOk(FromU128(s, [dec_prec |-> p, coeff |-> c])) = fpdec_dyn_normalize(a)
    <3>1. FromU128(s, [dec_prec |-> p, coeff |-> c]) = Ok(a)
      BY <1>4, <1>6, <2>5
    <3>2. a.dyn = TRUE
      BY <2>4 DEF Dyn
    <3>3. QED
      BY <3>1, <3>2 DEF FinishedIfOk, Finished, Ok, Returns
  <2>9. QED
    BY <2>6, <2>7, <2>8
<1>7. QED
  BY <1>5, <1>6

(* A product that wraps around in 128 bits is not 0. *)
LEMMA ProductIsPositive ==
  ASSUME NEW c \in Nat \ {0}, NEW n \in Nat \ {0}, n =< 2 * MAX_DEC_PREC_FOR_SHINT
  PROVE  LET v == u128_imul_u64(c, u64_10_pow_n(n)) IN v \in Nat \ {0} /\ v < U128
<1>1. PICK u \in Nat \ {0}, q \in Nat \ {0} : u = U64 /\ q = U128 /\ q = u * u /\ q > 1
  <2>1. U64 \in Nat \ {0} /\ U128 \in Nat \ {0} /\ U128 = U64 * U64 /\ U128 > 1
    <3>1. SHINT_LIMIT >= 1 /\ SHINT_LIMIT < U128 /\ SHINT_LIMIT \in Nat /\ U128 \in Nat
      BY Limits, Words128
    <3>2. QED
      BY <3>1, Words128
  <2>2. QED
    BY <2>1
<1>2. PICK m \in Nat \ {0} : m = u64_10_pow_n(n) /\ m < u /\ m % 10 = 0
  <2>1. PICK i \in Nat : i = n - 1 /\ n = i + 1
    <3>1. n - 1 \in Nat /\ n = (n - 1) + 1
      OBVIOUS
    <3>2. QED
      BY <3>1
  <2>2. Power(10, i) \in Nat \ {0} /\ Power(10, i + 1) = 10 * Power(10, i)
    BY PowersOf10
  <2>3. PICK t \in Nat \ {0} : t = Power(10, i)
    BY <2>2
  <2>4. (10 * t) % 10 = 0
    OBVIOUS
  <2>5. PICK j \in Nat : j = 2 * MAX_DEC_PREC_FOR_SHINT /\ n =< j
    BY Limits
  <2>6. Power(10, n) =< Power(10, j) /\ Power(10, j) \in Nat
    BY <2>5, PowerOrder, PowersOf10, 10 \in Nat /\ 10 >= 2
  <2>7. Power(10, j) < u
    BY <1>1, <2>5, DivisionAssumption DEF u64_10_pow_n
  <2>8. Power(10, n) = 10 * t
    BY <2>1, <2>2, <2>3
  <2>9. 10 * t \in Nat \ {0}
    OBVIOUS
  <2>10. QED
    BY <1>1, <2>4, <2>6, <2>7, <2>8, <2>9 DEF u64_10_pow_n
<1>3. PICK h \in Nat, l \in 0 .. u - 1 : h = c \div u /\ c = h * u + l
  BY QuotientAndRest, ZenonT(60)
<1>4. PICK v : v = u128_imul_u64(c, m)
  OBVIOUS
<1>5. v = IF h * m >= u THEN q - 1 ELSE (c * m) % q
  BY <1>1, <1>3, <1>4 DEF u128_imul_u64
<1>6. ASSUME h * m >= u PROVE v \in Nat \ {0} /\ v < q
  BY <1>1, <1>5, <1>6
<1>7. ASSUME ~(h * m >= u) PROVE v \in Nat \ {0} /\ v < q
  <2>1. PICK g \in Nat : g = h * m /\ g =< u - 1
    BY <1>7
  <2>2. c * m = g * u + l * m
    <3>1. c * m = (h * u + l) * m
      BY <1>3
    <3>2. (h * u + l) * m = (h * m) * u + l * m
      OBVIOUS
    <3>3. QED
      BY <2>1, <3>1, <3>2
  <2>3. g * u =< q - u
    <3>1. PICK w \in Nat : u - 1 = g + w
      <4>1. (u - 1) - g \in Nat /\ u - 1 = g + ((u - 1) - g)
        BY <2>1
      <4>2. QED
        BY <4>1
    <3>2. (g + w) * u = g * u + w * u /\ w * u \in Nat /\ g * u \in Nat
      OBVIOUS
    <3>3. (u - 1) * u = u * u - u
      OBVIOUS
    <3>4. QED
      BY <1>1, <3>1, <3>2, <3>3
  <2>4. l * m < q
    <3>1. PICK w \in Nat \ {0} : u = m + w
      <4>1. u - m \in Nat \ {0} /\ u = m + (u - m)
        BY <1>2
      <4>2. QED
        BY <4>1
    <3>2. PICK w2 \in Nat \ {0} : u = l + w2
      <4>1. u - l \in Nat \ {0} /\ u = l + (u - l)
        BY <1>3
      <4>2. QED
        BY <4>1
    <3>3. (l + w2) * u = l * u + w2 * u /\ w2 * u \in Nat \ {0}
      BY <1>3
    <3>4. l * (m + w) = l * m + l * w /\ l * w \in Nat /\ l * m \in Nat
      BY <1>3
    <3>5. QED
      BY <1>1, <3>1, <3>2, <3>3, <3>4
  <2>5. PICK p \in Nat \ {0} : p = c * m
    OBVIOUS
  <2>6. p < 2 * q
    <3>1. g * u \in Nat /\ l * m \in Nat
      BY <1>3
    <3>2. QED
      BY <1>1, <2>2, <2>3, <2>4, <2>5, <3>1
  <2>7. p # q
    <3>1. p % 10 = 0
      <4>1. PICK t \in Int : m = 10 * t
        BY <1>2
      <4>2. c * (10 * t) = 10 * (c * t) /\ c * t \in Int
        BY <4>1
      <4>3. PICK w \in Int : p = 10 * w
        BY <2>5, <4>1, <4>2
      <4>4. QED
        BY <4>3
    <3>2. QED
      BY <1>1, <3>1, DivisionAssumption
  <2>8. p % q # 0
    BY <2>6, <2>7
  <2>9. p % q \in 0 .. q - 1
    BY QuotientAndRest
  <2>10. QED
    BY <1>5, <1>7, <2>1, <2>5, <2>8, <2>9
<1>8. QED
  BY <1>1, <1>2, <1>4, <1>6, <1>7

(***************************************************************************)
(* The cases of fpdec_div_abs_shint_by_shint whose quotient an u128_t is.  *)
(***************************************************************************)
LEMMA InexactU128 ==
  ASSUME NEW s \in {-1, 1}, NEW v \in Nat \ {0}, v < U128, NEW w \in Nat \ {0}, v % w # 0,
         NEW shift, NEW p \in 0 .. MAX_DEC_PREC_FOR_SHINT, NEW mode, Place(3) =< FPDEC_MAX_EXP,
         NEW k, k = v \div w + (IF round_u128(s, v \div w, v % w, w, mode) THEN 1 ELSE 0)
  PROVE  /\ k \in Nat /\ GoodPrec(FinishedIfOk(div_u128(s, v, w, shift, p, mode)), s * k, -p, p)
<1>1. PICK u \in {0, 1} : u = (IF round_u128(s, v \div w, v % w, w, mode) THEN 1 ELSE 0)
  OBVIOUS
<1>2. k = v \div w + u /\ (u = 1 => v % w # 0)
  BY <1>1
<1>3. k \in Nat /\ k =< v
  BY <1>2, QuotientBelow
<1>4. k =< U128
  BY <1>3, Words128
<1>5. div_u128(s, v, w, shift, p, mode) = FromU128(s, [dec_prec |-> p, coeff |-> k])
  BY DEF div_u128
<1>6. QED
  BY <1>3, <1>4, <1>5, FinishedU128

LEMMA ExactU128 ==
  ASSUME NEW s \in {-1, 1}, NEW v \in Nat \ {0}, v < U128, NEW w \in Nat \ {0}, v % w = 0,
         NEW shift, NEW p \in 0 .. MAX_DEC_PREC_FOR_SHINT, NEW mode, Place(3) =< FPDEC_MAX_EXP,
         NEW k, k = v \div w
  PROVE  /\ k \in Nat \ {0} /\ v = k * w
         /\ GoodPrec(FinishedIfOk(div_u128(s, v, w, shift, p, mode)), s * k, -p, p)
<1>1. k \in Nat /\ v = k * w + 0
  BY QuotientAndRest
<1>2. k # 0
  BY <1>1
<1>3. k =< v
  <2>1. PICK u \in Nat : w = 1 + u
    <3>1. w - 1 \in Nat /\ w = 1 + (w - 1)
      OBVIOUS
    <3>2. QED
      BY <3>1
  <2>2. k * (1 + u) = k + k * u /\ k * u \in Nat
    BY <1>1
  <2>3. QED
    BY <1>1, <2>1, <2>2
<1>4. k =< U128
  BY <1>1, <1>3, Words128
<1>5. div_u128(s, v, w, shift, p, mode) = FromU128(s, [dec_prec |-> p, coeff |-> k])
  <2>1. p # -1 /\ ~(p > MAX_DEC_PREC_FOR_SHINT)
    BY Limits
  <2>2. QED
    BY <2>1 DEF div_u128
<1>6. QED
  BY <1>1, <1>2, <1>4, <1>5, FinishedU128

(***************************************************************************)
(* An exact quotient has no needless places: those of its digits, or what  *)
(* the dividend has more than the divisor. A precision below 0 that wraps  *)
(* is one of digits.                                                       *)
(***************************************************************************)
IsConcise(v, least) ==
  (v.dyn /\ Number(v)[2] > 0) \/ v.dec_prec =< MAX(MAX(0, -Number(v)[2]), least)

(* A number that does not end in 0 has the exponent it is given. *)
LEMMA PlainNumber ==
  ASSUME NEW s \in {-1, 1}, NEW q \in Nat, q % 10 # 0, NEW e \in Int
  PROVE  Canonical(s * q, e)[2] = e
<1>1. PICK c \in Int : c = s * q
  OBVIOUS
<1>2. c % 10 # 0
  <2>1. CASE s = 1
    BY <1>1, <2>1
  <2>2. CASE s = -1
    <3>1. c = -q
      BY <1>1, <2>2
    <3>2. QED
      BY <3>1
  <2>3. QED
    BY <2>1, <2>2
<1>3. Power(10, e - e) = 1
  <2>1. e - e = 0
    OBVIOUS
  <2>2. QED
    BY <2>1, PowerZero
<1>4. c = c * Power(10, e - e)
  BY <1>3
<1>5. Canonical(c, e) = << c, e >>
  <2>1. e =< e
    OBVIOUS
  <2>2. QED
    BY <1>2, <1>4, <2>1, CanonicalIs
<1>6. QED
  BY <1>1, <1>5

(* The quotient of shifted ints loses as many zeros as it can. *)
HasPlaces(v, s, q, m) == v.dec_prec = m /\ Number(v) = Canonical(s * q, -m)

ZerosTaken(k, n, j, q) == j = TrailingZeros(k, n) /\ q = k \div Power(10, j)

LEMMA PlacesNeeded ==
  ASSUME NEW s \in {-1, 1}, NEW k \in Nat, NEW shift \in Int, shift > 0, NEW p \in Nat,
         NEW n \in Nat, n = MIN(shift, p), NEW j \in Nat, NEW q \in Nat, ZerosTaken(k, n, j, q),
         NEW v, HasPlaces(v, s, q, p - j), NEW least, least = p - shift
  PROVE  IsConcise(v, least)
<1>1. j =< n /\ (j < n => q % 10 # 0)
  BY TrailingZerosFacts DEF ZerosTaken
<1>2. PICK m \in Int, e \in Int : m = p - j /\ e = -m /\ least \in Int
  <2>1. p - j \in Int /\ -(p - j) \in Int /\ p - shift \in Int
    OBVIOUS
  <2>2. QED
    BY <2>1
<1>3. v.dec_prec = m /\ Number(v) = Canonical(s * q, e)
  BY <1>2 DEF HasPlaces
<1>4. CASE j < n
  <2>1. Canonical(s * q, e)[2] = e
    BY <1>1, <1>2, <1>4, PlainNumber
  <2>2. m =< MAX(MAX(0, -e), least)
    BY <1>2 DEF MAX
  <2>3. QED
    BY <1>3, <2>1, <2>2 DEF IsConcise
<1>5. CASE j = n
  <2>1. m = 0 \/ m = least
    BY <1>2, <1>5 DEF MIN
  <2>2. PICK i \in Int : i = Number(v)[2]
    <3>1. PICK c \in Int : c = s * q
      OBVIOUS
    <3>2. QED
      BY <1>2, <1>3, <3>1, CanonicalSign
  <2>3. m =< MAX(MAX(0, -i), least)
    BY <1>2, <2>1 DEF MAX
  <2>4. QED
    BY <1>3, <2>2, <2>3 DEF IsConcise
<1>6. QED
  BY <1>1, <1>4, <1>5

(* Without a limit, zeros at the end of the quotient are no places of it. *)
LEMMA ConciseU128 ==
  ASSUME NEW s \in {-1, 1}, NEW v \in Nat \ {0}, v < U128, NEW w \in Nat \ {0}, v % w = 0,
         NEW shift \in Int, shift > 0, NEW mode, Place(3) =< FPDEC_MAX_EXP,
         NEW k, k = v \div w
  PROVE  /\ k \in Nat \ {0} /\ v = k * w
         /\ Good(FinishedIfOk(div_u128(s, v, w, shift, -1, mode)), s * k, -MAX_DEC_PREC_FOR_SHINT)
         /\ IsConcise(FinishedIfOk(div_u128(s, v, w, shift, -1, mode)).v, MAX_DEC_PREC_FOR_SHINT - shift)
<1>1. k \in Nat /\ v = k * w + 0
  BY QuotientAndRest
<1>2. k # 0
  BY <1>1
<1>3. PICK p \in Nat : p = MAX_DEC_PREC_FOR_SHINT
  BY Limits
<1>4. PICK n \in Nat : n = MIN(shift, MAX_DEC_PREC_FOR_SHINT) /\ n =< p
  BY <1>3 DEF MIN
<1>5. PICK j \in 0 .. n, q \in Nat : /\ j = TrailingZeros(k, n) /\ q = k \div Power(10, j)
                                     /\ k = Power(10, j) * q
  <2>1. PICK j \in Nat : j = TrailingZeros(k, n)
    BY <1>1, TrailingZerosFacts
  <2>2. PICK q : q = k \div Power(10, j)
    OBVIOUS
  <2>3. j \in 0 .. n /\ q \in Nat /\ k = Power(10, j) * q
    BY <1>1, <2>1, <2>2, TrailingZerosFacts
  <2>4. QED
    BY <2>1, <2>2, <2>3
<1>6. PICK t \in Nat \ {0} : t = Power(10, j)
  BY PowersOf10
<1>7. q =< U128
  <2>1. PICK u \in Nat : w = 1 + u
    <3>1. w - 1 \in Nat /\ w = 1 + (w - 1)
      OBVIOUS
    <3>2. QED
      BY <3>1
  <2>2. k * (1 + u) = k + k * u /\ k * u \in Nat
    BY <1>1
  <2>3. PICK g \in Nat : t = 1 + g
    <3>1. t - 1 \in Nat /\ t = 1 + (t - 1)
      OBVIOUS
    <3>2. QED
      BY <3>1
  <2>4. (1 + g) * q = q + g * q /\ g * q \in Nat
    OBVIOUS
  <2>5. k =< v
    BY <1>1, <2>1, <2>2
  <2>6. k = q + g * q
    BY <1>5, <1>6, <2>3, <2>4
  <2>7. q =< k
    BY <1>1, <2>4, <2>6
  <2>8. QED
    BY <1>1, <2>5, <2>7, Words128
<1>8. PICK m \in 0 .. MAX_DEC_PREC_FOR_SHINT : m = p - j /\ m \in Nat
  BY <1>3, <1>4, <1>5
<1>9. div_u128(s, v, w, shift, -1, mode) = FromU128(s, [dec_prec |-> m, coeff |-> q])
  <2>1. ~(-1 > MAX_DEC_PREC_FOR_SHINT)
    BY Limits
  <2>2. u64_10_pow_n(j) = Power(10, j)
    BY DEF u64_10_pow_n
  <2>3. QED
    BY <1>3, <1>4, <1>5, <1>8, <2>1, <2>2 DEF div_u128
<1>10. GoodPrec(FinishedIfOk(FromU128(s, [dec_prec |-> m, coeff |-> q])), s * q, -m, m)
  BY <1>7, FinishedU128
<1>11. Canonical(s * q, -m) = Canonical(s * k, -p)
  <2>1. PICK a \in Int, e \in Int : a = s * q /\ e = -p
    BY <1>3
  <2>2. j \in Nat
    OBVIOUS
  <2>3. Canonical(a * Power(10, j), e) = Canonical(a, e + j)
    BY <2>1, <2>2, CanonicalScale
  <2>4. a * Power(10, j) = s * k
    <3>1. (s * q) * t = s * (t * q)
      OBVIOUS
    <3>2. QED
      BY <1>5, <1>6, <2>1, <3>1
  <2>5. e + j = -m
    BY <1>8, <2>1
  <2>6. QED
    BY <2>1, <2>3, <2>4, <2>5
<1>12. PICK o : o = FinishedIfOk(div_u128(s, v, w, shift, -1, mode))
  OBVIOUS
<1>13. IsConcise(o.v, p - shift)
  <2>1. Number(o.v) = Canonical(s * q, -m) /\ o.v.dec_prec = m
    BY <1>9, <1>10, <1>12 DEF GoodPrec, Good
  <2>2. m \in Nat /\ j \in Nat /\ m = p - j /\ j = TrailingZeros(k, n) /\ q = k \div Power(10, j)
    BY <1>5, <1>8
  <2>3. n = MIN(shift, p)
    BY <1>3, <1>4
  <2>4. HasPlaces(o.v, s, q, p - j)
    BY <1>8, <2>1 DEF HasPlaces
  <2>5. ZerosTaken(k, n, j, q)
    BY <2>2 DEF ZerosTaken
  <2>6. PICK least : least = p - shift
    OBVIOUS
  <2>7. IsConcise(o.v, least)
    BY <1>1, <2>2, <2>3, <2>4, <2>5, <2>6, PlacesNeeded
  <2>8. QED
    BY <2>6, <2>7
<1>14. QED
  BY <1>1, <1>2, <1>3, <1>9, <1>10, <1>11, <1>12, <1>13 DEF GoodPrec, Good

(* More places than shifted ints have: what the 96 bits of one hold. *)
LEMMA CutU128 ==
  ASSUME NEW s \in {-1, 1}, NEW v \in Nat \ {0}, v < U128, NEW w \in Nat \ {0}, v % w = 0,
         NEW shift, NEW p \in 0 .. FPDEC_MAX_DEC_PREC, p > MAX_DEC_PREC_FOR_SHINT, NEW mode,
         Place(3) =< FPDEC_MAX_EXP, NEW k, k = v \div w, NEW c, c = k % SHINT_LIMIT,
         NEW o, o = FinishedIfOk(div_u128(s, v, w, shift, p, mode))
  PROVE  /\ k \in Nat \ {0} /\ v = k * w /\ c \in Nat /\ (k < SHINT_LIMIT => c = k)
         /\ c = 0 => k >= SHINT_LIMIT /\ o = AssertionFails
         /\ c # 0 => GoodPrec(o, s * c, -MAX_DEC_PREC_FOR_SHINT, p)
<1>1. k \in Nat /\ v = k * w + 0
  BY QuotientAndRest
<1>2. k # 0
  BY <1>1
<1>3. PICK l \in Nat \ {0} : l = SHINT_LIMIT
  BY Limits
<1>4. c \in 0 .. l - 1 /\ (k < l => c = k)
  <2>1. k % l \in 0 .. l - 1
    BY <1>1, QuotientAndRest
  <2>2. k < l => k % l = k
    BY <1>1
  <2>3. QED
    BY <1>3, <2>1, <2>2
<1>5. PICK m \in 0 .. MAX_DEC_PREC_FOR_SHINT : m = MAX_DEC_PREC_FOR_SHINT /\ m \in Nat
  BY Limits
<1>6. PICK q : q = Shint(s, m, c)
  OBVIOUS
<1>7. q.dyn = FALSE /\ q.coeff = c /\ q.dec_prec = m /\ q.sign = s
  BY <1>6 DEF Shint
<1>8. div_u128(s, v, w, shift, p, mode) = FromShint(q, p)
  <2>1. v % w = 0 /\ p > MAX_DEC_PREC_FOR_SHINT
    OBVIOUS
  <2>2. QED
    BY <1>5, <1>6, <2>1 DEF div_u128
<1>9. ASSUME c = 0 PROVE k >= SHINT_LIMIT /\ o = AssertionFails
  <2>1. ~Convertible(q)
    BY <1>7, <1>9 DEF Convertible
  <2>2. FromShint(q, p) = AssertionFails
    BY <2>1 DEF FromShint, Asserting
  <2>3. o = AssertionFails
    BY <1>8, <2>2 DEF FinishedIfOk, AssertionFails, Returns
  <2>4. QED
    BY <1>1, <1>2, <1>3, <1>4, <1>9, <2>3
<1>10. ASSUME c # 0 PROVE GoodPrec(o, s * c, -MAX_DEC_PREC_FOR_SHINT, p)
  <2>1. c \in Nat \ {0} /\ c < SHINT_LIMIT
    BY <1>3, <1>4, <1>10
  <2>2. PICK d : d = du64_to_digits(c, m)
    OBVIOUS
  <2>3. PICK sg \in Int : sg = s
    OBVIOUS
  <2>4. /\ Stripped(d) /\ d.exp \in -1 .. 1 /\ d.n + d.exp =< 2
        /\ Canonical(sg * d.coeff, d.exp * DEC_DIGITS_PER_DIGIT) = Canonical(sg * c, -m)
    BY <2>1, <2>2, ShintDigits
  <2>5. PICK a : a = [Dyn(s, m, d.coeff, d.n, d.exp) EXCEPT !.dec_prec = p]
    OBVIOUS
  <2>6. d.exp \in -1 .. 2 /\ d.n + d.exp =< 3
    BY <2>4 DEF Stripped
  <2>7. Canonical(s * d.coeff, Place(d.exp)) = Canonical(s * c, -m)
    BY <2>3, <2>4 DEF Place
  <2>8. PICK j \in Nat : j = m /\ j =< p
    BY <1>5, Limits
  <2>9. GoodPrec(fpdec_dyn_normalize(a), s * c, -j, p)
    <3>1. a.sign = s /\ a.dec_prec = p /\ a.coeff = d.coeff /\ a.exp = d.exp
      BY <2>5 DEF Dyn
    <3>2. QED
      BY <2>1, <2>4, <2>6, <2>7, <2>8, <3>1, ThreeDigits
  <2>10. FromShint(q, p) = Ok(a)
    <3>1. Convertible(q)
      BY <1>7, <1>10 DEF Convertible
    <3>2. AsDyn(q) = Dyn(s, m, d.coeff, d.n, d.exp)
      BY <1>7, <2>2 DEF AsDyn, DigitsOf
    <3>3. [AsDyn(q) EXCEPT !.dec_prec = p] = a
      BY <2>5, <3>2
    <3>4. QED
      BY <3>1, <3>3 DEF FromShint, Asserting
  <2>11. a.dyn = TRUE
    BY <2>5 DEF Dyn
  <2>12. o = fpdec_dyn_normalize(a)
    BY <1>8, <2>10, <2>11 DEF FinishedIfOk, Finished, Ok, Returns
  <2>13. QED
    BY <1>5, <2>8, <2>9, <2>12
<1>11. QED
  BY <1>1, <1>2, <1>3, <1>4, <1>9, <1>10

(* No limit and no shift: the precision -1 gets into an uint16_t. *)
LEMMA LostU128 ==
  ASSUME NEW s \in {-1, 1}, NEW v \in Nat \ {0}, v < SHINT_LIMIT, NEW w \in Nat \ {0}, v % w = 0,
         NEW shift \in Int, ~(shift > 0), NEW mode, NEW prec, prec = -1,
         NEW o, o = FinishedIfOk(div_u128(s, v, w, shift, prec, mode))
  PROVE  o.rc = "OK" /\ RestInForm(o.v, TRUE)
<1>1. PICK k \in Nat : k = v \div w /\ v = k * w + 0
  BY QuotientAndRest
<1>2. k < SHINT_LIMIT
  <2>1. PICK u \in Nat : w = 1 + u
    <3>1. w - 1 \in Nat /\ w = 1 + (w - 1)
      OBVIOUS
    <3>2. QED
      BY <3>1
  <2>2. k * (1 + u) = k + k * u /\ k * u \in Nat
    BY <1>1
  <2>3. QED
    BY <1>1, <2>1, <2>2, Limits
<1>3. PICK g : g = [dec_prec |-> -1, coeff |-> k]
  OBVIOUS
<1>4. div_u128(s, v, w, shift, -1, mode) = FromU128(s, g)
  <2>1. ~(-1 > MAX_DEC_PREC_FOR_SHINT)
    BY Limits
  <2>2. QED
    BY <1>1, <1>3, <2>1 DEF div_u128
<1>5. PICK p \in 0 .. FPDEC_MAX_DEC_PREC : p = AsDecPrec(-1)
  BY AsDecPrecFacts
<1>6. FromU128(s, g) = Ok(Shint(s, p, k))
  BY <1>2, <1>3, <1>5 DEF FromU128
<1>7. PICK q : q = Shint(s, p, k)
  OBVIOUS
<1>8. o = Finished(q)
  BY <1>4, <1>6, <1>7 DEF FinishedIfOk, Ok, Returns
<1>9. Remains(Finished(q), s, k, -p) /\ RestInForm(Finished(q).v, TRUE)
  BY <1>2, <1>7, StoredRest
<1>10. QED
  BY <1>8, <1>9 DEF Remains

(***************************************************************************)
(* What a limited division rounds: a fraction that is the quotient of the  *)
(* numbers, in units of its last place.                                    *)
(***************************************************************************)
(* n / m = c 10^f / (d 10^g) * 10^prec. *)
SameQuotient(n, m, c, f, d, g, prec) == Canonical(n * d, g) = Canonical(m * c, f + prec)

(* s v 10^e is the canonical s w 10^k. *)
ReducedTo(s, v, e, w, k, i) ==
  Canonical(s * v, e) = << s * w, k >> /\ k = e + i /\ v = w * Power(10, i)

RoundsQuotient(v, s, n, m, prec, mode) == v = Canonical(s * Rounded(s, n, m, mode), -prec)

LEMMA EqualFractions ==
  ASSUME NEW n \in Nat, NEW m \in Nat \ {0}, NEW i \in Nat, NEW j \in Nat \ {0}, n * j = m * i,
         NEW s, NEW mode
  PROVE  Rounded(s, n, m, mode) = Rounded(s, i, j, mode)
<1>1. Rounded(s, n * j, m * j, mode) = Rounded(s, n, m, mode)
  BY RoundedScaled
<1>2. Rounded(s, i * m, j * m, mode) = Rounded(s, i, j, mode)
  BY RoundedScaled
<1>3. n * j = i * m /\ m * j = j * m
  OBVIOUS
<1>4. QED
  BY <1>1, <1>2, <1>3

LEMMA QuotientOfNumbers ==
  ASSUME NEW s \in {-1, 1}, NEW t \in {-1, 1}, NEW c \in Nat \ {0}, NEW d \in Nat \ {0},
         NEW f \in Int, NEW g \in Int, NEW prec \in Int, NEW n \in Nat, NEW m \in Nat \ {0},
         SameQuotient(n, m, c, f, d, g, prec), NEW mode
  PROVE  RoundsQuotient(RoundedQuotient(Canonical(s * c, f), Canonical(t * d, g), prec, mode),
                        s * t, n, m, prec, mode)
<1>1. ASSUME NEW sg \in {-1, 1}, NEW v \in Nat \ {0}, NEW e \in Int
      PROVE  \E w \in Nat \ {0}, k \in Int, i \in Nat : ReducedTo(sg, v, e, w, k, i)
  <2>1. PICK a \in Int : a = sg * v /\ a # 0
    OBVIOUS
  <2>2. PICK b \in Int, k \in Int : /\ Canonical(a, e) = << b, k >>
                                    /\ b % 10 # 0 /\ e =< k /\ a = b * Power(10, k - e)
    BY <2>1, CanonicalFacts
  <2>3. PICK i \in Nat : i = k - e /\ k = e + i
    <3>1. k - e \in Nat /\ k = e + (k - e)
      BY <2>2
    <3>2. QED
      BY <3>1
  <2>4. PICK p \in Nat \ {0} : p = Power(10, i)
    BY PowersOf10
  <2>5. PICK w \in Int : w = sg * b /\ b = sg * w
    BY <2>2
  <2>6. v = w * p
    <3>1. sg * v = b * p
      BY <2>1, <2>2, <2>3, <2>4
    <3>2. sg * (sg * v) = v /\ sg * (b * p) = (sg * b) * p
      OBVIOUS
    <3>3. QED
      BY <2>5, <3>1, <3>2
  <2>7. w \in Nat \ {0}
    <3>1. ASSUME w =< 0 PROVE FALSE
      <4>1. PICK h \in Nat : w = -h
        <5>1. -w \in Nat /\ w = -(-w)
          BY <3>1
        <5>2. QED
          BY <5>1
      <4>2. (-h) * p = -(h * p) /\ h * p \in Nat
        OBVIOUS
      <4>3. QED
        BY <2>6, <4>1, <4>2
    <3>2. QED
      BY <3>1
  <2>8. QED
    <3>1. ReducedTo(sg, v, e, w, k, i)
      BY <2>1, <2>2, <2>3, <2>4, <2>5, <2>6 DEF ReducedTo
    <3>2. QED
      BY <2>7, <3>1
<1>2. PICK c1 \in Nat \ {0}, f1 \in Int, i \in Nat :
        /\ Canonical(s * c, f) = << s * c1, f1 >>
        /\ f1 = f + i /\ c = c1 * Power(10, i)
  <2>1. PICK c1 \in Nat \ {0}, f1 \in Int, i \in Nat : ReducedTo(s, c, f, c1, f1, i)
    BY <1>1
  <2>2. QED
    BY <2>1 DEF ReducedTo
<1>3. PICK d1 \in Nat \ {0}, g1 \in Int, j \in Nat :
        /\ Canonical(t * d, g) = << t * d1, g1 >>
        /\ g1 = g + j /\ d = d1 * Power(10, j)
  <2>1. PICK d1 \in Nat \ {0}, g1 \in Int, j \in Nat : ReducedTo(t, d, g, d1, g1, j)
    BY <1>1
  <2>2. QED
    BY <2>1 DEF ReducedTo
<1>4. Canonical(n * d1, g1) = Canonical(m * c1, f1 + prec)
  <2>1. PICK p \in Nat \ {0}, q \in Nat \ {0} : p = Power(10, i) /\ q = Power(10, j)
    BY PowersOf10
  <2>2. PICK u \in Int, v \in Int, h \in Int : u = n * d1 /\ v = m * c1 /\ h = f + prec
    OBVIOUS
  <2>3. Canonical(u * Power(10, j), g) = Canonical(u, g + j)
    BY CanonicalScale
  <2>4. Canonical(v * Power(10, i), h) = Canonical(v, h + i)
    BY CanonicalScale
  <2>5. u * q = n * d
    <3>1. (n * d1) * q = n * (d1 * q)
      OBVIOUS
    <3>2. QED
      BY <1>3, <2>1, <2>2, <3>1
  <2>6. v * p = m * c
    <3>1. (m * c1) * p = m * (c1 * p)
      OBVIOUS
    <3>2. QED
      BY <1>2, <2>1, <2>2, <3>1
  <2>7. h + i = f1 + prec /\ g + j = g1
    BY <1>2, <1>3, <2>2
  <2>8. Canonical(n * d, g) = Canonical(m * c, f + prec)
    BY DEF SameQuotient
  <2>9. Canonical(u, g1) = Canonical(n * d, g) /\ Canonical(v, f1 + prec) = Canonical(m * c, f + prec)
    BY <2>1, <2>2, <2>3, <2>4, <2>5, <2>6, <2>7
  <2>10. QED
    BY <2>2, <2>8, <2>9
<1>5. PICK e \in Int : e = f1 - g1 + prec
  OBVIOUS
<1>6. PICK k \in Nat, l \in Nat : k = MAX(0, e) /\ l = MAX(0, -e) /\ k - l = e /\ (k = 0 \/ l = 0)
  BY DEF MAX
<1>7. PICK p \in Nat \ {0}, q \in Nat \ {0} : p = Power(10, k) /\ q = Power(10, l)
  BY PowersOf10
<1>8. (n * d1) * q = (m * c1) * p
  <2>1. PICK u \in Int, v \in Int, h \in Int : u = n * d1 /\ v = m * c1 /\ h = g1 - l
    OBVIOUS
  <2>2. Canonical(u * Power(10, l), h) = Canonical(u, h + l)
    BY <2>1, CanonicalScale
  <2>3. Canonical(v * Power(10, k), h) = Canonical(v, h + k)
    BY <2>1, CanonicalScale
  <2>4. h + l = g1 /\ h + k = f1 + prec
    BY <1>5, <1>6, <2>1
  <2>5. Canonical(u * q, h) = Canonical(v * p, h)
    BY <1>4, <1>7, <2>1, <2>2, <2>3, <2>4
  <2>6. u * q \in Int /\ v * p \in Int
    OBVIOUS
  <2>7. u * q = v * p
    BY <2>5, <2>6, CanonicalInjective
  <2>8. QED
    BY <2>1, <2>7
<1>9. PICK a : a = << s * c1, f1 >>
  OBVIOUS
<1>10. PICK b : b = << t * d1, g1 >>
  OBVIOUS
<1>11. PICK sg \in {-1, 1} : sg = s * t
  OBVIOUS
<1>12. RoundedQuotient(a, b, prec, mode) = Canonical(sg * Rounded(sg, c1 * p, d1 * q, mode), -prec)
  <2>1. a[1] = s * c1 /\ a[2] = f1 /\ b[1] = t * d1 /\ b[2] = g1
    BY <1>9, <1>10
  <2>2. CMP(s * c1, 0) = s /\ ABS(s * c1) = c1 /\ CMP(t * d1, 0) = t /\ ABS(t * d1) = d1
    BY DEF CMP, ABS
  <2>3. a[2] - b[2] + prec = e
    BY <1>5, <2>1
  <2>4. QED
    BY <1>6, <1>7, <1>11, <2>1, <2>2, <2>3 DEF RoundedQuotient
<1>13. Rounded(sg, c1 * p, d1 * q, mode) = Rounded(sg, n, m, mode)
  <2>1. PICK u \in Nat, v \in Nat \ {0} : u = c1 * p /\ v = d1 * q
    OBVIOUS
  <2>2. n * v = m * u
    <3>1. (n * d1) * q = n * (d1 * q) /\ (m * c1) * p = m * (c1 * p)
      OBVIOUS
    <3>2. QED
      BY <1>8, <2>1, <3>1
  <2>3. Rounded(sg, n, m, mode) = Rounded(sg, u, v, mode)
    BY <2>2, EqualFractions
  <2>4. QED
    BY <2>1, <2>3
<1>14. QED
  BY <1>2, <1>3, <1>9, <1>10, <1>11, <1>12, <1>13 DEF RoundsQuotient

LEMMA WideDecision ==
  ASSUME NEW s, NEW k \in Nat, NEW w \in Nat \ {0}, NEW m \in Nat \ {0}, m < w, NEW mode,
         mode = "05UP" => k < U64
  PROVE  round_u128(s, k, m, w, mode) <=> Away(s, k, m, w, mode)
<1>1. PICK j \in Nat : j = k % U64 /\ (j % 2 # 0 <=> k % 2 = 1)
  BY LowWord DEF LowWordIs
<1>2. mode = "05UP" => (j % 5 = 0 <=> k % 10 \in {0, 5})
  BY <1>1, LowWord DEF LowWordIs
<1>3. PICK tie \in Nat : tie = w \div 2 /\ (m > tie <=> 2 * m > w) /\ (m = tie /\ w % 2 = 0 <=> 2 * m = w)
  OBVIOUS
<1>4. round_u128(s, k, m, w, mode) <=>
        \/ mode = "05UP" /\ j % 5 = 0
        \/ mode = "CEILING" /\ s >= 0
        \/ mode = "FLOOR" /\ s < 0
        \/ mode = "HALF_DOWN" /\ m > tie
        \/ mode = "HALF_EVEN" /\ (m > tie \/ (m = tie /\ w % 2 = 0 /\ j % 2 # 0))
        \/ mode = "HALF_UP" /\ (m > tie \/ (m = tie /\ w % 2 = 0))
        \/ mode = "UP"
  BY <1>1, <1>3, Zenon DEF round_u128
<1>5. Away(s, k, m, w, mode) <=>
        \/ mode = "UP"
        \/ mode = "CEILING" /\ s >= 0
        \/ mode = "FLOOR" /\ s < 0
        \/ mode = "05UP" /\ j % 5 = 0
        \/ mode \in {"HALF_DOWN", "HALF_EVEN", "HALF_UP"} /\ m > tie
        \/ mode = "HALF_UP" /\ m = tie /\ w % 2 = 0
        \/ mode = "HALF_EVEN" /\ m = tie /\ w % 2 = 0 /\ j % 2 # 0
  BY <1>1, <1>2, <1>3, Zenon DEF Away
<1>6. QED
  BY <1>4, <1>5, Zenon

(***************************************************************************)
(* Two shifted ints, scaled for a quotient with a precision.               *)
(***************************************************************************)
ShintPrec(prec) == IF prec = -1 THEN MAX_DEC_PREC_FOR_SHINT ELSE MIN(prec, MAX_DEC_PREC_FOR_SHINT)

(* A shifted int that is not 0. *)
ShintIs(a, s, c, p) ==
  /\ a.dyn = FALSE /\ a.sign = s /\ a.coeff = c /\ a.dec_prec = p
  /\ s \in {-1, 1} /\ c \in Nat \ {0} /\ c < SHINT_LIMIT /\ p \in 0 .. MAX_DEC_PREC_FOR_SHINT
  /\ Number(a) = Canonical(s * c, -p)

LEMMA ShintFields ==
  ASSUME NEW a, Operand(a), a.sign # 0, a.dyn = FALSE
  PROVE  ShintIs(a, a.sign, a.coeff, a.dec_prec)
<1>1. a.sign \in -1 .. 1 /\ a.coeff \in Nat /\ a.dec_prec \in 0 .. FPDEC_MAX_DEC_PREC
  BY DEF Operand, Decimals
<1>2. a.coeff # 0 /\ a.coeff < SHINT_LIMIT /\ a.dec_prec =< MAX_DEC_PREC_FOR_SHINT
  BY DEF Operand, WellFormed
<1>3. Number(a) = Canonical(a.sign * a.coeff, -a.dec_prec)
  BY DEF Number
<1>4. QED
  BY <1>1, <1>2, <1>3, Limits DEF ShintIs

ScaledIs(a, b, prec, shift, v, w) ==
  /\ shift \in Int /\ shift = DivShift(a, b, prec) /\ shift = ShintPrec(prec) - a.dec_prec + b.dec_prec
  /\ v = ScaledDividend(a, shift) /\ v \in Nat \ {0} /\ v < U128
  /\ w = ScaledDivisor(b, shift) /\ w \in Nat \ {0}
  /\ ~(shift > 0) => v = a.coeff

(* The scaled dividend has not wrapped around. *)
NotWrapped(a, shift, v) == shift > 0 => v = a.coeff * Power(10, shift)

LEMMA ScaledShints ==
  ASSUME NEW a, NEW s, NEW c, NEW p, ShintIs(a, s, c, p), NEW b, NEW t, NEW d, NEW q, ShintIs(b, t, d, q),
         NEW prec \in -1 .. FPDEC_MAX_DEC_PREC
  PROVE  LET shift == DivShift(a, b, prec)
         IN  ScaledIs(a, b, prec, shift, ScaledDividend(a, shift), ScaledDivisor(b, shift))
<1>1. PICK m \in Nat : m = MAX_DEC_PREC_FOR_SHINT
  BY Limits
<1>2. PICK g \in 0 .. m : g = ShintPrec(prec)
  BY <1>1, Limits DEF ShintPrec, MIN
<1>3. p \in 0 .. m /\ q \in 0 .. m /\ c \in Nat \ {0} /\ d \in Nat \ {0} /\ c < SHINT_LIMIT
      /\ a.coeff = c /\ a.dec_prec = p /\ b.coeff = d /\ b.dec_prec = q
  BY <1>1 DEF ShintIs
<1>4. PICK shift \in Int : shift = DivShift(a, b, prec) /\ shift = g - p + q /\ shift =< 2 * m
  <2>1. DivShift(a, b, prec) = ShintPrec(prec) - a.dec_prec + b.dec_prec
    BY DEF DivShift, ShintPrec
  <2>2. g - p + q \in Int /\ g - p + q =< 2 * m
    BY <1>2, <1>3
  <2>3. QED
    BY <1>2, <1>3, <2>1, <2>2
<1>5. PICK v : v = ScaledDividend(a, shift)
  OBVIOUS
<1>6. v \in Nat \ {0} /\ v < U128 /\ (~(shift > 0) => v = c)
  <2>1. ASSUME shift > 0 PROVE v \in Nat \ {0} /\ v < U128
    <3>1. PICK n \in Nat \ {0} : n = shift /\ n =< 2 * MAX_DEC_PREC_FOR_SHINT
      BY <1>1, <1>4, <2>1
    <3>2. PICK u : u = u128_imul_u64(c, u64_10_pow_n(n))
      OBVIOUS
    <3>3. u \in Nat \ {0} /\ u < U128
      BY <1>3, <3>1, <3>2, ProductIsPositive
    <3>4. v = u
      BY <1>3, <1>5, <2>1, <3>1, <3>2 DEF ScaledDividend
    <3>5. QED
      BY <3>3, <3>4
  <2>2. ASSUME ~(shift > 0) PROVE v = c
    BY <1>3, <1>5, <2>2 DEF ScaledDividend
  <2>3. c < U128
    BY <1>3, Limits, Words128
  <2>4. QED
    BY <1>3, <2>1, <2>2, <2>3
<1>7. PICK w : w = ScaledDivisor(b, shift)
  OBVIOUS
<1>8. w \in Nat \ {0}
  <2>1. PICK n \in Nat : n = MAX(0, -shift)
    BY DEF MAX
  <2>2. PICK u \in Nat \ {0} : u = Power(10, n)
    BY PowersOf10
  <2>3. w = d * u
    BY <1>3, <1>7, <2>1, <2>2 DEF ScaledDivisor, u64_10_pow_n
  <2>4. QED
    BY <1>3, <2>3
<1>9. QED
  BY <1>2, <1>3, <1>4, <1>5, <1>6, <1>7, <1>8 DEF ScaledIs

LEMMA ScaledQuotient ==
  ASSUME NEW a, NEW s, NEW c, NEW p, ShintIs(a, s, c, p), NEW b, NEW t, NEW d, NEW q, ShintIs(b, t, d, q),
         NEW prec \in Int, NEW shift, NEW v, NEW w, ScaledIs(a, b, prec, shift, v, w), NotWrapped(a, shift, v)
  PROVE  SameQuotient(v, w, c, -p, d, -q, ShintPrec(prec))
<1>1. c \in Nat \ {0} /\ d \in Nat \ {0} /\ a.coeff = c /\ a.dec_prec = p /\ b.coeff = d /\ b.dec_prec = q
      /\ p \in Int /\ q \in Int
  BY Limits DEF ShintIs
<1>2. PICK g \in Int : g = ShintPrec(prec) /\ shift = g - p + q
  <2>1. shift \in Int /\ shift = ShintPrec(prec) - p + q
    BY <1>1 DEF ScaledIs
  <2>2. ShintPrec(prec) \in Int
    BY <1>1, Limits DEF ShintPrec, MIN
  <2>3. QED
    BY <2>1, <2>2
<1>3. PICK u \in Int : u = c * d
  BY <1>1
<1>4. CASE shift > 0
  <2>1. PICK n \in Nat : n = shift
    BY <1>2, <1>4
  <2>2. PICK h \in Nat \ {0} : h = Power(10, n)
    BY PowersOf10
  <2>3. v = c * h
    BY <1>1, <1>4, <2>1, <2>2 DEF NotWrapped
  <2>4. w = d
    <3>1. MAX(0, -shift) = 0
      BY <1>2, <1>4 DEF MAX
    <3>2. Power(10, 0) = 1
      BY PowerZero
    <3>3. QED
      BY <1>1, <3>1, <3>2 DEF ScaledIs, ScaledDivisor, u64_10_pow_n
  <2>5. PICK f \in Int : f = -q
    BY <1>1
  <2>6. Canonical(u * Power(10, n), f) = Canonical(u, f + n)
    BY CanonicalScale
  <2>7. v * d = u * h
    <3>1. (c * h) * d = (c * d) * h
      BY <1>1
    <3>2. QED
      BY <1>3, <2>3, <3>1
  <2>8. w * c = u
    BY <1>1, <1>3, <2>4
  <2>9. f + n = -p + g
    BY <1>1, <1>2, <2>1, <2>5
  <2>10. QED
    BY <1>2, <2>2, <2>5, <2>6, <2>7, <2>8, <2>9 DEF SameQuotient
<1>5. CASE ~(shift > 0)
  <2>1. PICK n \in Nat : n = -shift /\ n = MAX(0, -shift)
    BY <1>2, <1>5 DEF MAX
  <2>2. PICK h \in Nat \ {0} : h = Power(10, n)
    BY PowersOf10
  <2>3. v = c
    BY <1>1, <1>5 DEF ScaledIs
  <2>4. w = d * h
    BY <1>1, <2>1, <2>2 DEF ScaledIs, ScaledDivisor, u64_10_pow_n
  <2>5. PICK f \in Int : f = -p + g
    BY <1>1
  <2>6. Canonical(u * Power(10, n), f) = Canonical(u, f + n)
    BY CanonicalScale
  <2>7. v * d = u
    BY <1>3, <2>3
  <2>8. w * c = u * h
    <3>1. (d * h) * c = (c * d) * h
      BY <1>1
    <3>2. QED
      BY <1>3, <2>4, <3>1
  <2>9. f + n = -q
    BY <1>1, <1>2, <2>1, <2>5
  <2>10. QED
    BY <1>2, <2>2, <2>5, <2>6, <2>7, <2>8, <2>9 DEF SameQuotient
<1>6. QED
  BY <1>4, <1>5

(* A fraction that is an integer is the quotient, to any greater precision. *)
SameAmount(n, i, m, j) == Canonical(n, i) = Canonical(m, j)
EqualProducts(n, m, w, g, f, i, j) == Canonical(n * w, g) = Canonical(m * w, f) /\ j - i = f - g
MultipleIs(n, k, w) == n = k * w

LEMMA EqualAmounts ==
  ASSUME NEW n \in Nat, NEW m \in Nat, NEW w \in Nat \ {0}, NEW f \in Int, NEW g \in Int,
         NEW i1 \in Int, NEW j1 \in Int, EqualProducts(n, m, w, g, f, i1, j1)
  PROVE  SameAmount(n, i1, m, j1)
<1>1. PICK h \in Int, i \in Nat, j \in Nat : h + i = g /\ h + j = f
  <2>1. CASE g =< f
    <3>1. f - g \in Nat /\ g + 0 = g /\ g + (f - g) = f
      BY <2>1
    <3>2. QED
      BY <3>1
  <2>2. CASE ~(g =< f)
    <3>1. g - f \in Nat /\ f + 0 = f /\ f + (g - f) = g
      BY <2>2
    <3>2. QED
      BY <3>1
  <2>3. QED
    BY <2>1, <2>2
<1>2. PICK p \in Nat \ {0}, q \in Nat \ {0} : p = Power(10, i) /\ q = Power(10, j)
  BY PowersOf10
<1>3. PICK u \in Int, v \in Int : u = n * w /\ v = m * w
  OBVIOUS
<1>4. Canonical(u * Power(10, i), h) = Canonical(u, h + i) /\ Canonical(v * Power(10, j), h) = Canonical(v, h + j)
  <2>1. Canonical(u * Power(10, i), h) = Canonical(u, h + i)
    BY CanonicalScale
  <2>2. Canonical(v * Power(10, j), h) = Canonical(v, h + j)
    BY CanonicalScale
  <2>3. QED
    BY <2>1, <2>2
<1>5. Canonical(u * p, h) = Canonical(v * q, h)
  BY <1>1, <1>2, <1>3, <1>4 DEF EqualProducts
<1>6. u * p = v * q
  <2>1. u * p \in Int /\ v * q \in Int
    OBVIOUS
  <2>2. QED
    BY <1>5, <2>1, CanonicalInjective
<1>7. n * p = m * q
  <2>1. (n * w) * p = (n * p) * w /\ (m * w) * q = (m * q) * w
    OBVIOUS
  <2>2. (n * p) * w = (m * q) * w
    BY <1>3, <1>6, <2>1
  <2>3. PICK a \in Nat, b \in Nat : a = n * p /\ b = m * q
    OBVIOUS
  <2>4. ASSUME NEW a1 \in Nat, NEW b1 \in Nat, a1 < b1 PROVE a1 * w < b1 * w
    <3>1. PICK z1 \in Nat \ {0} : b1 = a1 + z1
      <4>1. b1 - a1 \in Nat \ {0} /\ b1 = a1 + (b1 - a1)
        BY <2>4
      <4>2. QED
        BY <4>1
    <3>2. (a1 + z1) * w = a1 * w + z1 * w /\ z1 * w \in Nat \ {0} /\ a1 * w \in Nat
      OBVIOUS
    <3>3. QED
      BY <3>1, <3>2
  <2>5. ~(a < b) /\ ~(b < a)
    <3>1. a * w = b * w /\ a * w \in Nat
      BY <2>2, <2>3
    <3>2. QED
      BY <2>4, <3>1
  <2>6. QED
    BY <2>3, <2>5
<1>8. PICK l \in Int : l = h + (i1 - g)
  OBVIOUS
<1>9. Canonical(n * Power(10, i), l) = Canonical(n, l + i) /\ Canonical(m * Power(10, j), l) = Canonical(m, l + j)
  <2>1. PICK n1 \in Int, m1 \in Int : n1 = n /\ m1 = m
    OBVIOUS
  <2>2. Canonical(n1 * Power(10, i), l) = Canonical(n1, l + i)
    BY CanonicalScale
  <2>3. Canonical(m1 * Power(10, j), l) = Canonical(m1, l + j)
    BY CanonicalScale
  <2>4. QED
    BY <2>1, <2>2, <2>3
<1>10. l + i = i1 /\ l + j = j1
  BY <1>1, <1>8 DEF EqualProducts
<1>11. QED
  BY <1>2, <1>7, <1>9, <1>10 DEF SameAmount

(* k 10^-e is the quotient, and what it is rounded to. *)
IsExactQuotient(s, t, c, d, f, g, e, k) ==
  /\ Times(Canonical((s * t) * k, -e), Canonical(t * d, g)) = Canonical(s * c, f)
  /\ \A prec \in Int : \A mode : prec >= e =>
       RoundedQuotient(Canonical(s * c, f), Canonical(t * d, g), prec, mode)
         = Canonical((s * t) * k, -e)

LEMMA ExactQuotientIs ==
  ASSUME NEW s \in {-1, 1}, NEW t \in {-1, 1}, NEW c \in Nat \ {0}, NEW d \in Nat \ {0},
         NEW f \in Int, NEW g \in Int, NEW e \in Int, NEW k \in Nat, NEW w \in Nat \ {0},
         NEW n \in Nat, MultipleIs(n, k, w), SameQuotient(n, w, c, f, d, g, e)
  PROVE  IsExactQuotient(s, t, c, d, f, g, e, k)
<1>1. PICK h \in Int, i \in Nat : h = f + e /\ i = k * d
  OBVIOUS
<1>2. c \in Nat /\ Canonical(i * w, g) = Canonical(c * w, h)
  <2>1. n * d = i * w /\ w * c = c * w
    <3>1. (k * w) * d = (k * d) * w
      OBVIOUS
    <3>2. QED
      BY <1>1, <3>1 DEF MultipleIs
  <2>2. QED
    BY <1>1, <2>1 DEF SameQuotient
<1>3. Canonical(i, g - e) = Canonical(c, f)
  <2>1. PICK c1 \in Nat : c1 = c /\ Canonical(i * w, g) = Canonical(c1 * w, h)
    BY <1>2
  <2>2. PICK u \in Int : u = g - e
    OBVIOUS
  <2>3. SameAmount(i, u, c1, f)
    <3>1. EqualProducts(i, c1, w, g, h, u, f)
      BY <1>1, <2>1, <2>2 DEF EqualProducts
    <3>2. QED
      BY <3>1, EqualAmounts
  <2>4. QED
    BY <2>1, <2>2, <2>3 DEF SameAmount
<1>4. Times(Canonical((s * t) * k, -e), Canonical(t * d, g)) = Canonical(s * c, f)
  <2>1. PICK a \in Int, b \in Int, l \in Int : a = (s * t) * k /\ b = t * d /\ l = -e
    OBVIOUS
  <2>2. Times(Canonical(a, l), Canonical(b, g)) = Canonical(a * b, l + g)
    BY CanonicalTimes
  <2>3. a * b = s * i
    <3>1. ((s * t) * k) * (t * d) = s * (k * d)
      <4>1. CASE t = 1
        <5>1. ((s * 1) * k) * (1 * d) = s * (k * d)
          OBVIOUS
        <5>2. QED
          BY <4>1, <5>1
      <4>2. CASE t = -1
        <5>1. ((s * (-1)) * k) * ((-1) * d) = s * (k * d)
          OBVIOUS
        <5>2. QED
          BY <4>2, <5>1
      <4>3. QED
        BY <4>1, <4>2
    <3>2. QED
      BY <1>1, <2>1, <3>1
  <2>4. l + g = g - e
    BY <2>1
  <2>5. Canonical(s * i, g - e) = Canonical(s * c, f)
    <3>1. CASE s = 1
      <4>1. s * i = i /\ s * c = c
        BY <3>1
      <4>2. QED
        BY <1>3, <4>1
    <3>2. CASE s = -1
      <4>1. PICK x1 \in Int, y1 \in Int, u \in Int : x1 = i /\ y1 = c /\ u = g - e
        OBVIOUS
      <4>2. Minus(Canonical(x1, u)) = Canonical(-x1, u) /\ Minus(Canonical(y1, f)) = Canonical(-y1, f)
        BY CanonicalMinus
      <4>3. -x1 = s * i /\ -y1 = s * c
        BY <3>2, <4>1
      <4>4. QED
        BY <1>3, <4>1, <4>2, <4>3
    <3>3. QED
      BY <3>1, <3>2
  <2>6. QED
    BY <2>1, <2>2, <2>3, <2>4, <2>5
<1>5. ASSUME NEW prec \in Int, NEW mode, prec >= e
      PROVE  RoundedQuotient(Canonical(s * c, f), Canonical(t * d, g), prec, mode)
               = Canonical((s * t) * k, -e)
  <2>1. PICK j \in Nat : j = prec - e /\ prec = e + j
    <3>1. prec - e \in Nat /\ prec = e + (prec - e)
      BY <1>5
    <3>2. QED
      BY <3>1
  <2>2. PICK p \in Nat \ {0} : p = Power(10, j)
    BY PowersOf10
  <2>3. PICK m \in Nat, l \in Nat : m = n * p /\ l = k * p
    OBVIOUS
  <2>4. m = l * w
    <3>1. (k * w) * p = (k * p) * w
      OBVIOUS
    <3>2. QED
      BY <2>3, <3>1 DEF MultipleIs
  <2>5. SameQuotient(m, w, c, f, d, g, prec)
    <3>1. PICK u \in Int, v \in Int : u = n * d /\ v = w * c
      OBVIOUS
    <3>2. Canonical(u, g) = Canonical(v, h)
      BY <1>1, <3>1 DEF SameQuotient
    <3>3. PICK v1 \in Nat, w1 \in Nat, one \in Nat \ {0} : v1 = u /\ w1 = v /\ one = 1
      BY <3>1
    <3>4. v1 * one = u /\ w1 * one = v
      BY <3>3
    <3>5. PICK g2 \in Int, h2 \in Int : g2 = g + j /\ h2 = f + prec
      OBVIOUS
    <3>6. SameAmount(v1, g2, w1, h2)
      <4>1. EqualProducts(v1, w1, one, g, h, g2, h2)
        BY <1>1, <2>1, <3>2, <3>4, <3>5 DEF EqualProducts
      <4>2. QED
        BY <4>1, EqualAmounts
    <3>7. Canonical(u * Power(10, j), g) = Canonical(u, g + j)
      BY CanonicalScale
    <3>9. u * p = m * d
      <4>1. (n * d) * p = (n * p) * d
        OBVIOUS
      <4>2. QED
        BY <2>3, <3>1, <4>1
    <3>10. QED
      BY <2>2, <3>1, <3>3, <3>5, <3>6, <3>7, <3>9 DEF SameAmount, SameQuotient
  <2>6. RoundsQuotient(RoundedQuotient(Canonical(s * c, f), Canonical(t * d, g), prec, mode),
                       s * t, m, w, prec, mode)
    BY <2>5, QuotientOfNumbers
  <2>7. Rounded(s * t, m, w, mode) = l
    BY <2>3, <2>4, RoundedExact
  <2>8. Canonical((s * t) * l, -prec) = Canonical((s * t) * k, -e)
    <3>1. PICK u \in Int, v \in Int : u = (s * t) * k /\ v = -prec
      OBVIOUS
    <3>2. Canonical(u * Power(10, j), v) = Canonical(u, v + j)
      BY CanonicalScale
    <3>3. u * p = (s * t) * l
      <4>1. ((s * t) * k) * p = (s * t) * (k * p)
        OBVIOUS
      <4>2. QED
        BY <2>3, <3>1, <4>1
    <3>4. v + j = -e
      BY <2>1, <3>1
    <3>5. QED
      BY <2>2, <3>1, <3>2, <3>3, <3>4
  <2>9. QED
    BY <2>6, <2>7, <2>8 DEF RoundsQuotient
<1>6. QED
  BY <1>4, <1>5 DEF IsExactQuotient

(* What a division has to give. *)
ExactlyDivides(o, a, b) == Times(Number(o.v), Number(b)) = Number(a)

RoundsDivision(o, a, b, prec, mode) ==
  Number(o.v) = RoundedQuotient(Number(a), Number(b), prec, mode) /\ o.v.dec_prec = prec

(* All combinations of limits, where the quotient is an u128_t. *)
U128Outcome(o, a, b, prec, mode, shift, v, w) ==
  /\ o.v \in Decimals /\ o.rc \in {"OK", "ABORT"}
  /\ o.rc = "ABORT" => prec > MAX_DEC_PREC_FOR_SHINT /\ v \div w >= SHINT_LIMIT
  /\ o.rc = "OK" => RestInForm(o.v, TRUE)
  /\ o.rc = "OK" /\ ~(prec = -1 /\ ~(shift > 0)) => WellFormed(o.v)
  /\ o.rc = "OK" /\ prec = -1 /\ shift > 0 /\ NotWrapped(a, shift, v) => ExactlyDivides(o, a, b)
  /\ o.rc = "OK" /\ prec = -1 /\ shift > 0 => IsConcise(o.v, a.dec_prec - b.dec_prec)
  /\ /\ o.rc = "OK" /\ prec >= 0 /\ NotWrapped(a, shift, v)
     /\ ~(prec > MAX_DEC_PREC_FOR_SHINT /\ v \div w >= SHINT_LIMIT)
     /\ ~(mode = "05UP" /\ v \div w >= U64)
     => RoundsDivision(o, a, b, prec, mode)

LEMMA GoodInForm ==
  ASSUME NEW o, NEW m, NEW e, Good(o, m, e)
  PROVE  o.v \in Decimals /\ o.rc = "OK" /\ RestInForm(o.v, TRUE) /\ WellFormed(o.v) /\ Number(o.v) = Canonical(m, e)
BY OperandInForm DEF Good, Operand

(* v / w = k + m / w is rounded to k or k + 1. *)
RoundsTo(s, v, w, k, m, mode) ==
  Rounded(s, v, w, mode) = k + (IF Away(s, k, m, w, mode) THEN 1 ELSE 0)

LEMMA RoundedUp ==
  ASSUME NEW v \in Nat, NEW w \in Nat \ {0}, NEW s, NEW mode
  PROVE  /\ RoundsTo(s, v, w, v \div w, v % w, mode)
         /\ v \div w \in Nat /\ v % w \in Nat /\ v % w < w
<1>1. PICK k \in Nat, m \in Nat : k = v \div w /\ m = v % w /\ m < w /\ v = k * w + m
  <2>1. v \div w \in Nat /\ v % w \in 0 .. w - 1 /\ v = (v \div w) * w + (v % w)
    BY QuotientAndRest
  <2>2. v % w \in Nat /\ v % w < w
    BY <2>1
  <2>3. QED
    BY <2>1, <2>2
<1>2. AwayFromZero(s, v, w, mode) <=> Away(s, k, m, w, mode)
  BY <1>1, Zenon DEF AwayFromZero, Away
<1>3. RoundsTo(s, v, w, k, m, mode)
  BY <1>1, <1>2, Zenon DEF RoundsTo, Rounded
<1>4. QED
  BY <1>1, <1>3

(* 128 bits that are no multiple of the divisor are rounded. *)
LEMMA InexactDivides ==
  ASSUME NEW a, NEW s, NEW c, NEW p, NEW b, NEW t, NEW d, NEW q, NEW prec \in Int, NEW shift, NEW v, NEW w,
         NEW mode, NEW o, Place(3) =< FPDEC_MAX_EXP,
         ShintIs(a, s, c, p), ShintIs(b, t, d, q), ScaledIs(a, b, prec, shift, v, w),
         prec \in 0 .. MAX_DEC_PREC_FOR_SHINT, v % w # 0,
         o = FinishedIfOk(div_u128(s * t, v, w, shift, prec, mode))
  PROVE  U128Outcome(o, a, b, prec, mode, shift, v, w)
<1>1. PICK sg \in {-1, 1} : sg = s * t
  BY DEF ShintIs
<1>2. v \in Nat \ {0} /\ v < U128 /\ w \in Nat \ {0}
  BY DEF ScaledIs
<1>3. PICK k : k = v \div w + (IF round_u128(sg, v \div w, v % w, w, mode) THEN 1 ELSE 0)
  OBVIOUS
<1>4. k \in Nat /\ GoodPrec(o, sg * k, -prec, prec)
  BY <1>1, <1>2, <1>3, InexactU128
<1>5. o.v \in Decimals /\ o.rc = "OK" /\ RestInForm(o.v, TRUE) /\ WellFormed(o.v)
      /\ Number(o.v) = Canonical(sg * k, -prec) /\ o.v.dec_prec = prec
  BY <1>4, GoodInForm DEF GoodPrec
<1>6. ASSUME NotWrapped(a, shift, v), ~(mode = "05UP" /\ v \div w >= U64)
      PROVE  RoundsDivision(o, a, b, prec, mode)
  <2>1. SameQuotient(v, w, c, -p, d, -q, prec)
    <3>1. ShintPrec(prec) = prec
      BY Limits DEF ShintPrec, MIN
    <3>2. SameQuotient(v, w, c, -p, d, -q, ShintPrec(prec))
      BY <1>6, ScaledQuotient
    <3>3. QED
      BY <3>1, <3>2
  <2>2. PICK f \in Int, g \in Int : f = -p /\ g = -q
    BY Limits DEF ShintIs
  <2>3. RoundsQuotient(RoundedQuotient(Canonical(s * c, f), Canonical(t * d, g), prec, mode),
                       s * t, v, w, prec, mode)
    <3>1. s \in {-1, 1} /\ t \in {-1, 1} /\ c \in Nat \ {0} /\ d \in Nat \ {0}
      BY DEF ShintIs
    <3>2. SameQuotient(v, w, c, f, d, g, prec) /\ v \in Nat
      BY <1>2, <2>1, <2>2
    <3>3. QED
      BY <1>2, <3>1, <3>2, QuotientOfNumbers
  <2>4. PICK i \in Nat, m \in Nat \ {0} : i = v \div w /\ m = v % w /\ m < w
    <3>1. v \div w \in Nat /\ v % w \in Nat /\ v % w < w
      BY <1>2, RoundedUp
    <3>2. v % w \in Nat \ {0}
      BY <3>1
    <3>3. QED
      BY <3>1, <3>2
  <2>5. Rounded(sg, v, w, mode) = k
    <3>1. mode = "05UP" => i < U64
      BY <1>6, <2>4, Words128
    <3>2. round_u128(sg, i, m, w, mode) <=> Away(sg, i, m, w, mode)
      BY <1>2, <2>4, <3>1, WideDecision
    <3>3. RoundsTo(sg, v, w, i, m, mode)
      <4>1. RoundsTo(sg, v, w, v \div w, v % w, mode)
        BY <1>2, RoundedUp
      <4>2. QED
        BY <2>4, <4>1
    <3>4. k = i + (IF round_u128(sg, i, m, w, mode) THEN 1 ELSE 0)
      BY <1>3, <2>4
    <3>5. QED
      BY <3>2, <3>3, <3>4, Zenon DEF RoundsTo
  <2>6. Number(a) = Canonical(s * c, f) /\ Number(b) = Canonical(t * d, g)
    BY <2>2 DEF ShintIs
  <2>7. QED
    BY <1>1, <1>5, <2>3, <2>5, <2>6 DEF RoundsQuotient, RoundsDivision
<1>7. prec # -1 /\ o.rc # "ABORT"
  BY <1>5
<1>8. QED
  BY <1>5, <1>6, <1>7 DEF U128Outcome

(* The quotient of shifted ints, where there is one. *)
LEMMA ExactShints ==
  ASSUME NEW a, NEW s, NEW c, NEW p, NEW b, NEW t, NEW d, NEW q, NEW prec \in Int, NEW shift, NEW v, NEW w,
         NEW k \in Nat, NEW g \in Int, NEW o,
         ShintIs(a, s, c, p), ShintIs(b, t, d, q), ScaledIs(a, b, prec, shift, v, w),
         NotWrapped(a, shift, v), MultipleIs(v, k, w), g = ShintPrec(prec),
         Number(o.v) = Canonical((s * t) * k, -g)
  PROVE  /\ ExactlyDivides(o, a, b)
         /\ \A mode : prec >= g => Number(o.v) = RoundedQuotient(Number(a), Number(b), prec, mode)
<1>1. v \in Nat /\ w \in Nat \ {0}
  BY DEF ScaledIs
<1>2. SameQuotient(v, w, c, -p, d, -q, g)
  BY ScaledQuotient
<1>3. PICK f \in Int, e \in Int : f = -p /\ e = -q
  BY Limits DEF ShintIs
<1>4. s \in {-1, 1} /\ t \in {-1, 1} /\ c \in Nat \ {0} /\ d \in Nat \ {0}
  BY DEF ShintIs
<1>5. SameQuotient(v, w, c, f, d, e, g)
  BY <1>2, <1>3
<1>6. IsExactQuotient(s, t, c, d, f, e, g, k)
  BY <1>1, <1>4, <1>5, ExactQuotientIs
<1>7. Number(a) = Canonical(s * c, f) /\ Number(b) = Canonical(t * d, e)
  BY <1>3 DEF ShintIs
<1>8. QED
  BY <1>6, <1>7 DEF ExactlyDivides, IsExactQuotient

(* A quotient that is a multiple of the divisor, to at most as many places  *)
(* as shifted ints have.                                                   *)
LEMMA ExactDivides ==
  ASSUME NEW a, NEW s, NEW c, NEW p, NEW b, NEW t, NEW d, NEW q, NEW prec \in Int, NEW shift, NEW v, NEW w,
         NEW mode, NEW o, Place(3) =< FPDEC_MAX_EXP,
         ShintIs(a, s, c, p), ShintIs(b, t, d, q), ScaledIs(a, b, prec, shift, v, w),
         prec \in 0 .. MAX_DEC_PREC_FOR_SHINT, v % w = 0,
         o = FinishedIfOk(div_u128(s * t, v, w, shift, prec, mode))
  PROVE  U128Outcome(o, a, b, prec, mode, shift, v, w)
<1>1. PICK sg \in {-1, 1} : sg = s * t
  BY DEF ShintIs
<1>2. v \in Nat \ {0} /\ v < U128 /\ w \in Nat \ {0}
  BY DEF ScaledIs
<1>3. PICK k : k = v \div w
  OBVIOUS
<1>4. k \in Nat \ {0} /\ v = k * w /\ GoodPrec(o, sg * k, -prec, prec)
  BY <1>1, <1>2, <1>3, ExactU128
<1>5. o.v \in Decimals /\ o.rc = "OK" /\ RestInForm(o.v, TRUE) /\ WellFormed(o.v)
      /\ Number(o.v) = Canonical(sg * k, -prec) /\ o.v.dec_prec = prec
  BY <1>4, GoodInForm DEF GoodPrec
<1>6. prec = ShintPrec(prec) /\ prec # -1 /\ o.rc # "ABORT"
  BY <1>5, Limits DEF ShintPrec, MIN
<1>7. MultipleIs(v, k, w) /\ k \in Nat /\ Number(o.v) = Canonical((s * t) * k, -prec)
  BY <1>1, <1>4, <1>5 DEF MultipleIs
<1>8. ASSUME NotWrapped(a, shift, v) PROVE RoundsDivision(o, a, b, prec, mode)
  <2>1. PICK g \in Int : g = prec
    OBVIOUS
  <2>2. \A m : prec >= g => Number(o.v) = RoundedQuotient(Number(a), Number(b), prec, m)
    BY <1>6, <1>7, <1>8, <2>1, ExactShints
  <2>3. QED
    BY <1>5, <2>1, <2>2 DEF RoundsDivision
<1>9. QED
  BY <1>5, <1>6, <1>8 DEF U128Outcome

(* More places than shifted ints have: the quotient is cut to 96 bits.     *)
LEMMA CutDivides ==
  ASSUME NEW a, NEW s, NEW c, NEW p, NEW b, NEW t, NEW d, NEW q, NEW prec \in Int, NEW shift, NEW v, NEW w,
         NEW mode, NEW o, Place(3) =< FPDEC_MAX_EXP,
         ShintIs(a, s, c, p), ShintIs(b, t, d, q), ScaledIs(a, b, prec, shift, v, w),
         prec \in 0 .. FPDEC_MAX_DEC_PREC, prec > MAX_DEC_PREC_FOR_SHINT, v % w = 0,
         o = FinishedIfOk(div_u128(s * t, v, w, shift, prec, mode))
  PROVE  U128Outcome(o, a, b, prec, mode, shift, v, w)
<1>1. PICK sg \in {-1, 1} : sg = s * t
  BY DEF ShintIs
<1>2. v \in Nat \ {0} /\ v < U128 /\ w \in Nat \ {0}
  BY DEF ScaledIs
<1>3. PICK k : k = v \div w
  OBVIOUS
<1>4. PICK u : u = k % SHINT_LIMIT
  OBVIOUS
<1>5. /\ k \in Nat \ {0} /\ v = k * w /\ u \in Nat /\ (k < SHINT_LIMIT => u = k)
      /\ u = 0 => k >= SHINT_LIMIT /\ o = AssertionFails
      /\ u # 0 => GoodPrec(o, sg * u, -MAX_DEC_PREC_FOR_SHINT, prec)
  BY <1>1, <1>2, <1>3, <1>4, CutU128
<1>6. CASE u = 0
  <2>1. o = AssertionFails /\ k >= SHINT_LIMIT
    BY <1>5, <1>6
  <2>2. o.v \in Decimals /\ o.rc = "ABORT"
    BY <2>1, ZeroIsOperand DEF AssertionFails, Returns, Operand
  <2>3. o.rc # "OK"
    BY <2>2
  <2>4. QED
    BY <1>3, <2>1, <2>2, <2>3, Zenon DEF U128Outcome
<1>7. CASE u # 0
  <2>1. o.v \in Decimals /\ o.rc = "OK" /\ RestInForm(o.v, TRUE) /\ WellFormed(o.v)
        /\ Number(o.v) = Canonical(sg * u, -MAX_DEC_PREC_FOR_SHINT) /\ o.v.dec_prec = prec
    BY <1>5, <1>7, GoodInForm DEF GoodPrec
  <2>2. PICK g \in Int : g = MAX_DEC_PREC_FOR_SHINT /\ g = ShintPrec(prec)
    BY Limits DEF ShintPrec, MIN
  <2>3. ASSUME NotWrapped(a, shift, v), k < SHINT_LIMIT PROVE RoundsDivision(o, a, b, prec, mode)
    <3>1. MultipleIs(v, k, w) /\ k \in Nat /\ Number(o.v) = Canonical((s * t) * k, -g)
      BY <1>1, <1>5, <2>1, <2>2, <2>3 DEF MultipleIs
    <3>2. \A m : prec >= g => Number(o.v) = RoundedQuotient(Number(a), Number(b), prec, m)
      BY <2>2, <2>3, <3>1, ExactShints
    <3>3. prec >= g
      BY <2>2
    <3>4. QED
      BY <2>1, <3>2, <3>3 DEF RoundsDivision
  <2>4. prec # -1 /\ o.rc # "ABORT"
    BY <2>1
  <2>5. k >= SHINT_LIMIT \/ k < SHINT_LIMIT
    BY <1>5, Limits
  <2>6. QED
    BY <1>3, <2>1, <2>3, <2>4, <2>5, Zenon DEF U128Outcome
<1>8. QED
  BY <1>6, <1>7

(* No limit: the exact quotient, without zeros at its end, if it may have  *)
(* more places than the dividend.                                          *)
LEMMA ConciseDivides ==
  ASSUME NEW a, NEW s, NEW c, NEW p, NEW b, NEW t, NEW d, NEW q, NEW shift, NEW v, NEW w,
         NEW mode, NEW o, Place(3) =< FPDEC_MAX_EXP,
         ShintIs(a, s, c, p), ShintIs(b, t, d, q), ScaledIs(a, b, -1, shift, v, w), v % w = 0,
         o = FinishedIfOk(div_u128(s * t, v, w, shift, -1, mode))
  PROVE  U128Outcome(o, a, b, -1, mode, shift, v, w)
<1>1. PICK sg \in {-1, 1} : sg = s * t
  BY DEF ShintIs
<1>2. v \in Nat \ {0} /\ v < U128 /\ w \in Nat \ {0} /\ shift \in Int /\ (~(shift > 0) => v = a.coeff)
  BY DEF ScaledIs
<1>3. CASE shift > 0
  <2>1. PICK k : k = v \div w
    OBVIOUS
  <2>2. /\ k \in Nat \ {0} /\ v = k * w /\ Good(o, sg * k, -MAX_DEC_PREC_FOR_SHINT)
        /\ IsConcise(o.v, MAX_DEC_PREC_FOR_SHINT - shift)
    BY <1>1, <1>2, <1>3, <2>1, ConciseU128
  <2>3. o.v \in Decimals /\ o.rc = "OK" /\ RestInForm(o.v, TRUE) /\ WellFormed(o.v)
        /\ Number(o.v) = Canonical(sg * k, -MAX_DEC_PREC_FOR_SHINT)
    BY <2>2, GoodInForm
  <2>4. PICK g \in Int : g = MAX_DEC_PREC_FOR_SHINT /\ g = ShintPrec(-1)
    BY Limits DEF ShintPrec
  <2>5. ASSUME NotWrapped(a, shift, v) PROVE ExactlyDivides(o, a, b)
    <3>1. MultipleIs(v, k, w) /\ k \in Nat /\ Number(o.v) = Canonical((s * t) * k, -g)
      BY <1>1, <2>2, <2>3, <2>4 DEF MultipleIs
    <3>2. PICK prec \in Int : prec = -1
      OBVIOUS
    <3>3. QED
      BY <2>4, <2>5, <3>1, <3>2, ExactShints
  <2>6. ~(-1 >= 0) /\ o.rc # "ABORT"
    BY <2>3
  <2>7. IsConcise(o.v, a.dec_prec - b.dec_prec)
    <3>1. PICK h : h = MAX_DEC_PREC_FOR_SHINT - shift
      OBVIOUS
    <3>2. h = a.dec_prec - b.dec_prec
      <4>1. a.dec_prec \in Int /\ b.dec_prec \in Int /\ MAX_DEC_PREC_FOR_SHINT \in Int
        BY Limits DEF ShintIs
      <4>2. shift = MAX_DEC_PREC_FOR_SHINT - a.dec_prec + b.dec_prec
        BY DEF ScaledIs, DivShift
      <4>3. QED
        BY <3>1, <4>1, <4>2
    <3>3. QED
      BY <2>2, <3>1, <3>2
  <2>8. QED
    BY <2>3, <2>5, <2>6, <2>7, Zenon DEF U128Outcome
<1>4. CASE ~(shift > 0)
  <2>1. v < SHINT_LIMIT
    BY <1>2, <1>4 DEF ShintIs
  <2>2. o.rc = "OK" /\ RestInForm(o.v, TRUE)
    <3>1. PICK prec : prec = -1 /\ o = FinishedIfOk(div_u128(sg, v, w, shift, prec, mode))
      BY <1>1
    <3>2. v \in Nat \ {0} /\ w \in Nat \ {0} /\ shift \in Int /\ v % w = 0
      BY <1>2
    <3>3. QED
      BY <1>4, <2>1, <3>1, <3>2, LostU128, ZenonT(60)
  <2>3. ~(-1 >= 0) /\ o.rc # "ABORT" /\ o.v \in Decimals
    BY <2>2 DEF RestInForm
  <2>4. QED
    BY <1>4, <2>2, <2>3, Zenon DEF U128Outcome
<1>5. QED
  BY <1>3, <1>4

LEMMA ShintsDivided ==
  ASSUME NEW a, NEW s, NEW c, NEW p, NEW b, NEW t, NEW d, NEW q, NEW prec \in -1 .. FPDEC_MAX_DEC_PREC,
         NEW shift, NEW v, NEW w, NEW mode, NEW o, Place(3) =< FPDEC_MAX_EXP,
         ShintIs(a, s, c, p), ShintIs(b, t, d, q), ScaledIs(a, b, prec, shift, v, w),
         ~DividesAsDyn(a, b, prec),
         o = FinishedIfOk(div_u128(s * t, v, w, shift, prec, mode))
  PROVE  U128Outcome(o, a, b, prec, mode, shift, v, w)
<1>1. prec \in Int /\ (prec = -1 \/ prec \in 0 .. MAX_DEC_PREC_FOR_SHINT \/ prec > MAX_DEC_PREC_FOR_SHINT)
  BY Limits
<1>2. v % w # 0 => prec \in 0 .. MAX_DEC_PREC_FOR_SHINT
  <2>1. v % w # 0 => ~(prec = -1 \/ prec > MAX_DEC_PREC_FOR_SHINT)
    BY DEF DividesAsDyn, ScaledIs
  <2>2. QED
    BY <1>1, <2>1
<1>3. CASE v % w # 0
  BY <1>1, <1>2, <1>3, InexactDivides
<1>4. CASE v % w = 0 /\ prec \in 0 .. MAX_DEC_PREC_FOR_SHINT
  BY <1>1, <1>4, ExactDivides
<1>5. CASE v % w = 0 /\ prec > MAX_DEC_PREC_FOR_SHINT
  <2>1. prec \in 0 .. FPDEC_MAX_DEC_PREC
    BY <1>5, Limits
  <2>2. QED
    BY <1>1, <1>5, <2>1, CutDivides
<1>6. CASE v % w = 0 /\ prec = -1
  BY <1>6, ConciseDivides
<1>7. QED
  BY <1>1, <1>3, <1>4, <1>5, <1>6

-----------------------------------------------------------------------------
(***************************************************************************)
(* The division of digits with a limit: all digits of the quotient up to a *)
(* guard digit, whose part that is not wanted is rounded.                  *)
(***************************************************************************)

(* What remains of the dividend does not matter unless the guard digit is  *)
(* 0 or a tie.                                                             *)
GuardDecides(s, n, m, q, mode) == Rounded(s, n \div m, q, mode) = Rounded(s, n, m * q, mode)

Splits(v, k, w, m) == v = k * w + m

LEMMA RoundsSplit ==
  ASSUME NEW v \in Nat, NEW w \in Nat \ {0}, NEW k \in Nat, NEW m \in Nat, m < w, Splits(v, k, w, m),
         NEW s, NEW mode
  PROVE  RoundsTo(s, v, w, k, m, mode)
<1>1. v \in Int /\ v = k * w + m
  BY DEF Splits
<1>2. Rounded(s, v, w, mode) = k + (IF Away(s, k, m, w, mode) THEN 1 ELSE 0)
  BY <1>1, RoundedIs
<1>3. QED
  BY <1>2, Zenon DEF RoundsTo

(* q = 2 h, and the rest t of m matters for neither u nor j.               *)
Guards(q, h, m, j, t, u, w) ==
  /\ q = h + h /\ j < q /\ t < m /\ (t # 0 => j # 0 /\ j # h)
  /\ u = j * m + t /\ w = q * m

LEMMA GuardAway ==
  ASSUME NEW q \in Nat \ {0}, NEW h \in Nat, NEW m \in Nat \ {0}, NEW j \in Nat, NEW t \in Nat,
         NEW u, NEW w, Guards(q, h, m, j, t, u, w), NEW i \in Nat, NEW s, NEW mode
  PROVE  Away(s, i, u, w, mode) <=> Away(s, i, j, q, mode)
<1>1. CASE t = 0
  <2>1. u = j * m /\ w = q * m
    BY <1>1 DEF Guards
  <2>2. QED
    BY <2>1, AwayScaled
<1>2. CASE t # 0
  <2>1. j * m \in Nat /\ h * m \in Nat /\ w = h * m + h * m
    <3>1. (h + h) * m = h * m + h * m /\ j * m \in Nat /\ h * m \in Nat
      OBVIOUS
    <3>2. QED
      BY <3>1 DEF Guards
  <2>2. u # 0 /\ j # 0 /\ u \in Nat /\ u = j * m + t /\ q = h + h /\ t < m /\ j # h
    BY <1>2, <2>1 DEF Guards
  <2>3. CASE j > h
    <3>1. PICK d \in Nat : j = h + d
      <4>1. j - h \in Nat /\ j = h + (j - h)
        BY <2>3
      <4>2. QED
        BY <4>1
    <3>2. (h + d) * m = h * m + d * m /\ d * m \in Nat
      OBVIOUS
    <3>3. j * m >= h * m
      BY <2>1, <3>1, <3>2
    <3>4. 2 * u > w /\ 2 * u # w
      BY <1>2, <2>1, <2>2, <3>3
    <3>5. 2 * j > q /\ 2 * j # q
      BY <2>2, <2>3
    <3>6. QED
      BY <2>2, <3>4, <3>5 DEF Away
  <2>4. CASE j < h
    <3>1. PICK d \in Nat : h = (j + 1) + d
      <4>1. h - (j + 1) \in Nat /\ h = (j + 1) + (h - (j + 1))
        BY <2>4
      <4>2. QED
        BY <4>1
    <3>2. ((j + 1) + d) * m = (j * m + m) + d * m /\ d * m \in Nat
      OBVIOUS
    <3>3. h * m >= j * m + m
      BY <2>1, <3>1, <3>2
    <3>4. ~(2 * u > w) /\ 2 * u # w
      BY <2>1, <2>2, <3>3
    <3>5. ~(2 * j > q) /\ 2 * j # q
      BY <2>2, <2>4
    <3>6. QED
      BY <2>2, <3>4, <3>5 DEF Away
  <2>5. QED
    BY <1>2, <2>2, <2>3, <2>4
<1>3. QED
  BY <1>1, <1>2

LEMMA GuardRounds ==
  ASSUME NEW n \in Nat, NEW m \in Nat \ {0}, NEW q \in Nat \ {0}, q % 2 = 0,
         n % m # 0 => (n \div m) % q \notin {0, q \div 2}, NEW s, NEW mode
  PROVE  GuardDecides(s, n, m, q, mode)
<1>1. PICK k \in Nat, t \in Nat : k = n \div m /\ t = n % m /\ t < m /\ n = k * m + t
  <2>1. n \div m \in Nat /\ n % m \in 0 .. m - 1 /\ n = (n \div m) * m + (n % m)
    BY QuotientAndRest
  <2>2. n % m \in Nat /\ n % m < m
    BY <2>1
  <2>3. QED
    BY <2>1, <2>2
<1>2. PICK i \in Nat, j \in Nat : i = k \div q /\ j = k % q /\ j < q /\ k = i * q + j
  <2>1. k \div q \in Nat /\ k % q \in 0 .. q - 1 /\ k = (k \div q) * q + (k % q)
    BY QuotientAndRest
  <2>2. k % q \in Nat /\ k % q < q
    BY <2>1
  <2>3. QED
    BY <2>1, <2>2
<1>3. PICK h \in Nat : h = q \div 2 /\ q = h + h
  OBVIOUS
<1>4. t # 0 => j # 0 /\ j # h
  BY <1>1, <1>2, <1>3
<1>5. PICK u \in Nat, w \in Nat \ {0}, v \in Nat : u = j * m + t /\ w = q * m /\ w = m * q /\ v = n
  <2>1. j * m \in Nat /\ q * m \in Nat \ {0} /\ q * m = m * q
    OBVIOUS
  <2>2. QED
    BY <2>1
<1>6. Away(s, i, u, w, mode) <=> Away(s, i, j, q, mode)
  <2>1. Guards(q, h, m, j, t, u, w)
    BY <1>1, <1>2, <1>3, <1>4, <1>5 DEF Guards
  <2>2. QED
    BY ONLY <2>1, GuardAway, q \in Nat \ {0}, h \in Nat, m \in Nat \ {0}, j \in Nat, t \in Nat, i \in Nat
<1>7. u < w
  <2>1. PICK d \in Nat : q = (j + 1) + d
    <3>1. q - (j + 1) \in Nat /\ q = (j + 1) + (q - (j + 1))
      BY <1>2
    <3>2. QED
      BY <3>1
  <2>2. ((j + 1) + d) * m = (j * m + m) + d * m /\ d * m \in Nat /\ j * m \in Nat
    OBVIOUS
  <2>3. QED
    BY <1>1, <1>5, <2>1, <2>2
<1>8. v = i * w + u
  <2>1. (i * q + j) * m = i * (q * m) + j * m
    <3>1. (i * q + j) * m = (i * q) * m + j * m /\ (i * q) * m = i * (q * m)
      OBVIOUS
    <3>2. QED
      BY <3>1
  <2>2. v = (i * (q * m) + j * m) + t
    BY <1>1, <1>2, <1>5, <2>1
  <2>3. i * w \in Nat /\ j * m \in Nat
    OBVIOUS
  <2>4. QED
    BY <1>5, <2>2, <2>3
<1>9. RoundsTo(s, v, w, i, u, mode)
  <2>1. Splits(v, i, w, u)
    BY <1>8 DEF Splits
  <2>2. QED
    BY ONLY <1>7, <2>1, RoundsSplit, i \in Nat, u \in Nat, v \in Nat, w \in Nat \ {0}
<1>10. RoundsTo(s, k, q, i, j, mode)
  <2>1. Splits(k, i, q, j)
    BY <1>2 DEF Splits
  <2>2. j < q
    BY <1>2
  <2>3. QED
    BY ONLY <2>1, <2>2, RoundsSplit, i \in Nat, j \in Nat, k \in Nat, q \in Nat \ {0}
<1>11. Rounded(s, k, q, mode) = Rounded(s, v, w, mode)
  <2>1. CASE Away(s, i, j, q, mode)
    <3>1. Rounded(s, v, w, mode) = i + 1
      BY ONLY <1>6, <1>9, <2>1, Zenon DEF RoundsTo
    <3>2. Rounded(s, k, q, mode) = i + 1
      BY ONLY <1>10, <2>1, Zenon DEF RoundsTo
    <3>3. QED
      BY <3>1, <3>2
  <2>2. CASE ~Away(s, i, j, q, mode)
    <3>1. Rounded(s, v, w, mode) = i + 0
      BY ONLY <1>6, <1>9, <2>2, Zenon DEF RoundsTo
    <3>2. Rounded(s, k, q, mode) = i + 0
      BY ONLY <1>10, <2>2, Zenon DEF RoundsTo
    <3>3. QED
      BY <3>1, <3>2
  <2>3. QED
    BY <2>1, <2>2
<1>12. QED
  BY <1>1, <1>5, <1>11 DEF GuardDecides

LEMMA WeightPower ==
  ASSUME NEW n \in Nat
  PROVE  Place(n) \in Nat /\ Weight(n) = Power(10, Place(n))
<1>1. PICK i \in Int : i = 0
  OBVIOUS
<1>2. PICK l \in Int : l = Place(n)
  <2>1. n \in Int
    OBVIOUS
  <2>2. QED
    BY <2>1, PlaceFacts
<1>3. i * DEC_DIGITS_PER_DIGIT = i /\ i + n = n
  BY <1>1, Limits
<1>4. /\ Weight(n) = Ten(i * DEC_DIGITS_PER_DIGIT, (i + n) * DEC_DIGITS_PER_DIGIT)
      /\ i * DEC_DIGITS_PER_DIGIT =< (i + n) * DEC_DIGITS_PER_DIGIT
  BY WeightTen
<1>5. Weight(n) = Ten(i, l) /\ i =< l
  BY <1>2, <1>3, <1>4 DEF Place
<1>6. l - i = l
  BY <1>1
<1>7. QED
  BY <1>1, <1>2, <1>5, <1>6 DEF Ten

(* Digits shifted by i or j, of which h decimal ones are not wanted.       *)
Places2(e1, e2, l, i, j) == i - j = e1 - e2 - l

LEMMA ShiftedQuotient ==
  ASSUME NEW c \in Nat, NEW d \in Nat, NEW e1 \in Int, NEW e2 \in Int, NEW l \in Int,
         NEW i \in Nat, NEW j \in Nat, Places2(e1, e2, l, i, j), NEW h \in Nat, NEW prec \in Int,
         prec = -(Place(l) + h)
  PROVE  SameQuotient(c * Weight(i), (d * Weight(j)) * Power(10, h), c, Place(e1), d, Place(e2), prec)
<1>1. PICK i1 \in Nat, j1 \in Nat : /\ i1 = Place(i) /\ Weight(i) = Power(10, i1)
                                    /\ j1 = Place(j) /\ Weight(j) = Power(10, j1)
  BY WeightPower
<1>2. PICK f \in Int, g \in Int, k \in Int : f = Place(e1) /\ g = Place(e2) /\ k = Place(l)
  BY PlaceFacts
<1>3. i1 - j1 = f - g - k
  <2>1. PICK a \in Int, b \in Int : a = i /\ b = j /\ a + (e2 + l) = b + e1
    <3>1. i + (e2 + l) = j + e1
      BY DEF Places2
    <3>2. i \in Int /\ j \in Int
      OBVIOUS
    <3>3. QED
      BY <3>1, <3>2
  <2>2. e2 + l \in Int
    OBVIOUS
  <2>3. Place(a + (e2 + l)) = Place(a) + Place(e2 + l) /\ Place(b + e1) = Place(b) + Place(e1)
    BY <2>2, PlaceFacts
  <2>4. Place(e2 + l) = Place(e2) + Place(l)
    BY PlaceFacts
  <2>5. Place(a) = i1 /\ Place(b) = j1
    BY <1>1, <2>1
  <2>6. PICK v \in Int, w \in Int : v = a + (e2 + l) /\ w = b + e1 /\ v = w
    BY <2>1
  <2>7. Place(v) = Place(w) /\ Place(v) = i1 + (g + k) /\ Place(w) = j1 + f
    BY <1>2, <2>3, <2>4, <2>5, <2>6
  <2>8. i1 + (g + k) = j1 + f
    BY <2>7
  <2>9. QED
    BY ONLY <2>8, i1 \in Nat, j1 \in Nat, f \in Int, g \in Int, k \in Int
<1>4. PICK p \in Nat \ {0}, q \in Nat \ {0}, t \in Nat \ {0} :
        p = Power(10, i1) /\ q = Power(10, j1) /\ t = Power(10, h)
  BY PowersOf10
<1>5. PICK u \in Int, v \in Int, f1 \in Int : u = c * d /\ v = u * q /\ f1 = f + prec
  OBVIOUS
<1>6. Canonical(u * Power(10, i1), g) = Canonical(u, g + i1)
  BY CanonicalScale
<1>7. Canonical(v * Power(10, h), f1) = Canonical(v, f1 + h)
  BY CanonicalScale
<1>8. PICK f2 \in Int : f2 = f1 + h
  OBVIOUS
<1>9. Canonical(u * Power(10, j1), f2) = Canonical(u, f2 + j1)
  BY CanonicalScale
<1>10. f2 + j1 = g + i1
  BY <1>2, <1>3, <1>5, <1>8
<1>11. Canonical(u * p, g) = Canonical(v * t, f1)
  BY <1>4, <1>5, <1>6, <1>7, <1>8, <1>9, <1>10
<1>12. u * p = (c * p) * d
  <2>1. (c * d) * p = (c * p) * d
    OBVIOUS
  <2>2. QED
    BY <1>5, <2>1
<1>13. v * t = ((d * q) * t) * c
  <2>1. ((c * d) * q) * t = ((d * q) * t) * c
    OBVIOUS
  <2>2. QED
    BY <1>5, <2>1
<1>14. QED
  BY <1>1, <1>2, <1>4, <1>5, <1>11, <1>12, <1>13 DEF SameQuotient

(* The guard digit is rounded: a carry may leave but a digit of 1.         *)
LEMMA PowerOfWeight ==
  ASSUME NEW n \in Nat \ {0}, NEW shift \in Nat, shift =< DEC_DIGITS_PER_DIGIT
  PROVE  \E m \in Nat : Weight(n) = m * Power(10, shift)
<1>1. PICK l \in Nat : l = Place(n) /\ Weight(n) = Power(10, l)
  BY WeightPower
<1>2. PICK k \in Nat : l = shift + k
  <2>1. 1 \in Int /\ n \in Int /\ 1 =< n
    OBVIOUS
  <2>2. Place(1) =< Place(n)
    BY <2>1, PlaceFacts
  <2>3. DEC_DIGITS_PER_DIGIT =< l /\ DEC_DIGITS_PER_DIGIT \in Nat
    BY <1>1, <2>2, Places, Limits
  <2>4. l - shift \in Nat /\ l = shift + (l - shift)
    BY <2>3
  <2>5. QED
    BY <2>4
<1>3. PICK i \in Nat, j \in Nat : i = Power(10, shift) /\ j = Power(10, k)
  BY PowersOf10
<1>4. Weight(n) = i * j
  BY <1>1, <1>2, <1>3, PowerSum
<1>5. i * j = j * i
  OBVIOUS
<1>6. QED
  BY <1>3, <1>4, <1>5

LEMMA RoundedGood ==
  ASSUME NEW s \in {-1, 1}, NEW c \in Nat, NEW n \in Nat \ {0}, c < Weight(n),
         NEW e \in INT32_MIN .. FPDEC_MAX_EXP, NEW p \in 0 .. FPDEC_MAX_DEC_PREC,
         NEW shift \in Nat, shift =< DEC_DIGITS_PER_DIGIT, Place(e) + shift = -p, NEW mode,
         NEW room \in Nat, Place(room) =< FPDEC_MAX_EXP, e + n + 1 =< room,
         NEW a, a = Dyn(s, p, c, n, e)
  PROVE  GoodPrec(fpdec_dyn_normalize(RoundedIn(a, shift, mode)),
                  s * Rounded(s, c, Power(10, shift), mode), -p, p)
<1>1. PICK q \in Nat \ {0} : q = Power(10, shift)
  BY PowersOf10
<1>2. PICK v : v = Rounded(s, c, q, mode)
  OBVIOUS
<1>3. PICK m \in Nat : Weight(n) = m * q
  BY <1>1, PowerOfWeight
<1>4. v \in Nat /\ v * q =< m * q /\ v * q \in Nat
  <2>1. c < m * q
    BY <1>3
  <2>2. v \in Nat /\ v * q =< m * q
    BY <1>2, <2>1, RoundedAtMost
  <2>3. QED
    BY <2>2
<1>5. PICK u \in Nat : u = RoundedDigits(c, s, shift, mode) /\ u = v * q /\ u =< Weight(n)
  <2>1. RoundedDigits(c, s, shift, mode) = q * v
    BY <1>1, <1>2 DEF RoundedDigits, u64_10_pow_n
  <2>2. q * v = v * q
    BY <1>4
  <2>3. QED
    BY <1>3, <1>4, <2>1, <2>2
<1>6. e \in Int /\ p \in Nat
  BY Room
<1>7. PICK g \in Int, j \in Int : g = Place(e) /\ j = -p /\ g =< j /\ j - g = shift
  <2>1. PICK g \in Int : g = Place(e)
    BY <1>6, PlaceFacts
  <2>2. PICK j \in Int : j = -p
    BY <1>6
  <2>3. QED
    BY <2>1, <2>2
<1>8. Canonical(s * u, g) = Canonical(s * v, j) /\ CoveredBy(s, u, g, p)
  <2>1. Ten(g, j) = q
    BY <1>1, <1>7 DEF Ten
  <2>2. ShiftsTo(s, v, g, j)
    BY <1>4, <1>7, SignedShift
  <2>3. -p =< j
    BY <1>7
  <2>4. CoveredBy(s, v * Ten(g, j), g, p)
    BY <1>4, <1>6, <1>7, <2>3, CoveredShift
  <2>5. QED
    BY <1>5, <2>1, <2>2, <2>4 DEF ShiftsTo
<1>9. PICK r1 : r1 = RoundedIn(a, shift, mode)
  OBVIOUS
<1>10. a.sign = s /\ a.coeff = c /\ a.n = n /\ a.exp = e /\ a.dec_prec = p
  BY DEF Dyn
<1>11. \E k \in Nat, f \in INT32_MIN .. FPDEC_MAX_EXP, w \in Nat :
         /\ r1.sign = s /\ r1.coeff = w /\ r1.exp = f /\ r1.dec_prec = p
         /\ Canonical(s * w, Place(f)) = Canonical(s * u, g)
         /\ w < Weight(k) /\ f + k =< room
  <2>1. CASE u >= Weight(n)
    <3>1. u = Weight(n)
      <4>1. Weight(n) \in Nat
        BY WeightFacts
      <4>2. QED
        BY <1>5, <2>1, <4>1
    <3>2. PICK f \in Int : f = e + n
      BY <1>6
    <3>3. r1 = [a EXCEPT !.exp = f, !.n = 1, !.coeff = 1]
      BY <1>5, <1>9, <1>10, <2>1, <3>2 DEF RoundedIn, RoundCarry
    <3>4. r1.coeff = 1 /\ r1.exp = f /\ r1.sign = s /\ r1.dec_prec = p
      BY <3>3 DEF Dyn
    <3>5. Canonical(s * 1, Place(f)) = Canonical(s * u, g)
      <4>1. s \in Int /\ n \in Nat /\ s * 1 = s
        OBVIOUS
      <4>2. Canonical(s * Weight(n), Place(e)) = Canonical(s, Place(f))
        BY <1>6, <3>2, <4>1, DigitShift DEF Place
      <4>3. QED
        BY <1>7, <3>1, <4>1, <4>2
    <3>6. 1 < Weight(1)
      <4>1. Weight(0 + 1) = RADIX * Weight(0)
        BY WeightFacts
      <4>2. QED
        BY <4>1, WeightZero, RadixPositive
    <3>7. f \in INT32_MIN .. FPDEC_MAX_EXP /\ f + 1 =< room
      <4>1. f =< room /\ f + 1 =< room /\ e =< f
        BY <1>6, <3>2
      <4>2. f =< FPDEC_MAX_EXP
        BY <4>1, WithinRoom
      <4>3. QED
        BY <3>2, <4>1, <4>2, Room
    <3>8. 1 \in Nat
      OBVIOUS
    <3>9. QED
      BY <3>4, <3>5, <3>6, <3>7, <3>8
  <2>2. CASE ~(u >= Weight(n))
    <3>1. r1 = [a EXCEPT !.coeff = u]
      BY <1>5, <1>9, <1>10, <2>2 DEF RoundedIn, RoundCarry
    <3>2. r1.coeff = u /\ r1.exp = e /\ r1.sign = s /\ r1.dec_prec = p
      BY <3>1 DEF Dyn
    <3>3. u < Weight(n) /\ e + n =< room
      <4>1. Weight(n) \in Nat
        BY WeightFacts
      <4>2. QED
        BY <1>6, <2>2, <4>1
    <3>4. n \in Nat /\ Canonical(s * u, Place(e)) = Canonical(s * u, g)
      BY <1>7
    <3>5. QED
      BY <3>2, <3>3, <3>4
  <2>3. QED
    BY <2>1, <2>2
<1>12. PICK k \in Nat, f \in INT32_MIN .. FPDEC_MAX_EXP, w \in Nat :
         /\ r1.sign = s /\ r1.coeff = w /\ r1.exp = f /\ r1.dec_prec = p
         /\ Canonical(s * w, Place(f)) = Canonical(s * u, g)
         /\ w < Weight(k) /\ f + k =< room
  BY <1>11
<1>13. f + k =< FPDEC_MAX_EXP /\ Place(f + k) =< FPDEC_MAX_EXP
  <2>1. f + k \in Int
    BY Room
  <2>2. QED
    BY <1>12, <2>1, WithinRoom
<1>14. Good(fpdec_dyn_normalize(r1), r1.sign * r1.coeff, Place(r1.exp))
  <2>1. Canonical(r1.sign * r1.coeff, Place(r1.exp))[2] >= -r1.dec_prec
    BY <1>8, <1>12 DEF CoveredBy
  <2>2. /\ r1.coeff \in Nat /\ r1.exp \in INT32_MIN .. FPDEC_MAX_EXP /\ r1.sign \in {-1, 1}
        /\ r1.dec_prec \in 0 .. FPDEC_MAX_DEC_PREC
        /\ r1.coeff < Weight(k) /\ r1.exp + k =< FPDEC_MAX_EXP /\ Place(r1.exp + k) =< FPDEC_MAX_EXP
    BY <1>12, <1>13
  <2>3. QED
    BY <2>1, <2>2, NormalizedBelow
<1>15. PICK o : o = fpdec_dyn_normalize(r1)
  OBVIOUS
<1>16. o.rc = "OK" /\ Operand(o.v) /\ Number(o.v) = Canonical(s * v, j)
  BY <1>8, <1>12, <1>14, <1>15 DEF Good
<1>17. o.v.dec_prec = p
  BY <1>12, <1>15, <1>16, NormalizedPrec
<1>18. QED
  BY <1>1, <1>2, <1>7, <1>9, <1>15, <1>16, <1>17 DEF GoodPrec, Good

(* The digits of a quotient of digits that have been shifted.              *)
LEMMA ShiftedBounds ==
  ASSUME NEW c \in Nat, NEW n \in Nat \ {0}, Weight(n - 1) =< c, c < Weight(n), NEW i \in Nat
  PROVE  c * Weight(i) \in Nat /\ Weight(n - 1 + i) =< c * Weight(i) /\ c * Weight(i) < Weight(n + i)
<1>1. PICK w \in Nat \ {0} : w = Weight(i)
  BY WeightFacts
<1>2. PICK m \in Nat : m = n - 1
  OBVIOUS
<1>3. PICK k \in Nat, l \in Nat : k = m + i /\ l = n + i /\ i =< k /\ i =< l /\ k - i = m /\ l - i = n
  BY <1>2
<1>4. Weight(k) = Weight(i) * Weight(k - i) /\ Weight(l) = Weight(i) * Weight(l - i)
  BY <1>3, WeightSplit
<1>5. PICK u \in Nat, v \in Nat : u = Weight(m) /\ v = Weight(n) /\ u =< c /\ c < v
  <2>1. Weight(m) \in Nat /\ n \in Nat
    BY WeightFacts
  <2>2. Weight(n) \in Nat
    BY WeightFacts
  <2>3. QED
    BY <1>2, <2>1, <2>2
<1>6. Weight(k) = w * u /\ Weight(l) = w * v
  BY <1>1, <1>3, <1>4, <1>5
<1>7. w * u =< c * w
  <2>1. PICK d \in Nat : c = u + d
    <3>1. c - u \in Nat /\ c = u + (c - u)
      BY <1>5
    <3>2. QED
      BY <3>1
  <2>2. (u + d) * w = w * u + d * w /\ d * w \in Nat /\ w * u \in Nat
    OBVIOUS
  <2>3. QED
    BY <2>1, <2>2
<1>8. c * w < w * v
  <2>1. PICK d \in Nat \ {0} : v = c + d
    <3>1. v - c \in Nat \ {0} /\ v = c + (v - c)
      BY <1>5
    <3>2. QED
      BY <3>1
  <2>2. w * (c + d) = c * w + d * w /\ d * w \in Nat \ {0} /\ c * w \in Nat
    OBVIOUS
  <2>3. QED
    BY <2>1, <2>2
<1>9. c * w \in Nat
  OBVIOUS
<1>10. n - 1 + i = k /\ n + i = l
  BY <1>2, <1>3
<1>11. QED
  BY <1>1, <1>6, <1>7, <1>8, <1>9, <1>10

LEMMA QuotientDigits ==
  ASSUME NEW n \in Nat, NEW m \in Nat \ {0}, NEW i \in Nat, NEW j \in Nat, j =< i,
         n < Weight(i), Weight(j) =< m
  PROVE  n \div m \in Nat /\ n \div m < Weight(i - j)
<1>1. PICK k \in Nat, t \in Nat : k = n \div m /\ n = k * m + t
  <2>1. n \div m \in Nat /\ n % m \in 0 .. m - 1 /\ n = (n \div m) * m + (n % m)
    BY QuotientAndRest
  <2>2. n % m \in Nat
    BY <2>1
  <2>3. QED
    BY <2>1, <2>2
<1>2. PICK l \in Nat : l = i - j
  OBVIOUS
<1>3. PICK v \in Nat \ {0}, w \in Nat \ {0} : v = Weight(l) /\ w = Weight(j)
  <2>1. Weight(l) \in Nat \ {0}
    BY WeightFacts
  <2>2. Weight(j) \in Nat \ {0}
    BY WeightFacts
  <2>3. QED
    BY <2>1, <2>2
<1>4. n < w * v
  <2>1. Weight(i) = Weight(j) * Weight(i - j)
    BY WeightSplit
  <2>2. QED
    BY <1>2, <1>3, <2>1
<1>5. ASSUME k >= v PROVE FALSE
  <2>1. PICK d \in Nat, e \in Nat : k = v + d /\ m = w + e
    <3>1. k - v \in Nat /\ k = v + (k - v) /\ m - w \in Nat /\ m = w + (m - w)
      BY <1>3, <1>5
    <3>2. QED
      BY <3>1
  <2>2. (v + d) * (w + e) = w * v + (v * e + d * w + d * e)
    OBVIOUS
  <2>3. v * e \in Nat /\ d * w \in Nat /\ d * e \in Nat /\ w * v \in Nat
    OBVIOUS
  <2>4. n >= w * v
    BY <1>1, <2>1, <2>2, <2>3
  <2>5. QED
    BY <1>4, <2>3, <2>4
<1>6. k < v
  BY <1>5
<1>7. QED
  BY <1>1, <1>2, <1>3, <1>6

(* The fraction a limited division rounds.                                 *)
Shift1(a, b, prec) == MAX(0, a.exp - b.exp - LimitExp(prec))
Shift2(a, b, prec) == MAX(0, LimitExp(prec) - (a.exp - b.exp))

Dividend(a, b, prec) == a.coeff * Weight(Shift1(a, b, prec))
Divisor(a, b, prec) == b.coeff * Weight(Shift2(a, b, prec))
GuardUnit(prec) == Power(10, DEC_DIGITS_PER_DIGIT - (prec % DEC_DIGITS_PER_DIGIT))

(* e is the exponent of the guard digit, h are its places not wanted.      *)
LimitIs(prec, e, h) ==
  /\ e = LimitExp(prec) /\ e \in INT32_MIN .. FPDEC_MAX_EXP /\ e \in Int
  /\ h = DEC_DIGITS_PER_DIGIT - (prec % DEC_DIGITS_PER_DIGIT) /\ h \in Nat \ {0} /\ h =< DEC_DIGITS_PER_DIGIT
  /\ Place(e) + h = -prec
  /\ prec % DEC_DIGITS_PER_DIGIT \in Nat /\ prec % DEC_DIGITS_PER_DIGIT < DEC_DIGITS_PER_DIGIT
  /\ prec \div DEC_DIGITS_PER_DIGIT \in Nat
  /\ prec = Place(prec \div DEC_DIGITS_PER_DIGIT) + (prec % DEC_DIGITS_PER_DIGIT)

LEMMA LimitFacts ==
  ASSUME NEW prec \in 0 .. FPDEC_MAX_DEC_PREC
  PROVE  LimitIs(prec, LimitExp(prec), DEC_DIGITS_PER_DIGIT - (prec % DEC_DIGITS_PER_DIGIT))
<1>1. PICK d \in Nat \ {0} : d = DEC_DIGITS_PER_DIGIT
  BY Limits
<1>2. prec \in Nat
  BY Limits
<1>3. PICK m \in Nat, t \in Nat : m = prec \div d /\ t = prec % d /\ t < d /\ prec = m * d + t
  <2>1. prec \div d \in Nat /\ prec % d \in 0 .. d - 1 /\ prec = (prec \div d) * d + (prec % d)
    BY <1>2, QuotientAndRest
  <2>2. prec % d \in Nat /\ prec % d < d
    BY <2>1
  <2>3. QED
    BY <2>1, <2>2
<1>4. PICK e \in Int : e = LimitExp(prec) /\ e = -m - 1
  BY <1>1, <1>3 DEF LimitExp
<1>5. m =< prec
  <2>1. PICK u \in Nat : d = 1 + u
    <3>1. d - 1 \in Nat /\ d = 1 + (d - 1)
      OBVIOUS
    <3>2. QED
      BY <3>1
  <2>2. m * (1 + u) = m + m * u /\ m * u \in Nat
    OBVIOUS
  <2>3. QED
    BY <1>3, <2>1, <2>2
<1>6. e \in INT32_MIN .. FPDEC_MAX_EXP
  <2>1. m =< FPDEC_MAX_EXP
    BY <1>5, Room
  <2>2. QED
    BY <1>4, <2>1, Room
<1>7. PICK h \in Nat \ {0} : h = d - t /\ h =< d
  <2>1. t < d
    BY <1>3
  <2>2. d - t \in Nat \ {0} /\ d - t =< d
    BY ONLY <2>1, t \in Nat, d \in Nat \ {0}
  <2>3. QED
    BY ONLY <2>2
<1>8. Place(e) + h = -prec
  <2>1. (-m - 1) * d = -(m * d) - d
    OBVIOUS
  <2>2. Place(e) = -(m * d) - d /\ m * d \in Nat
    BY <1>1, <1>4, <2>1 DEF Place
  <2>3. QED
    BY <1>2, <1>3, <1>7, <2>2
<1>9. prec = Place(m) + t
  BY <1>1, <1>3 DEF Place
<1>10. QED
  BY <1>1, <1>3, <1>4, <1>6, <1>7, <1>8, <1>9 DEF LimitIs

LEMMA DifferenceOfShifts ==
  ASSUME NEW u \in Int
  PROVE  MAX(0, u) \in Nat /\ MAX(0, -u) \in Nat /\ MAX(0, u) - MAX(0, -u) = u
BY DEF MAX

(* The dividend's digits are shifted by i, or the divisor's by j. *)
ShiftsAre(a, b, prec, i, j, e) ==
  /\ i = Shift1(a, b, prec) /\ i \in Nat /\ j = Shift2(a, b, prec) /\ j \in Nat
  /\ Places2(a.exp, b.exp, e, i, j)

LEMMA ShiftFacts ==
  ASSUME NEW a, a.exp \in Int, NEW b, b.exp \in Int, NEW prec, NEW e \in Int, e = LimitExp(prec)
  PROVE  ShiftsAre(a, b, prec, Shift1(a, b, prec), Shift2(a, b, prec), e)
<1>1. PICK u \in Int : u = a.exp - b.exp - e /\ -u = e - (a.exp - b.exp)
  OBVIOUS
<1>2. Shift1(a, b, prec) = MAX(0, u) /\ Shift2(a, b, prec) = MAX(0, -u)
  BY <1>1 DEF Shift1, Shift2
<1>3. MAX(0, u) \in Nat /\ MAX(0, -u) \in Nat /\ MAX(0, u) - MAX(0, -u) = u
  BY DifferenceOfShifts
<1>4. QED
  BY <1>1, <1>2, <1>3 DEF ShiftsAre, Places2

(* n / (m q) is what has to be rounded. *)
FractionIs(a, b, prec, mode, n, m, q) ==
  /\ n = Dividend(a, b, prec) /\ n \in Nat \ {0} /\ m = Divisor(a, b, prec) /\ m \in Nat \ {0}
  /\ q = GuardUnit(prec) /\ q \in Nat \ {0} /\ q % 2 = 0 /\ q >= 10
  /\ n < Weight(a.n + Shift1(a, b, prec)) /\ Weight(b.n - 1 + Shift2(a, b, prec)) =< m
  /\ RoundsQuotient(RoundedQuotient(Number(a), Number(b), prec, mode), a.sign * b.sign, n, m * q, prec, mode)

LEMMA FractionFacts ==
  ASSUME NEW a, Operand(a), a.dyn, NEW b, Operand(b), b.dyn, NEW prec \in 0 .. FPDEC_MAX_DEC_PREC, NEW mode
  PROVE  FractionIs(a, b, prec, mode, Dividend(a, b, prec), Divisor(a, b, prec), GuardUnit(prec))
<1>1. PICK e, h : LimitIs(prec, e, h)
  BY LimitFacts
<1>2. e = LimitExp(prec) /\ e \in Int /\ h \in Nat \ {0} /\ Place(e) + h = -prec
      /\ h = DEC_DIGITS_PER_DIGIT - (prec % DEC_DIGITS_PER_DIGIT)
  BY <1>1 DEF LimitIs
<1>3. PICK s \in {-1, 1}, c \in Nat \ {0}, f \in Int, l \in Nat \ {0} :
        /\ s = a.sign /\ c = a.coeff /\ f = a.exp /\ l = a.n
        /\ Weight(l - 1) =< c /\ c < Weight(l) /\ Number(a) = Canonical(s * c, Place(f))
  BY DynFacts DEF Stripped
<1>4. PICK t \in {-1, 1}, d \in Nat \ {0}, g \in Int, k \in Nat \ {0} :
        /\ t = b.sign /\ d = b.coeff /\ g = b.exp /\ k = b.n
        /\ Weight(k - 1) =< d /\ d < Weight(k) /\ Number(b) = Canonical(t * d, Place(g))
  BY DynFacts DEF Stripped
<1>5. PICK i, j : ShiftsAre(a, b, prec, i, j, e)
  BY <1>2, <1>3, <1>4, ShiftFacts
<1>6. i \in Nat /\ j \in Nat /\ i = Shift1(a, b, prec) /\ j = Shift2(a, b, prec) /\ Places2(f, g, e, i, j)
  BY <1>3, <1>4, <1>5 DEF ShiftsAre
<1>7. PICK n : n = c * Weight(i)
  OBVIOUS
<1>8. PICK m : m = d * Weight(j)
  OBVIOUS
<1>9. PICK q \in Nat \ {0} : q = Power(10, h) /\ q = GuardUnit(prec)
  BY <1>2, PowersOf10 DEF GuardUnit
<1>10. q % 2 = 0 /\ q >= 10
  <2>1. PICK k1 \in Nat : h = k1 + 1
    <3>1. h - 1 \in Nat /\ h = (h - 1) + 1
      BY <1>2
    <3>2. QED
      BY <3>1
  <2>2. PICK u \in Nat \ {0} : u = Power(10, k1)
    BY PowersOf10
  <2>3. q = 10 * u
    BY <1>9, <2>1, <2>2, PowersOf10
  <2>4. QED
    BY <2>3
<1>11. n = Dividend(a, b, prec) /\ m = Divisor(a, b, prec)
  BY <1>3, <1>4, <1>6, <1>7, <1>8 DEF Dividend, Divisor
<1>12. n \in Nat /\ Weight(l - 1 + i) =< n /\ n < Weight(l + i)
  BY <1>3, <1>6, <1>7, ShiftedBounds
<1>13. m \in Nat /\ Weight(k - 1 + j) =< m
  BY <1>4, <1>6, <1>8, ShiftedBounds
<1>14. n # 0 /\ m # 0
  <2>1. PICK u \in Nat \ {0}, v \in Nat \ {0} : u = Weight(i) /\ v = Weight(j)
    <3>1. Weight(i) \in Nat \ {0}
      BY <1>6, WeightFacts
    <3>2. Weight(j) \in Nat \ {0}
      BY <1>6, WeightFacts
    <3>3. QED
      BY <3>1, <3>2
  <2>2. c * u # 0 /\ d * v # 0
    OBVIOUS
  <2>3. QED
    BY <1>7, <1>8, <2>1, <2>2
<1>15. SameQuotient(n, m * q, c, Place(f), d, Place(g), prec)
  <2>1. prec \in Int /\ prec = -(Place(e) + h)
    <3>1. Place(e) \in Int /\ prec \in Int
      BY <1>2, PlaceFacts
    <3>2. QED
      BY <1>2, <3>1
  <2>2. c \in Nat /\ d \in Nat /\ h \in Nat
    BY <1>2
  <2>3. SameQuotient(c * Weight(i), (d * Weight(j)) * Power(10, h), c, Place(f), d, Place(g), prec)
    BY <1>2, <1>6, <2>1, <2>2, ShiftedQuotient
  <2>4. QED
    BY <1>7, <1>8, <1>9, <2>3
<1>16. RoundsQuotient(RoundedQuotient(Number(a), Number(b), prec, mode), s * t, n, m * q, prec, mode)
  <2>1. PICK f1 \in Int, g1 \in Int : f1 = Place(f) /\ g1 = Place(g)
    BY PlaceFacts
  <2>2. PICK w \in Nat \ {0} : w = m * q
    BY <1>13, <1>14
  <2>3. RoundsQuotient(RoundedQuotient(Canonical(s * c, f1), Canonical(t * d, g1), prec, mode),
                       s * t, n, w, prec, mode)
    <3>1. SameQuotient(n, w, c, f1, d, g1, prec) /\ prec \in Int
      BY <1>15, <2>1, <2>2
    <3>2. QED
      BY <1>12, <3>1, QuotientOfNumbers
  <2>4. QED
    BY <1>3, <1>4, <2>1, <2>2, <2>3
<1>17. QED
  BY <1>3, <1>4, <1>6, <1>9, <1>10, <1>11, <1>12, <1>13, <1>14, <1>16 DEF FractionIs

(* The cases where the guard digit, or the unit, is rounded as it ought to. *)
TinyIsRight(a, b, prec, mode) ==
  LET unit == u64_10_pow_n(prec % DEC_DIGITS_PER_DIGIT)
  IN  IsTiny(prec, a, b) =>
        IF unit = 1 THEN mode \notin {"HALF_DOWN", "HALF_EVEN", "HALF_UP"}
        ELSE round_qr(a.sign * b.sign, 0, 0, TRUE, unit, mode) # 1

GuardIsRight(a, b, prec) ==
  ~IsTiny(prec, a, b) =>
    LET n == Dividend(a, b, prec)
        m == Divisor(a, b, prec)
        q == GuardUnit(prec)
    IN  n % m # 0 => (n \div m) % q \notin {0, q \div 2}

LimitedOutcome(o, a, b, prec, mode) ==
  /\ o.rc = "OK" /\ Operand(o.v)
  /\ TinyIsRight(a, b, prec, mode) /\ GuardIsRight(a, b, prec) => RoundsDivision(o, a, b, prec, mode)

LEMMA GuardOutcome ==
  ASSUME NEW a, Operand(a), a.dyn, NEW b, Operand(b), b.dyn, QuotientRoom(a, b),
         NEW prec \in 0 .. FPDEC_MAX_DEC_PREC, NEW mode, ~IsTiny(prec, a, b),
         NEW o, o = FinishedIfOk(Ok(div_abs_dyn_by_dyn_limited(a.sign * b.sign, a, b, prec, mode)))
  PROVE  LimitedOutcome(o, a, b, prec, mode)
<1>1. PICK e, h : LimitIs(prec, e, h)
  BY LimitFacts
<1>2. /\ e = LimitExp(prec) /\ e \in Int /\ h \in Nat \ {0} /\ Place(e) + h = -prec
      /\ h = DEC_DIGITS_PER_DIGIT - (prec % DEC_DIGITS_PER_DIGIT) /\ h =< DEC_DIGITS_PER_DIGIT
      /\ e \in INT32_MIN .. FPDEC_MAX_EXP
  BY <1>1 DEF LimitIs
<1>3. PICK s \in {-1, 1} : s = a.sign * b.sign
  BY DynFacts
<1>4. PICK f \in Int, l \in Nat \ {0}, g \in Int, k \in Nat \ {0} :
        f = a.exp /\ l = a.n /\ g = b.exp /\ k = b.n
  BY DynFacts
<1>5. PICK i, j : ShiftsAre(a, b, prec, i, j, e)
  BY <1>2, <1>4, ShiftFacts
<1>6. i \in Nat /\ j \in Nat /\ i = Shift1(a, b, prec) /\ j = Shift2(a, b, prec) /\ i - j = f - g - e
  BY <1>4, <1>5 DEF ShiftsAre, Places2
<1>7. PICK n, m, q : n = Dividend(a, b, prec) /\ m = Divisor(a, b, prec) /\ q = GuardUnit(prec)
                     /\ FractionIs(a, b, prec, mode, n, m, q)
  BY FractionFacts
<1>8. n \in Nat \ {0} /\ m \in Nat \ {0} /\ q \in Nat \ {0} /\ q % 2 = 0
      /\ n < Weight(l + i) /\ Weight(k - 1 + j) =< m
      /\ RoundsQuotient(RoundedQuotient(Number(a), Number(b), prec, mode), s, n, m * q, prec, mode)
  BY <1>3, <1>4, <1>6, <1>7 DEF FractionIs
<1>9. ~(f + l < g + k + e)
  BY <1>2, <1>4 DEF IsTiny
<1>10. PICK i1 \in Nat, j1 \in Nat, u \in Nat \ {0} :
         /\ i1 = l + i /\ j1 = k - 1 + j /\ j1 =< i1 /\ u = i1 - j1 /\ u = l + i - k - j + 1
         /\ e + u + 1 = f + l - g - k + 2
  <2>1. l + i \in Nat /\ k - 1 + j \in Nat
    BY <1>6
  <2>2. PICK i1 \in Nat, j1 \in Nat : i1 = l + i /\ j1 = k - 1 + j
    BY <2>1
  <2>3. j1 < i1 /\ i1 - j1 = l + i - k - j + 1
    BY <1>2, <1>6, <1>9, <2>2
  <2>4. PICK u \in Nat \ {0} : u = i1 - j1
    BY <2>3
  <2>5. e + u + 1 = f + l - g - k + 2
    BY <1>2, <1>6, <2>2, <2>4
  <2>6. QED
    BY <2>2, <2>3, <2>4, <2>5
<1>11. PICK c : c = n \div m
  OBVIOUS
<1>12. c \in Nat /\ c < Weight(u)
  <2>1. n \in Nat /\ n < Weight(i1) /\ Weight(j1) =< m /\ j1 =< i1
    BY <1>8, <1>10
  <2>2. c \in Nat /\ c < Weight(i1 - j1)
    BY <1>8, <1>11, <2>1, QuotientDigits
  <2>3. QED
    BY <1>10, <2>2
<1>13. PICK d : d = Dyn(s, prec, c, u, e)
  OBVIOUS
<1>14. LimitedQuotient(s, prec, a, b) = d
  <2>1. LimitedQuotient(s, prec, a, b) = Dyn(s, prec, n \div m, a.n + Shift1(a, b, prec) - b.n - Shift2(a, b, prec) + 1, LimitExp(prec))
    BY <1>7 DEF LimitedQuotient, Dividend, Divisor, Shift1, Shift2
  <2>2. QED
    BY <1>2, <1>4, <1>6, <1>10, <1>11, <1>13, <2>1
<1>15. PICK r1 : r1 = RoundedIn(d, h, mode)
  OBVIOUS
<1>16. div_abs_dyn_by_dyn_limited(s, a, b, prec, mode) = r1
  BY <1>2, <1>14, <1>15 DEF div_abs_dyn_by_dyn_limited
<1>17. r1.dyn = TRUE
  BY <1>13, <1>15 DEF RoundedIn, Dyn
<1>18. o = fpdec_dyn_normalize(r1)
  BY <1>3, <1>16, <1>17 DEF FinishedIfOk, Finished, Ok, Returns
<1>19. PICK v : v = Rounded(s, c, Power(10, h), mode)
  OBVIOUS
<1>20. GoodPrec(o, s * v, -prec, prec)
  <2>1. PICK room \in Nat : Place(room) =< FPDEC_MAX_EXP /\ room = 2 * (ABS(a.exp) + a.n + ABS(b.exp) + b.n + 2)
    BY DEF QuotientRoom
  <2>2. e + u + 1 =< room
    <3>1. room = 2 * (ABS(f) + l + ABS(g) + k + 2) /\ ABS(f) \in Nat /\ ABS(g) \in Nat /\ f =< ABS(f) /\ -g =< ABS(g)
      BY <1>4, <2>1 DEF ABS
    <3>2. f + l - g - k + 2 =< room
      BY <3>1
    <3>3. QED
      BY <1>10, <3>2
  <2>3. h \in Nat
    BY <1>2
  <2>4. QED
    BY <1>2, <1>12, <1>13, <1>15, <1>18, <1>19, <2>1, <2>2, <2>3, RoundedGood
<1>21. o.rc = "OK" /\ Operand(o.v) /\ Number(o.v) = Canonical(s * v, -prec) /\ o.v.dec_prec = prec
  BY <1>20 DEF GoodPrec, Good
<1>22. ASSUME GuardIsRight(a, b, prec) PROVE RoundsDivision(o, a, b, prec, mode)
  <2>1. n % m # 0 => (n \div m) % q \notin {0, q \div 2}
    BY <1>7, <1>22 DEF GuardIsRight
  <2>2. GuardDecides(s, n, m, q, mode)
    BY <1>8, <2>1, GuardRounds
  <2>3. q = Power(10, h)
    BY <1>2, <1>7 DEF GuardUnit
  <2>4. Rounded(s, n, m * q, mode) = v
    BY <1>11, <1>19, <2>2, <2>3 DEF GuardDecides
  <2>5. RoundedQuotient(Number(a), Number(b), prec, mode) = Canonical(s * v, -prec)
    BY <1>8, <2>4 DEF RoundsQuotient
  <2>6. QED
    BY <1>21, <2>5 DEF RoundsDivision
<1>23. QED
  BY <1>21, <1>22 DEF LimitedOutcome

LEMMA StoredZero ==
  ASSUME NEW s \in {-1, 1}, NEW p \in 0 .. FPDEC_MAX_DEC_PREC
  PROVE  GoodPrec(Finished(Shint(s, p, 0)), s * 0, -p, p)
<1>1. PICK w \in Nat : w = 0 /\ w < SHINT_LIMIT
  BY Limits
<1>2. PICK o : o = Finished(Shint(s, p, w))
  OBVIOUS
<1>3. Remains(o, s, w, -p) /\ RestInForm(o.v, TRUE)
  BY <1>1, <1>2, StoredRest
<1>4. o.rc = "OK" /\ Number(o.v) = Canonical(s * w, -p) /\ o.v.sign = 0
  BY <1>1, <1>3 DEF Remains, SignIs
<1>5. Operand(o.v)
  BY <1>3, <1>4 DEF RestInForm, Operand
<1>6. o.v.dec_prec = p
  BY <1>1, <1>2 DEF Finished, Shint, Ok, Returns
<1>7. QED
  BY <1>1, <1>2, <1>4, <1>5, <1>6 DEF GoodPrec, Good

(* A dividend without digits in the quotient is less than the divisor. *)
LEMMA TinyFraction ==
  ASSUME NEW a, Operand(a), a.dyn, NEW b, Operand(b), b.dyn, NEW prec \in 0 .. FPDEC_MAX_DEC_PREC, NEW mode,
         IsTiny(prec, a, b), NEW n, NEW m, NEW q, FractionIs(a, b, prec, mode, n, m, q)
  PROVE  10 * n =< m * q
<1>1. PICK e, h : LimitIs(prec, e, h)
  BY LimitFacts
<1>2. e = LimitExp(prec) /\ e \in Int
  BY <1>1 DEF LimitIs
<1>3. PICK f \in Int, l \in Nat \ {0}, g \in Int, k \in Nat \ {0} :
        f = a.exp /\ l = a.n /\ g = b.exp /\ k = b.n
  BY DynFacts
<1>4. PICK i, j : ShiftsAre(a, b, prec, i, j, e)
  BY <1>2, <1>3, ShiftFacts
<1>5. i \in Nat /\ j \in Nat /\ i = Shift1(a, b, prec) /\ j = Shift2(a, b, prec) /\ i - j = f - g - e
  BY <1>3, <1>4 DEF ShiftsAre, Places2
<1>6. n \in Nat \ {0} /\ m \in Nat \ {0} /\ q \in Nat \ {0} /\ q >= 10
      /\ n < Weight(l + i) /\ Weight(k - 1 + j) =< m
  BY <1>3, <1>5 DEF FractionIs
<1>7. PICK i1 \in Nat, j1 \in Nat : i1 = l + i /\ j1 = k - 1 + j
  <2>1. l + i \in Nat /\ k - 1 + j \in Nat
    BY <1>5
  <2>2. QED
    BY <2>1
<1>8. i1 =< j1
  <2>1. f + l < g + k + e
    BY <1>2, <1>3 DEF IsTiny
  <2>2. QED
    BY <1>2, <1>5, <1>7, <2>1
<1>9. PICK u \in Nat, w \in Nat : u = Weight(i1) /\ w = Weight(j1)
  <2>1. Weight(i1) \in Nat
    BY WeightFacts
  <2>2. Weight(j1) \in Nat
    BY WeightFacts
  <2>3. QED
    BY <2>1, <2>2
<1>10. u =< w
  <2>1. Weight(i1) =< Weight(j1)
    BY <1>8, WeightSplit
  <2>2. QED
    BY <1>9, <2>1
<1>11. n =< m
  <2>1. n < u /\ w =< m
    BY <1>6, <1>7, <1>9
  <2>2. QED
    BY <1>6, <1>10, <2>1
<1>12. PICK d \in Nat : q = 10 + d
  <2>1. q - 10 \in Nat /\ q = 10 + (q - 10)
    BY <1>6
  <2>2. QED
    BY <2>1
<1>13. m * (10 + d) = 10 * m + m * d /\ m * d \in Nat
  BY <1>6
<1>14. QED
  BY <1>6, <1>11, <1>12, <1>13

LEMMA TinyOutcome ==
  ASSUME NEW a, Operand(a), a.dyn, NEW b, Operand(b), b.dyn, QuotientRoom(a, b),
         NEW prec \in 0 .. FPDEC_MAX_DEC_PREC, NEW mode, IsTiny(prec, a, b),
         NEW o, o = FinishedIfOk(Ok(div_abs_dyn_by_dyn_limited(a.sign * b.sign, a, b, prec, mode)))
  PROVE  LimitedOutcome(o, a, b, prec, mode)
<1>1. PICK k, t : k = prec \div DEC_DIGITS_PER_DIGIT /\ t = prec % DEC_DIGITS_PER_DIGIT
  OBVIOUS
<1>2. k \in Nat /\ t \in Nat /\ t < DEC_DIGITS_PER_DIGIT /\ prec = Place(k) + t
  <2>1. PICK e, h : LimitIs(prec, e, h)
    BY LimitFacts
  <2>2. QED
    BY <1>1, <2>1 DEF LimitIs
<1>3. PICK s \in {-1, 1} : s = a.sign * b.sign
  BY DynFacts
<1>4. PICK unit \in Nat \ {0} : unit = Power(10, t) /\ unit = u64_10_pow_n(prec % DEC_DIGITS_PER_DIGIT)
  BY <1>1, <1>2, PowersOf10 DEF u64_10_pow_n
<1>5. PICK w \in 0 .. 1 : w = round_qr(s, 0, 0, TRUE, unit, mode)
  BY DEF round_qr
<1>6. PICK n, m, q : FractionIs(a, b, prec, mode, n, m, q)
  BY FractionFacts
<1>7. ASSUME TinyIsRight(a, b, prec, mode) PROVE RoundedQuotient(Number(a), Number(b), prec, mode) = Canonical(s * w, -prec)
                                                 /\ (w = 1 => unit = 1)
  <2>1. IF unit = 1 THEN mode \notin Nearest ELSE w # 1
    BY <1>3, <1>4, <1>5, <1>7 DEF TinyIsRight, Nearest
  <2>2. PICK v \in Nat \ {0}, p \in Nat \ {0} : v = n /\ p = m * q
    BY <1>6 DEF FractionIs
  <2>3. 10 * v =< p
    BY <1>6, <2>2, TinyFraction
  <2>4. unit \in Nat /\ unit >= 1 /\ (unit >= 2 \/ mode \notin Nearest)
    BY <2>1
  <2>5. DecidesAway(s, v, p, unit, mode)
    BY <2>3, <2>4, DecisionAway
  <2>6. Rounded(s, v, p, mode) = w
    BY <1>5, <2>5 DEF DecidesAway
  <2>7. RoundsQuotient(RoundedQuotient(Number(a), Number(b), prec, mode), s, v, p, prec, mode)
    BY <1>3, <1>6, <2>2 DEF FractionIs
  <2>8. w = 1 => unit = 1
    BY <2>1
  <2>9. QED
    BY <2>6, <2>7, <2>8 DEF RoundsQuotient
<1>8. PICK r1 : r1 = div_abs_dyn_by_dyn_limited(s, a, b, prec, mode)
  OBVIOUS
<1>9. CASE w = 0
  <2>1. unit * w = 0
    BY <1>9
  <2>2. r1 = Shint(s, prec, 0)
    BY <1>4, <1>5, <1>8, <2>1 DEF div_abs_dyn_by_dyn_limited
  <2>3. o = Finished(Shint(s, prec, 0))
    BY <1>3, <1>8, <2>2 DEF FinishedIfOk, Ok, Returns
  <2>4. GoodPrec(o, s * 0, -prec, prec)
    BY <2>3, StoredZero
  <2>5. o.rc = "OK" /\ Operand(o.v) /\ Number(o.v) = Canonical(s * w, -prec) /\ o.v.dec_prec = prec
    BY <1>9, <2>4 DEF GoodPrec, Good
  <2>6. QED
    BY <1>7, <2>5 DEF LimitedOutcome, RoundsDivision
<1>10. CASE w = 1
  <2>1. unit * w = unit /\ unit # 0
    BY <1>10
  <2>2. PICK f \in Int : f = -k /\ f = -(prec \div DEC_DIGITS_PER_DIGIT)
    BY <1>1, <1>2
  <2>3. r1 = Dyn(s, prec, unit, 1, f)
    BY <1>4, <1>5, <1>8, <2>1, <2>2 DEF div_abs_dyn_by_dyn_limited
  <2>4. r1.dyn = TRUE /\ r1.sign = s /\ r1.coeff = unit /\ r1.exp = f /\ r1.dec_prec = prec
    BY <2>3 DEF Dyn
  <2>5. o = fpdec_dyn_normalize(r1)
    BY <1>3, <1>8, <2>4 DEF FinishedIfOk, Finished, Ok, Returns
  <2>6. PICK g \in Int, j \in Int : g = Place(f) /\ j = -prec /\ j =< g /\ j =< 0 /\ j + t = g
    <3>1. Place(k) \in Int /\ prec \in Nat
      <4>1. k \in Int
        BY <1>2
      <4>2. Place(k) \in Int
        BY <4>1, PlaceFacts
      <4>3. QED
        BY <4>2, Limits
    <3>2. Place(f) = -Place(k)
      <4>1. PICK d \in Nat : d = DEC_DIGITS_PER_DIGIT
        BY Limits
      <4>2. (-k) * d = -(k * d)
        BY <1>2
      <4>3. QED
        BY <2>2, <4>1, <4>2 DEF Place
    <3>3. PICK i \in Int : i = Place(k)
      BY <3>1
    <3>4. -i \in Int /\ -prec \in Int /\ -prec =< -i /\ -prec =< 0 /\ -prec + t = -i
      BY <1>2, <3>1, <3>3
    <3>5. QED
      BY <3>2, <3>3, <3>4
  <2>7. Canonical(s * unit, g)[2] >= j
    BY <2>6, CanonicalCovered
  <2>8. unit < Weight(1)
    <3>1. Weight(1) = Power(10, Place(1))
      <4>1. PICK one \in Nat : one = 1
        OBVIOUS
      <4>2. Weight(one) = Power(10, Place(one))
        BY WeightPower
      <4>3. QED
        BY <4>1, <4>2
    <3>2. PICK d \in Nat, ten \in Nat : d = DEC_DIGITS_PER_DIGIT /\ d = Place(1) /\ ten = 10 /\ ten >= 2
      BY Limits, Places
    <3>3. Power(ten, t) < Power(ten, d)
      BY <1>2, <3>2, PowerOrder
    <3>4. QED
      BY <1>4, <3>1, <3>2, <3>3
  <2>9. f \in INT32_MIN .. FPDEC_MAX_EXP /\ f + 1 =< FPDEC_MAX_EXP /\ Place(f + 1) =< FPDEC_MAX_EXP
    <3>1. PICK room \in Nat : Place(room) =< FPDEC_MAX_EXP /\ room = 2 * (ABS(a.exp) + a.n + ABS(b.exp) + b.n + 2)
      BY DEF QuotientRoom
    <3>2. 1 =< room
      <4>1. a.exp \in Int /\ b.exp \in Int /\ a.n \in Nat /\ b.n \in Nat
        BY DynFacts
      <4>2. PICK i \in Nat, l \in Nat : i = ABS(a.exp) /\ l = ABS(b.exp)
        BY <4>1 DEF ABS
      <4>3. room = 2 * (i + a.n + l + b.n + 2)
        BY <3>1, <4>2
      <4>4. QED
        BY <4>1, <4>3
    <3>3. PICK f1 \in Int : f1 = f + 1 /\ f1 =< room
      BY <1>2, <2>2, <3>2
    <3>4. Place(f1) =< FPDEC_MAX_EXP /\ f1 =< FPDEC_MAX_EXP
      BY <3>1, <3>3, WithinRoom
    <3>5. k =< FPDEC_MAX_DEC_PREC
      <4>1. PICK d \in Nat \ {0} : d = DEC_DIGITS_PER_DIGIT
        BY Limits
      <4>2. PICK u \in Nat : d = 1 + u
        <5>1. d - 1 \in Nat /\ d = 1 + (d - 1)
          OBVIOUS
        <5>2. QED
          BY <5>1
      <4>3. k * (1 + u) = k + k * u /\ k * u \in Nat
        BY <1>2
      <4>4. prec = k * d + t /\ prec =< FPDEC_MAX_DEC_PREC
        BY <1>2, <4>1 DEF Place
      <4>5. QED
        BY <1>2, <4>2, <4>3, <4>4, Limits
    <3>6. QED
      BY <1>2, <2>2, <3>3, <3>4, <3>5, Room
  <2>10. Good(o, s * unit, g)
    <3>1. Canonical(r1.sign * r1.coeff, Place(r1.exp))[2] >= -r1.dec_prec
      BY <2>4, <2>6, <2>7
    <3>2. PICK one \in Nat : one = 1
      OBVIOUS
    <3>3. /\ r1.coeff \in Nat /\ r1.exp \in INT32_MIN .. FPDEC_MAX_EXP /\ r1.sign \in {-1, 1}
          /\ r1.dec_prec \in 0 .. FPDEC_MAX_DEC_PREC
          /\ r1.coeff < Weight(one) /\ r1.exp + one =< FPDEC_MAX_EXP /\ Place(r1.exp + one) =< FPDEC_MAX_EXP
      BY <2>4, <2>8, <2>9, <3>2
    <3>4. Good(fpdec_dyn_normalize(r1), r1.sign * r1.coeff, Place(r1.exp))
      BY <3>1, <3>3, NormalizedBelow
    <3>5. QED
      BY <2>4, <2>5, <2>6, <3>4
  <2>11. o.rc = "OK" /\ Operand(o.v) /\ Number(o.v) = Canonical(s * unit, g) /\ o.v.dec_prec = prec
    <3>1. o.rc = "OK" /\ Operand(o.v) /\ Number(o.v) = Canonical(s * unit, g)
      BY <2>10 DEF Good
    <3>2. QED
      BY <2>4, <2>5, <3>1, NormalizedPrec
  <2>12. ASSUME TinyIsRight(a, b, prec, mode) PROVE RoundsDivision(o, a, b, prec, mode)
    <3>1. unit = 1 /\ RoundedQuotient(Number(a), Number(b), prec, mode) = Canonical(s * 1, j)
      BY <1>7, <1>10, <2>6, <2>12
    <3>2. t = 0
      <4>1. PICK ten \in Nat, nil \in Nat : ten = 10 /\ ten >= 2 /\ nil = 0
        OBVIOUS
      <4>2. nil < t => Power(ten, nil) < Power(ten, t)
        BY <1>2, <4>1, PowerOrder
      <4>3. Power(ten, nil) = 1
        BY <4>1, PowerZero
      <4>4. QED
        BY <1>2, <1>4, <3>1, <4>1, <4>2, <4>3
    <3>3. g = j
      BY <2>6, <3>2
    <3>4. QED
      BY <2>11, <3>1, <3>3 DEF RoundsDivision
  <2>13. QED
    BY <2>11, <2>12 DEF LimitedOutcome
<1>11. w = 0 \/ w = 1
  OBVIOUS
<1>12. QED
  BY <1>9, <1>10, <1>11

LEMMA DynLimited ==
  ASSUME NEW a, Operand(a), a.dyn, NEW b, Operand(b), b.dyn, QuotientRoom(a, b),
         NEW prec \in 0 .. FPDEC_MAX_DEC_PREC, NEW mode,
         NEW o, o = FinishedIfOk(Ok(div_abs_dyn_by_dyn_limited(a.sign * b.sign, a, b, prec, mode)))
  PROVE  LimitedOutcome(o, a, b, prec, mode)
BY GuardOutcome, TinyOutcome

-----------------------------------------------------------------------------
(***************************************************************************)
(* The exact quotient: the zero digits appended to the dividend.           *)
(***************************************************************************)
ZeroStep(m) == [p \in Nat \X Nat |-> MIN(p[1] + (p[2] + 1) * (p[2] + 1), m)]

LEMMA ZeroStepFacts ==
  ASSUME NEW m \in Nat
  PROVE  /\ ZeroStep(m) \in [Nat \X Nat -> Nat]
         /\ \A v \in Nat, k \in Nat : ZeroStep(m)[<< v, k >>] = MIN(v + (k + 1) * (k + 1), m)
<1>1. \A v \in Nat, k \in Nat : MIN(v + (k + 1) * (k + 1), m) \in Nat
  <2>1. ASSUME NEW v \in Nat, NEW k \in Nat PROVE MIN(v + (k + 1) * (k + 1), m) \in Nat
    <3>1. PICK w \in Nat : w = v + (k + 1) * (k + 1)
      OBVIOUS
    <3>2. MIN(w, m) \in Nat
      BY DEF MIN
    <3>3. QED
      BY <3>1, <3>2
  <2>2. QED
    BY <2>1
<1>2. \A v \in Nat, k \in Nat : ZeroStep(m)[<< v, k >>] = MIN(v + (k + 1) * (k + 1), m)
  BY DEF ZeroStep
<1>3. \A p \in Nat \X Nat : MIN(p[1] + (p[2] + 1) * (p[2] + 1), m) \in Nat
  <2>1. ASSUME NEW p \in Nat \X Nat PROVE MIN(p[1] + (p[2] + 1) * (p[2] + 1), m) \in Nat
    <3>1. p[1] \in Nat /\ p[2] \in Nat
      OBVIOUS
    <3>2. QED
      BY <1>1, <3>1
  <2>2. QED
    BY <2>1
<1>4. QED
  BY <1>2, <1>3 DEF ZeroStep

(* The zero digits are the last of a sequence that ZeroStep makes. *)
UnfoldsTo(z1, c, m, n) ==
  \E f \in [0 .. n -> Nat] : z1 = f[n] /\ Unfolds(f, c, ZeroStep(m), n)

LEMMA ZeroDigitsUnfold ==
  ASSUME NEW a, NEW b, NEW c \in Nat, c = MAX(0, b.n + 1 - a.n), NEW m \in Nat, NEW n \in Nat
  PROVE  UnfoldsTo(ZeroDigits(a, b, m, n), c, m, n)
<1> DEFINE rec(f) == f = [i \in 0 .. n |-> IF i = 0 THEN MAX(0, b.n + 1 - a.n)
                                           ELSE MIN(f[i - 1] + (i + 1) * (i + 1), m)]
<1> DEFINE shift == CHOOSE f : rec(f)
<1>1. PICK f \in [0 .. n -> Nat] : Unfolds(f, c, ZeroStep(m), n)
  <2>1. ZeroStep(m) \in [Nat \X Nat -> Nat]
    BY ZeroStepFacts
  <2>2. QED
    BY <2>1, RecursionExists
<1>2. \A k \in 0 .. n : f[k] = IF k = 0 THEN c ELSE MIN(f[k - 1] + (k + 1) * (k + 1), m)
  <2>1. ASSUME NEW k \in 0 .. n, k # 0
        PROVE  ZeroStep(m)[<< f[k - 1], k >>] = MIN(f[k - 1] + (k + 1) * (k + 1), m)
    <3>1. k - 1 \in 0 .. n /\ k \in Nat
      BY <2>1
    <3>2. PICK v \in Nat : v = f[k - 1]
      BY <3>1
    <3>3. ZeroStep(m)[<< v, k >>] = MIN(v + (k + 1) * (k + 1), m)
      BY <3>1, ZeroStepFacts
    <3>4. QED
      BY <3>2, <3>3
  <2>2. \A k \in 0 .. n : f[k] = IF k = 0 THEN c ELSE ZeroStep(m)[<< f[k - 1], k >>]
    BY <1>1 DEF Unfolds
  <2>3. ASSUME NEW k \in 0 .. n
        PROVE  f[k] = IF k = 0 THEN c ELSE MIN(f[k - 1] + (k + 1) * (k + 1), m)
    BY <2>1, <2>2, Zenon
  <2>4. QED
    BY <2>3
<1>3. rec(f)
  <2>1. f = [k \in 0 .. n |-> f[k]]
    OBVIOUS
  <2>2. f = [k \in 0 .. n |-> IF k = 0 THEN c ELSE MIN(f[k - 1] + (k + 1) * (k + 1), m)]
    BY <1>2, <2>1, Zenon
  <2>3. QED
    BY <2>2
<1>4. rec(shift)
  BY <1>3
<1>5. ZeroDigits(a, b, m, n) = shift[n]
  BY DEF ZeroDigits
<1> HIDE DEF shift
<1>6. \A k \in 0 .. n : shift[k] = IF k = 0 THEN c ELSE MIN(shift[k - 1] + (k + 1) * (k + 1), m)
  BY <1>4
<1> DEFINE S == {k \in Nat : k =< n => shift[k] = f[k]}
<1>7. 0 \in S
  <2>1. 0 \in 0 .. n
    OBVIOUS
  <2>2. shift[0] = c /\ f[0] = c
    BY <1>2, <1>6, <2>1
  <2>3. QED
    BY <2>2
<1>8. ASSUME NEW k \in Nat, k \in S PROVE k + 1 \in S
  <2>1. SUFFICES ASSUME k + 1 =< n PROVE shift[k + 1] = f[k + 1]
    OBVIOUS
  <2>2. shift[k] = f[k]
    BY <1>8, <2>1
  <2>3. k + 1 \in 0 .. n /\ k + 1 # 0 /\ (k + 1) - 1 = k
    BY <2>1
  <2>4. PICK i : i = k + 1 /\ i \in 0 .. n /\ i # 0 /\ i - 1 = k
    BY <2>3
  <2>5. shift[i] = MIN(shift[k] + (i + 1) * (i + 1), m) /\ f[i] = MIN(f[k] + (i + 1) * (i + 1), m)
    BY <1>2, <1>6, <2>4
  <2>6. QED
    BY <2>2, <2>4, <2>5
<1> HIDE DEF S
<1>9. \A k \in Nat : k \in S
  BY <1>7, <1>8, SetInduction
<1>10. shift[n] = f[n]
  BY <1>9 DEF S
<1>11. QED
  BY <1>1, <1>5, <1>10 DEF UnfoldsTo

LEMMA ZeroDigitsNext ==
  ASSUME NEW a, NEW b, NEW c \in Nat, c = MAX(0, b.n + 1 - a.n), NEW m \in Nat, NEW n \in Nat
  PROVE  /\ ZeroDigits(a, b, m, n) \in Nat /\ (n = 0 => ZeroDigits(a, b, m, n) = c)
         /\ ZeroDigits(a, b, m, n + 1) = MIN(ZeroDigits(a, b, m, n) + (n + 2) * (n + 2), m)
<1>1. PICK f \in [0 .. n -> Nat] :
        ZeroDigits(a, b, m, n) = f[n] /\ Unfolds(f, c, ZeroStep(m), n)
  <2>1. UnfoldsTo(ZeroDigits(a, b, m, n), c, m, n)
    BY ZeroDigitsUnfold
  <2>2. QED
    BY <2>1 DEF UnfoldsTo
<1>2. PICK g \in [0 .. n + 1 -> Nat] :
        ZeroDigits(a, b, m, n + 1) = g[n + 1] /\ Unfolds(g, c, ZeroStep(m), n + 1)
  <2>1. PICK i \in Nat : i = n + 1
    OBVIOUS
  <2>2. UnfoldsTo(ZeroDigits(a, b, m, i), c, m, i)
    BY ZeroDigitsUnfold
  <2>3. QED
    BY <2>1, <2>2 DEF UnfoldsTo
<1>3. f[n] = g[n]
  <2>1. n + 1 \in Nat
    OBVIOUS
  <2>2. Unfolds(f, c, ZeroStep(m), n) /\ Unfolds(g, c, ZeroStep(m), n + 1)
    BY <1>1, <1>2
  <2>3. \A k \in Nat : k =< n /\ k =< n + 1 => f[k] = g[k]
    BY <2>1, <2>2, RecursionUnique, SMTT(60)
  <2>4. QED
    BY <2>3
<1>4. g[n + 1] = ZeroStep(m)[<< g[n], n + 1 >>]
  <2>1. PICK i \in Nat : i = n + 1 /\ i \in 0 .. n + 1 /\ i # 0 /\ i - 1 = n
    OBVIOUS
  <2>2. g[i] = IF i = 0 THEN c ELSE ZeroStep(m)[<< g[i - 1], i >>]
    <3>1. g = [k \in 0 .. n + 1 |-> IF k = 0 THEN c ELSE ZeroStep(m)[<< g[k - 1], k >>]]
      BY <1>2 DEF Unfolds
    <3>2. QED
      BY <2>1, <3>1
  <2>3. QED
    BY <2>1, <2>2
<1>5. PICK v \in Nat, k \in Nat : v = g[n] /\ k = n + 1 /\ k + 1 = n + 2
  OBVIOUS
<1>6. ZeroStep(m)[<< v, k >>] = MIN(v + (k + 1) * (k + 1), m)
  BY ZeroStepFacts
<1>7. n = 0 => f[n] = c
  BY <1>1 DEF Unfolds
<1>8. QED
  BY <1>1, <1>2, <1>3, <1>4, <1>5, <1>6, <1>7

(* They reach their limit, and are never fewer than the first ones. *)
ZerosGrow(a, b, c, m, k) ==
  LET z1 == ZeroDigits(a, b, m, k)
  IN  z1 \in Nat /\ (z1 >= k \/ z1 >= m) /\ (c =< m => z1 >= c) /\ (k = 0 => z1 = c)

LEMMA ZeroDigitsGrow ==
  ASSUME NEW a, NEW b, NEW c \in Nat, c = MAX(0, b.n + 1 - a.n), NEW m \in Nat
  PROVE  \A k \in Nat : ZerosGrow(a, b, c, m, k)
<1> DEFINE S == {k \in Nat : ZerosGrow(a, b, c, m, k)}
<1>1. 0 \in S
  <2>1. PICK k \in Nat : k = 0
    OBVIOUS
  <2>2. ZeroDigits(a, b, m, k) = c
    BY <2>1, ZeroDigitsNext
  <2>3. ZerosGrow(a, b, c, m, k)
    BY <2>1, <2>2 DEF ZerosGrow
  <2>4. QED
    BY <2>1, <2>3
<1>2. ASSUME NEW k \in Nat, k \in S PROVE k + 1 \in S
  <2>1. PICK v \in Nat : v = ZeroDigits(a, b, m, k) /\ (v >= k \/ v >= m) /\ (c =< m => v >= c)
    BY <1>2 DEF ZerosGrow
  <2>2. ZeroDigits(a, b, m, k + 1) = MIN(v + (k + 2) * (k + 2), m)
    BY <2>1, ZeroDigitsNext
  <2>3. PICK w \in Nat : w = (k + 2) * (k + 2) /\ w >= 1
    <3>1. (k + 2) * (k + 2) = k * k + 4 * k + 4 /\ k * k \in Nat
      OBVIOUS
    <3>2. QED
      BY <3>1
  <2>4. PICK u : u = MIN(v + w, m)
    OBVIOUS
  <2>5. u \in Nat /\ (u >= k + 1 \/ u >= m) /\ (c =< m => u >= c) /\ k + 1 # 0
    BY <2>1, <2>3, <2>4 DEF MIN
  <2>6. ZeroDigits(a, b, m, k + 1) = u
    BY <2>2, <2>3, <2>4
  <2>7. PICK i \in Nat : i = k + 1
    OBVIOUS
  <2>8. ZerosGrow(a, b, c, m, i)
    BY <2>5, <2>6, <2>7 DEF ZerosGrow
  <2>9. QED
    BY <2>7, <2>8
<1> HIDE DEF S
<1>3. \A k \in Nat : k \in S
  BY <1>1, <1>2, SetInduction
<1>4. QED
  BY <1>3 DEF S

(* The least number of extensions that ends the division. *)
IsExtended(q, a, b, exp, shift) ==
  LET v == a.coeff * Weight(shift)
  IN  q = [coeff |-> v \div b.coeff, n |-> a.n + shift - b.n + 1,
           exp |-> IF v % b.coeff = 0 THEN exp - shift ELSE FPDEC_MIN_EXP - 1]

LEMMA LeastExtension ==
  ASSUME NEW a, NEW b, NEW c \in Nat, c = MAX(0, b.n + 1 - a.n),
         NEW exp \in Int, NEW m \in Nat, m = exp - FPDEC_MIN_EXP
  PROVE  \E shift \in Nat : shift >= c /\ IsExtended(digits_div_max_prec(a, b, exp), a, b, exp, shift)
<1> DEFINE Leaves(s) == (a.coeff * Weight(s)) % b.coeff
           Ends(k) == LET s == ZeroDigits(a, b, m, k) IN s >= m \/ Leaves(s) = 0
           First(k) == Ends(k) /\ \A i \in 0 .. k - 1 : ~Ends(i)
           n == CHOOSE k \in 0 .. MAX(0, m) : First(k)
           shift == ZeroDigits(a, b, m, n)
<1>1. \A k \in Nat : ZerosGrow(a, b, c, m, k)
  BY ZeroDigitsGrow
<1>2. MAX(0, m) = m
  BY DEF MAX
<1>3. Ends(m)
  <2>1. ZerosGrow(a, b, c, m, m)
    BY <1>1
  <2>2. ZeroDigits(a, b, m, m) >= m
    BY <2>1 DEF ZerosGrow
  <2>3. QED
    BY <2>2
<1> DEFINE S == {k \in 0 .. m : Ends(k)}
<1>4. m \in S
  BY <1>3
<1>5. PICK k \in S : \A i \in S : k =< i
  <2>1. S \in SUBSET Nat /\ S # {}
    <3>1. S # {}
      BY <1>4
    <3> HIDE DEF Ends
    <3>2. S \in SUBSET Nat
      OBVIOUS
    <3>3. QED
      BY <3>1, <3>2
  <2> HIDE DEF S
  <2>2. QED
    BY <2>1, LeastNatural
<1>6. k \in 0 .. m /\ First(k)
  <2> HIDE DEF Ends
  <2>1. k \in 0 .. m /\ Ends(k)
    BY <1>5
  <2>2. ASSUME NEW i \in 0 .. k - 1 PROVE ~Ends(i)
    <3>1. i \in 0 .. m /\ ~(k =< i)
      BY <2>1
    <3>2. QED
      BY <1>5, <3>1
  <2>3. QED
    BY <2>1, <2>2
<1>7. n \in 0 .. m /\ First(n)
  <2> HIDE DEF First
  <2>1. QED
    BY <1>2, <1>6
<1> HIDE DEF n
<1>8. n \in Nat
  BY <1>7
<1>9. ZerosGrow(a, b, c, m, n)
  BY <1>1, <1>8
<1>10. shift \in Nat /\ (n = 0 => shift = c) /\ (c =< m => shift >= c)
  BY <1>9 DEF ZerosGrow
<1>11. n # 0 => c =< m
  <2>1. SUFFICES ASSUME n # 0, c > m PROVE FALSE
    OBVIOUS
  <2>2. PICK i \in Nat : i = 0 /\ i \in 0 .. n - 1
    BY <1>8, <2>1
  <2>3. ~Ends(i)
    BY <1>7, <2>2
  <2>4. ZerosGrow(a, b, c, m, i)
    BY <1>1
  <2>5. ZeroDigits(a, b, m, i) = c
    BY <2>2, <2>4 DEF ZerosGrow
  <2>6. QED
    BY <2>1, <2>3, <2>5
<1>12. shift >= c
  BY <1>10, <1>11
<1>13. IsExtended(digits_div_max_prec(a, b, exp), a, b, exp, shift)
  BY DEF digits_div_max_prec, IsExtended, n
<1>14. QED
  BY <1>10, <1>12, <1>13

(* Zero digits, and the decimal zeros of the digit above, are a power of ten. *)
LEMMA TrailingPlaces ==
  ASSUME NEW v \in Nat, NEW k \in Nat, NEW q \in Nat, v = Weight(k) * q, NEW w \in Nat, w = q % RADIX,
         NEW t \in Nat, t = TrailingZeros(w, DEC_DIGITS_PER_DIGIT)
  PROVE  /\ t =< DEC_DIGITS_PER_DIGIT
         /\ \E u \in Nat : MultipleIs(v, u, Power(10, Place(k) + t)) /\ (w # 0 => u % 10 # 0)
<1>1. PICK d \in Nat \ {0}, b \in Nat \ {0} : d = DEC_DIGITS_PER_DIGIT /\ b = RADIX /\ b = Power(10, d)
  <2>1. RADIX \in Nat \ {0}
    BY RadixPositive
  <2>2. QED
    BY <2>1, Limits
<1>2. PICK w1 \in Nat : t \in 0 .. d /\ w = Power(10, t) * w1 /\ (t < d => w1 % 10 # 0)
  <2>1. d \in Nat
    OBVIOUS
  <2>2. LET z1 == TrailingZeros(w, d)
            w2 == w \div Power(10, z1)
        IN  z1 \in 0 .. d /\ w2 \in Nat /\ w = Power(10, z1) * w2 /\ (z1 < d => w2 % 10 # 0)
    BY <2>1, TrailingZerosFacts
  <2>3. QED
    BY <1>1, <2>2
<1>3. PICK m \in Nat : q = m * b + w
  <2>1. q \div b \in Nat /\ q = (q \div b) * b + (q % b)
    BY QuotientAndRest
  <2>2. QED
    BY <1>1, <2>1
<1>4. PICK h \in Nat : d = t + h
  <2>1. d - t \in Nat /\ d = t + (d - t)
    BY <1>2
  <2>2. QED
    BY <2>1
<1>5. PICK p \in Nat \ {0}, p1 \in Nat \ {0}, l \in Nat, p2 \in Nat \ {0} :
        /\ p = Power(10, t) /\ p1 = Power(10, h) /\ l = Place(k) /\ p2 = Power(10, l) /\ p2 = Weight(k)
  <2>1. Place(k) \in Nat /\ Weight(k) = Power(10, Place(k))
    BY WeightPower
  <2>2. PICK l \in Nat : l = Place(k)
    BY <2>1
  <2>3. Power(10, t) \in Nat \ {0} /\ Power(10, h) \in Nat \ {0} /\ Power(10, l) \in Nat \ {0}
    BY PowersOf10
  <2>4. QED
    BY <2>1, <2>2, <2>3
<1>6. b = p * p1 /\ Power(10, l + t) = p2 * p
  <2>1. 10 \in Nat \ {0}
    OBVIOUS
  <2>2. Power(10, t + h) = Power(10, t) * Power(10, h) /\ Power(10, l + t) = Power(10, l) * Power(10, t)
    BY <2>1, PowerSum
  <2>3. QED
    BY <1>1, <1>4, <1>5, <2>2
<1>7. v = (m * p1 + w1) * (p2 * p)
  <2>1. p2 * (m * (p * p1) + p * w1) = (m * p1 + w1) * (p2 * p)
    OBVIOUS
  <2>2. v = p2 * (m * (p * p1) + p * w1)
    BY <1>2, <1>3, <1>5, <1>6
  <2>3. QED
    BY <2>1, <2>2
<1>8. m * p1 + w1 \in Nat
  OBVIOUS
<1>9. ASSUME w # 0 PROVE (m * p1 + w1) % 10 # 0
  <2>1. t < d
    <3>1. SUFFICES ASSUME t = d PROVE FALSE
      BY <1>2
    <3>2. w < b
      <4>1. q % b \in 0 .. b - 1
        BY QuotientAndRest
      <4>2. QED
        BY <1>1, <4>1
    <3>3. w = b * w1
      BY <1>1, <1>2, <3>1
    <3>4. w1 # 0
      BY <1>9, <3>3
    <3>5. PICK i \in Nat : w1 = 1 + i
      <4>1. w1 - 1 \in Nat /\ w1 = 1 + (w1 - 1)
        BY <3>4
      <4>2. QED
        BY <4>1
    <3>6. b * (1 + i) = b + b * i /\ b * i \in Nat
      OBVIOUS
    <3>7. QED
      BY <3>2, <3>3, <3>5, <3>6
  <2>2. PICK i \in Nat : h = i + 1
    <3>1. h - 1 \in Nat /\ h = (h - 1) + 1
      BY <1>4, <2>1
    <3>2. QED
      BY <3>1
  <2>3. PICK a \in Nat : a = Power(10, i) /\ p1 = 10 * a
    BY <1>5, <2>2, PowersOf10
  <2>4. m * (10 * a) = 10 * (m * a) /\ m * a \in Nat
    OBVIOUS
  <2>5. PICK l1 \in Nat : m * p1 = 10 * l1
    BY <2>3, <2>4
  <2>6. w1 % 10 # 0
    BY <1>2, <2>1
  <2>7. (10 * l1 + w1) % 10 = w1 % 10
    OBVIOUS
  <2>8. QED
    BY <2>5, <2>6, <2>7
<1>10. QED
  BY <1>1, <1>2, <1>5, <1>6, <1>7, <1>8, <1>9 DEF MultipleIs

(* The places of digits with an exponent below 0: up to the last decimal   *)
(* digit that is not 0.                                                    *)
DigitPlaces(d, s, p, j, u, h) ==
  /\ j = Place(d.exp) + h /\ p = -j /\ j = -p /\ ExactPrec(d) = AsDecPrec(p)
  /\ Canonical(s * d.coeff, Place(d.exp)) = Canonical(s * u, j)
  /\ d.coeff # 0 /\ d.coeff < Weight(d.n) => u % 10 # 0

LEMMA ExactPlaces ==
  ASSUME NEW d, d.coeff \in Nat, d.n \in Nat, d.exp \in Int, d.exp < 0, NEW s \in {-1, 1}
  PROVE  \E p \in Int, j \in Int, u \in Nat, h \in Nat : DigitPlaces(d, s, p, j, u, h)
<1>1. PICK f \in Int, c \in Nat, b \in Int : f = d.exp /\ c = d.coeff /\ b = s * c
  OBVIOUS
<1>2. PICK e \in Int : e = Place(f)
  BY PlaceFacts
<1>3. PICK k \in Nat, q \in Nat : /\ k = TrailingZeroDigits(c, d.n) /\ q = c \div Weight(k)
                                  /\ c = Weight(k) * q
                                  /\ (c # 0 /\ c < Weight(d.n) => q % RADIX # 0)
  <2>1. PICK n \in Nat : n = d.n
    OBVIOUS
  <2>2. LET k == TrailingZeroDigits(c, n)
            q == c \div Weight(k)
        IN  k \in 0 .. n /\ q \in Nat /\ c = Weight(k) * q /\ (k < n => q % RADIX # 0)
    BY TrailingZeroDigitsFacts
  <2>3. PICK k : k = TrailingZeroDigits(c, n)
    OBVIOUS
  <2>4. k \in Nat
    BY <2>2, <2>3
  <2>5. ASSUME c # 0, c < Weight(n), k = n PROVE FALSE
    <3>1. PICK q \in Nat, w \in Nat \ {0} : w = Weight(n) /\ c = w * q
      BY <2>1, <2>2, <2>3, <2>5, WeightFacts
    <3>2. q # 0
      BY <2>5, <3>1
    <3>3. PICK i \in Nat : q = 1 + i
      <4>1. q - 1 \in Nat /\ q = 1 + (q - 1)
        BY <3>2
      <4>2. QED
        BY <4>1
    <3>4. w * (1 + i) = w + w * i /\ w * i \in Nat
      OBVIOUS
    <3>5. QED
      BY <2>5, <3>1, <3>3, <3>4
  <2>6. k < n \/ k = n
    BY <2>1, <2>2, <2>3
  <2>7. PICK q \in Nat : q = c \div Weight(k) /\ c = Weight(k) * q /\ (k < n => q % RADIX # 0)
    BY <2>2, <2>3
  <2>8. QED
    BY <2>1, <2>3, <2>4, <2>5, <2>6, <2>7
<1>4. PICK w \in Nat : w = q % RADIX
  <2>1. PICK n \in Nat \ {0} : n = RADIX
    BY RadixPositive
  <2>2. q % n \in 0 .. n - 1
    BY QuotientAndRest
  <2>3. QED
    BY <2>1, <2>2
<1>5. DEC_DIGITS_PER_DIGIT \in Nat
  BY Limits
<1>6. PICK t \in Nat : t = TrailingZeros(w, DEC_DIGITS_PER_DIGIT)
  BY <1>5, TrailingZerosFacts
<1>7. PICK u \in Nat, l \in Nat, h \in Nat : l = Place(k) /\ h = l + t /\ MultipleIs(c, u, Power(10, h))
                                                 /\ (w # 0 => u % 10 # 0)
  <2>1. \E u \in Nat : MultipleIs(c, u, Power(10, Place(k) + t)) /\ (w # 0 => u % 10 # 0)
    <3>1. c = Weight(k) * q
      BY <1>3
    <3>2. QED
      BY ONLY c \in Nat, k \in Nat, q \in Nat, w \in Nat, t \in Nat, <3>1, <1>4, <1>6, TrailingPlaces
  <2>2. Place(k) \in Nat
    BY WeightPower
  <2>3. QED
    BY <2>1, <2>2
<1>8. PICK p \in Int : p = -e - h
  <2>1. -e - h \in Int
    OBVIOUS
  <2>2. QED
    BY <2>1
<1>9. ExactPrec(d) = AsDecPrec(p)
  <2>1. DigitAt(c, k) = w
    BY <1>3, <1>4 DEF DigitAt
  <2>2. ExactPrec(d) = AsDecPrec(-(f + k) * DEC_DIGITS_PER_DIGIT - t)
    BY <1>1, <1>3, <1>6, <2>1 DEF ExactPrec
  <2>3. Place(f + k) = e + l /\ e + l \in Int
    BY <1>2, <1>7, PlaceFacts
  <2>4. -(f + k) * DEC_DIGITS_PER_DIGIT = -Place(f + k)
    <3>1. PICK a1 \in Int, b1 \in Nat : a1 = f + k /\ b1 = DEC_DIGITS_PER_DIGIT
      BY <1>5
    <3>2. -a1 * b1 = -(a1 * b1)
      OBVIOUS
    <3>3. QED
      BY <3>1, <3>2 DEF Place
  <2>5. -(f + k) * DEC_DIGITS_PER_DIGIT - t = p
    BY <1>7, <1>8, <2>3, <2>4
  <2>6. QED
    BY <2>2, <2>5
<1>10. Canonical(b, e) = Canonical(s * u, e + h)
  <2>1. PICK g \in Int, v \in Nat : g = s * u /\ v = Power(10, h) /\ c = u * v
    BY <1>7, PowersOf10 DEF MultipleIs
  <2>2. Canonical(g * Power(10, h), e) = Canonical(g, e + h)
    BY CanonicalScale
  <2>3. b = g * v
    <3>1. s * (u * v) = (s * u) * v
      OBVIOUS
    <3>2. QED
      BY <1>1, <2>1, <3>1
  <2>4. QED
    BY <2>1, <2>2, <2>3
<1>11. PICK j \in Int : j = e + h /\ j = -p /\ p = -j
  <2>1. e + h \in Int /\ e + h = -p /\ p = -(e + h)
    BY <1>8, SMTT(60)
  <2>2. QED
    BY <2>1
<1>12. DigitPlaces(d, s, p, j, u, h)
  BY <1>1, <1>2, <1>3, <1>4, <1>7, <1>9, <1>10, <1>11 DEF DigitPlaces
<1>13. QED
  BY <1>12

(* The precision an exact quotient gets covers its digits. *)
LEMMA ExactPrecCovers ==
  ASSUME NEW d, d.coeff \in Nat, d.n \in Nat, d.exp \in Int, d.exp > FPDEC_MIN_EXP, NEW s \in {-1, 1}
  PROVE  /\ ExactPrec(d) \in 0 .. FPDEC_MAX_DEC_PREC
         /\ Canonical(s * d.coeff, Place(d.exp))[2] >= -ExactPrec(d)
<1>1. PICK f \in Int, c \in Nat, b \in Int : f = d.exp /\ c = d.coeff /\ b = s * c
  OBVIOUS
<1>2. PICK e \in Int, i \in Int : e = Place(f) /\ i = 0
  BY PlaceFacts
<1>3. FPDEC_MAX_DEC_PREC \in Nat /\ 0 \in 0 .. FPDEC_MAX_DEC_PREC
  BY Limits
<1>4. CASE f >= 0
  <2>1. ExactPrec(d) = 0
    BY <1>1, <1>4 DEF ExactPrec
  <2>2. i =< e
    BY <1>2, <1>4, PlaceFacts, Places
  <2>3. Canonical(b, e)[2] >= i
    BY <1>2, <2>2, CanonicalCovered
  <2>4. QED
    BY <1>1, <1>2, <1>3, <2>1, <2>3
<1>5. CASE f < 0
  <2>1. d.coeff \in Nat /\ d.n \in Nat /\ d.exp \in Int /\ d.exp < 0
    BY <1>1, <1>5
  <2>2. PICK p \in Int, j \in Int, u \in Nat, h \in Nat : DigitPlaces(d, s, p, j, u, h)
    BY <2>1, ExactPlaces
  <2>3. p = -e - h
    BY <1>1, <1>2, <2>2 DEF DigitPlaces
  <2>4. ExactPrec(d) = AsDecPrec(p)
    BY <2>2 DEF DigitPlaces
  <2>5. Canonical(b, e) = Canonical(s * u, j)
    BY <1>1, <1>2, <2>2 DEF DigitPlaces
  <2>6. PICK g \in Int : j = -p /\ g = s * u
    BY <2>2 DEF DigitPlaces
  <2>7. p =< FPDEC_MAX_DEC_PREC
    <3>1. PICK b1 \in Nat \ {0}, m1 \in Nat : b1 = DEC_DIGITS_PER_DIGIT /\ m1 = FPDEC_MAX_DEC_PREC
      BY Limits
    <3>2. PICK q1 \in Nat : q1 = m1 \div b1 /\ q1 * b1 =< m1
      <4>1. m1 \div b1 \in Nat /\ m1 % b1 \in 0 .. b1 - 1 /\ m1 = (m1 \div b1) * b1 + (m1 % b1)
        BY QuotientAndRest
      <4>2. (m1 \div b1) * b1 \in Nat /\ m1 % b1 \in Nat
        BY <4>1
      <4>3. QED
        BY <4>1, <4>2
    <3>3. FPDEC_MIN_EXP = -q1 - 1
      BY <3>1, <3>2 DEF FPDEC_MIN_EXP
    <3>4. PICK n1 \in Nat : n1 = -f /\ n1 =< q1
      BY <1>1, <1>5, <3>3
    <3>5. n1 * b1 =< q1 * b1
      <4>1. PICK r1 \in Nat : q1 = n1 + r1
        <5>1. q1 - n1 \in Nat /\ q1 = n1 + (q1 - n1)
          BY <3>4
        <5>2. QED
          BY <5>1
      <4>2. (n1 + r1) * b1 = n1 * b1 + r1 * b1 /\ r1 * b1 \in Nat /\ n1 * b1 \in Nat
        OBVIOUS
      <4>3. QED
        BY <4>1, <4>2
    <3>6. -e = n1 * b1
      <4>1. (-n1) * b1 = -(n1 * b1)
        OBVIOUS
      <4>2. f = -n1
        BY <3>4
      <4>3. e = -(n1 * b1) /\ n1 * b1 \in Nat
        BY <1>2, <3>1, <4>1, <4>2 DEF Place
      <4>4. QED
        BY <4>3
    <3>7. n1 * b1 \in Nat /\ q1 * b1 \in Nat
      OBVIOUS
    <3>8. QED
      BY <2>3, <3>1, <3>2, <3>5, <3>6, <3>7
  <2>8. AsDecPrec(p) \in 0 .. FPDEC_MAX_DEC_PREC /\ (p \in 0 .. FPDEC_MAX_DEC_PREC => AsDecPrec(p) = p)
    BY AsDecPrecFacts
  <2>9. Canonical(g, j)[2] >= -AsDecPrec(p)
    <3>1. CASE p >= 0
      <4>1. AsDecPrec(p) = p
        BY <2>7, <2>8, <3>1, <1>3
      <4>2. j =< 0 /\ j =< j
        BY <2>6, <3>1
      <4>3. Canonical(g, j)[2] >= j
        BY <4>2, CanonicalCovered
      <4>4. QED
        BY <2>6, <4>1, <4>3
    <3>2. CASE p < 0
      <4>1. i =< 0 /\ i =< j
        BY <1>2, <2>6, <3>2
      <4>2. Canonical(g, j)[2] >= i
        BY <4>1, CanonicalCovered
      <4>3. Canonical(g, j)[2] \in Int
        BY CanonicalSign
      <4>4. QED
        BY <1>2, <1>3, <2>8, <4>2, <4>3
    <3>3. QED
      BY <3>1, <3>2
  <2>10. QED
    BY <1>1, <1>2, <2>4, <2>5, <2>6, <2>8, <2>9
<1>6. QED
  BY <1>1, <1>4, <1>5

(* A precision below 0, wrapped, is more than a shifted int could have.    *)
LEMMA WrappedIsDyn ==
  ASSUME NEW v, Operand(v), NEW j \in Nat \ {0}, NEW p \in Int, p = -j, v.dec_prec = AsDecPrec(p),
         NEW m \in Int \ {0}, NEW e \in Int, Number(v) = Canonical(m, e), Number(v)[2] = j
  PROVE  v.dyn
<1>1. SUFFICES ASSUME ~v.dyn PROVE FALSE
  OBVIOUS
<1>2. v.dyn = FALSE /\ v.sign # 0
  <2>1. v.dyn = FALSE
    BY <1>1 DEF Operand, Decimals
  <2>2. v.sign = 0 => Number(v) = << 0, 0 >>
    BY ZeroNumber
  <2>3. QED
    BY <2>1, <2>2
<1>3. PICK s, c, d : ShintIs(v, s, c, d)
  BY <1>2, ShintFields
<1>4. PICK i \in Int, k \in Int : d \in Nat /\ i = -d /\ k = s * c /\ k # 0 /\ Number(v) = Canonical(k, i)
  <2>1. d \in Nat /\ s * c \in Int /\ s * c # 0 /\ -d \in Int
    BY <1>3, Limits DEF ShintIs
  <2>2. QED
    BY <1>3, <2>1 DEF ShintIs
<1>5. PICK q \in Int, j1 \in Int : Canonical(k, i) = << q, j1 >> /\ q % 10 # 0 /\ i =< j1 /\ k = q * Power(10, j1 - i)
  <2>1. k \in Int /\ i \in Int /\ k # 0
    BY <1>4
  <2>2. QED
    BY ONLY <2>1, CanonicalFacts
<1>6. j1 = j
  BY <1>4, <1>5
<1>7. PICK n \in Nat, w \in Nat \ {0} : n = j + d /\ w = Power(10, n) /\ k = q * w
  <2>1. j + d \in Nat /\ j1 - i = j + d
    BY <1>4, <1>6
  <2>2. QED
    BY <1>5, <2>1, PowersOf10
<1>8. w =< c
  <2>1. c \in Nat \ {0} /\ (c = q * w \/ c = (-q) * w)
    <3>1. s \in {-1, 1} /\ c \in Nat \ {0}
      BY <1>3 DEF ShintIs
    <3>2. (-q) * w = -(q * w)
      OBVIOUS
    <3>3. QED
      BY <1>4, <1>7, <3>1, <3>2
  <2>2. PICK g \in Int : c = g * w
    <3>1. -q \in Int
      OBVIOUS
    <3>2. QED
      BY <2>1, <3>1
  <2>3. g > 0
    <3>1. SUFFICES ASSUME g =< 0 PROVE FALSE
      OBVIOUS
    <3>2. PICK h \in Nat : g = -h
      <4>1. -g \in Nat /\ g = -(-g)
        BY <3>1
      <4>2. QED
        BY <4>1
    <3>3. (-h) * w = -(h * w) /\ h * w \in Nat
      OBVIOUS
    <3>4. QED
      BY <2>1, <2>2, <3>2, <3>3
  <2>4. PICK h \in Nat : g = 1 + h
    <3>1. g - 1 \in Nat /\ g = 1 + (g - 1)
      BY <2>3
    <3>2. QED
      BY <3>1
  <2>5. (1 + h) * w = w + h * w /\ h * w \in Nat
    OBVIOUS
  <2>6. QED
    BY <2>1, <2>2, <2>4, <2>5
<1>9. n >= FPDEC_MAX_DEC_PREC + 1
  <2>1. PICK l \in Nat \ {0} : l = FPDEC_MAX_DEC_PREC + 1
    BY Limits
  <2>2. d = p % l
    BY <1>3, <2>1 DEF ShintIs, AsDecPrec
  <2>3. PICK t \in Int : p = t * l + d
    <3>1. p \div l \in Int /\ p = (p \div l) * l + (p % l)
      BY QuotientAndRest
    <3>2. QED
      BY <2>2, <3>1
  <2>4. PICK u \in Int : u = -t
    <3>1. -t \in Int
      OBVIOUS
    <3>2. QED
      BY <3>1
  <2>5. u * l = n
    <3>1. (-t) * l = -(t * l) /\ t * l \in Int
      OBVIOUS
    <3>2. PICK a \in Int : a = t * l /\ u * l = -a /\ p = a + d
      BY <2>3, <2>4, <3>1
    <3>3. n = j + d /\ d \in Nat
      BY <1>4, <1>7
    <3>4. QED
      BY <3>2, <3>3
  <2>6. u > 0
    <3>1. SUFFICES ASSUME u =< 0 PROVE FALSE
      OBVIOUS
    <3>2. PICK h \in Nat : u = -h
      <4>1. -u \in Nat /\ u = -(-u)
        BY <3>1
      <4>2. QED
        BY <4>1
    <3>3. (-h) * l = -(h * l) /\ h * l \in Nat
      OBVIOUS
    <3>4. n > 0
      BY <1>4, <1>7
    <3>5. QED
      BY <2>5, <3>2, <3>3, <3>4
  <2>7. PICK h \in Nat : u = 1 + h
    <3>1. u - 1 \in Nat /\ u = 1 + (u - 1)
      BY <2>6
    <3>2. QED
      BY <3>1
  <2>8. (1 + h) * l = l + h * l /\ h * l \in Nat
    OBVIOUS
  <2>9. QED
    BY <2>1, <2>5, <2>7, <2>8
<1>10. SHINT_LIMIT =< w
  <2>1. PICK l \in Nat : l = DEC_DIGITS_PER_DIGIT + MAX_DEC_PREC_FOR_SHINT + 1 /\ l =< n
    <3>1. DEC_DIGITS_PER_DIGIT + MAX_DEC_PREC_FOR_SHINT + 1 \in Nat
      BY Limits
    <3>2. DEC_DIGITS_PER_DIGIT + MAX_DEC_PREC_FOR_SHINT + 1 =< FPDEC_MAX_DEC_PREC + 1
      BY DivisionAssumption, Limits
    <3>3. QED
      BY <1>9, <3>1, <3>2, Limits
  <2>2. SHINT_LIMIT < Power(10, l)
    BY <2>1, ShintRange
  <2>3. Power(10, l) =< Power(10, n)
    <3>1. 10 \in Nat \ {0}
      OBVIOUS
    <3>2. QED
      BY <2>1, <3>1, PowerDivides
  <2>4. Power(10, l) \in Nat /\ SHINT_LIMIT \in Nat
    BY PowersOf10, Limits
  <2>5. QED
    BY <1>7, <2>2, <2>3, <2>4
<1>11. c < SHINT_LIMIT /\ c \in Nat /\ SHINT_LIMIT \in Nat
  BY <1>3, Limits DEF ShintIs
<1>12. QED
  BY <1>8, <1>10, <1>11

(* The precision an exact quotient gets is that of its digits, unless it   *)
(* is a multiple of 10.                                                    *)
LEMMA ExactPrecConcise ==
  ASSUME NEW d, d.coeff \in Nat \ {0}, d.n \in Nat, d.coeff < Weight(d.n), d.exp \in Int, NEW s \in {-1, 1},
         NEW v, Operand(v), Number(v) = Canonical(s * d.coeff, Place(d.exp)), v.dec_prec = ExactPrec(d),
         NEW least \in Int
  PROVE  IsConcise(v, least)
<1>1. PICK m \in Int \ {0}, e \in Int : m = s * d.coeff /\ e = Place(d.exp)
  <2>1. PICK c \in Nat \ {0} : c = d.coeff
    OBVIOUS
  <2>2. s * c \in Int \ {0}
    OBVIOUS
  <2>3. QED
    BY <2>1, <2>2, PlaceFacts
<1>2. PICK i \in Int : i = Number(v)[2]
  BY <1>1, CanonicalSign
<1>3. CASE d.exp >= 0
  <2>1. v.dec_prec = 0
    BY <1>3 DEF ExactPrec
  <2>2. 0 =< MAX(MAX(0, -i), least)
    BY DEF MAX
  <2>3. QED
    BY <1>2, <2>1, <2>2 DEF IsConcise
<1>4. CASE d.exp < 0
  <2>1. d.coeff \in Nat
    OBVIOUS
  <2>2. PICK p \in Int, j \in Int, u \in Nat, h \in Nat : DigitPlaces(d, s, p, j, u, h)
    BY <1>4, <2>1, ExactPlaces
  <2>3. p = -j /\ v.dec_prec = AsDecPrec(p) /\ Number(v) = Canonical(s * u, j) /\ u % 10 # 0
    BY <2>2 DEF DigitPlaces
  <2>4. i = j
    BY <1>2, <2>3, PlainNumber
  <2>5. CASE j > 0
    <3>1. v.dyn
      BY <1>1, <1>2, <2>3, <2>4, <2>5, WrappedIsDyn
    <3>2. QED
      BY <1>2, <2>4, <2>5, <3>1 DEF IsConcise
  <2>6. CASE j =< 0
    <3>1. PICK l \in Nat \ {0} : l = FPDEC_MAX_DEC_PREC + 1
      BY Limits
    <3>2. p \in Nat /\ p % l \in Nat /\ p % l =< p
      <4>1. p \in Nat
        BY <2>3, <2>6
      <4>2. p \div l \in Nat /\ p % l \in 0 .. l - 1 /\ p = (p \div l) * l + (p % l)
        BY <4>1, QuotientAndRest
      <4>3. (p \div l) * l \in Nat /\ p % l \in Nat
        BY <4>2
      <4>4. QED
        BY <4>1, <4>2, <4>3
    <3>3. v.dec_prec = p % l
      BY <2>3, <3>1 DEF AsDecPrec
    <3>4. p =< MAX(MAX(0, -i), least) /\ MAX(MAX(0, -i), least) \in Int
      BY <2>3, <2>4, <3>2 DEF MAX
    <3>5. v.dec_prec =< MAX(MAX(0, -i), least)
      BY <3>2, <3>3, <3>4
    <3>6. QED
      BY <1>2, <3>5 DEF IsConcise
  <2>7. QED
    BY <2>5, <2>6
<1>5. QED
  BY <1>3, <1>4

(* Exact division of digits: the exact quotient, or an error. *)
ExactOutcome(o, a, b) ==
  /\ o.v \in Decimals /\ o.rc \in {"OK", "EXP_LIMIT_EXCEEDED", "PREC_LIMIT_EXCEEDED"}
  /\ o.rc = "OK" => Operand(o.v) /\ ExactlyDivides(o, a, b) /\ \A least \in Int : IsConcise(o.v, least)

LEMMA LimitError ==
  ASSUME NEW s \in {-1, 1}, NEW rc \in {"EXP_LIMIT_EXCEEDED", "PREC_LIMIT_EXCEEDED"}, NEW a, NEW b,
         NEW o, o = FinishedIfOk(Returns(rc, Shint(s, 0, 0)))
  PROVE  ExactOutcome(o, a, b)
<1>1. o = Returns(rc, Shint(s, 0, 0))
  BY DEF FinishedIfOk, Returns
<1>2. o.rc = rc /\ o.v = Shint(s, 0, 0)
  BY <1>1 DEF Returns
<1>3. Shint(s, 0, 0) \in Decimals
  <2>1. FPDEC_MAX_EXP \in Nat /\ INT32_MIN = -FPDEC_MAX_EXP - 1 /\ FPDEC_MAX_DEC_PREC \in Nat
    BY Room
  <2>2. 0 \in INT32_MIN .. FPDEC_MAX_EXP /\ 0 \in 0 .. FPDEC_MAX_DEC_PREC
    BY <2>1
  <2>3. s \in -1 .. 1
    OBVIOUS
  <2>4. QED
    BY <2>2, <2>3 DEF Shint, Decimals
<1>4. QED
  BY <1>2, <1>3 DEF ExactOutcome

(* Digits extended by i, divided with nothing left. *)
ShiftBetween(i, f, g, l) == i = f - g - l

QuotientTimes(s, t, k, l, d, g, c, f) ==
  Times(Canonical((s * t) * k, Place(l)), Canonical(t * d, Place(g))) = Canonical(s * c, Place(f))

LEMMA ExtendedQuotient ==
  ASSUME NEW s \in {-1, 1}, NEW t \in {-1, 1}, NEW c \in Nat \ {0}, NEW d \in Nat \ {0},
         NEW f \in Int, NEW g \in Int, NEW l \in Int, NEW i \in Nat,
         ShiftBetween(i, f, g, l), NEW k \in Nat, MultipleIs(c * Weight(i), k, d)
  PROVE  QuotientTimes(s, t, k, l, d, g, c, f)
<1>1. PICK f1 \in Int, g1 \in Int, l1 \in Int, e \in Int :
        f1 = Place(f) /\ g1 = Place(g) /\ l1 = Place(l) /\ e = -l1 /\ -e = l1
  <2>1. Place(f) \in Int /\ Place(g) \in Int /\ Place(l) \in Int
    BY PlaceFacts
  <2>2. PICK l1 \in Int : l1 = Place(l)
    BY <2>1
  <2>3. -l1 \in Int /\ -(-l1) = l1
    OBVIOUS
  <2>4. QED
    BY <2>1, <2>2, <2>3
<1>2. PICK j \in Nat, h \in Nat : j = 0 /\ h = 0
  OBVIOUS
<1>3. Places2(f, g, l, i, j)
  BY <1>2 DEF Places2, ShiftBetween
<1>4. e = -(Place(l) + h)
  BY <1>1, <1>2
<1>5. SameQuotient(c * Weight(i), (d * Weight(j)) * Power(10, h), c, f1, d, g1, e)
  BY <1>1, <1>3, <1>4, ShiftedQuotient
<1>6. Weight(j) = 1 /\ Power(10, h) = 1
  <2>1. 10 \in Nat \ {0}
    OBVIOUS
  <2>2. QED
    BY <1>2, <2>1, WeightZero, PowerZero
<1>7. PICK n \in Nat : n = c * Weight(i)
  <2>1. PICK w \in Nat \ {0} : w = Weight(i)
    BY WeightFacts
  <2>2. c * w \in Nat
    OBVIOUS
  <2>3. QED
    BY <2>1, <2>2
<1>8. SameQuotient(n, d, c, f1, d, g1, e)
  <2>1. (d * 1) * 1 = d
    OBVIOUS
  <2>2. QED
    BY <1>5, <1>6, <1>7, <2>1
<1>9. MultipleIs(n, k, d)
  BY <1>7
<1>10. IsExactQuotient(s, t, c, d, f1, g1, e, k)
  BY <1>8, <1>9, ExactQuotientIs
<1>11. QED
  BY <1>1, <1>10 DEF IsExactQuotient, QuotientTimes

(* The least exponent of a quotient is one of an int32_t. *)
LEMMA LeastExponent ==
  FPDEC_MIN_EXP \in Int /\ FPDEC_MIN_EXP >= INT32_MIN
<1>1. PICK p \in Nat, d \in Nat \ {0} : p = FPDEC_MAX_DEC_PREC /\ d = DEC_DIGITS_PER_DIGIT
  BY Room
<1>2. PICK q \in Nat : q = p \div d /\ q =< p
  <2>1. p \div d \in Nat /\ p % d \in 0 .. d - 1 /\ p = (p \div d) * d + (p % d)
    BY QuotientAndRest
  <2>2. PICK q \in Nat, k \in Nat, u \in Nat : q = p \div d /\ k = p % d /\ d = 1 + u
    <3>1. d - 1 \in Nat /\ d = 1 + (d - 1)
      OBVIOUS
    <3>2. p % d \in Nat
      BY <2>1
    <3>3. QED
      BY <2>1, <3>1, <3>2
  <2>3. q * (1 + u) = q + q * u /\ q * u \in Nat
    OBVIOUS
  <2>4. p = q * (1 + u) + k
    BY <2>1, <2>2
  <2>5. QED
    BY <2>2, <2>3, <2>4
<1>3. p =< FPDEC_MAX_EXP /\ INT32_MIN = -FPDEC_MAX_EXP - 1 /\ FPDEC_MAX_EXP \in Nat
  BY <1>1, Room
<1>4. FPDEC_MIN_EXP = -q - 1
  BY <1>1, <1>2 DEF FPDEC_MIN_EXP
<1>5. QED
  BY <1>2, <1>3, <1>4

LEMMA DynExact ==
  ASSUME NEW a, Operand(a), a.dyn, NEW b, Operand(b), b.dyn, QuotientRoom(a, b),
         NEW o, o = FinishedIfOk(div_abs_dyn_by_dyn_exact(a.sign * b.sign, a, b))
  PROVE  ExactOutcome(o, a, b)
<1>1. PICK s \in {-1, 1}, c \in Nat \ {0}, f \in Int, l \in Nat \ {0} :
        /\ s = a.sign /\ c = a.coeff /\ f = a.exp /\ l = a.n
        /\ Weight(l - 1) =< c /\ c < Weight(l) /\ Number(a) = Canonical(s * c, Place(f))
  BY DynFacts DEF Stripped
<1>2. PICK t \in {-1, 1}, d \in Nat \ {0}, g \in Int, k \in Nat \ {0} :
        /\ t = b.sign /\ d = b.coeff /\ g = b.exp /\ k = b.n
        /\ Weight(k - 1) =< d /\ d < Weight(k) /\ Number(b) = Canonical(t * d, Place(g))
  BY DynFacts DEF Stripped
<1>3. PICK v \in {-1, 1} : v = s * t
  OBVIOUS
<1>4. PICK e \in Int : e = f - g
  OBVIOUS
<1>5. FPDEC_MIN_EXP \in Int
  BY LeastExponent
<1>6. CASE e < FPDEC_MIN_EXP
  <2>1. div_abs_dyn_by_dyn_exact(v, a, b) = Returns("PREC_LIMIT_EXCEEDED", Shint(v, 0, 0))
    BY <1>1, <1>2, <1>4, <1>6 DEF div_abs_dyn_by_dyn_exact
  <2>2. QED
    BY <1>1, <1>2, <1>3, <2>1, LimitError
<1>7. CASE e >= FPDEC_MIN_EXP
  <2>1. PICK q : q = digits_div_max_prec(a, b, e)
    OBVIOUS
  <2>2. div_abs_dyn_by_dyn_exact(v, a, b) = ExactQuotient(v, q)
    BY <1>1, <1>2, <1>4, <1>5, <1>7, <2>1 DEF div_abs_dyn_by_dyn_exact
  <2>3. PICK i \in Nat : i >= k + 1 - l /\ IsExtended(q, a, b, e, i)
    <3>1. PICK m \in Nat : m = e - FPDEC_MIN_EXP
      BY <1>5, <1>7
    <3>2. PICK j \in Nat : j = MAX(0, b.n + 1 - a.n) /\ j >= k + 1 - l
      BY <1>1, <1>2 DEF MAX
    <3>3. \E i \in Nat : i >= j /\ IsExtended(digits_div_max_prec(a, b, e), a, b, e, i)
      BY <3>1, <3>2, LeastExtension
    <3>4. PICK i \in Nat : i >= j /\ IsExtended(q, a, b, e, i)
      BY <2>1, <3>3
    <3>5. i >= k + 1 - l
      BY <3>2, <3>4
    <3>6. QED
      BY <3>4, <3>5
  <2>4. PICK n \in Nat : n = c * Weight(i) /\ n < Weight(l + i)
    BY <1>1, ShiftedBounds
  <2>5. PICK u \in Nat : u = l + i - k + 1
    <3>1. l + i - k + 1 \in Nat
      BY <2>3
    <3>2. QED
      BY <3>1
  <2>6. PICK w \in Nat : w = n \div d /\ w < Weight(u)
    <3>1. PICK i1 \in Nat, j1 \in Nat : i1 = l + i /\ j1 = k - 1 /\ j1 =< i1 /\ i1 - j1 = u
      <4>1. l + i \in Nat /\ k - 1 \in Nat /\ k - 1 =< l + i /\ (l + i) - (k - 1) = u
        BY <2>3, <2>5
      <4>2. QED
        BY <4>1
    <3>2. n < Weight(i1) /\ Weight(j1) =< d
      BY <1>2, <2>4, <3>1
    <3>3. n \div d \in Nat /\ n \div d < Weight(i1 - j1)
      BY <3>1, <3>2, QuotientDigits
    <3>4. QED
      BY <3>1, <3>3
  <2>7. /\ q.coeff = w /\ q.n = u
        /\ q.exp = IF n % d = 0 THEN e - i ELSE FPDEC_MIN_EXP - 1
    <3>1. a.n + i - b.n + 1 = u
      BY <1>1, <1>2, <2>5
    <3>2. q = [coeff |-> n \div d, n |-> u,
               exp |-> IF n % d = 0 THEN e - i ELSE FPDEC_MIN_EXP - 1]
      BY <1>1, <1>2, <2>3, <2>4, <3>1 DEF IsExtended
    <3>3. QED
      BY <2>6, <3>2
  <2>8. CASE q.exp > FPDEC_MAX_EXP
    <3>1. ExactQuotient(v, q) = Returns("EXP_LIMIT_EXCEEDED", Shint(v, 0, 0))
      BY <2>8 DEF ExactQuotient
    <3>2. QED
      BY <1>1, <1>2, <1>3, <2>2, <3>1, LimitError
  <2>9. CASE ~(q.exp > FPDEC_MAX_EXP) /\ q.exp =< FPDEC_MIN_EXP
    <3>1. ExactQuotient(v, q) = Returns("PREC_LIMIT_EXCEEDED", Shint(v, 0, 0))
      BY <2>9 DEF ExactQuotient
    <3>2. QED
      BY <1>1, <1>2, <1>3, <2>2, <3>1, LimitError
  <2>10. CASE ~(q.exp > FPDEC_MAX_EXP) /\ ~(q.exp =< FPDEC_MIN_EXP)
    <3>1. ExactQuotient(v, q) = Ok(Dyn(v, ExactPrec(q), q.coeff, q.n, q.exp))
      BY <2>10 DEF ExactQuotient
    <3>2. n % d = 0 /\ q.exp = e - i
      BY <1>5, <2>7, <2>10
    <3>3. PICK h \in Int : h = e - i /\ h = q.exp
      BY <3>2
    <3>4. h > FPDEC_MIN_EXP /\ h \in INT32_MIN .. FPDEC_MAX_EXP
      <4>1. FPDEC_MAX_EXP \in Nat
        BY Room
      <4>2. INT32_MIN \in Int
        BY Room
      <4>3. QED
        BY <1>5, <2>10, <3>3, <4>1, <4>2, LeastExponent
    <3>5. /\ ExactPrec(q) \in 0 .. FPDEC_MAX_DEC_PREC
          /\ Canonical(v * w, Place(h))[2] >= -ExactPrec(q)
      <4>1. q.coeff \in Nat /\ q.n \in Nat /\ q.exp \in Int /\ q.exp > FPDEC_MIN_EXP
        BY <2>7, <3>3, <3>4
      <4>2. /\ ExactPrec(q) \in 0 .. FPDEC_MAX_DEC_PREC
            /\ Canonical(v * q.coeff, Place(q.exp))[2] >= -ExactPrec(q)
        BY <4>1, ExactPrecCovers
      <4>3. QED
        BY <2>7, <3>3, <4>2
    <3>6. PICK p : p = ExactPrec(q)
      OBVIOUS
    <3>7. PICK d1 : d1 = Dyn(v, p, w, u, h)
      OBVIOUS
    <3>8. d1.dyn = TRUE /\ d1.sign = v /\ d1.dec_prec = p /\ d1.coeff = w /\ d1.exp = h
      BY <3>7 DEF Dyn
    <3>9. o = fpdec_dyn_normalize(d1)
      <4>1. div_abs_dyn_by_dyn_exact(v, a, b) = Ok(d1)
        BY <2>2, <2>7, <3>1, <3>3, <3>6, <3>7
      <4>2. o = FinishedIfOk(Ok(d1))
        BY <1>1, <1>2, <1>3, <4>1
      <4>3. QED
        BY <3>8, <4>2 DEF FinishedIfOk, Finished, Ok, Returns
    <3>10. h + u =< FPDEC_MAX_EXP /\ Place(h + u) =< FPDEC_MAX_EXP
      <4>1. PICK room \in Nat : Place(room) =< FPDEC_MAX_EXP /\ room = 2 * (ABS(a.exp) + a.n + ABS(b.exp) + b.n + 2)
        BY DEF QuotientRoom
      <4>2. PICK j \in Int : j = h + u
        OBVIOUS
      <4>3. j =< room
        <5>1. room = 2 * (ABS(f) + l + ABS(g) + k + 2) /\ ABS(f) \in Nat /\ ABS(g) \in Nat /\ f =< ABS(f) /\ -g =< ABS(g)
          BY <1>1, <1>2, <4>1 DEF ABS
        <5>2. f - g + l - k + 1 =< room
          BY <5>1
        <5>3. QED
          BY <1>4, <2>5, <3>3, <4>2, <5>2
      <4>4. QED
        BY <4>1, <4>2, <4>3, WithinRoom
    <3>11. Good(o, v * w, Place(h))
      <4>1. /\ d1.coeff \in Nat /\ d1.exp \in INT32_MIN .. FPDEC_MAX_EXP /\ d1.sign \in {-1, 1}
            /\ d1.dec_prec \in 0 .. FPDEC_MAX_DEC_PREC
            /\ Canonical(d1.sign * d1.coeff, Place(d1.exp))[2] >= -d1.dec_prec
        BY <3>4, <3>5, <3>6, <3>8
      <4>2. d1.coeff < Weight(u) /\ d1.exp + u =< FPDEC_MAX_EXP /\ Place(d1.exp + u) =< FPDEC_MAX_EXP
        BY <2>6, <3>8, <3>10
      <4>3. Good(fpdec_dyn_normalize(d1), d1.sign * d1.coeff, Place(d1.exp))
        BY <4>1, <4>2, NormalizedBelow
      <4>4. QED
        BY <3>8, <3>9, <4>3
    <3>12. MultipleIs(c * Weight(i), w, d)
      <4>1. n = (n \div d) * d + (n % d)
        BY QuotientAndRest
      <4>2. n = w * d + 0
        BY <2>6, <3>2, <4>1
      <4>3. w * d \in Nat
        OBVIOUS
      <4>4. n = w * d
        BY <4>2, <4>3
      <4>5. QED
        BY <2>4, <4>4 DEF MultipleIs
    <3>13. QuotientTimes(s, t, w, h, d, g, c, f)
      <4>1. ShiftBetween(i, f, g, h)
        BY <1>4, <3>3 DEF ShiftBetween
      <4>2. QED
        BY <3>12, <4>1, ExtendedQuotient
    <3>14. ExactlyDivides(o, a, b)
      BY <1>1, <1>2, <1>3, <3>11, <3>13 DEF ExactlyDivides, Good, QuotientTimes
    <3>15. ASSUME NEW least \in Int PROVE IsConcise(o.v, least)
      <4>1. q.n \in Nat /\ q.exp \in Int /\ q.coeff \in Nat /\ q.coeff < Weight(q.n)
        BY <2>6, <2>7, <3>3
      <4>2. q.coeff # 0
        <5>1. SUFFICES ASSUME w = 0 PROVE FALSE
          BY <2>7
        <5>2. n = 0
          <6>1. n = (n \div d) * d + (n % d)
            BY QuotientAndRest
          <6>2. 0 * d = 0
            OBVIOUS
          <6>3. QED
            BY <2>6, <3>2, <5>1, <6>1, <6>2
        <5>3. n # 0
          <6>1. PICK a1 \in Nat \ {0} : a1 = Weight(i)
            BY WeightFacts
          <6>2. c * a1 # 0
            OBVIOUS
          <6>3. QED
            BY <2>4, <6>1, <6>2
        <5>4. QED
          BY <5>2, <5>3
      <4>3. Operand(o.v) /\ Number(o.v) = Canonical(v * q.coeff, Place(q.exp))
        BY <2>7, <3>3, <3>11 DEF Good
      <4>4. o.v.dec_prec = ExactPrec(q)
        <5>1. o.rc = "OK"
          BY <3>11 DEF Good
        <5>2. QED
          BY <3>6, <3>8, <3>9, <5>1, NormalizedPrec
      <4>5. QED
        BY <4>1, <4>2, <4>3, <4>4, ExactPrecConcise
    <3>16. QED
      BY <3>11, <3>14, <3>15, GoodInForm DEF ExactOutcome, Good
  <2>11. QED
    BY <2>8, <2>9, <2>10
<1>8. QED
  BY <1>4, <1>5, <1>6, <1>7

-----------------------------------------------------------------------------
(***************************************************************************)
(* fpdec_div of the operands, by whichever way.                            *)
(***************************************************************************)
DivResult(o, prec, mode) ==
  /\ o.v \in Decimals
  /\ o.rc \in {"OK", "ABORT", "DIVIDE_BY_ZERO", "EXP_LIMIT_EXCEEDED", "PREC_LIMIT_EXCEEDED"}
  /\ o.rc = "ABORT" => QuotientIsCut(prec)
  /\ o.rc = "OK" => y.sign # 0 /\ RestInForm(o.v, TRUE) /\ (WellFormed(o.v) \/ (prec = -1 /\ PrecIsLost))
  /\ o.rc = "OK" /\ prec = -1 /\ ~DividendWraps(-1) /\ ~PrecIsLost => ExactlyDivides(o, x, y)
  /\ o.rc = "OK" /\ prec = -1 /\ ~PrecIsLost => IsConcise(o.v, x.dec_prec - y.dec_prec)
  /\ o.rc = "OK" /\ prec >= 0 /\ x.sign # 0 /\ DividesCorrectly(prec, mode)
     => RoundsDivision(o, x, y, prec, mode)

(* The digits of a number, and the number in digits. *)
InDigits(a, b) ==
  LET d == DigitsOf(a)
  IN  /\ Operand(b) /\ b.dyn /\ b.sign = a.sign /\ Number(b) = Number(a)
      /\ b.coeff = d.coeff /\ b.n = d.n /\ b.exp = d.exp
      /\ d.coeff \in Nat \ {0} /\ d.n \in Nat \ {0} /\ d.exp \in Int

LEMMA NumberInDigits ==
  ASSUME NEW a, Operand(a), a.sign # 0
  PROVE  InDigits(a, AsDyn(a))
<1>1. PICK b : b = AsDyn(a)
  OBVIOUS
<1>2. Operand(b) /\ b.dyn /\ b.sign = a.sign /\ Number(b) = Number(a)
  BY <1>1, AsDynOperand
<1>3. b.coeff = DigitsOf(a).coeff /\ b.n = DigitsOf(a).n /\ b.exp = DigitsOf(a).exp
  BY <1>1 DEF AsDyn, Dyn
<1>4. b.coeff \in Nat \ {0} /\ b.n \in Nat \ {0} /\ b.exp \in Int
  BY <1>2, DynFacts
<1>5. QED
  BY <1>1, <1>2, <1>3, <1>4 DEF InDigits

(* The cases where a limited division of digits is right, of either. *)
LEMMA DigitsDecide ==
  ASSUME NEW a, InDigits(x, a), NEW b, InDigits(y, b), NEW prec \in 0 .. FPDEC_MAX_DEC_PREC, NEW mode,
         ViaDigits(prec), ~TinyMisjudged(prec, mode), ~RemainderDecides(prec)
  PROVE  TinyIsRight(a, b, prec, mode) /\ GuardIsRight(a, b, prec)
<1>1. PICK c : c = DigitsOf(x)
  OBVIOUS
<1>2. PICK d : d = DigitsOf(y)
  OBVIOUS
<1>3. /\ a.coeff = c.coeff /\ a.n = c.n /\ a.exp = c.exp /\ a.sign = x.sign
      /\ b.coeff = d.coeff /\ b.n = d.n /\ b.exp = d.exp /\ b.sign = y.sign
      /\ a.coeff \in Nat /\ b.coeff \in Nat \ {0} /\ a.exp \in Int /\ b.exp \in Int
  BY <1>1, <1>2 DEF InDigits
<1>4. IsTiny(prec, a, b) <=> IsTiny(prec, c, d)
  BY <1>3 DEF IsTiny
<1>5. TinyIsRight(a, b, prec, mode)
  <2>1. SUFFICES ASSUME IsTiny(prec, a, b)
                 PROVE  IF u64_10_pow_n(prec % DEC_DIGITS_PER_DIGIT) = 1
                        THEN mode \notin {"HALF_DOWN", "HALF_EVEN", "HALF_UP"}
                        ELSE round_qr(a.sign * b.sign, 0, 0, TRUE,
                                      u64_10_pow_n(prec % DEC_DIGITS_PER_DIGIT), mode) # 1
    BY DEF TinyIsRight
  <2>2. ~(IF u64_10_pow_n(prec % DEC_DIGITS_PER_DIGIT) = 1 THEN mode \in {"HALF_DOWN", "HALF_EVEN", "HALF_UP"}
          ELSE round_qr(x.sign * y.sign, 0, 0, TRUE, u64_10_pow_n(prec % DEC_DIGITS_PER_DIGIT), mode) = 1)
    BY <1>1, <1>2, <1>4, <2>1 DEF TinyMisjudged
  <2>3. a.sign * b.sign = x.sign * y.sign
    BY <1>3
  <2>4. PICK unit : unit = u64_10_pow_n(prec % DEC_DIGITS_PER_DIGIT)
    OBVIOUS
  <2>5. CASE unit = 1
    BY <2>2, <2>4, <2>5, Zenon
  <2>6. CASE unit # 1
    BY <2>2, <2>3, <2>4, <2>6, Zenon
  <2>7. QED
    BY <2>5, <2>6
<1>6. GuardIsRight(a, b, prec)
  <2>1. PICK n, m, q : n = Dividend(a, b, prec) /\ m = Divisor(a, b, prec) /\ q = GuardUnit(prec)
    OBVIOUS
  <2>2. SUFFICES ASSUME ~IsTiny(prec, a, b), n % m # 0 PROVE (n \div m) % q \notin {0, q \div 2}
    BY <2>1 DEF GuardIsRight
  <2>3. PICK e \in Int : e = LimitExp(prec)
    <3>1. LimitIs(prec, LimitExp(prec), DEC_DIGITS_PER_DIGIT - (prec % DEC_DIGITS_PER_DIGIT))
      BY LimitFacts
    <3>2. QED
      BY <3>1 DEF LimitIs
  <2>4. PICK u \in Int : u = c.exp - d.exp - e /\ -u = e - (c.exp - d.exp)
    <3>1. PICK c1 \in Int, d1 \in Int : c1 = c.exp /\ d1 = d.exp
      BY <1>3
    <3>2. c1 - d1 - e \in Int /\ -(c1 - d1 - e) = e - (c1 - d1)
      OBVIOUS
    <3>3. QED
      BY <3>1, <3>2
  <2>5. n = c.coeff * Weight(MAX(0, u)) /\ m = d.coeff * Weight(MAX(0, -u))
    BY <1>3, <2>1, <2>3, <2>4 DEF Dividend, Divisor, Shift1, Shift2
  <2>6. LimitedQuotient(1, prec, c, d).coeff = n \div m
    BY <2>3, <2>4, <2>5 DEF LimitedQuotient, Dyn
  <2>7. q = u64_10_pow_n(DEC_DIGITS_PER_DIGIT - (prec % DEC_DIGITS_PER_DIGIT))
    BY <2>1 DEF GuardUnit, u64_10_pow_n
  <2>8. ~IsTiny(prec, c, d)
    BY <1>4, <2>2
  <2>9. ~ /\ LimitedQuotient(1, prec, c, d).coeff % q \in {0, q \div 2}
          /\ (c.coeff * Weight(MAX(0, u))) % (d.coeff * Weight(MAX(0, -u))) # 0
    BY <1>1, <1>2, <2>3, <2>4, <2>7, <2>8 DEF RemainderDecides
  <2>10. QED
    BY <2>2, <2>5, <2>6, <2>9
<1>7. QED
  BY <1>5, <1>6

LEMMA DivViaDigits ==
  ASSUME Operand(x), x.sign # 0, Operand(y), y.sign # 0, QuotientRoom(DigitsOf(x), DigitsOf(y)),
         NEW prec \in -1 .. FPDEC_MAX_DEC_PREC, NEW mode, ViaDigits(prec),
         NEW o, o = FinishedIfOk(div_abs_dyn_by_dyn(x.sign * y.sign, AsDyn(x), AsDyn(y), prec, mode))
  PROVE  DivResult(o, prec, mode)
<1>1. PICK a : a = AsDyn(x) /\ InDigits(x, a)
  BY NumberInDigits
<1>2. PICK b : b = AsDyn(y) /\ InDigits(y, b)
  BY NumberInDigits
<1>3. /\ Operand(a) /\ a.dyn /\ a.sign = x.sign /\ Number(a) = Number(x)
      /\ Operand(b) /\ b.dyn /\ b.sign = y.sign /\ Number(b) = Number(y)
  BY <1>1, <1>2 DEF InDigits
<1>4. QuotientRoom(a, b)
  <2>1. a.exp = DigitsOf(x).exp /\ a.n = DigitsOf(x).n /\ b.exp = DigitsOf(y).exp /\ b.n = DigitsOf(y).n
    BY <1>1, <1>2 DEF InDigits
  <2>2. QED
    BY <2>1 DEF QuotientRoom
<1>5. o = FinishedIfOk(div_abs_dyn_by_dyn(a.sign * b.sign, a, b, prec, mode))
  BY <1>1, <1>2, <1>3
<1>6. CASE prec = -1
  <2>1. o = FinishedIfOk(div_abs_dyn_by_dyn_exact(a.sign * b.sign, a, b))
    BY <1>5, <1>6 DEF div_abs_dyn_by_dyn
  <2>2. ExactOutcome(o, a, b)
    BY <1>3, <1>4, <2>1, DynExact
  <2>3. o.v \in Decimals /\ o.rc \in {"OK", "EXP_LIMIT_EXCEEDED", "PREC_LIMIT_EXCEEDED"}
        /\ (o.rc = "OK" => Operand(o.v) /\ ExactlyDivides(o, a, b) /\ \A least \in Int : IsConcise(o.v, least))
    BY <2>2 DEF ExactOutcome
  <2>4. o.rc = "OK" => ExactlyDivides(o, x, y)
    BY <1>3, <2>3 DEF ExactlyDivides
  <2>5. o.rc = "OK" => RestInForm(o.v, TRUE) /\ WellFormed(o.v)
    BY <2>3, OperandInForm DEF Operand
  <2>6. ~(prec >= 0)
    BY <1>6
  <2>7. o.rc = "OK" => IsConcise(o.v, x.dec_prec - y.dec_prec)
    <3>1. x.dec_prec - y.dec_prec \in Int
      <4>1. x.dec_prec \in Int /\ y.dec_prec \in Int
        BY Limits DEF Operand, Decimals
      <4>2. QED
        BY <4>1
    <3>2. QED
      BY <2>3, <3>1
  <2>8. QED
    BY <2>3, <2>4, <2>5, <2>6, <2>7 DEF DivResult
<1>7. CASE prec # -1
  <2>1. prec \in 0 .. FPDEC_MAX_DEC_PREC
    BY <1>7, Limits
  <2>2. o = FinishedIfOk(Ok(div_abs_dyn_by_dyn_limited(a.sign * b.sign, a, b, prec, mode)))
    BY <1>5, <1>7 DEF div_abs_dyn_by_dyn
  <2>3. LimitedOutcome(o, a, b, prec, mode)
    BY <1>3, <1>4, <2>1, <2>2, DynLimited
  <2>4. o.rc = "OK" /\ Operand(o.v)
        /\ (TinyIsRight(a, b, prec, mode) /\ GuardIsRight(a, b, prec) => RoundsDivision(o, a, b, prec, mode))
    BY <2>3 DEF LimitedOutcome
  <2>5. RestInForm(o.v, TRUE) /\ WellFormed(o.v) /\ o.v \in Decimals
    BY <2>4, OperandInForm DEF Operand
  <2>6. ASSUME DividesCorrectly(prec, mode) PROVE RoundsDivision(o, x, y, prec, mode)
    <3>1. ~TinyMisjudged(prec, mode) /\ ~RemainderDecides(prec)
      BY <2>6 DEF DividesCorrectly
    <3>2. TinyIsRight(a, b, prec, mode) /\ GuardIsRight(a, b, prec)
      BY <1>1, <1>2, <2>1, <3>1, DigitsDecide
    <3>3. RoundsDivision(o, a, b, prec, mode)
      BY <2>4, <3>2
    <3>4. QED
      BY <1>3, <3>3 DEF RoundsDivision
  <2>7. QED
    BY <1>7, <2>4, <2>5, <2>6 DEF DivResult
<1>8. QED
  BY <1>6, <1>7

(* A shifted int by another. *)
LEMMA DivShints ==
  ASSUME Operand(x), x.sign # 0, Operand(y), y.sign # 0, Shints, Place(3) =< FPDEC_MAX_EXP,
         NEW prec \in -1 .. FPDEC_MAX_DEC_PREC, NEW mode, ~DividesAsDyn(x, y, prec),
         NEW o, o = FinishedIfOk(div_abs_shint_by_shint(x.sign * y.sign, x, y, prec, mode))
  PROVE  DivResult(o, prec, mode)
<1>1. x.dyn = FALSE /\ y.dyn = FALSE
  BY DEF Shints, Operand, Decimals
<1>2. PICK s, c, p : s = x.sign /\ ShintIs(x, s, c, p)
  BY <1>1, ShintFields
<1>3. PICK t, d, q : t = y.sign /\ ShintIs(y, t, d, q)
  BY <1>1, ShintFields
<1>4. PICK shift, v, w : /\ shift = DivShift(x, y, prec) /\ v = ScaledDividend(x, shift)
                         /\ w = ScaledDivisor(y, shift)
  OBVIOUS
<1>5. ScaledIs(x, y, prec, shift, v, w)
  BY <1>2, <1>3, <1>4, ScaledShints
<1>6. o = FinishedIfOk(div_u128(s * t, v, w, shift, prec, mode))
  BY <1>2, <1>3, <1>4 DEF div_abs_shint_by_shint
<1>7. U128Outcome(o, x, y, prec, mode, shift, v, w)
  BY <1>2, <1>3, <1>5, <1>6, ShintsDivided
<1>8. shift \in Int /\ v \in Nat /\ v < U128
  BY <1>5 DEF ScaledIs
<1>9. o.v \in Decimals /\ o.rc \in {"OK", "ABORT"}
  BY <1>7 DEF U128Outcome
<1>10. o.rc = "ABORT" => QuotientIsCut(prec)
  BY <1>4, <1>7 DEF U128Outcome, QuotientIsCut
<1>11. ~(shift > 0) /\ prec = -1 => PrecIsLost
  <2>1. SUFFICES ASSUME ~(shift > 0), prec = -1 PROVE PrecIsLost
    OBVIOUS
  <2>2. shift =< 0
    BY <1>8, <2>1
  <2>3. QED
    BY <1>4, <2>1, <2>2 DEF PrecIsLost
<1>12. o.rc = "OK" => RestInForm(o.v, TRUE) /\ (WellFormed(o.v) \/ (prec = -1 /\ PrecIsLost))
  BY <1>7, <1>11 DEF U128Outcome
<1>13. ~DividendWraps(prec) => NotWrapped(x, shift, v)
  <2>1. SUFFICES ASSUME ~DividendWraps(prec), shift > 0 PROVE v = x.coeff * Power(10, shift)
    BY DEF NotWrapped
  <2>2. v # U128 - 1
    BY <1>4, <2>1 DEF DividesAsDyn
  <2>3. QED
    BY <1>4, <2>1, <2>2 DEF DividendWraps
<1>14. ASSUME o.rc = "OK", prec = -1, ~DividendWraps(-1), ~PrecIsLost PROVE ExactlyDivides(o, x, y)
  <2>1. NotWrapped(x, shift, v) /\ shift > 0
    BY <1>11, <1>13, <1>14
  <2>2. QED
    BY <1>7, <1>14, <2>1 DEF U128Outcome
<1>15. ASSUME o.rc = "OK", prec >= 0, DividesCorrectly(prec, mode) PROVE RoundsDivision(o, x, y, prec, mode)
  <2>1. ~DividendWraps(prec) /\ ~QuotientIsCut(prec) /\ ~LowWordDecides(prec, mode)
    BY <1>15 DEF DividesCorrectly
  <2>2. NotWrapped(x, shift, v)
    BY <1>13, <2>1
  <2>3. ~(prec > MAX_DEC_PREC_FOR_SHINT /\ v \div w >= SHINT_LIMIT)
    BY <1>4, <2>1 DEF QuotientIsCut
  <2>4. ~(mode = "05UP" /\ v \div w >= U64)
    BY <1>4, <2>1 DEF LowWordDecides
  <2>5. QED
    BY <1>7, <1>15, <2>2, <2>3, <2>4 DEF U128Outcome
<1>16. ASSUME o.rc = "OK", prec = -1, ~PrecIsLost PROVE IsConcise(o.v, x.dec_prec - y.dec_prec)
  <2>1. shift > 0
    BY <1>11, <1>16
  <2>2. QED
    BY <1>7, <1>16, <2>1 DEF U128Outcome
<1>17. QED
  BY <1>9, <1>10, <1>12, <1>14, <1>15, <1>16 DEF DivResult

LEMMA DivOutcome ==
  ASSUME Operand(x), Operand(y), x.sign # 0 /\ y.sign # 0 => QuotientRoom(DigitsOf(x), DigitsOf(y)),
         NEW prec \in -1 .. FPDEC_MAX_DEC_PREC, NEW mode, NEW o, o = fpdec_div(x, y, prec, mode)
  PROVE  DivResult(o, prec, mode)
<1>1. Operand(FPDEC_ZERO) /\ Number(FPDEC_ZERO) = << 0, 0 >>
  BY ZeroIsOperand
<1>2. CASE y.sign = 0
  <2>1. o = Returns("DIVIDE_BY_ZERO", FPDEC_ZERO)
    BY <1>2 DEF fpdec_div
  <2>2. o.rc = "DIVIDE_BY_ZERO" /\ o.v \in Decimals
    BY <1>1, <2>1 DEF Returns, Operand
  <2>3. QED
    BY <2>2 DEF DivResult
<1>3. CASE y.sign # 0 /\ x.sign = 0
  <2>1. o = Ok(FPDEC_ZERO)
    BY <1>3 DEF fpdec_div
  <2>2. o.rc = "OK" /\ o.v = FPDEC_ZERO
    BY <2>1 DEF Ok, Returns
  <2>3. RestInForm(o.v, TRUE) /\ WellFormed(o.v) /\ o.v \in Decimals
    BY <1>1, <2>2, OperandInForm DEF Operand
  <2>4. ExactlyDivides(o, x, y)
    <3>1. PICK m \in Int : m = Number(y)[1]
      <4>1. PICK b : Operand(b) /\ b.dyn /\ Number(b) = Number(y)
        BY <1>3, NumberInDigits DEF InDigits
      <4>2. PICK i \in Int, e \in Int : Number(b) = Canonical(i, e)
        <5>1. b.sign \in {-1, 1} /\ b.coeff \in Nat /\ b.exp \in Int
              /\ Number(b) = Canonical(b.sign * b.coeff, Place(b.exp))
          BY <4>1, DynFacts
        <5>2. b.sign * b.coeff \in Int /\ Place(b.exp) \in Int
          <6>1. PICK s \in Int, c \in Int, f \in Int : s = b.sign /\ c = b.coeff /\ f = b.exp
            BY <5>1
          <6>2. s * c \in Int /\ Place(f) \in Int
            BY PlaceFacts
          <6>3. QED
            BY <6>1, <6>2
        <5>3. QED
          BY <5>1, <5>2
      <4>3. Canonical(i, e)[1] \in Int
        BY CanonicalSign
      <4>4. QED
        BY <4>1, <4>2, <4>3
    <3>2. Number(x) = << 0, 0 >> /\ Number(o.v) = << 0, 0 >>
      BY <1>1, <1>3, <2>2, ZeroNumber
    <3>3. 0 * m = 0
      OBVIOUS
    <3>4. QED
      BY <3>1, <3>2, <3>3, CanonicalZero DEF ExactlyDivides, Times
  <2>5. IsConcise(o.v, x.dec_prec - y.dec_prec)
    <3>1. x.dec_prec \in Int /\ y.dec_prec \in Int
      BY Limits DEF Operand, Decimals
    <3>2. o.v.dec_prec = 0 /\ Number(o.v) = << 0, 0 >>
      BY <1>1, <2>2 DEF FPDEC_ZERO, Shint
    <3>3. 0 =< MAX(MAX(0, -0), x.dec_prec - y.dec_prec)
      BY <3>1 DEF MAX
    <3>4. QED
      BY <3>2, <3>3 DEF IsConcise
  <2>6. QED
    BY <1>3, <2>2, <2>3, <2>4, <2>5 DEF DivResult
<1>4. CASE y.sign # 0 /\ x.sign # 0
  <2>1. QuotientRoom(DigitsOf(x), DigitsOf(y))
    BY <1>4
  <2>2. CASE ~Shints
    <3>1. o = FinishedIfOk(div_abs_dyn_by_dyn(x.sign * y.sign, AsDyn(x), AsDyn(y), prec, mode))
      BY <1>4, <2>2 DEF fpdec_div, Shints
    <3>2. ViaDigits(prec)
      BY <2>2 DEF ViaDigits
    <3>3. QED
      BY <1>4, <2>1, <3>1, <3>2, DivViaDigits
  <2>3. CASE Shints
    <3>1. o = FinishedIfOk(div_abs_shint_by_shint(x.sign * y.sign, x, y, prec, mode))
      BY <1>4, <2>3 DEF fpdec_div, Shints
    <3>2. CASE DividesAsDyn(x, y, prec)
      <4>1. o = FinishedIfOk(div_abs_dyn_by_dyn(x.sign * y.sign, AsDyn(x), AsDyn(y), prec, mode))
        BY <3>1, <3>2 DEF div_abs_shint_by_shint
      <4>2. ViaDigits(prec)
        BY <3>2 DEF ViaDigits
      <4>3. QED
        BY <1>4, <2>1, <4>1, <4>2, DivViaDigits
    <3>3. CASE ~DividesAsDyn(x, y, prec)
      <4>1. Place(3) =< FPDEC_MAX_EXP
        <5>1. PICK room \in Nat : /\ Place(room) =< FPDEC_MAX_EXP
                                  /\ room = 2 * (ABS(DigitsOf(x).exp) + DigitsOf(x).n + ABS(DigitsOf(y).exp) + DigitsOf(y).n + 2)
          BY <2>1 DEF QuotientRoom
        <5>2. InDigits(x, AsDyn(x)) /\ InDigits(y, AsDyn(y))
          BY <1>4, NumberInDigits
        <5>3. /\ DigitsOf(x).exp \in Int /\ DigitsOf(x).n \in Nat /\ DigitsOf(y).exp \in Int /\ DigitsOf(y).n \in Nat
          BY <5>2 DEF InDigits
        <5>4. PICK i \in Int : i = 3 /\ i =< room
          BY <5>1, <5>3 DEF ABS
        <5>5. QED
          BY <5>1, <5>4, WithinRoom
      <4>2. QED
        BY <1>4, <2>3, <3>1, <3>3, <4>1, DivShints
    <3>4. QED
      BY <3>2, <3>3
  <2>4. QED
    BY <2>2, <2>3
<1>5. QED
  BY <1>2, <1>3, <1>4

-----------------------------------------------------------------------------
(***************************************************************************)
(* Quantizing: the quotient has no fractional digits, and its product with *)
(* the quantum has those of the quantum.                                   *)
(***************************************************************************)
HasPrec(a, p) == "dec_prec" \in DOMAIN a /\ a.dec_prec = p

LEMMA FinishedPrec ==
  ASSUME NEW a, NEW p, HasPrec(a, p), NEW o, o = FinishedIfOk(Ok(a)), o.rc = "OK"
  PROVE  o.v.dec_prec = p
<1>1. o = Finished(a) /\ a.dec_prec = p
  BY DEF FinishedIfOk, Ok, Returns, HasPrec
<1>2. CASE a.dyn
  <2>1. o = fpdec_dyn_normalize(a)
    BY <1>1, <1>2 DEF Finished
  <2>2. QED
    BY <1>1, <2>1, NormalizedPrec
<1>3. CASE ~a.dyn
  <2>1. o.v = (IF a.coeff = 0 THEN [a EXCEPT !.sign = 0] ELSE a)
    BY <1>1, <1>3 DEF Finished, Ok, Returns
  <2>2. [a EXCEPT !.sign = 0].dec_prec = a.dec_prec
    BY DEF HasPrec
  <2>3. QED
    BY <1>1, <2>1, <2>2
<1>4. QED
  BY <1>2, <1>3

LEMMA LimitedPrec ==
  ASSUME NEW s, NEW a, NEW b, NEW prec, NEW mode
  PROVE  HasPrec(div_abs_dyn_by_dyn_limited(s, a, b, prec, mode), prec)
<1>1. PICK q : q = LimitedQuotient(s, prec, a, b)
  OBVIOUS
<1>2. HasPrec(q, prec)
  BY <1>1 DEF LimitedQuotient, Dyn, HasPrec
<1>3. PICK h : h = DEC_DIGITS_PER_DIGIT - (prec % DEC_DIGITS_PER_DIGIT)
  OBVIOUS
<1>4. HasPrec(RoundedIn(q, h, mode), prec)
  <2>1. PICK e, c : e = q.exp + q.n /\ c = RoundedDigits(q.coeff, q.sign, h, mode)
    OBVIOUS
  <2>2. /\ HasPrec([q EXCEPT !.exp = e, !.n = 1, !.coeff = 1], prec)
        /\ HasPrec([q EXCEPT !.coeff = c], prec)
    BY <1>2 DEF HasPrec
  <2>3. RoundedIn(q, h, mode) \in {[q EXCEPT !.exp = e, !.n = 1, !.coeff = 1], [q EXCEPT !.coeff = c]}
    BY <2>1 DEF RoundedIn
  <2>4. QED
    BY <2>2, <2>3
<1>5. \A c : HasPrec(Shint(s, prec, c), prec)
  BY DEF HasPrec, Shint
<1>6. \A c, n, e : HasPrec(Dyn(s, prec, c, n, e), prec)
  BY DEF HasPrec, Dyn
<1>7. QED
  BY <1>1, <1>3, <1>4, <1>5, <1>6 DEF div_abs_dyn_by_dyn_limited

LEMMA FromU128Prec ==
  ASSUME NEW s, NEW c
  PROVE  \E a : FromU128(s, [dec_prec |-> 0, coeff |-> c]) = Ok(a) /\ HasPrec(a, 0)
<1>1. AsDecPrec(0) = 0
  BY Limits DEF AsDecPrec
<1>2. PICK a : a = Shint(s, 0, c)
  OBVIOUS
<1>3. HasPrec(a, 0)
  BY <1>2 DEF HasPrec, Shint
<1>4. HasPrec(AsDyn(a), 0)
  BY <1>3 DEF HasPrec, AsDyn, Dyn
<1>5. FromU128(s, [dec_prec |-> 0, coeff |-> c]) = Ok(IF c < SHINT_LIMIT THEN a ELSE AsDyn(a))
  BY <1>1, <1>2 DEF FromU128
<1>6. CASE c < SHINT_LIMIT
  BY <1>3, <1>5, <1>6
<1>7. CASE ~(c < SHINT_LIMIT)
  BY <1>4, <1>5, <1>7
<1>8. QED
  BY <1>6, <1>7

(* Rounded to an integer, the quotient has the precision 0. *)
LEMMA DivPrec ==
  ASSUME NEW a, a.sign # 0, NEW b, b.sign # 0, NEW prec, prec = 0, NEW mode,
         NEW o, o = fpdec_div(a, b, prec, mode), o.rc = "OK"
  PROVE  o.v.dec_prec = 0
<1>1. PICK s : s = a.sign * b.sign
  OBVIOUS
<1>2. PICK outcome : /\ outcome = (IF ~a.dyn /\ ~b.dyn THEN div_abs_shint_by_shint(s, a, b, prec, mode)
                                   ELSE div_abs_dyn_by_dyn(s, AsDyn(a), AsDyn(b), prec, mode))
                     /\ o = FinishedIfOk(outcome)
  BY <1>1 DEF fpdec_div
<1>3. \E c : outcome = Ok(c) /\ HasPrec(c, 0)
  <2>1. ASSUME outcome = div_abs_dyn_by_dyn(s, AsDyn(a), AsDyn(b), prec, mode)
        PROVE  \E c : outcome = Ok(c) /\ HasPrec(c, 0)
    <3>1. outcome = Ok(div_abs_dyn_by_dyn_limited(s, AsDyn(a), AsDyn(b), prec, mode))
      BY <2>1 DEF div_abs_dyn_by_dyn
    <3>2. HasPrec(div_abs_dyn_by_dyn_limited(s, AsDyn(a), AsDyn(b), prec, mode), 0)
      BY LimitedPrec
    <3>3. QED
      BY <3>1, <3>2
  <2>2. ASSUME outcome = div_abs_shint_by_shint(s, a, b, prec, mode)
        PROVE  \E c : outcome = Ok(c) /\ HasPrec(c, 0)
    <3>1. CASE DividesAsDyn(a, b, prec)
      BY <2>1, <2>2, <3>1 DEF div_abs_shint_by_shint
    <3>2. CASE ~DividesAsDyn(a, b, prec)
      <4>1. PICK v, w, shift : outcome = div_u128(s, v, w, shift, prec, mode)
        BY <2>2, <3>2 DEF div_abs_shint_by_shint
      <4>2. ~(prec > MAX_DEC_PREC_FOR_SHINT) /\ prec # -1
        BY Room
      <4>3. \E c : outcome = FromU128(s, [dec_prec |-> 0, coeff |-> c])
        BY <4>1, <4>2 DEF div_u128
      <4>4. QED
        BY <4>3, FromU128Prec
    <3>3. QED
      BY <3>1, <3>2
  <2>3. CASE ~a.dyn /\ ~b.dyn
    BY <1>2, <2>2, <2>3
  <2>4. CASE ~(~a.dyn /\ ~b.dyn)
    BY <1>2, <2>1, <2>4
  <2>5. QED
    BY <2>3, <2>4
<1>4. QED
  BY <1>2, <1>3, FinishedPrec

(* A product that wraps around is not 0. *)
LEMMA WrappedIsPositive ==
  ASSUME NEW v \in Nat \ {0}, NEW w \in Nat \ {0}, w < U64, u128_imul_u64(v, w) < SHINT_LIMIT
  PROVE  u128_imul_u64(v, w) # 0
<1>1. PICK b \in Nat \ {0} : b = U64
  BY Words128
<1>2. PICK t \in Nat : t = U128 /\ t = b * b /\ U128 = b * b
  BY <1>1, Words128
<1>3. (v \div U64) * w < U64
  BY Imul
<1>4. u128_imul_u64(v, w) = (v * w) % U128
  BY <1>3, Words128, ImulType DEF u128_imul_u64
<1>5. PICK q \in Nat, r1 \in Nat : q = v \div b /\ v = b * q + r1 /\ r1 < b
  <2>1. v \div b \in Nat /\ v % b \in 0 .. b - 1 /\ v = b * (v \div b) + (v % b)
    OBVIOUS
  <2>2. QED
    BY <2>1
<1>6. q * w =< b - 1
  <2>1. q * w \in Nat
    OBVIOUS
  <2>2. QED
    BY <1>1, <1>3, <1>5, <2>1
<1>7. PICK m \in Nat : m = v * w
  OBVIOUS
<1>8. m < 2 * t
  <2>1. PICK j \in Nat : j = q * w /\ j =< b - 1
    BY <1>6
  <2>2. PICK k \in Nat : k = r1 * w /\ k =< b * (b - 1)
    <3>1. PICK i \in Nat, l \in Nat : b = r1 + i /\ b - 1 = w + l
      <4>1. b - r1 \in Nat /\ b - 1 - w \in Nat
        BY <1>1, <1>5
      <4>2. QED
        BY <4>1
    <3>2. b * (b - 1) = r1 * (w + l) + i * (b - 1)
      <4>1. (r1 + i) * (b - 1) = r1 * (b - 1) + i * (b - 1)
        OBVIOUS
      <4>2. QED
        BY <3>1, <4>1
    <3>3. r1 * (w + l) = r1 * w + r1 * l
      OBVIOUS
    <3>4. r1 * w \in Nat /\ r1 * l \in Nat /\ i * (b - 1) \in Nat
      OBVIOUS
    <3>5. r1 * w =< b * (b - 1)
      BY <3>2, <3>3, <3>4
    <3>6. QED
      BY <3>4, <3>5
  <2>3. m = b * j + k
    <3>1. (b * q + r1) * w = b * (q * w) + r1 * w
      OBVIOUS
    <3>2. QED
      BY <1>5, <1>7, <2>1, <2>2, <3>1
  <2>4. b * j =< b * (b - 1)
    <3>1. PICK i \in Nat : b - 1 = j + i
      <4>1. b - 1 - j \in Nat
        BY <2>1
      <4>2. QED
        BY <2>1, <4>1
    <3>2. b * (j + i) = b * j + b * i
      OBVIOUS
    <3>3. b * i \in Nat /\ b * j \in Nat
      OBVIOUS
    <3>4. QED
      BY <3>1, <3>2, <3>3
  <2>5. b * (b - 1) = t - b
    <3>1. b * (b - 1) = b * b - b
      OBVIOUS
    <3>2. QED
      BY <1>2, <3>1
  <2>6. b * j \in Nat
    OBVIOUS
  <2>7. QED
    BY <1>1, <2>2, <2>3, <2>4, <2>5, <2>6
<1>9. m # 0
  BY <1>7
<1>10. t # 0
  BY <1>1, <1>2
<1>11. ASSUME m % t = 0 PROVE FALSE
  <2>1. m = t
    <3>1. PICK k \in Int : k = m \div t /\ m = t * k
      <4>1. m \div t \in Int /\ m = t * (m \div t) + (m % t)
        BY <1>10
      <4>2. QED
        BY <1>11, <4>1
    <3>2. k = 1
      <4>1. k >= 1
        <5>1. k =< 0 => t * k =< 0
          BY <1>10
        <5>2. QED
          BY <1>9, <3>1, <5>1
      <4>2. k =< 1
        <5>1. ASSUME k >= 2 PROVE FALSE
          <6>1. PICK i \in Nat : k = 2 + i
            <7>1. k - 2 \in Nat
              BY <5>1
            <7>2. QED
              BY <7>1
          <6>2. t * (2 + i) = 2 * t + t * i /\ t * i \in Nat
            OBVIOUS
          <6>3. QED
            BY <1>8, <3>1, <6>1, <6>2
        <5>2. QED
          BY <5>1
      <4>3. QED
        BY <4>1, <4>2
    <3>3. QED
      BY <3>1, <3>2
  <2>2. U128 % w = 0 /\ U128 \div w = v
    <3>1. t = v * w
      BY <1>7, <2>1
    <3>2. (v * w) % w = 0 /\ (v * w) \div w = v
      OBVIOUS
    <3>3. QED
      BY <1>2, <3>1, <3>2
  <2>3. w \in 1 .. U64 - 1
    BY <1>1
  <2>4. ((U128 \div w) \div U64) * w >= U64
    BY <2>2, <2>3, DivisionAssumption
  <2>5. (v \div U64) * w >= U64
    BY <2>2, <2>4
  <2>6. (v \div U64) * w \in Int
    BY <1>1
  <2>7. QED
    BY <1>1, <1>3, <2>5, <2>6
<1>12. QED
  BY <1>2, <1>4, <1>7, <1>11

(* Operands of a product that are within the limits of a division. *)
LEMMA RoomForProduct ==
  ASSUME NEW a, Operand(a), a.sign # 0, NEW b, Operand(b), b.sign # 0,
         QuotientFits(DigitsOf(a), DigitsOf(b))
  PROVE  /\ Multiplies(a, b) /\ ~Wrapped(a, b)
         /\ ~(AsDyn(a).exp + AsDyn(b).exp > FPDEC_MAX_EXP)
         /\ ~(AsDyn(a).exp + AsDyn(b).exp < INT32_MIN)
<1>1. InDigits(a, AsDyn(a)) /\ InDigits(b, AsDyn(b))
  BY NumberInDigits
<1>2. PICK c : c = DigitsOf(a)
  OBVIOUS
<1>3. PICK d : d = DigitsOf(b)
  OBVIOUS
<1>4. PICK v \in Nat \ {0}, k \in Nat \ {0}, e \in Int, w \in Nat \ {0}, l \in Nat \ {0}, f \in Int :
        /\ c.coeff = v /\ c.n = k /\ c.exp = e /\ d.coeff = w /\ d.n = l /\ d.exp = f
  BY <1>1, <1>2, <1>3 DEF InDigits
<1>5. AsDyn(a).exp = e /\ AsDyn(b).exp = f
  BY <1>1, <1>2, <1>3, <1>4 DEF InDigits
<1>6. v < Weight(k) /\ w < Weight(l)
  <2>1. Stripped(AsDyn(a)) /\ Stripped(AsDyn(b))
    BY <1>1, DynFacts DEF InDigits
  <2>2. AsDyn(a).coeff = v /\ AsDyn(a).n = k /\ AsDyn(b).coeff = w /\ AsDyn(b).n = l
    BY <1>1, <1>2, <1>3, <1>4 DEF InDigits
  <2>3. QED
    BY <2>1, <2>2, <1>4, DigitCountRange DEF Stripped
<1>7. PICK room \in Nat : /\ room = 2 * (ABS(e) + k + ABS(f) + l + 2)
                          /\ Place(room) =< FPDEC_MAX_EXP /\ room =< FPDEC_MAX_EXP
  <2>1. c.exp \in Int /\ c.n \in Nat /\ d.exp \in Int /\ d.n \in Nat
    BY <1>4
  <2>2. QuotientRoom(c, d)
    BY <2>1, <1>2, <1>3, QuotientHasRoom
  <2>3. QED
    BY <2>2, <1>4 DEF QuotientRoom
<1>8. /\ e + f =< ABS(e) + ABS(f) /\ -(ABS(e) + ABS(f)) =< e + f
      /\ ABS(e) \in Nat /\ ABS(f) \in Nat
  BY DEF ABS
<1>9. PICK i \in Nat, j \in Nat : i = ABS(e) /\ j = ABS(f)
  BY <1>8
<1>10. Multiplies(a, b)
  <2>1. PICK h \in Int : h = k + l + 1 /\ h =< room
    BY <1>7, <1>9
  <2>2. Place(h) =< FPDEC_MAX_EXP
    BY <1>7, <2>1, WithinRoom
  <2>3. QED
    BY <1>2, <1>3, <1>4, <2>1, <2>2 DEF Multiplies, Place
<1>11. ~(e + f > FPDEC_MAX_EXP) /\ ~(e + f < INT32_MIN)
  BY <1>7, <1>8, <1>9, Room
<1>12. ~Wrapped(a, b)
  <2>1. PICK m \in Nat : m = v * w /\ m # 0 /\ m < Weight(k + l)
    BY <1>6, ProductRange
  <2>2. PICK n \in Nat : n = DigitCount[m] /\ n =< k + l
    BY <2>1, DigitCountRange, DigitCountBounds
  <2>3. PICK g : g = TrailingZeroDigits(m, n)
    OBVIOUS
  <2>4. g \in 0 .. n
    BY <2>3, TrailingZeroDigitsFacts
  <2>5. ~(e + f + g > FPDEC_MAX_EXP)
    BY <1>7, <1>8, <1>9, <2>2, <2>4, Room
  <2>6. DigitsOf(a).coeff * DigitsOf(b).coeff = m /\ DigitsOf(a).exp + DigitsOf(b).exp = e + f
    BY <1>2, <1>3, <1>4, <2>1
  <2>7. QED
    BY <2>2, <2>3, <2>5, <2>6 DEF Wrapped, WrapsInProduct
<1>13. QED
  BY <1>5, <1>10, <1>11, <1>12

LEMMA NormalizedOrNot ==
  ASSUME NEW a
  PROVE  fpdec_dyn_normalize(a).rc \in {"OK", "ABORT"}
BY DEF fpdec_dyn_normalize, Asserting, AssertionFails, Ok, Returns

(* An integer times the quantum has a result, and its precision. *)
LEMMA IntegerTimes ==
  ASSUME NEW a, Operand(a), a.sign # 0, a.dec_prec = 0, NEW b, Operand(b), b.sign # 0,
         QuotientFits(DigitsOf(a), DigitsOf(b)), NEW o, o = fpdec_mul(a, b)
  PROVE  /\ o.rc = "OK" /\ Operand(o.v) /\ o.v.dec_prec = b.dec_prec
         /\ ~Overflows(a, b) /\ ~Overflows(b, a) => Number(o.v) = Times(Number(a), Number(b))
<1>1. /\ Multiplies(a, b) /\ ~Wrapped(a, b)
      /\ ~(AsDyn(a).exp + AsDyn(b).exp > FPDEC_MAX_EXP)
      /\ ~(AsDyn(a).exp + AsDyn(b).exp < INT32_MIN)
  BY RoomForProduct
<1>2. /\ o.v \in Decimals /\ Safe(o) /\ o.rc # "ABORT"
      /\ ~Overflows(a, b) /\ ~Overflows(b, a) => Right(o, Times(Number(a), Number(b)))
  BY <1>1, MulOutcome
<1>3. PICK p \in 0 .. FPDEC_MAX_DEC_PREC : p = b.dec_prec /\ p = AsDecPrec(a.dec_prec + b.dec_prec)
  <2>1. PICK p \in 0 .. FPDEC_MAX_DEC_PREC : p = b.dec_prec
    BY DEF Operand, Decimals
  <2>2. 0 + p = p /\ p % (FPDEC_MAX_DEC_PREC + 1) = p
    BY Room
  <2>3. QED
    BY <2>1, <2>2 DEF AsDecPrec
<1>4. ~(p < a.dec_prec)
  BY Room
<1>5. Convertible(a) /\ Convertible(b)
  BY OperandConvertible
<1>6. PICK s : s = a.sign * b.sign
  OBVIOUS
<1> DEFINE shints == ~a.dyn /\ ~b.dyn /\ p =< MAX_DEC_PREC_FOR_SHINT
           first == shints /\ MulByU64Fits(b, a)
           second == shints /\ MulByU64Fits(a, b)
<1>7. o = IF first THEN Ok(Shint(s, p, u128_imul_u64(b.coeff, a.coeff)))
          ELSE IF second THEN Ok(Shint(s, p, u128_imul_u64(a.coeff, b.coeff)))
          ELSE mul_abs_dyn_by_dyn(s, p, AsDyn(a), AsDyn(b))
  BY <1>3, <1>4, <1>5, <1>6 DEF fpdec_mul, Asserting
<1>8. ASSUME shints PROVE a.coeff \in Nat \ {0} /\ b.coeff \in Nat \ {0}
  BY <1>5, <1>8 DEF Convertible, Operand, Decimals
<1>9. ASSUME NEW v \in Nat, v # 0, o = Ok(Shint(s, p, v)), shints
      PROVE  o.rc = "OK" /\ Operand(o.v) /\ o.v.dec_prec = p
  <2>1. o.rc = "OK" /\ o.v = Shint(s, p, v)
    BY <1>9 DEF Ok, Returns
  <2>2. o.v.dyn = FALSE /\ o.v.coeff = v /\ o.v.dec_prec = p
    BY <2>1 DEF Shint
  <2>3. Usable(o.v)
    BY <1>9, <2>2 DEF Usable
  <2>4. QED
    BY <1>2, <2>1, <2>2, <2>3 DEF Safe
<1>10. CASE first
  <2>1. u128_imul_u64(b.coeff, a.coeff) \in Nat /\ u128_imul_u64(b.coeff, a.coeff) # 0
    BY <1>8, <1>10, ImulType, WrappedIsPositive DEF MulByU64Fits
  <2>2. o.rc = "OK" /\ Operand(o.v) /\ o.v.dec_prec = p
    BY <1>7, <1>9, <1>10, <2>1
  <2>3. QED
    BY <1>2, <1>3, <2>2 DEF Right, Exactly
<1>11. CASE ~first /\ second
  <2>1. u128_imul_u64(a.coeff, b.coeff) \in Nat /\ u128_imul_u64(a.coeff, b.coeff) # 0
    BY <1>8, <1>11, ImulType, WrappedIsPositive DEF MulByU64Fits
  <2>2. o.rc = "OK" /\ Operand(o.v) /\ o.v.dec_prec = p
    BY <1>7, <1>9, <1>11, <2>1
  <2>3. QED
    BY <1>2, <1>3, <2>2 DEF Right, Exactly
<1>12. CASE ~first /\ ~second
  <2>1. PICK d : /\ o = fpdec_dyn_normalize(d) /\ d.dec_prec = p
    <3>1. o = mul_abs_dyn_by_dyn(s, p, AsDyn(a), AsDyn(b))
      BY <1>7, <1>12
    <3>2. \E c, n, e : o = fpdec_dyn_normalize(Dyn(s, p, c, n, e))
      BY <1>1, <3>1 DEF mul_abs_dyn_by_dyn
    <3>3. \A c, n, e : Dyn(s, p, c, n, e).dec_prec = p
      BY DEF Dyn
    <3>4. QED
      BY <3>2, <3>3
  <2>2. o.rc = "OK"
    BY <1>2, <2>1, NormalizedOrNot
  <2>3. o.v.dec_prec = p
    BY <2>1, <2>2, NormalizedPrec
  <2>4. Right(o, Times(Number(a), Number(b)))
    <3>1. PICK t \in {-1, 1} : t = a.sign * b.sign
      <4>1. a.sign \in {-1, 1} /\ b.sign \in {-1, 1}
        BY DEF Operand, Decimals
      <4>2. PICK h \in {-1, 1}, g \in {-1, 1} : h = a.sign /\ g = b.sign
        BY <4>1
      <4>3. h * g \in {-1, 1}
        BY <4>2
      <4>4. QED
        BY <4>2, <4>3
    <3>2. p = a.dec_prec + b.dec_prec
      BY <1>3
    <3>3. o = mul_abs_dyn_by_dyn(t, p, AsDyn(a), AsDyn(b))
      BY <1>6, <1>7, <1>12, <3>1
    <3>4. ~WrapsInProduct(a, b)
      BY <1>1 DEF Wrapped
    <3>5. QED
      BY <1>1, <3>1, <3>2, <3>3, <3>4, MulDyns
  <2>5. QED
    BY <1>3, <2>2, <2>3, <2>4 DEF Right, Exactly
<1>13. QED
  BY <1>10, <1>11, <1>12

LEMMA FormIsUsable ==
  ASSUME NEW a, RestInForm(a, TRUE), WellFormed(a)
  PROVE  Operand(a)
<1>1. a.coeff \in Nat /\ a.dec_prec \in 0 .. FPDEC_MAX_DEC_PREC
  BY DEF RestInForm, Decimals
<1>2. CASE a.dyn
  <2>1. a.n = DigitCount[a.coeff] /\ a.coeff % RADIX # 0
    BY <1>2 DEF WellFormed
  <2>2. a.coeff # 0
    <3>1. PICK r1 \in Nat : r1 = RADIX /\ r1 >= 10
      BY RadixPositive
    <3>2. 0 % r1 = 0
      BY <3>1
    <3>3. QED
      BY <2>1, <3>1, <3>2
  <2>3. a.n \in Nat \ {0} /\ Weight(a.n - 1) =< a.coeff
    BY <1>1, <2>1, <2>2, DigitCountRange
  <2>4. Weight(a.n - 1) \in Nat
    <3>1. PICK k \in Nat : k = a.n - 1
      BY <2>3
    <3>2. Weight(k) \in Nat
      BY WeightFacts
    <3>3. QED
      BY <3>1, <3>2
  <2>5. Usable(a)
    BY <1>1, <1>2, <2>3, <2>4 DEF Usable
  <2>6. QED
    BY <2>5 DEF RestInForm
<1>3. CASE ~a.dyn
  <2>1. Usable(a)
    BY <1>3 DEF WellFormed, Usable
  <2>2. QED
    BY <2>1 DEF RestInForm
<1>4. QED
  BY <1>2, <1>3

LEMMA QuantizeOutcome ==
  ASSUME Operand(x), Operand(y), x.sign # 0 /\ y.sign # 0 => QuotientRoom(DigitsOf(x), DigitsOf(y)),
         NEW mode, Quantizable(mode), NEW o, o = fpdec_quantize(x, y, mode)
  PROVE  LET quot == fpdec_div(x, y, 0, mode).v
         IN  /\ Operand(o.v)
             /\ o.rc \in {"OK", "DIVIDE_BY_ZERO", "EXP_LIMIT_EXCEEDED", "PREC_LIMIT_EXCEEDED"}
             /\ /\ o.rc = "OK" /\ x.sign # 0 /\ DividesCorrectly(0, mode)
                /\ ~Overflows(quot, y) /\ ~Overflows(y, quot)
                => IsQuantized(o.v, mode)
<1>1. PICK prec \in -1 .. FPDEC_MAX_DEC_PREC : prec = 0
  BY Limits
<1>2. PICK t : t = fpdec_div(x, y, prec, mode)
  OBVIOUS
<1>3. DivResult(t, prec, mode)
  BY <1>2, DivOutcome
<1>4. o = Multiplied(x, t, y)
  BY <1>1, <1>2 DEF fpdec_quantize
<1>5. t.rc \in {"OK", "DIVIDE_BY_ZERO", "EXP_LIMIT_EXCEEDED", "PREC_LIMIT_EXCEEDED"}
  <2>1. ~QuotientIsCut(prec)
    BY <1>1, Limits DEF QuotientIsCut
  <2>2. QED
    BY <1>3, <2>1 DEF DivResult
<1>6. CASE t.rc # "OK"
  <2>1. o = Returns(t.rc, x)
    BY <1>4, <1>5, <1>6 DEF Multiplied
  <2>2. o.rc = t.rc /\ o.v = x
    BY <2>1 DEF Returns
  <2>3. QED
    BY <1>5, <1>6, <2>2
<1>7. CASE t.rc = "OK"
  <2>1. o = fpdec_mul(t.v, y)
    BY <1>4, <1>7 DEF Multiplied
  <2>2. PICK q : q = t.v
    OBVIOUS
  <2>3. y.sign # 0 /\ Operand(q)
    <3>1. y.sign # 0 /\ RestInForm(q, TRUE) /\ WellFormed(q)
      <4>1. t.rc = "OK" => y.sign # 0 /\ RestInForm(t.v, TRUE) /\ (WellFormed(t.v) \/ (prec = -1 /\ PrecIsLost))
        BY ONLY <1>3 DEF DivResult
      <4>2. prec # -1
        BY <1>1
      <4>3. QED
        BY ONLY <1>7, <2>2, <4>1, <4>2
    <3>2. Operand(q)
      BY ONLY <3>1, FormIsUsable
    <3>3. QED
      BY <3>1, <3>2
  <2>4. /\ o.rc = "OK" /\ Operand(o.v) /\ (q.sign # 0 => o.v.dec_prec = y.dec_prec)
        /\ q.sign = 0 => o.v = FPDEC_ZERO
        /\ ~Overflows(q, y) /\ ~Overflows(y, q) => Number(o.v) = Times(Number(q), Number(y))
    <3>1. CASE q.sign = 0
      <4>1. o = Ok(FPDEC_ZERO)
        BY <2>1, <2>2, <3>1 DEF fpdec_mul
      <4>2. o.rc = "OK" /\ o.v = FPDEC_ZERO
        BY <4>1 DEF Ok, Returns
      <4>3. ~Overflows(q, y) /\ ~Overflows(y, q) => Right(o, Times(Number(q), Number(y)))
        BY <2>1, <2>2, <2>3, <3>1, MulOutcome DEF Wrapped
      <4>4. QED
        BY <3>1, <4>2, <4>3, ZeroIsOperand DEF Right, Exactly
    <3>2. CASE q.sign # 0
      <4>1. x.sign # 0
        <5>1. x.sign = 0 => t = Ok(FPDEC_ZERO)
          BY <1>2, <2>3 DEF fpdec_div
        <5>2. x.sign = 0 => q.sign = 0
          BY <2>2, <5>1 DEF Ok, Returns, FPDEC_ZERO, Shint
        <5>3. QED
          BY <3>2, <5>2
      <4>2. q.dec_prec = 0
        BY <1>1, <1>2, <1>7, <2>2, <2>3, <4>1, DivPrec
      <4>3. QuotientFits(DigitsOf(q), DigitsOf(y))
        BY <1>1, <1>2, <2>2, <3>2 DEF Quantizable
      <4>4. QED
        BY <2>1, <2>2, <2>3, <3>2, <4>2, <4>3, IntegerTimes
    <3>3. QED
      BY <3>1, <3>2
  <2>5. ASSUME x.sign # 0, DividesCorrectly(0, mode), ~Overflows(q, y), ~Overflows(y, q)
        PROVE  IsQuantized(o.v, mode)
    <3>1. RoundsDivision(t, x, y, prec, mode)
      BY <1>1, <1>3, <1>7, <2>5 DEF DivResult
    <3>2. Number(q) = RoundedQuotient(Number(x), Number(y), 0, mode)
      BY <1>1, <2>2, <3>1 DEF RoundsDivision
    <3>3. o.v.sign # 0 => o.v.dec_prec = y.dec_prec
      BY <2>4 DEF FPDEC_ZERO, Shint
    <3>4. QED
      BY <2>4, <2>5, <3>2, <3>3 DEF IsQuantized
  <2>6. fpdec_div(x, y, 0, mode).v = q
    BY <1>1, <1>2, <2>2
  <2>7. QED
    BY <2>4, <2>5, <2>6
<1>8. QED
  BY <1>6, <1>7

-----------------------------------------------------------------------------
(***************************************************************************)
(* The state machine.                                                      *)
(***************************************************************************)
(* A step after which no result of a division is at hand. *)
LEMMA NoDivision ==
  ASSUME TypeOK', Operand(x'), Operand(y'), r' = FPDEC_ZERO, call'.fn \notin DivisionCalls, ResultInv'
  PROVE  DivisionInv'
<1>1. r' \in Decimals
  BY ZeroIsOperand DEF Operand
<1>2. DivisionResults'
  BY <1>1 DEF DivisionResults
<1>3. \A a \in {x', y'} : WellFormed(a) /\ PrecCoversDigits(a)
  BY DEF Operand
<1>4. DivisionsAreWellFormed'
  BY <1>1, <1>3 DEF DivisionsAreWellFormed, TypeOK
<1>5. DivisionsDoNotAbort'
  BY DEF DivisionsDoNotAbort
<1>6. call'.fn # "div" /\ call'.fn # "divmod"
  BY DEF DivisionCalls
<1>7. DivModIsFloor' /\ DivIsExact' /\ QuotientIsConcise' /\ DivIsRounded'
  BY <1>6 DEF DivModIsFloor, DivIsExact, QuotientIsConcise, DivIsRounded, Return
<1>8. QED
  BY <1>2, <1>4, <1>5, <1>7 DEF DivisionInv

LEMMA DivisionStart == DivisionInit => DivisionInv
<1> SUFFICES ASSUME DivisionInit PROVE DivisionInv
  OBVIOUS
<1>1. FpdecInv
  BY InitResult DEF DivisionInit
<1>2. TypeOK /\ Operand(x) /\ Operand(y) /\ ResultInv /\ r = FPDEC_ZERO
  BY <1>1 DEF FpdecInv, DivisionInit
<1>3. call.fn = "none"
  BY DEF DivisionInit, Init, Nothing, Called
<1>4. r \in Decimals
  BY <1>2, ZeroIsOperand DEF Operand
<1>5. DivisionResults
  BY <1>2, <1>3, <1>4 DEF DivisionResults, DivisionCalls
<1>6. \A a \in {x, y} : WellFormed(a) /\ PrecCoversDigits(a)
  BY <1>2 DEF Operand
<1>7. DivisionsAreWellFormed /\ DivisionsDoNotAbort
  BY <1>2, <1>3, <1>4, <1>6 DEF DivisionsAreWellFormed, DivisionsDoNotAbort, DivisionCalls, TypeOK
<1>8. DivModIsFloor /\ DivIsExact /\ QuotientIsConcise /\ DivIsRounded
  BY <1>3 DEF DivModIsFloor, DivIsExact, QuotientIsConcise, DivIsRounded, Return
<1>9. QED
  BY <1>2, <1>5, <1>7, <1>8 DEF DivisionInv

(* The calls of Fpdec are no divisions. *)
LEMMA NoDivisionCalled ==
  ASSUME Next, call.fn \notin DivisionCalls
  PROVE  call'.fn \notin DivisionCalls
<1>1. \A fn, prec, mode, rc : Called(fn, prec, mode, rc).fn = fn
  BY DEF Called
<1>2. CASE FromLiteral \/ FromLongLong \/ FromDigits \/ Copy \/ Neg \/ Add \/ Sub \/ Mul
  BY <1>1, <1>2 DEF FromLiteral, FromLongLong, FromDigits, Copy, Neg, Add, Sub, Mul, Calling, DivisionCalls
<1>3. CASE Adjusted \/ Adjust \/ NormalizePrec \/ SetDefaultRoundingMode
  BY <1>1, <1>3 DEF Adjusted, Adjust, NormalizePrec, SetDefaultRoundingMode, DivisionCalls
<1>4. CASE KeepX \/ KeepY \/ Reset
  BY <1>1, <1>4 DEF KeepX, KeepY, Reset, Nothing, DivisionCalls
<1>5. CASE Aborted
  BY <1>5 DEF Aborted, vars
<1>6. QED
  BY <1>2, <1>3, <1>4, <1>5 DEF Next

(* After a division the client keeps the result or frees it. *)
LEMMA AfterDivision ==
  ASSUME Next, call.fn \in DivisionCalls
  PROVE  KeepX \/ KeepY \/ Reset \/ Aborted
<1>1. ~Ready
  BY DEF Ready, Nothing, Called, DivisionCalls
<1>2. ~(FromLiteral \/ FromLongLong \/ FromDigits \/ Copy \/ Neg \/ Add \/ Sub \/ Mul)
  BY <1>1 DEF FromLiteral, FromLongLong, FromDigits, Copy, Neg, Add, Sub, Mul
<1>3. ~(Adjusted \/ Adjust \/ NormalizePrec \/ SetDefaultRoundingMode)
  BY <1>1 DEF Adjusted, Adjust, NormalizePrec, SetDefaultRoundingMode
<1>4. QED
  BY <1>2, <1>3 DEF Next

LEMMA NothingCalled ==
  ASSUME Operand(x'), Operand(y'), z' = FPDEC_ZERO, r' = FPDEC_ZERO, call' = Nothing,
         changes' \in 0 .. MaxChanges, dflt_rounding_mode' \in RoundingModes
  PROVE  DivisionInv'
<1>1. call'.fn = "none" /\ call'.rc = "OK"
  BY DEF Nothing, Called
<1>2. z' \in Decimals /\ ResultInv'
  BY <1>1, NoResult
<1>3. TypeOK'
  BY <1>2 DEF TypeOK, Operand
<1>4. QED
  BY <1>1, <1>2, <1>3, NoDivision DEF DivisionCalls

LEMMA FpdecStep ==
  ASSUME DivisionInv, Next, r' = FPDEC_ZERO
  PROVE  DivisionInv'
<1>1. /\ TypeOK /\ Operand(x) /\ Operand(y) /\ DivisionResults /\ DivisionsAreWellFormed
      /\ DivisionsDoNotAbort
  BY DEF DivisionInv
<1>2. changes \in 0 .. MaxChanges /\ dflt_rounding_mode \in RoundingModes /\ z \in Decimals
  BY <1>1 DEF TypeOK
<1>3. CASE call.fn \notin DivisionCalls
  <2>1. FpdecInv
    BY <1>1, <1>3 DEF FpdecInv, DivisionResults
  <2>2. FpdecInv'
    BY <2>1, StepResult
  <2>3. call'.fn \notin DivisionCalls
    BY <1>3, NoDivisionCalled
  <2>4. QED
    BY <2>2, <2>3, NoDivision DEF FpdecInv
<1>4. CASE call.fn \in DivisionCalls
  <2>1. CASE KeepX \/ KeepY
    <3>1. Operand(z)
      BY <1>1, <1>4, <2>1 DEF KeepX, KeepY, DivisionResults
    <3>2. Operand(x') /\ Operand(y') /\ z' = FPDEC_ZERO /\ call' = Nothing
          /\ dflt_rounding_mode' \in RoundingModes
      BY <1>1, <1>2, <2>1, <3>1 DEF KeepX, KeepY
    <3>3. changes' \in 0 .. MaxChanges
      BY <1>2, <2>1, InputsAssumption DEF KeepX, KeepY
    <3>4. QED
      BY <3>2, <3>3, NothingCalled
  <2>2. CASE Reset
    BY <1>1, <1>2, <2>2, NothingCalled DEF Reset, operands
  <2>3. CASE Aborted
    <3>1. /\ x' = x /\ y' = y /\ z' = z /\ call' = call /\ changes' = changes
          /\ dflt_rounding_mode' = dflt_rounding_mode /\ call'.rc # "OK"
      BY <2>3 DEF Aborted, vars, Running
    <3>2. r' \in Decimals
      BY ZeroIsOperand DEF Operand
    <3>3. TypeOK' /\ Operand(x') /\ Operand(y')
      BY <1>1, <3>1 DEF TypeOK
    <3>4. DivisionResults'
      BY <1>4, <3>1, <3>2 DEF DivisionResults
    <3>5. DivisionsAreWellFormed'
      BY <1>1, <3>1, <3>2 DEF DivisionsAreWellFormed
    <3>6. DivisionsDoNotAbort'
      BY <1>1, <3>1 DEF DivisionsDoNotAbort, Running, QuotientIsCut, Shints
    <3>7. DivModIsFloor' /\ DivIsExact' /\ QuotientIsConcise' /\ DivIsRounded'
      BY <3>1 DEF DivModIsFloor, DivIsExact, QuotientIsConcise, DivIsRounded, Return
    <3>8. QED
      BY <3>3, <3>4, <3>5, <3>6, <3>7 DEF DivisionInv
  <2>4. QED
    BY <1>4, <2>1, <2>2, <2>3, AfterDivision
<1>5. QED
  BY <1>3, <1>4

(* The client goes on with divisor and remainder. *)
LEMMA KeepRemainderStep ==
  ASSUME DivisionInv, KeepRemainder
  PROVE  DivisionInv'
<1>1. TypeOK /\ Operand(y) /\ DivisionResults
  BY DEF DivisionInv
<1>2. Operand(r)
  BY <1>1 DEF KeepRemainder, DivisionResults, DivisionCalls
<1>3. Operand(x') /\ Operand(y') /\ z' = FPDEC_ZERO /\ r' = FPDEC_ZERO /\ call' = Nothing
  BY <1>1, <1>2 DEF KeepRemainder
<1>4. changes' \in 0 .. MaxChanges /\ dflt_rounding_mode' \in RoundingModes
  BY <1>1, InputsAssumption DEF KeepRemainder, TypeOK
<1>5. QED
  BY <1>3, <1>4, NothingCalled

(* The quotient of fpdec_div, in the state after the call. *)
LEMMA DivStep ==
  ASSUME DivisionInv, Div
  PROVE  DivisionInv'
<1>1. TypeOK /\ Operand(x) /\ Operand(y) /\ DivisionResults
  BY DEF DivisionInv
<1>2. PICK prec \in Precisions \cap -1 .. FPDEC_MAX_DEC_PREC, mode \in Modes :
        /\ Divisible(ShiftOf(prec))
        /\ LET outcome == fpdec_div(x, y, prec, Resolved(mode, dflt_rounding_mode))
           IN  z' = outcome.v /\ call' = Called("div", prec, mode, outcome.rc)
  BY DEF Div
<1>3. PICK m : m = Resolved(mode, dflt_rounding_mode)
  OBVIOUS
<1>4. PICK o : o = fpdec_div(x, y, prec, m)
  OBVIOUS
<1>5. /\ z' = o.v /\ call'.fn = "div" /\ call'.prec = prec /\ call'.mode = mode /\ call'.rc = o.rc
      /\ x' = x /\ y' = y /\ r' = r /\ changes' = changes /\ dflt_rounding_mode' = dflt_rounding_mode
  BY <1>2, <1>3, <1>4 DEF Div, Called, operands
<1>6. r = FPDEC_ZERO /\ Operand(r)
  <2>1. call.fn = "none"
    BY DEF Div, Ready, Nothing, Called
  <2>2. QED
    BY <1>1, <2>1, ZeroIsOperand DEF DivisionResults
<1>7. x.sign # 0 /\ y.sign # 0 => QuotientRoom(DigitsOf(x), DigitsOf(y))
  <2>1. SUFFICES ASSUME x.sign # 0, y.sign # 0 PROVE QuotientRoom(DigitsOf(x), DigitsOf(y))
    OBVIOUS
  <2>2. QuotientFits(DigitsOf(x), DigitsOf(y))
    BY <1>2, <2>1 DEF Divisible
  <2>3. /\ DigitsOf(x).exp \in Int /\ DigitsOf(x).n \in Nat
        /\ DigitsOf(y).exp \in Int /\ DigitsOf(y).n \in Nat
    BY <1>1, <2>1, NumberInDigits DEF InDigits
  <2>4. QED
    BY <2>2, <2>3, QuotientHasRoom
<1>8. DivResult(o, prec, m)
  BY <1>1, <1>4, <1>7, DivOutcome
<1>9. o.v \in Decimals
  BY ONLY <1>8 DEF DivResult
<1>10. o.rc = "ABORT" => QuotientIsCut(prec)
  BY ONLY <1>8 DEF DivResult
<1>11. o.rc = "OK" => RestInForm(o.v, TRUE) /\ (WellFormed(o.v) \/ (prec = -1 /\ PrecIsLost))
  BY ONLY <1>8 DEF DivResult
<1>12. o.rc = "OK" /\ prec = -1 /\ ~DividendWraps(-1) /\ ~PrecIsLost => ExactlyDivides(o, x, y)
  BY ONLY <1>8 DEF DivResult
<1>13. o.rc = "OK" /\ prec >= 0 /\ x.sign # 0 /\ DividesCorrectly(prec, m) => RoundsDivision(o, x, y, prec, m)
  BY ONLY <1>8 DEF DivResult
<1>14. TypeOK' /\ Operand(x') /\ Operand(y')
  BY <1>1, <1>5, <1>9 DEF TypeOK
<1>15. DivisionResults'
  <2>1. o.rc = "OK" /\ Usable(o.v) => Operand(o.v)
    BY <1>11 DEF RestInForm
  <2>2. r \in Decimals
    BY <1>6 DEF Operand
  <2>3. QED
    BY <1>5, <1>6, <2>1, <2>2 DEF DivisionResults, DivisionCalls
<1>16. PrecIsLost' <=> PrecIsLost
  BY <1>5 DEF PrecIsLost, Shints
<1>17. DivisionsAreWellFormed'
  <2>1. {x', y', z', r'} \subseteq Decimals
    BY <1>1, <1>5, <1>6, <1>9 DEF Operand
  <2>2. \A a \in {x', y'} : WellFormed(a) /\ PrecCoversDigits(a)
    BY <1>1, <1>5 DEF Operand
  <2>3. o.rc = "OK" => PrecCoversDigits(o.v)
    BY <1>11 DEF RestInForm
  <2>4. PrecCoversDigits(r) /\ WellFormed(r)
    BY <1>6 DEF Operand
  <2>5. call'.rc = "OK" =>
          /\ \A a \in {z', r'} : PrecCoversDigits(a)
          /\ (call'.fn = "div" /\ call'.prec = -1 /\ PrecIsLost') \/ WellFormed(z')
          /\ WellFormed(r')
    BY <1>5, <1>11, <1>16, <2>3, <2>4
  <2>6. QED
    BY <2>1, <2>2, <2>5 DEF DivisionsAreWellFormed
<1>18. DivisionsDoNotAbort'
  <2>1. QuotientIsCut(prec) => QuotientIsCut(call.prec)'
    BY <1>5 DEF QuotientIsCut, Shints
  <2>2. QED
    BY <1>5, <1>10, <2>1 DEF DivisionsDoNotAbort, Running
<1>19. DivModIsFloor'
  BY <1>5 DEF DivModIsFloor, Return
<1>20. DivIsExact'
  <2>1. DividendWraps(-1)' <=> DividendWraps(-1)
    BY <1>5 DEF DividendWraps, Shints
  <2>2. ExactlyDivides(o, x, y) <=> Times(Number(z'), Number(y')) = Number(x')
    BY <1>5 DEF ExactlyDivides
  <2>3. QED
    BY <1>5, <1>12, <1>16, <2>1, <2>2 DEF DivIsExact, Return
<1>21. DivIsRounded'
  <2>1. SUFFICES ASSUME Return("div")', call'.prec >= 0, x'.sign # 0,
                        DividesCorrectly(call.prec, Resolved(call.mode, dflt_rounding_mode))'
                 PROVE  /\ Number(z') = RoundedQuotient(Number(x'), Number(y'), call'.prec,
                                                        Resolved(call'.mode, dflt_rounding_mode'))
                        /\ z'.dec_prec = call'.prec
    BY DEF DivIsRounded
  <2>2. o.rc = "OK" /\ prec >= 0 /\ x.sign # 0
    BY <1>5, <2>1 DEF Return
  <2>3. Resolved(call'.mode, dflt_rounding_mode') = m
    BY <1>3, <1>5
  <2>4. DividesCorrectly(call.prec, Resolved(call.mode, dflt_rounding_mode))' => DividesCorrectly(prec, m)
    BY <1>5, <2>3 DEF DividesCorrectly, DividendWraps, QuotientIsCut, LowWordDecides, TinyMisjudged,
                      RemainderDecides, ViaDigits, Shints
  <2>5. RoundsDivision(o, x, y, prec, m)
    BY <1>13, <2>1, <2>2, <2>4
  <2>6. QED
    BY <1>5, <2>3, <2>5 DEF RoundsDivision
<1>22. o.rc = "OK" /\ prec = -1 /\ ~PrecIsLost => IsConcise(o.v, x.dec_prec - y.dec_prec)
  BY ONLY <1>8 DEF DivResult
<1>23. QuotientIsConcise'
  <2>1. SUFFICES ASSUME Return("div")', call'.prec = -1, ~PrecIsLost', ~(z'.dyn /\ Number(z')[2] > 0)
                 PROVE  z'.dec_prec =< MAX(MAX(0, -Number(z')[2]), x'.dec_prec - y'.dec_prec)
    BY DEF QuotientIsConcise
  <2>2. IsConcise(o.v, x.dec_prec - y.dec_prec)
    BY <1>5, <1>16, <1>22, <2>1 DEF Return
  <2>3. QED
    BY <1>5, <2>1, <2>2 DEF IsConcise
<1>24. QED
  BY <1>14, <1>15, <1>17, <1>18, <1>19, <1>20, <1>21, <1>23 DEF DivisionInv

(* A quantization has no remainder, and no quotient of its own. *)
LEMMA NoDivisionResult ==
  ASSUME TypeOK', Operand(x'), Operand(y'), Operand(z'), r' = FPDEC_ZERO,
         call'.fn \in {"quantize", "quantized"}, call'.rc # "ABORT"
  PROVE  DivisionInv'
<1>1. Operand(r')
  BY ZeroIsOperand
<1>2. DivisionResults'
  BY <1>1 DEF DivisionResults, DivisionCalls, Operand
<1>3. \A a \in {x', y', z', r'} : a \in Decimals /\ WellFormed(a) /\ PrecCoversDigits(a)
  BY <1>1 DEF Operand
<1>4. DivisionsAreWellFormed' /\ DivisionsDoNotAbort'
  BY <1>3 DEF DivisionsAreWellFormed, DivisionsDoNotAbort, Running
<1>5. DivModIsFloor' /\ DivIsExact' /\ QuotientIsConcise' /\ DivIsRounded'
  BY DEF DivModIsFloor, DivIsExact, QuotientIsConcise, DivIsRounded, Return
<1>6. QED
  BY <1>2, <1>4, <1>5 DEF DivisionInv

(* What a quantization relies on. *)
LEMMA QuantizeRoom ==
  ASSUME DivisionInv, Ready, NEW shift, Divisible(shift)
  PROVE  /\ Operand(x) /\ Operand(y) /\ z = FPDEC_ZERO /\ r = FPDEC_ZERO
         /\ x.sign # 0 /\ y.sign # 0 => QuotientRoom(DigitsOf(x), DigitsOf(y))
<1>1. Operand(x) /\ Operand(y) /\ DivisionResults
  BY DEF DivisionInv
<1>2. z = FPDEC_ZERO /\ call.fn = "none"
  BY DEF Ready, Nothing, Called
<1>3. r = FPDEC_ZERO
  BY <1>1, <1>2 DEF DivisionResults
<1>4. ASSUME x.sign # 0, y.sign # 0 PROVE QuotientRoom(DigitsOf(x), DigitsOf(y))
  <2>1. QuotientFits(DigitsOf(x), DigitsOf(y))
    BY <1>4 DEF Divisible
  <2>2. /\ DigitsOf(x).exp \in Int /\ DigitsOf(x).n \in Nat
        /\ DigitsOf(y).exp \in Int /\ DigitsOf(y).n \in Nat
    BY <1>1, <1>4, NumberInDigits DEF InDigits
  <2>3. QED
    BY <2>1, <2>2, QuotientHasRoom
<1>5. QED
  BY <1>1, <1>2, <1>3, <1>4

LEMMA QuantizeStep ==
  ASSUME DivisionInv, Quantize
  PROVE  DivisionInv' /\ QuantizedIsMultiple
<1>1. TypeOK
  BY DEF DivisionInv
<1>2. PICK mode \in Modes :
        /\ Quantizable(Resolved(mode, dflt_rounding_mode))
        /\ LET outcome == fpdec_quantize(x, y, Resolved(mode, dflt_rounding_mode))
           IN  x' = outcome.v /\ call' = Called("quantize", 0, mode, outcome.rc)
  BY DEF Quantize
<1>3. PICK m : m = Resolved(mode, dflt_rounding_mode)
  OBVIOUS
<1>4. PICK o : o = fpdec_quantize(x, y, m)
  OBVIOUS
<1>5. /\ x' = o.v /\ call'.fn = "quantize" /\ call'.mode = mode /\ call'.rc = o.rc
      /\ y' = y /\ z' = z /\ r' = r /\ changes' = changes + 1 /\ dflt_rounding_mode' = dflt_rounding_mode
  BY <1>2, <1>3, <1>4 DEF Quantize, Called
<1>6. /\ Operand(x) /\ Operand(y) /\ z = FPDEC_ZERO /\ r = FPDEC_ZERO
      /\ x.sign # 0 /\ y.sign # 0 => QuotientRoom(DigitsOf(x), DigitsOf(y))
  BY QuantizeRoom DEF Quantize
<1>7. PICK q : q = fpdec_div(x, y, 0, m).v
  OBVIOUS
<1>8. /\ Operand(o.v) /\ o.rc # "ABORT"
      /\ /\ o.rc = "OK" /\ x.sign # 0 /\ DividesCorrectly(0, m) /\ ~Overflows(q, y) /\ ~Overflows(y, q)
         => IsQuantized(o.v, m)
  BY <1>2, <1>3, <1>4, <1>6, <1>7, QuantizeOutcome
<1>9. changes' \in 0 .. MaxChanges /\ dflt_rounding_mode' \in RoundingModes
  BY <1>1, <1>5, InputsAssumption DEF TypeOK, Quantize
<1>10. Operand(x') /\ Operand(y') /\ Operand(z')
  BY <1>5, <1>6, <1>8, ZeroIsOperand
<1>11. TypeOK'
  BY <1>9, <1>10 DEF TypeOK, Operand
<1>12. DivisionInv'
  BY <1>5, <1>6, <1>8, <1>10, <1>11, NoDivisionResult
<1>13. QuantizedIsMultiple
  <2>1. Resolved(call'.mode, dflt_rounding_mode) = m
    BY <1>3, <1>5
  <2>2. QED
    BY <1>5, <1>7, <1>8, <2>1 DEF QuantizedIsMultiple
<1>14. QED
  BY <1>12, <1>13

LEMMA QuantizedStep ==
  ASSUME DivisionInv, Quantized
  PROVE  DivisionInv' /\ QuantizedIsMultiple
<1>1. TypeOK
  BY DEF DivisionInv
<1>2. PICK mode \in Modes :
        /\ Quantizable(Resolved(mode, dflt_rounding_mode))
        /\ LET outcome == fpdec_quantized(x, y, Resolved(mode, dflt_rounding_mode))
           IN  z' = outcome.v /\ call' = Called("quantized", 0, mode, outcome.rc)
  BY DEF Quantized
<1>3. PICK m : m = Resolved(mode, dflt_rounding_mode)
  OBVIOUS
<1>4. PICK o : o = fpdec_quantize(x, y, m)
  OBVIOUS
<1>5. PICK p : p = OrZero(o)
  OBVIOUS
<1>6. /\ z' = p.v /\ call'.fn = "quantized" /\ call'.mode = mode /\ call'.rc = p.rc
      /\ x' = x /\ y' = y /\ r' = r /\ changes' = changes /\ dflt_rounding_mode' = dflt_rounding_mode
  BY <1>2, <1>3, <1>4, <1>5 DEF Quantized, Called, operands, fpdec_quantized
<1>7. /\ Operand(x) /\ Operand(y) /\ z = FPDEC_ZERO /\ r = FPDEC_ZERO
      /\ x.sign # 0 /\ y.sign # 0 => QuotientRoom(DigitsOf(x), DigitsOf(y))
  BY QuantizeRoom DEF Quantized
<1>8. PICK q : q = fpdec_div(x, y, 0, m).v
  OBVIOUS
<1>9. /\ Operand(o.v) /\ o.rc # "ABORT"
      /\ /\ o.rc = "OK" /\ x.sign # 0 /\ DividesCorrectly(0, m) /\ ~Overflows(q, y) /\ ~Overflows(y, q)
         => IsQuantized(o.v, m)
  BY <1>2, <1>3, <1>4, <1>7, <1>8, QuantizeOutcome
<1>10. /\ Operand(p.v) /\ p.rc # "ABORT"
       /\ p.rc = "OK" => p.v = o.v /\ o.rc = "OK"
  <2>1. CASE o.rc = "OK"
    BY <1>5, <1>9, <2>1 DEF OrZero
  <2>2. CASE o.rc # "OK"
    <3>1. p = Returns(o.rc, FPDEC_ZERO)
      BY <1>5, <1>9, <2>2 DEF OrZero, FPDEC_ZERO, ResetToZero
    <3>2. p.rc = o.rc /\ p.v = FPDEC_ZERO
      BY <3>1 DEF Returns
    <3>3. QED
      BY <1>9, <2>2, <3>2, ZeroIsOperand
  <2>3. QED
    BY <2>1, <2>2
<1>11. Operand(x') /\ Operand(y') /\ Operand(z')
  BY <1>6, <1>7, <1>10
<1>12. TypeOK'
  BY <1>1, <1>6, <1>11 DEF TypeOK, Operand
<1>13. DivisionInv'
  BY <1>6, <1>7, <1>10, <1>11, <1>12, NoDivisionResult
<1>14. QuantizedIsMultiple
  <2>1. Resolved(call'.mode, dflt_rounding_mode) = m
    BY <1>3, <1>6
  <2>2. QED
    BY <1>6, <1>8, <1>9, <1>10, <2>1 DEF QuantizedIsMultiple
<1>15. QED
  BY <1>13, <1>14

(* Quotient and remainder of fpdec_divmod, in the state after the call. *)
LEMMA DivModStep ==
  ASSUME DivisionInv, DivMod
  PROVE  DivisionInv'
<1>1. TypeOK /\ Operand(x) /\ Operand(y)
  BY DEF DivisionInv
<1>2. PICK o : o = fpdec_divmod(x, y)
  OBVIOUS
<1>3. /\ z' = o.q /\ r' = o.r /\ call'.fn = "divmod" /\ call'.rc = o.rc
      /\ x' = x /\ y' = y /\ changes' = changes /\ dflt_rounding_mode' = dflt_rounding_mode
  BY <1>2 DEF DivMod, Called, operands
<1>4. x.sign # 0 /\ y.sign # 0 =>
        /\ Comparable(x, y) /\ QuotientFits(DigitsOf(x), DigitsOf(y))
        /\ x.sign * y.sign = -1 => RemainderFits(AsDyn(x), AsDyn(y), MAX(x.dec_prec, y.dec_prec))
  <2>1. Comparable(x, y)
    BY DEF DivMod, Alignable, Comparable
  <2>2. QED
    BY <2>1 DEF DivMod, Divisible
<1>5. /\ y.sign # 0 => DivModOf(x, y, o)
      /\ y.sign = 0 => o = Results("DIVIDE_BY_ZERO", FPDEC_ZERO, FPDEC_ZERO)
  BY <1>1, <1>2, <1>4, DivModOutcome
<1>6. CASE y.sign = 0
  <2>1. o.rc = "DIVIDE_BY_ZERO" /\ o.q = FPDEC_ZERO /\ o.r = FPDEC_ZERO
    BY <1>5, <1>6 DEF Results
  <2>2. z' \in Decimals /\ r' \in Decimals
    BY <1>3, <2>1, ZeroIsOperand DEF Operand
  <2>3. TypeOK' /\ Operand(x') /\ Operand(y')
    BY <1>1, <1>3, <2>2 DEF TypeOK
  <2>4. DivisionResults'
    BY <1>3, <2>1, <2>2 DEF DivisionResults, DivisionCalls
  <2>5. \A a \in {x', y'} : WellFormed(a) /\ PrecCoversDigits(a)
    BY <2>3 DEF Operand
  <2>6. DivisionsAreWellFormed'
    BY <1>3, <2>1, <2>2, <2>3, <2>5 DEF DivisionsAreWellFormed, TypeOK
  <2>7. DivisionsDoNotAbort'
    BY <1>3, <2>1 DEF DivisionsDoNotAbort, Running
  <2>8. DivModIsFloor' /\ DivIsExact' /\ QuotientIsConcise' /\ DivIsRounded'
    BY <1>3, <2>1 DEF DivModIsFloor, DivIsExact, QuotientIsConcise, DivIsRounded, Return
  <2>9. QED
    BY <2>3, <2>4, <2>6, <2>7, <2>8 DEF DivisionInv
<1>7. CASE y.sign # 0
  <2>1. /\ o.rc = "OK" /\ Operand(o.q)
        /\ o.r \in Decimals /\ PrecCoversDigits(o.r) /\ (Usable(o.r) => Operand(o.r))
    BY <1>5, <1>7 DEF DivModOf
  <2>a. CarryLeaves(x, y) => o.q.sign = 0
    BY <1>5, <1>7 DEF DivModOf
  <2>2. \/ RestIsLost(x, y) \/ FloorOf(x, y, FloorMeant(x, y, o.q), o)
        \/ ShortRest(x, y, o) /\ Place(DigitsOf(y).exp) # -MAX(x.dec_prec, y.dec_prec)
    BY <1>5, <1>7 DEF DivModOf
  <2>3. \/ RestIsLost(x, y) \/ WellFormed(o.r)
        \/ ShortRest(x, y, o) /\ o.r.dec_prec > MAX_DEC_PREC_FOR_SHINT
    BY <1>5, <1>7 DEF DivModOf
  <2>4. RestIsLost(x, y) => DivModIsLost'
    BY <1>3 DEF RestIsLost, ShintsLost, DivModIsLost, ShintsOverflow
  <2>5. ShortRest(x, y, o) => ShortRemainder'
    BY <1>3 DEF ShortRest, ShortRemainder
  <2>6. o.q \in Decimals /\ z' \in Decimals /\ r' \in Decimals
    BY <1>3, <2>1 DEF Operand
  <2>7. TypeOK' /\ Operand(x') /\ Operand(y')
    BY <1>1, <1>3, <2>6 DEF TypeOK
  <2>8. DivisionResults'
    BY <1>3, <2>1, <2>6 DEF DivisionResults, DivisionCalls
  <2>9. DivisionsAreWellFormed'
    <3>1. \A a \in {x', y'} : WellFormed(a) /\ PrecCoversDigits(a)
      BY <2>7 DEF Operand
    <3>2. \A a \in {z', r'} : PrecCoversDigits(a)
      BY <1>3, <2>1 DEF Operand
    <3>3. WellFormed(z')
      BY <1>3, <2>1 DEF Operand
    <3>4. RemainderIsTooPrecise' \/ DivModIsLost' \/ WellFormed(r')
      BY <1>3, <2>3, <2>4, <2>5 DEF RemainderIsTooPrecise
    <3>5. QED
      BY <2>6, <2>7, <3>1, <3>2, <3>3, <3>4 DEF DivisionsAreWellFormed, TypeOK
  <2>10. DivisionsDoNotAbort'
    BY <1>3, <2>1 DEF DivisionsDoNotAbort, Running
  <2>11. DivModIsFloor'
    <3>a. FloorMeant(x, y, o.q) = FloorQuotient' /\ (IncrementIsLost' => z'.sign = 0)
      <4>1. IncrementIsLost' <=> CarryLeaves(x, y)
        <5>1. x' = x /\ y' = y
          BY <1>3
        <5>2. DividedAsDigits' <=> ByDigits(x, y)
          <6>1. DividedAsDigits <=> ByDigits(x, y)
            BY DEF DividedAsDigits, ByDigits, Shints
          <6>2. DividedAsDigits' <=> DividedAsDigits
            BY <5>1 DEF DividedAsDigits, Shints
          <6>3. QED
            BY <6>1, <6>2
        <5>3. IncrementIsLost' <=>
                /\ x.sign * y.sign = -1
                /\ fpdec_compare(x, y, TRUE) = 1
                /\ DividedAsDigits'
                /\ AlignedTo(DigitsOf(x), DigitsOf(y)) % AlignedTo(DigitsOf(y), DigitsOf(x)) # 0
                /\ IncrementCarry(AlignedTo(DigitsOf(x), DigitsOf(y)) \div AlignedTo(DigitsOf(y), DigitsOf(x)),
                                  QuotientLength(DigitsOf(x), DigitsOf(y)), 1)
          BY <5>1, Zenon DEF IncrementIsLost
        <5>4. QED
          BY <5>2, <5>3, Zenon DEF CarryLeaves, LosesCarry
      <4>2. QED
        BY <1>3, <2>a, <4>1 DEF FloorMeant, FloorQuotient, Place
    <3>1. FloorOf(x, y, FloorMeant(x, y, o.q), o) =>
            /\ Number(x') = Plus(Times(FloorQuotient', Number(y')), Number(r'))
            /\ Number(z')[2] >= 0
            /\ r'.sign # 0 => /\ r'.sign = y'.sign
                              /\ Excess(Magnitude(Number(y')), Magnitude(Number(r')))[1] > 0
      BY <1>3, <3>a DEF FloorOf
    <3>2. ShortRest(x, y, o) /\ Place(DigitsOf(y).exp) # -MAX(x.dec_prec, y.dec_prec)
          => RemainderIsUnscaled'
      BY <1>3, <2>5 DEF RemainderIsUnscaled, Place
    <3>3. QED
      BY <2>2, <2>4, <3>a, <3>1, <3>2 DEF DivModIsFloor
  <2>12. DivIsExact' /\ QuotientIsConcise' /\ DivIsRounded'
    BY <1>3 DEF DivIsExact, QuotientIsConcise, DivIsRounded, Return
  <2>13. QED
    BY <2>7, <2>8, <2>9, <2>10, <2>11, <2>12 DEF DivisionInv
<1>8. QED
  BY <1>6, <1>7

LEMMA SameDivision ==
  ASSUME DivisionInv, UNCHANGED divisionVars
  PROVE  DivisionInv'
<1>1. /\ x' = x /\ y' = y /\ z' = z /\ r' = r /\ call' = call /\ changes' = changes
      /\ dflt_rounding_mode' = dflt_rounding_mode
  BY DEF divisionVars
<1>2. TypeOK' /\ Operand(x') /\ Operand(y')
  BY <1>1 DEF DivisionInv, TypeOK
<1>3. DivisionResults'
  <2>1. ResultInv => ResultInv'
    BY <1>1, SameResult DEF vars
  <2>2. DivisionResults
    BY DEF DivisionInv
  <2>3. QED
    BY <1>1, <2>1, <2>2 DEF DivisionResults
<1>4. (DivModIsLost' <=> DivModIsLost) /\ (ShortRemainder' <=> ShortRemainder)
  BY <1>1 DEF DivModIsLost, ShintsOverflow, ShortRemainder
<1>5. /\ RemainderIsTooPrecise' <=> RemainderIsTooPrecise
      /\ RemainderIsUnscaled' <=> RemainderIsUnscaled
      /\ PrecIsLost' <=> PrecIsLost
  BY <1>1, <1>4 DEF RemainderIsTooPrecise, RemainderIsUnscaled, PrecIsLost, Shints
<1>6. DivisionsAreWellFormed'
  <2>1. DivisionsAreWellFormed
    BY DEF DivisionInv
  <2>2. QED
    BY <1>1, <1>4, <1>5, <2>1 DEF DivisionsAreWellFormed
<1>7. DivisionsDoNotAbort'
  BY <1>1 DEF DivisionInv, DivisionsDoNotAbort, Running, QuotientIsCut, Shints
<1>8. DivModIsFloor'
  <2>1. DivModIsFloor
    BY DEF DivisionInv
  <2>2. QED
    BY <1>1, <1>4, <1>5, <2>1 DEF DivModIsFloor, Return, FloorQuotient, IncrementIsLost, DividedAsDigits, Shints
<1>9. DivIsExact'
  <2>1. DivIsExact
    BY DEF DivisionInv
  <2>2. DividendWraps(-1)' <=> DividendWraps(-1)
    BY <1>1 DEF DividendWraps, Shints
  <2>3. QED
    BY <1>1, <1>5, <2>1, <2>2 DEF DivIsExact, Return
<1>10. DivIsRounded'
  <2>1. DivIsRounded
    BY DEF DivisionInv
  <2>2. DividesCorrectly(call.prec, Resolved(call.mode, dflt_rounding_mode))'
        <=> DividesCorrectly(call.prec, Resolved(call.mode, dflt_rounding_mode))
    BY <1>1 DEF DividesCorrectly, DividendWraps, QuotientIsCut, LowWordDecides, TinyMisjudged,
                RemainderDecides, ViaDigits, Shints
  <2>3. QED
    BY <1>1, <2>1, <2>2 DEF DivIsRounded, Return
<1>11. QuotientIsConcise'
  <2>1. QuotientIsConcise
    BY DEF DivisionInv
  <2>2. DividendWraps(-1)' <=> DividendWraps(-1)
    BY <1>1 DEF DividendWraps, Shints
  <2>3. QED
    BY <1>1, <1>5, <2>1, <2>2 DEF QuotientIsConcise, Return
<1>12. QED
  BY <1>2, <1>3, <1>6, <1>7, <1>8, <1>9, <1>10, <1>11 DEF DivisionInv

LEMMA DivisionStep ==
  ASSUME DivisionInv, [DivisionNext]_divisionVars
  PROVE  DivisionInv'
<1>1. CASE Div
  BY <1>1, DivStep
<1>2. CASE DivMod
  BY <1>2, DivModStep
<1>3. CASE Quantized
  BY <1>3, QuantizedStep
<1>4. CASE Quantize
  BY <1>4, QuantizeStep
<1>5. CASE KeepRemainder
  BY <1>5, KeepRemainderStep
<1>6. CASE Next /\ r' = FPDEC_ZERO
  BY <1>6, FpdecStep
<1>7. CASE UNCHANGED divisionVars
  BY <1>7, SameDivision
<1>8. QED
  BY <1>1, <1>2, <1>3, <1>4, <1>5, <1>6, <1>7 DEF DivisionNext

(***************************************************************************)
(* The strengthened invariant of the state machine with divisions. In each *)
(* of its states the operands are decimals in the form all functions take  *)
(* for granted, what has been left by the last call is what the functions  *)
(* promise, and no remainder is left of a call before.                     *)
(***************************************************************************)
THEOREM DivisionInvariant == DivisionSpec => []DivisionInv
BY DivisionStart, DivisionStep, PTL DEF DivisionSpec

(***************************************************************************)
(* Quotients, remainders and quantized numbers are in the form the other   *)
(* functions take for granted, with a precision that covers their digits,  *)
(* whatever sequence of calls they are fed to.                             *)
(***************************************************************************)
THEOREM WellFormedDivisions == DivisionSpec => []DivisionsAreWellFormed
<1>1. DivisionInv => DivisionsAreWellFormed
  BY DEF DivisionInv
<1>2. QED
  BY <1>1, DivisionInvariant, PTL

(***************************************************************************)
(* No assertion fails in a division, a division with remainder or a        *)
(* quantization, unless an exact quotient is cut off to 96 bits.           *)
(***************************************************************************)
THEOREM NoDivisionAborts == DivisionSpec => []DivisionsDoNotAbort
<1>1. DivisionInv => DivisionsDoNotAbort
  BY DEF DivisionInv
<1>2. QED
  BY <1>1, DivisionInvariant, PTL

(***************************************************************************)
(* fpdec_divmod gives an integral quotient and a remainder less than the   *)
(* divisor and of its sign, with x = q y + r, whatever representations,    *)
(* signs and scales meet; but for the remainder of a divisor of one digit  *)
(* that is stored unscaled and the sum that gets too wide.                 *)
(***************************************************************************)
THEOREM FloorDivision == DivisionSpec => []DivModIsFloor
<1>1. DivisionInv => DivModIsFloor
  BY DEF DivisionInv
<1>2. QED
  BY <1>1, DivisionInvariant, PTL

(***************************************************************************)
(* Without a limit fpdec_div succeeds only with the exact quotient, unless *)
(* its scaled dividend wraps around or its precision is lost.              *)
(***************************************************************************)
THEOREM ExactDivision == DivisionSpec => []DivIsExact
<1>1. DivisionInv => DivIsExact
  BY DEF DivisionInv
<1>2. QED
  BY <1>1, DivisionInvariant, PTL

(***************************************************************************)
(* An exact quotient is shown with the places it has, or with those the    *)
(* dividend has more than the divisor, unless it is a multiple of 10 in    *)
(* digits: a precision that wraps below 0 never gets into a shifted int.   *)
(***************************************************************************)
THEOREM ConciseQuotient == DivisionSpec => []QuotientIsConcise
<1>1. DivisionInv => QuotientIsConcise
  BY DEF DivisionInv
<1>2. QED
  BY <1>1, DivisionInvariant, PTL

(***************************************************************************)
(* With a limit fpdec_div gives the exact quotient rounded as the mode     *)
(* demands, in 128 bits as well as digit by digit, outside of the cases    *)
(* that DividesCorrectly names.                                            *)
(***************************************************************************)
THEOREM RoundedDivision == DivisionSpec => []DivIsRounded
<1>1. DivisionInv => DivIsRounded
  BY DEF DivisionInv
<1>2. QED
  BY <1>1, DivisionInvariant, PTL

LEMMA StepQuantizes ==
  ASSUME DivisionInv, DivisionNext
  PROVE  QuantizedIsMultiple
<1>1. \A fn, prec, mode, rc : Called(fn, prec, mode, rc).fn = fn
  BY DEF Called
<1>2. CASE Div \/ DivMod
  <2>1. call'.fn \in {"div", "divmod"}
    BY <1>1, <1>2 DEF Div, DivMod
  <2>2. QED
    BY <2>1 DEF QuantizedIsMultiple
<1>3. CASE Quantized
  BY <1>3, QuantizedStep
<1>4. CASE Quantize
  BY <1>4, QuantizeStep
<1>5. CASE KeepRemainder
  BY <1>1, <1>5 DEF KeepRemainder, Nothing, QuantizedIsMultiple
<1>6. CASE Next
  <2>1. CASE call.fn \notin DivisionCalls
    <3>1. call'.fn \notin DivisionCalls
      BY <1>6, <2>1, NoDivisionCalled
    <3>2. QED
      BY <3>1 DEF DivisionCalls, QuantizedIsMultiple
  <2>2. CASE call.fn \in DivisionCalls
    <3>1. CASE KeepX \/ KeepY \/ Reset
      BY <1>1, <3>1 DEF KeepX, KeepY, Reset, Nothing, QuantizedIsMultiple
    <3>2. CASE Aborted
      BY <3>2 DEF Aborted, Running, vars, QuantizedIsMultiple
    <3>3. QED
      BY <1>6, <2>2, <3>1, <3>2, AfterDivision
  <2>3. QED
    BY <2>1, <2>2
<1>7. QED
  BY <1>2, <1>3, <1>4, <1>5, <1>6 DEF DivisionNext

(***************************************************************************)
(* fpdec_quantize and fpdec_quantized give the multiple of the quantum     *)
(* next to the number, as the mode demands, with the precision of the      *)
(* quantum, where the division is right and the product is not lost.       *)
(***************************************************************************)
THEOREM QuantizingIsRight == DivisionSpec => QuantizingFindsMultiple
<1>1. DivisionInv /\ [DivisionNext]_divisionVars => [QuantizedIsMultiple]_divisionVars
  BY StepQuantizes
<1>2. QED
  BY <1>1, DivisionInvariant, PTL DEF DivisionSpec, QuantizingFindsMultiple

=============================================================================
