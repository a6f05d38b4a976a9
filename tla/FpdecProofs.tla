----------------------------- MODULE FpdecProofs -----------------------------
(***************************************************************************)
(* The decimals a client holds are always in the form the functions take   *)
(* for granted, sums, products and comparisons are those of the numbers    *)
(* they stand for, and adjusted ones are rounded: for every base, word     *)
(* size and set of limits, whatever the client calls.                      *)
(***************************************************************************)
EXTENDS Fpdec, DecimalLemmas

-----------------------------------------------------------------------------
(* The decimal place of the lowest place of a digit. *)
Place(e) == e * DEC_DIGITS_PER_DIGIT

LEMMA PlaceFacts ==
  ASSUME NEW e \in Int, NEW f \in Int
  PROVE  /\ Place(e) \in Int /\ Place(e + f) = Place(e) + Place(f)
         /\ e =< f => Place(e) =< Place(f)
         /\ e < f => Place(e) + DEC_DIGITS_PER_DIGIT =< Place(f)
<1>1. PICK r \in Nat \ {0} : r = DEC_DIGITS_PER_DIGIT
  BY Limits
<1>2. e * r \in Int /\ (e + f) * r = e * r + f * r
  OBVIOUS
<1>3. e =< f => e * r =< f * r
  OBVIOUS
<1>4. e < f => e * r + r =< f * r
  <2>1. SUFFICES ASSUME e + 1 =< f PROVE (e + 1) * r =< f * r
    OBVIOUS
  <2>2. QED
    BY <2>1
<1>5. QED
  BY <1>1, <1>2, <1>3, <1>4 DEF Place

LEMMA Places ==
  /\ Place(0) = 0 /\ Place(1) = DEC_DIGITS_PER_DIGIT /\ Place(-1) = -DEC_DIGITS_PER_DIGIT
  /\ Place(2) = 2 * DEC_DIGITS_PER_DIGIT /\ Place(-2) = -2 * DEC_DIGITS_PER_DIGIT
BY Limits DEF Place

(* The relations between the limits the proofs below need. *)
LEMMA Room ==
  /\ DEC_DIGITS_PER_DIGIT \in Nat \ {0}
  /\ MAX_DEC_PREC_FOR_SHINT \in Nat /\ MAX_DEC_PREC_FOR_SHINT + 1 < DEC_DIGITS_PER_DIGIT
  /\ MAX_N_DEC_DIGITS_IN_SHINT = DEC_DIGITS_PER_DIGIT + MAX_DEC_PREC_FOR_SHINT + 1
  /\ FPDEC_MAX_DEC_PREC \in Nat /\ MAX_DEC_PREC_FOR_SHINT =< FPDEC_MAX_DEC_PREC
  /\ FPDEC_MAX_EXP \in Nat /\ INT32_MIN = -FPDEC_MAX_EXP - 1
  /\ 2 * FPDEC_MAX_DEC_PREC + 2 * DEC_DIGITS_PER_DIGIT =< FPDEC_MAX_EXP
BY Limits, ShintRange, InputsAssumption

-----------------------------------------------------------------------------
(* fpdec_dyn_normalize. *)

(* 10^DEC_DIGITS_PER_DIGIT is the radix. *)
LEMMA TenRadix ==
  ASSUME NEW i \in Int, NEW j \in Int, j = i + DEC_DIGITS_PER_DIGIT
  PROVE  Ten(i, j) = RADIX
<1>1. DEC_DIGITS_PER_DIGIT \in Nat /\ RADIX = Power(10, DEC_DIGITS_PER_DIGIT)
  BY Limits
<1>2. j - i = DEC_DIGITS_PER_DIGIT
  BY <1>1
<1>3. QED
  BY <1>1, <1>2 DEF Ten

(* Digits whose precision covers them are not two digits below the point. *)
LEMMA CoveredExponent ==
  ASSUME NEW c \in Nat \ {0}, c % RADIX # 0, NEW e \in Int, NEW s \in {-1, 1},
         NEW p \in 0 .. MAX_DEC_PREC_FOR_SHINT, Canonical(s * c, Place(e))[2] >= -p
  PROVE  e >= -1
<1>1. SUFFICES ASSUME e < -1 PROVE FALSE
  OBVIOUS
<1>2. PICK i \in Int : i = Place(e)
  BY PlaceFacts
<1>3. PICK f \in Int : f = -p
  BY Limits
<1>4. PICK j \in Int : j = i + DEC_DIGITS_PER_DIGIT
  BY Limits
<1>5. i =< j /\ j =< f
  <2>1. -2 \in Int /\ e =< -2
    BY <1>1
  <2>2. Place(e) =< Place(-2)
    BY <2>1, PlaceFacts
  <2>3. QED
    BY <1>2, <1>3, <1>4, <2>2, Places, Room
<1>6. PICK w \in Int : s * c = w * Ten(i, f)
  <2>1. s * c \in Int
    OBVIOUS
  <2>2. Canonical(s * c, i)[2] >= f /\ i =< f
    BY <1>2, <1>3, <1>5
  <2>3. QED
    BY <2>1, <2>2, CoveredMultiple
<1>7. Ten(i, f) = RADIX * Ten(j, f) /\ Ten(j, f) \in Nat /\ RADIX \in Nat \ {0}
  <2>1. Ten(i, f) = Ten(i, j) * Ten(j, f)
    BY <1>5, TenSteps, ZenonT(40)
  <2>2. QED
    BY <1>4, <1>5, <2>1, TenRadix, TenType, RadixPositive
<1>8. ASSUME NEW t \in Nat, NEW r \in Nat \ {0}, s * c = w * (r * t) PROVE c % r = 0
  <2>1. c = r * (s * (w * t)) /\ s * (w * t) \in Int
    <3>1. CASE s = 1
      BY <1>8, <3>1
    <3>2. CASE s = -1
      <4>1. c = -(w * (r * t))
        BY <1>8, <3>2
      <4>2. -(w * (r * t)) = r * (-(w * t))
        OBVIOUS
      <4>3. s * (w * t) = -(w * t)
        BY <3>2
      <4>4. QED
        BY <4>1, <4>2, <4>3
    <3>3. QED
      BY <3>1, <3>2
  <2>2. ASSUME NEW q \in Int, c = r * q PROVE c % r = 0
    <3>1. c \div r = q
      BY <2>2
    <3>2. c = r * (c \div r) + (c % r) /\ c % r \in Nat
      BY Z3
    <3>3. QED
      BY <2>2, <3>1, <3>2
  <2>3. QED
    BY <2>1, <2>2
<1>9. QED
  BY <1>6, <1>7, <1>8

(* The one digit below the point, as the code cuts it off. *)
LEMMA CutExactly ==
  ASSUME NEW c \in Nat, NEW p \in Nat, NEW r \in Nat \ {0}, NEW u \in Nat, c * p = u * r
  PROVE  ((c % r) * p) \div r + (c \div r) * p = u
<1>1. PICK q \in Nat, l \in Nat : c \div r = q /\ (c % r) = l /\ c = q * r + l
  BY Z3
<1>2. (q * r + l) * p = (q * p) * r + l * p /\ q * p \in Nat /\ l * p \in Nat
  OBVIOUS
<1>3. l * p = (u - q * p) * r
  <2>1. ASSUME NEW v \in Nat PROVE (u - v) * r = u * r - v * r
    OBVIOUS
  <2>2. QED
    BY <1>1, <1>2, <2>1
<1>4. ASSUME NEW v \in Int, NEW a \in Nat, a = v * r PROVE a \div r = v
  BY <1>4
<1>5. (l * p) \div r = u - q * p
  BY <1>2, <1>3, <1>4
<1>6. QED
  BY <1>1, <1>2, <1>5

(* Digits near the point as the coefficient of a shifted int. *)
LEMMA ShiftedDigits ==
  ASSUME NEW d, d.coeff \in Nat, d.exp \in -1 .. 1, NEW s \in {-1, 1},
         NEW p \in 0 .. MAX_DEC_PREC_FOR_SHINT,
         Canonical(s * d.coeff, Place(d.exp))[2] >= -p
  PROVE  /\ ShiftedInt(d, p) \in Nat
         /\ Canonical(s * ShiftedInt(d, p), -p) = Canonical(s * d.coeff, Place(d.exp))
<1>1. PICK c \in Nat : c = d.coeff
  OBVIOUS
<1>2. PICK f \in Int : f = -p
  BY Limits
<1>3. PICK r \in Nat \ {0} : r = DEC_DIGITS_PER_DIGIT
  BY Limits
<1>o. PICK o \in Int : o = 0
  OBVIOUS
<1>4. p \in Nat /\ f =< o /\ o =< r /\ f =< r /\ p < r /\ r \in Int
  BY <1>2, <1>3, <1>o, Room
<1>5. Power(10, p) = Ten(f, o) /\ Ten(f, o) \in Nat \ {0} /\ u64_10_pow_n(p) = Power(10, p)
  BY <1>2, <1>4, <1>o, TenType DEF Ten, u64_10_pow_n
<1>6. s * c \in Int
  OBVIOUS
<1>7. CASE d.exp = 0
  <2>1. ShiftedInt(d, p) = c * Ten(f, o)
    BY <1>1, <1>5, <1>7 DEF ShiftedInt
  <2>2. c * Ten(f, o) \in Nat /\ s * (c * Ten(f, o)) = (s * c) * Ten(f, o)
    BY <1>5
  <2>3. Canonical((s * c) * Ten(f, o), f) = Canonical(s * c, o)
    BY <1>4, <1>6, CanonicalShift, ZenonT(40)
  <2>4. QED
    BY <1>1, <1>2, <1>o, <1>7, <2>1, <2>2, <2>3, Places
<1>8. CASE d.exp = 1
  <2>1. ShiftedInt(d, p) = c * Ten(f, o) * RADIX
    BY <1>1, <1>5, <1>8 DEF ShiftedInt
  <2>2. Ten(f, r) = Ten(f, o) * RADIX /\ RADIX \in Nat
    <3>1. Ten(f, r) = Ten(f, o) * Ten(o, r)
      BY <1>4, TenSteps, ZenonT(40)
    <3>2. Ten(o, r) = RADIX
      BY <1>3, <1>o, <1>4, TenRadix
    <3>3. QED
      BY <3>1, <3>2, RadixPositive
  <2>3. ASSUME NEW t \in Nat, NEW u \in Nat
        PROVE  c * t * u = c * (t * u) /\ c * (t * u) \in Nat /\ s * (c * (t * u)) = (s * c) * (t * u)
    OBVIOUS
  <2>4. /\ ShiftedInt(d, p) = c * Ten(f, r) /\ c * Ten(f, r) \in Nat
        /\ s * (c * Ten(f, r)) = (s * c) * Ten(f, r)
    BY <1>5, <2>1, <2>2, <2>3
  <2>5. Canonical((s * c) * Ten(f, r), f) = Canonical(s * c, r)
    BY <1>4, <1>6, CanonicalShift, ZenonT(40)
  <2>6. QED
    BY <1>1, <1>2, <1>3, <1>8, <2>4, <2>5, Places
<1>9. CASE d.exp = -1
  <2>1. PICK i \in Int : i = -r
    OBVIOUS
  <2>2. Place(d.exp) = i /\ i =< f
    BY <1>2, <1>3, <1>4, <1>9, <2>1, Places
  <2>3. PICK w \in Int : Canonical(s * c, i) = Canonical(w, f) /\ s * c = w * Ten(i, f)
    <3>1. Canonical(s * c, i)[2] >= f
      BY <1>1, <1>2, <2>2
    <3>2. QED
      BY <1>6, <2>2, <3>1, CoveredMultiple
  <2>4. Ten(i, f) \in Nat \ {0} /\ RADIX = Ten(i, f) * Ten(f, o) /\ RADIX \in Nat \ {0}
    <3>1. Ten(i, o) = Ten(i, f) * Ten(f, o)
      BY <1>4, <2>2, TenSteps, ZenonT(40)
    <3>2. Ten(i, o) = RADIX
      BY <1>3, <1>o, <2>1, TenRadix
    <3>3. QED
      BY <2>2, <3>1, <3>2, TenType, RadixPositive
  <2>5. PICK u \in Nat : u = s * w /\ w = s * u /\ c = u * Ten(i, f)
    <3>1. ASSUME NEW t \in Nat \ {0}, s * c = w * t
          PROVE  s * w \in Nat /\ w = s * (s * w) /\ c = (s * w) * t
      <4>1. CASE s = 1
        <5>1. w < 0 => w * t < 0
          OBVIOUS
        <5>2. QED
          BY <3>1, <4>1, <5>1
      <4>2. CASE s = -1
        <5>1. -c = w * t
          BY <3>1, <4>2
        <5>2. w > 0 => w * t > 0
          OBVIOUS
        <5>3. (-w) * t = -(w * t)
          OBVIOUS
        <5>4. s * w = -w /\ s * (s * w) = w
          BY <4>2
        <5>5. QED
          BY <5>1, <5>2, <5>3, <5>4
      <4>3. QED
        BY <4>1, <4>2
    <3>2. QED
      BY <2>3, <2>4, <3>1
  <2>6. c * Ten(f, o) = u * RADIX
    <3>1. ASSUME NEW t \in Nat, NEW v \in Nat PROVE (u * t) * v = u * (t * v)
      OBVIOUS
    <3>2. QED
      BY <1>5, <2>4, <2>5, <3>1
  <2>7. ((c % RADIX) * Ten(f, o)) \div RADIX + (c \div RADIX) * Ten(f, o) = u
    <3>1. PICK t \in Nat, q \in Nat \ {0} : t = Ten(f, o) /\ q = RADIX
      BY <1>5, <2>4
    <3>2. c * t = u * q
      BY <2>6, <3>1
    <3>3. ((c % q) * t) \div q + (c \div q) * t = u
      BY <3>2, CutExactly, Zenon
    <3>4. QED
      BY <3>1, <3>3
  <2>8. ShiftedInt(d, p) = u
    BY <1>1, <1>5, <1>9, <2>7 DEF ShiftedInt
  <2>9. QED
    BY <1>1, <1>2, <2>2, <2>3, <2>5, <2>8
<1>10. QED
  BY <1>7, <1>8, <1>9

(* The three forms of a result. *)
LEMMA ZeroOperand ==
  ASSUME NEW p \in 0 .. FPDEC_MAX_DEC_PREC
  PROVE  /\ Operand(ResetToZero(p)) /\ Number(ResetToZero(p)) = << 0, 0 >>
         /\ ResetToZero(p).sign = 0
<1> DEFINE a == ResetToZero(p)
<1>1. /\ a.dyn = FALSE /\ a.normalized = FALSE /\ a.sign = 0 /\ a.dec_prec = p
      /\ a.coeff = 0 /\ a.n = 0 /\ a.exp = 0
  BY DEF ResetToZero, Shint
<1>2. a \in Decimals
  <2>1. p \in 0 .. FPDEC_MAX_DEC_PREC /\ 0 \in INT32_MIN .. FPDEC_MAX_EXP
    BY Room
  <2>2. QED
    BY <2>1 DEF ResetToZero, Shint, Decimals
<1>3. WellFormed(a)
  BY <1>1 DEF WellFormed
<1>4. Number(a) = << 0, 0 >>
  <2>1. a.sign * a.coeff = 0
    BY <1>1
  <2>2. QED
    BY <2>1, CanonicalZero DEF Number
<1>5. PrecCoversDigits(a)
  BY <1>1, <1>4, Room DEF PrecCoversDigits
<1>6. QED
  BY <1>1, <1>2, <1>3, <1>4, <1>5 DEF Operand

(* A shifted int within its limits. *)
LEMMA ShintOperand ==
  ASSUME NEW s \in {-1, 1}, NEW p \in 0 .. MAX_DEC_PREC_FOR_SHINT, NEW c \in Nat \ {0}, c < SHINT_LIMIT
  PROVE  Operand(Shint(s, p, c)) /\ Number(Shint(s, p, c)) = Canonical(s * c, -p)
<1> DEFINE a == Shint(s, p, c)
<1>1. /\ a.dyn = FALSE /\ a.normalized = FALSE /\ a.sign = s /\ a.dec_prec = p
      /\ a.coeff = c /\ a.n = 0 /\ a.exp = 0
  BY DEF Shint
<1>2. a \in Decimals
  <2>1. p \in 0 .. FPDEC_MAX_DEC_PREC /\ 0 \in INT32_MIN .. FPDEC_MAX_EXP /\ s \in -1 .. 1
    BY Room
  <2>2. QED
    BY <2>1 DEF Shint, Decimals
<1>3. WellFormed(a)
  BY <1>1, Room DEF WellFormed
<1>4. Number(a) = Canonical(s * c, -p)
  BY <1>1 DEF Number
<1>5. PrecCoversDigits(a)
  <2>1. PICK f \in Int : f = -p /\ f =< 0
    BY Room
  <2>2. s * c \in Int /\ f =< f
    BY <2>1
  <2>3. Canonical(s * c, f)[2] >= f
    BY <2>1, <2>2, CanonicalCovered
  <2>4. QED
    BY <1>1, <1>4, <2>1, <2>3 DEF PrecCoversDigits
<1>6. QED
  BY <1>2, <1>3, <1>4, <1>5 DEF Operand

(* Digits without zeros on either side, and the precision to cover them. *)
LEMMA DynOperand ==
  ASSUME NEW s \in {-1, 1}, NEW p \in 0 .. FPDEC_MAX_DEC_PREC, NEW d, Stripped(d),
         d.exp \in INT32_MIN .. FPDEC_MAX_EXP, Canonical(s * d.coeff, Place(d.exp))[2] >= -p
  PROVE  LET a == Dyn(s, p, d.coeff, d.n, d.exp)
         IN  Operand(a) /\ Number(a) = Canonical(s * d.coeff, Place(d.exp))
<1> DEFINE a == Dyn(s, p, d.coeff, d.n, d.exp)
<1>1. /\ a.dyn = TRUE /\ a.normalized = TRUE /\ a.sign = s /\ a.dec_prec = p
      /\ a.coeff = d.coeff /\ a.n = d.n /\ a.exp = d.exp
  BY DEF Dyn
<1>2. a \in Decimals
  <2>1. d.coeff \in Nat /\ d.n \in Nat /\ s \in -1 .. 1
    BY DEF Stripped
  <2>2. QED
    BY <2>1 DEF Dyn, Decimals
<1>3. WellFormed(a)
  BY <1>1 DEF WellFormed, Stripped
<1>4. Number(a) = Canonical(s * d.coeff, Place(d.exp))
  BY <1>1 DEF Number, Place
<1>5. PrecCoversDigits(a)
  BY <1>1, <1>4 DEF PrecCoversDigits
<1>6. QED
  BY <1>2, <1>3, <1>4, <1>5 DEF Operand

(* The logarithm of a digit, rounded up or not. *)
LEMMA TopMagnitude ==
  ASSUME NEW v \in Nat, v < RADIX
  PROVE  U64_MAGNITUDE(v) \in 0 .. DEC_DIGITS_PER_DIGIT
<1>1. PICK q \in Nat \ {0} : q = LOG10_PRECISION
  BY LimitsAssumption
<1>2. v \div q \in Nat /\ v \div q =< v
  <2>1. v \div q \in Nat /\ q * (v \div q) =< v
    BY Z3
  <2>2. ASSUME NEW u \in Nat PROVE u =< q * u
    OBVIOUS
  <2>3. QED
    BY <2>1, <2>2
<1>3. PICK t \in Nat : t = v + v \div q
  BY <1>2
<1>4. t < 10 * RADIX /\ RADIX \in Nat
  BY <1>2, <1>3, RadixPositive
<1>5. PICK l \in Nat : l = Log10[t] /\ (t # 0 => Power(10, l) =< t)
  BY Log10Facts
<1>6. l =< DEC_DIGITS_PER_DIGIT
  <2>1. CASE t = 0
    BY <1>5, <2>1, Log10Facts, Room
  <2>2. CASE t # 0
    <3>1. PICK r \in Nat : r = DEC_DIGITS_PER_DIGIT
      BY Room
    <3>2. Power(10, r + 1) = 10 * RADIX
      BY <3>1, PowersOf10, Limits
    <3>3. SUFFICES ASSUME r + 1 =< l PROVE FALSE
      BY <3>1
    <3>4. r + 1 \in Nat /\ 10 \in Nat /\ 10 >= 2
      OBVIOUS
    <3>5. Power(10, r + 1) =< Power(10, l)
      BY <3>3, <3>4, PowerOrder
    <3>6. Power(10, l) \in Nat
      BY PowersOf10
    <3>7. QED
      BY <1>4, <1>5, <2>2, <3>2, <3>5, <3>6
  <2>3. QED
    BY <2>1, <2>2
<1>7. U64_MAGNITUDE(v) = l
  BY <1>1, <1>3, <1>5 DEF U64_MAGNITUDE
<1>8. QED
  BY <1>5, <1>6, <1>7

(* The most significant digit. *)
LEMMA TopDigit ==
  ASSUME NEW c \in Nat, NEW n \in Nat \ {0}, Weight(n - 1) =< c, c < Weight(n)
  PROVE  LET top == DigitAt(c, n - 1)
         IN  /\ top \in Nat \ {0} /\ top < RADIX
             /\ top * Weight(n - 1) =< c /\ c < (top + 1) * Weight(n - 1)
<1>1. n - 1 \in Nat
  OBVIOUS
<1>2. PICK w \in Nat \ {0}, r \in Nat \ {0} :
        w = Weight(n - 1) /\ r = RADIX /\ Weight(n) = r * w
  BY <1>1, WeightFacts, RadixPositive
<1>3. PICK q \in Nat : q = c \div w /\ q * w =< c /\ c < (q + 1) * w
  BY Z3
<1>4. q # 0
  BY <1>2, <1>3
<1>5. q < r
  <2>1. SUFFICES ASSUME r =< q PROVE FALSE
    OBVIOUS
  <2>2. r * w =< q * w
    BY <2>1
  <2>3. r * w \in Nat /\ q * w \in Nat
    OBVIOUS
  <2>4. QED
    BY <1>2, <1>3, <2>2, <2>3
<1>6. q % r = q
  BY <1>5
<1>7. DigitAt(c, n - 1) = q
  BY <1>2, <1>3, <1>6 DEF DigitAt
<1>8. QED
  BY <1>2, <1>3, <1>4, <1>5, <1>7

LEMMA NormalizedType ==
  ASSUME NEW a, a.coeff \in Nat, a.exp \in Int, a.sign \in -1 .. 1,
         a.dec_prec \in 0 .. FPDEC_MAX_DEC_PREC
  PROVE  /\ fpdec_dyn_normalize(a).v \in Decimals
         /\ fpdec_dyn_normalize(a).rc \in {"OK", "ABORT"}
<1> DEFINE d == Trimmed(a.coeff, DigitCount[a.coeff], a.exp)
           normalized == Dyn(a.sign, a.dec_prec, d.coeff, d.n, d.exp)
           shint == ShiftedInt(d, a.dec_prec)
           o == fpdec_dyn_normalize(a)
<1>1. FPDEC_ZERO \in Decimals /\ ResetToZero(a.dec_prec) \in Decimals
  <2>1. 0 \in 0 .. FPDEC_MAX_DEC_PREC
    BY Room
  <2>2. QED
    BY <2>1, ZeroOperand DEF Operand, FPDEC_ZERO, ResetToZero
<1>2. CASE a.coeff = 0
  BY <1>1, <1>2 DEF fpdec_dyn_normalize, Ok, Returns
<1>3. CASE a.coeff # 0
  <2>1. Stripped(d) /\ d.exp \in INT32_MIN .. FPDEC_MAX_EXP
    BY <1>3, StrippedZeros
  <2>2. d.coeff \in Nat /\ d.n \in Nat
    BY <2>1 DEF Stripped
  <2> DEFINE fits == /\ a.dec_prec =< MAX_DEC_PREC_FOR_SHINT
                     /\ d.exp =< 1
                     /\ MAX(fpdec_magnitude(normalized), 0) + a.dec_prec =< MAX_N_DEC_DIGITS_IN_SHINT
  <2>3. o = IF fits
            THEN Asserting(AllDigitsUsed(d),
                           Ok(IF shint < SHINT_LIMIT THEN Shint(a.sign, a.dec_prec, shint) ELSE normalized))
            ELSE Ok(normalized)
    BY <1>3 DEF fpdec_dyn_normalize
  <2> HIDE DEF o
  <2>4. normalized \in Decimals
    <3> HIDE DEF d
    <3>1. QED
      BY <2>1, <2>2 DEF Dyn, Decimals
  <2>5. ASSUME fits, AllDigitsUsed(d) PROVE shint \in Nat
    <3>1. d.exp \in -1 .. 1
      BY <2>1, <2>5 DEF AllDigitsUsed
    <3> HIDE DEF d
    <3>2. PICK c \in Nat, r \in Nat \ {0}, p \in Nat :
            c = d.coeff /\ r = RADIX /\ p = u64_10_pow_n(a.dec_prec)
      <4>1. a.dec_prec \in Nat /\ RADIX \in Nat \ {0}
        BY RadixPositive, Room
      <4>2. u64_10_pow_n(a.dec_prec) \in Nat
        BY <4>1, PowersOf10 DEF u64_10_pow_n
      <4>3. QED
        BY <2>2, <4>1, <4>2
    <3>3. c * p \in Nat /\ c * p * r \in Nat
      OBVIOUS
    <3>4. ((c % r) * p) \div r + (c \div r) * p \in Nat
      <4>1. PICK q \in Nat, l \in Nat : q = c \div r /\ l = c % r
        BY Z3
      <4>2. PICK u \in Nat, v \in Nat : u = l * p /\ v = q * p
        OBVIOUS
      <4>3. u \div r \in Nat
        BY Z3
      <4>4. QED
        BY <4>1, <4>2, <4>3
    <3>5. QED
      BY <3>1, <3>2, <3>3, <3>4 DEF ShiftedInt
  <2>6. ASSUME fits, AllDigitsUsed(d) PROVE Shint(a.sign, a.dec_prec, shint) \in Decimals
    <3>1. shint \in Nat
      BY <2>5, <2>6
    <3> HIDE DEF shint
    <3>2. 0 \in INT32_MIN .. FPDEC_MAX_EXP
      BY Room
    <3>3. QED
      BY <3>1, <3>2 DEF Shint, Decimals
  <2> HIDE DEF d, normalized, shint
  <2>7. QED
    BY <1>1, <2>3, <2>4, <2>6 DEF o, Ok, Returns, Asserting, AssertionFails
<1>4. QED
  BY <1>2, <1>3

(***************************************************************************)
(* fpdec_dyn_normalize keeps the number, and its assertion holds, if the   *)
(* precision covers the digits and neither exponent nor magnitude wraps.   *)
(***************************************************************************)
LEMMA Normalized ==
  ASSUME NEW a, a.coeff \in Nat, a.exp \in INT32_MIN .. FPDEC_MAX_EXP, a.sign \in {-1, 1},
         a.dec_prec \in 0 .. FPDEC_MAX_DEC_PREC,
         Canonical(a.sign * a.coeff, Place(a.exp))[2] >= -a.dec_prec,
         a.coeff # 0 => a.exp + TrailingZeroDigits(a.coeff, DigitCount[a.coeff]) =< FPDEC_MAX_EXP,
         a.coeff # 0 /\ a.exp =< 1 => Place(DigitCount[a.coeff] + a.exp) =< FPDEC_MAX_EXP
  PROVE  LET o == fpdec_dyn_normalize(a)
         IN  /\ o.rc = "OK" /\ Operand(o.v)
             /\ Number(o.v) = Canonical(a.sign * a.coeff, Place(a.exp))
             /\ o.v.dec_prec = a.dec_prec
<1> DEFINE d == Trimmed(a.coeff, DigitCount[a.coeff], a.exp)
           normalized == Dyn(a.sign, a.dec_prec, d.coeff, d.n, d.exp)
           shint == ShiftedInt(d, a.dec_prec)
           o == fpdec_dyn_normalize(a)
           number == Canonical(a.sign * a.coeff, Place(a.exp))
<1>1. CASE a.coeff = 0
  <2>1. number = << 0, 0 >>
    <3>1. a.sign * a.coeff = 0
      BY <1>1
    <3>2. QED
      BY <3>1, CanonicalZero
  <2>2. o = Ok(ResetToZero(a.dec_prec))
    BY <1>1 DEF fpdec_dyn_normalize
  <2>3. ResetToZero(a.dec_prec).dec_prec = a.dec_prec
    BY DEF ResetToZero, Shint
  <2>4. QED
    BY <2>1, <2>2, <2>3, ZeroOperand DEF Ok, Returns
<1>2. CASE a.coeff # 0
  <2> DEFINE n == DigitCount[a.coeff]
             k == TrailingZeroDigits(a.coeff, n)
  <2>1. /\ Stripped(d) /\ k \in 0 .. n - 1 /\ d.n = n - k /\ n \in Nat
        /\ d.exp \in INT32_MIN .. FPDEC_MAX_EXP
    <3>1. a.exp \in Int /\ a.coeff \in Nat \ {0}
      BY <1>2, Room
    <3>2. QED
      BY <3>1, StrippedZeros, DigitCountRange
  <2>2. d.exp = a.exp + k /\ Canonical(a.sign * d.coeff, Place(d.exp)) = number
    <3>1. a.coeff \in Nat \ {0} /\ n \in Nat /\ a.coeff < Weight(n) /\ a.exp \in Int /\ a.sign \in Int
      BY <1>2, DigitCountRange, Room
    <3>2. a.exp + TrailingZeroDigits(a.coeff, n) \in INT32_MIN .. FPDEC_MAX_EXP
      <4>1. a.exp + k =< FPDEC_MAX_EXP
        BY <1>2
      <4> HIDE DEF k
      <4>2. a.exp + k \in INT32_MIN .. FPDEC_MAX_EXP
        BY <2>1, <4>1, Room
      <4>3. QED
        BY <4>2 DEF k
    <3>3. LET f == Trimmed(a.coeff, n, a.exp)
          IN  /\ f.exp = a.exp + TrailingZeroDigits(a.coeff, n)
              /\ Canonical(a.sign * f.coeff, f.exp * DEC_DIGITS_PER_DIGIT)
                   = Canonical(a.sign * a.coeff, a.exp * DEC_DIGITS_PER_DIGIT)
      <4> HIDE DEF n
      <4>1. QED
        BY <3>1, <3>2, TrimmedNumber, ZenonT(60)
    <3>4. QED
      BY <3>3 DEF Place
  <2> DEFINE fits == /\ a.dec_prec =< MAX_DEC_PREC_FOR_SHINT
                     /\ d.exp =< 1
                     /\ MAX(fpdec_magnitude(normalized), 0) + a.dec_prec =< MAX_N_DEC_DIGITS_IN_SHINT
  <2>3. o = IF fits
            THEN Asserting(AllDigitsUsed(d),
                           Ok(IF shint < SHINT_LIMIT THEN Shint(a.sign, a.dec_prec, shint) ELSE normalized))
            ELSE Ok(normalized)
    BY <1>2 DEF fpdec_dyn_normalize
  <2>0. Place(n + a.exp) =< FPDEC_MAX_EXP \/ a.exp > 1
    BY <1>2
  <2>res. number[2] >= -a.dec_prec
    OBVIOUS
  <2> HIDE DEF o, d, n, k, number
  <2>4. Operand(normalized) /\ Number(normalized) = number
    BY <2>1, <2>2, <2>res, DynOperand
  <2>5. ASSUME fits
        PROVE  /\ AllDigitsUsed(d)
               /\ shint < SHINT_LIMIT =>
                    /\ Operand(Shint(a.sign, a.dec_prec, shint))
                    /\ Number(Shint(a.sign, a.dec_prec, shint)) = number
    <3>1. a.dec_prec \in 0 .. MAX_DEC_PREC_FOR_SHINT
      BY <2>5, Room
    <3>2. d.exp \in Int /\ d.coeff \in Nat \ {0} /\ d.coeff % RADIX # 0 /\ d.n \in Nat \ {0}
      BY <2>1, Room DEF Stripped
    <3>3. d.exp >= -1
      BY <2>2, <2>res, <3>1, <3>2, CoveredExponent
    <3>4. d.exp \in -1 .. 1
      BY <2>5, <3>2, <3>3
    <3>5. d.n + d.exp =< 2
      <4> DEFINE top == U64_MAGNITUDE(DigitAt(d.coeff, d.n - 1))
                 place == Place(d.n + d.exp - 1)
      <4>1. top \in 0 .. DEC_DIGITS_PER_DIGIT
        <5>1. DigitAt(d.coeff, d.n - 1) \in Nat /\ DigitAt(d.coeff, d.n - 1) < RADIX
          BY <2>1, TopDigit DEF Stripped
        <5>2. QED
          BY <5>1, TopMagnitude
      <4>2. fpdec_magnitude(normalized) = Int32(place + top)
        BY DEF normalized, Dyn, fpdec_magnitude, Place
      <4> HIDE DEF top
      <4>3. place + top \in INT32_MIN .. FPDEC_MAX_EXP
        <5>1. d.n + d.exp - 1 \in Int /\ d.n + d.exp - 1 >= -1 /\ d.n + d.exp = n + a.exp /\ a.exp =< 1
          <6>1. a.exp \in Int
            BY Room
          <6>2. QED
            BY <2>1, <2>2, <3>2, <3>4, <6>1
        <5>2. PICK f \in Int : f = d.n + d.exp - 1 /\ f >= -1
          BY <5>1
        <5>3. Place(f + 1) = Place(f) + Place(1) /\ Place(-1) =< Place(f) /\ Place(f) \in Int
          <6>1. 1 \in Int /\ -1 \in Int
            OBVIOUS
          <6>2. QED
            BY <5>2, <6>1, PlaceFacts
        <5>4. f + 1 = n + a.exp
          BY <3>2, <3>4, <5>1, <5>2
        <5>5. QED
          BY <2>0, <4>1, <5>1, <5>2, <5>3, <5>4, Places, Room
      <4>4. fpdec_magnitude(normalized) = place + top /\ place \in Int
        <5>1. d.n + d.exp - 1 \in Int
          BY <3>2
        <5>2. place \in Int
          BY <5>1, PlaceFacts
        <5>3. place + top \in Int
          BY <4>1, <5>2
        <5>4. QED
          BY <4>2, <4>3, <5>2, <5>3, Int32Facts
      <4>5. place + a.dec_prec =< MAX_N_DEC_DIGITS_IN_SHINT
        <5> HIDE DEF place
        <5>1. QED
          BY <2>5, <4>1, <4>4, <3>1, Room DEF MAX
      <4>6. SUFFICES ASSUME d.n + d.exp - 1 >= 2 PROVE FALSE
        BY <3>2, <3>4
      <4>7. Place(2) =< place
        <5>1. 2 \in Int /\ d.n + d.exp - 1 \in Int
          BY <3>2
        <5>2. QED
          BY <4>6, <5>1, PlaceFacts
      <4>8. QED
        BY <3>1, <4>4, <4>5, <4>7, Places, Room
    <3>6. AllDigitsUsed(d)
      BY <3>3, <3>5 DEF AllDigitsUsed
    <3>7. /\ shint \in Nat
          /\ Canonical(a.sign * shint, -a.dec_prec) = number
      BY <2>2, <2>res, <3>1, <3>2, <3>4, ShiftedDigits
    <3>8. shint # 0
      <4>1. number[1] # 0
        <5>1. a.sign * a.coeff \in Int /\ a.sign * a.coeff # 0 /\ Place(a.exp) \in Int
          <6>1. ASSUME NEW s \in {-1, 1}, NEW c \in Nat \ {0} PROVE s * c \in Int /\ s * c # 0
            OBVIOUS
          <6>2. a.exp \in Int /\ a.coeff \in Nat \ {0}
            BY <1>2, Room
          <6>3. QED
            BY <6>1, <6>2, PlaceFacts
        <5>2. QED
          BY <5>1, CanonicalSign DEF number
      <4> HIDE DEF shint
      <4>2. ASSUME shint = 0 PROVE FALSE
        <5>1. a.sign * shint = 0
          BY <4>2
        <5>2. QED
          BY <3>7, <4>1, <5>1, CanonicalZero
      <4>3. QED
        BY <4>2
    <3> HIDE DEF shint
    <3>9. QED
      BY <3>1, <3>6, <3>7, <3>8, ShintOperand
  <2>6. normalized.dec_prec = a.dec_prec /\ Shint(a.sign, a.dec_prec, shint).dec_prec = a.dec_prec
    BY DEF normalized, Dyn, Shint
  <2> HIDE DEF normalized, shint, fits
  <2>7. QED
    BY <2>3, <2>4, <2>5, <2>6 DEF o, number, Ok, Returns, Asserting
<1>3. QED
  BY <1>1, <1>2

-----------------------------------------------------------------------------
(***************************************************************************)
(* Comparison. A number in a unit 10^e small enough for all of its digits. *)
(***************************************************************************)
Amount(a, e, m) == m \in Nat /\ Number(a) = Canonical(a.sign * m, e)

(* The amount of an operand in a unit is its coefficient, shifted. *)
LEMMA AmountIs ==
  ASSUME NEW s \in {-1, 1}, NEW m \in Nat, NEW v \in Nat, NEW e \in Int, NEW j \in Int, e =< j,
         Canonical(s * m, e) = Canonical(s * v, j)
  PROVE  m = v * Ten(e, j)
<1>1. PICK t \in Nat : t = Ten(e, j)
  BY TenType
<1>2. s * m \in Int /\ s * v \in Int /\ (s * v) * t \in Int
  OBVIOUS
<1>3. Canonical((s * v) * Ten(e, j), e) = Canonical(s * v, j)
  BY <1>2, CanonicalShift, ZenonT(40)
<1>4. s * m = (s * v) * t
  BY <1>1, <1>2, <1>3, CanonicalInjective
<1>5. ASSUME s * m = (s * v) * t PROVE m = v * t
  <2>1. CASE s = 1
    BY <1>5, <2>1
  <2>2. CASE s = -1
    <3>1. (s * v) * t = -(v * t) /\ s * m = -m
      BY <2>2
    <3>2. v * t \in Nat
      OBVIOUS
    <3>3. QED
      BY <1>5, <3>1, <3>2
  <2>3. QED
    BY <2>1, <2>2
<1>6. QED
  BY <1>1, <1>4, <1>5

(* A unit below all digits. *)
Unit(a) == MIN(Place(DigitsOf(a).exp), -a.dec_prec)

(* Every operand is a whole amount of each unit that is small enough. *)
LEMMA Amounts ==
  ASSUME NEW a, Operand(a), a.sign # 0, NEW e \in Int, e =< Unit(a)
  PROVE  LET d == DigitsOf(a)
         IN  /\ a.sign \in {-1, 1} /\ Stripped(d) /\ d.exp \in Int
             /\ Place(d.exp) \in Int /\ e =< Place(d.exp)
             /\ \E m \in Nat : Amount(a, e, m)
             /\ \A m : Amount(a, e, m) => m \in Nat \ {0} /\ m = d.coeff * Ten(e, Place(d.exp))
             /\ ~a.dyn => /\ a.coeff \in Nat \ {0} /\ a.dec_prec \in 0 .. MAX_DEC_PREC_FOR_SHINT
                          /\ e =< -a.dec_prec /\ -a.dec_prec \in Int
                          /\ \A m : Amount(a, e, m) => m = a.coeff * Ten(e, -a.dec_prec)
<1> DEFINE d == DigitsOf(a)
<1>1. a.sign \in {-1, 1} /\ a.dec_prec \in Nat
  BY Room DEF Operand, Decimals
<1>2. Stripped(d) /\ d.exp \in Int /\ Number(a) = Canonical(a.sign * d.coeff, Place(d.exp))
  BY OperandDigits, Room DEF Place
<1>3. PICK j \in Int : j = Place(d.exp)
  BY <1>2, PlaceFacts
<1>4. PICK c \in Nat \ {0} : c = d.coeff
  BY <1>2 DEF Stripped
<1>5. PICK f \in Int : f = -a.dec_prec
  BY <1>1
<1>6. e =< j /\ e =< f
  BY <1>3, <1>5 DEF Unit, MIN
<1> HIDE DEF d
<1>7. \E m \in Nat : Amount(a, e, m)
  <2>1. PICK t \in Nat : t = Ten(e, j)
    BY <1>6, TenType
  <2>2. a.sign * c \in Int /\ c * t \in Nat /\ a.sign * (c * t) = (a.sign * c) * t
    BY <1>1
  <2>3. Canonical((a.sign * c) * Ten(e, j), e) = Canonical(a.sign * c, j)
    BY <1>6, <2>2, CanonicalShift, ZenonT(40)
  <2>4. Amount(a, e, c * t)
    BY <1>2, <1>3, <1>4, <2>1, <2>2, <2>3 DEF Amount
  <2>5. QED
    BY <2>2, <2>4
<1>8. ASSUME NEW m, Amount(a, e, m) PROVE m \in Nat \ {0} /\ m = c * Ten(e, j)
  <2>1. m \in Nat /\ Canonical(a.sign * m, e) = Canonical(a.sign * c, j)
    BY <1>2, <1>3, <1>4, <1>8 DEF Amount
  <2>2. m = c * Ten(e, j)
    BY <1>1, <1>6, <2>1, AmountIs
  <2>3. Ten(e, j) \in Nat \ {0}
    BY <1>6, TenType
  <2>4. QED
    BY <2>1, <2>2, <2>3
<1>9. ASSUME ~a.dyn
      PROVE  /\ a.coeff \in Nat \ {0} /\ a.dec_prec \in 0 .. MAX_DEC_PREC_FOR_SHINT
             /\ \A m : Amount(a, e, m) => m = a.coeff * Ten(e, f)
  <2>1. a.coeff \in Nat \ {0} /\ a.dec_prec \in 0 .. MAX_DEC_PREC_FOR_SHINT
    BY <1>1, <1>9, Room DEF Operand, Decimals, WellFormed
  <2>2. ASSUME NEW m, Amount(a, e, m) PROVE m = a.coeff * Ten(e, f)
    <3>1. m \in Nat /\ Canonical(a.sign * m, e) = Canonical(a.sign * a.coeff, f)
      BY <1>5, <1>9, <2>2 DEF Amount, Number
    <3>2. QED
      BY <1>1, <1>6, <2>1, <3>1, AmountIs
  <2>3. QED
    BY <2>1, <2>2
<1>10. QED
  BY <1>1, <1>2, <1>3, <1>4, <1>5, <1>6, <1>7, <1>8, <1>9 DEF d

(* Bounds in a smaller unit. *)
LEMMA BoundsShift ==
  ASSUME NEW v \in Nat, NEW e \in Int, NEW j \in Int, NEW k \in Int, e =< j, j =< k
  PROVE  /\ Ten(j, k) =< v => Ten(e, k) =< v * Ten(e, j)
         /\ v < Ten(j, k) => v * Ten(e, j) < Ten(e, k)
<1>1. PICK t \in Nat \ {0}, u \in Nat \ {0} : t = Ten(e, j) /\ u = Ten(j, k)
  BY TenType
<1>2. Ten(e, k) = t * u
  BY <1>1, TenSteps, ZenonT(40)
<1>3. u =< v => t * u =< v * t
  OBVIOUS
<1>4. v < u => v * t < t * u
  <2>1. SUFFICES ASSUME v + 1 =< u PROVE v * t < t * u
    OBVIOUS
  <2>2. (v + 1) * t =< u * t
    BY <2>1
  <2>3. (v + 1) * t = v * t + t /\ u * t = t * u /\ v * t \in Nat /\ t * u \in Nat
    OBVIOUS
  <2>4. QED
    BY <2>2, <2>3
<1>5. QED
  BY <1>1, <1>2, <1>3, <1>4

(* Digits lie between the weights of their first place and of the next. *)
LEMMA DigitBounds ==
  ASSUME NEW d, Stripped(d), d.exp \in Int, NEW e \in Int, e =< Place(d.exp)
  PROVE  LET m == d.coeff * Ten(e, Place(d.exp))
         IN  /\ Place(d.exp + d.n) \in Int /\ Place(d.exp + d.n - 1) \in Int
             /\ Place(d.exp) =< Place(d.exp + d.n - 1)
             /\ Place(d.exp + d.n) = Place(d.exp + d.n - 1) + DEC_DIGITS_PER_DIGIT
             /\ Ten(e, Place(d.exp + d.n - 1)) =< m
             /\ m < Ten(e, Place(d.exp + d.n))
<1>1. PICK c \in Nat \ {0}, n \in Nat \ {0}, i \in Int : c = d.coeff /\ n = d.n /\ i = d.exp
  BY DEF Stripped
<1>2. Weight(n - 1) =< c /\ c < Weight(n) /\ n - 1 \in Nat /\ i + n \in Int /\ i + (n - 1) \in Int
      /\ d.exp + d.n - 1 = i + (n - 1) /\ i + n = (i + (n - 1)) + 1 /\ i =< i + (n - 1)
  BY <1>1 DEF Stripped
<1>3. /\ Place(i) \in Int /\ Place(i + n) \in Int /\ Place(i + (n - 1)) \in Int
      /\ Place(i) =< Place(i + (n - 1)) /\ Place(i) =< Place(i + n)
      /\ Place(i + n) = Place(i + (n - 1)) + DEC_DIGITS_PER_DIGIT
  <2>1. PICK k \in Int : k = i + (n - 1) /\ i =< k /\ i + n = k + 1 /\ i =< i + n /\ i + n \in Int
    BY <1>2
  <2>2. Place(k + 1) = Place(k) + Place(1)
    <3>1. 1 \in Int
      OBVIOUS
    <3>2. QED
      BY <2>1, <3>1, PlaceFacts
  <2>3. QED
    BY <2>1, <2>2, Places, PlaceFacts
<1>4. Weight(n - 1) = Ten(Place(i), Place(i + (n - 1))) /\ Weight(n) = Ten(Place(i), Place(i + n))
  BY <1>2, WeightTen DEF Place
<1>5. /\ Ten(e, Place(i + (n - 1))) =< c * Ten(e, Place(i))
      /\ c * Ten(e, Place(i)) < Ten(e, Place(i + n))
  BY <1>1, <1>2, <1>3, <1>4, BoundsShift
<1>6. QED
  BY <1>1, <1>2, <1>3, <1>5

(* A logarithm counted from the place j. *)
LEMMA LogBounds ==
  ASSUME NEW v \in Nat \ {0}, NEW l \in Nat, NEW j \in Int,
         Power(10, l) =< v, v < Power(10, l + 1)
  PROVE  Ten(j, j + l) =< v /\ v < Ten(j, j + l + 1)
<1>1. (j + l) - j = l /\ (j + l + 1) - j = l + 1
  OBVIOUS
<1>2. QED
  BY <1>1 DEF Ten

(* fpdec_magnitude is the logarithm of the number, rounded down. *)
LEMMA MagnitudeBounds ==
  ASSUME NEW a, Operand(a), a.sign # 0, LogarithmIsExact(a), a.dyn => MagnitudeFits(a),
         NEW e \in Int, e =< Unit(a), NEW m, Amount(a, e, m)
  PROVE  LET l == fpdec_magnitude(a)
         IN  l \in Int /\ e =< l /\ Ten(e, l) =< m /\ m < Ten(e, l + 1)
<1>0. m \in Nat \ {0}
  BY Amounts
<1>1. CASE ~a.dyn
  <2>1. PICK c \in Nat \ {0}, f \in Int :
          c = a.coeff /\ f = -a.dec_prec /\ e =< f /\ m = c * Ten(e, f)
    BY <1>1, Amounts
  <2>2. PICK l \in Nat : l = Log10[c] /\ Power(10, l) =< c /\ c < Power(10, l + 1)
    BY Log10Facts
  <2>3. Ten(f, f + l) =< c /\ c < Ten(f, f + l + 1)
    BY <2>2, LogBounds
  <2>4. f + l \in Int /\ f + l + 1 \in Int /\ f =< f + l /\ f =< f + l + 1 /\ e =< f + l
    BY <2>1
  <2>5. Ten(e, f + l) =< m /\ m < Ten(e, f + l + 1)
    BY <2>1, <2>3, <2>4, BoundsShift
  <2>6. fpdec_magnitude(a) = f + l
    <3>1. U64_MAGNITUDE(c) = l
      BY <1>1, <2>1, <2>2 DEF LogarithmIsExact
    <3>2. a.dec_prec \in Int
      BY <1>1, Amounts, Room
    <3>3. QED
      BY <1>1, <2>1, <3>1, <3>2 DEF fpdec_magnitude
  <2>7. QED
    BY <2>4, <2>5, <2>6
<1>2. CASE a.dyn
  <2>0. /\ Stripped(DigitsOf(a)) /\ DigitsOf(a).coeff = a.coeff
        /\ DigitsOf(a).n = a.n /\ DigitsOf(a).exp = a.exp
    BY <1>2, DynDigits
  <2>1. PICK c \in Nat \ {0}, n \in Nat \ {0}, i \in Int :
          c = a.coeff /\ n = a.n /\ i = a.exp
    BY <2>0, Amounts DEF Stripped
  <2>2. /\ Weight(n - 1) =< c /\ c < Weight(n)
        /\ e =< Place(i) /\ Place(i) \in Int /\ m = c * Ten(e, Place(i))
    BY <2>0, <2>1, Amounts DEF Stripped
  <2>3. PICK t \in Nat \ {0} : /\ t = DigitAt(c, n - 1) /\ t < RADIX
                               /\ t * Weight(n - 1) =< c /\ c < (t + 1) * Weight(n - 1)
    BY <2>2, TopDigit
  <2>4. PICK l \in Nat : l = Log10[t] /\ Power(10, l) =< t /\ t < Power(10, l + 1)
    BY Log10Facts
  <2>5. l < DEC_DIGITS_PER_DIGIT
    <3>1. PICK r \in Nat : r = DEC_DIGITS_PER_DIGIT /\ RADIX = Power(10, r)
      BY Limits
    <3>2. SUFFICES ASSUME r =< l PROVE FALSE
      BY <3>1
    <3>3. Power(10, r) =< Power(10, l)
      BY <3>2, PowerOrder, 10 \in Nat /\ 10 >= 2
    <3>4. Power(10, r) \in Nat /\ Power(10, l) \in Nat
      BY PowersOf10
    <3>5. QED
      BY <2>3, <2>4, <3>1, <3>3, <3>4
  <2>6. PICK k \in Int : k = i + (n - 1)
    OBVIOUS
  <2>7. /\ Place(k) \in Int /\ Place(i) =< Place(k)
        /\ Weight(n - 1) = Ten(Place(i), Place(k)) /\ Weight(n - 1) \in Nat \ {0}
    <3>1. n - 1 \in Nat /\ i =< k
      BY <2>6
    <3>2. QED
      BY <2>6, <3>1, WeightTen, WeightFacts, PlaceFacts DEF Place
  <2>8. fpdec_magnitude(a) = Place(k) + l
    <3>1. U64_MAGNITUDE(t) = l
      BY <1>2, <2>1, <2>3, <2>4 DEF LogarithmIsExact
    <3>2. fpdec_magnitude(a) = Int32(Place(n + i - 1) + l)
      BY <1>2, <2>1, <2>3, <3>1 DEF fpdec_magnitude, Place
    <3>3. n + i - 1 = k
      BY <2>6
    <3>4. Place(k) + l \in INT32_MIN .. FPDEC_MAX_EXP
      <4>1. PICK b \in Nat : b = ABS(i) + n /\ Place(b) =< FPDEC_MAX_EXP
        <5>1. ABS(i) + n \in Nat
          BY DEF ABS
        <5>2. QED
          BY <1>2, <2>1, <5>1 DEF MagnitudeFits, Place
      <4>2. k + 1 \in Int /\ k + 1 =< b /\ -b =< k /\ -b \in Int
        BY <2>6, <4>1 DEF ABS
      <4>3. Place(k + 1) =< Place(b) /\ Place(-b) =< Place(k) /\ Place(k + 1) = Place(k) + Place(1)
        <5>1. Place(k + 1) = Place(k) + Place(1)
          <6>1. 1 \in Int
            OBVIOUS
          <6>2. QED
            BY <6>1, PlaceFacts, ZenonT(40)
        <5>2. Place(k + 1) =< Place(b)
          <6>1. b \in Int
            OBVIOUS
          <6>2. QED
            BY <4>2, <6>1, PlaceFacts, ZenonT(40)
        <5>3. Place(-b) =< Place(k)
          BY <4>2, PlaceFacts, ZenonT(40)
        <5>4. QED
          BY <5>1, <5>2, <5>3
      <4>4. Place(-b) = -Place(b) /\ Place(b) \in Int
        <5>1. PICK r \in Nat : r = DEC_DIGITS_PER_DIGIT
          BY Room
        <5>2. (-b) * r = -(b * r)
          OBVIOUS
        <5>3. QED
          BY <5>1, <5>2 DEF Place
      <4>5. QED
        BY <2>5, <2>7, <4>1, <4>3, <4>4, Places, Room
    <3>5. Place(k) + l \in Int
      BY <2>7
    <3>6. QED
      BY <3>2, <3>3, <3>4, <3>5, Int32Facts
  <2>9. PICK p \in Int : p = Place(k)
    BY <2>7
  <2>10. Ten(Place(i), p + l) =< c /\ c < Ten(Place(i), p + l + 1)
    <3>1. Ten(p, p + l) =< t /\ t + 1 =< Ten(p, p + l + 1)
      <4>1. Ten(p, p + l) =< t /\ t < Ten(p, p + l + 1)
        BY <2>4, LogBounds
      <4>2. Ten(p, p + l + 1) \in Nat
        <5>1. p + l + 1 \in Int /\ p =< p + l + 1
          OBVIOUS
        <5>2. QED
          BY <5>1, TenType
      <4>3. QED
        BY <4>1, <4>2
    <3>2. PICK w \in Nat \ {0}, u \in Nat \ {0}, v \in Nat \ {0} :
            w = Weight(n - 1) /\ u = Ten(p, p + l) /\ v = Ten(p, p + l + 1)
      <4>1. p + l + 1 \in Int /\ p =< p + l + 1 /\ p + l \in Int /\ p =< p + l
        OBVIOUS
      <4>2. QED
        BY <2>7, <4>1, TenType
    <3>3. u * w =< t * w /\ (t + 1) * w =< v * w
      BY <3>1, <3>2
    <3>4. Ten(Place(i), p + l) = w * u
      <4>1. p + l \in Int /\ p =< p + l /\ Place(i) \in Int /\ Place(i) =< p
        BY <2>2, <2>7, <2>9
      <4>2. Ten(Place(i), p + l) = Ten(Place(i), p) * Ten(p, p + l)
        BY <4>1, TenSteps, ZenonT(40)
      <4>3. QED
        BY <2>7, <2>9, <3>2, <4>2
    <3>5. Ten(Place(i), p + l + 1) = w * v
      <4>1. PICK q \in Int : q = p + l + 1 /\ p =< q
        OBVIOUS
      <4>2. Place(i) \in Int /\ Place(i) =< p
        BY <2>2, <2>7, <2>9
      <4>3. Ten(Place(i), q) = Ten(Place(i), p) * Ten(p, q)
        BY <4>1, <4>2, TenSteps, ZenonT(40)
      <4>4. QED
        BY <2>7, <2>9, <3>2, <4>1, <4>3
    <3>6. u * w = w * u /\ v * w = w * v /\ u * w \in Nat /\ v * w \in Nat /\ t * w \in Nat /\ (t + 1) * w \in Nat
      OBVIOUS
    <3>7. t * w =< c /\ c < (t + 1) * w
      BY <2>3, <3>2
    <3>8. QED
      BY <3>3, <3>4, <3>5, <3>6, <3>7
  <2>11. /\ p + l \in Int /\ p + l + 1 \in Int /\ Place(i) =< p + l /\ Place(i) =< p + l + 1
         /\ e =< p + l
    BY <2>2, <2>7, <2>9
  <2>12. Ten(e, p + l) =< m /\ m < Ten(e, p + l + 1)
    BY <2>2, <2>10, <2>11, BoundsShift
  <2>13. QED
    BY <2>8, <2>9, <2>11, <2>12
<1>3. QED
  BY <1>1, <1>2

(* Comparing the leading part of a number. *)
LEMMA LeadCompared ==
  ASSUME NEW v \in Nat, NEW u \in Nat, NEW w \in Nat \ {0}
  PROVE  /\ v \div w \in Nat
         /\ v \div w < u => v < u * w
         /\ v \div w > u => v > u * w
         /\ v \div w = u => v >= u * w
<1>1. PICK q \in Nat : q = v \div w /\ q * w =< v /\ v < (q + 1) * w
  BY Z3
<1>2. u * w \in Nat /\ q * w \in Nat /\ (q + 1) * w \in Nat
  OBVIOUS
<1>3. q < u => (q + 1) * w =< u * w
  <2>1. SUFFICES ASSUME q + 1 =< u PROVE (q + 1) * w =< u * w
    OBVIOUS
  <2>2. QED
    BY <2>1
<1>4. q > u => u * w < q * w
  <2>1. SUFFICES ASSUME u + 1 =< q PROVE u * w < q * w
    OBVIOUS
  <2>2. (u + 1) * w =< q * w
    BY <2>1
  <2>3. (u + 1) * w = u * w + w
    OBVIOUS
  <2>4. QED
    BY <1>2, <2>2, <2>3
<1>5. QED
  BY <1>1, <1>2, <1>3, <1>4

LEMMA CompareScaled ==
  ASSUME NEW u \in Nat, NEW v \in Nat, NEW t \in Nat \ {0}
  PROVE  CMP(u * t, v * t) = CMP(u, v)
<1>1. u < v => u * t < v * t
  <2>1. SUFFICES ASSUME u + 1 =< v PROVE u * t < v * t
    OBVIOUS
  <2>2. (u + 1) * t =< v * t /\ (u + 1) * t = u * t + t /\ u * t \in Nat /\ v * t \in Nat
    BY <2>1
  <2>3. QED
    BY <2>2
<1>2. v < u => v * t < u * t
  <2>1. SUFFICES ASSUME v + 1 =< u PROVE v * t < u * t
    OBVIOUS
  <2>2. (v + 1) * t =< u * t /\ (v + 1) * t = v * t + t /\ u * t \in Nat /\ v * t \in Nat
    BY <2>1
  <2>3. QED
    BY <2>2
<1>3. u * t \in Nat /\ v * t \in Nat
  OBVIOUS
<1>4. QED
  BY <1>1, <1>2, <1>3 DEF CMP

(***************************************************************************)
(* digits_cmp on digits with their first ones at the same place.           *)
(***************************************************************************)
LEMMA AlignedCompared ==
  ASSUME NEW c, Stripped(c), c.exp \in Int, NEW d, Stripped(d), d.exp \in Int,
         c.exp + c.n = d.exp + d.n, d.n =< c.n, NEW e \in Int, e =< Place(c.exp)
  PROVE  LET u == c.coeff * Ten(e, Place(c.exp))
             v == d.coeff * Ten(e, Place(d.exp))
         IN  /\ CmpAligned(c.coeff, c.n, d.coeff, d.n) = CMP(u, v)
             /\ CmpAligned(d.coeff, d.n, c.coeff, c.n) = CMP(v, u)
<1>1. PICK p \in Nat \ {0}, q \in Nat \ {0}, m \in Nat, n \in Nat, i \in Int, j \in Int :
        /\ p = c.coeff /\ m = c.n /\ i = c.exp
        /\ q = d.coeff /\ n = d.n /\ j = d.exp
        /\ p % RADIX # 0 /\ n =< m /\ i + m = j + n
  BY DEF Stripped
<1>2. PICK k \in Nat : k = m - n /\ j = i + k
  BY <1>1
<1>3. PICK w \in Nat \ {0} : w = Weight(k)
  BY WeightFacts
<1>4. /\ Place(i) \in Int /\ Place(j) \in Int /\ Place(i) =< Place(j)
      /\ w = Ten(Place(i), Place(j)) /\ e =< Place(i)
  <2>1. Weight(k) = Ten(Place(i), Place(i + k)) /\ i =< j
    BY <1>2, WeightTen DEF Place
  <2>2. QED
    BY <1>1, <1>2, <1>3, <2>1, PlaceFacts
<1>5. PICK t \in Nat \ {0} : t = Ten(e, Place(i))
  BY <1>4, TenType
<1>6. Ten(e, Place(j)) = t * w
  BY <1>4, <1>5, TenSteps, ZenonT(40)
<1>7. MIN(m, n) = n /\ MIN(n, m) = n /\ m - n = k /\ n - n = 0
  BY <1>1, <1>2 DEF MIN
<1> DEFINE lead == p \div w
<1>8. lead \in Nat /\ (lead < q => p < q * w) /\ (lead > q => p > q * w) /\ (lead = q => p >= q * w)
  BY LeadCompared
<1>9. q \div Weight(0) = q
  BY WeightZero
<1>10. /\ CmpAligned(p, m, q, n) = IF lead # q THEN CMP(lead, q) ELSE CMP(m, n)
       /\ CmpAligned(q, n, p, m) = IF q # lead THEN CMP(q, lead) ELSE CMP(n, m)
  BY <1>3, <1>7, <1>9 DEF CmpAligned
<1>11. lead = q /\ m = n => p = q * w
  <2>1. SUFFICES ASSUME lead = q, k = 0 PROVE p = q * w
    BY <1>2
  <2>2. w = 1
    BY <1>3, <2>1, WeightZero
  <2>3. QED
    BY <2>1, <2>2
<1>res. m # n => k > 0
  BY <1>1, <1>2
<1>12. m # n => p # q * w
  <2>1. SUFFICES ASSUME m # n, p = q * w PROVE FALSE
    OBVIOUS
  <2>2. k > 0
    BY <1>res, <2>1
  <2>3. PICK r \in Nat \ {0}, o \in Nat : r = RADIX /\ o = Weight(k - 1) /\ w = r * o
    <3>1. k - 1 \in Nat
      BY <2>2
    <3>2. Weight(k - 1) \in Nat /\ Weight(k) = RADIX * Weight(k - 1)
      BY <2>2, <3>1, WeightFacts, Zenon
    <3>3. RADIX \in Nat \ {0}
      BY RadixPositive
    <3>4. QED
      BY <1>3, <3>2, <3>3
  <2>4. q * (r * o) = r * (q * o) /\ q * o \in Nat
    OBVIOUS
  <2>5. ASSUME NEW h \in Nat PROVE (r * h) % r = 0
    <3>1. (r * h) \div r = h
      OBVIOUS
    <3>2. r * h = r * ((r * h) \div r) + ((r * h) % r) /\ (r * h) % r \in Nat
      BY Z3
    <3>3. QED
      BY <3>1, <3>2
  <2>6. p % r = 0
    BY <2>1, <2>3, <2>4, <2>5
  <2>7. QED
    BY <1>1, <2>3, <2>6
<1> HIDE DEF lead
<1>13. CmpAligned(p, m, q, n) = CMP(p, q * w) /\ CmpAligned(q, n, p, m) = CMP(q * w, p)
  <2>1. PICK z0 \in Nat : z0 = q * w
    OBVIOUS
  <2>2. QED
    BY <1>1, <1>8, <1>10, <1>11, <1>12, <2>1 DEF CMP
<1>14. CMP(p * t, (q * w) * t) = CMP(p, q * w) /\ CMP((q * w) * t, p * t) = CMP(q * w, p)
  BY CompareScaled
<1>15. (q * w) * t = q * (t * w)
  OBVIOUS
<1>16. QED
  BY <1>1, <1>5, <1>6, <1>13, <1>14, <1>15

LEMMA TenLess ==
  ASSUME NEW e \in Int, NEW i \in Int, NEW j \in Int, e =< i, e =< j,
         NEW m \in Nat, Ten(e, i) =< m, m < Ten(e, j)
  PROVE  i < j
<1>1. SUFFICES ASSUME j =< i PROVE FALSE
  OBVIOUS
<1>2. Ten(e, j) =< Ten(e, i)
  BY <1>1, TenOrder
<1>3. Ten(e, j) \in Nat /\ Ten(e, i) \in Nat
  BY TenType
<1>4. QED
  BY <1>2, <1>3

(* make_adjusted_shints: a shifted int in a unit of more places. *)
LEMMA AdjustedAmount ==
  ASSUME NEW a, Operand(a), a.sign # 0, ~a.dyn, NEW p \in 0 .. MAX_DEC_PREC_FOR_SHINT, a.dec_prec =< p,
         NEW e \in Int, e =< Unit(a), e =< -p, NEW m, Amount(a, e, m)
  PROVE  AdjustedShint(a, p) \in Nat \ {0} /\ m = AdjustedShint(a, p) * Ten(e, -p)
<1>1. PICK c \in Nat \ {0}, g \in Int : c = a.coeff /\ g = -a.dec_prec /\ e =< g /\ m = c * Ten(e, g)
  BY Amounts
<1>2. PICK f \in Int : f = -p /\ f =< g /\ g - f = p - a.dec_prec
  BY <1>1, Amounts, Room
<1>3. PICK t \in Nat \ {0}, u \in Nat \ {0} : t = Ten(e, f) /\ u = Ten(f, g)
  BY <1>2, TenType
<1>4. Ten(e, g) = t * u
  BY <1>2, <1>3, TenSteps, ZenonT(40)
<1>5. AdjustedShint(a, p) = c * u
  BY <1>1, <1>2, <1>3 DEF AdjustedShint, u64_10_pow_n, Ten
<1>6. c * (t * u) = (c * u) * t /\ c * u \in Nat \ {0}
  OBVIOUS
<1>7. QED
  BY <1>1, <1>2, <1>3, <1>4, <1>5, <1>6

(* The first digit of a number stands where its logarithm says. *)
LEMMA TopPlace ==
  ASSUME NEW d, Stripped(d), d.exp \in Int, NEW e \in Int, e =< Place(d.exp), NEW m \in Nat,
         m = d.coeff * Ten(e, Place(d.exp)),
         NEW l \in Int, e =< l, Ten(e, l) =< m, m < Ten(e, l + 1)
  PROVE  /\ d.exp + d.n \in Int
         /\ Place(d.exp + d.n - 1) =< l /\ l < Place(d.exp + d.n)
         /\ Place(d.exp + d.n - 1) \in Int /\ Place(d.exp + d.n) \in Int
<1>1. PICK i \in Int, j \in Int :
        /\ i = Place(d.exp + d.n - 1) /\ j = Place(d.exp + d.n)
        /\ e =< i /\ j = i + DEC_DIGITS_PER_DIGIT
        /\ Ten(e, i) =< m /\ m < Ten(e, j)
  <2>1. Place(d.exp) \in Int
    BY PlaceFacts
  <2>2. QED
    BY <2>1, DigitBounds
<1>2. e =< j /\ l + 1 \in Int /\ e =< l + 1
  BY <1>1, Room
<1>3. i < l + 1
  BY <1>1, <1>2, TenLess
<1>4. l < j
  BY <1>1, <1>2, TenLess
<1>5. d.exp + d.n \in Int
  BY DEF Stripped
<1>6. QED
  BY <1>1, <1>3, <1>4, <1>5

(* Numbers of the same magnitude are compared by their digits. *)
LEMMA CmpAbsIsExact ==
  ASSUME NEW a, Operand(a), a.sign # 0, NEW b, Operand(b), b.sign # 0,
         NEW e \in Int, e =< Unit(a), e =< Unit(b),
         NEW m, Amount(a, e, m), NEW v, Amount(b, e, v),
         NEW l \in Int, e =< l, Ten(e, l) =< m, m < Ten(e, l + 1), Ten(e, l) =< v, v < Ten(e, l + 1)
  PROVE  cmp_abs(a, b) = CMP(m, v)
<1>1. CASE ~a.dyn /\ ~b.dyn
  <2>1. PICK p \in 0 .. MAX_DEC_PREC_FOR_SHINT :
          /\ p = MAX(a.dec_prec, b.dec_prec) /\ a.dec_prec =< p /\ b.dec_prec =< p
          /\ -p \in Int /\ e =< -p
    <3>1. /\ a.dec_prec \in 0 .. MAX_DEC_PREC_FOR_SHINT /\ e =< -a.dec_prec
          /\ b.dec_prec \in 0 .. MAX_DEC_PREC_FOR_SHINT /\ e =< -b.dec_prec
      BY <1>1, Amounts
    <3>2. QED
      BY <3>1, Room DEF MAX
  <2>2. PICK u \in Nat, w \in Nat, t \in Nat \ {0} :
          /\ u = AdjustedShint(a, p) /\ w = AdjustedShint(b, p) /\ t = Ten(e, -p)
          /\ m = u * t /\ v = w * t
    <3>1. AdjustedShint(a, p) \in Nat \ {0} /\ m = AdjustedShint(a, p) * Ten(e, -p)
      BY <1>1, <2>1, AdjustedAmount, Zenon
    <3>2. AdjustedShint(b, p) \in Nat \ {0} /\ v = AdjustedShint(b, p) * Ten(e, -p)
      BY <1>1, <2>1, AdjustedAmount, Zenon
    <3>3. Ten(e, -p) \in Nat \ {0}
      BY <2>1, TenType, ZenonT(40)
    <3>4. QED
      BY <3>1, <3>2, <3>3, Zenon
  <2>3. cmp_abs(a, b) = CMP(u, w)
    BY <1>1, <2>1, <2>2 DEF cmp_abs, shint_cmp_abs, AdjustedShint
  <2>4. QED
    BY <2>2, <2>3, CompareScaled
<1>2. CASE a.dyn \/ b.dyn
  <2> DEFINE c == DigitsOf(a)
             d == DigitsOf(b)
  <2>1. /\ Stripped(c) /\ c.exp \in Int /\ e =< Place(c.exp) /\ m \in Nat /\ m = c.coeff * Ten(e, Place(c.exp))
        /\ Stripped(d) /\ d.exp \in Int /\ e =< Place(d.exp) /\ v \in Nat /\ v = d.coeff * Ten(e, Place(d.exp))
    BY Amounts
  <2>2. cmp_abs(a, b) = CmpAligned(c.coeff, c.n, d.coeff, d.n)
    BY <1>2 DEF cmp_abs
  <2> HIDE DEF c, d
  <2>x. c.n \in Int /\ c.exp \in Int /\ d.n \in Int /\ d.exp \in Int
    BY <2>1 DEF Stripped
  <2>3a. /\ c.exp + c.n \in Int
         /\ Place(c.exp + c.n - 1) =< l /\ l < Place(c.exp + c.n)
         /\ Place(c.exp + c.n - 1) \in Int /\ Place(c.exp + c.n) \in Int
    BY <2>1, TopPlace, Zenon
  <2>3b. PICK i \in Int : i = c.exp + c.n
    BY <2>3a
  <2>3. Place(i - 1) =< l /\ l < Place(i) /\ Place(i) \in Int /\ Place(i - 1) \in Int
    BY <2>3a, <2>3b, <2>x
  <2>4a. /\ d.exp + d.n \in Int
         /\ Place(d.exp + d.n - 1) =< l /\ l < Place(d.exp + d.n)
         /\ Place(d.exp + d.n - 1) \in Int /\ Place(d.exp + d.n) \in Int
    BY <2>1, TopPlace, Zenon
  <2>4b. PICK j \in Int : j = d.exp + d.n
    BY <2>4a
  <2>4. Place(j - 1) =< l /\ l < Place(j) /\ Place(j) \in Int /\ Place(j - 1) \in Int
    BY <2>4a, <2>4b, <2>x
  <2>5. i = j
    <3>1. ASSUME NEW f \in Int, NEW g \in Int, f < g, l < Place(f), Place(g - 1) =< l,
                 Place(f) \in Int, Place(g - 1) \in Int
          PROVE  FALSE
      <4>1. g - 1 \in Int /\ f =< g - 1
        BY <3>1
      <4>2. Place(f) =< Place(g - 1)
        BY <4>1, PlaceFacts
      <4>3. QED
        BY <3>1, <4>2
    <3>2. ~ (i < j)
      BY <2>3, <2>4, <3>1
    <3>3. ~ (j < i)
      BY <2>3, <2>4, <3>1
    <3>4. QED
      BY <3>2, <3>3
  <2>6. c.n \in Nat /\ d.n \in Nat /\ c.exp + c.n = d.exp + d.n
    BY <2>1, <2>3b, <2>4b, <2>5 DEF Stripped
  <2>7. CASE d.n =< c.n
    BY <2>1, <2>2, <2>6, <2>7, AlignedCompared
  <2>8. CASE c.n =< d.n
    <3>1. d.exp + d.n = c.exp + c.n
      BY <2>6
    <3>2. QED
      BY <2>1, <2>2, <2>8, <3>1, AlignedCompared
  <2>9. QED
    BY <2>6, <2>7, <2>8
<1>3. QED
  BY <1>1, <1>2

(***************************************************************************)
(* fpdec_compare orders operands by their values.                          *)
(***************************************************************************)
Comparable(a, b) ==
  a.sign # 0 /\ b.sign # 0 =>
    /\ LogarithmIsExact(a) /\ LogarithmIsExact(b)
    /\ a.dyn \/ b.dyn => MagnitudeFits(DigitsOf(a)) /\ MagnitudeFits(DigitsOf(b))

(* Operands compare like their amounts, by magnitude or digit by digit. *)
LEMMA AbsCompared ==
  ASSUME NEW a, Operand(a), a.sign # 0, NEW b, Operand(b), b.sign # 0, Comparable(a, b),
         NEW e \in Int, e =< Unit(a), e =< Unit(b),
         NEW m, Amount(a, e, m), NEW v, Amount(b, e, v)
  PROVE  (IF fpdec_magnitude(a) # fpdec_magnitude(b)
          THEN CMP(fpdec_magnitude(a), fpdec_magnitude(b)) ELSE cmp_abs(a, b)) = CMP(m, v)
<1>1. m \in Nat /\ v \in Nat
  BY DEF Amount
<1>2. LogarithmIsExact(a) /\ LogarithmIsExact(b)
  BY DEF Comparable
<1>3. (a.dyn => MagnitudeFits(a)) /\ (b.dyn => MagnitudeFits(b))
  <2>1. ASSUME a.dyn PROVE MagnitudeFits(a)
    BY <2>1, DynDigits DEF Comparable, MagnitudeFits
  <2>2. ASSUME b.dyn PROVE MagnitudeFits(b)
    BY <2>2, DynDigits DEF Comparable, MagnitudeFits
  <2>3. QED
    BY <2>1, <2>2
<1>4. PICK k \in Int : k = fpdec_magnitude(a) /\ e =< k /\ Ten(e, k) =< m /\ m < Ten(e, k + 1)
  BY <1>2, <1>3, MagnitudeBounds
<1>5. PICK l \in Int : l = fpdec_magnitude(b) /\ e =< l /\ Ten(e, l) =< v /\ v < Ten(e, l + 1)
  BY <1>2, <1>3, MagnitudeBounds
<1>6. ASSUME NEW i \in Int, NEW j \in Int, e =< i, i < j, NEW g \in Nat, NEW h \in Nat,
             g < Ten(e, i + 1), Ten(e, j) =< h
      PROVE  g < h
  <2>1. i + 1 \in Int /\ e =< i + 1 /\ i + 1 =< j /\ e =< j
    BY <1>6
  <2>2. Ten(e, i + 1) =< Ten(e, j) /\ Ten(e, i + 1) \in Nat /\ Ten(e, j) \in Nat
    BY <2>1, TenOrder, TenType
  <2>3. QED
    BY <1>6, <2>2
<1>7. CASE k < l
  <2>1. m < v
    BY <1>1, <1>4, <1>5, <1>6, <1>7
  <2>2. QED
    BY <1>1, <1>4, <1>5, <1>7, <2>1 DEF CMP
<1>8. CASE l < k
  <2>1. v < m
    BY <1>1, <1>4, <1>5, <1>6, <1>8
  <2>2. QED
    BY <1>1, <1>4, <1>5, <1>8, <2>1 DEF CMP
<1>9. CASE k = l
  <2>1. cmp_abs(a, b) = CMP(m, v)
    BY <1>4, <1>5, <1>9, CmpAbsIsExact
  <2>2. QED
    BY <1>4, <1>5, <1>9, <2>1
<1>10. QED
  BY <1>7, <1>8, <1>9

LEMMA ZeroNumber ==
  ASSUME NEW a, Operand(a), a.sign = 0
  PROVE  a.coeff = 0 /\ ~a.dyn /\ Number(a) = << 0, 0 >>
<1>1. a.coeff = 0
  BY DEF Operand, WellFormed
<1>2. ~a.dyn
  <2>1. 0 % RADIX = 0
    BY RadixPositive
  <2>2. QED
    BY <1>1, <2>1 DEF Operand, WellFormed
<1>3. a.sign * a.coeff = 0
  BY <1>1
<1>4. QED
  BY <1>1, <1>2, <1>3, CanonicalZero DEF Number

LEMMA AmountBelow ==
  ASSUME NEW a, Operand(a)
  PROVE  \E f \in Int : \A e \in Int : e =< f =>
           \E m \in Nat : /\ Amount(a, e, m)
                          /\ a.sign = 0 => m = 0
                          /\ a.sign # 0 => m # 0 /\ e =< Unit(a)
<1>1. CASE a.sign = 0
  <2>1. ASSUME NEW e \in Int PROVE Amount(a, e, 0)
    BY <1>1, ZeroNumber, CanonicalZero DEF Amount
  <2>2. QED
    BY <1>1, <2>1
<1>2. CASE a.sign # 0
  <2>1. Unit(a) \in Int
    <3>1. DigitsOf(a).exp \in Int /\ a.dec_prec \in Int
      BY <1>2, OperandDigits, Room DEF Operand, Decimals
    <3>2. Place(DigitsOf(a).exp) \in Int /\ -a.dec_prec \in Int
      <4>1. PICK i \in Int, p \in Int : i = DigitsOf(a).exp /\ p = a.dec_prec
        BY <3>1
      <4>2. Place(i) \in Int
        BY PlaceFacts, ZenonT(40)
      <4>3. -p \in Int
        OBVIOUS
      <4>4. QED
        BY <4>1, <4>2, <4>3
    <3>3. QED
      BY <3>2 DEF Unit, MIN
  <2>2. ASSUME NEW e \in Int, e =< Unit(a)
        PROVE  \E m \in Nat : Amount(a, e, m) /\ m # 0
    BY <1>2, <2>2, Amounts
  <2>3. QED
    BY <1>2, <2>1, <2>2
<1>3. QED
  BY <1>1, <1>2

(* A unit two operands are both amounts of. *)
LEMMA CommonUnit ==
  ASSUME NEW a, Operand(a), NEW b, Operand(b)
  PROVE  \E e \in Int, m \in Nat, v \in Nat :
           /\ Amount(a, e, m) /\ (a.sign = 0 => m = 0) /\ (a.sign # 0 => m # 0 /\ e =< Unit(a))
           /\ Amount(b, e, v) /\ (b.sign = 0 => v = 0) /\ (b.sign # 0 => v # 0 /\ e =< Unit(b))
<1>1. PICK f \in Int : \A e \in Int : e =< f =>
        \E m \in Nat : /\ Amount(a, e, m)
                       /\ a.sign = 0 => m = 0
                       /\ a.sign # 0 => m # 0 /\ e =< Unit(a)
  BY AmountBelow
<1>2. PICK g \in Int : \A e \in Int : e =< g =>
        \E v \in Nat : /\ Amount(b, e, v)
                       /\ b.sign = 0 => v = 0
                       /\ b.sign # 0 => v # 0 /\ e =< Unit(b)
  BY AmountBelow
<1>3. PICK e \in Int : e =< f /\ e =< g
  <2>1. f =< g \/ g =< f
    OBVIOUS
  <2>2. QED
    BY <2>1
<1>4. PICK m \in Nat : /\ Amount(a, e, m)
                       /\ a.sign = 0 => m = 0
                       /\ a.sign # 0 => m # 0 /\ e =< Unit(a)
  BY <1>1, <1>3
<1>5. PICK v \in Nat : /\ Amount(b, e, v)
                       /\ b.sign = 0 => v = 0
                       /\ b.sign # 0 => v # 0 /\ e =< Unit(b)
  BY <1>2, <1>3
<1>6. QED
  BY <1>4, <1>5

(* Sums and differences in a common unit. *)
AddUp(a, b, e, m, v) ==
  /\ Plus(Number(a), Number(b)) = Canonical(a.sign * m + b.sign * v, e)
  /\ Plus(Number(a), Minus(Number(b))) = Canonical(a.sign * m - b.sign * v, e)

(* Sums and differences of numbers are those of their amounts. *)
LEMMA AmountsAdd ==
  ASSUME NEW a, a.sign \in Int, NEW b, b.sign \in Int, NEW e \in Int,
         NEW m, Amount(a, e, m), NEW v, Amount(b, e, v)
  PROVE  AddUp(a, b, e, m, v)
<1>1. /\ m \in Nat /\ v \in Nat
      /\ Number(a) = Canonical(a.sign * m, e) /\ Number(b) = Canonical(b.sign * v, e)
  BY DEF Amount
<1>2. PICK i \in Int, j \in Int, k \in Int : i = a.sign * m /\ j = b.sign * v /\ k = -j
  BY <1>1
<1>3. Minus(Canonical(j, e)) = Canonical(k, e)
  BY <1>2, CanonicalMinus
<1>4. Plus(Canonical(i, e), Canonical(j, e)) = Canonical(i + j, e)
  BY CanonicalPlus
<1>5. Plus(Canonical(i, e), Canonical(k, e)) = Canonical(i + k, e)
  BY CanonicalPlus
<1>6. i + k = i - j
  BY <1>2
<1>7. QED
  BY <1>1, <1>2, <1>3, <1>4, <1>5, <1>6 DEF AddUp

(* fpdec_compare gives the order of the numbers. *)
LEMMA CompareIsExact ==
  ASSUME NEW a, Operand(a), NEW b, Operand(b), Comparable(a, b)
  PROVE  fpdec_compare(a, b, FALSE) = CMP(Plus(Number(a), Minus(Number(b)))[1], 0)
<1>1. a.sign \in -1 .. 1 /\ b.sign \in -1 .. 1
  BY DEF Operand, Decimals
<1>2. PICK e \in Int, m \in Nat, v \in Nat :
        /\ Amount(a, e, m) /\ (a.sign = 0 => m = 0) /\ (a.sign # 0 => m # 0 /\ e =< Unit(a))
        /\ Amount(b, e, v) /\ (b.sign = 0 => v = 0) /\ (b.sign # 0 => v # 0 /\ e =< Unit(b))
  BY CommonUnit
<1>3. a.sign * m - b.sign * v \in Int
  BY <1>1
<1>4. CMP(Plus(Number(a), Minus(Number(b)))[1], 0) = CMP(a.sign * m - b.sign * v, 0)
  <2>1. Plus(Number(a), Minus(Number(b))) = Canonical(a.sign * m - b.sign * v, e)
    <3>1. a.sign \in Int /\ b.sign \in Int
      BY <1>1
    <3>2. e \in Int /\ Amount(a, e, m) /\ Amount(b, e, v)
      BY <1>2
    <3>3. AddUp(a, b, e, m, v)
      BY <3>1, <3>2, AmountsAdd
    <3>4. QED
      BY <3>3 DEF AddUp
  <2>2. PICK i \in Int : i = a.sign * m - b.sign * v
    BY <1>3
  <2>3. CMP(Canonical(i, e)[1], 0) = CMP(i, 0)
    BY CanonicalSign
  <2>4. QED
    BY <2>1, <2>2, <2>3
<1>5. CASE a.sign # b.sign \/ a.sign = 0
  <2>1. fpdec_compare(a, b, FALSE) = CMP(a.sign, b.sign)
    BY <1>5 DEF fpdec_compare
  <2>2. CMP(a.sign * m - b.sign * v, 0) = CMP(a.sign, b.sign)
    <3>1. ASSUME NEW s \in -1 .. 1, NEW t \in -1 .. 1, s # t \/ s = 0, s = 0 => m = 0, s # 0 => m # 0,
                 t = 0 => v = 0, t # 0 => v # 0
          PROVE  CMP(s * m - t * v, 0) = CMP(s, t)
      <4>1. s \in {-1, 0, 1} /\ t \in {-1, 0, 1}
        OBVIOUS
      <4>2. CASE s = 0
        <5>1. s * m = 0
          BY <4>2
        <5>2. t * v = t \/ (t = 1 /\ t * v = v /\ v > 0) \/ (t = -1 /\ t * v = -v /\ v > 0)
          BY <3>1, <4>1
        <5>3. QED
          BY <4>1, <4>2, <5>1, <5>2 DEF CMP
      <4>3. CASE s = 1
        <5>1. s * m = m /\ m > 0
          BY <3>1, <4>3
        <5>2. t * v = 0 \/ (t = -1 /\ t * v = -v /\ v > 0)
          BY <3>1, <4>1, <4>3
        <5>3. QED
          BY <3>1, <4>1, <4>3, <5>1, <5>2 DEF CMP
      <4>4. CASE s = -1
        <5>1. s * m = -m /\ m > 0
          BY <3>1, <4>4
        <5>2. t * v = 0 \/ (t = 1 /\ t * v = v /\ v > 0)
          BY <3>1, <4>1, <4>4
        <5>3. QED
          BY <3>1, <4>1, <4>4, <5>1, <5>2 DEF CMP
      <4>5. QED
        BY <4>1, <4>2, <4>3, <4>4
    <3>2. QED
      BY <1>1, <1>2, <1>5, <3>1
  <2>3. QED
    BY <1>4, <2>1, <2>2
<1>6. CASE a.sign = b.sign /\ a.sign # 0
  <2>1. fpdec_compare(a, b, FALSE)
          = a.sign * (IF fpdec_magnitude(a) # fpdec_magnitude(b)
                      THEN CMP(fpdec_magnitude(a), fpdec_magnitude(b)) ELSE cmp_abs(a, b))
    BY <1>6 DEF fpdec_compare
  <2>2. (IF fpdec_magnitude(a) # fpdec_magnitude(b)
         THEN CMP(fpdec_magnitude(a), fpdec_magnitude(b)) ELSE cmp_abs(a, b)) = CMP(m, v)
    BY <1>2, <1>6, AbsCompared
  <2>3. a.sign * CMP(m, v) = CMP(a.sign * m - b.sign * v, 0)
    <3>1. CASE a.sign = 1
      BY <1>6, <3>1 DEF CMP
    <3>2. CASE a.sign = -1
      <4>1. a.sign * m = -m /\ b.sign * v = -v
        BY <1>6, <3>2
      <4>2. QED
        BY <3>2, <4>1 DEF CMP
    <3>3. QED
      BY <1>1, <1>6, <3>1, <3>2
  <2>4. QED
    BY <1>4, <2>1, <2>2, <2>3
<1>7. QED
  BY <1>5, <1>6

(* fpdec_compare of absolute values. *)
ComparesAs(a, b, m, v) == fpdec_compare(a, b, TRUE) = CMP(m, v)

(* So it does for their absolute values. *)
LEMMA CompareAbs ==
  ASSUME NEW a, Operand(a), a.sign # 0, NEW b, Operand(b), b.sign # 0, Comparable(a, b),
         NEW e \in Int, e =< Unit(a), e =< Unit(b),
         NEW m, Amount(a, e, m), NEW v, Amount(b, e, v)
  PROVE  ComparesAs(a, b, m, v)
<1>1. ABS(a.sign) = 1 /\ ABS(b.sign) = 1
  <2>1. a.sign \in {-1, 1} /\ b.sign \in {-1, 1}
    BY DEF Operand, Decimals
  <2>2. QED
    BY <2>1 DEF ABS
<1>2. PICK r : r = IF fpdec_magnitude(a) # fpdec_magnitude(b)
                   THEN CMP(fpdec_magnitude(a), fpdec_magnitude(b)) ELSE cmp_abs(a, b)
  OBVIOUS
<1>3. r = CMP(m, v)
  <2>1. (IF fpdec_magnitude(a) # fpdec_magnitude(b)
         THEN CMP(fpdec_magnitude(a), fpdec_magnitude(b)) ELSE cmp_abs(a, b)) = CMP(m, v)
    BY AbsCompared
  <2>2. QED
    BY <1>2, <2>1
<1>4. fpdec_compare(a, b, TRUE) = 1 * r
  BY <1>1, <1>2 DEF fpdec_compare
<1>5. PICK k \in Int : k = CMP(m, v)
  BY DEF CMP
<1>6. 1 * k = k
  OBVIOUS
<1>7. QED
  BY <1>3, <1>4, <1>5, <1>6 DEF ComparesAs

-----------------------------------------------------------------------------
(***************************************************************************)
(* Results. Any that the client may keep is fit for the next call; a good  *)
(* one has the value m * 10^e.                                             *)
(***************************************************************************)
Safe(o) ==
  /\ o.v \in Decimals /\ PrecCoversDigits(o.v) /\ o.rc \in {"OK", "EXP_LIMIT_EXCEEDED",
                                         "PREC_LIMIT_EXCEEDED", "ABORT"}
  /\ o.rc = "OK" /\ Usable(o.v) => Operand(o.v)

Good(o, m, e) == o.rc = "OK" /\ Operand(o.v) /\ Number(o.v) = Canonical(m, e)

LEMMA GoodIsSafe ==
  ASSUME NEW o, NEW m, NEW e, Good(o, m, e)
  PROVE  Safe(o)
BY DEF Good, Safe, Operand

(* A failed assertion. *)
LEMMA FailedIsSafe == Safe(AssertionFails)
<1>1. 0 \in 0 .. FPDEC_MAX_DEC_PREC
  BY Room
<1>2. Operand(FPDEC_ZERO)
  BY <1>1, ZeroOperand DEF FPDEC_ZERO, ResetToZero
<1>3. QED
  BY <1>2 DEF Safe, Operand, AssertionFails, Returns

(* A signed number in a smaller unit. *)
ShiftsTo(s, k, e, j) == Canonical(s * (k * Ten(e, j)), e) = Canonical(s * k, j)

LEMMA SignedShift ==
  ASSUME NEW s \in {-1, 1}, NEW k \in Nat, NEW e \in Int, NEW j \in Int, e =< j
  PROVE  ShiftsTo(s, k, e, j)
<1>1. PICK t \in Nat : t = Ten(e, j)
  BY TenType
<1>2. s * k \in Int /\ k * t \in Nat
  OBVIOUS
<1>3. s * (k * t) = (s * k) * t
  <2>1. CASE s = 1
    BY <2>1
  <2>2. CASE s = -1
    BY <2>2
  <2>3. QED
    BY <2>1, <2>2
<1>4. Canonical((s * k) * Ten(e, j), e) = Canonical(s * k, j)
  BY <1>2, CanonicalShift, ZenonT(40)
<1>5. QED
  BY <1>1, <1>2, <1>3, <1>4 DEF ShiftsTo

(* A precision that covers two numbers covers their sum. *)
LEMMA CoveredSum ==
  ASSUME NEW m \in Int, NEW n \in Int, NEW e \in Int, NEW f \in Int, f =< 0,
         Canonical(m, e)[2] >= f, Canonical(n, e)[2] >= f
  PROVE  Canonical(m + n, e)[2] >= f /\ Canonical(m - n, e)[2] >= f
<1>1. CASE f =< e
  <2>1. m + n \in Int /\ m - n \in Int
    OBVIOUS
  <2>2. QED
    BY <1>1, <2>1, CanonicalCovered
<1>2. CASE e =< f
  <2>1. PICK w \in Int : m = w * Ten(e, f)
    BY <1>2, CoveredMultiple
  <2>2. PICK u \in Int : n = u * Ten(e, f)
    BY <1>2, CoveredMultiple
  <2>3. PICK t \in Nat : t = Ten(e, f)
    BY <1>2, TenType
  <2>4. m + n = (w + u) * t /\ m - n = (w - u) * t
    BY <2>1, <2>2, <2>3
  <2>5. PICK i \in Int, j \in Int : i = w + u /\ j = w - u
    OBVIOUS
  <2>6. Canonical(i * Ten(e, f), e) = Canonical(i, f)
    BY <1>2, CanonicalShift, ZenonT(40)
  <2>0. Canonical(j * Ten(e, f), e) = Canonical(j, f)
    BY <1>2, CanonicalShift, ZenonT(40)
  <2>7. f =< f
    OBVIOUS
  <2>8. Canonical(i, f)[2] >= f /\ Canonical(j, f)[2] >= f
    BY <2>7, CanonicalCovered
  <2>9. QED
    BY <2>3, <2>4, <2>5, <2>6, <2>0, <2>8
<1>3. QED
  BY <1>1, <1>2

(* digits_copy with a shift. *)
LEMMA ShiftedDigitsFacts ==
  ASSUME NEW d, Stripped(d), d.exp \in Int, NEW e \in Int, e =< d.exp, NEW s \in {-1, 1}
  PROVE  LET a == ShiftedTo(d, e)
         IN  /\ a.coeff \in Nat \ {0} /\ a.n \in Nat \ {0}
             /\ Weight(a.n - 1) =< a.coeff /\ a.coeff < Weight(a.n)
             /\ a.n = d.n + (d.exp - e) /\ a.exp = e
             /\ Canonical(s * a.coeff, Place(e)) = Canonical(s * d.coeff, Place(d.exp))
<1> DEFINE a == ShiftedTo(d, e)
<1>1. PICK k \in Nat : k = d.exp - e
  OBVIOUS
<1>2. PICK c \in Nat \ {0}, n \in Nat \ {0} :
        c = d.coeff /\ n = d.n /\ Weight(n - 1) =< c /\ c < Weight(n)
  BY DEF Stripped
<1>3. a.coeff = c * Weight(k) /\ a.n = n + k /\ a.exp = e
  BY <1>1, <1>2 DEF ShiftedTo
<1> HIDE DEF a
<1>4. PICK w \in Nat \ {0}, u \in Nat \ {0}, v \in Nat \ {0} :
        /\ w = Weight(k) /\ u = Weight(n) /\ v = Weight(n - 1)
        /\ Weight(n + k) = w * u /\ Weight((n + k) - 1) = w * v
  <2>1. k =< n + k /\ k =< (n + k) - 1 /\ (n + k) - k = n /\ ((n + k) - 1) - k = n - 1
        /\ n + k \in Nat /\ (n + k) - 1 \in Nat /\ n - 1 \in Nat
    OBVIOUS
  <2>2. Weight(n + k) = Weight(k) * Weight((n + k) - k)
    BY <2>1, WeightSplit
  <2>3. Weight((n + k) - 1) = Weight(k) * Weight(((n + k) - 1) - k)
    BY <2>1, WeightSplit
  <2>4. Weight(k) \in Nat \ {0} /\ Weight(n) \in Nat \ {0} /\ Weight(n - 1) \in Nat \ {0}
    BY <2>1, WeightFacts
  <2>5. QED
    BY <2>1, <2>2, <2>3, <2>4
<1>5. c * w \in Nat \ {0} /\ w * v =< c * w /\ c * w < w * u
  <2>1. c * w = w * c /\ w * c \in Nat \ {0}
    OBVIOUS
  <2>2. w * v =< w * c
    BY <1>2, <1>4
  <2>3. c < u
    BY <1>2, <1>4
  <2>4. w * c < w * u
    BY <2>3
  <2>5. QED
    BY <2>1, <2>2, <2>4
<1>6. Canonical(s * (c * w), Place(e)) = Canonical(s * c, Place(d.exp))
  <2>1. PICK i \in Int : i = s * c
    OBVIOUS
  <2>2. s * (c * w) = i * w
    <3>1. CASE s = 1
      BY <2>1, <3>1
    <3>2. CASE s = -1
      BY <2>1, <3>2
    <3>3. QED
      BY <3>1, <3>2
  <2>3. Canonical(i * Weight(k), e * DEC_DIGITS_PER_DIGIT) = Canonical(i, (e + k) * DEC_DIGITS_PER_DIGIT)
    BY DigitShift, ZenonT(40)
  <2>4. e + k = d.exp
    BY <1>1
  <2>5. QED
    BY <1>4, <2>1, <2>2, <2>3, <2>4 DEF Place
<1>7. QED
  BY <1>1, <1>2, <1>3, <1>4, <1>5, <1>6 DEF a

(* Two shifted ints brought to the same precision. *)
LEMMA AdjustedShints ==
  ASSUME NEW a, Operand(a), a.sign # 0, ~a.dyn, NEW b, Operand(b), b.sign # 0, ~b.dyn,
         NEW e \in Int, e =< Unit(a), e =< Unit(b),
         NEW m, Amount(a, e, m), NEW v, Amount(b, e, v)
  PROVE  \E p \in 0 .. MAX_DEC_PREC_FOR_SHINT, i \in Nat \ {0}, j \in Nat \ {0}, t \in Nat \ {0},
            f \in Int :
           /\ p = MAX(a.dec_prec, b.dec_prec) /\ p = MAX(b.dec_prec, a.dec_prec)
           /\ i = AdjustedShint(a, p) /\ j = AdjustedShint(b, p)
           /\ f = -p /\ e =< f /\ t = Ten(e, f) /\ m = i * t /\ v = j * t
<1>1. /\ a.dec_prec \in 0 .. MAX_DEC_PREC_FOR_SHINT /\ e =< -a.dec_prec
      /\ b.dec_prec \in 0 .. MAX_DEC_PREC_FOR_SHINT /\ e =< -b.dec_prec
  BY Amounts
<1>2. PICK p \in 0 .. MAX_DEC_PREC_FOR_SHINT :
        /\ p = MAX(a.dec_prec, b.dec_prec) /\ p = MAX(b.dec_prec, a.dec_prec)
        /\ a.dec_prec =< p /\ b.dec_prec =< p /\ e =< -p /\ -p \in Int
  BY <1>1, Room DEF MAX
<1>3. AdjustedShint(a, p) \in Nat \ {0} /\ m = AdjustedShint(a, p) * Ten(e, -p)
  BY <1>2, AdjustedAmount
<1>4. AdjustedShint(b, p) \in Nat \ {0} /\ v = AdjustedShint(b, p) * Ten(e, -p)
  BY <1>2, AdjustedAmount
<1>5. PICK f \in Int : f = -p /\ e =< f
  BY <1>2
<1>6. Ten(e, f) \in Nat \ {0}
  BY <1>5, TenType
<1>7. QED
  BY <1>2, <1>3, <1>4, <1>5, <1>6

(* A shifted int stored in 96 bits, of a value that may not fit them. *)
LEMMA StoredShint ==
  ASSUME NEW s \in {-1, 1}, NEW p \in 0 .. MAX_DEC_PREC_FOR_SHINT, NEW k \in Nat
  PROVE  LET res == Shint(s, p, k % SHINT_LIMIT)
         IN  /\ Safe(Ok(res)) /\ Safe(shint_to_dyn(res))
             /\ k # 0 /\ k < SHINT_LIMIT => k % SHINT_LIMIT = k /\ Good(Ok(res), s * k, -p)
<1>1. PICK l \in Nat \ {0} : l = SHINT_LIMIT
  BY Limits
<1>2. PICK c \in Nat : c = k % l /\ c < l
  BY Z3
<1> DEFINE res == Shint(s, p, c)
<1>3. /\ res.dyn = FALSE /\ res.normalized = FALSE /\ res.sign = s /\ res.dec_prec = p
      /\ res.coeff = c /\ res.n = 0 /\ res.exp = 0
  BY DEF Shint
<1>4. res \in Decimals
  <2>1. p \in 0 .. FPDEC_MAX_DEC_PREC /\ 0 \in INT32_MIN .. FPDEC_MAX_EXP /\ s \in -1 .. 1
    BY Room
  <2>2. QED
    BY <2>1 DEF Shint, Decimals
<1>5. CASE c = 0
  <2>1. Number(res) = << 0, 0 >>
    <3>1. s * c = 0
      BY <1>5
    <3>2. QED
      BY <1>3, <3>1, CanonicalZero DEF Number
  <2>2. PrecCoversDigits(res)
    BY <1>3, <2>1 DEF PrecCoversDigits
  <2>3. ~Usable(res)
    BY <1>3, <1>5 DEF Usable
  <2>4. Safe(Ok(res))
    BY <1>4, <2>2, <2>3 DEF Safe, Ok, Returns
  <2>5. shint_to_dyn(res) = AssertionFails
    BY <1>3, <1>5 DEF shint_to_dyn, Convertible, Asserting
  <2>6. k < l => k = 0
    BY <1>2, <1>5
  <2>7. QED
    BY <1>1, <1>2, <2>4, <2>5, <2>6, FailedIsSafe
<1>6. CASE c # 0
  <2>1. Operand(res) /\ Number(res) = Canonical(s * c, -p)
    BY <1>1, <1>2, <1>6, ShintOperand
  <2>2. Good(Ok(res), s * c, -p)
    BY <2>1 DEF Good, Ok, Returns
  <2>3. Safe(shint_to_dyn(res))
    <3>1. LET d == DigitsOf(res)
          IN  /\ Stripped(d) /\ d.exp \in INT32_MIN .. FPDEC_MAX_EXP
              /\ Number(res) = Canonical(res.sign * d.coeff, d.exp * DEC_DIGITS_PER_DIGIT)
      BY <1>3, <2>1, OperandDigits
    <3>2. PICK d : d = DigitsOf(res)
      OBVIOUS
    <3>3. /\ Stripped(d) /\ d.exp \in INT32_MIN .. FPDEC_MAX_EXP
          /\ Number(res) = Canonical(s * d.coeff, Place(d.exp))
      BY <1>3, <3>1, <3>2 DEF Place
    <3>4. Canonical(s * d.coeff, Place(d.exp))[2] >= -p
      BY <1>3, <2>1, <3>3 DEF Operand, PrecCoversDigits
    <3>5. Operand(Dyn(s, p, d.coeff, d.n, d.exp))
      <4>1. p \in 0 .. FPDEC_MAX_DEC_PREC
        BY Room
      <4>2. QED
        BY <3>3, <3>4, <4>1, DynOperand
    <3>6. shint_to_dyn(res) = Ok(Dyn(s, p, d.coeff, d.n, d.exp))
      BY <1>3, <1>6, <3>2 DEF shint_to_dyn, Convertible, Asserting, AsDyn
    <3>7. QED
      BY <3>5, <3>6 DEF Safe, Operand, Ok, Returns
  <2>4. k < l => k = c
    BY <1>2
  <2>5. QED
    BY <1>1, <1>2, <2>2, <2>3, <2>4, GoodIsSafe
<1>7. QED
  BY <1>5, <1>6

(***************************************************************************)
(* The sum of two shifted ints is exact if it fits 96 bits.                *)
(***************************************************************************)
LEMMA AddShints ==
  ASSUME NEW a, Operand(a), a.sign # 0, ~a.dyn, NEW b, Operand(b), b.sign # 0, ~b.dyn,
         NEW e \in Int, e =< Unit(a), e =< Unit(b),
         NEW m, Amount(a, e, m), NEW v, Amount(b, e, v), NEW s \in {-1, 1}
  PROVE  LET o == add_abs_shint_to_shint(s, a, b)
             p == MAX(a.dec_prec, b.dec_prec)
         IN  /\ Safe(o)
             /\ ~(AdjustedShint(a, p) + AdjustedShint(b, p) >= SHINT_LIMIT) => Good(o, s * (m + v), e)
<1>1. PICK p \in 0 .. MAX_DEC_PREC_FOR_SHINT, i \in Nat \ {0}, j \in Nat \ {0}, t \in Nat \ {0},
           f \in Int :
        /\ p = MAX(a.dec_prec, b.dec_prec)
        /\ i = AdjustedShint(a, p) /\ j = AdjustedShint(b, p)
        /\ f = -p /\ e =< f /\ t = Ten(e, f) /\ m = i * t /\ v = j * t
  BY AdjustedShints
<1>2. PICK k \in Nat : k = i + j /\ k # 0
  OBVIOUS
<1>3. add_abs_shint_to_shint(s, a, b) =
        IF k < SHINT_LIMIT THEN Ok(Shint(s, p, k % SHINT_LIMIT))
        ELSE shint_to_dyn(Shint(s, p, k % SHINT_LIMIT))
  BY <1>1, <1>2 DEF add_abs_shint_to_shint
<1>4. /\ Safe(Ok(Shint(s, p, k % SHINT_LIMIT))) /\ Safe(shint_to_dyn(Shint(s, p, k % SHINT_LIMIT)))
      /\ k < SHINT_LIMIT => Good(Ok(Shint(s, p, k % SHINT_LIMIT)), s * k, f)
  BY <1>1, <1>2, StoredShint
<1>5. Canonical(s * (m + v), e) = Canonical(s * k, f)
  <2>1. m + v = k * t
    BY <1>1, <1>2
  <2>2. Canonical(s * (k * Ten(e, f)), e) = Canonical(s * k, f)
    <3>1. ShiftsTo(s, k, e, f)
      BY <1>1, SignedShift
    <3>2. QED
      BY <3>1 DEF ShiftsTo
  <2>3. QED
    BY <1>1, <2>1, <2>2
<1>6. k < SHINT_LIMIT \/ k >= SHINT_LIMIT
  BY Limits
<1>7. QED
  BY <1>1, <1>2, <1>3, <1>4, <1>5, <1>6 DEF Good

(* The difference of two shifted ints, the greater one first. *)
LEMMA SubShints ==
  ASSUME NEW a, Operand(a), a.sign # 0, ~a.dyn, NEW b, Operand(b), b.sign # 0, ~b.dyn,
         NEW e \in Int, e =< Unit(a), e =< Unit(b),
         NEW m, Amount(a, e, m), NEW v, Amount(b, e, v), NEW s \in {-1, 1}, v < m
  PROVE  LET o == sub_abs_shint_from_shint(s, a, b)
             p == MAX(a.dec_prec, b.dec_prec)
         IN  /\ Safe(o)
             /\ ~(AdjustedShint(a, p) - AdjustedShint(b, p) >= SHINT_LIMIT) => Good(o, s * (m - v), e)
             /\ AdjustedShint(a, p) - AdjustedShint(b, p) \in Nat
             /\ AdjustedShint(a, p) \in Nat /\ AdjustedShint(b, p) \in Nat
<1>1. PICK p \in 0 .. MAX_DEC_PREC_FOR_SHINT, i \in Nat \ {0}, j \in Nat \ {0}, t \in Nat \ {0},
           f \in Int :
        /\ p = MAX(a.dec_prec, b.dec_prec)
        /\ i = AdjustedShint(a, p) /\ j = AdjustedShint(b, p)
        /\ f = -p /\ e =< f /\ t = Ten(e, f) /\ m = i * t /\ v = j * t
  BY AdjustedShints
<1>2. PICK k \in Nat : k = i - j /\ k # 0
  <2>1. j < i
    <3>1. i =< j => i * t =< j * t
      OBVIOUS
    <3>2. i * t \in Nat /\ j * t \in Nat
      OBVIOUS
    <3>3. QED
      BY <1>1, <3>1, <3>2
  <2>2. QED
    BY <2>1
<1>3. sub_abs_shint_from_shint(s, a, b) = Ok(Shint(s, p, k % SHINT_LIMIT))
  BY <1>1, <1>2 DEF sub_abs_shint_from_shint
<1>4. /\ Safe(Ok(Shint(s, p, k % SHINT_LIMIT)))
      /\ k < SHINT_LIMIT => Good(Ok(Shint(s, p, k % SHINT_LIMIT)), s * k, f)
  BY <1>1, <1>2, StoredShint
<1>5. Canonical(s * (m - v), e) = Canonical(s * k, f)
  <2>1. m - v = k * t
    <3>1. (i - j) * t = i * t - j * t
      OBVIOUS
    <3>2. QED
      BY <1>1, <1>2, <3>1
  <2>2. Canonical(s * (k * Ten(e, f)), e) = Canonical(s * k, f)
    <3>1. ShiftsTo(s, k, e, f)
      BY <1>1, SignedShift
    <3>2. QED
      BY <3>1 DEF ShiftsTo
  <2>3. QED
    BY <1>1, <2>1, <2>2
<1>6. k < SHINT_LIMIT \/ k >= SHINT_LIMIT
  BY Limits
<1>7. QED
  BY <1>1, <1>2, <1>3, <1>4, <1>5, <1>6 DEF Good

(***************************************************************************)
(* Digits added: the count is that of the sum, unless a carry out of the   *)
(* longer second operand meets a digit 0 at the count of the first.        *)
(***************************************************************************)
SumOrRest(v, k, w, l) ==
  LET sum == Sum(v, k, w, l)
      n == SumCount(v, k, w, l)
  IN  /\ sum \in Nat /\ n \in Nat \ {0} /\ sum < Weight(n) /\ n =< MAX(k, l) + 1
      /\ \/ sum = v + w /\ Weight(n - 1) =< sum
         \/ k < l /\ v + w >= Weight(l) /\ n = l /\ sum = v + w - Weight(l)

(* The digits of the sum, or what a lost carry leaves of them. *)
LEMMA SumDigits ==
  ASSUME NEW v \in Nat, NEW k \in Nat \ {0}, Weight(k - 1) =< v, v < Weight(k),
         NEW w \in Nat, NEW l \in Nat \ {0}, Weight(l - 1) =< w, w < Weight(l)
  PROVE  SumOrRest(v, k, w, l)
<1> USE DEF SumOrRest
<1>1. PICK n \in Nat \ {0} : n = MAX(k, l) /\ k =< n /\ l =< n /\ (n = k \/ (k < l /\ n = l))
  BY DEF MAX
<1>2. PICK p \in Nat \ {0}, q \in Nat \ {0}, r \in Nat, o \in Nat \ {0} :
        /\ p = Weight(n) /\ q = Weight(n - 1) /\ r = RADIX /\ r >= 10
        /\ o = Weight(n + 1) /\ o = r * p
  <2>1. n - 1 \in Nat /\ n + 1 \in Nat
    OBVIOUS
  <2>2. Weight(n) \in Nat \ {0} /\ Weight(n + 1) = RADIX * Weight(n)
    BY WeightFacts
  <2>3. Weight(n - 1) \in Nat \ {0} /\ Weight(n + 1) \in Nat \ {0}
    BY <2>1, WeightFacts
  <2>4. QED
    BY <2>2, <2>3, RadixPositive
<1>3. v < p /\ w < p /\ q =< v + w
  <2>1. Weight(k) =< p /\ Weight(l) =< p /\ Weight(k) \in Nat /\ Weight(l) \in Nat
    BY <1>1, <1>2, WeightSplit, WeightFacts
  <2>2. q =< v \/ q =< w
    BY <1>1, <1>2
  <2>3. QED
    BY <1>2, <2>1, <2>2
<1>4. PICK u \in Nat : u = v + w /\ u < 2 * p /\ q =< u
  BY <1>3
<1>5. 2 * p =< o
  BY <1>2
<1>6. SumCount(v, k, w, l) = IF u >= p /\ DigitAt(u, k) # 0 THEN n + 1 ELSE n
  BY <1>1, <1>2, <1>4 DEF SumCount
<1>7. Sum(v, k, w, l) = IF u >= p /\ SumCount(v, k, w, l) = n THEN u - p ELSE u
  BY <1>1, <1>2, <1>4 DEF Sum
<1>8. CASE u < p
  BY <1>1, <1>2, <1>4, <1>6, <1>7, <1>8
<1>9. CASE u >= p
  <2>1. CASE DigitAt(u, k) # 0
    <3>1. SumCount(v, k, w, l) = n + 1 /\ Sum(v, k, w, l) = u
      BY <1>6, <1>7, <1>9, <2>1
    <3>2. (n + 1) - 1 = n /\ u < o
      BY <1>4, <1>5
    <3>3. QED
      BY <1>1, <1>2, <1>4, <1>9, <3>1, <3>2
  <2>2. CASE DigitAt(u, k) = 0
    <3>1. n # k
      <4>1. SUFFICES ASSUME n = k PROVE FALSE
        OBVIOUS
      <4>2. u \div p = 1
        BY <1>4, <1>9
      <4>3. 1 % r = 1
        BY <1>2
      <4>4. QED
        BY <1>2, <2>2, <4>1, <4>2, <4>3 DEF DigitAt
    <3>2. SumCount(v, k, w, l) = n /\ Sum(v, k, w, l) = u - p
      BY <1>6, <1>7, <1>9, <2>2
    <3>3. u - p \in Nat /\ u - p < p
      BY <1>4, <1>9
    <3>4. QED
      BY <1>1, <1>2, <1>4, <1>9, <3>1, <3>2, <3>3
  <2>3. QED
    BY <2>1, <2>2
<1>10. QED
  BY <1>4, <1>8, <1>9

(* What is left of a sum as a dynamic number. *)
LEMMA TrimmedResult ==
  ASSUME NEW s \in {-1, 1}, NEW p \in 0 .. FPDEC_MAX_DEC_PREC, NEW e \in INT32_MIN .. FPDEC_MAX_EXP,
         NEW v \in Nat, NEW n \in Nat \ {0}, v < Weight(n), e + n - 1 =< FPDEC_MAX_EXP,
         Canonical(s * v, Place(e))[2] >= -p
  PROVE  LET d == Trimmed(v, n, e)
             o == Ok(Dyn(s, p, d.coeff, d.n, d.exp))
         IN  /\ Safe(o)
             /\ Weight(n - 1) =< v => Good(o, s * v, Place(e))
<1>0. e \in Int
  BY Room
<1>1. CASE v # 0
  <2> DEFINE d == Trimmed(v, n, e)
             k == TrailingZeroDigits(v, n)
             res == Dyn(s, p, d.coeff, d.n, d.exp)
  <2>1. /\ k \in 0 .. n - 1
        /\ d.coeff \in Nat \ {0} /\ d.coeff % RADIX # 0
        /\ d.n = n - k /\ d.coeff < Weight(n - k)
        /\ Weight(n - 1) =< v => Weight(n - k - 1) =< d.coeff /\ Stripped(d)
    BY <1>0, <1>1, TrimmedFacts
  <2>2. /\ d.exp = e + k
        /\ Canonical(s * d.coeff, Place(d.exp)) = Canonical(s * v, Place(e))
    <3>1. e + TrailingZeroDigits(v, n) \in INT32_MIN .. FPDEC_MAX_EXP
      <4> HIDE DEF k
      <4>1. e + k \in INT32_MIN .. FPDEC_MAX_EXP
        BY <1>0, <2>1, Room
      <4>2. QED
        BY <4>1 DEF k
    <3>2. v \in Nat \ {0} /\ s \in Int /\ n \in Nat /\ v < Weight(n)
      BY <1>1
    <3>3. LET f == Trimmed(v, n, e)
          IN  /\ f.exp = e + TrailingZeroDigits(v, n)
              /\ Canonical(s * f.coeff, f.exp * DEC_DIGITS_PER_DIGIT)
                   = Canonical(s * v, e * DEC_DIGITS_PER_DIGIT)
      BY <1>0, <3>1, <3>2, TrimmedNumber, ZenonT(60)
    <3>4. QED
      BY <3>3 DEF Place
  <2> HIDE DEF d, k
  <2>3. d.exp \in INT32_MIN .. FPDEC_MAX_EXP /\ d.coeff \in Nat /\ d.n \in Nat \ {0}
    BY <1>0, <2>1, <2>2, Room
  <2>4. Canonical(s * d.coeff, Place(d.exp))[2] >= -p
    BY <2>2
  <2>5. Stripped(d) => Good(Ok(res), s * v, Place(e))
    <3>1. Stripped(d) => Operand(res) /\ Number(res) = Canonical(s * d.coeff, Place(d.exp))
      BY <2>3, <2>4, DynOperand
    <3>2. QED
      BY <2>2, <3>1 DEF Good, Ok, Returns
  <2>6. /\ res.dyn = TRUE /\ res.sign = s /\ res.dec_prec = p /\ res.coeff = d.coeff /\ res.n = d.n
        /\ res.exp = d.exp
    BY DEF Dyn
  <2>7. Usable(res) => Stripped(d)
    <3>1. SUFFICES ASSUME Usable(res) PROVE Stripped(d)
      OBVIOUS
    <3>2. Weight(d.n - 1) =< d.coeff /\ d.coeff < Weight(d.n)
      <4>1. Weight(d.n - 1) =< d.coeff
        <5>1. PICK w \in Nat : w = Weight(d.n - 1)
          <6>1. d.n - 1 \in Nat
            BY <2>3
          <6>2. QED
            BY <6>1, WeightFacts
        <5>2. QED
          BY <2>3, <2>6, <3>1, <5>1 DEF Usable
      <4>2. QED
        BY <2>1, <4>1
    <3>3. DigitCount[d.coeff] = d.n
      BY <2>1, <2>3, <3>2, DigitCountIs
    <3>4. QED
      BY <2>1, <2>3, <3>2, <3>3 DEF Stripped
  <2>8. res \in Decimals
    <3>1. s \in -1 .. 1
      OBVIOUS
    <3>2. QED
      BY <2>3, <3>1 DEF Dyn, Decimals
  <2>9. PrecCoversDigits(res)
    <3>1. Number(res) = Canonical(s * d.coeff, Place(d.exp))
      BY <2>6 DEF Number, Place
    <3>2. QED
      BY <2>4, <2>6, <3>1 DEF PrecCoversDigits
  <2>10. Safe(Ok(res))
    BY <2>5, <2>7, <2>8, <2>9 DEF Safe, Good, Ok, Returns
  <2>11. QED
    BY <2>1, <2>5, <2>10 DEF d
<1>2. CASE v = 0
  <2>1. TrailingZeroDigits(v, n) = n
    <3>1. PICK k \in 0 .. n : k = TrailingZeroDigits(v, n) /\ (k < n => (v \div Weight(k)) % RADIX # 0)
      BY TrailingZeroDigitsFacts
    <3>2. ASSUME NEW w \in Nat \ {0}, NEW r \in Nat \ {0} PROVE (0 \div w) % r = 0
      BY Z3
    <3>3. Weight(k) \in Nat \ {0} /\ RADIX \in Nat \ {0}
      BY WeightFacts, RadixPositive
    <3>4. QED
      BY <1>2, <3>1, <3>2, <3>3
  <2>2. PICK x0 \in INT32_MIN .. FPDEC_MAX_EXP : x0 = Int32(e + n)
    <3>1. e + n \in Int
      BY <1>0
    <3>2. QED
      BY <3>1, Int32Facts
  <2>3. Trimmed(v, n, e) = [coeff |-> 0, n |-> 0, exp |-> x0]
    <3>1. ASSUME NEW w \in Nat \ {0} PROVE 0 \div w = 0
      BY Z3
    <3>2. Weight(n) \in Nat \ {0}
      BY WeightFacts
    <3>3. n - n = 0
      OBVIOUS
    <3>4. QED
      BY <1>2, <2>1, <2>2, <3>1, <3>2, <3>3 DEF Trimmed
  <2> DEFINE res == Dyn(s, p, 0, 0, x0)
  <2>4. /\ res.dyn = TRUE /\ res.sign = s /\ res.dec_prec = p /\ res.coeff = 0 /\ res.n = 0
    BY DEF Dyn
  <2>5. res \in Decimals
    <3>1. s \in -1 .. 1
      OBVIOUS
    <3>2. QED
      BY <3>1 DEF Dyn, Decimals
  <2>6. PrecCoversDigits(res)
    <3>1. s * 0 = 0
      OBVIOUS
    <3>2. Number(res) = << 0, 0 >>
      BY <2>4, <3>1, CanonicalZero DEF Number
    <3>3. QED
      BY <2>4, <3>2, Room DEF PrecCoversDigits
  <2>7. ~Usable(res)
    BY <2>4 DEF Usable
  <2>8. Safe(Ok(res))
    BY <2>5, <2>6, <2>7 DEF Safe, Ok, Returns
  <2>9. ~(Weight(n - 1) =< v)
    <3>1. Weight(n - 1) \in Nat \ {0}
      <4>1. n - 1 \in Nat
        OBVIOUS
      <4>2. QED
        BY <4>1, WeightFacts
    <3>2. QED
      BY <1>2, <3>1
  <2>10. QED
    BY <2>3, <2>8, <2>9
<1>3. QED
  BY <1>1, <1>2

(* A multiple is not smaller than the factor. *)
LEMMA MultipleNotSmaller ==
  ASSUME NEW s \in {-1, 1}, NEW w \in Nat \ {0}, NEW u \in Int, NEW t \in Nat \ {0}, s * w = u * t
  PROVE  t =< w
<1>1. PICK q \in Nat \ {0} : w = q * t
  <2>1. CASE s = 1
    <3>1. u =< 0 => u * t =< 0
      OBVIOUS
    <3>2. QED
      BY <2>1, <3>1
  <2>2. CASE s = -1
    <3>1. -w = u * t
      BY <2>2
    <3>2. u >= 0 => u * t >= 0
      OBVIOUS
    <3>3. (-u) * t = -(u * t)
      OBVIOUS
    <3>4. QED
      BY <3>1, <3>2, <3>3
  <2>3. QED
    BY <2>1, <2>2
<1>2. t =< q * t
  OBVIOUS
<1>3. QED
  BY <1>1, <1>2

(* The digit a carry is lost from is one the precision covers. *)
LEMMA CoveredCarry ==
  ASSUME NEW s \in {-1, 1}, NEW e \in Int, NEW l \in Nat, NEW w \in Nat \ {0}, w < Weight(l),
         NEW f \in Int, f =< 0, Canonical(s * w, Place(e))[2] >= f
  PROVE  Canonical(s * Weight(l), Place(e))[2] >= f
<1>1. PICK i \in Int, j \in Int : i = Place(e) /\ j = Place(e + l) /\ i =< j
  <2>1. e + l \in Int /\ e =< e + l
    OBVIOUS
  <2>2. QED
    BY <2>1, PlaceFacts
<1>2. Weight(l) = Ten(i, j) /\ Canonical(s * Weight(l), i) = Canonical(s, j)
  <2>1. s \in Int
    OBVIOUS
  <2>2. Weight(l) = Ten(e * DEC_DIGITS_PER_DIGIT, (e + l) * DEC_DIGITS_PER_DIGIT)
    BY WeightTen
  <2>3. Canonical(s * Weight(l), e * DEC_DIGITS_PER_DIGIT) = Canonical(s, (e + l) * DEC_DIGITS_PER_DIGIT)
    BY <2>1, DigitShift, ZenonT(40)
  <2>4. QED
    BY <1>1, <2>2, <2>3 DEF Place
<1>3. f =< j
  <2>1. SUFFICES ASSUME j < f PROVE FALSE
    BY <1>1
  <2>2. i =< f /\ j =< f /\ s * w \in Int
    BY <1>1, <2>1
  <2>3. PICK u \in Int : s * w = u * Ten(i, f)
    BY <1>1, <2>2, CoveredMultiple
  <2>4. Ten(i, f) \in Nat \ {0} /\ Ten(i, j) =< Ten(i, f) /\ Ten(i, j) \in Nat
    BY <1>1, <2>2, TenType, TenOrder
  <2>5. Ten(i, f) =< w
    BY <2>3, <2>4, MultipleNotSmaller
  <2>6. QED
    BY <1>2, <2>4, <2>5
<1>4. s \in Int
  OBVIOUS
<1>5. Canonical(s, j)[2] >= f
  BY <1>1, <1>3, <1>4, CanonicalCovered
<1>6. QED
  BY <1>1, <1>2, <1>5

LEMMA Distributes ==
  ASSUME NEW s \in {-1, 1}, NEW v \in Int, NEW w \in Int
  PROVE  s * (v + w) = s * v + s * w /\ s * (v - w) = s * v - s * w
<1>1. CASE s = 1
  BY <1>1
<1>2. CASE s = -1
  BY <1>2
<1>3. QED
  BY <1>1, <1>2

(***************************************************************************)
(* The sum of dynamic numbers is exact unless a carry is lost.             *)
(***************************************************************************)
LEMMA AddDigits ==
  ASSUME NEW s \in {-1, 1}, NEW p \in 0 .. FPDEC_MAX_DEC_PREC,
         NEW c, Stripped(c), c.exp \in INT32_MIN .. FPDEC_MAX_EXP,
         NEW d, Stripped(d), d.exp \in INT32_MIN .. FPDEC_MAX_EXP, d.exp =< c.exp,
         c.exp + c.n =< FPDEC_MAX_EXP, d.exp + d.n =< FPDEC_MAX_EXP,
         Canonical(s * c.coeff, Place(c.exp))[2] >= -p, Canonical(s * d.coeff, Place(d.exp))[2] >= -p
  PROVE  LET a == ShiftedTo(c, d.exp)
             t == Trimmed(Sum(a.coeff, a.n, d.coeff, d.n), SumCount(a.coeff, a.n, d.coeff, d.n), d.exp)
             o == Ok(Dyn(s, p, t.coeff, t.n, t.exp))
         IN  /\ Safe(o)
             /\ ~(a.n < d.n /\ a.coeff + d.coeff >= Weight(d.n)) =>
                  Good(o, s * (a.coeff + d.coeff), Place(d.exp))
<1> DEFINE a == ShiftedTo(c, d.exp)
<1>1. c.exp \in Int /\ d.exp \in Int /\ c.n \in Nat \ {0}
  BY Room DEF Stripped
<1>2. PICK e \in Int : e = d.exp
  BY <1>1
<1>3. PICK v \in Nat \ {0}, k \in Nat \ {0} :
        /\ v = a.coeff /\ k = a.n /\ Weight(k - 1) =< v /\ v < Weight(k)
        /\ k = c.n + (c.exp - e) /\ Canonical(s * v, Place(e)) = Canonical(s * c.coeff, Place(c.exp))
  <2>1. d.exp =< c.exp
    OBVIOUS
  <2> HIDE DEF a
  <2>2. /\ a.coeff \in Nat \ {0} /\ a.n \in Nat \ {0}
        /\ Weight(a.n - 1) =< a.coeff /\ a.coeff < Weight(a.n)
        /\ a.n = c.n + (c.exp - e)
        /\ Canonical(s * a.coeff, Place(e)) = Canonical(s * c.coeff, Place(c.exp))
    BY <1>1, <1>2, <2>1, ShiftedDigitsFacts DEF a
  <2>3. QED
    BY <2>2
<1>4. PICK w \in Nat \ {0}, l \in Nat \ {0} :
        w = d.coeff /\ l = d.n /\ Weight(l - 1) =< w /\ w < Weight(l)
  BY DEF Stripped
<1> HIDE DEF a
<1>5. PICK sum \in Nat, n \in Nat \ {0} :
        /\ sum = Sum(v, k, w, l) /\ n = SumCount(v, k, w, l)
        /\ sum < Weight(n) /\ n =< MAX(k, l) + 1
        /\ \/ sum = v + w /\ Weight(n - 1) =< sum
           \/ k < l /\ v + w >= Weight(l) /\ n = l /\ sum = v + w - Weight(l)
  <2>1. v \in Nat /\ w \in Nat /\ Weight(k - 1) =< v /\ v < Weight(k) /\ Weight(l - 1) =< w /\ w < Weight(l)
    BY <1>3, <1>4
  <2>2. k \in Nat \ {0} /\ l \in Nat \ {0}
    BY <1>3, <1>4
  <2>3. SumOrRest(v, k, w, l)
    BY <2>1, <2>2, SumDigits
  <2>4. QED
    BY <2>3 DEF SumOrRest
<1>6. e + n - 1 =< FPDEC_MAX_EXP
  BY <1>1, <1>2, <1>3, <1>4, <1>5, Room DEF MAX
<1>7. PICK f \in Int : f = -p /\ f =< 0
  BY Room
<1>8. PICK i \in Int, vs \in Int, ws \in Int : i = Place(e) /\ vs = s * v /\ ws = s * w
  <2>1. Place(e) \in Int
    BY PlaceFacts, ZenonT(40)
  <2>2. QED
    BY <2>1
<1>9. Canonical(vs + ws, i)[2] >= f
  <2>1. Canonical(vs, i)[2] >= f /\ Canonical(ws, i)[2] >= f
    BY <1>2, <1>3, <1>4, <1>7, <1>8
  <2>2. QED
    BY <1>7, <2>1, CoveredSum
<1>10. Canonical(s * sum, i)[2] >= f
  <2>1. CASE sum = v + w
    BY <1>8, <1>9, <2>1, Distributes
  <2>2. CASE sum = v + w - Weight(l)
    <3>1. PICK wl \in Int : wl = Weight(l)
      BY WeightFacts
    <3>2. PICK ls \in Int : ls = s * wl
      OBVIOUS
    <3>3. Canonical(ls, i)[2] >= f
      <4>1. Canonical(s * w, Place(e))[2] >= f
        BY <1>2, <1>4, <1>7
      <4>2. Canonical(s * Weight(l), Place(e))[2] >= f
        BY <1>4, <1>7, <4>1, CoveredCarry
      <4>3. QED
        BY <1>8, <3>1, <3>2, <4>2
    <3>4. Canonical((vs + ws) - ls, i)[2] >= f
      <4>1. PICK us \in Int : us = vs + ws
        OBVIOUS
      <4>2. Canonical(us - ls, i)[2] >= f
        BY <1>7, <1>9, <3>3, <4>1, CoveredSum
      <4>3. QED
        BY <4>1, <4>2
    <3>5. s * sum = (vs + ws) - ls
      <4>1. PICK u \in Int : u = v + w
        OBVIOUS
      <4>2. s * (u - wl) = s * u - s * wl /\ s * u = s * v + s * w
        BY <4>1, Distributes
      <4>3. QED
        BY <1>8, <2>2, <3>1, <3>2, <4>1, <4>2
    <3>6. QED
      BY <3>4, <3>5
  <2>3. QED
    BY <1>5, <2>1, <2>2
<1>11. LET t == Trimmed(sum, n, e)
           o == Ok(Dyn(s, p, t.coeff, t.n, t.exp))
       IN  Safe(o) /\ (Weight(n - 1) =< sum => Good(o, s * sum, Place(e)))
  <2>1. e \in INT32_MIN .. FPDEC_MAX_EXP /\ Canonical(s * sum, Place(e))[2] >= -p
    BY <1>2, <1>7, <1>8, <1>10
  <2>2. QED
    BY <1>5, <1>6, <2>1, TrimmedResult
<1>12. QED
  BY <1>2, <1>3, <1>4, <1>5, <1>11 DEF a

LEMMA CoveredSign ==
  ASSUME NEW r \in {-1, 1}, NEW s \in {-1, 1}, NEW c \in Nat, NEW e \in Int, NEW f,
         Canonical(r * c, e)[2] >= f
  PROVE  Canonical(s * c, e)[2] >= f
<1>1. PICK k \in Int : k = r * c
  OBVIOUS
<1>2. s * c = k \/ s * c = -k
  BY <1>1
<1>3. CASE s * c = k
  BY <1>1, <1>3
<1>4. CASE s * c = -k
  <2>1. Minus(Canonical(k, e)) = Canonical(-k, e)
    BY CanonicalMinus
  <2>2. Minus(Canonical(k, e))[2] = Canonical(k, e)[2]
    BY DEF Minus
  <2>3. QED
    BY <1>1, <1>4, <2>1, <2>2
<1>5. QED
  BY <1>2, <1>3, <1>4

(* Exponents and magnitudes stay in range. *)
LEMMA MagnitudeRoom ==
  ASSUME NEW d, Stripped(d), d.exp \in Int, MagnitudeFits(d)
  PROVE  d.exp + d.n =< FPDEC_MAX_EXP /\ Place(d.exp + d.n) =< FPDEC_MAX_EXP
<1>1. PICK r \in Nat \ {0}, n \in Nat, i \in Int : r = DEC_DIGITS_PER_DIGIT /\ n = d.n /\ i = d.exp
  BY Limits DEF Stripped
<1>2. PICK k \in Nat : k = ABS(i) + n /\ i + n =< k
  BY DEF ABS
<1>3. k * r =< FPDEC_MAX_EXP
  BY <1>1, <1>2 DEF MagnitudeFits
<1>4. k =< k * r
  OBVIOUS
<1>5. (i + n) * r =< k * r
  <2>1. PICK j \in Int : j = i + n
    OBVIOUS
  <2>2. j * r =< k * r
    BY <1>2, <2>1
  <2>3. QED
    BY <2>1, <2>2
<1>6. (i + n) * r \in Int /\ k * r \in Int
  OBVIOUS
<1>7. QED
  BY <1>1, <1>2, <1>3, <1>4, <1>5, <1>6, Limits DEF Place

LEMMA ShiftedAmount ==
  ASSUME NEW d, Stripped(d), d.exp \in Int, NEW f \in Int, f =< d.exp, NEW e \in Int, e =< Place(f)
  PROVE  ShiftedTo(d, f).coeff * Ten(e, Place(f)) = d.coeff * Ten(e, Place(d.exp))
<1>1. PICK k \in Nat : k = d.exp - f /\ f + k = d.exp
  OBVIOUS
<1>2. PICK i \in Int, j \in Int : i = Place(f) /\ j = Place(d.exp) /\ i =< j /\ e =< i
  <2>1. Place(f) \in Int /\ Place(d.exp) \in Int /\ Place(f) =< Place(d.exp)
    BY PlaceFacts
  <2>2. QED
    BY <2>1
<1>3. Weight(k) = Ten(i, j)
  <2>1. Weight(k) = Ten(f * DEC_DIGITS_PER_DIGIT, (f + k) * DEC_DIGITS_PER_DIGIT)
    BY WeightTen
  <2>2. QED
    BY <1>1, <1>2, <2>1 DEF Place
<1>4. PICK c \in Nat : c = d.coeff
  BY DEF Stripped
<1>5. ShiftedTo(d, f).coeff = c * Ten(i, j)
  BY <1>1, <1>3, <1>4 DEF ShiftedTo
<1>6. Ten(e, j) = Ten(e, i) * Ten(i, j)
  BY <1>2, TenSteps, ZenonT(40)
<1>7. PICK t \in Nat, u \in Nat : t = Ten(e, i) /\ u = Ten(i, j)
  <2>1. Ten(e, i) \in Nat /\ Ten(i, j) \in Nat
    BY <1>2, TenType
  <2>2. QED
    BY <2>1
<1>8. (c * u) * t = c * (t * u)
  OBVIOUS
<1>9. QED
  BY <1>2, <1>4, <1>5, <1>6, <1>7, <1>8

(* Digits added, with the greater exponent or else the longer ones first. *)
LEMMA AddOrdered ==
  ASSUME NEW s \in {-1, 1}, NEW p \in 0 .. FPDEC_MAX_DEC_PREC,
         NEW c, Stripped(c), c.exp \in INT32_MIN .. FPDEC_MAX_EXP, MagnitudeFits(c),
         NEW d, Stripped(d), d.exp \in INT32_MIN .. FPDEC_MAX_EXP, MagnitudeFits(d), d.exp =< c.exp,
         Canonical(s * c.coeff, Place(c.exp))[2] >= -p, Canonical(s * d.coeff, Place(d.exp))[2] >= -p,
         NEW e \in Int, e =< Place(d.exp),
         NEW m \in Nat, m = c.coeff * Ten(e, Place(c.exp)),
         NEW v \in Nat, v = d.coeff * Ten(e, Place(d.exp))
  PROVE  LET a == ShiftedTo(c, d.exp)
             t == Trimmed(Sum(a.coeff, a.n, d.coeff, d.n), SumCount(a.coeff, a.n, d.coeff, d.n), d.exp)
             o == Ok(Dyn(s, p, t.coeff, t.n, t.exp))
         IN  /\ Safe(o)
             /\ ~(a.n < d.n /\ a.coeff + d.coeff >= Weight(d.n)) => Good(o, s * (m + v), e)
<1> DEFINE a == ShiftedTo(c, d.exp)
           t == Trimmed(Sum(a.coeff, a.n, d.coeff, d.n), SumCount(a.coeff, a.n, d.coeff, d.n), d.exp)
           o == Ok(Dyn(s, p, t.coeff, t.n, t.exp))
<1>1. c.exp \in Int /\ d.exp \in Int
  BY Room
<1>2. c.exp + c.n =< FPDEC_MAX_EXP /\ d.exp + d.n =< FPDEC_MAX_EXP
  BY <1>1, MagnitudeRoom
<1>3. /\ Safe(o)
      /\ ~(a.n < d.n /\ a.coeff + d.coeff >= Weight(d.n)) =>
           Good(o, s * (a.coeff + d.coeff), Place(d.exp))
  BY <1>2, AddDigits
<1>4. a.coeff \in Nat
  <2>1. d.exp =< c.exp
    OBVIOUS
  <2>2. a.coeff \in Nat \ {0}
    BY <1>1, <2>1, ShiftedDigitsFacts
  <2>3. QED
    BY <2>2
<1>5. a.coeff * Ten(e, Place(d.exp)) = m
  BY <1>1, ShiftedAmount
<1> HIDE DEF a
<1>6. PICK i \in Int, w \in Nat, u \in Nat, h \in Nat :
        i = Place(d.exp) /\ w = d.coeff /\ u = a.coeff /\ h = w + u
  <2>1. Place(d.exp) \in Int
    BY <1>1, PlaceFacts
  <2>2. QED
    BY <1>4, <2>1 DEF Stripped
<1>7. e =< i /\ Ten(e, i) \in Nat
  BY <1>6, TenType
<1>8. m + v = h * Ten(e, i)
  <2>1. PICK x1 \in Nat : x1 = Ten(e, i)
    BY <1>7
  <2>2. (w + u) * x1 = u * x1 + w * x1
    OBVIOUS
  <2>3. QED
    BY <1>5, <1>6, <2>1, <2>2
<1>9. Canonical(s * (h * Ten(e, i)), e) = Canonical(s * h, i)
  <2>1. ShiftsTo(s, h, e, i)
    BY <1>7, SignedShift
  <2>2. QED
    BY <2>1 DEF ShiftsTo
<1> HIDE DEF o
<1>10. a.coeff + d.coeff = h
  BY <1>6
<1>11. Good(o, s * h, i) => Good(o, s * (m + v), e)
  BY <1>8, <1>9 DEF Good
<1>12. QED
  BY <1>3, <1>6, <1>10, <1>11 DEF o, a

(* An operand as a dynamic number. *)
LEMMA AsDynDigits ==
  ASSUME NEW a, Operand(a), a.sign # 0, NEW s \in {-1, 1},
         NEW e \in Int, e =< Unit(a), NEW m, Amount(a, e, m)
  PROVE  LET c == DigitsOf(a)
             d == AsDyn(a)
         IN  /\ d.coeff = c.coeff /\ d.n = c.n /\ d.exp = c.exp /\ d.dec_prec = a.dec_prec
             /\ Stripped(d) /\ d.exp \in INT32_MIN .. FPDEC_MAX_EXP
             /\ \A p \in Nat : a.dec_prec =< p => Canonical(s * d.coeff, Place(d.exp))[2] >= -p
             /\ e =< Place(d.exp) /\ m \in Nat \ {0} /\ m = d.coeff * Ten(e, Place(d.exp))
             /\ MagnitudeFits(c) => MagnitudeFits(d)
             /\ \A f : ShiftedTo(c, f) = ShiftedTo(d, f)
<1> DEFINE c == DigitsOf(a)
           d == AsDyn(a)
<1>1. /\ d.coeff = c.coeff /\ d.n = c.n /\ d.exp = c.exp /\ d.dec_prec = a.dec_prec
  BY DEF AsDyn, Dyn
<1>2. /\ a.sign \in {-1, 1} /\ Stripped(c) /\ c.exp \in Int /\ e =< Place(c.exp)
      /\ m \in Nat \ {0} /\ m = c.coeff * Ten(e, Place(c.exp)) /\ Place(c.exp) \in Int
  BY Amounts
<1>3. c.exp \in INT32_MIN .. FPDEC_MAX_EXP /\ Number(a) = Canonical(a.sign * c.coeff, Place(c.exp))
  BY OperandDigits DEF Place
<1> HIDE DEF c, d
<1>4. Stripped(d)
  BY <1>1, <1>2 DEF Stripped
<1>5. PICK i \in Nat, j \in Int : i = c.coeff /\ j = Place(c.exp)
  BY <1>2 DEF Stripped
<1>6. Canonical(s * i, j)[2] >= -a.dec_prec
  <2>1. Canonical(a.sign * i, j)[2] >= -a.dec_prec
    BY <1>3, <1>5 DEF Operand, PrecCoversDigits
  <2>2. QED
    BY <1>2, <2>1, CoveredSign
<1>7. ASSUME NEW p \in Nat, a.dec_prec =< p PROVE Canonical(s * i, j)[2] >= -p
  <2>1. s * i \in Int
    OBVIOUS
  <2>2. PICK k \in Int : k = Canonical(s * i, j)[2]
    BY <2>1, CanonicalSign
  <2>3. a.dec_prec \in Nat
    BY Room DEF Operand, Decimals
  <2>4. QED
    BY <1>6, <1>7, <2>2, <2>3
<1>8. /\ MagnitudeFits(c) => MagnitudeFits(d)
      /\ \A f : ShiftedTo(c, f) = ShiftedTo(d, f)
  BY <1>1 DEF MagnitudeFits, ShiftedTo
<1>9. QED
  BY <1>1, <1>2, <1>3, <1>4, <1>5, <1>7, <1>8 DEF c, d

LostCarry(a, b) ==
  LET c == DigitsOf(a)
      d == DigitsOf(b)
      long == IF c.exp > d.exp THEN ShiftedTo(c, d.exp) ELSE ShiftedTo(d, c.exp)
      short == IF c.exp > d.exp THEN d ELSE c
  IN  c.exp # d.exp /\ long.n < short.n /\ long.coeff + short.coeff >= Weight(short.n)

(* The sum of two digit arrays. *)
LEMMA AddDyns ==
  ASSUME NEW a, Operand(a), a.sign # 0, NEW b, Operand(b), b.sign # 0,
         MagnitudeFits(DigitsOf(a)), MagnitudeFits(DigitsOf(b)),
         NEW e \in Int, e =< Unit(a), e =< Unit(b),
         NEW m, Amount(a, e, m), NEW v, Amount(b, e, v), NEW s \in {-1, 1}
  PROVE  LET o == add_abs_dyn_to_dyn(s, AsDyn(a), AsDyn(b))
         IN  Safe(o) /\ (~LostCarry(a, b) => Good(o, s * (m + v), e))
<1>1. PICK g, h : g = DigitsOf(a) /\ h = DigitsOf(b)
  OBVIOUS
<1>2. PICK c : c = AsDyn(a)
  OBVIOUS
<1>3. PICK d : d = AsDyn(b)
  OBVIOUS
<1>4. PICK p \in 0 .. FPDEC_MAX_DEC_PREC :
        p = MAX(a.dec_prec, b.dec_prec) /\ a.dec_prec =< p /\ b.dec_prec =< p /\ p \in Nat
  <2>1. a.dec_prec \in 0 .. FPDEC_MAX_DEC_PREC /\ b.dec_prec \in 0 .. FPDEC_MAX_DEC_PREC
    BY DEF Operand, Decimals
  <2>2. QED
    BY <2>1, Room DEF MAX
<1>5. /\ c.n = g.n /\ c.exp = g.exp /\ c.dec_prec = a.dec_prec
      /\ Stripped(c) /\ c.exp \in INT32_MIN .. FPDEC_MAX_EXP
      /\ Canonical(s * c.coeff, Place(c.exp))[2] >= -p
      /\ e =< Place(c.exp) /\ m \in Nat /\ m = c.coeff * Ten(e, Place(c.exp))
      /\ MagnitudeFits(c) /\ c.coeff = g.coeff
      /\ \A f : ShiftedTo(g, f) = ShiftedTo(c, f)
  BY <1>1, <1>2, <1>4, AsDynDigits
<1>6. /\ d.n = h.n /\ d.exp = h.exp /\ d.dec_prec = b.dec_prec
      /\ Stripped(d) /\ d.exp \in INT32_MIN .. FPDEC_MAX_EXP
      /\ Canonical(s * d.coeff, Place(d.exp))[2] >= -p
      /\ e =< Place(d.exp) /\ v \in Nat /\ v = d.coeff * Ten(e, Place(d.exp))
      /\ MagnitudeFits(d) /\ d.coeff = h.coeff
      /\ \A f : ShiftedTo(h, f) = ShiftedTo(d, f)
  BY <1>1, <1>3, <1>4, AsDynDigits
<1>7. c.exp \in Int /\ d.exp \in Int /\ c.n \in Nat /\ d.n \in Nat
  BY <1>5, <1>6, Room DEF Stripped
<1> DEFINE Outcome(l, r) ==
             LET t == Trimmed(Sum(l.coeff, l.n, r.coeff, r.n), SumCount(l.coeff, l.n, r.coeff, r.n), r.exp)
             IN  Ok(Dyn(s, p, t.coeff, t.n, t.exp))
           Lost(l, r) == l.n < r.n /\ l.coeff + r.coeff >= Weight(r.n)
           o == add_abs_dyn_to_dyn(s, c, d)
<1>8. CASE d.exp < c.exp \/ (c.exp = d.exp /\ c.n >= d.n)
  <2> DEFINE l == ShiftedTo(c, d.exp)
  <2>1. o = Outcome(l, d)
    <3>1. MIN(c.exp, d.exp) = d.exp
      BY <1>7, <1>8 DEF MIN
    <3>2. c.exp > d.exp \/ (c.exp = d.exp /\ c.n >= d.n)
      BY <1>7, <1>8
    <3>3. QED
      BY <1>4, <1>5, <1>6, <3>1, <3>2 DEF add_abs_dyn_to_dyn
  <2>2. Safe(Outcome(l, d)) /\ (~Lost(l, d) => Good(Outcome(l, d), s * (m + v), e))
    <3>1. d.exp =< c.exp
      BY <1>7, <1>8
    <3>2. QED
      BY <1>5, <1>6, <3>1, AddOrdered
  <2> HIDE DEF Outcome, o
  <2>3. Lost(l, d) => LostCarry(a, b)
    <3>1. CASE c.exp > d.exp
      BY <1>1, <1>5, <1>6, <3>1 DEF LostCarry
    <3>2. CASE c.exp = d.exp
      <4>1. l.n = c.n
        BY <1>7, <3>2 DEF ShiftedTo
      <4>2. QED
        BY <1>7, <1>8, <3>2, <4>1
    <3>3. QED
      BY <1>7, <1>8, <3>1, <3>2
  <2> HIDE DEF Lost, l
  <2>4. QED
    BY <1>2, <1>3, <2>1, <2>2, <2>3 DEF o
<1>9. CASE c.exp < d.exp \/ (c.exp = d.exp /\ c.n < d.n)
  <2> DEFINE l == ShiftedTo(d, c.exp)
  <2>1. o = Outcome(l, c)
    <3>1. MIN(c.exp, d.exp) = c.exp
      BY <1>7, <1>9 DEF MIN
    <3>2. ~(c.exp > d.exp \/ (c.exp = d.exp /\ c.n >= d.n))
      BY <1>7, <1>9
    <3>3. QED
      BY <1>4, <1>5, <1>6, <3>1, <3>2 DEF add_abs_dyn_to_dyn
  <2>2. Safe(Outcome(l, c)) /\ (~Lost(l, c) => Good(Outcome(l, c), s * (v + m), e))
    <3>1. c.exp =< d.exp
      BY <1>7, <1>9
    <3>2. QED
      BY <1>5, <1>6, <3>1, AddOrdered
  <2>3. v + m = m + v
    BY <1>5, <1>6
  <2> HIDE DEF Outcome, o
  <2>4. Lost(l, c) => LostCarry(a, b)
    <3>1. CASE c.exp < d.exp
      <4>1. ~(c.exp > d.exp)
        BY <1>7, <3>1
      <4>2. QED
        BY <1>1, <1>5, <1>6, <3>1, <4>1 DEF LostCarry
    <3>2. CASE c.exp = d.exp
      <4>1. l.n = d.n
        BY <1>7, <3>2 DEF ShiftedTo
      <4>2. QED
        BY <1>7, <1>9, <3>2, <4>1
    <3>3. QED
      BY <1>7, <1>9, <3>1, <3>2
  <2> HIDE DEF Lost, l
  <2>5. QED
    BY <1>2, <1>3, <2>1, <2>2, <2>3, <2>4 DEF o
<1>10. QED
  BY <1>7, <1>8, <1>9

(* Digits whose top is in the range of exponents and magnitudes. *)
LEMMA NormalizedBelow ==
  ASSUME NEW a, a.coeff \in Nat, a.exp \in INT32_MIN .. FPDEC_MAX_EXP, a.sign \in {-1, 1},
         a.dec_prec \in 0 .. FPDEC_MAX_DEC_PREC,
         Canonical(a.sign * a.coeff, Place(a.exp))[2] >= -a.dec_prec,
         NEW n \in Nat, a.coeff < Weight(n), a.exp + n =< FPDEC_MAX_EXP,
         Place(a.exp + n) =< FPDEC_MAX_EXP
  PROVE  Good(fpdec_dyn_normalize(a), a.sign * a.coeff, Place(a.exp))
<1>1. a.exp \in Int
  BY Room
<1>2. ASSUME a.coeff # 0
      PROVE  /\ a.exp + TrailingZeroDigits(a.coeff, DigitCount[a.coeff]) =< FPDEC_MAX_EXP
             /\ Place(DigitCount[a.coeff] + a.exp) =< FPDEC_MAX_EXP
  <2>1. PICK c \in Nat \ {0} : c = a.coeff
    BY <1>2
  <2>2. PICK i \in Int : i = a.exp
    BY <1>1
  <2>3. PICK l \in Nat : l = DigitCount[c] /\ l =< n
    <3>1. DigitCount[c] =< n
      BY <2>1, DigitCountBounds
    <3>2. DigitCount[c] \in Nat
      BY DigitCountRange
    <3>3. QED
      BY <3>1, <3>2
  <2>4. PICK k \in 0 .. l - 1 : k = TrailingZeroDigits(c, l)
    BY <2>3, StrippedZeros
  <2>5. i + k =< FPDEC_MAX_EXP
    BY <2>2, <2>3, <2>4, Room
  <2>6. Place(l + i) =< FPDEC_MAX_EXP
    <3>1. l + i =< i + n /\ l + i \in Int /\ i + n \in Int
      BY <2>3
    <3>2. Place(l + i) =< Place(i + n) /\ Place(l + i) \in Int /\ Place(i + n) \in Int
      BY <3>1, PlaceFacts
    <3>3. QED
      BY <2>2, <3>2, Room
  <2>7. QED
    BY <2>1, <2>2, <2>3, <2>4, <2>5, <2>6
<1>3. LET o == fpdec_dyn_normalize(a)
      IN  /\ o.rc = "OK" /\ Operand(o.v)
          /\ Number(o.v) = Canonical(a.sign * a.coeff, Place(a.exp))
          /\ o.v.dec_prec = a.dec_prec
  BY <1>2, Normalized
<1>4. QED
  BY <1>3 DEF Good

(***************************************************************************)
(* The difference of dynamic numbers is exact.                             *)
(***************************************************************************)
LEMMA SubDyns ==
  ASSUME NEW a, Operand(a), a.sign # 0, NEW b, Operand(b), b.sign # 0,
         MagnitudeFits(DigitsOf(a)), MagnitudeFits(DigitsOf(b)),
         NEW e \in Int, e =< Unit(a), e =< Unit(b),
         NEW m, Amount(a, e, m), NEW v, Amount(b, e, v), NEW s \in {-1, 1}, v < m
  PROVE  Good(sub_abs_dyn_from_dyn(s, AsDyn(a), AsDyn(b)), s * (m - v), e)
<1>1. PICK c : c = AsDyn(a)
  OBVIOUS
<1>2. PICK d : d = AsDyn(b)
  OBVIOUS
<1>3. PICK p \in 0 .. FPDEC_MAX_DEC_PREC :
        p = MAX(a.dec_prec, b.dec_prec) /\ a.dec_prec =< p /\ b.dec_prec =< p /\ p \in Nat
  <2>1. a.dec_prec \in 0 .. FPDEC_MAX_DEC_PREC /\ b.dec_prec \in 0 .. FPDEC_MAX_DEC_PREC
    BY DEF Operand, Decimals
  <2>2. QED
    BY <2>1, Room DEF MAX
<1>4. /\ c.dec_prec = a.dec_prec /\ Stripped(c) /\ c.exp \in INT32_MIN .. FPDEC_MAX_EXP
      /\ Canonical(s * c.coeff, Place(c.exp))[2] >= -p
      /\ e =< Place(c.exp) /\ m \in Nat /\ m = c.coeff * Ten(e, Place(c.exp))
      /\ MagnitudeFits(c)
  BY <1>1, <1>3, AsDynDigits
<1>5. /\ d.dec_prec = b.dec_prec /\ Stripped(d) /\ d.exp \in INT32_MIN .. FPDEC_MAX_EXP
      /\ Canonical(s * d.coeff, Place(d.exp))[2] >= -p
      /\ e =< Place(d.exp) /\ v \in Nat /\ v = d.coeff * Ten(e, Place(d.exp))
      /\ MagnitudeFits(d)
  BY <1>2, <1>3, AsDynDigits
<1>6. c.exp \in Int /\ d.exp \in Int
  BY <1>4, <1>5, Room
<1>7. PICK f \in INT32_MIN .. FPDEC_MAX_EXP :
        f \in Int /\ f = MIN(c.exp, d.exp) /\ f =< c.exp /\ f =< d.exp /\ e =< Place(f)
  BY <1>4, <1>5, <1>6 DEF MIN
<1> DEFINE l == ShiftedTo(c, f)
           r == ShiftedTo(d, f)
<1>8. /\ l.coeff \in Nat \ {0} /\ l.n \in Nat \ {0} /\ l.coeff < Weight(l.n)
      /\ l.n = c.n + (c.exp - f)
      /\ Canonical(s * l.coeff, Place(f)) = Canonical(s * c.coeff, Place(c.exp))
  BY <1>4, <1>6, <1>7, ShiftedDigitsFacts
<1>9. /\ r.coeff \in Nat \ {0}
      /\ Canonical(s * r.coeff, Place(f)) = Canonical(s * d.coeff, Place(d.exp))
  BY <1>5, <1>6, <1>7, ShiftedDigitsFacts
<1>10. l.coeff * Ten(e, Place(f)) = m /\ r.coeff * Ten(e, Place(f)) = v
  BY <1>4, <1>5, <1>6, <1>7, ShiftedAmount
<1> HIDE DEF l, r
<1>11. PICK i \in Int, t \in Nat \ {0}, u \in Nat \ {0}, w \in Nat \ {0}, n \in Nat \ {0} :
         i = Place(f) /\ t = Ten(e, i) /\ u = l.coeff /\ w = r.coeff /\ n = l.n
  <2>1. Place(f) \in Int
    BY <1>7, PlaceFacts
  <2>2. Ten(e, Place(f)) \in Nat \ {0}
    BY <1>7, <2>1, TenType
  <2>3. QED
    BY <1>8, <1>9, <2>1, <2>2
<1>12. PICK k \in Nat : k = u - w /\ k =< u
  <2>1. w < u
    <3>1. u =< w => u * t =< w * t
      OBVIOUS
    <3>2. u * t = m /\ w * t = v /\ u * t \in Nat /\ w * t \in Nat
      BY <1>10, <1>11
    <3>3. QED
      BY <3>1, <3>2
  <2>2. QED
    BY <2>1
<1> DEFINE res == Dyn(s, p, k, DifferenceCount(l.coeff, l.n, r.coeff), f)
<1>13. sub_abs_dyn_from_dyn(s, c, d) = fpdec_dyn_normalize(res)
  BY <1>3, <1>4, <1>5, <1>7, <1>11, <1>12 DEF sub_abs_dyn_from_dyn, l, r
<1>14. res.coeff = k /\ res.exp = f /\ res.sign = s /\ res.dec_prec = p
  BY DEF Dyn
<1> HIDE DEF res
<1>15. Canonical(s * k, i)[2] >= -p
  <2>1. PICK g \in Int : g = -p /\ g =< 0
    BY <1>3
  <2>2. PICK us \in Int, ws \in Int : us = s * u /\ ws = s * w
    OBVIOUS
  <2>3. Canonical(us, i)[2] >= g /\ Canonical(ws, i)[2] >= g
    BY <1>4, <1>5, <1>8, <1>9, <1>11, <2>1, <2>2
  <2>4. Canonical(us - ws, i)[2] >= g
    BY <2>1, <2>3, CoveredSum
  <2>5. s * k = us - ws
    BY <1>12, <2>2, Distributes
  <2>6. QED
    BY <2>1, <2>4, <2>5
<1>16. f + n =< FPDEC_MAX_EXP /\ Place(f + n) =< FPDEC_MAX_EXP
  <2>1. f + n = c.exp + c.n
    <3>1. c.n \in Nat
      BY <1>4 DEF Stripped
    <3>2. QED
      BY <1>6, <1>7, <1>8, <1>11, <3>1
  <2>2. QED
    BY <1>4, <1>6, <2>1, MagnitudeRoom
<1>17. k < Weight(n)
  <2>1. Weight(n) \in Nat /\ u < Weight(n)
    BY <1>8, <1>11, WeightFacts
  <2>2. QED
    BY <1>12, <2>1
<1>18. Good(fpdec_dyn_normalize(res), s * k, i)
  <2>1. Good(fpdec_dyn_normalize(res), res.sign * res.coeff, Place(res.exp))
    BY <1>11, <1>14, <1>15, <1>16, <1>17, NormalizedBelow
  <2>2. QED
    BY <1>11, <1>14, <2>1
<1>19. Canonical(s * (m - v), e) = Canonical(s * k, i)
  <2>1. m - v = k * t
    <3>1. (u - w) * t = u * t - w * t
      OBVIOUS
    <3>2. QED
      BY <1>10, <1>11, <1>12, <3>1
  <2>2. ShiftsTo(s, k, e, i)
    BY <1>7, <1>11, SignedShift
  <2>3. QED
    BY <1>11, <2>1, <2>2 DEF ShiftsTo
<1>20. QED
  BY <1>1, <1>2, <1>13, <1>18, <1>19 DEF Good

ShintsLost(a, b, adds) ==
  LET p == MAX(a.dec_prec, b.dec_prec)
      i == AdjustedShint(a, p)
      j == AdjustedShint(b, p)
  IN  ~a.dyn /\ ~b.dyn /\ (IF adds THEN i + j ELSE ABS(i - j)) >= SHINT_LIMIT

CarryLost(a, b) == (a.dyn \/ b.dyn) /\ LostCarry(a, b)

LEMMA OperandConvertible ==
  ASSUME NEW a, Operand(a), a.sign # 0
  PROVE  Convertible(a)
BY DEF Operand, WellFormed, Convertible

(* The sum of absolute values, in whatever representations. *)
LEMMA AddAbs ==
  ASSUME NEW a, Operand(a), a.sign # 0, NEW b, Operand(b), b.sign # 0, Comparable(a, b),
         NEW e \in Int, e =< Unit(a), e =< Unit(b),
         NEW m, Amount(a, e, m), NEW v, Amount(b, e, v), NEW s \in {-1, 1}
  PROVE  LET o == add_abs(s, a, b)
         IN  Safe(o) /\ (~ShintsLost(a, b, TRUE) /\ ~CarryLost(a, b) => Good(o, s * (m + v), e))
<1>1. PICK k : k = s * (m + v)
  OBVIOUS
<1>2. CASE a.dyn \/ b.dyn
  <2>1. LET o == add_abs_dyn_to_dyn(s, AsDyn(a), AsDyn(b))
        IN  Safe(o) /\ (~LostCarry(a, b) => Good(o, k, e))
    <3>1. MagnitudeFits(DigitsOf(a)) /\ MagnitudeFits(DigitsOf(b))
      BY <1>2 DEF Comparable
    <3>2. QED
      BY <1>1, <3>1, AddDyns
  <2>2. add_abs(s, a, b) = add_abs_dyn_to_dyn(s, AsDyn(a), AsDyn(b))
    BY <1>2, OperandConvertible DEF add_abs, Asserting
  <2>3. QED
    BY <1>1, <1>2, <2>1, <2>2 DEF CarryLost
<1>3. CASE ~a.dyn /\ ~b.dyn
  <2>1. LET o == add_abs_shint_to_shint(s, a, b)
            p == MAX(a.dec_prec, b.dec_prec)
        IN  /\ Safe(o)
            /\ ~(AdjustedShint(a, p) + AdjustedShint(b, p) >= SHINT_LIMIT) => Good(o, k, e)
    BY <1>1, <1>3, AddShints
  <2>2. add_abs(s, a, b) = add_abs_shint_to_shint(s, a, b)
    BY <1>3 DEF add_abs
  <2>3. QED
    BY <1>1, <1>3, <2>1, <2>2 DEF ShintsLost
<1>4. QED
  BY <1>2, <1>3

(* The difference of absolute values, the greater one first. *)
LEMMA SubAbs ==
  ASSUME NEW a, Operand(a), a.sign # 0, NEW b, Operand(b), b.sign # 0, Comparable(a, b),
         NEW e \in Int, e =< Unit(a), e =< Unit(b),
         NEW m, Amount(a, e, m), NEW v, Amount(b, e, v), NEW s \in {-1, 1}, v < m
  PROVE  LET o == sub_abs(s, a, b)
         IN  Safe(o) /\ (~ShintsLost(a, b, FALSE) => Good(o, s * (m - v), e))
<1>1. PICK k : k = s * (m - v)
  OBVIOUS
<1>2. CASE a.dyn \/ b.dyn
  <2>1. Good(sub_abs_dyn_from_dyn(s, AsDyn(a), AsDyn(b)), k, e)
    <3>1. MagnitudeFits(DigitsOf(a)) /\ MagnitudeFits(DigitsOf(b))
      BY <1>2 DEF Comparable
    <3>2. QED
      BY <1>1, <3>1, SubDyns
  <2>2. sub_abs(s, a, b) = sub_abs_dyn_from_dyn(s, AsDyn(a), AsDyn(b))
    BY <1>2, OperandConvertible DEF sub_abs, Asserting
  <2>3. QED
    BY <1>1, <2>1, <2>2, GoodIsSafe
<1>3. CASE ~a.dyn /\ ~b.dyn
  <2>1. PICK i, j : /\ i = AdjustedShint(a, MAX(a.dec_prec, b.dec_prec))
                    /\ j = AdjustedShint(b, MAX(a.dec_prec, b.dec_prec))
    OBVIOUS
  <2>2. LET o == sub_abs_shint_from_shint(s, a, b)
        IN  Safe(o) /\ (~(i - j >= SHINT_LIMIT) => Good(o, k, e)) /\ i - j \in Nat
            /\ i \in Nat /\ j \in Nat
    BY <1>1, <1>3, <2>1, SubShints
  <2>3. sub_abs(s, a, b) = sub_abs_shint_from_shint(s, a, b)
    BY <1>3 DEF sub_abs
  <2>4. ABS(i - j) = i - j
    BY <2>2 DEF ABS
  <2>5. QED
    BY <1>1, <1>3, <2>1, <2>2, <2>3, <2>4 DEF ShintsLost
<1>4. QED
  BY <1>2, <1>3

LEMMA LostEitherWay ==
  ASSUME NEW a, Operand(a), a.sign # 0, NEW b, Operand(b), b.sign # 0,
         NEW e \in Int, e =< Unit(a), e =< Unit(b),
         NEW m, Amount(a, e, m), NEW v, Amount(b, e, v), ShintsLost(b, a, FALSE)
  PROVE  ShintsLost(a, b, FALSE)
<1>1. ~a.dyn /\ ~b.dyn
  BY DEF ShintsLost
<1>2. PICK p, i \in Nat, j \in Nat :
        /\ p = MAX(a.dec_prec, b.dec_prec) /\ p = MAX(b.dec_prec, a.dec_prec)
        /\ i = AdjustedShint(a, p) /\ j = AdjustedShint(b, p)
  BY <1>1, AdjustedShints
<1>3. ABS(i - j) = ABS(j - i)
  BY DEF ABS
<1>4. QED
  BY <1>1, <1>2, <1>3 DEF ShintsLost

(* The difference of absolute values, with its sign. *)
LEMMA Difference ==
  ASSUME NEW a, Operand(a), a.sign # 0, NEW b, Operand(b), b.sign # 0, Comparable(a, b),
         NEW e \in Int, e =< Unit(a), e =< Unit(b),
         NEW m, Amount(a, e, m), NEW v, Amount(b, e, v), NEW s \in {-1, 1}
  PROVE  LET o == DifferenceOf(s, a, b)
         IN  Safe(o) /\ (~ShintsLost(a, b, FALSE) => Good(o, s * (m - v), e))
<1>1. m \in Nat /\ v \in Nat
  BY DEF Amount
<1>2. fpdec_compare(a, b, TRUE) = CMP(m, v)
  <2>1. ComparesAs(a, b, m, v)
    BY CompareAbs
  <2>2. QED
    BY <2>1 DEF ComparesAs
<1>3. CASE v < m
  <2>1. DifferenceOf(s, a, b) = sub_abs(s, a, b)
    BY <1>1, <1>2, <1>3 DEF DifferenceOf, CMP
  <2>2. QED
    BY <1>3, <2>1, SubAbs
<1>4. CASE m < v
  <2>1. DifferenceOf(s, a, b) = sub_abs(-s, b, a)
    <3>1. CMP(m, v) = -1 /\ CMP(m, v) # 1
      BY <1>1, <1>4 DEF CMP
    <3>2. QED
      BY <1>2, <3>1 DEF DifferenceOf
  <2>2. PICK r \in {-1, 1} : r = -s
    OBVIOUS
  <2>3. Comparable(b, a)
    BY DEF Comparable
  <2>4. Safe(sub_abs(r, b, a)) /\ (~ShintsLost(b, a, FALSE) => Good(sub_abs(r, b, a), r * (v - m), e))
    BY <1>4, <2>3, SubAbs
  <2>5. r * (v - m) = s * (m - v)
    <3>1. CASE s = 1
      BY <1>1, <2>2, <3>1
    <3>2. CASE s = -1
      BY <1>1, <2>2, <3>2
    <3>3. QED
      BY <3>1, <3>2
  <2>6. QED
    BY <2>1, <2>2, <2>4, <2>5, LostEitherWay
<1>5. CASE m = v
  <2>1. PICK p \in 0 .. FPDEC_MAX_DEC_PREC : p = MAX(a.dec_prec, b.dec_prec)
    <3>1. a.dec_prec \in 0 .. FPDEC_MAX_DEC_PREC /\ b.dec_prec \in 0 .. FPDEC_MAX_DEC_PREC
      BY DEF Operand, Decimals
    <3>2. QED
      BY <3>1, Room DEF MAX
  <2>2. DifferenceOf(s, a, b) = Ok(ResetToZero(p))
    <3>1. CMP(m, v) # 1 /\ CMP(m, v) # -1
      BY <1>1, <1>5 DEF CMP
    <3>2. QED
      BY <1>2, <2>1, <3>1 DEF DifferenceOf
  <2>3. s * (m - v) = 0
    BY <1>1, <1>5
  <2>4. Good(Ok(ResetToZero(p)), 0, e)
    <3>1. Canonical(0, e) = << 0, 0 >>
      BY CanonicalZero
    <3>2. QED
      BY <3>1, ZeroOperand DEF Good, Ok, Returns
  <2>5. QED
    BY <2>2, <2>3, <2>4, GoodIsSafe
<1>6. v < m \/ m < v \/ m = v
  BY <1>1
<1> DEFINE goal == LET o == DifferenceOf(s, a, b)
                   IN  Safe(o) /\ (~ShintsLost(a, b, FALSE) => Good(o, s * (m - v), e))
<1>7. goal
  <2> HIDE DEF goal
  <2>1. QED
    BY <1>3, <1>4, <1>5, <1>6 DEF goal
<1>8. QED
  BY <1>7

(* fpdec_neg. *)
LEMMA NegOperand ==
  ASSUME NEW a, Operand(a)
  PROVE  LET o == fpdec_neg(a)
         IN  /\ o.rc = "OK" /\ Operand(o.v) /\ Number(o.v) = Minus(Number(a))
<1> DEFINE res == [a EXCEPT !.sign = -@]
<1>1. a \in Decimals
  BY DEF Operand
<1>2. /\ res.dyn = a.dyn /\ res.normalized = a.normalized /\ res.sign = -a.sign /\ res.dec_prec = a.dec_prec
      /\ res.coeff = a.coeff /\ res.n = a.n /\ res.exp = a.exp
  BY <1>1 DEF Decimals
<1>3. a.sign \in -1 .. 1 /\ a.coeff \in Nat /\ a.dec_prec \in Nat /\ a.exp \in Int
  BY <1>1, Room DEF Decimals
<1>4. res \in Decimals
  <2>1. -a.sign \in -1 .. 1
    BY <1>3
  <2>2. QED
    BY <1>1, <2>1 DEF Decimals
<1>5. WellFormed(res)
  <2>1. WellFormed(a)
    BY DEF Operand
  <2>2. res.sign = 0 <=> a.sign = 0
    BY <1>2, <1>3
  <2> HIDE DEF res
  <2>3. QED
    BY <1>2, <2>1, <2>2 DEF WellFormed
<1> HIDE DEF res
<1>6. Number(res) = Minus(Number(a))
  <2>1. PICK k \in Int, i \in Int :
          k = a.sign * a.coeff /\ i = IF a.dyn THEN a.exp * DEC_DIGITS_PER_DIGIT ELSE -a.dec_prec
    <3>1. a.sign * a.coeff \in Int
      BY <1>3
    <3>2. a.exp * DEC_DIGITS_PER_DIGIT \in Int
      BY <1>3, Room
    <3>3. QED
      BY <1>3, <3>1, <3>2
  <2>2. res.sign * res.coeff = -k
    <3>1. ASSUME NEW t \in -1 .. 1, NEW c \in Nat PROVE (-t) * c = -(t * c)
      <4>1. t = 0 \/ t = 1 \/ t = -1
        OBVIOUS
      <4>2. QED
        BY <4>1
    <3>2. QED
      BY <1>2, <1>3, <2>1, <3>1
  <2>3. Number(a) = Canonical(k, i) /\ Number(res) = Canonical(-k, i)
    BY <1>2, <2>1, <2>2 DEF Number
  <2>4. QED
    BY <2>3, CanonicalMinus
<1>7. PrecCoversDigits(res)
  BY <1>2, <1>6 DEF Operand, PrecCoversDigits, Minus
<1>8. QED
  BY <1>4, <1>5, <1>6, <1>7 DEF res, Operand, fpdec_neg, Ok, Returns

(***************************************************************************)
(* fpdec_add and fpdec_sub. What they lose: same says that absolute values *)
(* are added.                                                              *)
(***************************************************************************)
SumLost(a, b, same) ==
  a.sign # 0 /\ b.sign # 0 /\ (ShintsLost(a, b, same) \/ CarryLost(a, b))

Exactly(o, n) == o.rc = "OK" /\ Operand(o.v) /\ Number(o.v) = n

LEMMA ExactlyIsSafe ==
  ASSUME NEW o, NEW n, Exactly(o, n)
  PROVE  Safe(o)
BY DEF Exactly, Safe, Operand

(* fpdec_add: exact, unless carry or upper bits are lost. *)
LEMMA AddOutcome ==
  ASSUME NEW a, Operand(a), NEW b, Operand(b), Comparable(a, b)
  PROVE  LET o == fpdec_add(a, b)
         IN  /\ Safe(o)
             /\ ~SumLost(a, b, a.sign = b.sign) => Exactly(o, Plus(Number(a), Number(b)))
<1>1. a.sign \in -1 .. 1 /\ b.sign \in -1 .. 1
  BY DEF Operand, Decimals
<1>2. PICK e \in Int, m \in Nat, v \in Nat :
        /\ Amount(a, e, m) /\ (a.sign = 0 => m = 0) /\ (a.sign # 0 => m # 0 /\ e =< Unit(a))
        /\ Amount(b, e, v) /\ (b.sign = 0 => v = 0) /\ (b.sign # 0 => v # 0 /\ e =< Unit(b))
  BY CommonUnit
<1>3. Plus(Number(a), Number(b)) = Canonical(a.sign * m + b.sign * v, e)
  <2>1. a.sign \in Int /\ b.sign \in Int
    BY <1>1
  <2>2. AddUp(a, b, e, m, v)
    BY <1>2, <2>1, AmountsAdd
  <2>3. QED
    BY <2>2 DEF AddUp
<1>4. PICK k \in Int : k = a.sign * m + b.sign * v
  BY <1>1
<1>5. CASE a.sign = 0
  <2>1. fpdec_add(a, b) = Ok(b)
    BY <1>5 DEF fpdec_add
  <2>2. k = b.sign * v
    BY <1>1, <1>2, <1>4, <1>5
  <2>3. Exactly(Ok(b), Plus(Number(a), Number(b)))
    BY <1>2, <1>3, <1>4, <2>2 DEF Exactly, Ok, Returns, Amount
  <2>4. QED
    BY <2>1, <2>3, ExactlyIsSafe
<1>6. CASE a.sign # 0 /\ b.sign = 0
  <2>1. fpdec_add(a, b) = Ok(a)
    BY <1>6 DEF fpdec_add
  <2>2. k = a.sign * m
    <3>1. b.sign * v = 0 /\ a.sign * m \in Int
      BY <1>1, <1>6
    <3>2. QED
      BY <1>4, <3>1
  <2>3. Exactly(Ok(a), Plus(Number(a), Number(b)))
    BY <1>2, <1>3, <1>4, <2>2 DEF Exactly, Ok, Returns, Amount
  <2>4. QED
    BY <2>1, <2>3, ExactlyIsSafe
<1>7. CASE a.sign # 0 /\ b.sign # 0 /\ a.sign = b.sign
  <2>1. fpdec_add(a, b) = add_abs(a.sign, a, b)
    BY <1>7 DEF fpdec_add
  <2>2. PICK s \in {-1, 1} : s = a.sign
    BY <1>1, <1>7
  <2>3. LET o == add_abs(s, a, b)
        IN  Safe(o) /\ (~ShintsLost(a, b, TRUE) /\ ~CarryLost(a, b) => Good(o, s * (m + v), e))
    BY <1>2, <1>7, AddAbs
  <2>4. s * (m + v) = k
    BY <1>4, <1>7, <2>2, Distributes
  <2>5. QED
    BY <1>3, <1>4, <1>7, <2>1, <2>2, <2>3, <2>4 DEF SumLost, Good, Exactly
<1>8. CASE a.sign # 0 /\ b.sign # 0 /\ a.sign # b.sign
  <2>1. fpdec_add(a, b) = DifferenceOf(a.sign, a, b)
    BY <1>8 DEF fpdec_add
  <2>2. PICK s \in {-1, 1} : s = a.sign /\ b.sign = -s
    BY <1>1, <1>8
  <2>3. LET o == DifferenceOf(s, a, b)
        IN  Safe(o) /\ (~ShintsLost(a, b, FALSE) => Good(o, s * (m - v), e))
    BY <1>2, <1>8, Difference
  <2>4. s * (m - v) = k
    <3>1. (-s) * v = -(s * v)
      <4>1. s = 1 \/ s = -1
        OBVIOUS
      <4>2. QED
        BY <4>1
    <3>2. s * (m - v) = s * m - s * v
      BY Distributes
    <3>3. s * m \in Int /\ s * v \in Int
      OBVIOUS
    <3>4. QED
      BY <1>4, <2>2, <3>1, <3>2, <3>3
  <2>5. QED
    BY <1>3, <1>4, <1>8, <2>1, <2>2, <2>3, <2>4 DEF SumLost, Good, Exactly
<1>9. QED
  BY <1>5, <1>6, <1>7, <1>8

(* fpdec_sub: exact, unless carry or upper bits are lost. *)
LEMMA SubOutcome ==
  ASSUME NEW a, Operand(a), NEW b, Operand(b), Comparable(a, b)
  PROVE  LET o == fpdec_sub(a, b)
         IN  /\ Safe(o)
             /\ ~SumLost(a, b, a.sign # b.sign) => Exactly(o, Plus(Number(a), Minus(Number(b))))
<1>1. a.sign \in -1 .. 1 /\ b.sign \in -1 .. 1
  BY DEF Operand, Decimals
<1>2. PICK e \in Int, m \in Nat, v \in Nat :
        /\ Amount(a, e, m) /\ (a.sign = 0 => m = 0) /\ (a.sign # 0 => m # 0 /\ e =< Unit(a))
        /\ Amount(b, e, v) /\ (b.sign = 0 => v = 0) /\ (b.sign # 0 => v # 0 /\ e =< Unit(b))
  BY CommonUnit
<1>3. Plus(Number(a), Minus(Number(b))) = Canonical(a.sign * m - b.sign * v, e)
  <2>1. a.sign \in Int /\ b.sign \in Int
    BY <1>1
  <2>2. AddUp(a, b, e, m, v)
    BY <1>2, <2>1, AmountsAdd
  <2>3. QED
    BY <2>2 DEF AddUp
<1>4. PICK k \in Int : k = a.sign * m - b.sign * v
  BY <1>1
<1>5. CASE a.sign = 0
  <2>1. fpdec_sub(a, b) = fpdec_neg(b)
    BY <1>5 DEF fpdec_sub
  <2>2. PICK w \in Int : w = b.sign * v
    BY <1>1
  <2>3. k = -w
    BY <1>1, <1>2, <1>4, <1>5, <2>2
  <2>4. Minus(Number(b)) = Canonical(k, e)
    <3>1. Number(b) = Canonical(w, e)
      BY <1>2, <2>2 DEF Amount
    <3>2. QED
      BY <2>3, <3>1, CanonicalMinus
  <2>5. Exactly(fpdec_neg(b), Plus(Number(a), Minus(Number(b))))
    <3>1. Exactly(fpdec_neg(b), Minus(Number(b)))
      BY NegOperand DEF Exactly
    <3>2. QED
      BY <1>3, <1>4, <2>4, <3>1
  <2>6. QED
    BY <2>1, <2>5, ExactlyIsSafe
<1>6. CASE a.sign # 0 /\ b.sign = 0
  <2>1. fpdec_sub(a, b) = Ok(a)
    BY <1>6 DEF fpdec_sub
  <2>2. k = a.sign * m
    <3>1. b.sign * v = 0 /\ a.sign * m \in Int
      BY <1>1, <1>6
    <3>2. QED
      BY <1>4, <3>1
  <2>3. Exactly(Ok(a), Plus(Number(a), Minus(Number(b))))
    BY <1>2, <1>3, <1>4, <2>2 DEF Exactly, Ok, Returns, Amount
  <2>4. QED
    BY <2>1, <2>3, ExactlyIsSafe
<1>7. CASE a.sign # 0 /\ b.sign # 0 /\ a.sign # b.sign
  <2>1. fpdec_sub(a, b) = add_abs(a.sign, a, b)
    BY <1>7 DEF fpdec_sub
  <2>2. PICK s \in {-1, 1} : s = a.sign /\ b.sign = -s
    BY <1>1, <1>7
  <2>3. LET o == add_abs(s, a, b)
        IN  Safe(o) /\ (~ShintsLost(a, b, TRUE) /\ ~CarryLost(a, b) => Good(o, s * (m + v), e))
    BY <1>2, <1>7, AddAbs
  <2>4. s * (m + v) = k
    <3>1. (-s) * v = -(s * v)
      <4>1. s = 1 \/ s = -1
        OBVIOUS
      <4>2. QED
        BY <4>1
    <3>2. s * (m + v) = s * m + s * v
      BY Distributes
    <3>3. s * m \in Int /\ s * v \in Int
      OBVIOUS
    <3>4. QED
      BY <1>4, <2>2, <3>1, <3>2, <3>3
  <2>5. QED
    BY <1>3, <1>4, <1>7, <2>1, <2>2, <2>3, <2>4 DEF SumLost, Good, Exactly
<1>8. CASE a.sign # 0 /\ b.sign # 0 /\ a.sign = b.sign
  <2>1. fpdec_sub(a, b) = DifferenceOf(a.sign, a, b)
    BY <1>8 DEF fpdec_sub
  <2>2. PICK s \in {-1, 1} : s = a.sign
    BY <1>1, <1>8
  <2>3. LET o == DifferenceOf(s, a, b)
        IN  Safe(o) /\ (~ShintsLost(a, b, FALSE) => Good(o, s * (m - v), e))
    BY <1>2, <1>8, Difference
  <2>4. s * (m - v) = k
    BY <1>4, <1>8, <2>2, Distributes
  <2>5. QED
    BY <1>3, <1>4, <1>8, <2>1, <2>2, <2>3, <2>4 DEF SumLost, Good, Exactly
<1>9. QED
  BY <1>5, <1>6, <1>7, <1>8

-----------------------------------------------------------------------------
(***************************************************************************)
(* fpdec_mul. The precision of a product wraps around iff the sum is less  *)
(* than a summand.                                                         *)
(***************************************************************************)
LEMMA PrecSum ==
  ASSUME NEW p \in 0 .. FPDEC_MAX_DEC_PREC, NEW q \in 0 .. FPDEC_MAX_DEC_PREC
  PROVE  /\ AsDecPrec(p + q) \in 0 .. FPDEC_MAX_DEC_PREC
         /\ AsDecPrec(p + q) < p \/ AsDecPrec(p + q) = p + q
<1>1. PICK n \in Nat \ {0} : n = FPDEC_MAX_DEC_PREC + 1
  BY Room
<1>2. p + q \in Int /\ p \in Nat /\ q \in Nat /\ p < n /\ q < n
  BY <1>1, Room
<1>3. AsDecPrec(p + q) \in 0 .. FPDEC_MAX_DEC_PREC
  BY <1>2, AsDecPrecFacts
<1>4. CASE p + q < n
  BY <1>1, <1>2, <1>3, <1>4, AsDecPrecFacts, Room
<1>5. CASE p + q >= n
  <2>1. PICK t \in Nat : t = p + q
    BY <1>2
  <2>2. t >= n /\ t < 2 * n
    BY <1>2, <1>5, <2>1
  <2>3. t % n = t - n
    <3>1. t - n \in 0 .. n - 1
      BY <2>2
    <3>2. t = 1 * n + (t - n)
      OBVIOUS
    <3>3. QED
      BY <2>2, <3>1, <3>2, Z3
  <2>4. AsDecPrec(p + q) = t - n
    BY <1>1, <2>1, <2>3 DEF AsDecPrec
  <2>5. QED
    BY <1>2, <1>3, <2>1, <2>4
<1>6. QED
  BY <1>2, <1>4, <1>5

(* u128_imul_u64 gives the product or signals the overflow; or neither. *)
LEMMA Imul ==
  ASSUME NEW v \in Nat, NEW w \in Nat, u128_imul_u64(v, w) < SHINT_LIMIT
  PROVE  /\ u128_imul_u64(v, w) \in Nat
         /\ (v \div U64) * w < U64
         /\ v * w < U128 => u128_imul_u64(v, w) = v * w
<1>1. PICK n \in Nat \ {0}, h \in Nat, u \in Nat \ {0} : n = U64 /\ h = v \div n /\ u = U128
  <2>1. U64 \in Nat \ {0} /\ U128 \in Nat \ {0}
    <3>1. U64 \in Nat \ {0} /\ U128 \in Nat /\ SHINT_LIMIT < U128 /\ SHINT_LIMIT \in Nat
      BY Words128, Limits
    <3>2. QED
      BY <3>1
  <2>2. v \div U64 \in Nat
    BY <2>1, Z3
  <2>3. QED
    BY <2>1, <2>2
<1>2. h * w < n
  <2>1. SUFFICES ASSUME ~(h * w < n) PROVE FALSE
    OBVIOUS
  <2>2. h * w >= n
    <3>1. h * w \in Nat
      OBVIOUS
    <3>2. QED
      BY <2>1, <3>1
  <2>3. u128_imul_u64(v, w) = u - 1
    BY <1>1, <2>2 DEF u128_imul_u64
  <2>4. QED
    BY <1>1, <2>3, Words128, Limits
<1>3. PICK k \in Nat : k = v * w
  OBVIOUS
<1>4. u128_imul_u64(v, w) = k % u
  <2>1. ~(h * w >= n)
    <3>1. h * w \in Nat
      OBVIOUS
    <3>2. QED
      BY <1>2, <3>1
  <2>2. QED
    BY <1>1, <1>3, <2>1 DEF u128_imul_u64
<1>5. k % u \in Nat /\ (k < u => k % u = k)
  BY Z3
<1>6. QED
  BY <1>1, <1>2, <1>3, <1>4, <1>5

(* The product in the two forms of the operands. *)
LEMMA SignedProduct ==
  ASSUME NEW r \in {-1, 1}, NEW s \in {-1, 1}, NEW v \in Nat, NEW w \in Nat
  PROVE  /\ r * s \in {-1, 1}
         /\ (r * v) * (s * w) = (r * s) * (v * w)
<1>1. (r = 1 \/ r = -1) /\ (s = 1 \/ s = -1)
  OBVIOUS
<1>2. v * w \in Nat /\ (-v) * w = -(v * w) /\ v * (-w) = -(v * w) /\ (-v) * (-w) = v * w
  OBVIOUS
<1>3. CASE r = 1 /\ s = 1
  BY <1>2, <1>3
<1>4. CASE r = 1 /\ s = -1
  <2>1. r * v = v /\ s * w = -w /\ r * s = -1
    BY <1>4
  <2>2. QED
    BY <1>2, <2>1
<1>5. CASE r = -1 /\ s = 1
  <2>1. r * v = -v /\ s * w = w /\ r * s = -1
    BY <1>5
  <2>2. QED
    BY <1>2, <2>1
<1>6. CASE r = -1 /\ s = -1
  <2>1. r * v = -v /\ s * w = -w /\ r * s = 1
    BY <1>6
  <2>2. QED
    BY <1>2, <2>1
<1>7. QED
  BY <1>1, <1>3, <1>4, <1>5, <1>6

ProductIs(x1, y1, r, s, v, w, i, j) ==
  Times(x1, y1) = Canonical((r * s) * (v * w), i + j)

LEMMA ProductOf ==
  ASSUME NEW r \in {-1, 1}, NEW s \in {-1, 1}, NEW v \in Nat, NEW w \in Nat,
         NEW i \in Int, NEW j \in Int, NEW x1, x1 = Canonical(r * v, i), NEW y1, y1 = Canonical(s * w, j)
  PROVE  ProductIs(x1, y1, r, s, v, w, i, j)
<1>1. PICK m \in Int, n \in Int : m = r * v /\ n = s * w
  OBVIOUS
<1>2. Times(Canonical(m, i), Canonical(n, j)) = Canonical(m * n, i + j)
  BY CanonicalTimes
<1>3. m * n = (r * s) * (v * w)
  BY <1>1, SignedProduct
<1>4. QED
  BY <1>1, <1>2, <1>3 DEF ProductIs

(* A product is covered by the sum of the precisions. *)
LEMMA CoveredProduct ==
  ASSUME NEW m \in Int, NEW i \in Int, NEW n \in Int, NEW j \in Int, NEW f \in Int, NEW g \in Int,
         f =< 0, g =< 0, Canonical(m, i)[2] >= f, Canonical(n, j)[2] >= g
  PROVE  Times(Canonical(m, i), Canonical(n, j))[2] >= f + g
<1>1. PICK w \in Int : Canonical(m, i) = Canonical(w, f)
  BY CoveredMultiple
<1>2. PICK u \in Int : Canonical(n, j) = Canonical(u, g)
  BY CoveredMultiple
<1>3. Times(Canonical(w, f), Canonical(u, g)) = Canonical(w * u, f + g)
  BY CanonicalTimes
<1>4. PICK k \in Int, h \in Int : k = w * u /\ h = f + g /\ h =< 0 /\ h =< h
  OBVIOUS
<1>5. Canonical(k, h)[2] >= h
  BY <1>4, CanonicalCovered
<1>6. QED
  BY <1>1, <1>2, <1>3, <1>4, <1>5

LEMMA ProductRange ==
  ASSUME NEW v \in Nat, NEW k \in Nat, v < Weight(k), NEW w \in Nat, NEW l \in Nat, w < Weight(l)
  PROVE  v * w \in Nat /\ v * w < Weight(k + l)
<1>1. k + l \in Nat /\ k =< k + l /\ (k + l) - k = l
  OBVIOUS
<1>2. Weight(k + l) = Weight(k) * Weight((k + l) - k)
  BY <1>1, WeightSplit
<1>3. PICK p \in Nat \ {0}, q \in Nat \ {0} : p = Weight(k) /\ q = Weight(l)
  BY WeightFacts
<1>4. v * w =< v * q /\ v * q < p * q
  <2>1. w =< q
    BY <1>3
  <2>2. v * w =< v * q
    BY <2>1
  <2>3. v < p
    BY <1>3
  <2>4. v * q < p * q
    BY <2>3
  <2>5. QED
    BY <2>2, <2>4
<1>5. v * w \in Nat /\ v * q \in Nat /\ p * q \in Nat
  OBVIOUS
<1>6. QED
  BY <1>1, <1>2, <1>3, <1>4, <1>5

(* Two shifted ints multiplied within 128 bits. *)
LEMMA MulShints ==
  ASSUME NEW a, Operand(a), a.sign # 0, ~a.dyn, NEW b, Operand(b), b.sign # 0, ~b.dyn,
         NEW s \in {-1, 1}, NEW p \in 0 .. MAX_DEC_PREC_FOR_SHINT, p = a.dec_prec + b.dec_prec,
         u128_imul_u64(a.coeff, b.coeff) < SHINT_LIMIT
  PROVE  LET o == Ok(Shint(s, p, u128_imul_u64(a.coeff, b.coeff)))
         IN  /\ Safe(o) /\ o.rc = "OK"
             /\ a.coeff * b.coeff < U128 => Good(o, s * (a.coeff * b.coeff), -p)
<1>1. PICK v \in Nat \ {0}, w \in Nat \ {0} : v = a.coeff /\ w = b.coeff
  BY DEF Operand, WellFormed, Decimals
<1>2. PICK u : u = u128_imul_u64(v, w)
  OBVIOUS
<1>3. u \in Nat /\ u < SHINT_LIMIT /\ (v * w < U128 => u = v * w)
  BY <1>1, <1>2, Imul
<1>4. u % SHINT_LIMIT = u
  <2>1. PICK l \in Nat \ {0} : l = SHINT_LIMIT
    BY Limits
  <2>2. u < l => u % l = u
    BY <1>3, Z3
  <2>3. QED
    BY <1>3, <2>1, <2>2
<1>5. /\ Safe(Ok(Shint(s, p, u % SHINT_LIMIT)))
      /\ u # 0 /\ u < SHINT_LIMIT => Good(Ok(Shint(s, p, u % SHINT_LIMIT)), s * u, -p)
  BY <1>3, StoredShint
<1>6. v * w # 0
  BY <1>1
<1>7. Ok(Shint(s, p, u)).rc = "OK"
  BY DEF Ok, Returns
<1>8. QED
  BY <1>1, <1>2, <1>3, <1>4, <1>5, <1>6, <1>7

(***************************************************************************)
(* Digits multiplied: exact unless the exponent wraps around.              *)
(***************************************************************************)
Multiplies(a, b) == (DigitsOf(a).n + DigitsOf(b).n + 1) * DEC_DIGITS_PER_DIGIT =< FPDEC_MAX_EXP

WrapsInProduct(a, b) ==
  LET c == DigitsOf(a)
      d == DigitsOf(b)
      product == c.coeff * d.coeff
      exp == c.exp + d.exp
  IN  /\ exp =< FPDEC_MAX_EXP
      /\ exp + TrailingZeroDigits(product, DigitCount[product]) > FPDEC_MAX_EXP

(* An outcome in the types, which is right if it is not a failure. *)
Right(o, n) == Safe(o) /\ o.rc # "ABORT" /\ (o.rc = "OK" => Exactly(o, n))

(* fpdec_dyn_normalize of a product keeps its number. *)
LEMMA NormalizedProduct ==
  ASSUME NEW s \in {-1, 1}, NEW p \in 0 .. FPDEC_MAX_DEC_PREC,
         NEW v \in Nat \ {0}, NEW k \in Nat, NEW e \in INT32_MIN .. FPDEC_MAX_EXP, NEW n \in Nat,
         v < Weight(k), (k + 1) * DEC_DIGITS_PER_DIGIT =< FPDEC_MAX_EXP,
         Canonical(s * v, Place(e))[2] >= -p,
         e + TrailingZeroDigits(v, DigitCount[v]) =< FPDEC_MAX_EXP
  PROVE  Good(fpdec_dyn_normalize(Dyn(s, p, v, n, e)), s * v, Place(e))
<1>1. PICK i \in Int : i = e
  BY Room
<1>2. PICK l \in Nat : l = DigitCount[v] /\ l =< k
  <2>1. DigitCount[v] =< k
    BY DigitCountBounds
  <2>2. DigitCount[v] \in Nat
    BY DigitCountRange
  <2>3. QED
    BY <2>1, <2>2
<1>3. i =< 1 => Place(l + i) =< FPDEC_MAX_EXP
  <2>1. SUFFICES ASSUME i =< 1 PROVE Place(l + i) =< FPDEC_MAX_EXP
    OBVIOUS
  <2>2. l + i =< k + 1 /\ l + i \in Int /\ k + 1 \in Int
    BY <1>2, <2>1
  <2>3. Place(l + i) =< Place(k + 1) /\ Place(l + i) \in Int /\ Place(k + 1) \in Int
    BY <2>2, PlaceFacts
  <2>4. Place(k + 1) =< FPDEC_MAX_EXP
    BY DEF Place
  <2>5. QED
    BY <2>3, <2>4, Room
<1> DEFINE res == Dyn(s, p, v, n, e)
<1>4. res.sign = s /\ res.dec_prec = p /\ res.coeff = v /\ res.exp = e
  BY DEF Dyn
<1>5. LET o == fpdec_dyn_normalize(res)
      IN  /\ o.rc = "OK" /\ Operand(o.v)
          /\ Number(o.v) = Canonical(res.sign * res.coeff, Place(res.exp))
  BY <1>1, <1>2, <1>3, <1>4, Normalized
<1>6. QED
  BY <1>4, <1>5 DEF Good

LEMMA FailedLimit ==
  ASSUME NEW rc \in {"EXP_LIMIT_EXCEEDED", "PREC_LIMIT_EXCEEDED"}, NEW s \in {-1, 1},
         NEW p \in 0 .. FPDEC_MAX_DEC_PREC, NEW n
  PROVE  Right(Returns(rc, Shint(s, p, 0)), n)
<1> DEFINE res == Shint(s, p, 0)
<1>1. res.dyn = FALSE /\ res.sign = s /\ res.dec_prec = p /\ res.coeff = 0
  BY DEF Shint
<1>2. res \in Decimals
  <2>1. 0 \in INT32_MIN .. FPDEC_MAX_EXP /\ s \in -1 .. 1
    BY Room
  <2>2. QED
    BY <2>1 DEF Shint, Decimals
<1>3. PrecCoversDigits(res)
  <2>1. Number(res) = << 0, 0 >>
    <3>1. s * 0 = 0
      OBVIOUS
    <3>2. QED
      BY <1>1, <3>1, CanonicalZero DEF Number
  <2>2. QED
    BY <1>1, <2>1 DEF PrecCoversDigits
<1>4. rc # "OK" /\ rc # "ABORT"
  OBVIOUS
<1>5. QED
  BY <1>2, <1>3, <1>4 DEF Right, Safe, Returns

(* The product of two digit arrays. *)
LEMMA MulDyns ==
  ASSUME NEW a, Operand(a), a.sign # 0, NEW b, Operand(b), b.sign # 0, Multiplies(a, b),
         NEW s \in {-1, 1}, s = a.sign * b.sign,
         NEW p \in 0 .. FPDEC_MAX_DEC_PREC, p = a.dec_prec + b.dec_prec
  PROVE  LET o == mul_abs_dyn_by_dyn(s, p, AsDyn(a), AsDyn(b))
         IN  /\ o.v \in Decimals
             /\ ~WrapsInProduct(a, b) => Right(o, Times(Number(a), Number(b)))
<1>1. PICK c, d : c = DigitsOf(a) /\ d = DigitsOf(b)
  OBVIOUS
<1>2. /\ Stripped(c) /\ c.exp \in INT32_MIN .. FPDEC_MAX_EXP
      /\ Number(a) = Canonical(a.sign * c.coeff, Place(c.exp))
      /\ Stripped(d) /\ d.exp \in INT32_MIN .. FPDEC_MAX_EXP
      /\ Number(b) = Canonical(b.sign * d.coeff, Place(d.exp))
  BY <1>1, OperandDigits DEF Place
<1>3. PICK q \in {-1, 1}, r \in {-1, 1} : q = a.sign /\ r = b.sign
  BY DEF Operand, Decimals
<1>4. PICK v \in Nat \ {0}, w \in Nat \ {0} : v = c.coeff /\ w = d.coeff
  BY <1>2 DEF Stripped
<1>5. PICK i \in Int, j \in Int : i = c.exp /\ j = d.exp
  BY <1>2, Room
<1>6. PICK m \in Nat, n \in Nat : m = c.n /\ n = d.n
  BY <1>2 DEF Stripped
<1>7. PICK u \in Nat \ {0} : u = v * w
  BY <1>4
<1>8. u < Weight(m + n)
  BY <1>2, <1>4, <1>6, <1>7, ProductRange DEF Stripped
<1>9. Times(Number(a), Number(b)) = Canonical(s * u, Place(i + j))
  <2>1. Place(i) \in Int /\ Place(j) \in Int /\ Place(i + j) = Place(i) + Place(j)
    BY PlaceFacts
  <2>2. ProductIs(Number(a), Number(b), q, r, v, w, Place(i), Place(j))
    BY <1>2, <1>3, <1>4, <1>5, <2>1, ProductOf
  <2>3. QED
    BY <1>3, <1>7, <2>1, <2>2 DEF ProductIs
<1>10. Times(Number(a), Number(b))[2] >= -p
  <2>1. PICK f \in Int, g \in Int : f = -a.dec_prec /\ g = -b.dec_prec /\ f =< 0 /\ g =< 0
    BY Room DEF Operand, Decimals
  <2>2. PICK k \in Int, l \in Int : k = q * v /\ l = r * w
    BY <1>4
  <2>3. Number(a) = Canonical(k, Place(i)) /\ Number(b) = Canonical(l, Place(j))
    BY <1>2, <1>3, <1>4, <1>5, <2>2
  <2>4. Number(a)[2] >= f /\ Number(b)[2] >= g
    BY <2>1 DEF Operand, PrecCoversDigits
  <2>5. Place(i) \in Int /\ Place(j) \in Int
    BY PlaceFacts
  <2>6. Times(Number(a), Number(b))[2] >= f + g
    BY <2>1, <2>3, <2>4, <2>5, CoveredProduct
  <2>7. f + g = -p
    BY <2>1, Room DEF Operand, Decimals
  <2>8. QED
    BY <2>6, <2>7
<1>11. PICK k : k = m + n
  OBVIOUS
<1>12. mul_abs_dyn_by_dyn(s, p, AsDyn(a), AsDyn(b)) =
         IF i + j > FPDEC_MAX_EXP \/ i + j < INT32_MIN
         THEN Returns("EXP_LIMIT_EXCEEDED", Shint(s, p, 0))
         ELSE fpdec_dyn_normalize(Dyn(s, p, u, k, i + j))
  BY <1>1, <1>4, <1>5, <1>6, <1>7, <1>11 DEF mul_abs_dyn_by_dyn, AsDyn, Dyn
<1>13. CASE i + j > FPDEC_MAX_EXP \/ i + j < INT32_MIN
  <2>1. Right(Returns("EXP_LIMIT_EXCEEDED", Shint(s, p, 0)), Times(Number(a), Number(b)))
    BY FailedLimit
  <2>2. QED
    BY <1>12, <1>13, <2>1 DEF Right, Safe
<1>14. CASE ~(i + j > FPDEC_MAX_EXP \/ i + j < INT32_MIN)
  <2>1. PICK e \in INT32_MIN .. FPDEC_MAX_EXP : e = i + j
    BY <1>14, Room
  <2>2. fpdec_dyn_normalize(Dyn(s, p, u, k, e)).v \in Decimals
    <3>1. LET res == Dyn(s, p, u, k, e)
          IN  res.coeff \in Nat /\ res.exp \in Int /\ res.sign \in -1 .. 1
              /\ res.dec_prec \in 0 .. FPDEC_MAX_DEC_PREC
      BY <2>1, Room DEF Dyn
    <3>2. QED
      BY <3>1, NormalizedType
  <2>3. ASSUME ~WrapsInProduct(a, b)
        PROVE  Good(fpdec_dyn_normalize(Dyn(s, p, u, k, e)), s * u, Place(e))
    <3>1. e + TrailingZeroDigits(u, DigitCount[u]) =< FPDEC_MAX_EXP
      <4>1. ~(e + TrailingZeroDigits(u, DigitCount[u]) > FPDEC_MAX_EXP)
        <5>1. e =< FPDEC_MAX_EXP
          BY <2>1
        <5>2. QED
          BY <1>1, <1>4, <1>5, <1>7, <2>1, <2>3, <5>1 DEF WrapsInProduct
      <4>2. TrailingZeroDigits(u, DigitCount[u]) \in Int
        <5>1. TrailingZeroDigits(u, DigitCount[u]) \in 0 .. DigitCount[u] - 1
          BY StrippedZeros
        <5>2. DigitCount[u] \in Nat
          BY DigitCountRange
        <5>3. QED
          BY <5>1, <5>2
      <4>3. e \in Int
        BY <2>1
      <4>4. QED
        BY <4>1, <4>2, <4>3, Room
    <3>2. k \in Nat /\ u < Weight(k)
      BY <1>8, <1>11
    <3>3. (k + 1) * DEC_DIGITS_PER_DIGIT =< FPDEC_MAX_EXP
      BY <1>1, <1>6, <1>11 DEF Multiplies
    <3>4. Canonical(s * u, Place(e))[2] >= -p
      BY <1>9, <1>10, <2>1
    <3>5. QED
      BY <3>1, <3>2, <3>3, <3>4, NormalizedProduct
  <2>4. ASSUME ~WrapsInProduct(a, b)
        PROVE  Right(fpdec_dyn_normalize(Dyn(s, p, u, k, e)), Times(Number(a), Number(b)))
    BY <1>9, <2>1, <2>3, <2>4, GoodIsSafe DEF Right, Good, Exactly
  <2>5. QED
    BY <1>12, <1>14, <2>1, <2>2, <2>4
<1>15. QED
  BY <1>13, <1>14

(* The product of two shifted ints as a shifted int. *)
LEMMA ShintProduct ==
  ASSUME NEW a, Operand(a), a.sign # 0, ~a.dyn, NEW b, Operand(b), b.sign # 0, ~b.dyn,
         NEW s, s = a.sign * b.sign, NEW p, p = a.dec_prec + b.dec_prec
  PROVE  Times(Number(a), Number(b)) = Canonical(s * (a.coeff * b.coeff), -p)
<1>1. PICK q \in {-1, 1}, r \in {-1, 1} : q = a.sign /\ r = b.sign
  BY DEF Operand, Decimals
<1>2. PICK v \in Nat, w \in Nat : v = a.coeff /\ w = b.coeff
  BY DEF Operand, Decimals
<1>3. PICK i \in Int, j \in Int : i = -a.dec_prec /\ j = -b.dec_prec /\ i + j = -p
  BY Room DEF Operand, Decimals
<1>4. Number(a) = Canonical(q * v, i) /\ Number(b) = Canonical(r * w, j)
  BY <1>1, <1>2, <1>3 DEF Number
<1>5. ProductIs(Number(a), Number(b), q, r, v, w, i, j)
  BY <1>4, ProductOf
<1>6. QED
  BY <1>1, <1>2, <1>3, <1>5 DEF ProductIs

(***************************************************************************)
(* fpdec_mul.                                                              *)
(***************************************************************************)
Wrapped(a, b) == a.sign # 0 /\ b.sign # 0 /\ WrapsInProduct(a, b)

(* fpdec_mul: exact or refused, unless it overflows or wraps. *)
LEMMA MulOutcome ==
  ASSUME NEW a, Operand(a), NEW b, Operand(b), a.sign # 0 /\ b.sign # 0 => Multiplies(a, b)
  PROVE  LET o == fpdec_mul(a, b)
         IN  /\ o.v \in Decimals
             /\ ~Wrapped(a, b) => Safe(o) /\ o.rc # "ABORT"
             /\ ~Wrapped(a, b) /\ ~Overflows(a, b) /\ ~Overflows(b, a) =>
                  Right(o, Times(Number(a), Number(b)))
<1> DEFINE o == fpdec_mul(a, b)
           n == Times(Number(a), Number(b))
<1>1. /\ a.sign \in -1 .. 1 /\ b.sign \in -1 .. 1
      /\ a.dec_prec \in 0 .. FPDEC_MAX_DEC_PREC /\ b.dec_prec \in 0 .. FPDEC_MAX_DEC_PREC
      /\ a.coeff \in Nat /\ b.coeff \in Nat
  BY DEF Operand, Decimals
<1>2. CASE a.sign = 0 \/ b.sign = 0
  <2>1. o = Ok(FPDEC_ZERO)
    BY <1>2 DEF fpdec_mul
  <2>2. Operand(FPDEC_ZERO) /\ Number(FPDEC_ZERO) = << 0, 0 >>
    <3>1. 0 \in 0 .. FPDEC_MAX_DEC_PREC
      BY Room
    <3>2. QED
      BY <3>1, ZeroOperand DEF FPDEC_ZERO, ResetToZero
  <2>3. n = << 0, 0 >>
    <3>1. Number(a)[1] * Number(b)[1] = 0
      <4>1. PICK k \in Int, l \in Int : Number(a)[1] = k /\ Number(b)[1] = l /\ (k = 0 \/ l = 0)
        <5>1. PICK e \in Int, m \in Nat, v \in Nat : Amount(a, e, m) /\ Amount(b, e, v)
          BY CommonUnit
        <5>2. PICK p \in Int, q \in Int : p = a.sign * m /\ q = b.sign * v
          BY <1>1
        <5>3. Number(a) = Canonical(p, e) /\ Number(b) = Canonical(q, e)
          BY <5>1, <5>2 DEF Amount
        <5>4. Number(a)[1] \in Int /\ Number(b)[1] \in Int
          BY <5>3, CanonicalSign
        <5>5. (a.sign = 0 => Number(a)[1] = 0) /\ (b.sign = 0 => Number(b)[1] = 0)
          BY ZeroNumber
        <5>6. QED
          BY <1>2, <5>4, <5>5
      <4>2. k * l = 0
        BY <4>1
      <4>3. QED
        BY <4>1, <4>2
    <3>2. QED
      BY <3>1, CanonicalZero DEF Times
  <2>4. Exactly(o, n) /\ o.rc # "ABORT"
    BY <2>1, <2>2, <2>3 DEF Exactly, Ok, Returns
  <2>5. QED
    BY <2>4, ExactlyIsSafe DEF Right, Safe
<1>3. CASE a.sign # 0 /\ b.sign # 0
  <2>1. PICK s \in {-1, 1} : s = a.sign * b.sign
    <3>1. PICK q \in {-1, 1}, r \in {-1, 1} : q = a.sign /\ r = b.sign
      BY <1>1, <1>3
    <3>2. 1 \in Nat /\ q * r \in {-1, 1}
      BY SignedProduct
    <3>3. QED
      BY <3>1, <3>2
  <2>2. PICK p \in 0 .. FPDEC_MAX_DEC_PREC : p = AsDecPrec(a.dec_prec + b.dec_prec)
    BY <1>1, PrecSum
  <2>3. p < a.dec_prec \/ p = a.dec_prec + b.dec_prec
    BY <1>1, <2>2, PrecSum
  <2>4. Convertible(a) /\ Convertible(b)
    BY <1>3, OperandConvertible
  <2> DEFINE shints == ~a.dyn /\ ~b.dyn /\ p =< MAX_DEC_PREC_FOR_SHINT
             first == shints /\ MulByU64Fits(b, a)
             second == shints /\ MulByU64Fits(a, b)
  <2>5. o = IF p < a.dec_prec
            THEN Returns("PREC_LIMIT_EXCEEDED", Shint(s, p, 0))
            ELSE IF first THEN Ok(Shint(s, p, u128_imul_u64(b.coeff, a.coeff)))
            ELSE IF second THEN Ok(Shint(s, p, u128_imul_u64(a.coeff, b.coeff)))
            ELSE mul_abs_dyn_by_dyn(s, p, AsDyn(a), AsDyn(b))
    BY <1>3, <2>1, <2>2, <2>4 DEF fpdec_mul, Asserting
  <2> HIDE DEF o, n
  <2>6. CASE p < a.dec_prec
    <3>1. Right(o, n)
      BY <2>5, <2>6, FailedLimit
    <3>2. QED
      BY <3>1 DEF Right, Safe, o, n
  <2>7. CASE ~(p < a.dec_prec) /\ first
    <3>1. /\ Safe(o) /\ o.rc = "OK"
          /\ b.coeff * a.coeff < U128 => Good(o, s * (b.coeff * a.coeff), -p)
      <4>1. p \in 0 .. MAX_DEC_PREC_FOR_SHINT /\ p = b.dec_prec + a.dec_prec
        BY <1>1, <2>2, <2>3, <2>7, Room
      <4>2. u128_imul_u64(b.coeff, a.coeff) < SHINT_LIMIT
        BY <2>7 DEF MulByU64Fits
      <4>3. o = Ok(Shint(s, p, u128_imul_u64(b.coeff, a.coeff)))
        BY <2>5, <2>7
      <4>4. QED
        BY <1>3, <2>7, <4>1, <4>2, <4>3, MulShints
    <3>2. ASSUME ~Overflows(b, a) PROVE b.coeff * a.coeff < U128
      <4>1. a.coeff < U64 /\ (b.coeff \div U64) * a.coeff < U64
        BY <1>1, <2>7, Imul DEF MulByU64Fits
      <4>2. ~(b.coeff * a.coeff >= U128)
        BY <2>7, <3>2, <4>1 DEF Overflows
      <4>3. b.coeff * a.coeff \in Nat
        BY <1>1
      <4>4. QED
        BY <4>2, <4>3, Words128
    <3>3. s * (b.coeff * a.coeff) = s * (a.coeff * b.coeff)
      BY <1>1
    <3>4. ASSUME ~Overflows(b, a) PROVE Good(o, s * (a.coeff * b.coeff), -p)
      BY <3>1, <3>2, <3>3, <3>4
    <3>5. n = Canonical(s * (a.coeff * b.coeff), -p)
      BY <1>3, <2>1, <2>2, <2>3, <2>7, ShintProduct DEF n
    <3>6. QED
      BY <3>1, <3>4, <3>5 DEF Right, Good, Exactly, Safe, o, n
  <2>8. CASE ~(p < a.dec_prec) /\ ~first /\ second
    <3>1. /\ Safe(o) /\ o.rc = "OK"
          /\ a.coeff * b.coeff < U128 => Good(o, s * (a.coeff * b.coeff), -p)
      <4>1. p \in 0 .. MAX_DEC_PREC_FOR_SHINT /\ p = a.dec_prec + b.dec_prec
        BY <1>1, <2>2, <2>3, <2>8, Room
      <4>2. u128_imul_u64(a.coeff, b.coeff) < SHINT_LIMIT
        BY <2>8 DEF MulByU64Fits
      <4>3. o = Ok(Shint(s, p, u128_imul_u64(a.coeff, b.coeff)))
        BY <2>5, <2>8
      <4>4. QED
        BY <1>3, <2>8, <4>1, <4>2, <4>3, MulShints
    <3>2. ASSUME ~Overflows(a, b) PROVE a.coeff * b.coeff < U128
      <4>1. b.coeff < U64 /\ (a.coeff \div U64) * b.coeff < U64
        BY <1>1, <2>8, Imul DEF MulByU64Fits
      <4>2. ~(a.coeff * b.coeff >= U128)
        BY <2>8, <3>2, <4>1 DEF Overflows
      <4>3. a.coeff * b.coeff \in Nat
        BY <1>1
      <4>4. QED
        BY <4>2, <4>3, Words128
    <3>3. ASSUME ~Overflows(a, b) PROVE Good(o, s * (a.coeff * b.coeff), -p)
      BY <3>1, <3>2, <3>3
    <3>4. n = Canonical(s * (a.coeff * b.coeff), -p)
      BY <1>3, <2>1, <2>2, <2>3, <2>8, ShintProduct DEF n
    <3>5. QED
      BY <3>1, <3>3, <3>4 DEF Right, Good, Exactly, Safe, o, n
  <2>9. CASE ~(p < a.dec_prec) /\ ~first /\ ~second
    <3>1. o = mul_abs_dyn_by_dyn(s, p, AsDyn(a), AsDyn(b))
      BY <2>5, <2>9
    <3>2. o.v \in Decimals /\ (~WrapsInProduct(a, b) => Right(o, n))
      BY <1>3, <2>1, <2>2, <2>3, <2>9, <3>1, MulDyns DEF n
    <3>3. ~Wrapped(a, b) => ~WrapsInProduct(a, b)
      BY <1>3 DEF Wrapped
    <3>4. QED
      BY <3>2, <3>3 DEF Right, o, n
  <2>10. QED
    BY <2>6, <2>7, <2>8, <2>9
<1>4. QED
  BY <1>2, <1>3

-----------------------------------------------------------------------------
(***************************************************************************)
(* fpdec_adjust. Shifts by powers of ten, and back, give natural numbers.  *)
(***************************************************************************)
LEMMA ImulType ==
  ASSUME NEW v \in Nat, NEW w \in Nat
  PROVE  u128_imul_u64(v, w) \in Nat
<1>1. PICK u \in Nat \ {0} : u = U128
  BY Words128, Limits
<1>2. PICK k \in Nat : k = v * w
  OBVIOUS
<1>3. k % u \in Nat /\ u - 1 \in Nat
  BY Z3
<1>4. QED
  BY <1>1, <1>2, <1>3 DEF u128_imul_u64

LEMMA DividedShint ==
  ASSUME NEW v \in Nat, NEW n \in Nat, NEW s, NEW mode
  PROVE  u128_idivr_10_pow_n(v, s, n, mode) \in Nat
<1>1. PICK w \in Nat \ {0} : w = u64_10_pow_n(n)
  BY PowersOf10 DEF u64_10_pow_n
<1>2. v \div w \in Nat
  BY Z3
<1>3. \A q, r, d, b : round_qr(s, q, r, d, b, mode) \in 0 .. 1
  BY DEF round_qr
<1>4. PICK k \in 0 .. 1 :
        k = IF v % w > 0 THEN round_qr(s, (v \div w) % U64, v % w, FALSE, w, mode) ELSE 0
  <2>1. PICK k \in 0 .. 1 : k = round_qr(s, (v \div w) % U64, v % w, FALSE, w, mode)
    BY <1>3
  <2>2. \A c : \E j \in 0 .. 1 : j = IF c THEN k ELSE 0
    <3>1. 0 \in 0 .. 1
      OBVIOUS
    <3>2. QED
      BY <3>1
  <2>3. QED
    BY <2>1, <2>2
<1>5. u128_idivr_10_pow_n(v, s, n, mode) = v \div w + k
  BY <1>1, <1>4 DEF u128_idivr_10_pow_n
<1>6. QED
  BY <1>2, <1>5

(* u128_idecshift gives a coefficient, whatever the shift. *)
LEMMA DecShift ==
  ASSUME NEW v \in Nat, NEW n \in Int, NEW s, NEW mode
  PROVE  u128_idecshift(v, s, n, mode) \in Nat
<1>1. CASE n >= 0
  <2>1. u64_10_pow_n(n) \in Nat
    BY <1>1, PowersOf10 DEF u64_10_pow_n
  <2>2. u128_imul_u64(v, u64_10_pow_n(n)) \in Nat
    BY <2>1, ImulType
  <2>3. QED
    BY <1>1, <2>2 DEF u128_idecshift
<1>2. CASE n < 0
  <2>1. PICK i \in Nat : i = MIN(-n, UINT64_10_POW_N_CUTOFF) /\ -n - i \in Nat
    BY <1>2, Limits DEF MIN, UINT64_10_POW_N_CUTOFF
  <2>2. PICK w \in Nat : w = u128_idivr_10_pow_n(v, s, i, "DOWN")
    BY DividedShint
  <2>3. u128_idivr_10_pow_n(w, s, -n - i, mode) \in Nat
    BY <2>1, DividedShint
  <2>4. u128_idivr_10_pow_n(v, s, i, mode) \in Nat
    BY DividedShint
  <2>5. ~(n >= 0)
    BY <1>2
  <2>6. u128_idecshift(v, s, n, mode) =
          IF i < -n THEN u128_idivr_10_pow_n(w, s, -n - i, mode)
          ELSE u128_idivr_10_pow_n(v, s, i, mode)
    BY <2>1, <2>2, <2>5 DEF u128_idecshift
  <2>7. QED
    BY <2>3, <2>4, <2>6
<1>3. QED
  BY <1>1, <1>2

(* The step of the loop of ShiftedBack. *)
BackStep(n, top) ==
  [p \in Nat \X Nat |->
     IF p[2] \notin 1 .. top \/ p[1] >= SHINT_LIMIT THEN p[1]
     ELSE u128_imul_u64(p[1], u64_10_pow_n(MIN(n - (p[2] - 1) * UINT64_10_POW_N_CUTOFF,
                                               UINT64_10_POW_N_CUTOFF)))]

(* Its turns: all but the last multiply by as much as a word can hold. *)
BackTurns(v, n, d, top, back) ==
  /\ ShiftedBack(v, n) = back[top] /\ back[0] = v
  /\ \A i \in 1 .. top :
       back[i] = IF back[i - 1] >= SHINT_LIMIT THEN back[i - 1]
                 ELSE u128_imul_u64(back[i - 1], u64_10_pow_n(MIN(n - (i - 1) * d, d)))

LEMMA ShiftedBackTurns ==
  ASSUME NEW v \in Nat, NEW n \in Nat, NEW d \in Nat \ {0}, d = UINT64_10_POW_N_CUTOFF
  PROVE  \E top \in Nat : /\ n =< top * d /\ (top - 1) * d < n /\ (n = 0 => top = 0)
                         /\ \E back : BackTurns(v, n, d, top, back)
<1>1. d = UINT64_10_POW_N_CUTOFF
  OBVIOUS
<1>2. PICK top \in Int : top = CEIL(n, UINT64_10_POW_N_CUTOFF)
  <2>1. (-n) \div d \in Int
    BY Z3
  <2>2. QED
    BY <1>1, <2>1 DEF CEIL
<1>3. top \in Nat /\ n =< top * d /\ (top - 1) * d < n /\ (n = 0 => top = 0)
  <2>1. top = -((-n) \div d)
    BY <1>1, <1>2 DEF CEIL
  <2>2. PICK q \in Int, r \in 0 .. d - 1 : q = (-n) \div d /\ -n = d * q + r
    <3>1. PICK k \in Int : k = -n
      OBVIOUS
    <3>2. k \div d \in Int /\ k % d \in 0 .. d - 1 /\ k = d * (k \div d) + (k % d)
      BY Z3
    <3>3. QED
      BY <3>1, <3>2
  <2>3. q =< 0
    <3>1. SUFFICES ASSUME q >= 1 PROVE FALSE
      OBVIOUS
    <3>2. d * q >= d
      BY <3>1
    <3>3. QED
      BY <2>2, <3>2
  <2>4. (-q - 1) * d < n /\ n =< (-q) * d
    <3>1. (-q - 1) * d = -(d * q) - d /\ (-q) * d = -(d * q)
      OBVIOUS
    <3>2. d * q \in Int
      OBVIOUS
    <3>3. QED
      BY <2>2, <3>1, <3>2
  <2>5. n = 0 => q = 0
    <3>1. SUFFICES ASSUME n = 0, q =< -1 PROVE FALSE
      BY <2>3
    <3>2. d * q =< -d
      BY <3>1
    <3>3. d * q \in Int
      OBVIOUS
    <3>4. QED
      BY <2>2, <3>1, <3>2, <3>3
  <2>6. QED
    BY <2>1, <2>2, <2>3, <2>4, <2>5
<1> DEFINE fac(i) == u64_10_pow_n(MIN(n - (i - 1) * d, d))
<1>4. ASSUME NEW i \in 1 .. top PROVE fac(i) \in Nat
  <2>1. (i - 1) * d =< (top - 1) * d
    BY <1>3
  <2>2. (i - 1) * d \in Nat /\ (top - 1) * d \in Int
    <3>1. i - 1 \in Nat /\ top - 1 \in Int
      BY <1>3
    <3>2. QED
      BY <3>1
  <2>3. n - (i - 1) * d \in Nat
    BY <1>3, <2>1, <2>2
  <2>4. MIN(n - (i - 1) * d, d) \in Nat
    BY <2>3 DEF MIN
  <2>5. QED
    BY <2>4, PowersOf10 DEF u64_10_pow_n
<1> DEFINE step == BackStep(n, top)
<1>5. \A u \in Nat, i \in Nat :
        step[<< u, i >>] = IF i \notin 1 .. top \/ u >= SHINT_LIMIT THEN u
                           ELSE u128_imul_u64(u, fac(i))
  BY <1>1 DEF BackStep
<1>6. step \in [Nat \X Nat -> Nat]
  <2>1. ASSUME NEW u \in Nat, NEW i \in Nat PROVE step[<< u, i >>] \in Nat
    <3>1. CASE i \notin 1 .. top \/ u >= SHINT_LIMIT
      BY <1>5, <3>1
    <3>2. CASE ~(i \notin 1 .. top \/ u >= SHINT_LIMIT)
      <4>1. fac(i) \in Nat
        BY <1>4, <3>2
      <4> HIDE DEF fac, step
      <4>2. u128_imul_u64(u, fac(i)) \in Nat
        BY <4>1, ImulType
      <4>3. QED
        BY <1>5, <3>2, <4>2
    <3>3. QED
      BY <3>1, <3>2
  <2>2. ASSUME NEW p \in Nat \X Nat PROVE step[p] \in Nat
    <3>1. PICK u \in Nat, i \in Nat : p = << u, i >>
      OBVIOUS
    <3>2. QED
      BY <2>1, <3>1
  <2>3. DOMAIN step = Nat \X Nat /\ step = [p \in DOMAIN step |-> step[p]]
    BY DEF BackStep
  <2> HIDE DEF step
  <2>4. QED
    BY <2>2, <2>3
<1> HIDE DEF step
<1> DEFINE rec(f) == f = [i \in 0 .. top |->
                            IF i = 0 THEN v
                            ELSE IF f[i - 1] >= SHINT_LIMIT THEN f[i - 1]
                            ELSE u128_imul_u64(f[i - 1], fac(i))]
           back == CHOOSE f : rec(f)
<1>7. PICK f \in [0 .. top -> Nat] : Unfolds(f, v, step, top)
  BY <1>3, <1>6, RecursionExists
<1>8. rec(f)
  <2>1. \A i \in 0 .. top : f[i] = IF i = 0 THEN v ELSE step[<< f[i - 1], i >>]
    BY <1>7 DEF Unfolds
  <2>2. ASSUME NEW i \in 0 .. top, i # 0
        PROVE  step[<< f[i - 1], i >>] = IF f[i - 1] >= SHINT_LIMIT THEN f[i - 1]
                                         ELSE u128_imul_u64(f[i - 1], fac(i))
    <3>1. i \in Nat /\ i \in 1 .. top /\ i - 1 \in 0 .. top
      BY <1>3, <2>2
    <3>2. f[i - 1] \in Nat
      BY <3>1
    <3> HIDE DEF fac
    <3>3. QED
      BY <1>5, <3>1, <3>2
  <2>3. QED
    BY <2>1, <2>2
<1>9. rec(back)
  BY <1>8
<1>10. ShiftedBack(v, n) = back[top]
  BY <1>1, <1>2 DEF ShiftedBack
<1> HIDE DEF back
<1>11. \A i \in 0 .. top : back[i] = IF i = 0 THEN v
                                     ELSE IF back[i - 1] >= SHINT_LIMIT THEN back[i - 1]
                                     ELSE u128_imul_u64(back[i - 1], fac(i))
  BY <1>9
<1>12. BackTurns(v, n, d, top, back)
  <2>1. back[0] = v
    BY <1>3, <1>11
  <2>2. ASSUME NEW i \in 1 .. top
        PROVE  back[i] = IF back[i - 1] >= SHINT_LIMIT THEN back[i - 1]
                         ELSE u128_imul_u64(back[i - 1], fac(i))
    BY <1>3, <1>11
  <2>3. QED
    BY <1>10, <2>1, <2>2 DEF BackTurns
<1>13. QED
  BY <1>3, <1>12

LEMMA ShiftedBackFacts ==
  ASSUME NEW v \in Nat, NEW n \in Nat
  PROVE  ShiftedBack(v, n) \in Nat /\ (n = 0 => ShiftedBack(v, n) = v)
<1>1. PICK d \in Nat \ {0} : d = UINT64_10_POW_N_CUTOFF
  BY Limits DEF UINT64_10_POW_N_CUTOFF
<1>2. PICK top \in Nat : /\ n =< top * d /\ (top - 1) * d < n /\ (n = 0 => top = 0)
                       /\ \E back : BackTurns(v, n, d, top, back)
  BY <1>1, ShiftedBackTurns
<1>3. PICK back : BackTurns(v, n, d, top, back)
  BY <1>2
<1> DEFINE fac(i) == u64_10_pow_n(MIN(n - (i - 1) * d, d))
<1>4. ASSUME NEW i \in 1 .. top PROVE fac(i) \in Nat
  <2>1. (i - 1) * d =< (top - 1) * d
    OBVIOUS
  <2>2. (i - 1) * d \in Nat /\ (top - 1) * d \in Int
    <3>1. i - 1 \in Nat /\ top - 1 \in Int
      OBVIOUS
    <3>2. QED
      BY <3>1
  <2>3. n - (i - 1) * d \in Nat
    BY <1>2, <2>1, <2>2
  <2>4. MIN(n - (i - 1) * d, d) \in Nat
    BY <2>3 DEF MIN
  <2>5. QED
    BY <2>4, PowersOf10 DEF u64_10_pow_n
<1> DEFINE S == {i \in Nat : i =< top => back[i] \in Nat}
<1>5. 0 \in S
  BY <1>3 DEF BackTurns
<1>6. ASSUME NEW i \in Nat, i \in S PROVE i + 1 \in S
  <2>1. SUFFICES ASSUME i + 1 =< top PROVE back[i + 1] \in Nat
    OBVIOUS
  <2>2. back[i] \in Nat
    BY <1>6, <2>1
  <2>3. i + 1 \in 1 .. top /\ (i + 1) - 1 = i
    BY <2>1
  <2>4. fac(i + 1) \in Nat
    BY <1>4, <2>3
  <2> HIDE DEF fac
  <2>5. back[i + 1] = IF back[i] >= SHINT_LIMIT THEN back[i] ELSE u128_imul_u64(back[i], fac(i + 1))
    BY <1>3, <2>3 DEF BackTurns, fac
  <2>6. u128_imul_u64(back[i], fac(i + 1)) \in Nat
    BY <2>2, <2>4, ImulType
  <2>7. QED
    BY <2>2, <2>5, <2>6
<1> HIDE DEF S
<1>7. \A i \in Nat : i \in S
  BY <1>5, <1>6, SetInduction
<1>8. back[top] \in Nat
  BY <1>7 DEF S
<1>9. QED
  BY <1>2, <1>3, <1>8 DEF BackTurns

(* A dynamic number, and the dynamic form of an operand. *)
LEMMA DynFacts ==
  ASSUME NEW a, Operand(a), a.dyn
  PROVE  /\ a.sign \in {-1, 1} /\ a.coeff \in Nat \ {0} /\ a.n \in Nat \ {0}
         /\ Stripped(a) /\ a.exp \in INT32_MIN .. FPDEC_MAX_EXP /\ a.exp \in Int
         /\ a.dec_prec \in 0 .. FPDEC_MAX_DEC_PREC
         /\ Number(a) = Canonical(a.sign * a.coeff, Place(a.exp))
<1>1. a.sign # 0
  BY ZeroNumber
<1>2. a.sign \in -1 .. 1 /\ a.dec_prec \in 0 .. FPDEC_MAX_DEC_PREC
  BY DEF Operand, Decimals
<1>3. LET d == DigitsOf(a)
      IN  /\ Stripped(d) /\ d.exp \in INT32_MIN .. FPDEC_MAX_EXP
          /\ Number(a) = Canonical(a.sign * d.coeff, d.exp * DEC_DIGITS_PER_DIGIT)
          /\ d.coeff = a.coeff /\ d.n = a.n /\ d.exp = a.exp
  BY <1>1, DynDigits
<1>4. Stripped(a)
  BY <1>3 DEF Stripped
<1>5. QED
  BY <1>1, <1>2, <1>3, <1>4, Room DEF Stripped, Place

(* The conversion of a shifted int to digits keeps the number. *)
LEMMA AsDynOperand ==
  ASSUME NEW a, Operand(a), a.sign # 0
  PROVE  LET b == AsDyn(a)
         IN  /\ Operand(b) /\ b.dyn /\ b.dec_prec = a.dec_prec /\ b.sign = a.sign
             /\ Number(b) = Number(a)
             /\ MagnitudeFits(DigitsOf(a)) => MagnitudeFits(b)
<1>1. PICK d : d = DigitsOf(a)
  OBVIOUS
<1>2. PICK s \in {-1, 1}, p \in 0 .. FPDEC_MAX_DEC_PREC : s = a.sign /\ p = a.dec_prec
  BY DEF Operand, Decimals
<1>3. /\ Stripped(d) /\ d.exp \in INT32_MIN .. FPDEC_MAX_EXP
      /\ Number(a) = Canonical(s * d.coeff, Place(d.exp))
  BY <1>1, <1>2, OperandDigits DEF Place
<1>4. Canonical(s * d.coeff, Place(d.exp))[2] >= -p
  BY <1>2, <1>3 DEF Operand, PrecCoversDigits
<1>5. PICK b : b = Dyn(s, p, d.coeff, d.n, d.exp)
  OBVIOUS
<1>6. Operand(b) /\ Number(b) = Canonical(s * d.coeff, Place(d.exp))
  BY <1>3, <1>4, <1>5, DynOperand
<1>7. b = AsDyn(a)
  BY <1>1, <1>2, <1>5 DEF AsDyn
<1>8. b.dyn /\ b.dec_prec = p /\ b.sign = s /\ b.n = d.n /\ b.exp = d.exp
  BY <1>5 DEF Dyn
<1>9. MagnitudeFits(d) => MagnitudeFits(b)
  BY <1>8 DEF MagnitudeFits
<1>10. QED
  BY <1>1, <1>2, <1>3, <1>6, <1>7, <1>8, <1>9

(***************************************************************************)
(* Digits rounded: a multiple of 10^-prec, in the three forms rounding     *)
(* leaves. The first are digits that all are rounded away.                 *)
(***************************************************************************)
CoveredBy(s, c, e, p) == Canonical(s * c, e)[2] >= -p

LEMMA CoveredShift ==
  ASSUME NEW s \in {-1, 1}, NEW k \in Nat, NEW e \in Int, NEW j \in Int, e =< j,
         NEW p \in Nat, -p =< j
  PROVE  CoveredBy(s, k * Ten(e, j), e, p)
<1>1. ShiftsTo(s, k, e, j)
  BY SignedShift
<1>2. PICK m \in Int, f \in Int : m = s * k /\ f = -p /\ f =< 0 /\ f =< j
  OBVIOUS
<1>3. Canonical(m, j)[2] >= f
  BY <1>2, CanonicalCovered
<1>4. QED
  BY <1>1, <1>2, <1>3 DEF ShiftsTo, CoveredBy

(* Digits that are all rounded away leave an operand. *)
LEMMA RoundedAwayFacts ==
  ASSUME NEW a, Operand(a), a.dyn, NEW prec \in Int,
         -FPDEC_MAX_DEC_PREC =< prec, prec =< FPDEC_MAX_DEC_PREC,
         NEW shift \in Nat, shift = -Place(a.exp) - prec, NEW mode
  PROVE  LET r == [RoundedAway(a, shift, mode) EXCEPT !.dec_prec = MAX(prec, 0)]
         IN  Good(fpdec_dyn_normalize(r), r.sign * r.coeff, Place(r.exp))
<1>1. PICK s \in {-1, 1}, e \in INT32_MIN .. FPDEC_MAX_EXP : s = a.sign /\ e = a.exp /\ e \in Int
  BY DynFacts
<1>2. PICK d \in Nat \ {0} : d = DEC_DIGITS_PER_DIGIT
  BY Limits
<1>3. PICK q \in Nat, t \in 0 .. d - 1 : q = shift \div d /\ t = shift % d /\ shift = q * d + t
  <2>1. shift \div d \in Nat /\ shift % d \in 0 .. d - 1 /\ shift = (shift \div d) * d + (shift % d)
    BY QuotientAndRest
  <2>2. QED
    BY <2>1
<1>4. PICK up \in 0 .. 1 : up = round_qr(a.sign, 0, 0, TRUE, u64_10_pow_n(t), mode)
  BY DEF round_qr
<1>5. PICK f \in Int : f = e + q
  BY <1>1
<1>6. PICK w \in Nat \ {0} : w = Power(10, t)
  BY PowersOf10
<1>7. PICK c \in Nat : c = up * w
  OBVIOUS
<1>8. PICK p \in 0 .. FPDEC_MAX_DEC_PREC : p = MAX(prec, 0) /\ -p =< -prec
  BY Room DEF MAX
<1>9. PICK r : r = [RoundedAway(a, shift, mode) EXCEPT !.dec_prec = MAX(prec, 0)]
  OBVIOUS
<1>10. r.coeff = c /\ r.exp = f /\ r.sign = s /\ r.dec_prec = p
  <2>1. a \in Decimals
    BY DEF Operand
  <2>2. RoundedAway(a, shift, mode) = [a EXCEPT !.exp = f, !.n = up, !.coeff = c]
    BY <1>1, <1>2, <1>3, <1>4, <1>5, <1>6, <1>7, <2>1 DEF RoundedAway, Decimals, u64_10_pow_n
  <2>3. QED
    BY <1>1, <1>8, <1>9, <2>1, <2>2 DEF Decimals
<1>11. Place(f) \in Int /\ Place(f) + t = -prec
  <2>1. Place(e) \in Int /\ Place(q) \in Int /\ Place(f) = Place(e) + Place(q)
    <3>1. e \in Int /\ q \in Int
      BY <1>1
    <3>2. Place(e) \in Int /\ Place(q) \in Int /\ Place(e + q) = Place(e) + Place(q)
      BY <3>1, PlaceFacts
    <3>3. QED
      BY <1>5, <3>2
  <2>2. PICK k \in Int, i \in Int, j \in Int : k = q * d /\ i = Place(e) /\ j = Place(f) /\ j = i + k
    <3>1. Place(q) = q * d
      BY <1>2 DEF Place
    <3>2. QED
      BY <2>1, <3>1
  <2>3. shift = -i - prec
    BY <1>1, <2>2
  <2>4. shift = k + t
    BY <1>3, <2>2
  <2>5. j \in Int /\ j + t = -prec
    BY <2>2, <2>3, <2>4
  <2>6. QED
    BY <2>2, <2>5
<1>12. f \in INT32_MIN .. FPDEC_MAX_EXP /\ f + 1 =< FPDEC_MAX_EXP /\ Place(f + 1) =< FPDEC_MAX_EXP
  <2>1. Place(f) =< FPDEC_MAX_DEC_PREC
    BY <1>11, Room
  <2>2. Place(f + 1) = Place(f) + d /\ Place(f + 1) \in Int
    <3>1. 1 \in Int /\ f + 1 \in Int
      OBVIOUS
    <3>2. Place(f + 1) = Place(f) + Place(1) /\ Place(f + 1) \in Int
      BY <3>1, PlaceFacts
    <3>3. QED
      BY <1>2, <3>2, Places
  <2>3. Place(f + 1) =< FPDEC_MAX_EXP
    BY <1>2, <1>11, <2>1, <2>2, Room
  <2>4. f + 1 =< FPDEC_MAX_EXP
    <3>1. SUFFICES ASSUME f + 1 > FPDEC_MAX_EXP PROVE FALSE
      BY Room
    <3>2. f + 1 \in Nat
      BY <3>1, Room
    <3>3. (f + 1) * d >= f + 1
      BY <3>2
    <3>4. QED
      BY <1>2, <2>2, <2>3, <3>1, <3>3, Room DEF Place
  <2>5. INT32_MIN =< f
    BY <1>1, <1>5, Room
  <2>6. QED
    BY <2>3, <2>4, <2>5, Room
<1>13. CoveredBy(s, c, Place(f), p)
  <2>1. PICK g \in Int, j \in Int : g = Place(f) /\ j = -prec /\ g =< j /\ -p =< j /\ j - g = t
    BY <1>8, <1>11
  <2>2. CoveredBy(s, up * Ten(g, j), g, p)
    BY <2>1, CoveredShift
  <2>3. c = up * Ten(g, j)
    BY <1>6, <1>7, <2>1 DEF Ten
  <2>4. QED
    BY <2>1, <2>2, <2>3
<1>14. c < Weight(1)
  <2>1. w < RADIX
    BY <1>2, <1>6, Limits, PowerOrder
  <2>2. Weight(1) = RADIX
    <3>1. Weight(0 + 1) = RADIX * Weight(0)
      BY WeightFacts
    <3>2. QED
      BY <3>1, WeightZero, RadixPositive
  <2>3. c =< w
    BY <1>7
  <2>4. QED
    BY <2>1, <2>2, <2>3, RadixPositive
<1>15. Good(fpdec_dyn_normalize(r), r.sign * r.coeff, Place(r.exp))
  <2>1. PICK n \in Nat : n = 1
    OBVIOUS
  <2>2. /\ r.coeff \in Nat /\ r.exp \in INT32_MIN .. FPDEC_MAX_EXP /\ r.sign \in {-1, 1}
        /\ r.dec_prec \in 0 .. FPDEC_MAX_DEC_PREC
        /\ Canonical(r.sign * r.coeff, Place(r.exp))[2] >= -r.dec_prec
        /\ r.coeff < Weight(n) /\ r.exp + n =< FPDEC_MAX_EXP /\ Place(r.exp + n) =< FPDEC_MAX_EXP
    BY <1>10, <1>12, <1>13, <1>14, <2>1 DEF CoveredBy
  <2>3. QED
    BY <2>2, NormalizedBelow
<1>16. QED
  BY <1>9, <1>15

(* Digits rounded, with the digit a carry leaves behind. *)
LEMMA RoundedMultiple ==
  ASSUME NEW v \in Nat, NEW s, NEW n \in Nat, NEW mode
  PROVE  \E k \in Nat : RoundedDigits(v, s, n, mode) = k * Power(10, n)
<1>1. PICK w \in Nat \ {0} : w = Power(10, n)
  BY PowersOf10
<1>2. v \div w \in Nat
  BY QuotientAndRest
<1>3. PICK i \in 0 .. 1 : i = IF AwayFromZero(s, v, w, mode) THEN 1 ELSE 0
  OBVIOUS
<1>4. PICK k \in Nat : k = v \div w + i
  BY <1>2
<1>5. RoundedDigits(v, s, n, mode) = w * k
  BY <1>1, <1>3, <1>4 DEF RoundedDigits, Rounded, u64_10_pow_n
<1>6. w * k = k * w
  OBVIOUS
<1>7. QED
  BY <1>1, <1>5, <1>6

LEMMA DigitOne == DigitCount[1] = 1 /\ TrailingZeroDigits(1, DigitCount[1]) = 0
<1>1. PICK v \in Nat \ {0}, n \in Nat \ {0} : v = 1 /\ n = 1 /\ n - 1 = 0
  OBVIOUS
<1>2. Weight(n - 1) =< v /\ v < Weight(n)
  <2>1. Weight(0 + 1) = RADIX * Weight(0)
    BY WeightFacts
  <2>2. QED
    BY <1>1, <2>1, WeightZero, RadixPositive
<1>3. DigitCount[v] = n
  BY <1>2, DigitCountIs
<1>4. TrailingZeroDigits(v, DigitCount[v]) \in 0 .. DigitCount[v] - 1
  BY StrippedZeros
<1>5. QED
  BY <1>1, <1>3, <1>4

(* So do digits that are rounded within. *)
LEMMA RoundedInFacts ==
  ASSUME NEW a, Operand(a), a.dyn, MagnitudeFits(a), NEW prec \in Int,
         -FPDEC_MAX_DEC_PREC =< prec, prec =< FPDEC_MAX_DEC_PREC,
         NEW shift \in Nat, shift = -Place(a.exp) - prec, shift =< Place(a.n), NEW mode
  PROVE  LET r == [RoundedIn(a, shift, mode) EXCEPT !.dec_prec = MAX(prec, 0)]
         IN  Good(fpdec_dyn_normalize(r), r.sign * r.coeff, Place(r.exp))
<1>1. PICK s \in {-1, 1}, e \in INT32_MIN .. FPDEC_MAX_EXP, c \in Nat, n \in Nat \ {0} :
        s = a.sign /\ e = a.exp /\ e \in Int /\ c = a.coeff /\ n = a.n
  BY DynFacts
<1>2. PICK p \in 0 .. FPDEC_MAX_DEC_PREC : p = MAX(prec, 0) /\ -p =< -prec /\ p \in Nat
  BY Room DEF MAX
<1>3. PICK u \in Nat : u = RoundedDigits(c, s, shift, mode) /\ \E k \in Nat : u = k * Power(10, shift)
  <2>1. PICK k \in Nat : RoundedDigits(c, s, shift, mode) = k * Power(10, shift)
    BY RoundedMultiple
  <2>2. Power(10, shift) \in Nat
    BY PowersOf10
  <2>3. k * Power(10, shift) \in Nat
    BY <2>2
  <2>4. QED
    BY <2>1, <2>3
<1>4. PICK r : r = [RoundedIn(a, shift, mode) EXCEPT !.dec_prec = MAX(prec, 0)]
  OBVIOUS
<1>5. PICK g \in Int, j \in Int : g = Place(e) /\ j = -prec /\ g =< j /\ j - g = shift
  <2>1. Place(e) \in Int
    BY <1>1, PlaceFacts
  <2>2. PICK g \in Int : g = Place(e)
    BY <2>1
  <2>3. shift = -g - prec
    BY <1>1, <2>2
  <2>4. QED
    BY <2>2, <2>3
<1>6. e + n =< FPDEC_MAX_EXP /\ Place(e + n) =< FPDEC_MAX_EXP
  <2>1. Stripped(a) /\ a.exp \in Int
    BY DynFacts
  <2>2. a.exp + a.n =< FPDEC_MAX_EXP /\ Place(a.exp + a.n) =< FPDEC_MAX_EXP
    BY <2>1, MagnitudeRoom
  <2>3. QED
    BY <1>1, <2>2
<1>7. a \in Decimals
  BY DEF Operand
<1>8. CASE u >= Weight(n)
  <2>1. RoundedIn(a, shift, mode) = [a EXCEPT !.exp = @ + a.n, !.n = 1, !.coeff = 1]
    BY <1>1, <1>3, <1>8 DEF RoundedIn, RoundCarry
  <2>2. PICK f \in Int : f = e + n
    BY <1>1
  <2>3. r.coeff = 1 /\ r.exp = f /\ r.sign = s /\ r.dec_prec = p
    BY <1>1, <1>2, <1>4, <1>7, <2>1, <2>2 DEF Decimals
  <2>4. f \in INT32_MIN .. FPDEC_MAX_EXP
    BY <1>1, <1>6, <2>2, Room
  <2>5. Canonical(s * 1, Place(f))[2] >= -p
    <3>1. PICK i \in Int : i = Place(f)
      BY PlaceFacts
    <3>2. -prec =< i
      <4>1. Place(n) \in Int /\ Place(e + n) = Place(e) + Place(n)
        <5>1. e \in Int /\ n \in Int
          BY <1>1
        <5>2. QED
          BY <5>1, PlaceFacts
      <4>2. i = g + Place(n)
        BY <1>5, <2>2, <3>1, <4>1
      <4>3. shift =< Place(n)
        BY <1>1
      <4>4. QED
        BY <1>5, <4>1, <4>2, <4>3
    <3>3. PICK m \in Int, h \in Int : m = s * 1 /\ h = -p /\ h =< 0 /\ h =< i
      BY <1>2, <3>2
    <3>4. Canonical(m, i)[2] >= h
      BY <3>3, CanonicalCovered
    <3>5. QED
      BY <3>1, <3>3, <3>4
  <2>6. f =< 1 => Place(1 + f) =< FPDEC_MAX_EXP
    <3>1. SUFFICES ASSUME f =< 1 PROVE Place(1 + f) =< FPDEC_MAX_EXP
      OBVIOUS
    <3>2. 1 + f \in Int /\ 2 \in Int /\ 1 + f =< 2
      BY <3>1
    <3>3. Place(1 + f) =< Place(2) /\ Place(1 + f) \in Int
      BY <3>2, PlaceFacts
    <3>4. QED
      BY <3>3, Places, Room
  <2>7. LET o == fpdec_dyn_normalize(r)
        IN  /\ o.rc = "OK" /\ Operand(o.v)
            /\ Number(o.v) = Canonical(r.sign * r.coeff, Place(r.exp))
    <3>1. /\ r.coeff \in Nat /\ r.exp \in INT32_MIN .. FPDEC_MAX_EXP /\ r.sign \in {-1, 1}
          /\ r.dec_prec \in 0 .. FPDEC_MAX_DEC_PREC
      BY <2>3, <2>4
    <3>2. Canonical(r.sign * r.coeff, Place(r.exp))[2] >= -r.dec_prec
      BY <2>3, <2>5
    <3>3. r.exp + TrailingZeroDigits(r.coeff, DigitCount[r.coeff]) =< FPDEC_MAX_EXP
      BY <2>3, <2>4, DigitOne, Room
    <3>4. r.exp =< 1 => Place(DigitCount[r.coeff] + r.exp) =< FPDEC_MAX_EXP
      BY <2>3, <2>6, DigitOne
    <3>5. QED
      BY <3>1, <3>2, <3>3, <3>4, Normalized
  <2>8. QED
    BY <1>4, <2>7 DEF Good
<1>9. CASE u < Weight(n)
  <2>1. ~(u >= Weight(n))
    <3>1. Weight(n) \in Nat
      BY WeightFacts
    <3>2. QED
      BY <1>9, <3>1
  <2>2. RoundedIn(a, shift, mode) = [a EXCEPT !.coeff = u]
    BY <1>1, <1>3, <2>1 DEF RoundedIn, RoundCarry
  <2>3. r.coeff = u /\ r.exp = e /\ r.sign = s /\ r.dec_prec = p
    BY <1>1, <1>2, <1>4, <1>7, <2>2 DEF Decimals
  <2>4. CoveredBy(s, u, g, p)
    <3>1. PICK k \in Nat : u = k * Power(10, shift)
      BY <1>3
    <3>2. -p =< j
      BY <1>2, <1>5
    <3>3. CoveredBy(s, k * Ten(g, j), g, p)
      BY <1>2, <1>5, <3>2, CoveredShift
    <3>4. u = k * Ten(g, j)
      BY <1>5, <3>1 DEF Ten
    <3>5. QED
      BY <3>3, <3>4
  <2>5. Good(fpdec_dyn_normalize(r), r.sign * r.coeff, Place(r.exp))
    <3>1. /\ r.coeff \in Nat /\ r.exp \in INT32_MIN .. FPDEC_MAX_EXP /\ r.sign \in {-1, 1}
          /\ r.dec_prec \in 0 .. FPDEC_MAX_DEC_PREC
          /\ Canonical(r.sign * r.coeff, Place(r.exp))[2] >= -r.dec_prec
          /\ r.coeff < Weight(n) /\ r.exp + n =< FPDEC_MAX_EXP /\ Place(r.exp + n) =< FPDEC_MAX_EXP
      BY <1>5, <1>6, <1>9, <2>3, <2>4 DEF CoveredBy
    <3>2. n \in Nat
      OBVIOUS
    <3>3. QED
      BY <3>1, <3>2, NormalizedBelow
  <2>6. QED
    BY <1>4, <2>5
<1>10. Weight(n) \in Nat
  BY WeightFacts
<1>11. QED
  BY <1>8, <1>9, <1>10

(***************************************************************************)
(* What holds of an adjusted number, whatever happens.                     *)
(***************************************************************************)
Adjusts(a, prec, o) ==
  /\ o.rc \in {"OK", "PREC_LIMIT_EXCEEDED"} /\ Operand(o.v)
  /\ prec >= a.dec_prec \/ o.rc # "OK" => Number(o.v) = Number(a)

(* A change of dec_prec alone keeps the number. *)
LEMMA PrecChanged ==
  ASSUME NEW a, Operand(a), NEW p \in 0 .. FPDEC_MAX_DEC_PREC,
         NEW b, b = [a EXCEPT !.dec_prec = p], a.dyn \/ a.sign = 0
  PROVE  /\ a.dyn => Number(b) = Number(a) /\ (Number(a)[2] >= -p => Operand(b))
         /\ a.sign = 0 => Operand(b) /\ Number(b) = Number(a)
<1>1. a \in Decimals
  BY DEF Operand
<1>2. /\ b.dyn = a.dyn /\ b.normalized = a.normalized /\ b.sign = a.sign /\ b.dec_prec = p
      /\ b.coeff = a.coeff /\ b.n = a.n /\ b.exp = a.exp /\ b \in Decimals
  BY <1>1 DEF Decimals
<1>3. ASSUME a.dyn PROVE Number(b) = Number(a) /\ (Number(a)[2] >= -p => Operand(b))
  <2>1. Number(b) = Number(a)
    BY <1>2, <1>3 DEF Number
  <2>2. WellFormed(b)
    BY <1>2, <1>3 DEF Operand, WellFormed
  <2>3. QED
    BY <1>2, <2>1, <2>2 DEF Operand, PrecCoversDigits
<1>4. ASSUME a.sign = 0 PROVE Operand(b) /\ Number(b) = Number(a)
  <2>1. a.coeff = 0 /\ ~a.dyn /\ Number(a) = << 0, 0 >>
    BY <1>4, ZeroNumber
  <2>2. Number(b) = << 0, 0 >>
    <3>1. b.sign * b.coeff = 0
      BY <1>2, <1>4, <2>1
    <3>2. QED
      BY <3>1, CanonicalZero DEF Number
  <2>3. PrecCoversDigits(b)
    BY <1>2, <2>2 DEF PrecCoversDigits
  <2>4. WellFormed(b)
    BY <1>2, <1>4, <2>1 DEF WellFormed
  <2>5. QED
    BY <1>2, <2>1, <2>2, <2>3, <2>4 DEF Operand
<1>5. QED
  BY <1>3, <1>4

(* fpdec_dyn_adjust_to_prec: the number of places cut off does not wrap. *)
LEMMA DynAdjustIs ==
  ASSUME NEW a, Operand(a), a.dyn, MagnitudeFits(a), NEW prec \in Int, NEW mode,
         NEW shift \in Int, shift = -Place(a.exp) - prec
  PROVE  fpdec_dyn_adjust_to_prec(a, prec, mode)
           = IF prec >= a.dec_prec \/ shift =< 0
             THEN Ok([a EXCEPT !.dec_prec = AsDecPrec(prec)])
             ELSE IF shift > Place(a.n)
             THEN fpdec_dyn_normalize([RoundedAway(a, shift, mode) EXCEPT !.dec_prec = MAX(prec, 0)])
             ELSE fpdec_dyn_normalize([RoundedIn(a, shift, mode) EXCEPT !.dec_prec = MAX(prec, 0)])
<1>1. PICK e \in INT32_MIN .. FPDEC_MAX_EXP, n \in Nat \ {0} : e = a.exp /\ e \in Int /\ n = a.n
  BY DynFacts
<1>2. PICK g \in Int, l \in Int : g = Place(e) /\ l = Place(n)
  <2>1. e \in Int /\ n \in Int
    BY <1>1
  <2>2. QED
    BY <2>1, PlaceFacts
<1>3. shift = -g - prec
  BY <1>1, <1>2
<1>4. Int32(-a.exp * DEC_DIGITS_PER_DIGIT) = -g
  <2>1. -g \in INT32_MIN .. FPDEC_MAX_EXP
    <3>1. PICK d \in Nat \ {0} : d = DEC_DIGITS_PER_DIGIT
      BY Limits
    <3>2. (ABS(e) + n) * d =< FPDEC_MAX_EXP
      BY <1>1, <3>1 DEF MagnitudeFits
    <3>3. PICK k \in Nat : k = ABS(e) /\ (e = k \/ e = -k)
      BY <1>1 DEF ABS
    <3>4. (k + n) * d = k * d + n * d /\ k * d \in Nat /\ n * d \in Nat
      OBVIOUS
    <3>5. k * d =< FPDEC_MAX_EXP
      BY <3>2, <3>3, <3>4, Room
    <3>6. g = k * d \/ g = -(k * d)
      <4>1. g = e * d
        BY <1>2, <3>1 DEF Place
      <4>2. (-k) * d = -(k * d)
        OBVIOUS
      <4>3. QED
        BY <3>3, <4>1, <4>2
    <3>7. QED
      BY <3>4, <3>5, <3>6, Room
  <2>2. -a.exp * DEC_DIGITS_PER_DIGIT = -g
    <3>1. (-e) * DEC_DIGITS_PER_DIGIT = -(e * DEC_DIGITS_PER_DIGIT)
      BY <1>1, Limits
    <3>2. QED
      BY <1>1, <1>2, <3>1 DEF Place
  <2>3. -g \in Int
    OBVIOUS
  <2>4. QED
    BY <2>1, <2>2, <2>3, Int32Facts
<1>5. a.n * DEC_DIGITS_PER_DIGIT = l
  BY <1>1, <1>2 DEF Place
<1>6. Int32(-a.exp * DEC_DIGITS_PER_DIGIT) - prec = shift
  BY <1>3, <1>4
<1>7. Place(a.n) = l
  BY <1>1, <1>2
<1>8. QED
  BY <1>5, <1>6, <1>7, Zenon DEF fpdec_dyn_adjust_to_prec

(* fpdec_dyn_adjust_to_prec. *)
LEMMA DynAdjusted ==
  ASSUME NEW a, Operand(a), a.dyn, MagnitudeFits(a), NEW prec \in Int,
         -FPDEC_MAX_DEC_PREC =< prec, prec =< FPDEC_MAX_DEC_PREC, NEW mode
  PROVE  Adjusts(a, prec, fpdec_dyn_adjust_to_prec(a, prec, mode))
<1>1. PICK s \in {-1, 1}, e \in INT32_MIN .. FPDEC_MAX_EXP, c \in Nat \ {0}, n \in Nat \ {0},
           q \in 0 .. FPDEC_MAX_DEC_PREC :
        s = a.sign /\ e = a.exp /\ e \in Int /\ c = a.coeff /\ n = a.n /\ q = a.dec_prec
  BY DynFacts
<1>2. PICK g \in Int, l \in Int : g = Place(e) /\ l = Place(n)
  <2>1. e \in Int /\ n \in Int
    BY <1>1
  <2>2. QED
    BY <2>1, PlaceFacts
<1>3. Number(a) = Canonical(s * c, g)
  BY <1>1, <1>2, DynFacts
<1>4. PICK shift \in Int : shift = -g - prec
  <2>1. -g - prec \in Int
    OBVIOUS
  <2>2. QED
    BY <2>1
<1>5. PICK p \in 0 .. FPDEC_MAX_DEC_PREC : p = AsDecPrec(prec) /\ (prec >= 0 => p = prec)
  <2>1. prec >= 0 => prec \in 0 .. FPDEC_MAX_DEC_PREC
    OBVIOUS
  <2>2. QED
    BY <2>1, AsDecPrecFacts
<1> DEFINE b == [a EXCEPT !.dec_prec = p]
           o == fpdec_dyn_adjust_to_prec(a, prec, mode)
           r1 == [RoundedAway(a, shift, mode) EXCEPT !.dec_prec = MAX(prec, 0)]
           r2 == [RoundedIn(a, shift, mode) EXCEPT !.dec_prec = MAX(prec, 0)]
<1>6. o = IF prec >= a.dec_prec \/ shift =< 0 THEN Ok(b)
          ELSE IF shift > l THEN fpdec_dyn_normalize(r1) ELSE fpdec_dyn_normalize(r2)
  <2>1. Place(a.n) = l /\ shift = -Place(a.exp) - prec
    BY <1>1, <1>2, <1>4
  <2>2. QED
    BY <1>5, <2>1, DynAdjustIs, Zenon
<1> HIDE DEF o
<1>7. CASE prec >= a.dec_prec \/ shift =< 0
  <2>1. Number(a)[2] >= -p
    <3>1. CASE prec >= a.dec_prec
      <4>1. prec >= q /\ p = prec /\ -p =< -q
        BY <1>1, <1>5, <3>1, Room
      <4>2. Number(a)[2] >= -q
        BY <1>1 DEF Operand, PrecCoversDigits
      <4>3. Number(a)[2] \in Int
        BY <1>3, CanonicalSign
      <4>4. QED
        BY <1>1, <1>5, <4>1, <4>2, <4>3, Room
    <3>2. CASE shift =< 0
      <4>1. -prec =< g
        BY <1>4, <3>2
      <4>2. PICK f \in Int, m \in Int : f = -p /\ f =< 0 /\ m = s * c
        BY Room
      <4>3. f =< g
        BY <1>5, <4>1, <4>2
      <4>4. Canonical(m, g)[2] >= f
        BY <4>2, <4>3, CanonicalCovered
      <4>5. QED
        BY <1>3, <4>2, <4>4
    <3>3. QED
      BY <1>7, <3>1, <3>2
  <2>2. Operand(b) /\ Number(b) = Number(a)
    BY <2>1, PrecChanged
  <2>3. o = Ok(b)
    BY <1>6, <1>7
  <2>4. QED
    BY <2>2, <2>3 DEF Adjusts, Ok, Returns, o
<1>8. CASE ~(prec >= a.dec_prec \/ shift =< 0)
  <2>1. shift \in Nat /\ shift = -Place(a.exp) - prec
    BY <1>1, <1>2, <1>4, <1>8
  <2>2. o.rc = "OK" /\ Operand(o.v)
    <3>1. CASE shift > l
      <4>1. Good(fpdec_dyn_normalize(r1), r1.sign * r1.coeff, Place(r1.exp))
        BY <2>1, RoundedAwayFacts
      <4>2. QED
        BY <1>6, <1>8, <3>1, <4>1 DEF Good
    <3>2. CASE ~(shift > l)
      <4>1. shift =< Place(a.n)
        BY <1>1, <1>2, <3>2
      <4>2. Good(fpdec_dyn_normalize(r2), r2.sign * r2.coeff, Place(r2.exp))
        BY <2>1, <4>1, RoundedInFacts
      <4>3. QED
        BY <1>6, <1>8, <3>2, <4>2 DEF Good
    <3>3. QED
      BY <3>1, <3>2
  <2>3. QED
    BY <1>8, <2>2 DEF Adjusts, o
<1>9. QED
  BY <1>7, <1>8

(***************************************************************************)
(* A shifted int that gets more places keeps its value.                    *)
(***************************************************************************)
LEMMA MorePlaces ==
  ASSUME NEW s \in {-1, 1}, NEW c \in Nat \ {0}, c < SHINT_LIMIT,
         NEW p \in 0 .. MAX_DEC_PREC_FOR_SHINT, NEW q \in 0 .. MAX_DEC_PREC_FOR_SHINT, q =< p,
         NEW v, v = u128_imul_u64(c, Power(10, p - q)), v < SHINT_LIMIT
  PROVE  v \in Nat \ {0} /\ Canonical(s * v, -p) = Canonical(s * c, -q)
<1>1. PICK k \in Nat : k = p - q /\ k =< MAX_DEC_PREC_FOR_SHINT
  BY Room
<1>2. PICK w \in Nat \ {0}, t \in Nat \ {0} :
        w = Power(10, k) /\ t = Power(10, MAX_DEC_PREC_FOR_SHINT) /\ w =< t
  <2>1. PICK n \in Nat, b \in Nat : n = MAX_DEC_PREC_FOR_SHINT /\ b = 10 /\ b >= 2 /\ k =< n
    BY <1>1, Room
  <2>2. Power(b, k) =< Power(b, n)
    BY <2>1, PowerOrder
  <2>3. Power(10, k) \in Nat \ {0} /\ Power(10, n) \in Nat \ {0}
    BY PowersOf10
  <2>4. QED
    BY <2>1, <2>2, <2>3
<1>3. c * w < U128
  <2>1. PICK l \in Nat \ {0}, u \in Nat : l = SHINT_LIMIT /\ u = U128 /\ l * t < u
    BY <1>2, Words128, Limits
  <2>2. c * w =< l * w
    <3>1. c =< l
      BY <2>1
    <3>2. QED
      BY <3>1
  <2>3. l * w =< l * t
    BY <1>2
  <2>4. c * w \in Nat /\ l * w \in Nat /\ l * t \in Nat
    OBVIOUS
  <2>5. QED
    BY <2>1, <2>2, <2>3, <2>4
<1>4. v = c * w
  BY <1>1, <1>2, <1>3, Imul
<1>5. v \in Nat \ {0}
  BY <1>4
<1>6. PICK i \in Int, j \in Int : i = -p /\ j = -q /\ i =< j /\ j - i = k
  <2>1. -p \in Int /\ -q \in Int /\ -p =< -q /\ (-q) - (-p) = k
    BY <1>1, Room
  <2>2. QED
    BY <2>1
<1>7. ShiftsTo(s, c, i, j)
  BY <1>6, SignedShift
<1>8. v = c * Ten(i, j)
  BY <1>2, <1>4, <1>6 DEF Ten
<1>9. QED
  BY <1>5, <1>6, <1>7, <1>8 DEF ShiftsTo

(* fpdec_shint_adjust_to_prec. *)
LEMMA ShintAdjusted ==
  ASSUME NEW a, Operand(a), a.sign # 0, ~a.dyn, MagnitudeFits(DigitsOf(a)), NEW prec \in Int,
         -FPDEC_MAX_DEC_PREC =< prec, prec =< MAX_DEC_PREC_FOR_SHINT, NEW mode
  PROVE  Adjusts(a, prec, fpdec_shint_adjust_to_prec(a, prec, mode))
<1>1. PICK s \in {-1, 1}, c \in Nat \ {0}, q \in 0 .. MAX_DEC_PREC_FOR_SHINT :
        s = a.sign /\ c = a.coeff /\ q = a.dec_prec /\ c < SHINT_LIMIT
  BY DEF Operand, WellFormed, Decimals
<1>2. Number(a) = Canonical(s * c, -q)
  BY <1>1 DEF Number
<1>3. PICK shift \in Int : shift = prec - q
  BY Room
<1>4. PICK back \in Nat : back = MAX(-prec, 0) /\ (prec >= 0 => back = 0)
  <2>1. MAX(-prec, 0) \in Nat /\ (prec >= 0 => MAX(-prec, 0) = 0)
    BY DEF MAX
  <2>2. QED
    BY <2>1
<1>5. PICK p \in 0 .. MAX_DEC_PREC_FOR_SHINT : p = MAX(prec, 0) /\ (prec >= 0 => p = prec)
  <2>1. MAX(prec, 0) \in 0 .. MAX_DEC_PREC_FOR_SHINT /\ (prec >= 0 => MAX(prec, 0) = prec)
    BY Room DEF MAX
  <2>2. QED
    BY <2>1
<1>6. PICK u \in Nat : u = u128_idecshift(c, s, shift, mode)
  BY DecShift
<1>7. PICK v \in Nat : v = ShiftedBack(u, back) /\ (back = 0 => v = u)
  BY ShiftedBackFacts
<1> DEFINE o == fpdec_shint_adjust_to_prec(a, prec, mode)
<1>8. o = IF -shift > MAX_N_DEC_DIGITS_IN_SHINT THEN Ok(FPDEC_ZERO)
          ELSE IF v >= SHINT_LIMIT THEN fpdec_dyn_adjust_to_prec(AsDyn(a), prec, mode)
          ELSE Ok(Shint(IF v = 0 THEN 0 ELSE s, p, v))
  BY <1>1, <1>3, <1>4, <1>5, <1>6, <1>7 DEF fpdec_shint_adjust_to_prec
<1> HIDE DEF o
<1>9. CASE -shift > MAX_N_DEC_DIGITS_IN_SHINT
  <2>1. ~(prec >= a.dec_prec)
    BY <1>1, <1>3, <1>9, Room
  <2>2. Operand(FPDEC_ZERO)
    <3>1. 0 \in 0 .. FPDEC_MAX_DEC_PREC
      BY Room
    <3>2. QED
      BY <3>1, ZeroOperand DEF FPDEC_ZERO, ResetToZero
  <2>3. o = Ok(FPDEC_ZERO)
    BY <1>8, <1>9
  <2>4. QED
    BY <2>1, <2>2, <2>3 DEF Adjusts, Ok, Returns, o
<1>10. CASE ~(-shift > MAX_N_DEC_DIGITS_IN_SHINT) /\ v >= SHINT_LIMIT
  <2>1. PICK b : b = AsDyn(a)
    OBVIOUS
  <2>2. /\ Operand(b) /\ b.dyn /\ b.dec_prec = a.dec_prec
        /\ Number(b) = Number(a) /\ MagnitudeFits(b)
    BY <2>1, AsDynOperand
  <2>3. prec =< FPDEC_MAX_DEC_PREC
    BY Room
  <2>4. Adjusts(b, prec, fpdec_dyn_adjust_to_prec(b, prec, mode))
    BY <2>2, <2>3, DynAdjusted
  <2>5. o = fpdec_dyn_adjust_to_prec(b, prec, mode)
    BY <1>8, <1>10, <2>1
  <2>6. QED
    BY <2>2, <2>4, <2>5 DEF Adjusts, o
<1>11. CASE ~(-shift > MAX_N_DEC_DIGITS_IN_SHINT) /\ v < SHINT_LIMIT
  <2>1. ~(v >= SHINT_LIMIT)
    BY <1>11, Limits
  <2>2. o = Ok(Shint(IF v = 0 THEN 0 ELSE s, p, v))
    BY <1>8, <1>11, <2>1
  <2>3. prec >= a.dec_prec => v \in Nat \ {0} /\ Canonical(s * v, -p) = Canonical(s * c, -q)
    <3>1. SUFFICES ASSUME prec >= a.dec_prec
                   PROVE  v \in Nat \ {0} /\ Canonical(s * v, -p) = Canonical(s * c, -q)
      OBVIOUS
    <3>2. prec >= 0 /\ p = prec /\ q =< p /\ shift = p - q /\ shift >= 0 /\ back = 0
      BY <1>1, <1>3, <1>4, <1>5, <3>1, Room
    <3>3. u = u128_imul_u64(c, Power(10, p - q))
      BY <1>6, <3>2 DEF u128_idecshift, u64_10_pow_n
    <3>4. v = u
      BY <1>7, <3>2
    <3>5. QED
      BY <1>1, <1>11, <3>2, <3>3, <3>4, MorePlaces
  <2>4. CASE v = 0
    <3>1. o = Ok(ResetToZero(p))
      BY <2>2, <2>4 DEF ResetToZero
    <3>2. p \in 0 .. FPDEC_MAX_DEC_PREC
      BY Room
    <3>3. Operand(ResetToZero(p))
      BY <3>2, ZeroOperand
    <3>4. ~(prec >= a.dec_prec)
      BY <2>3, <2>4
    <3>5. QED
      BY <3>1, <3>3, <3>4 DEF Adjusts, Ok, Returns, o
  <2>5. CASE v # 0
    <3>1. o = Ok(Shint(s, p, v))
      BY <2>2, <2>5
    <3>2. Operand(Shint(s, p, v)) /\ Number(Shint(s, p, v)) = Canonical(s * v, -p)
      BY <1>11, <2>5, ShintOperand
    <3>3. QED
      BY <1>2, <2>3, <3>1, <3>2 DEF Adjusts, Ok, Returns, o
  <2>6. QED
    BY <2>4, <2>5
<1>12. v < SHINT_LIMIT \/ v >= SHINT_LIMIT
  BY Limits
<1>13. QED
  BY <1>9, <1>10, <1>11, <1>12

(* fpdec_adjust leaves an operand. *)
LEMMA AdjustOutcome ==
  ASSUME NEW a, Operand(a), a.sign # 0 => MagnitudeFits(DigitsOf(a)), NEW prec \in Int, NEW mode
  PROVE  Adjusts(a, prec, fpdec_adjust(a, prec, mode))
<1> DEFINE o == fpdec_adjust(a, prec, mode)
<1>1. CASE ABS(prec) > FPDEC_MAX_DEC_PREC
  <2>1. o = Returns("PREC_LIMIT_EXCEEDED", a)
    BY <1>1 DEF fpdec_adjust
  <2>2. QED
    BY <2>1 DEF Adjusts, Returns
<1>2. CASE ~(ABS(prec) > FPDEC_MAX_DEC_PREC)
  <2>1. -FPDEC_MAX_DEC_PREC =< prec /\ prec =< FPDEC_MAX_DEC_PREC
    BY <1>2, Room DEF ABS
  <2>2. CASE a.dec_prec = prec
    <3>1. o = Ok(a)
      BY <1>2, <2>2 DEF fpdec_adjust
    <3>2. QED
      BY <3>1 DEF Adjusts, Ok, Returns
  <2>3. CASE a.dec_prec # prec /\ a.sign = 0
    <3>1. o = Ok([a EXCEPT !.dec_prec = AsDecPrec(prec)])
      BY <1>2, <2>3 DEF fpdec_adjust
    <3>2. PICK p \in 0 .. FPDEC_MAX_DEC_PREC : p = AsDecPrec(prec)
      BY AsDecPrecFacts
    <3>3. PICK b : b = [a EXCEPT !.dec_prec = p]
      OBVIOUS
    <3>4. Operand(b) /\ Number(b) = Number(a)
      BY <2>3, <3>3, PrecChanged
    <3>5. QED
      BY <3>1, <3>2, <3>3, <3>4 DEF Adjusts, Ok, Returns
  <2>4. CASE a.dec_prec # prec /\ a.sign # 0 /\ a.dyn
    <3>1. o = fpdec_dyn_adjust_to_prec(a, prec, mode)
      BY <1>2, <2>4 DEF fpdec_adjust
    <3>2. MagnitudeFits(a)
      BY <2>4 DEF MagnitudeFits, DigitsOf
    <3>3. QED
      BY <2>1, <2>4, <3>1, <3>2, DynAdjusted
  <2>5. CASE a.dec_prec # prec /\ a.sign # 0 /\ ~a.dyn /\ prec > MAX_DEC_PREC_FOR_SHINT
    <3>1. PICK b : b = AsDyn(a)
      OBVIOUS
    <3>2. /\ Operand(b) /\ b.dyn /\ b.dec_prec = a.dec_prec
          /\ Number(b) = Number(a) /\ MagnitudeFits(b)
      BY <2>5, <3>1, AsDynOperand
    <3>3. Adjusts(b, prec, fpdec_dyn_adjust_to_prec(b, prec, mode))
      BY <2>1, <3>2, DynAdjusted
    <3>4. o = fpdec_dyn_adjust_to_prec(b, prec, mode)
      BY <1>2, <2>5, <3>1, OperandConvertible DEF fpdec_adjust, Asserting
    <3>5. QED
      BY <3>2, <3>3, <3>4 DEF Adjusts
  <2>6. CASE a.dec_prec # prec /\ a.sign # 0 /\ ~a.dyn /\ ~(prec > MAX_DEC_PREC_FOR_SHINT)
    <3>1. o = fpdec_shint_adjust_to_prec(a, prec, mode)
      BY <1>2, <2>6 DEF fpdec_adjust
    <3>2. prec =< MAX_DEC_PREC_FOR_SHINT
      BY <2>6, Room
    <3>3. QED
      BY <2>1, <2>6, <3>1, <3>2, ShintAdjusted
  <2>7. QED
    BY <2>2, <2>3, <2>4, <2>5, <2>6
<1>3. QED
  BY <1>1, <1>2

-----------------------------------------------------------------------------
(***************************************************************************)
(* fpdec_normalize_prec. The zeros a digit ends with, and those of a       *)
(* shifted int.                                                            *)
(***************************************************************************)
LEMMA DigitZeros ==
  ASSUME NEW c \in Nat, NEW k \in Nat, k =< DEC_DIGITS_PER_DIGIT,
         NEW q \in Nat, c % RADIX = Power(10, k) * q
  PROVE  \E m \in Nat : c = m * Power(10, k)
<1>1. PICK w \in Nat \ {0} : w = Power(10, k)
  BY PowersOf10
<1>2. PICK r \in Nat : RADIX = w * r
  <2>1. PICK d \in Nat, b \in Nat \ {0} : d = DEC_DIGITS_PER_DIGIT /\ b = 10 /\ k =< d
    BY Limits
  <2>2. Power(b, d) = Power(b, k) * Power(b, d - k)
    BY <2>1, PowerDivides
  <2>3. d - k \in Nat
    BY <2>1
  <2>4. Power(10, d - k) \in Nat
    BY <2>3, PowersOf10
  <2>5. QED
    BY <1>1, <2>1, <2>2, <2>4, Limits
<1>3. PICK b \in Nat \ {0} : b = RADIX
  BY RadixPositive
<1>4. PICK h \in Nat, t \in Nat : h = c \div b /\ t = c % b /\ c = h * b + t
  <2>1. c \div b \in Nat /\ c % b \in 0 .. b - 1 /\ c = (c \div b) * b + (c % b)
    BY QuotientAndRest
  <2>2. c % b \in Nat
    BY <2>1
  <2>3. QED
    BY <2>1, <2>2
<1>5. c = h * (w * r) + w * q
  BY <1>1, <1>2, <1>3, <1>4
<1>6. h * (w * r) + w * q = (h * r + q) * w
  OBVIOUS
<1>7. h * r + q \in Nat
  OBVIOUS
<1>8. QED
  BY <1>1, <1>5, <1>6, <1>7

(* fpdec_normalize_prec keeps the number. *)
LEMMA NormalizePrecOutcome ==
  ASSUME NEW a, Operand(a)
  PROVE  LET o == fpdec_normalize_prec(a)
         IN  Operand(o.v) /\ Number(o.v) = Number(a)
<1> DEFINE o == fpdec_normalize_prec(a)
<1>1. CASE a.dyn
  <2>1. PICK s \in {-1, 1}, e \in INT32_MIN .. FPDEC_MAX_EXP, c \in Nat \ {0},
             q \in 0 .. FPDEC_MAX_DEC_PREC :
          s = a.sign /\ e = a.exp /\ e \in Int /\ c = a.coeff /\ q = a.dec_prec
    BY <1>1, DynFacts
  <2>2. PICK g \in Int : g = Place(e)
    BY <2>1, PlaceFacts
  <2>3. Number(a) = Canonical(s * c, g)
    BY <1>1, <2>1, <2>2, DynFacts
  <2>4. -a.exp * DEC_DIGITS_PER_DIGIT = -g
    <3>1. (-e) * DEC_DIGITS_PER_DIGIT = -(e * DEC_DIGITS_PER_DIGIT)
      BY <2>1, Limits
    <3>2. QED
      BY <2>1, <2>2, <3>1 DEF Place
  <2>5. ASSUME NEW p \in 0 .. FPDEC_MAX_DEC_PREC, Number(a)[2] >= -p,
               o = Ok([a EXCEPT !.dec_prec = p])
        PROVE  Operand(o.v) /\ Number(o.v) = Number(a)
    <3>1. PICK b : b = [a EXCEPT !.dec_prec = p]
      OBVIOUS
    <3>2. Operand(b) /\ Number(b) = Number(a)
      BY <1>1, <2>5, <3>1, PrecChanged
    <3>3. QED
      BY <2>5, <3>1, <3>2 DEF Ok, Returns
  <2>6. CASE a.exp >= 0
    <3>1. o = Ok([a EXCEPT !.dec_prec = 0])
      BY <1>1, <2>6 DEF fpdec_normalize_prec
    <3>2. PICK m \in Int, f \in Int : m = s * c /\ f = 0 /\ f =< 0 /\ f = -f /\ f =< g
      <4>1. 0 =< g
        <5>1. 0 \in Int /\ 0 =< e
          BY <2>1, <2>6
        <5>2. Place(0) =< Place(e)
          BY <2>1, <5>1, PlaceFacts
        <5>3. QED
          BY <2>2, <5>2, Places
      <4>2. QED
        BY <4>1
    <3>3. Canonical(m, g)[2] >= f
      BY <3>2, CanonicalCovered
    <3>4. f \in 0 .. FPDEC_MAX_DEC_PREC
      BY <3>2, Room
    <3>5. QED
      BY <2>3, <2>5, <3>1, <3>2, <3>3, <3>4
  <2>7. CASE ~(a.exp >= 0) /\ -g < q
    <3>1. PICK d \in Nat \ {0} : d = DEC_DIGITS_PER_DIGIT
      BY Limits
    <3>2. PICK t \in Nat : t = DigitAt(c, 0) /\ t = c % RADIX
      <4>1. c \div 1 = c
        OBVIOUS
      <4>2. DigitAt(c, 0) = c % RADIX
        BY <4>1, WeightZero DEF DigitAt
      <4>3. c % RADIX \in Nat
        <5>1. PICK b \in Nat \ {0} : b = RADIX
          BY RadixPositive
        <5>2. c % b \in Nat
          BY QuotientAndRest
        <5>3. QED
          BY <5>1, <5>2
      <4>4. QED
        BY <4>2, <4>3
    <3>3. PICK k \in 0 .. d : k = TrailingZeros(t, d) /\ \E u \in Nat : t = Power(10, k) * u
      <4>1. LET k == TrailingZeros(t, d)
                u == t \div Power(10, k)
            IN  k \in 0 .. d /\ u \in Nat /\ t = Power(10, k) * u
        BY TrailingZerosFacts
      <4>2. QED
        BY <4>1
    <3>4. g =< -d
      <4>1. e \in Int /\ -1 \in Int /\ e =< -1
        BY <2>1, <2>7
      <4>2. Place(e) =< Place(-1)
        BY <4>1, PlaceFacts
      <4>3. QED
        BY <2>2, <3>1, <4>2, Places
    <3>5. PICK p \in Int : p = -g - k
      <4>1. -g - k \in Int
        OBVIOUS
      <4>2. QED
        BY <4>1
    <3>6. p \in 0 .. FPDEC_MAX_DEC_PREC /\ -p = g + k
      BY <2>1, <2>7, <3>4, <3>5, Room
    <3>7. o = Ok([a EXCEPT !.dec_prec = p])
      <4>1. ~(a.exp >= 0) /\ -a.exp * DEC_DIGITS_PER_DIGIT < a.dec_prec
        BY <2>1, <2>4, <2>7
      <4>2. -a.exp * DEC_DIGITS_PER_DIGIT - TrailingZeros(DigitAt(a.coeff, 0), DEC_DIGITS_PER_DIGIT) = p
        BY <2>1, <2>4, <3>1, <3>2, <3>3, <3>5
      <4>3. QED
        BY <1>1, <4>1, <4>2 DEF fpdec_normalize_prec
    <3>8. PICK m \in Nat : c = m * Power(10, k)
      <4>1. PICK u \in Nat : c % RADIX = Power(10, k) * u
        BY <3>2, <3>3
      <4>2. k \in Nat /\ k =< DEC_DIGITS_PER_DIGIT
        BY <3>1, <3>3
      <4>3. QED
        BY <4>1, <4>2, DigitZeros
    <3>9. PICK j \in Int : j = g + k /\ g =< j /\ j - g = k
      BY <3>3
    <3>10. p \in Nat /\ -p =< j
      BY <3>6, <3>9
    <3>11. CoveredBy(s, m * Ten(g, j), g, p)
      BY <3>9, <3>10, CoveredShift
    <3>12. c = m * Ten(g, j)
      BY <3>8, <3>9 DEF Ten
    <3>13. Number(a)[2] >= -p
      BY <2>3, <3>11, <3>12 DEF CoveredBy
    <3>14. QED
      BY <2>5, <3>6, <3>7, <3>13
  <2>8. CASE ~(a.exp >= 0) /\ ~(-g < q)
    <3>1. o = Ok(a)
      BY <1>1, <2>1, <2>4, <2>8 DEF fpdec_normalize_prec
    <3>2. QED
      BY <3>1 DEF Ok, Returns
  <2>9. QED
    BY <2>6, <2>7, <2>8
<1>2. CASE ~a.dyn /\ a.coeff = 0
  <2>1. o = Ok(a)
    BY <1>2 DEF fpdec_normalize_prec
  <2>2. QED
    BY <2>1 DEF Ok, Returns
<1>3. CASE ~a.dyn /\ a.coeff # 0
  <2>1. PICK s \in {-1, 1}, c \in Nat \ {0}, q \in 0 .. MAX_DEC_PREC_FOR_SHINT :
          s = a.sign /\ c = a.coeff /\ q = a.dec_prec /\ c < SHINT_LIMIT
    BY <1>3 DEF Operand, WellFormed, Decimals
  <2>2. PICK k \in 0 .. q, u \in Nat : k = TrailingZeros(c, q) /\ u = c \div Power(10, k) /\ c = Power(10, k) * u
    <3>1. q \in Nat
      BY Room
    <3>2. LET k == TrailingZeros(c, q)
              u == c \div Power(10, k)
          IN  k \in 0 .. q /\ u \in Nat /\ c = Power(10, k) * u
      BY <3>1, TrailingZerosFacts
    <3>3. QED
      BY <3>2
  <2>3. PICK w \in Nat \ {0} : w = Power(10, k) /\ c = u * w
    <3>1. PICK w \in Nat \ {0} : w = Power(10, k)
      BY PowersOf10
    <3>2. w * u = u * w
      OBVIOUS
    <3>3. c = Power(10, k) * u
      BY <2>2
    <3>4. QED
      BY <3>1, <3>2, <3>3
  <2>4. u # 0 /\ u =< c
    BY <2>3
  <2>5. PICK p \in 0 .. MAX_DEC_PREC_FOR_SHINT : p = q - k
    BY <2>2, Room
  <2>6. PICK b : b = [a EXCEPT !.dec_prec = p, !.coeff = u]
    OBVIOUS
  <2>7. o = Ok(b)
    BY <1>3, <2>1, <2>2, <2>5, <2>6 DEF fpdec_normalize_prec
  <2>8. a \in Decimals
    BY DEF Operand
  <2>9. /\ b.dyn = FALSE /\ b.sign = s /\ b.dec_prec = p /\ b.coeff = u /\ b \in Decimals
    <3>1. p \in 0 .. FPDEC_MAX_DEC_PREC
      BY Room
    <3>2. QED
      BY <1>3, <2>1, <2>6, <2>8, <3>1 DEF Decimals
  <2>10. u < SHINT_LIMIT
    BY <2>1, <2>4, Limits
  <2>11. Operand(Shint(s, p, u)) /\ Number(Shint(s, p, u)) = Canonical(s * u, -p)
    BY <2>4, <2>10, ShintOperand
  <2>12. Number(b) = Canonical(s * u, -p)
    BY <2>9 DEF Number
  <2>13. PrecCoversDigits(b)
    <3>1. Canonical(s * u, -p)[2] >= -p
      BY <2>11 DEF Operand, PrecCoversDigits, Shint
    <3>2. QED
      BY <2>9, <2>12, <3>1 DEF PrecCoversDigits
  <2>14. WellFormed(b)
    BY <2>4, <2>9, <2>10 DEF WellFormed
  <2>15. Number(b) = Number(a)
    <3>1. PICK i \in Int, j \in Int : i = -q /\ j = -p /\ i =< j /\ j - i = k
      <4>1. q \in Nat /\ p \in Nat /\ k \in Nat /\ p = q - k
        BY <2>5, Room
      <4>2. -q \in Int /\ -p \in Int /\ -q =< -p /\ (-p) - (-q) = k
        BY <4>1
      <4>3. QED
        BY <4>2
    <3>2. ShiftsTo(s, u, i, j)
      BY <3>1, SignedShift
    <3>3. c = u * Ten(i, j)
      <4>1. c = u * w
        BY <2>3
      <4>2. QED
        BY <2>3, <3>1, <4>1 DEF Ten
    <3>4. Number(a) = Canonical(s * c, -q)
      BY <1>3, <2>1 DEF Number
    <3>5. QED
      BY <2>12, <3>1, <3>2, <3>3, <3>4 DEF ShiftsTo
  <2>16. QED
    BY <2>7, <2>9, <2>13, <2>14, <2>15 DEF Operand, Ok, Returns
<1>4. QED
  BY <1>1, <1>2, <1>3

-----------------------------------------------------------------------------
(***************************************************************************)
(* Creations.                                                              *)
(***************************************************************************)
LEMMA ZeroIsOperand == Operand(FPDEC_ZERO) /\ Number(FPDEC_ZERO) = << 0, 0 >>
<1>1. 0 \in 0 .. FPDEC_MAX_DEC_PREC
  BY Room
<1>2. QED
  BY <1>1, ZeroOperand DEF FPDEC_ZERO, ResetToZero

(* Digits without zeros on either side, of a number v * RADIX^e. *)
LEMMA CreatedDyn ==
  ASSUME NEW s \in {-1, 1}, NEW p \in 0 .. FPDEC_MAX_DEC_PREC, NEW v \in Nat \ {0}, NEW e \in Int
  PROVE  LET d == Trimmed(v, DigitCount[v], e)
             z1 == Dyn(s, p, d.coeff, d.n, d.exp)
         IN  /\ z1 \in Decimals /\ d.n # 0 /\ d.coeff \in Nat \ {0} /\ Stripped(d)
             /\ e + TrailingZeroDigits(v, DigitCount[v]) \in INT32_MIN .. FPDEC_MAX_EXP =>
                  /\ d.exp = e + TrailingZeroDigits(v, DigitCount[v])
                  /\ Canonical(s * d.coeff, Place(d.exp)) = Canonical(s * v, Place(e))
                  /\ CoveredBy(s, v, Place(e), p) => Operand(z1)
<1>1. PICK d : d = Trimmed(v, DigitCount[v], e)
  OBVIOUS
<1>2. Stripped(d) /\ d.exp \in INT32_MIN .. FPDEC_MAX_EXP
  BY <1>1, StrippedZeros
<1>3. Dyn(s, p, d.coeff, d.n, d.exp) \in Decimals
  <2>1. d.coeff \in Nat /\ d.n \in Nat /\ s \in -1 .. 1
    BY <1>2 DEF Stripped
  <2>2. QED
    BY <1>2, <2>1 DEF Dyn, Decimals
<1>4. ASSUME e + TrailingZeroDigits(v, DigitCount[v]) \in INT32_MIN .. FPDEC_MAX_EXP
      PROVE  /\ d.exp = e + TrailingZeroDigits(v, DigitCount[v])
             /\ Canonical(s * d.coeff, Place(d.exp)) = Canonical(s * v, Place(e))
             /\ CoveredBy(s, v, Place(e), p) => Operand(Dyn(s, p, d.coeff, d.n, d.exp))
  <2>1. DigitCount[v] \in Nat /\ v < Weight(DigitCount[v])
    BY DigitCountRange
  <2>2. s \in Int
    OBVIOUS
  <2>3. /\ d.exp = e + TrailingZeroDigits(v, DigitCount[v])
        /\ Canonical(s * d.coeff, d.exp * DEC_DIGITS_PER_DIGIT)
             = Canonical(s * v, e * DEC_DIGITS_PER_DIGIT)
    BY <1>1, <1>4, <2>1, <2>2, TrimmedNumber
  <2>6. Canonical(s * d.coeff, Place(d.exp)) = Canonical(s * v, Place(e))
    BY <2>3 DEF Place
  <2>4. CoveredBy(s, v, Place(e), p) => Canonical(s * d.coeff, Place(d.exp))[2] >= -p
    BY <2>6 DEF CoveredBy
  <2>5. QED
    BY <1>2, <2>3, <2>4, <2>6, DynOperand
<1>5. QED
  BY <1>1, <1>2, <1>3, <1>4 DEF Stripped

(* Creation from a literal. *)
LEMMA LiteralOutcome ==
  ASSUME NEW literal, literal.negative \in BOOLEAN, literal.coeff \in Nat,
         literal.n_dec_digits \in Nat, literal.exp \in Int
  PROVE  LET o == fpdec_from_ascii_literal(literal)
         IN  /\ o.v \in Decimals /\ o.rc # "ABORT"
             /\ ~LiteralWraps(literal) => Operand(o.v)
<1> DEFINE o == fpdec_from_ascii_literal(literal)
<1>1. PICK s \in {-1, 1} : s = IF literal.negative THEN -1 ELSE 1
  OBVIOUS
<1>2. PICK c \in Nat, e \in Int : c = literal.coeff /\ e = literal.exp
  OBVIOUS
<1>3. PICK p \in Nat : p = MAX(0, -e) /\ -p =< e /\ (~(-e > FPDEC_MAX_DEC_PREC) => p \in 0 .. FPDEC_MAX_DEC_PREC)
  <2>1. MAX(0, -e) \in Nat /\ -MAX(0, -e) =< e
    BY DEF MAX
  <2>2. ~(-e > FPDEC_MAX_DEC_PREC) => MAX(0, -e) \in 0 .. FPDEC_MAX_DEC_PREC
    BY Room DEF MAX
  <2>3. QED
    BY <2>1, <2>2
<1>4. PICK u \in Nat : u = c * Power(10, MAX(0, e))
  <2>1. MAX(0, e) \in Nat
    BY DEF MAX
  <2>2. Power(10, MAX(0, e)) \in Nat
    BY <2>1, PowersOf10
  <2>3. QED
    BY <2>2
<1>5. PICK t \in Nat, f \in Int : /\ t = MOD(e, DEC_DIGITS_PER_DIGIT) /\ f = FLOOR(e, DEC_DIGITS_PER_DIGIT)
                                  /\ Place(f) \in Int /\ e = Place(f) + t
  <2>1. PICK d \in Nat \ {0} : d = DEC_DIGITS_PER_DIGIT
    BY Limits
  <2>2. e \div d \in Int /\ e % d \in 0 .. d - 1 /\ e = d * (e \div d) + (e % d)
    BY Z3
  <2>3. PICK f \in Int, t \in Nat : f = e \div d /\ t = e % d
    BY <2>2
  <2>4. e = d * f + t
    BY <2>2, <2>3
  <2>5. d * f = f * d /\ f * d \in Int
    OBVIOUS
  <2>6. Place(f) = f * d
    BY <2>1 DEF Place
  <2>7. QED
    BY <2>1, <2>3, <2>4, <2>5, <2>6 DEF MOD, FLOOR
<1>6. PICK v \in Nat : v = c * Power(10, t) /\ v = c * u64_10_pow_n(MOD(e, DEC_DIGITS_PER_DIGIT))
  <2>1. Power(10, t) \in Nat
    BY PowersOf10
  <2>2. c * Power(10, t) \in Nat
    BY <2>1
  <2>3. QED
    BY <1>5, <2>2 DEF u64_10_pow_n
<1> DEFINE d == Trimmed(v, DigitCount[v], f)
           short == /\ literal.n_dec_digits + MAX(0, e) =< MAX_N_DEC_DIGITS_IN_SHINT
                    /\ p =< MAX_DEC_PREC_FOR_SHINT
                    /\ u < SHINT_LIMIT
<1>7. o = IF CEIL(e, DEC_DIGITS_PER_DIGIT) > FPDEC_MAX_EXP
          THEN Returns("EXP_LIMIT_EXCEEDED", FPDEC_ZERO)
          ELSE IF -e > FPDEC_MAX_DEC_PREC
          THEN Returns("PREC_LIMIT_EXCEEDED", FPDEC_ZERO)
          ELSE IF short
          THEN Ok(Shint(IF u = 0 THEN 0 ELSE s, p, u))
          ELSE Ok(IF d.n > 0 THEN Dyn(s, p, d.coeff, d.n, d.exp) ELSE ResetToZero(p))
  BY <1>1, <1>2, <1>3, <1>4, <1>5, <1>6 DEF fpdec_from_ascii_literal
<1> HIDE DEF o, short
<1>8. CASE CEIL(e, DEC_DIGITS_PER_DIGIT) > FPDEC_MAX_EXP \/ -e > FPDEC_MAX_DEC_PREC
  BY <1>7, <1>8, ZeroIsOperand DEF Returns, Operand, o
<1>9. CASE /\ ~(CEIL(e, DEC_DIGITS_PER_DIGIT) > FPDEC_MAX_EXP \/ -e > FPDEC_MAX_DEC_PREC)
           /\ short
  <2>1. o = Ok(Shint(IF u = 0 THEN 0 ELSE s, p, u))
    BY <1>7, <1>9
  <2>2. u < SHINT_LIMIT /\ p \in 0 .. MAX_DEC_PREC_FOR_SHINT /\ p \in 0 .. FPDEC_MAX_DEC_PREC
    BY <1>3, <1>9, Room DEF short
  <2>3. CASE u = 0
    <3>1. o = Ok(ResetToZero(p))
      BY <2>1, <2>3 DEF ResetToZero
    <3>2. QED
      BY <2>2, <3>1, ZeroOperand DEF Ok, Returns, Operand, o
  <2>4. CASE u # 0
    <3>1. Operand(Shint(s, p, u))
      BY <2>2, <2>4, ShintOperand
    <3>2. QED
      BY <2>1, <2>4, <3>1 DEF Ok, Returns, Operand, o
  <2>5. QED
    BY <2>3, <2>4
<1>10. CASE /\ ~(CEIL(e, DEC_DIGITS_PER_DIGIT) > FPDEC_MAX_EXP \/ -e > FPDEC_MAX_DEC_PREC)
            /\ ~short
  <2>1. o = Ok(IF d.n > 0 THEN Dyn(s, p, d.coeff, d.n, d.exp) ELSE ResetToZero(p))
    BY <1>7, <1>10
  <2>2. p \in 0 .. FPDEC_MAX_DEC_PREC
    BY <1>3, <1>10
  <2>3. CASE v = 0
    <3>1. d.n = 0
      BY <2>3, NoDigits
    <3>2. o = Ok(ResetToZero(p))
      BY <2>1, <3>1
    <3>3. QED
      BY <2>2, <3>2, ZeroOperand DEF Ok, Returns, Operand, o
  <2>4. CASE v # 0
    <3>1. PICK k : k = TrailingZeroDigits(v, DigitCount[v])
      OBVIOUS
    <3>2. PICK z1 : z1 = Dyn(s, p, d.coeff, d.n, d.exp)
      OBVIOUS
    <3>3. /\ z1 \in Decimals /\ Stripped(d)
          /\ f + k \in INT32_MIN .. FPDEC_MAX_EXP /\ CoveredBy(s, v, Place(f), p) => Operand(z1)
      BY <2>2, <2>4, <3>1, <3>2, CreatedDyn
    <3>4. d.n > 0
      BY <3>3 DEF Stripped
    <3>5. o = Ok(z1)
      BY <2>1, <3>2, <3>4
    <3> HIDE DEF d
    <3>6. k \in Nat
      <4>1. DigitCount[v] \in Nat
        BY <2>4, DigitCountRange
      <4>2. k \in 0 .. DigitCount[v] - 1
        BY <2>4, <3>1, StrippedZeros
      <4>3. QED
        BY <4>1, <4>2
    <3>7. INT32_MIN =< f
      <4>1. PICK g \in Int, i \in Int : g = Place(f) /\ i = Place(INT32_MIN)
        <5>1. INT32_MIN \in Int
          BY Room
        <5>2. QED
          BY <5>1, PlaceFacts
      <4>2. -FPDEC_MAX_DEC_PREC =< e /\ -FPDEC_MAX_DEC_PREC - DEC_DIGITS_PER_DIGIT =< g
        <5>1. -FPDEC_MAX_DEC_PREC =< e
          BY <1>10, Room
        <5>2. t < DEC_DIGITS_PER_DIGIT
          <6>1. PICK b \in Nat \ {0} : b = DEC_DIGITS_PER_DIGIT
            BY Limits
          <6>2. e % b \in 0 .. b - 1
            BY Z3
          <6>3. QED
            BY <1>5, <6>1, <6>2 DEF MOD
        <5>3. e = g + t /\ t \in Int
          <6>1. Place(f) = g
            BY <4>1
          <6>2. e = Place(f) + t
            BY <1>5
          <6>3. QED
            BY <6>1, <6>2
        <5>0. e \in Int /\ g \in Int
          OBVIOUS
        <5>4. QED
          BY <5>0, <5>1, <5>2, <5>3, Room
      <4>3. SUFFICES ASSUME f < INT32_MIN PROVE FALSE
        BY Room
      <4>4. f =< INT32_MIN
        BY <4>3, Room
      <4>5. g =< i
        BY <4>1, <4>4, PlaceFacts, Room
      <4>6. i =< INT32_MIN
        <5>1. PICK b \in Nat \ {0}, m \in Nat : b = DEC_DIGITS_PER_DIGIT /\ m = FPDEC_MAX_EXP + 1 /\ INT32_MIN = -m
          BY Limits
        <5>2. m * b >= m /\ (-m) * b = -(m * b) /\ m * b \in Nat
          OBVIOUS
        <5>3. i = (-m) * b
          BY <4>1, <5>1 DEF Place
        <5>4. QED
          BY <5>1, <5>2, <5>3
      <4>7. QED
        BY <4>1, <4>2, <4>5, <4>6, Room
    <3>8. ASSUME ~LiteralWraps(literal) PROVE f + k \in INT32_MIN .. FPDEC_MAX_EXP
      <4>1. ~(f + k > FPDEC_MAX_EXP)
        BY <1>2, <1>5, <1>6, <3>1, <3>8 DEF LiteralWraps
      <4>2. QED
        BY <3>6, <3>7, <4>1, Room
    <3>9. CoveredBy(s, v, Place(f), p)
      <4>1. PICK g \in Int : g = Place(f) /\ g =< e /\ e - g = t
        BY <1>5
      <4>2. CoveredBy(s, c * Ten(g, e), g, p)
        BY <1>3, <4>1, CoveredShift
      <4>3. v = c * Ten(g, e)
        BY <1>6, <4>1 DEF Ten
      <4>4. QED
        BY <4>1, <4>2, <4>3
    <3>10. QED
      BY <3>3, <3>5, <3>8, <3>9 DEF Ok, Returns, o
  <2>5. QED
    BY <2>3, <2>4
<1>11. QED
  BY <1>8, <1>9, <1>10

(* Creation from an integer. *)
LEMMA LongLongOutcome ==
  ASSUME NEW val \in Int, ABS(val) < SHINT_LIMIT
  PROVE  LET o == fpdec_from_long_long(val) IN o.rc = "OK" /\ Operand(o.v)
<1>1. fpdec_from_long_long(val) = Ok(Shint(CMP(val, 0), 0, ABS(val)))
  BY DEF fpdec_from_long_long
<1>2. 0 \in 0 .. MAX_DEC_PREC_FOR_SHINT
  BY Room
<1>3. CASE val = 0
  <2>1. Shint(CMP(val, 0), 0, ABS(val)) = FPDEC_ZERO
    BY <1>3 DEF CMP, ABS, FPDEC_ZERO
  <2>2. QED
    BY <1>1, <2>1, ZeroIsOperand DEF Ok, Returns
<1>4. CASE val # 0
  <2>1. CMP(val, 0) \in {-1, 1} /\ ABS(val) \in Nat \ {0}
    BY <1>4 DEF CMP, ABS
  <2>2. Operand(Shint(CMP(val, 0), 0, ABS(val)))
    BY <1>2, <2>1, ShintOperand
  <2>3. QED
    BY <1>1, <2>2 DEF Ok, Returns
<1>5. QED
  BY <1>3, <1>4

(* Creation from digits: all zero, they are not usable. *)
LEMMA DigitsOutcome ==
  ASSUME NEW s \in {-1, 1}, NEW c \in Nat, NEW e \in INT32_MIN .. FPDEC_MAX_EXP
  PROVE  LET o == fpdec_from_sign_digits_exp(s, c, e)
         IN  /\ o.rc = "OK" /\ o.v \in Decimals
             /\ ~DigitsWrap(<< s, c, e >>) =>
                  PrecCoversDigits(o.v) /\ (c # 0 => Operand(o.v)) /\ (c = 0 => ~Usable(o.v))
<1> DEFINE o == fpdec_from_sign_digits_exp(s, c, e)
           d == Trimmed(c, DigitCount[c], e)
<1>1. e \in Int
  BY Room
<1>2. CASE c = 0
  <2>1. d.n = 0
    BY <1>1, <1>2, NoDigits
  <2>2. o = Ok(Shint(s, 0, 0))
    BY <2>1 DEF fpdec_from_sign_digits_exp
  <2>3. PICK z1 : z1 = Shint(s, 0, 0)
    OBVIOUS
  <2>4. z1.dyn = FALSE /\ z1.sign = s /\ z1.dec_prec = 0 /\ z1.coeff = 0
    BY <2>3 DEF Shint
  <2>5. z1 \in Decimals
    <3>1. 0 \in INT32_MIN .. FPDEC_MAX_EXP /\ s \in -1 .. 1 /\ 0 \in 0 .. FPDEC_MAX_DEC_PREC
      BY Room
    <3>2. QED
      BY <2>3, <3>1 DEF Shint, Decimals
  <2>6. PrecCoversDigits(z1)
    <3>1. s * 0 = 0
      OBVIOUS
    <3>2. Number(z1) = << 0, 0 >>
      BY <2>4, <3>1, CanonicalZero DEF Number
    <3>3. QED
      BY <2>4, <3>2 DEF PrecCoversDigits
  <2>7. ~Usable(z1)
    BY <2>4 DEF Usable
  <2>8. QED
    BY <1>2, <2>2, <2>3, <2>5, <2>6, <2>7 DEF Ok, Returns
<1>3. CASE c # 0
  <2>1. PICK k \in Nat : k = TrailingZeroDigits(c, DigitCount[c])
    <3>1. DigitCount[c] \in Nat
      BY <1>3, DigitCountRange
    <3>2. TrailingZeroDigits(c, DigitCount[c]) \in 0 .. DigitCount[c] - 1
      BY <1>3, StrippedZeros
    <3>3. QED
      BY <3>1, <3>2
  <2>2. Stripped(d) /\ d.exp \in INT32_MIN .. FPDEC_MAX_EXP /\ d.n # 0
    BY <1>1, <1>3, StrippedZeros DEF Stripped
  <2>3. ASSUME ~DigitsWrap(<< s, c, e >>)
        PROVE  /\ e + k \in INT32_MIN .. FPDEC_MAX_EXP /\ -(e + k) * DEC_DIGITS_PER_DIGIT =< FPDEC_MAX_DEC_PREC
               /\ d.exp = e + k
    <3>1. ~(e + k > FPDEC_MAX_EXP) /\ ~(-(e + k) * DEC_DIGITS_PER_DIGIT > FPDEC_MAX_DEC_PREC)
      BY <2>1, <2>3 DEF DigitsWrap
    <3>2. -(e + k) * DEC_DIGITS_PER_DIGIT \in Int
      BY <1>1, Room
    <3>3. e + k \in INT32_MIN .. FPDEC_MAX_EXP
      BY <1>1, <3>1, Room
    <3>4. 0 \in 0 .. FPDEC_MAX_DEC_PREC
      BY Room
    <3>5. d.exp = e + k
      BY <1>1, <1>3, <2>1, <3>3, <3>4, CreatedDyn
    <3>6. QED
      BY <3>1, <3>2, <3>3, <3>5, Room
  <2>4. CASE d.n = 1 /\ d.exp = 0
    <3>1. o = Ok(Shint(s, 0, d.coeff))
      BY <2>2, <2>4 DEF fpdec_from_sign_digits_exp
    <3>2. d.coeff \in Nat \ {0} /\ d.coeff < SHINT_LIMIT
      <4>1. d.coeff \in Nat \ {0} /\ d.coeff < Weight(1)
        BY <2>2, <2>4 DEF Stripped
      <4>2. Weight(0 + 1) = RADIX * Weight(0)
        BY WeightFacts
      <4>3. RADIX < SHINT_LIMIT
        <5>1. PICK t \in Nat : t = u64_10_pow_n(MAX_DEC_PREC_FOR_SHINT)
          BY PowersOf10, Room DEF u64_10_pow_n
        <5>2. PICK b \in Nat, l \in Nat : b = RADIX /\ l = SHINT_LIMIT
          BY RadixPositive, Limits
        <5>3. b + b * t < l
          BY <5>1, <5>2, ShintAssumption
        <5>4. b * t \in Nat
          OBVIOUS
        <5>5. QED
          BY <5>2, <5>3, <5>4
      <4>4. QED
        BY <4>1, <4>2, <4>3, WeightZero, RadixPositive, Limits
    <3>3. 0 \in 0 .. MAX_DEC_PREC_FOR_SHINT
      BY Room
    <3>4. Operand(Shint(s, 0, d.coeff))
      BY <3>2, <3>3, ShintOperand
    <3>5. QED
      BY <1>3, <3>1, <3>4 DEF Ok, Returns, Operand
  <2>5. CASE ~(d.n = 1 /\ d.exp = 0)
    <3>1. PICK p \in 0 .. FPDEC_MAX_DEC_PREC :
            p = IF d.exp >= 0 THEN 0 ELSE AsDecPrec(-d.exp * DEC_DIGITS_PER_DIGIT)
      <4>1. -d.exp * DEC_DIGITS_PER_DIGIT \in Int
        BY <2>2, Room
      <4>2. AsDecPrec(-d.exp * DEC_DIGITS_PER_DIGIT) \in 0 .. FPDEC_MAX_DEC_PREC
        BY <4>1, AsDecPrecFacts
      <4>3. 0 \in 0 .. FPDEC_MAX_DEC_PREC
        BY Room
      <4>4. QED
        BY <4>2, <4>3
    <3>2. PICK z1 : z1 = Dyn(s, p, d.coeff, d.n, d.exp)
      OBVIOUS
    <3>3. o = Ok(z1)
      BY <2>2, <2>5, <3>1, <3>2 DEF fpdec_from_sign_digits_exp
    <3>4. /\ z1 \in Decimals
          /\ e + k \in INT32_MIN .. FPDEC_MAX_EXP /\ CoveredBy(s, c, Place(e), p) => Operand(z1)
      BY <1>1, <1>3, <2>1, <3>2, CreatedDyn
    <3>5. ASSUME ~DigitsWrap(<< s, c, e >>) PROVE CoveredBy(s, c, Place(e), p)
      <4>1. PICK j \in Int : j = e + k
        BY <1>1
      <4>2. PICK f \in Int : f = Place(j)
        BY PlaceFacts
      <4>3. d.exp = j /\ -j * DEC_DIGITS_PER_DIGIT =< FPDEC_MAX_DEC_PREC
        BY <2>3, <3>5, <4>1
      <4>4. -j * DEC_DIGITS_PER_DIGIT = -f
        <5>1. (-j) * DEC_DIGITS_PER_DIGIT = -(j * DEC_DIGITS_PER_DIGIT)
          BY Limits
        <5>2. QED
          BY <4>2, <5>1 DEF Place
      <4>5. -p =< f
        <5>1. CASE j >= 0
          <6>1. 0 \in Int
            OBVIOUS
          <6>2. Place(0) =< Place(j)
            BY <5>1, <6>1, PlaceFacts
          <6>3. QED
            BY <4>2, <6>2, Places, Room
        <5>2. CASE j < 0
          <6>1. -1 \in Int /\ j =< -1
            BY <5>2
          <6>2. Place(j) =< Place(-1)
            BY <6>1, PlaceFacts
          <6>3. f =< 0
            BY <4>2, <6>2, Places, Limits
          <6>4. PICK g \in Int : g = -f
            <7>1. -f \in Int
              OBVIOUS
            <7>2. QED
              BY <7>1
          <6>5. g \in 0 .. FPDEC_MAX_DEC_PREC
            BY <4>3, <4>4, <6>3, <6>4, Room
          <6>6. AsDecPrec(g) = g
            BY <6>5, AsDecPrecFacts
          <6>7. ~(d.exp >= 0)
            BY <4>3, <5>2
          <6>8. p = g
            BY <3>1, <4>3, <4>4, <6>4, <6>6, <6>7
          <6>9. QED
            BY <6>4, <6>8
        <5>3. QED
          BY <5>1, <5>2
      <4>6. Canonical(s * d.coeff, f) = Canonical(s * c, Place(e))
        <5>1. s \in Int /\ DigitCount[c] \in Nat /\ c < Weight(DigitCount[c])
          BY <1>3, DigitCountRange
        <5>2. e + TrailingZeroDigits(c, DigitCount[c]) \in INT32_MIN .. FPDEC_MAX_EXP
          BY <2>1, <2>3, <3>5
        <5>5. 0 \in 0 .. FPDEC_MAX_DEC_PREC
          BY Room
        <5>3. d.exp = e + k /\ Canonical(s * d.coeff, Place(d.exp)) = Canonical(s * c, Place(e))
          BY <1>1, <1>3, <2>1, <5>1, <5>2, <5>5, CreatedDyn
        <5>4. QED
          BY <4>2, <4>3, <5>3
      <4>7. PICK m \in Int, g \in Int : m = s * d.coeff /\ g = -p /\ g =< 0 /\ g =< f
        <5>1. d.coeff \in Nat
          BY <2>2 DEF Stripped
        <5>2. s * d.coeff \in Int /\ -p \in Int /\ -p =< 0
          BY <5>1, Room
        <5>3. QED
          BY <4>5, <5>2
      <4>8. Canonical(m, f)[2] >= g
        BY <4>7, CanonicalCovered
      <4>9. QED
        BY <4>6, <4>7, <4>8 DEF CoveredBy
    <3>6. QED
      BY <1>3, <2>3, <3>3, <3>4, <3>5 DEF Ok, Returns, Operand
  <2>6. QED
    BY <2>4, <2>5
<1>4. QED
  BY <1>2, <1>3

-----------------------------------------------------------------------------
(***************************************************************************)
(* The state machine. The operands are numbers in good form, always. The   *)
(* result is a value of fpdec_t, and, unless its exponent has wrapped, one *)
(* the client may keep: either it is in good form, or it is not usable.    *)
(***************************************************************************)
ResultOk ==
  /\ z \in Decimals
  /\ ~ExponentWraps =>
       /\ PrecCoversDigits(z)
       /\ call.rc = "OK" /\ Usable(z) => Operand(z)
       /\ call.rc = "OK" /\ ~SumIsLost /\ ~ProductIsLost /\ ~ZeroIsSigned => WellFormed(z)
       /\ call.rc = "ABORT" => SumIsLost

ResultInv == ResultOk /\ SumsAreExact /\ MulIsExact

FpdecInv == TypeOK /\ Operand(x) /\ Operand(y) /\ ResultInv

(* What the calls of other functions than add, sub and mul leave. *)
LEMMA OtherResult ==
  ASSUME z' \in Decimals, call'.fn \notin {"add", "sub", "mul"},
         ~ExponentWraps' => /\ PrecCoversDigits(z') /\ call'.rc # "ABORT"
                            /\ Operand(z') \/ (ZeroIsSigned' /\ ~Usable(z'))
  PROVE  ResultInv'
<1>1. SumsAreExact' /\ MulIsExact'
  BY DEF SumsAreExact, MulIsExact, Return
<1>2. Operand(z') => WellFormed(z')
  BY DEF Operand
<1>3. ResultOk'
  BY <1>2 DEF ResultOk
<1>4. QED
  BY <1>1, <1>3 DEF ResultInv

(* An operand, of a function that cannot wrap an exponent. *)
LEMMA OperandResult ==
  ASSUME Operand(z'), call'.fn \notin {"add", "sub", "mul"}, call'.rc # "ABORT"
  PROVE  z' \in Decimals /\ ResultInv'
<1>1. z' \in Decimals /\ PrecCoversDigits(z')
  BY DEF Operand
<1>2. QED
  BY <1>1, OtherResult

(* No result at all. *)
LEMMA NoResult ==
  ASSUME z' = FPDEC_ZERO, call'.fn \notin {"add", "sub", "mul"}, call'.rc # "ABORT"
  PROVE  z' \in Decimals /\ ResultInv'
BY ZeroIsOperand, OperandResult

(* At first all numbers are 0. *)
LEMMA InitResult == Init => FpdecInv
<1> SUFFICES ASSUME Init PROVE FpdecInv
  OBVIOUS
<1>1. Operand(x) /\ Operand(y) /\ Operand(z)
  BY ZeroIsOperand DEF Init
<1>2. TypeOK
  BY <1>1, InputsAssumption DEF Init, TypeOK, Operand, RoundingModes
<1>3. call.fn = "none" /\ call.rc = "OK"
  BY DEF Init, Nothing, Called
<1>4. ResultOk
  BY <1>1, <1>3 DEF ResultOk, Operand
<1>5. SumsAreExact /\ MulIsExact
  BY <1>3 DEF SumsAreExact, MulIsExact, Return
<1>6. QED
  BY <1>1, <1>2, <1>4, <1>5 DEF FpdecInv, ResultInv

(* The actions, one by one. *)
LEMMA FromLiteralInv ==
  ASSUME FpdecInv, FromLiteral
  PROVE  ResultInv'
<1>1. PICK literal \in Literals : Calling("from_ascii_literal", fpdec_from_ascii_literal(literal))
  BY DEF FromLiteral
<1>2. /\ literal.negative \in BOOLEAN /\ literal.coeff \in Nat
      /\ literal.n_dec_digits \in Nat /\ literal.exp \in Int
  BY InputsAssumption
<1>3. PICK o : o = fpdec_from_ascii_literal(literal)
  OBVIOUS
<1>4. /\ o.v \in Decimals /\ o.rc # "ABORT"
      /\ ~LiteralWraps(literal) => Operand(o.v)
  BY <1>2, <1>3, LiteralOutcome
<1>5. z' = o.v /\ call'.fn = "from_ascii_literal" /\ call'.rc = o.rc
  BY <1>1, <1>3 DEF Calling, Called
<1>6. LiteralWraps(literal) => ExponentWraps'
  BY <1>3, <1>5 DEF ExponentWraps
<1>7. QED
  BY <1>4, <1>5, <1>6, OtherResult DEF Operand

LEMMA FromDigitsInv ==
  ASSUME FpdecInv, FromDigits
  PROVE  ResultInv'
<1>1. PICK d \in DigitValues :
        Calling("from_sign_digits_exp", fpdec_from_sign_digits_exp(d[1], d[2], d[3]))
  BY DEF FromDigits
<1>2. PICK s \in {-1, 1}, c \in Nat, e \in INT32_MIN .. FPDEC_MAX_EXP : s = d[1] /\ c = d[2] /\ e = d[3]
  BY InputsAssumption
<1>3. PICK o : o = fpdec_from_sign_digits_exp(s, c, e)
  OBVIOUS
<1>4. /\ o.rc = "OK" /\ o.v \in Decimals
      /\ ~DigitsWrap(<< s, c, e >>) =>
           PrecCoversDigits(o.v) /\ (c # 0 => Operand(o.v)) /\ (c = 0 => ~Usable(o.v))
  BY <1>3, DigitsOutcome
<1>5. z' = o.v /\ call'.fn = "from_sign_digits_exp" /\ call'.rc = o.rc
  BY <1>1, <1>2, <1>3 DEF Calling, Called
<1>6. DigitsWrap(<< s, c, e >>) <=> DigitsWrap(d)
  BY <1>2 DEF DigitsWrap
<1>7. DigitsWrap(d) => ExponentWraps'
  BY <1>2, <1>3, <1>5 DEF ExponentWraps
<1>8. c = 0 => ZeroIsSigned'
  BY <1>2, <1>3, <1>5 DEF ZeroIsSigned
<1>9. QED
  BY <1>4, <1>5, <1>6, <1>7, <1>8, OtherResult

LEMMA AddInv ==
  ASSUME FpdecInv, Add
  PROVE  ResultInv'
<1>1. PICK o : o = fpdec_add(x, y)
  OBVIOUS
<1>2. /\ z' = o.v /\ call'.fn = "add" /\ call'.rc = o.rc /\ x' = x /\ y' = y
  BY <1>1 DEF Add, Calling, Called, operands
<1>3. Operand(x) /\ Operand(y) /\ Comparable(x, y)
  BY DEF FpdecInv, Add, Alignable, Comparable
<1>4. Safe(o) /\ (~SumLost(x, y, x.sign = y.sign) => Exactly(o, Plus(Number(x), Number(y))))
  BY <1>1, <1>3, AddOutcome
<1>5. SumIsLost' <=> SumLost(x, y, x.sign = y.sign)
  BY <1>2 DEF SumIsLost, SumLost, ShintsOverflow, ShintsLost, CarryIsLost, CarryLost, LostCarry
<1>6. ~SumIsLost' => o.rc = "OK" /\ Operand(o.v) /\ Number(o.v) = Plus(Number(x), Number(y))
  BY <1>4, <1>5 DEF Exactly
<1>7. /\ o.v \in Decimals /\ PrecCoversDigits(o.v)
      /\ o.rc = "OK" /\ Usable(o.v) => Operand(o.v)
  BY <1>4 DEF Safe
<1>8. Operand(o.v) => WellFormed(o.v)
  BY DEF Operand
<1>9. ResultOk'
  BY <1>2, <1>6, <1>7, <1>8 DEF ResultOk
<1>10. SumsAreExact' /\ MulIsExact'
  BY <1>2, <1>6 DEF SumsAreExact, MulIsExact, Return
<1>11. QED
  BY <1>9, <1>10 DEF ResultInv

LEMMA SubInv ==
  ASSUME FpdecInv, Sub
  PROVE  ResultInv'
<1>1. PICK o : o = fpdec_sub(x, y)
  OBVIOUS
<1>2. /\ z' = o.v /\ call'.fn = "sub" /\ call'.rc = o.rc /\ x' = x /\ y' = y
  BY <1>1 DEF Sub, Calling, Called, operands
<1>3. Operand(x) /\ Operand(y) /\ Comparable(x, y)
  BY DEF FpdecInv, Sub, Alignable, Comparable
<1>4. Safe(o) /\ (~SumLost(x, y, x.sign # y.sign) => Exactly(o, Plus(Number(x), Minus(Number(y)))))
  BY <1>1, <1>3, SubOutcome
<1>5. SumIsLost' <=> SumLost(x, y, x.sign # y.sign)
  <2>1. x.sign \in -1 .. 1 /\ y.sign \in -1 .. 1
    BY <1>3 DEF Operand, Decimals
  <2>2. x.sign # 0 /\ y.sign # 0 => (x.sign = -y.sign <=> x.sign # y.sign)
    BY <2>1
  <2>3. ShintsOverflow' <=> x.sign # 0 /\ y.sign # 0 /\ ShintsLost(x, y, x.sign # y.sign)
    BY <1>2, <2>2 DEF ShintsOverflow, ShintsLost
  <2>4. CarryIsLost' <=> x.sign # 0 /\ y.sign # 0 /\ CarryLost(x, y)
    BY <1>2 DEF CarryIsLost, CarryLost, LostCarry
  <2>5. QED
    BY <1>2, <2>3, <2>4 DEF SumIsLost, SumLost
<1>6. ~SumIsLost' => o.rc = "OK" /\ Operand(o.v) /\ Number(o.v) = Plus(Number(x), Minus(Number(y)))
  BY <1>4, <1>5 DEF Exactly
<1>7. /\ o.v \in Decimals /\ PrecCoversDigits(o.v)
      /\ o.rc = "OK" /\ Usable(o.v) => Operand(o.v)
  BY <1>4 DEF Safe
<1>8. Operand(o.v) => WellFormed(o.v)
  BY DEF Operand
<1>9. ResultOk'
  BY <1>2, <1>6, <1>7, <1>8 DEF ResultOk
<1>10. SumsAreExact' /\ MulIsExact'
  BY <1>2, <1>6 DEF SumsAreExact, MulIsExact, Return
<1>11. QED
  BY <1>9, <1>10 DEF ResultInv

LEMMA MulInv ==
  ASSUME FpdecInv, Mul
  PROVE  ResultInv'
<1>1. PICK o : o = fpdec_mul(x, y)
  OBVIOUS
<1>2. /\ z' = o.v /\ call'.fn = "mul" /\ call'.rc = o.rc /\ x' = x /\ y' = y
  BY <1>1 DEF Mul, Calling, Called, operands
<1>3. Operand(x) /\ Operand(y) /\ (x.sign # 0 /\ y.sign # 0 => Multiplies(x, y))
  BY DEF FpdecInv, Mul, Multipliable, Multiplies
<1>4. /\ o.v \in Decimals
      /\ ~Wrapped(x, y) => Safe(o) /\ o.rc # "ABORT"
      /\ ~Wrapped(x, y) /\ ~Overflows(x, y) /\ ~Overflows(y, x) =>
           Right(o, Times(Number(x), Number(y)))
  BY <1>1, <1>3, MulOutcome
<1>5. ExponentWraps' <=> Wrapped(x, y)
  BY <1>2 DEF ExponentWraps, ProductWraps, Wrapped, WrapsInProduct
<1>6. ProductIsLost' <=> Overflows(x, y) \/ Overflows(y, x)
  BY <1>2 DEF ProductIsLost
<1>7. ~ExponentWraps' => /\ PrecCoversDigits(o.v) /\ o.rc # "ABORT"
                         /\ o.rc = "OK" /\ Usable(o.v) => Operand(o.v)
  BY <1>4, <1>5 DEF Safe
<1>8. ~ExponentWraps' /\ ~ProductIsLost' /\ o.rc = "OK" =>
        Operand(o.v) /\ Number(o.v) = Times(Number(x), Number(y))
  BY <1>4, <1>5, <1>6 DEF Right, Exactly
<1>9. Operand(o.v) => WellFormed(o.v)
  BY DEF Operand
<1>10. ResultOk'
  BY <1>2, <1>4, <1>7, <1>8, <1>9 DEF ResultOk
<1>11. SumsAreExact' /\ MulIsExact'
  BY <1>2, <1>8 DEF SumsAreExact, MulIsExact, Return
<1>12. QED
  BY <1>10, <1>11 DEF ResultInv

(* An adjustment keeps an operand an operand. *)
LEMMA AdjustmentOfX ==
  ASSUME FpdecInv, Adjustable, NEW prec \in Precisions, NEW mode
  PROVE  Adjusts(x, prec, fpdec_adjust(x, prec, mode))
<1>1. prec \in Int
  BY InputsAssumption
<1>2. Operand(x) /\ (x.sign # 0 => MagnitudeFits(DigitsOf(x)))
  BY DEF FpdecInv, Adjustable
<1>3. QED
  BY <1>1, <1>2, AdjustOutcome

LEMMA SameResult ==
  ASSUME ResultInv, UNCHANGED vars
  PROVE  ResultInv'
BY DEF ResultInv, ResultOk, vars, SumsAreExact, MulIsExact, Return, ExponentWraps, ProductWraps,
       SumIsLost, ShintsOverflow, CarryIsLost, ProductIsLost, ZeroIsSigned

(* No step leads out of the invariant. *)
LEMMA StepResult ==
  ASSUME FpdecInv, [Next]_vars
  PROVE  FpdecInv'
<1> DEFINE OperandsKept == x' = x /\ y' = y /\ changes' = changes
           Unknown == call'.fn \notin {"add", "sub", "mul"}
<1>1. Operand(x) /\ Operand(y) /\ z \in Decimals /\ ResultInv
  BY DEF FpdecInv, TypeOK
<1>2. changes \in 0 .. MaxChanges /\ dflt_rounding_mode \in RoundingModes
  BY DEF FpdecInv, TypeOK
<1>3. ASSUME OperandsKept, dflt_rounding_mode' = dflt_rounding_mode, ResultInv'
      PROVE  FpdecInv'
  <2>1. Operand(x') /\ Operand(y') /\ z' \in Decimals
    BY <1>1, <1>3 DEF ResultInv, ResultOk
  <2>2. TypeOK'
    BY <1>2, <1>3, <2>1 DEF TypeOK, Operand
  <2>3. QED
    BY <1>3, <2>1, <2>2 DEF FpdecInv
<1>4. CASE FromLiteral
  BY <1>3, <1>4, FromLiteralInv DEF FromLiteral, Calling, operands
<1>5. CASE FromLongLong
  <2>1. PICK val \in LongLongs : Calling("from_long_long", fpdec_from_long_long(val))
    BY <1>5 DEF FromLongLong
  <2>2. PICK o : o = fpdec_from_long_long(val)
    OBVIOUS
  <2>3. o.rc = "OK" /\ Operand(o.v)
    BY <2>2, InputsAssumption, LongLongOutcome
  <2>4. z' = o.v /\ call'.fn = "from_long_long" /\ call'.rc = o.rc
    BY <2>1, <2>2 DEF Calling, Called
  <2>5. ResultInv'
    BY <2>3, <2>4, OperandResult
  <2>6. QED
    BY <1>3, <2>1, <2>5 DEF Calling, operands
<1>6. CASE FromDigits
  BY <1>3, <1>6, FromDigitsInv DEF FromDigits, Calling, operands
<1>7. CASE Copy
  <2>1. z' = x /\ call'.fn = "copy" /\ call'.rc = "OK"
    BY <1>7 DEF Copy, Calling, Called, Ok, Returns
  <2>2. ResultInv'
    BY <1>1, <2>1, OperandResult
  <2>3. QED
    BY <1>3, <1>7, <2>2 DEF Copy, Calling, operands
<1>8. CASE Neg
  <2>1. PICK o : o = fpdec_neg(x)
    OBVIOUS
  <2>2. o.rc = "OK" /\ Operand(o.v)
    BY <1>1, <2>1, NegOperand
  <2>3. z' = o.v /\ call'.fn = "neg" /\ call'.rc = o.rc
    BY <1>8, <2>1 DEF Neg, Calling, Called
  <2>4. ResultInv'
    BY <2>2, <2>3, OperandResult
  <2>5. QED
    BY <1>3, <1>8, <2>4 DEF Neg, Calling, operands
<1>9. CASE Add
  BY <1>3, <1>9, AddInv DEF Add, Calling, operands
<1>10. CASE Sub
  BY <1>3, <1>10, SubInv DEF Sub, Calling, operands
<1>11. CASE Mul
  BY <1>3, <1>11, MulInv DEF Mul, Calling, operands
<1>12. CASE Adjusted
  <2>1. PICK prec \in Precisions, mode \in Modes :
          LET outcome == fpdec_adjusted(x, prec, Resolved(mode, dflt_rounding_mode))
          IN  z' = outcome.v /\ call'.fn = "adjusted" /\ call'.rc = outcome.rc
    BY <1>12 DEF Adjusted, Called
  <2>2. PICK o : o = fpdec_adjust(x, prec, Resolved(mode, dflt_rounding_mode))
    OBVIOUS
  <2>3. o.rc \in {"OK", "PREC_LIMIT_EXCEEDED"} /\ Operand(o.v)
    BY <1>12, <2>2, AdjustmentOfX DEF Adjusted, Adjusts
  <2>4. call'.rc = o.rc /\ (z' = o.v \/ z' = FPDEC_ZERO)
    BY <2>1, <2>2, <2>3 DEF fpdec_adjusted, Returns, FPDEC_ZERO, ResetToZero
  <2>5. Operand(z') /\ call'.fn \notin {"add", "sub", "mul"} /\ call'.rc # "ABORT"
    BY <2>1, <2>3, <2>4, ZeroIsOperand
  <2>6. ResultInv'
    BY <2>5, OperandResult
  <2>7. QED
    BY <1>3, <1>12, <2>6 DEF Adjusted, operands
<1>13. CASE Adjust
  <2>1. PICK prec \in Precisions, mode \in Modes :
          LET outcome == fpdec_adjust(x, prec, Resolved(mode, dflt_rounding_mode))
          IN  x' = outcome.v /\ call'.fn = "adjust" /\ call'.rc = outcome.rc
    BY <1>13 DEF Adjust, Called
  <2>2. PICK o : o = fpdec_adjust(x, prec, Resolved(mode, dflt_rounding_mode))
    OBVIOUS
  <2>3. o.rc \in {"OK", "PREC_LIMIT_EXCEEDED"} /\ Operand(o.v)
    BY <1>13, <2>2, AdjustmentOfX DEF Adjust, Adjusts
  <2>4. Operand(x') /\ Operand(y')
    BY <1>1, <1>13, <2>1, <2>2, <2>3 DEF Adjust
  <2>5. z' \in Decimals /\ ResultInv'
    BY <1>13, <2>1, <2>2, <2>3, NoResult DEF Adjust, Ready
  <2>6. changes' \in 0 .. MaxChanges /\ dflt_rounding_mode' \in RoundingModes
    BY <1>2, <1>13, InputsAssumption DEF Adjust
  <2>7. QED
    BY <2>4, <2>5, <2>6 DEF FpdecInv, TypeOK, Operand
<1>14. CASE NormalizePrec
  <2>1. PICK o : o = fpdec_normalize_prec(x)
    OBVIOUS
  <2>2. Operand(x') /\ Operand(y')
    BY <1>1, <1>14, <2>1, NormalizePrecOutcome DEF NormalizePrec
  <2>3. z' \in Decimals /\ ResultInv'
    BY <1>14, NoResult DEF NormalizePrec, Ready, Called
  <2>4. changes' \in 0 .. MaxChanges /\ dflt_rounding_mode' \in RoundingModes
    BY <1>2, <1>14, InputsAssumption DEF NormalizePrec
  <2>5. QED
    BY <2>2, <2>3, <2>4 DEF FpdecInv, TypeOK, Operand
<1>15. CASE SetDefaultRoundingMode
  <2>1. z' \in Decimals /\ ResultInv'
    BY <1>15, NoResult DEF SetDefaultRoundingMode, Ready, Called
  <2>2. dflt_rounding_mode' \in RoundingModes
    BY <1>15, ModesAssumption DEF SetDefaultRoundingMode
  <2>3. Operand(x') /\ Operand(y') /\ changes' \in 0 .. MaxChanges
    BY <1>1, <1>2, <1>15 DEF SetDefaultRoundingMode
  <2>4. QED
    BY <2>1, <2>2, <2>3 DEF FpdecInv, TypeOK, Operand
<1>16. ASSUME call.rc = "OK", Usable(z), ~ExponentWraps, changes < MaxChanges, changes' = changes + 1,
              {x', y'} \subseteq {x, y, z}, z' = FPDEC_ZERO, call' = Nothing,
              dflt_rounding_mode' = dflt_rounding_mode
       PROVE  FpdecInv'
  <2>1. Operand(z)
    BY <1>1, <1>16 DEF ResultInv, ResultOk
  <2>2. Operand(x') /\ Operand(y')
    <3>1. \A a \in {x, y, z} : Operand(a)
      BY <1>1, <2>1
    <3>2. QED
      BY <1>16, <3>1
  <2>3. z' \in Decimals /\ ResultInv'
    BY <1>16, NoResult DEF Nothing, Called
  <2>4. changes' \in 0 .. MaxChanges /\ dflt_rounding_mode' \in RoundingModes
    BY <1>2, <1>16, InputsAssumption
  <2>5. QED
    BY <2>2, <2>3, <2>4 DEF FpdecInv, TypeOK, Operand
<1>17. CASE KeepX
  BY <1>16, <1>17 DEF KeepX
<1>18. CASE KeepY
  BY <1>16, <1>18 DEF KeepY
<1>19. CASE Reset
  <2>1. ResultInv'
    BY <1>19, NoResult DEF Reset, Nothing, Called
  <2>2. QED
    BY <1>3, <1>19, <2>1 DEF Reset, operands
<1>20. CASE UNCHANGED vars
  BY <1>1, <1>3, <1>20, SameResult DEF vars
<1>21. CASE Aborted
  BY <1>20, <1>21 DEF Aborted
<1>22. QED
  BY <1>4, <1>5, <1>6, <1>7, <1>8, <1>9, <1>10, <1>11, <1>12, <1>13, <1>14, <1>15, <1>17, <1>18,
     <1>19, <1>20, <1>21 DEF Next

-----------------------------------------------------------------------------
(***************************************************************************)
(* Whatever a client calls, its operands are in the form the functions     *)
(* take for granted, and its results are those it may take for operands.   *)
(***************************************************************************)
THEOREM FpdecInvariant == Spec => []FpdecInv
BY InitResult, StepResult, PTL DEF Spec

(***************************************************************************)
(* Sign, precision and exponent of every number stay within the types of   *)
(* their fields.                                                           *)
(***************************************************************************)
THEOREM FpdecTypes == Spec => []TypeOK
<1>1. FpdecInv => TypeOK
  BY DEF FpdecInv
<1>2. QED
  BY <1>1, FpdecInvariant, PTL

(***************************************************************************)
(* fpdec_add and fpdec_sub give the exact result, but for the sums of two  *)
(* shifted ints that exceed 96 bits and the carries that are lost.         *)
(***************************************************************************)
THEOREM ExactSums == Spec => []SumsAreExact
<1>1. FpdecInv => SumsAreExact
  BY DEF FpdecInv, ResultInv
<1>2. QED
  BY <1>1, FpdecInvariant, PTL

(***************************************************************************)
(* fpdec_mul gives the exact product, but for those that overflow a high   *)
(* word unnoticed and those whose exponent wraps.                          *)
(***************************************************************************)
THEOREM ExactProducts == Spec => []MulIsExact
<1>1. FpdecInv => MulIsExact
  BY DEF FpdecInv, ResultInv
<1>2. QED
  BY <1>1, FpdecInvariant, PTL

(***************************************************************************)
(* fpdec_compare orders all pairs of operands calls can produce by their   *)
(* values, whatever their representations.                                 *)
(***************************************************************************)
THEOREM NumericComparison == Spec => []ComparesNumerically
<1>1. ASSUME FpdecInv PROVE ComparesNumerically
  <2>1. Operand(x) /\ Operand(y)
    BY <1>1 DEF FpdecInv
  <2>2. Alignable => Comparable(x, y)
    BY DEF Alignable, Comparable
  <2>3. QED
    BY <2>1, <2>2, CompareIsExact DEF ComparesNumerically
<1>2. QED
  BY <1>1, FpdecInvariant, PTL

(***************************************************************************)
(* Operands and results are in good form and their precision covers their  *)
(* digits, but for the results excepted.                                   *)
(***************************************************************************)
THEOREM UsableResults == Spec => []ResultsAreUsable
<1>1. FpdecInv => ResultsAreUsable
  BY DEF FpdecInv, ResultInv, ResultOk, ResultsAreUsable, Operand
<1>2. QED
  BY <1>1, FpdecInvariant, PTL

(***************************************************************************)
(* No assertion of the code fails unless a sum has been lost or an         *)
(* exponent has wrapped.                                                   *)
(***************************************************************************)
THEOREM NoFailedAssertion == Spec => []NoAssertionFails
<1>1. FpdecInv => NoAssertionFails
  BY DEF FpdecInv, ResultInv, ResultOk, NoAssertionFails, Running
<1>2. QED
  BY <1>1, FpdecInvariant, PTL

(* The two functions that change x in place; others keep it, or replace it. *)
LEMMA StepKeepsNumber ==
  ASSUME FpdecInv, [Next]_vars, KeepsNumber
  PROVE  Number(x') = Number(x)
<1>1. CASE Adjust
  <2>1. PICK prec \in Precisions, mode \in Modes :
          LET outcome == fpdec_adjust(x, prec, Resolved(mode, dflt_rounding_mode))
          IN  /\ x' = outcome.v /\ call'.fn = "adjust" /\ call'.rc = outcome.rc
              /\ call'.prec = prec
    BY <1>1 DEF Adjust, Called
  <2>2. Adjusts(x, prec, fpdec_adjust(x, prec, Resolved(mode, dflt_rounding_mode)))
    BY <1>1, AdjustmentOfX DEF Adjust
  <2>3. QED
    BY <2>1, <2>2 DEF Adjusts, KeepsNumber
<1>2. CASE NormalizePrec
  <2>1. Operand(x)
    BY DEF FpdecInv
  <2>2. QED
    BY <1>2, <2>1, NormalizePrecOutcome DEF NormalizePrec
<1>3. CASE x' = x
  BY <1>3
<1>4. CASE KeepX
  BY <1>4 DEF KeepX, Nothing, Called, KeepsNumber
<1>5. QED
  <2>1. [Next]_vars => Adjust \/ NormalizePrec \/ KeepX \/ x' = x
    BY DEF Next, vars, operands, FromLiteral, FromLongLong, FromDigits, Copy, Neg, Add, Sub, Mul,
           Adjusted, SetDefaultRoundingMode, KeepY, Reset, Aborted, Calling
  <2>2. QED
    BY <1>1, <1>2, <1>3, <1>4, <2>1

(***************************************************************************)
(* fpdec_adjust to at least as many places as a number has, or one that    *)
(* fails, and fpdec_normalize_prec do not change the number.               *)
(***************************************************************************)
THEOREM InPlaceCallsKeepNumber == Spec => InPlaceKeepsNumber
<1>1. FpdecInv /\ [Next]_vars => [KeepsNumber => Number(x') = Number(x)]_vars
  BY StepKeepsNumber
<1>2. QED
  BY <1>1, FpdecInvariant, PTL DEF Spec, InPlaceKeepsNumber

-----------------------------------------------------------------------------
(***************************************************************************)
(* fpdec_adjusted rounds: what its two ways of cutting off digits, the one *)
(* for digit arrays and the one for shifted ints, decide about a digit to  *)
(* be added is what the definition of the rounding mode demands.           *)
(***************************************************************************)

-----------------------------------------------------------------------------
(***************************************************************************)
(* Rounding k * q + r to a multiple of q.                                  *)
(***************************************************************************)
Away(s, k, r, q, mode) ==
  /\ r # 0
  /\ \/ mode = "UP"
     \/ mode = "CEILING" /\ s >= 0
     \/ mode = "FLOOR" /\ s < 0
     \/ mode = "05UP" /\ k % 10 \in {0, 5}
     \/ mode \in {"HALF_DOWN", "HALF_EVEN", "HALF_UP"} /\ 2 * r > q
     \/ mode = "HALF_UP" /\ 2 * r = q
     \/ mode = "HALF_EVEN" /\ 2 * r = q /\ k % 2 = 1

LEMMA RoundedIs ==
  ASSUME NEW q \in Nat \ {0}, NEW k \in Nat, NEW r \in Nat, r < q,
         NEW v \in Int, v = k * q + r, NEW s, NEW mode
  PROVE  Rounded(s, v, q, mode) = k + (IF Away(s, k, r, q, mode) THEN 1 ELSE 0)
<1>1. v = r + k * q
  <2>1. k * q \in Nat
    OBVIOUS
  <2>2. QED
    BY <2>1
<1>2. v \div q = k /\ v % q = r
  BY <1>1, LowAndHigh
<1>3. AwayFromZero(s, v, q, mode) <=> Away(s, k, r, q, mode)
  BY <1>2 DEF AwayFromZero, Away
<1>4. QED
  BY <1>2, <1>3 DEF Rounded

LEMMA AwayScaled ==
  ASSUME NEW q \in Nat \ {0}, NEW k \in Nat, NEW r \in Nat, NEW t \in Nat \ {0}, NEW s, NEW mode
  PROVE  Away(s, k, r * t, q * t, mode) <=> Away(s, k, r, q, mode)
<1>1. (r * t # 0 <=> r # 0) /\ (2 * (r * t) > q * t <=> 2 * r > q) /\ (2 * (r * t) = q * t <=> 2 * r = q)
  <2>1. PICK u \in Nat : u = 2 * r
    OBVIOUS
  <2>2. 2 * (r * t) = u * t
    BY <2>1
  <2>3. (u > q => u * t > q * t) /\ (u < q => u * t < q * t)
    <3>1. ASSUME NEW i \in Nat, NEW j \in Nat, i < j PROVE i * t < j * t
      <4>1. i + 1 =< j
        BY <3>1
      <4>2. (i + 1) * t =< j * t /\ (i + 1) * t = i * t + t
        BY <4>1
      <4>3. QED
        BY <4>2
    <3>2. QED
      BY <3>1
  <2>4. u * t \in Nat /\ q * t \in Nat
    OBVIOUS
  <2>5. r * t # 0 <=> r # 0
    <3>1. r = 0 \/ r * t >= t
      OBVIOUS
    <3>2. QED
      BY <3>1
  <2>6. QED
    BY <2>1, <2>2, <2>3, <2>4, <2>5
<1>2. QED
  BY <1>1 DEF Away

(* The unit does not matter. *)
LEMMA RoundedScaled ==
  ASSUME NEW v \in Nat, NEW q \in Nat \ {0}, NEW t \in Nat \ {0}, NEW s, NEW mode
  PROVE  Rounded(s, v * t, q * t, mode) = Rounded(s, v, q, mode)
<1>1. PICK k \in Nat, r \in Nat : r < q /\ v = k * q + r
  <2>1. PICK k \in Nat, r \in 0 .. q - 1 : k = v \div q /\ r = v % q /\ v = k * q + r
    BY QuotientAndRest
  <2>2. QED
    BY <2>1
<1>2. PICK i \in Nat \ {0}, j \in Nat, u \in Nat : i = q * t /\ j = r * t /\ u = v * t
  <2>1. q * t \in Nat \ {0} /\ r * t \in Nat /\ v * t \in Nat
    BY <1>1
  <2>2. QED
    BY <2>1
<1>3. j < i
  <2>1. r + 1 =< q
    BY <1>1
  <2>2. (r + 1) * t =< q * t /\ (r + 1) * t = r * t + t
    BY <1>1, <2>1
  <2>3. QED
    BY <1>2, <2>2
<1>4. u = k * i + j
  <2>1. (k * q + r) * t = (k * q) * t + r * t
    OBVIOUS
  <2>2. (k * q) * t = k * (q * t)
    OBVIOUS
  <2>3. QED
    BY <1>1, <1>2, <2>1, <2>2
<1>5. Rounded(s, u, i, mode) = k + (IF Away(s, k, j, i, mode) THEN 1 ELSE 0)
  BY <1>3, <1>4, RoundedIs
<1>6. Rounded(s, v, q, mode) = k + (IF Away(s, k, r, q, mode) THEN 1 ELSE 0)
  BY <1>1, RoundedIs
<1>7. Away(s, k, j, i, mode) <=> Away(s, k, r, q, mode)
  BY <1>2, AwayScaled
<1>8. QED
  BY <1>2, <1>5, <1>6, <1>7

(* A multiple is not rounded. *)
LEMMA RoundedExact ==
  ASSUME NEW k \in Nat, NEW q \in Nat \ {0}, NEW v, v = k * q, NEW s, NEW mode
  PROVE  Rounded(s, v, q, mode) = k
<1>1. PICK r \in Nat : r = 0 /\ r < q
  OBVIOUS
<1>2. v \in Int /\ v = k * q + r
  BY <1>1
<1>3. ~Away(s, k, r, q, mode)
  BY <1>1 DEF Away
<1>4. QED
  BY <1>1, <1>2, <1>3, RoundedIs

(* Less than a tenth is rounded like a tenth. *)
LEMMA RoundedTiny ==
  ASSUME NEW v \in Nat \ {0}, NEW q \in Nat \ {0}, 10 * v =< q, NEW s, NEW mode
  PROVE  Rounded(s, v, q, mode) = Rounded(s, 1, 10, mode)
<1>1. Rounded(s, v, q, mode) = 0 + (IF Away(s, 0, v, q, mode) THEN 1 ELSE 0)
  BY RoundedIs
<1>2. Rounded(s, 1, 10, mode) = 0 + (IF Away(s, 0, 1, 10, mode) THEN 1 ELSE 0)
  <2>1. PICK i \in Nat \ {0}, r \in Nat, k \in Nat : i = 10 /\ r = 1 /\ k = 0 /\ r < i
    OBVIOUS
  <2>2. r \in Int /\ r = k * i + r
    BY <2>1
  <2>3. Rounded(s, r, i, mode) = k + (IF Away(s, k, r, i, mode) THEN 1 ELSE 0)
    BY <2>1, <2>2, RoundedIs
  <2>4. QED
    BY <2>1, <2>3
<1>3. Away(s, 0, v, q, mode) <=> Away(s, 0, 1, 10, mode)
  BY DEF Away
<1>4. QED
  BY <1>1, <1>2, <1>3

-----------------------------------------------------------------------------
(***************************************************************************)
(* Numbers rounded. A number that ends at or above the place it is rounded *)
(* to stays what it is.                                                    *)
(***************************************************************************)
LEMMA NotRounded ==
  ASSUME NEW n, n[2] \in Int, NEW prec \in Int, n[2] >= -prec, NEW mode
  PROVE  RoundedNumber(n, prec, mode) = n
<1>1. -prec - n[2] =< 0
  OBVIOUS
<1>2. QED
  BY <1>1 DEF RoundedNumber

LEMMA ZeroRounded ==
  ASSUME NEW prec \in Int, NEW mode
  PROVE  RoundedNumber(<< 0, 0 >>, prec, mode) = << 0, 0 >>
<1>1. PICK n : n = << 0, 0 >> /\ n[1] = 0 /\ n[2] = 0
  <2>1. << 0, 0 >>[1] = 0 /\ << 0, 0 >>[2] = 0
    OBVIOUS
  <2>2. PICK n : n = << 0, 0 >>
    OBVIOUS
  <2>3. QED
    BY <2>1, <2>2
<1>2. PICK k : k = Rounded(0, 1, 10, mode)
  OBVIOUS
<1>3. PICK i : i = IF -prec > Log10[0] + 1 THEN k ELSE Rounded(0, 0, Power(10, -prec), mode)
  OBVIOUS
<1>4. CASE -prec > 0
  <2>1. i \in Int
    <3>1. k \in Int
      BY <1>2 DEF Rounded
    <3>2. PICK q \in Nat \ {0} : q = Power(10, -prec)
      BY <1>4, PowersOf10
    <3>3. Rounded(0, 0, q, mode) \in Int
      <4>1. 0 \div q \in Int
        BY <3>2
      <4>2. QED
        BY <4>1 DEF Rounded
    <3>4. QED
      BY <1>3, <3>1, <3>2, <3>3
  <2>2. RoundedNumber(n, prec, mode) = Canonical(0 * i, -prec)
    <3>1. CMP(0, 0) = 0 /\ ABS(0) = 0 /\ -prec - 0 = -prec /\ ~(-prec =< 0)
      BY <1>4 DEF CMP, ABS
    <3>2. QED
      BY <1>1, <1>2, <1>3, <3>1 DEF RoundedNumber
  <2>3. QED
    BY <1>1, <2>1, <2>2, CanonicalZero
<1>5. CASE ~(-prec > 0)
  <2>1. n[2] \in Int /\ n[2] >= -prec
    BY <1>1, <1>5
  <2>2. QED
    BY <1>1, <2>1, NotRounded
<1>6. QED
  BY <1>4, <1>5

(* What the rounding of a number depends on: its sign, and how often its *)
(* absolute value contains the unit.                                     *)
LEMMA RoundedNumberIs ==
  ASSUME NEW s \in {-1, 1}, NEW v \in Nat \ {0}, NEW e \in Int, NEW prec \in Int,
         NEW p \in Int, p = -prec, e =< p, NEW mode
  PROVE  RoundedNumber(Canonical(s * v, e), prec, mode)
           = Canonical(s * Rounded(s, v, Ten(e, p), mode), p)
<1>1. s * v \in Int /\ s * v # 0
  OBVIOUS
<1>2. PICK c \in Int, k \in Int : Canonical(s * v, e) = << c, k >> /\ Reduced(s * v, e, c, k)
  BY <1>1, CanonicalReduced
<1>3. PICK t \in Nat \ {0} : t = Ten(e, k) /\ e =< k /\ s * v = c * t
  <2>1. e =< k /\ s * v = c * Ten(e, k)
    BY <1>2 DEF Reduced
  <2>2. QED
    BY <2>1, TenType
<1>4. PICK w \in Nat \ {0} : c = s * w /\ v = w * t
  <2>1. CASE s = 1
    <3>1. v = c * t
      BY <1>3, <2>1
    <3>2. c > 0
      <4>1. SUFFICES ASSUME c =< 0 PROVE FALSE
        OBVIOUS
      <4>2. c * t =< 0
        BY <4>1
      <4>3. QED
        BY <3>1, <4>2
    <3>3. QED
      BY <2>1, <3>1, <3>2
  <2>2. CASE s = -1
    <3>1. PICK w \in Int : w = -c
      OBVIOUS
    <3>2. v = w * t
      <4>1. c = -w
        BY <3>1
      <4>2. (-w) * t = -(w * t) /\ w * t \in Int
        OBVIOUS
      <4>3. s * v = -v
        BY <2>2
      <4>4. QED
        BY <1>3, <4>1, <4>2, <4>3
    <3>3. w > 0
      <4>1. SUFFICES ASSUME w =< 0 PROVE FALSE
        OBVIOUS
      <4>2. w * t =< 0
        BY <4>1
      <4>3. QED
        BY <3>2, <4>2
    <3>4. QED
      BY <2>2, <3>1, <3>2, <3>3
  <2>3. QED
    BY <2>1, <2>2
<1>5. CMP(c, 0) = s /\ ABS(c) = w
  BY <1>4 DEF CMP, ABS
<1>6. PICK n : n = << c, k >>
  OBVIOUS
<1>7. n[1] = c /\ n[2] = k /\ n = Canonical(s * v, e)
  BY <1>2, <1>6
<1>8. CASE k >= p
  <2>1. PICK h \in Nat : h = w * Ten(p, k) /\ v = h * Ten(e, p)
    <3>1. PICK i \in Nat, j \in Nat : i = Ten(e, p) /\ j = Ten(p, k)
      BY <1>8, TenType
    <3>2. t = i * j
      BY <1>3, <1>8, <3>1, TenSteps
    <3>3. w * (i * j) = (w * j) * i /\ w * j \in Nat
      OBVIOUS
    <3>4. QED
      BY <1>4, <3>1, <3>2, <3>3
  <2>2. Ten(e, p) \in Nat \ {0}
    BY TenType
  <2>3. Rounded(s, v, Ten(e, p), mode) = h
    BY <2>1, <2>2, RoundedExact
  <2>4. ShiftsTo(s, h, e, p)
    BY SignedShift
  <2>5. Canonical(s * h, p) = n
    BY <1>7, <2>1, <2>4 DEF ShiftsTo
  <2>6. RoundedNumber(n, prec, mode) = n
    <3>1. n[2] \in Int /\ n[2] >= -prec
      BY <1>7, <1>8
    <3>2. QED
      BY <3>1, NotRounded
  <2>7. QED
    BY <1>7, <2>3, <2>5, <2>6
<1>9. CASE k < p
  <2>1. PICK q \in Nat \ {0}, cut \in Nat \ {0} :
          q = Ten(k, p) /\ cut = p - k /\ q = Power(10, cut)
    BY <1>9, TenType DEF Ten
  <2>2. PICK r : r = Rounded(s, w, q, mode)
    OBVIOUS
  <2>3. Rounded(s, v, Ten(e, p), mode) = r
    <3>1. Ten(e, p) = t * q
      BY <1>3, <1>9, <2>1, TenSteps
    <3>2. t * q = q * t
      OBVIOUS
    <3>3. w \in Nat
      OBVIOUS
    <3>4. Rounded(s, w * t, q * t, mode) = r
      BY <2>2, <3>3, RoundedScaled
    <3>5. QED
      BY <1>4, <3>1, <3>2, <3>4
  <2>4. cut > Log10[w] + 1 => r = Rounded(s, 1, 10, mode)
    <3>1. SUFFICES ASSUME cut > Log10[w] + 1 PROVE r = Rounded(s, 1, 10, mode)
      OBVIOUS
    <3>2. PICK l \in Nat : l = Log10[w] /\ w < Power(10, l + 1) /\ l + 2 =< cut
      <4>1. Log10[w] \in Nat /\ w < Power(10, Log10[w] + 1)
        BY Log10Facts
      <4>2. QED
        BY <3>1, <4>1
    <3>3. 10 * w =< q
      <4>1. PICK i \in Nat, j \in Nat, b \in Nat :
              i = l + 1 /\ j = l + 2 /\ b = 10 /\ b >= 2 /\ j =< cut
        BY <3>2
      <4>2. Power(b, j) =< Power(b, cut)
        BY <4>1, PowerOrder
      <4>3. Power(10, i) \in Nat /\ Power(10, i + 1) = 10 * Power(10, i)
        BY PowersOf10
      <4>4. i + 1 = j
        BY <4>1
      <4>5. w < Power(10, i)
        BY <3>2, <4>1
      <4>6. 10 * Power(10, i) =< q
        BY <2>1, <4>1, <4>2, <4>3, <4>4
      <4>7. QED
        BY <2>1, <4>3, <4>5, <4>6
    <3>4. QED
      BY <2>2, <3>3, RoundedTiny
  <2>5. -prec - n[2] = cut
    BY <1>7, <2>1
  <2>6. ~(cut =< 0)
    OBVIOUS
  <2>7. RoundedNumber(n, prec, mode)
          = Canonical(s * (IF cut > Log10[w] + 1 THEN Rounded(s, 1, 10, mode) ELSE r), p)
    BY <1>5, <1>7, <2>1, <2>2, <2>5, <2>6 DEF RoundedNumber
  <2>8. QED
    BY <1>7, <2>3, <2>4, <2>7
<1>10. QED
  BY <1>8, <1>9

-----------------------------------------------------------------------------
(***************************************************************************)
(* fpdec_dyn_adjust_to_prec. Of digits that all are rounded away one unit  *)
(* is left or nothing; a tie is never seen, if the quantum is not 1.       *)
(***************************************************************************)
Nearest == {"HALF_DOWN", "HALF_EVEN", "HALF_UP"}

DecidesAway(s, v, q, w, mode) ==
  Rounded(s, v, q, mode) = round_qr(s, 0, 0, TRUE, w, mode)

LEMMA DecisionAway ==
  ASSUME NEW s, NEW v \in Nat \ {0}, NEW q \in Nat \ {0}, 10 * v =< q,
         NEW mode, NEW w \in Nat, w >= 1, w >= 2 \/ mode \notin Nearest
  PROVE  DecidesAway(s, v, q, w, mode)
<1>1. PICK h \in Nat : h = w \div 2 /\ (w >= 2 => h >= 1)
  BY Z3
<1>2. PICK n \in Nat : n = 0 /\ n * q = 0 /\ n % 5 = 0 /\ n % 10 \in {0, 5} /\ n % 2 = 0
  OBVIOUS
<1>3. Rounded(s, v, q, mode) = n + (IF Away(s, n, v, q, mode) THEN 1 ELSE 0)
  <2>1. v \in Int /\ v < q /\ v = n * q + v
    BY <1>2
  <2>2. QED
    BY <2>1, RoundedIs
<1>4. RoundsUp(s, n, n, TRUE, w, mode) <=> Away(s, n, v, q, mode)
  <2>1. (IF w > 0 THEN w ELSE U64) \div 2 = h
    BY <1>1
  <2>2. mode \in Nearest => ~(n >= h)
    BY <1>1, <1>2
  <2>3. ~(2 * v > q) /\ ~(2 * v = q)
    OBVIOUS
  <2>4. ASSUME mode \in Nearest PROVE ~RoundsUp(s, n, n, TRUE, w, mode) /\ ~Away(s, n, v, q, mode)
    <3>1. ~Away(s, n, v, q, mode)
      BY <2>3, <2>4 DEF Away, Nearest
    <3>2. ~(n > h) /\ n # h
      BY <2>2, <2>4
    <3>3. ~RoundsUp(s, n, n, TRUE, w, mode)
      <4>1. PICK tie : tie = (IF w > 0 THEN w ELSE U64) \div 2 /\ ~(n > tie) /\ n # tie /\ ~(n >= tie)
        BY <2>1, <2>2, <2>4, <3>2
      <4>2. QED
        BY <2>4, <4>1, Zenon DEF RoundsUp, Nearest
    <3>4. QED
      BY <3>1, <3>3
  <2>5. ASSUME mode \notin Nearest PROVE RoundsUp(s, n, n, TRUE, w, mode) <=> Away(s, n, v, q, mode)
    BY <1>2, <2>5 DEF RoundsUp, Away, Nearest
  <2>6. QED
    BY <2>4, <2>5
<1>5. n = 0
  BY <1>2
<1>6. round_qr(s, n, n, TRUE, w, mode) = IF Away(s, n, v, q, mode) THEN 1 ELSE 0
  BY <1>4 DEF round_qr
<1>7. PICK i \in 0 .. 1 : i = IF Away(s, n, v, q, mode) THEN 1 ELSE 0
  OBVIOUS
<1>8. Rounded(s, v, q, mode) = i /\ round_qr(s, n, n, TRUE, w, mode) = i
  <2>1. Rounded(s, v, q, mode) = n + i /\ round_qr(s, n, n, TRUE, w, mode) = i
    BY <1>3, <1>6, <1>7, Zenon
  <2>2. n + i = i
    BY <1>5
  <2>3. QED
    BY <2>1, <2>2, Zenon
<1>9. QED
  BY <1>5, <1>8, Zenon DEF DecidesAway

(* Digits never round to more than the weight of the place above them. *)
LEMMA RoundedAtMost ==
  ASSUME NEW s, NEW c \in Nat, NEW q \in Nat \ {0}, NEW m \in Nat, c < m * q, NEW mode
  PROVE  Rounded(s, c, q, mode) \in Nat /\ Rounded(s, c, q, mode) * q =< m * q
<1>1. PICK k \in Nat, r \in Nat : r < q /\ c = k * q + r
  <2>1. PICK k \in Nat, r \in 0 .. q - 1 : k = c \div q /\ r = c % q /\ c = k * q + r
    BY QuotientAndRest
  <2>2. k \in Nat /\ r \in Nat /\ r < q /\ c = k * q + r
    BY <2>1
  <2>3. QED
    BY <2>2
<1>2. PICK i \in 0 .. 1 : i = IF Away(s, k, r, q, mode) THEN 1 ELSE 0
  OBVIOUS
<1>3. Rounded(s, c, q, mode) = k + i
  BY <1>1, <1>2, RoundedIs
<1>4. k + i =< m
  <2>1. SUFFICES ASSUME m =< k PROVE FALSE
    OBVIOUS
  <2>2. m * q =< k * q
    BY <2>1
  <2>3. m * q \in Nat /\ k * q \in Nat
    OBVIOUS
  <2>4. QED
    BY <1>1, <2>2, <2>3
<1>5. (k + i) * q =< m * q
  BY <1>4
<1>6. QED
  BY <1>3, <1>5

(* Both ways to round digits give the number rounded to 10^-prec. *)
RoundsDigits(a, prec, shift, mode, o) ==
  Number(o.v) = Canonical(a.sign * Rounded(a.sign, a.coeff, Power(10, shift), mode), -prec)

SeesNoTie(shift, mode) == shift % DEC_DIGITS_PER_DIGIT # 0 \/ mode \notin Nearest

LEMMA AwayRounds ==
  ASSUME NEW a, Operand(a), a.dyn, NEW prec \in Int,
         -FPDEC_MAX_DEC_PREC =< prec, prec =< FPDEC_MAX_DEC_PREC,
         NEW shift \in Nat, shift = -Place(a.exp) - prec, shift > Place(a.n), NEW mode,
         SeesNoTie(shift, mode)
  PROVE  LET r == [RoundedAway(a, shift, mode) EXCEPT !.dec_prec = MAX(prec, 0)]
         IN  RoundsDigits(a, prec, shift, mode, fpdec_dyn_normalize(r))
<1>1. PICK s \in {-1, 1}, e \in Int, c \in Nat \ {0}, n \in Nat \ {0} :
        s = a.sign /\ e = a.exp /\ c = a.coeff /\ n = a.n /\ c < Weight(n)
  BY DynFacts DEF Stripped
<1>2. PICK d \in Nat \ {0} : d = DEC_DIGITS_PER_DIGIT
  BY Limits
<1>3. PICK k \in Nat, t \in 0 .. d - 1 :
        k = shift \div d /\ t = shift % d /\ shift = k * d + t
  BY QuotientAndRest
<1>4. PICK w \in Nat \ {0}, q \in Nat \ {0} : w = Power(10, t) /\ q = Power(10, shift)
  <2>1. t \in Nat
    OBVIOUS
  <2>2. Power(10, t) \in Nat \ {0} /\ Power(10, shift) \in Nat \ {0}
    BY <2>1, PowersOf10
  <2>3. QED
    BY <2>2
<1>5. PICK g \in Int, h \in Int : g = Place(e) /\ h = Place(e + k) /\ h + t = -prec /\ g + shift = -prec
  <2>1. e \in Int /\ k \in Int
    BY <1>1
  <2>2. Place(e) \in Int /\ Place(k) \in Int /\ Place(e + k) = Place(e) + Place(k)
    BY <2>1, PlaceFacts
  <2>3. PICK i \in Int, g \in Int : i = k * d /\ i = Place(k) /\ g = Place(e)
    BY <1>2, <2>2 DEF Place
  <2>4. shift = -g - prec /\ shift = i + t
    BY <1>1, <1>3, <2>3
  <2>5. PICK h \in Int : h = g + i
    BY <2>4
  <2>6. h + t = -prec /\ g + shift = -prec
    BY <2>4, <2>5
  <2>7. QED
    BY <2>2, <2>3, <2>5, <2>6
<1>6. PICK up : up = round_qr(s, 0, 0, TRUE, w, mode)
  OBVIOUS
<1>7. up = Rounded(s, c, q, mode)
  <2>1. 10 * c =< q
    <3>1. Weight(n) = Ten(0, Place(n)) /\ Place(n) \in Nat
      <4>1. PICK i \in Int : i = 0
        OBVIOUS
      <4>2. i * DEC_DIGITS_PER_DIGIT = 0 /\ i + n = n
        BY <4>1, Limits
      <4>3. /\ (i + n) * DEC_DIGITS_PER_DIGIT \in Int
            /\ i * DEC_DIGITS_PER_DIGIT =< (i + n) * DEC_DIGITS_PER_DIGIT
            /\ Weight(n) = Ten(i * DEC_DIGITS_PER_DIGIT, (i + n) * DEC_DIGITS_PER_DIGIT)
        BY WeightTen
      <4>4. QED
        BY <4>2, <4>3 DEF Place
    <3>2. PICK l \in Nat : l = Place(n) /\ l + 1 =< shift /\ Weight(n) = Power(10, l)
      <4>1. PICK l \in Nat : l = Place(n)
        BY <3>1
      <4>2. l - 0 = l
        OBVIOUS
      <4>3. QED
        BY <1>1, <3>1, <4>1, <4>2 DEF Ten
    <3>3. PICK b \in Nat, j \in Nat : b = 10 /\ b >= 2 /\ j = l + 1 /\ j =< shift
      BY <3>2
    <3>4. Power(b, j) =< Power(b, shift)
      BY <3>3, PowerOrder
    <3>5. Power(10, l + 1) = 10 * Power(10, l) /\ Power(10, l) \in Nat
      BY PowersOf10
    <3>6. PICK u \in Nat : u = Power(10, l) /\ 10 * u =< q /\ c < u
      BY <1>1, <1>4, <3>2, <3>3, <3>4, <3>5
    <3>7. QED
      BY <3>6
  <2>2. w >= 2 \/ mode \notin Nearest
    <3>1. CASE t = 0
      BY <1>2, <1>3, <3>1 DEF SeesNoTie
    <3>2. CASE t # 0
      <4>1. PICK b \in Nat, i \in Nat : b = 10 /\ b >= 2 /\ i = t /\ 0 < i
        BY <3>2
      <4>2. i < Power(b, i)
        BY <4>1, PowerExceeds
      <4>3. QED
        BY <1>4, <4>1, <4>2
    <3>3. QED
      BY <3>1, <3>2
  <2>3. w >= 1
    OBVIOUS
  <2>4. DecidesAway(s, c, q, w, mode)
    BY <2>1, <2>2, <2>3, DecisionAway
  <2>5. QED
    BY <1>6, <2>4, Zenon DEF DecidesAway
<1>8. PICK v \in 0 .. 1 : v = up
  BY <1>6 DEF round_qr
<1>9. PICK r : r = [RoundedAway(a, shift, mode) EXCEPT !.dec_prec = MAX(prec, 0)]
  OBVIOUS
<1>10. r.coeff = v * w /\ r.exp = e + k /\ r.sign = s
  <2>1. a \in Decimals
    BY DEF Operand
  <2>2. PICK m \in Nat, f \in Int : m = v * w /\ f = e + k
    <3>1. v * w \in Nat /\ e + k \in Int
      OBVIOUS
    <3>2. QED
      BY <3>1
  <2>3. RoundedAway(a, shift, mode) = [a EXCEPT !.exp = f, !.n = v, !.coeff = m]
    BY <1>1, <1>2, <1>3, <1>4, <1>6, <1>8, <2>1, <2>2 DEF RoundedAway, Decimals, u64_10_pow_n
  <2>4. QED
    BY <1>1, <1>9, <2>1, <2>2, <2>3 DEF Decimals
<1>11. Good(fpdec_dyn_normalize(r), r.sign * r.coeff, Place(r.exp))
  BY <1>9, RoundedAwayFacts
<1>12. Number(fpdec_dyn_normalize(r).v) = Canonical(s * (v * w), h)
  BY <1>5, <1>10, <1>11 DEF Good
<1>13. PICK p \in Int : p = -prec /\ h =< p /\ p - h = t
  BY <1>5
<1>14. ShiftsTo(s, v, h, p) /\ Ten(h, p) = w
  <2>1. v \in Nat
    OBVIOUS
  <2>2. ShiftsTo(s, v, h, p)
    BY <1>13, <2>1, SignedShift
  <2>3. QED
    BY <1>4, <1>13, <2>2 DEF Ten
<1>15. Number(fpdec_dyn_normalize(r).v) = Canonical(s * v, p)
  BY <1>12, <1>14 DEF ShiftsTo
<1>16. QED
  BY <1>1, <1>4, <1>7, <1>8, <1>9, <1>13, <1>15 DEF RoundsDigits

LEMMA InRounds ==
  ASSUME NEW a, Operand(a), a.dyn, MagnitudeFits(a), NEW prec \in Int,
         -FPDEC_MAX_DEC_PREC =< prec, prec =< FPDEC_MAX_DEC_PREC,
         NEW shift \in Nat, shift = -Place(a.exp) - prec, shift =< Place(a.n), NEW mode
  PROVE  LET r == [RoundedIn(a, shift, mode) EXCEPT !.dec_prec = MAX(prec, 0)]
         IN  RoundsDigits(a, prec, shift, mode, fpdec_dyn_normalize(r))
<1>1. PICK s \in {-1, 1}, e \in Int, c \in Nat \ {0}, n \in Nat \ {0} :
        s = a.sign /\ e = a.exp /\ c = a.coeff /\ n = a.n /\ c < Weight(n)
  BY DynFacts DEF Stripped
<1>2. PICK q \in Nat \ {0} : q = Power(10, shift)
  BY PowersOf10
<1>3. PICK v : v = Rounded(s, c, q, mode)
  OBVIOUS
<1>4. PICK m \in Nat : Weight(n) = m * q
  <2>1. PICK i \in Int, l \in Int : i = 0 /\ i =< shift /\ l = Place(n) /\ shift =< l
    <3>1. n \in Int
      BY <1>1
    <3>2. Place(n) \in Int
      BY <3>1, PlaceFacts
    <3>3. 0 \in Int /\ 0 =< shift
      OBVIOUS
    <3>4. QED
      BY <1>1, <3>2, <3>3
  <2>2. Weight(n) = Ten(i, l)
    <3>1. i * DEC_DIGITS_PER_DIGIT = i /\ i + n = n
      BY <2>1, Limits
    <3>2. Weight(n) = Ten(i * DEC_DIGITS_PER_DIGIT, (i + n) * DEC_DIGITS_PER_DIGIT)
      BY WeightTen
    <3>3. QED
      BY <2>1, <3>1, <3>2 DEF Place
  <2>3. shift \in Int /\ shift - i = shift
    BY <2>1
  <2>4. Ten(i, l) = Ten(i, shift) * Ten(shift, l) /\ Ten(shift, l) \in Nat
    BY <2>1, <2>3, TenSteps, TenType
  <2>5. Ten(i, shift) = q
    BY <1>2, <2>3 DEF Ten
  <2>6. PICK m \in Nat : m = Ten(shift, l)
    BY <2>4
  <2>7. q * m = m * q
    OBVIOUS
  <2>8. QED
    BY <2>2, <2>4, <2>5, <2>6, <2>7
<1>5. v \in Nat /\ v * q =< m * q /\ v * q \in Nat
  <2>1. c < m * q
    BY <1>1, <1>4
  <2>2. v \in Nat /\ v * q =< m * q
    BY <1>3, <2>1, RoundedAtMost
  <2>3. QED
    BY <2>2
<1>6. PICK u \in Nat : u = RoundedDigits(c, s, shift, mode) /\ u = v * q /\ u =< Weight(n)
  <2>1. RoundedDigits(c, s, shift, mode) = q * v
    BY <1>2, <1>3 DEF RoundedDigits, u64_10_pow_n
  <2>2. q * v = v * q
    BY <1>5
  <2>3. QED
    BY <1>4, <1>5, <2>1, <2>2
<1>7. PICK r : r = [RoundedIn(a, shift, mode) EXCEPT !.dec_prec = MAX(prec, 0)]
  OBVIOUS
<1>8. PICK g \in Int, p \in Int : g = Place(e) /\ p = -prec /\ g =< p /\ p - g = shift
  <2>1. PICK g \in Int : g = Place(e)
    BY <1>1, PlaceFacts
  <2>2. shift = -g - prec
    BY <1>1, <2>1
  <2>3. PICK p \in Int : p = -prec
    OBVIOUS
  <2>4. g =< p /\ p - g = shift
    BY <2>2, <2>3
  <2>5. QED
    BY <2>1, <2>3, <2>4
<1>9. Canonical(r.sign * r.coeff, Place(r.exp)) = Canonical(s * u, g)
  <2>1. a \in Decimals
    BY DEF Operand
  <2>2. CASE u >= Weight(n)
    <3>1. u = Weight(n)
      <4>1. Weight(n) \in Nat
        BY WeightFacts
      <4>2. QED
        BY <1>6, <2>2, <4>1
    <3>2. PICK f \in Int : f = e + n
      BY <1>1
    <3>3. RoundedIn(a, shift, mode) = [a EXCEPT !.exp = f, !.n = 1, !.coeff = 1]
      BY <1>1, <1>6, <2>1, <2>2, <3>2 DEF RoundedIn, RoundCarry, Decimals
    <3>4. r.coeff = 1 /\ r.exp = f /\ r.sign = s
      BY <1>1, <1>7, <2>1, <3>3 DEF Decimals
    <3>5. s \in Int /\ n \in Nat /\ s * 1 = s
      OBVIOUS
    <3>6. Canonical(s * Weight(n), Place(e)) = Canonical(s, Place(f))
      BY <3>2, <3>5, DigitShift DEF Place
    <3>7. QED
      BY <1>8, <3>1, <3>4, <3>5, <3>6
  <2>3. CASE ~(u >= Weight(n))
    <3>1. RoundedIn(a, shift, mode) = [a EXCEPT !.coeff = u]
      BY <1>1, <1>6, <2>3 DEF RoundedIn, RoundCarry
    <3>2. r.coeff = u /\ r.exp = e /\ r.sign = s
      BY <1>1, <1>7, <2>1, <3>1 DEF Decimals
    <3>3. QED
      BY <1>8, <3>2
  <2>4. QED
    BY <2>2, <2>3
<1>10. Good(fpdec_dyn_normalize(r), r.sign * r.coeff, Place(r.exp))
  BY <1>7, RoundedInFacts
<1>11. Number(fpdec_dyn_normalize(r).v) = Canonical(s * u, g)
  BY <1>9, <1>10 DEF Good
<1>12. ShiftsTo(s, v, g, p) /\ Ten(g, p) = q
  <2>1. ShiftsTo(s, v, g, p)
    BY <1>5, <1>8, SignedShift
  <2>2. QED
    BY <1>2, <1>8, <2>1 DEF Ten
<1>13. Canonical(s * u, g) = Canonical(s * v, p)
  BY <1>6, <1>12 DEF ShiftsTo
<1>14. QED
  BY <1>1, <1>2, <1>3, <1>7, <1>8, <1>11, <1>13 DEF RoundsDigits

(***************************************************************************)
(* The number an adjustment asks for, and the precision it gets.           *)
(***************************************************************************)
Rounds(a, prec, mode, o) == o.rc = "OK" => Number(o.v) = RoundedNumber(Number(a), prec, mode)

GetsPrec(prec, o) == o.rc = "OK" /\ prec >= 0 => o.v.dec_prec = prec \/ o.v = FPDEC_ZERO

LEMMA NormalizedPrec ==
  ASSUME NEW a, fpdec_dyn_normalize(a).rc = "OK"
  PROVE  fpdec_dyn_normalize(a).v.dec_prec = a.dec_prec
BY DEF fpdec_dyn_normalize, Ok, Returns, ResetToZero, Asserting, AssertionFails, Shint, Dyn

LEMMA DynRounds ==
  ASSUME NEW a, Operand(a), a.dyn, MagnitudeFits(a), NEW prec \in Int,
         -FPDEC_MAX_DEC_PREC =< prec, prec =< FPDEC_MAX_DEC_PREC, NEW mode,
         RoundsCorrectly(a, prec, mode)
  PROVE  Rounds(a, prec, mode, fpdec_dyn_adjust_to_prec(a, prec, mode))
<1>1. PICK s \in {-1, 1}, e \in Int, c \in Nat \ {0}, n \in Nat \ {0}, m \in 0 .. FPDEC_MAX_DEC_PREC :
        s = a.sign /\ e = a.exp /\ c = a.coeff /\ n = a.n /\ m = a.dec_prec
  BY DynFacts
<1>2. PICK g \in Int : g = Place(e) /\ Number(a) = Canonical(s * c, g)
  <2>1. Place(e) \in Int
    BY <1>1, PlaceFacts
  <2>2. QED
    BY <1>1, <2>1, DynFacts
<1>3. PICK shift \in Int : shift = -g - prec
  <2>1. -g - prec \in Int
    OBVIOUS
  <2>2. QED
    BY <2>1
<1>4. shift = -Place(a.exp) - prec
  BY <1>1, <1>2, <1>3
<1>5. PICK p \in 0 .. FPDEC_MAX_DEC_PREC : p = AsDecPrec(prec)
  BY AsDecPrecFacts
<1> DEFINE b == [a EXCEPT !.dec_prec = p]
           o == fpdec_dyn_adjust_to_prec(a, prec, mode)
           r1 == [RoundedAway(a, shift, mode) EXCEPT !.dec_prec = MAX(prec, 0)]
           r2 == [RoundedIn(a, shift, mode) EXCEPT !.dec_prec = MAX(prec, 0)]
<1>6. o = IF prec >= a.dec_prec \/ shift =< 0 THEN Ok(b)
          ELSE IF shift > Place(a.n) THEN fpdec_dyn_normalize(r1) ELSE fpdec_dyn_normalize(r2)
  BY <1>4, <1>5, DynAdjustIs, Zenon
<1> HIDE DEF o
<1>7. CASE prec >= a.dec_prec \/ shift =< 0
  <2>1. Number(b) = Number(a)
    BY PrecChanged
  <2>2. o.v = b
    BY <1>6, <1>7 DEF Ok, Returns
  <2>3. Number(a)[2] \in Int /\ Number(a)[2] >= -prec
    <3>1. s * c \in Int
      OBVIOUS
    <3>2. Number(a)[2] \in Int
      BY <1>2, <3>1, CanonicalSign
    <3>3. CASE prec >= a.dec_prec
      <4>1. Number(a)[2] >= -m
        BY <1>1 DEF Operand, PrecCoversDigits
      <4>2. m \in Int /\ prec >= m
        BY <1>1, <3>3
      <4>3. QED
        BY <3>2, <4>1, <4>2
    <3>4. CASE shift =< 0
      <4>1. -prec =< g
        BY <1>3, <3>4
      <4>2. Number(a)[2] >= g
        <5>1. s * c # 0
          OBVIOUS
        <5>2. PICK u \in Int, k \in Int : Canonical(s * c, g) = << u, k >> /\ g =< k
          BY <3>1, <5>1, CanonicalFacts
        <5>3. QED
          BY <1>2, <5>2
      <4>3. QED
        BY <3>2, <4>1, <4>2
    <3>5. QED
      BY <1>7, <3>2, <3>3, <3>4
  <2>4. QED
    BY <2>1, <2>2, <2>3, NotRounded DEF Rounds, o
<1>8. CASE ~(prec >= a.dec_prec \/ shift =< 0)
  <2>1. PICK f \in Int : f = -prec /\ g =< f /\ f - g = shift
    BY <1>3, <1>8
  <2>2. shift \in Nat /\ Ten(g, f) = Power(10, shift)
    BY <1>8, <2>1 DEF Ten
  <2>3. RoundedNumber(Canonical(s * c, g), prec, mode) = Canonical(s * Rounded(s, c, Ten(g, f), mode), f)
    BY <2>1, RoundedNumberIs
  <2>4. RoundsDigits(a, prec, shift, mode, o)
    <3>1. CASE shift > Place(a.n)
      <4>1. SeesNoTie(shift, mode)
        <5>1. -a.exp * DEC_DIGITS_PER_DIGIT - prec = shift
          <6>1. (-e) * DEC_DIGITS_PER_DIGIT = -(e * DEC_DIGITS_PER_DIGIT)
            BY Limits
          <6>2. QED
            BY <1>1, <1>2, <1>3, <6>1 DEF Place
        <5>2. a.n * DEC_DIGITS_PER_DIGIT = Place(a.n)
          BY DEF Place
        <5>3. Place(n) \in Int /\ n = a.n
          <6>1. n \in Int
            OBVIOUS
          <6>2. QED
            BY <1>1, <6>1, PlaceFacts
        <5>4. ~(shift =< Place(a.n))
          BY <3>1, <5>3
        <5>5. QED
          BY <5>1, <5>2, <5>4, Zenon DEF RoundsCorrectly, SeesNoTie, Nearest
      <4>2. RoundsDigits(a, prec, shift, mode, fpdec_dyn_normalize(r1))
        BY <1>4, <2>2, <3>1, <4>1, AwayRounds
      <4>3. QED
        BY <1>6, <1>8, <3>1, <4>2
    <3>2. CASE ~(shift > Place(a.n))
      <4>1. shift =< Place(a.n)
        <5>1. Place(n) \in Int
          <6>1. n \in Int
            OBVIOUS
          <6>2. QED
            BY <6>1, PlaceFacts
        <5>2. QED
          BY <1>1, <3>2, <5>1
      <4>2. RoundsDigits(a, prec, shift, mode, fpdec_dyn_normalize(r2))
        BY <1>4, <2>2, <4>1, InRounds
      <4>3. QED
        BY <1>6, <1>8, <3>2, <4>2
    <3>3. QED
      BY <3>1, <3>2
  <2>5. Number(o.v) = Canonical(s * Rounded(s, c, Power(10, shift), mode), f)
    BY <1>1, <2>1, <2>4 DEF RoundsDigits
  <2>6. QED
    BY <1>2, <2>2, <2>3, <2>5 DEF Rounds, o
<1>9. QED
  BY <1>7, <1>8

-----------------------------------------------------------------------------
(***************************************************************************)
(* u128_idecshift to the right. What round_qr sees of a quotient is its    *)
(* low word: enough for a parity, not for a last digit.                    *)
(***************************************************************************)
(* What the low word of a quotient says of its parity and its last digit. *)
LowWordIs(k, j) ==
  /\ j \in Nat /\ (j % 2 # 0 <=> k % 2 = 1)
  /\ k < U64 => j = k /\ (j % 5 = 0 <=> k % 10 \in {0, 5})

LEMMA LowWord ==
  ASSUME NEW k \in Nat
  PROVE  LowWordIs(k, k % U64)
<1>1. PICK j \in Nat : j = k % U64
  <2>1. PICK u \in Nat \ {0} : u = U64
    BY Words128
  <2>2. k % u \in 0 .. u - 1
    BY QuotientAndRest
  <2>3. QED
    BY <2>1, <2>2
<1>2. k < U64 => j = k
  <2>1. PICK u \in Nat \ {0} : u = U64
    BY Words128
  <2>2. k < u => k % u = k
    OBVIOUS
  <2>3. QED
    BY <1>1, <2>1, <2>2
<1>3. j % 2 # 0 <=> k % 2 = 1
  <2>1. PICK u \in Nat \ {0}, i \in Nat : u = U64 /\ u = 2 * i
    <3>1. PICK u \in Nat \ {0} : u = U64 /\ u % 2 = 0
      BY Words128, WordAssumption
    <3>2. u = 2 * (u \div 2) /\ u \div 2 \in Nat
      BY <3>1
    <3>3. QED
      BY <3>1, <3>2
  <2>2. PICK d \in Nat : k = d * u + j
    <3>1. k \div u \in Nat /\ k = (k \div u) * u + (k % u)
      BY QuotientAndRest
    <3>2. QED
      BY <1>1, <2>1, <3>1
  <2>3. PICK t \in Nat : t = d * i /\ k = 2 * t + j
    <3>1. d * u = 2 * (d * i) /\ d * i \in Nat
      BY <2>1
    <3>2. QED
      BY <2>2, <3>1
  <2>4. QED
    BY <2>3
<1>4. k < U64 => (j % 5 = 0 <=> k % 10 \in {0, 5})
  <2>1. k % 10 \in {0, 5} <=> k % 5 = 0
    BY LastDigit
  <2>2. QED
    BY <1>2, <2>1
<1>5. QED
  BY <1>1, <1>2, <1>3, <1>4 DEF LowWordIs

QuotientUp(s, k, r, q, mode) == r > 0 /\ RoundsUp(s, k % U64, r, FALSE, q, mode)

LEMMA QuotientDecision ==
  ASSUME NEW s, NEW k \in Nat, NEW h \in Nat \ {0}, NEW q, q = 2 * h, NEW r \in Nat, r < q, NEW mode,
         mode = "05UP" => k < U64
  PROVE  QuotientUp(s, k, r, q, mode) <=> Away(s, k, r, q, mode)
<1>1. PICK j \in Nat : j = k % U64 /\ (j % 2 # 0 <=> k % 2 = 1)
  BY LowWord DEF LowWordIs
<1>4. mode = "05UP" => (j % 5 = 0 <=> k % 10 \in {0, 5})
  BY <1>1, LowWord DEF LowWordIs
<1>5. (r > h <=> 2 * r > q) /\ (r = h <=> 2 * r = q) /\ (r >= h <=> r > h \/ r = h) /\ (r > 0 <=> r # 0)
  OBVIOUS
<1>6. (IF q > 0 THEN q ELSE U64) \div 2 = h
  <2>1. q > 0 /\ q \div 2 = h
    OBVIOUS
  <2>2. QED
    BY <2>1
<1>7. RoundsUp(s, j, r, FALSE, q, mode) <=>
        \/ mode = "05UP" /\ j % 5 = 0
        \/ mode = "CEILING" /\ s >= 0
        \/ mode = "FLOOR" /\ s < 0
        \/ mode = "HALF_DOWN" /\ r > h
        \/ mode = "HALF_EVEN" /\ (r > h \/ (r = h /\ j % 2 # 0))
        \/ mode = "HALF_UP" /\ r >= h
        \/ mode = "UP"
  <2>1. PICK tie : tie = (IF q > 0 THEN q ELSE U64) \div 2 /\ tie = h
    BY <1>6
  <2>2. /\ (r > tie \/ (r = tie /\ FALSE)) <=> r > h
        /\ (r > tie \/ (r = tie /\ (FALSE \/ j % 2 # 0))) <=> (r > h \/ (r = h /\ j % 2 # 0))
        /\ r >= tie <=> r >= h
    BY <2>1, Zenon
  <2>3. /\ (\/ r > (IF q > 0 THEN q ELSE U64) \div 2
            \/ (r = (IF q > 0 THEN q ELSE U64) \div 2 /\ FALSE)) <=> r > h
        /\ (\/ r > (IF q > 0 THEN q ELSE U64) \div 2
            \/ (r = (IF q > 0 THEN q ELSE U64) \div 2 /\ (FALSE \/ j % 2 # 0)))
              <=> (r > h \/ (r = h /\ j % 2 # 0))
        /\ r >= (IF q > 0 THEN q ELSE U64) \div 2 <=> r >= h
    BY <2>1, <2>2, Zenon
  <2>4. QED
    BY <2>3, Zenon DEF RoundsUp
<1>8. Away(s, k, r, q, mode) <=>
        /\ r > 0
        /\ \/ mode = "UP"
           \/ mode = "CEILING" /\ s >= 0
           \/ mode = "FLOOR" /\ s < 0
           \/ mode = "05UP" /\ j % 5 = 0
           \/ mode \in {"HALF_DOWN", "HALF_EVEN", "HALF_UP"} /\ r > h
           \/ mode = "HALF_UP" /\ r = h
           \/ mode = "HALF_EVEN" /\ r = h /\ j % 2 # 0
  BY <1>1, <1>4, <1>5, Zenon DEF Away
<1>9. QED
  BY <1>1, <1>5, <1>7, <1>8, Zenon DEF QuotientUp

(* One division rounds, if round_qr sees all it needs of the quotient. *)
LEMMA QuotientRounds ==
  ASSUME NEW v \in Nat, NEW s, NEW n \in Nat \ {0}, NEW mode, mode = "05UP" => v < U64
  PROVE  u128_idivr_10_pow_n(v, s, n, mode) = Rounded(s, v, Power(10, n), mode)
<1>1. PICK h \in Nat \ {0}, q \in Nat \ {0} : q = Power(10, n) /\ q = 2 * h
  <2>1. PICK i \in Nat : n = i + 1
    <3>1. n - 1 \in Nat /\ n = (n - 1) + 1
      OBVIOUS
    <3>2. QED
      BY <3>1
  <2>2. Power(10, i) \in Nat \ {0} /\ Power(10, i + 1) = 10 * Power(10, i)
    BY PowersOf10
  <2>3. PICK w \in Nat \ {0} : w = Power(10, i)
    BY <2>2
  <2>4. 5 * w \in Nat \ {0} /\ 10 * w \in Nat \ {0} /\ 10 * w = 2 * (5 * w)
    OBVIOUS
  <2>5. QED
    BY <2>1, <2>2, <2>3, <2>4
<1>2. PICK k \in Nat, r \in Nat : k = v \div q /\ r = v % q /\ r < q /\ v = k * q + r
  <2>1. v \div q \in Nat /\ v % q \in 0 .. q - 1 /\ v = (v \div q) * q + (v % q)
    BY QuotientAndRest
  <2>2. PICK k \in Nat, r \in 0 .. q - 1 : k = v \div q /\ r = v % q
    BY <2>1
  <2>3. r \in Nat /\ r < q /\ v = k * q + r
    BY <2>1, <2>2
  <2>4. QED
    BY <2>2, <2>3
<1>3. mode = "05UP" => k < U64
  <2>1. SUFFICES ASSUME mode = "05UP" PROVE k < U64
    OBVIOUS
  <2>2. k =< k * q
    OBVIOUS
  <2>3. k * q \in Nat
    OBVIOUS
  <2>4. PICK u \in Nat : u = U64 /\ v < u
    BY <2>1, Words128
  <2>5. QED
    BY <1>2, <2>2, <2>3, <2>4
<1>4. QuotientUp(s, k, r, q, mode) <=> Away(s, k, r, q, mode)
  BY <1>1, <1>2, <1>3, QuotientDecision
<1>5. PICK i \in 0 .. 1 : i = IF Away(s, k, r, q, mode) THEN 1 ELSE 0
  OBVIOUS
<1>6. Rounded(s, v, q, mode) = k + i
  <2>1. v \in Int /\ v = k * q + r /\ r < q
    BY <1>2
  <2>2. Rounded(s, v, q, mode) = k + (IF Away(s, k, r, q, mode) THEN 1 ELSE 0)
    BY <2>1, RoundedIs
  <2>3. QED
    BY <1>5, <2>2, Zenon
<1>7. u128_idivr_10_pow_n(v, s, n, mode) = k + i
  <2>1. (IF r > 0 THEN round_qr(s, k % U64, r, FALSE, q, mode) ELSE 0) = i
    BY <1>4, <1>5, Zenon DEF QuotientUp, round_qr
  <2>2. u128_idivr_10_pow_n(v, s, n, mode)
          = k + (IF r > 0 THEN round_qr(s, k % U64, r, FALSE, q, mode) ELSE 0)
    BY <1>1, <1>2, Zenon DEF u128_idivr_10_pow_n, u64_10_pow_n
  <2>3. QED
    BY <2>1, <2>2, Zenon
<1>8. QED
  BY <1>1, <1>6, <1>7

(* Two divisions round, if the first leaves no rest. *)
LEMMA ShiftRounds ==
  ASSUME NEW v \in Nat, NEW s, NEW n \in Nat \ {0}, NEW mode, mode = "05UP" => v < U64,
         n =< UINT64_10_POW_N_CUTOFF \/ v % RADIX = 0,
         NEW m \in Int, m = -n
  PROVE  u128_idecshift(v, s, m, mode) = Rounded(s, v, Power(10, n), mode)
<1>1. PICK d \in Nat \ {0} : d = UINT64_10_POW_N_CUTOFF /\ RADIX = Power(10, d)
  BY Limits DEF UINT64_10_POW_N_CUTOFF
<1>2. -m = n /\ ~(m >= 0)
  OBVIOUS
<1>3. CASE n =< d
  <2>1. MIN(n, d) = n /\ ~(n < n)
    BY <1>3 DEF MIN
  <2>2. u128_idecshift(v, s, m, mode) = u128_idivr_10_pow_n(v, s, n, mode)
    BY <1>1, <1>2, <2>1, Zenon DEF u128_idecshift
  <2>3. QED
    BY <2>2, QuotientRounds
<1>4. CASE ~(n =< d)
  <2>1. MIN(n, d) = d /\ d < n
    BY <1>4 DEF MIN
  <2>2. PICK w \in Nat : v = w * RADIX
    <3>1. v % RADIX = 0
      BY <1>1, <1>4
    <3>2. PICK r \in Nat \ {0} : r = RADIX
      BY RadixPositive
    <3>3. v \div r \in Nat /\ v = (v \div r) * r + (v % r)
      BY QuotientAndRest
    <3>4. PICK w \in Nat : w = v \div r
      BY <3>3
    <3>5. v = w * r
      BY <3>1, <3>2, <3>3, <3>4
    <3>6. QED
      BY <3>2, <3>5
  <2>3. u128_idivr_10_pow_n(v, s, d, "DOWN") = w
    <3>1. u128_idivr_10_pow_n(v, s, d, "DOWN") = Rounded(s, v, Power(10, d), "DOWN")
      BY QuotientRounds
    <3>2. PICK r \in Nat \ {0} : r = Power(10, d) /\ v = w * r
      BY <1>1, <2>2, RadixPositive
    <3>3. Rounded(s, v, r, "DOWN") = w
      BY <3>2, RoundedExact
    <3>4. QED
      BY <3>1, <3>2, <3>3
  <2>4. PICK k \in Nat \ {0} : k = n - d
    BY <2>1
  <2>5. u128_idecshift(v, s, m, mode) = u128_idivr_10_pow_n(w, s, k, mode)
    BY <1>1, <1>2, <2>1, <2>3, <2>4, Zenon DEF u128_idecshift
  <2>6. mode = "05UP" => w < U64
    <3>1. SUFFICES ASSUME mode = "05UP" PROVE w < U64
      OBVIOUS
    <3>2. PICK u \in Nat, r \in Nat \ {0} : u = U64 /\ v < u /\ r = RADIX
      BY <3>1, Words128, RadixPositive
    <3>3. w =< w * r /\ w * r \in Nat
      OBVIOUS
    <3>4. QED
      BY <2>2, <3>2, <3>3
  <2>7. u128_idivr_10_pow_n(w, s, k, mode) = Rounded(s, w, Power(10, k), mode)
    BY <2>6, QuotientRounds
  <2>8. PICK q \in Nat \ {0}, t \in Nat \ {0} :
          q = Power(10, k) /\ t = RADIX /\ Power(10, n) = q * t /\ v = w * t
    <3>1. Power(10, n) = Power(10, d) * Power(10, k)
      <4>1. PICK b \in Nat \ {0} : b = 10
        OBVIOUS
      <4>2. Power(b, d + k) = Power(b, d) * Power(b, k)
        BY PowerSum
      <4>3. d + k = n
        BY <2>4
      <4>4. QED
        BY <4>1, <4>2, <4>3
    <3>2. PICK q \in Nat \ {0} : q = Power(10, k)
      BY PowersOf10
    <3>3. PICK t \in Nat \ {0} : t = Power(10, d)
      BY PowersOf10
    <3>4. t * q = q * t
      OBVIOUS
    <3>5. QED
      BY <1>1, <2>2, <3>1, <3>2, <3>3, <3>4
  <2>9. Rounded(s, w * t, q * t, mode) = Rounded(s, w, q, mode)
    BY RoundedScaled
  <2>10. QED
    BY <2>5, <2>7, <2>8, <2>9
<1>5. QED
  BY <1>3, <1>4

(***************************************************************************)
(* The way back, in turns: no product wraps if the whole one does not.     *)
(***************************************************************************)
Turned(u, n, d, i, b) ==
  /\ b \in Nat
  /\ b < SHINT_LIMIT => b = u * Power(10, MIN(i * d, n))
  /\ b >= SHINT_LIMIT => u * Power(10, n) >= SHINT_LIMIT

LEMMA NextTurn ==
  ASSUME NEW u \in Nat, NEW n \in Nat, u * Power(10, n) < U128, NEW d \in Nat \ {0},
         NEW i \in Nat, i * d < n, NEW b, Turned(u, n, d, i, b), b < SHINT_LIMIT
  PROVE  Turned(u, n, d, i + 1, u128_imul_u64(b, u64_10_pow_n(MIN(n - i * d, d))))
<1>1. PICK g \in Nat, h \in Nat, k \in Nat :
        /\ g = MIN(i * d, n) /\ h = MIN((i + 1) * d, n) /\ k = MIN(n - i * d, d)
        /\ h = g + k /\ h =< n
  <2>1. (i + 1) * d = i * d + d /\ i * d \in Nat
    OBVIOUS
  <2>2. PICK j \in Nat : j = i * d /\ j < n
    BY <2>1
  <2>3. PICK g \in Nat, h \in Nat, k \in Nat : g = j /\ h = MIN(j + d, n) /\ k = MIN(n - j, d)
    <3>1. MIN(j + d, n) \in Nat /\ MIN(n - j, d) \in Nat
      BY <2>2 DEF MIN
    <3>2. QED
      BY <3>1
  <2>4. g = MIN(j, n) /\ h = g + k /\ h =< n
    BY <2>2, <2>3 DEF MIN
  <2>5. QED
    BY <2>1, <2>2, <2>3, <2>4
<1>2. PICK p \in Nat \ {0}, q \in Nat \ {0}, r \in Nat \ {0}, w \in Nat \ {0} :
        p = Power(10, g) /\ q = Power(10, k) /\ r = Power(10, h) /\ w = Power(10, n)
  <2>1. Power(10, g) \in Nat \ {0} /\ Power(10, k) \in Nat \ {0}
    BY PowersOf10
  <2>2. Power(10, h) \in Nat \ {0} /\ Power(10, n) \in Nat \ {0}
    BY PowersOf10
  <2>3. QED
    BY <2>1, <2>2
<1>3. r = p * q /\ r =< w
  <2>1. PICK b10 \in Nat \ {0} : b10 = 10 /\ b10 >= 2
    OBVIOUS
  <2>2. Power(b10, g + k) = Power(b10, g) * Power(b10, k)
    BY PowerSum
  <2>3. Power(b10, h) =< Power(b10, n)
    BY <1>1, <2>1, PowerOrder
  <2>4. QED
    BY <1>1, <1>2, <2>1, <2>2, <2>3
<1>4. b \in Nat /\ b = u * p
  BY <1>1, <1>2 DEF Turned
<1>5. b * q = u * r /\ b * q \in Nat /\ b * q =< u * w
  <2>1. (u * p) * q = u * (p * q)
    OBVIOUS
  <2>2. u * r =< u * w
    BY <1>3
  <2>3. u * r \in Nat
    OBVIOUS
  <2>4. QED
    BY <1>3, <1>4, <2>1, <2>2, <2>3
<1>6. b * q < U128
  <2>1. U128 \in Nat /\ u * w < U128 /\ u * w \in Nat
    BY <1>2, Words128
  <2>2. QED
    BY <1>5, <2>1
<1>7. PICK v : v = u128_imul_u64(b, q)
  OBVIOUS
<1>8. v = b * q
  BY <1>4, <1>6, <1>7, ImulExact
<1>9. v \in Nat /\ v = u * r /\ v =< u * w /\ u * w \in Nat
  BY <1>5, <1>8
<1>10. Turned(u, n, d, i + 1, v)
  <2>1. v >= SHINT_LIMIT => u * w >= SHINT_LIMIT
    BY <1>9, Limits
  <2>2. QED
    BY <1>1, <1>2, <1>9, <2>1 DEF Turned
<1>11. QED
  BY <1>1, <1>2, <1>7, <1>10 DEF u64_10_pow_n

LEMMA ShiftedBackExact ==
  ASSUME NEW u \in Nat, NEW n \in Nat, u * Power(10, n) < U128
  PROVE  LET v == ShiftedBack(u, n)
         IN  /\ v \in Nat
             /\ v < SHINT_LIMIT => v = u * Power(10, n)
             /\ v >= SHINT_LIMIT => u * Power(10, n) >= SHINT_LIMIT
<1>1. PICK d \in Nat \ {0} : d = UINT64_10_POW_N_CUTOFF
  BY Limits DEF UINT64_10_POW_N_CUTOFF
<1>2. PICK top \in Nat : /\ n =< top * d /\ (top - 1) * d < n
                       /\ \E back : BackTurns(u, n, d, top, back)
  BY <1>1, ShiftedBackTurns
<1>3. PICK back : BackTurns(u, n, d, top, back)
  BY <1>2
<1> DEFINE S == {i \in Nat : i =< top => Turned(u, n, d, i, back[i])}
<1>4. 0 \in S
  <2>1. MIN(0 * d, n) = 0
    BY DEF MIN
  <2>2. Power(10, 0) = 1
    BY PowerZero
  <2>3. PICK w \in Nat \ {0} : w = Power(10, n)
    BY PowersOf10
  <2>4. u >= SHINT_LIMIT => u * w >= SHINT_LIMIT
    <3>1. u =< u * w /\ u * w \in Nat
      OBVIOUS
    <3>2. QED
      BY <3>1, Limits
  <2>5. Turned(u, n, d, 0, u)
    BY <2>1, <2>2, <2>3, <2>4 DEF Turned
  <2>6. back[0] = u
    BY <1>3 DEF BackTurns
  <2>7. QED
    BY <2>5, <2>6
<1>5. ASSUME NEW i \in Nat, i \in S PROVE i + 1 \in S
  <2>1. SUFFICES ASSUME i + 1 =< top PROVE Turned(u, n, d, i + 1, back[i + 1])
    OBVIOUS
  <2>2. Turned(u, n, d, i, back[i])
    BY <1>5, <2>1
  <2>3. i * d < n
    <3>1. PICK j \in Nat : j = top - 1 /\ i =< j
      BY <2>1
    <3>2. i * d =< j * d /\ i * d \in Nat /\ j * d \in Nat
      BY <3>1
    <3>3. QED
      BY <1>2, <3>1, <3>2
  <2>4. PICK b : b = back[i]
    OBVIOUS
  <2>5. PICK v : v = u128_imul_u64(b, u64_10_pow_n(MIN(n - i * d, d)))
    OBVIOUS
  <2>6. back[i + 1] = IF b >= SHINT_LIMIT THEN b ELSE v
    <3>1. i + 1 \in 1 .. top /\ (i + 1) - 1 = i
      BY <2>1
    <3>2. QED
      BY <1>3, <2>4, <2>5, <3>1 DEF BackTurns
  <2>7. b \in Nat
    BY <2>2, <2>4 DEF Turned
  <2>8. CASE b >= SHINT_LIMIT
    <3>1. ~(b < SHINT_LIMIT)
      BY <2>7, <2>8, Limits
    <3>2. Turned(u, n, d, i + 1, b)
      BY <2>2, <2>4, <3>1 DEF Turned
    <3>3. QED
      BY <2>6, <2>8, <3>2
  <2>9. CASE b < SHINT_LIMIT
    <3>1. ~(b >= SHINT_LIMIT)
      BY <2>7, <2>9, Limits
    <3>2. Turned(u, n, d, i + 1, v)
      BY <2>2, <2>3, <2>4, <2>5, <2>9, NextTurn
    <3>3. QED
      BY <2>6, <3>1, <3>2
  <2>10. QED
    BY <2>7, <2>8, <2>9, Limits
<1> HIDE DEF S
<1>6. \A i \in Nat : i \in S
  BY <1>4, <1>5, SetInduction
<1>7. Turned(u, n, d, top, back[top])
  BY <1>6 DEF S
<1>8. MIN(top * d, n) = n
  <2>1. top * d \in Nat
    OBVIOUS
  <2>2. QED
    BY <1>2, <2>1 DEF MIN
<1>9. ShiftedBack(u, n) = back[top]
  BY <1>3 DEF BackTurns
<1>10. QED
  BY <1>7, <1>8, <1>9 DEF Turned

-----------------------------------------------------------------------------
(***************************************************************************)
(* fpdec_shint_adjust_to_prec. A number is rounded to at most a unit more  *)
(* than it contains, and that does not overflow.                           *)
(***************************************************************************)
LEMMA RoundedAbove ==
  ASSUME NEW s, NEW c \in Nat, NEW q \in Nat \ {0}, NEW p \in Nat \ {0}, p =< q, NEW mode
  PROVE  /\ Rounded(s, c, q, mode) \in Nat
         /\ Rounded(s, c, q, mode) * p =< c + p
<1>1. PICK k \in Nat, r \in Nat : r < q /\ c = k * q + r
  <2>1. PICK k \in Nat, r \in 0 .. q - 1 : k = c \div q /\ r = c % q /\ c = k * q + r
    BY QuotientAndRest
  <2>2. k \in Nat /\ r \in Nat /\ r < q /\ c = k * q + r
    BY <2>1
  <2>3. QED
    BY <2>2
<1>2. PICK i \in 0 .. 1 : i = IF Away(s, k, r, q, mode) THEN 1 ELSE 0
  OBVIOUS
<1>3. Rounded(s, c, q, mode) = k + i
  BY <1>1, <1>2, RoundedIs
<1>4. (k + i) * p =< c + p
  <2>1. (k + i) * p = k * p + i * p
    OBVIOUS
  <2>2. i * p =< p /\ i * p \in Nat
    OBVIOUS
  <2>3. k * p =< k * q /\ k * p \in Nat /\ k * q \in Nat
    OBVIOUS
  <2>4. QED
    BY <1>1, <2>1, <2>2, <2>3
<1>5. k + i \in Nat
  OBVIOUS
<1>6. QED
  BY <1>3, <1>4, <1>5

LEMMA RoundedFits ==
  ASSUME NEW c \in Nat, c < SHINT_LIMIT, NEW n \in Nat, n =< MAX_N_DEC_DIGITS_IN_SHINT,
         NEW u \in Nat, u * Power(10, n) =< c + Power(10, n)
  PROVE  u * Power(10, n) < U128
<1>1. PICK d \in Nat : d = MAX_N_DEC_DIGITS_IN_SHINT
  BY Room
<1>2. PICK w \in Nat \ {0}, t \in Nat \ {0} : w = Power(10, n) /\ t = Power(10, d)
  <2>1. Power(10, n) \in Nat \ {0} /\ Power(10, d) \in Nat \ {0}
    BY PowersOf10
  <2>2. QED
    BY <2>1
<1>3. w =< t
  <2>1. PICK b \in Nat : b = 10 /\ b >= 2
    OBVIOUS
  <2>2. Power(b, n) =< Power(b, d)
    BY <1>1, <2>1, PowerOrder
  <2>3. QED
    BY <1>2, <2>1, <2>2
<1>4. 10 * t < U128 /\ SHINT_LIMIT < t
  <2>1. Power(10, d + 1) = 10 * t
    BY <1>2, PowersOf10
  <2>2. QED
    BY <1>1, <1>2, <2>1, ShintAssumption
<1>5. u * w \in Nat
  OBVIOUS
<1>6. PICK k \in Nat, i \in Nat, l \in Nat : k = u * w /\ i = U128 /\ l = SHINT_LIMIT
  BY <1>5, Words128, Limits
<1>7. k < i
  BY <1>2, <1>3, <1>4, <1>6
<1>8. QED
  BY <1>2, <1>6, <1>7

(* A shifted int that is not below a tenth of the unit it is rounded to *)
(* has digits that reach it.                                            *)
LEMMA DigitsReach ==
  ASSUME NEW a, Operand(a), a.sign # 0, ~a.dyn, NEW prec \in Int,
         NEW n \in Nat, n = a.dec_prec - prec, Power(10, n) < 10 * a.coeff
  PROVE  LET d == DigitsOf(a) IN -Place(d.exp) - prec =< Place(d.n)
<1>1. PICK c \in Nat \ {0}, q \in 0 .. MAX_DEC_PREC_FOR_SHINT :
        c = a.coeff /\ q = a.dec_prec /\ q \in Int /\ -q \in Int
  <2>1. a.coeff \in Nat \ {0} /\ a.dec_prec \in 0 .. MAX_DEC_PREC_FOR_SHINT
    BY DEF Operand, WellFormed, Decimals
  <2>2. QED
    BY <2>1, Room
<1>2. PICK d : d = DigitsOf(a)
  OBVIOUS
<1>3. Stripped(d) /\ d.exp \in Int /\ d.n \in Int
  <2>1. Stripped(d) /\ d.exp \in INT32_MIN .. FPDEC_MAX_EXP
    BY <1>2, OperandDigits
  <2>2. QED
    BY <2>1, Room DEF Stripped
<1>4. PICK g \in Int, l \in Int, h \in Int : g = Place(d.exp) /\ l = Place(d.n) /\ h = Place(d.exp + d.n) /\ h = g + l
  <2>1. /\ Place(d.exp) \in Int /\ Place(d.n) \in Int
        /\ Place(d.exp + d.n) = Place(d.exp) + Place(d.n)
    BY <1>3, PlaceFacts
  <2>2. QED
    BY <2>1
<1>5. PICK e \in Int : e = Unit(a) /\ e =< g /\ e =< -q
  <2>1. Unit(a) = MIN(g, -q)
    BY <1>1, <1>2, <1>4 DEF Unit
  <2>2. MIN(g, -q) \in Int /\ MIN(g, -q) =< g /\ MIN(g, -q) =< -q
    BY <1>1 DEF MIN
  <2>3. QED
    BY <2>1, <2>2
<1>6. PICK m \in Nat : m = d.coeff * Ten(e, g) /\ m = c * Ten(e, -q)
  <2>1. e =< Unit(a)
    BY <1>5
  <2>2. /\ \E m \in Nat : Amount(a, e, m)
        /\ \A m : Amount(a, e, m) => m = d.coeff * Ten(e, Place(d.exp))
        /\ \A m : Amount(a, e, m) => m = a.coeff * Ten(e, -a.dec_prec)
    BY <1>2, <2>1, Amounts
  <2>3. QED
    BY <1>1, <1>4, <2>2
<1>7. SUFFICES ASSUME -g - prec > l PROVE FALSE
  BY <1>2, <1>4
<1>8. PICK f \in Int : f = -prec /\ h < f /\ e =< h /\ f = -q + n
  <2>1. l >= 0
    <3>1. 0 \in Int /\ 0 =< d.n
      BY <1>3 DEF Stripped
    <3>2. Place(0) =< Place(d.n)
      BY <1>3, <3>1, PlaceFacts
    <3>3. QED
      BY <1>4, <3>2, Places
  <2>2. n = q - prec
    BY <1>1
  <2>3. PICK f \in Int : f = -prec
    OBVIOUS
  <2>4. h < f /\ e =< h /\ f = -q + n
    BY <1>1, <1>4, <1>5, <1>7, <2>1, <2>2, <2>3
  <2>5. QED
    BY <2>3, <2>4
<1>9. m < Ten(e, h)
  BY <1>3, <1>4, <1>5, <1>6, DigitBounds
<1>10. PICK t \in Nat \ {0}, w \in Nat \ {0}, u \in Nat \ {0} :
         t = Ten(e, -q) /\ w = Power(10, n) /\ u = Ten(e, h) /\ Ten(e, f) = t * w
  <2>1. PICK i \in Int : i = -q /\ e =< i /\ i =< f /\ f - i = n
    BY <1>1, <1>5, <1>8
  <2>2. Ten(e, i) \in Nat \ {0} /\ Ten(e, h) \in Nat \ {0}
    BY <1>8, <2>1, TenType
  <2>3. Power(10, n) \in Nat \ {0}
    BY PowersOf10
  <2>4. Ten(e, f) = Ten(e, i) * Ten(i, f)
    BY <2>1, TenSteps
  <2>5. Ten(i, f) = Power(10, n)
    BY <2>1 DEF Ten
  <2>6. QED
    BY <2>1, <2>2, <2>3, <2>4, <2>5
<1>11. 10 * u =< t * w
  <2>1. PICK j \in Int : j = h + 1 /\ e =< j /\ j =< f /\ h =< j /\ j - h = 1
    BY <1>8
  <2>2. Ten(e, j) = Ten(e, h) * Ten(h, j)
    BY <1>8, <2>1, TenSteps
  <2>3. Ten(h, j) = 10
    <3>1. Power(10, 0 + 1) = 10 * Power(10, 0) /\ Power(10, 0) = 1
      BY PowersOf10, PowerZero
    <3>2. QED
      BY <2>1, <3>1 DEF Ten
  <2>4. Ten(e, j) =< Ten(e, f)
    BY <2>1, TenOrder
  <2>5. QED
    BY <1>10, <2>2, <2>3, <2>4
<1>12. m < u /\ m = c * t /\ w < 10 * c
  BY <1>1, <1>6, <1>9, <1>10
<1>13. w * t < (10 * c) * t
  <2>1. w + 1 =< 10 * c
    BY <1>12
  <2>2. (w + 1) * t =< (10 * c) * t
    BY <2>1
  <2>3. (w + 1) * t = w * t + t /\ w * t \in Nat /\ (10 * c) * t \in Nat
    OBVIOUS
  <2>4. QED
    BY <2>2, <2>3
<1>14. (10 * c) * t = 10 * m /\ w * t = t * w /\ w * t \in Nat
  BY <1>12
<1>15. QED
  BY <1>11, <1>12, <1>13, <1>14

-----------------------------------------------------------------------------
(***************************************************************************)
(* fpdec_shint_adjust_to_prec. If the rounded number does not fit a        *)
(* shifted int the digits are rounded anew: they reach the place rounded   *)
(* to, or a nearest number would have been 0.                              *)
(***************************************************************************)
LEMMA DigitsRoundCorrectly ==
  ASSUME NEW a, Operand(a), a.sign # 0, ~a.dyn, NEW prec \in Int,
         NEW n \in Nat, n = a.dec_prec - prec, NEW mode,
         Rounded(a.sign, a.coeff, Power(10, n), mode) # 0
  PROVE  RoundsCorrectly(AsDyn(a), prec, mode)
<1>1. PICK c \in Nat \ {0}, s \in {-1, 1} : c = a.coeff /\ s = a.sign
  BY DEF Operand, WellFormed, Decimals
<1>2. PICK w \in Nat \ {0} : w = Power(10, n)
  BY PowersOf10
<1>3. PICK d : d = DigitsOf(a)
  OBVIOUS
<1> DEFINE b == AsDyn(a)
<1>4. b.dyn /\ b.exp = d.exp /\ b.n = d.n
  BY <1>3 DEF AsDyn, Dyn
<1>5. CASE mode \notin Nearest
  BY <1>4, <1>5 DEF RoundsCorrectly, Nearest
<1>6. CASE mode \in Nearest
  <2>1. w < 10 * c
    <3>1. SUFFICES ASSUME 10 * c =< w PROVE FALSE
      BY <1>1, <1>2
    <3>2. Rounded(s, c, w, mode) = Rounded(s, 1, 10, mode)
      BY <3>1, RoundedTiny
    <3>3. PICK k \in Nat, r \in Nat, t \in Nat \ {0}, v \in Nat : k = 0 /\ r = 1 /\ t = 10 /\ v = 1
      OBVIOUS
    <3>4. r < t /\ v = k * t + r
      BY <3>3
    <3>5. Rounded(s, v, t, mode) = k + (IF Away(s, k, r, t, mode) THEN 1 ELSE 0)
      BY <3>4, RoundedIs
    <3>6. ~Away(s, k, r, t, mode)
      BY <1>6, <3>3 DEF Away, Nearest
    <3>7. Rounded(s, c, w, mode) = 0
      BY <3>2, <3>3, <3>5, <3>6
    <3>8. QED
      BY <1>1, <1>2, <3>7
  <2>2. -Place(d.exp) - prec =< Place(d.n)
    BY <1>1, <1>2, <1>3, <2>1, DigitsReach
  <2>3. d.exp \in Int
    BY <1>3, OperandDigits, Room
  <2>4. (-d.exp) * DEC_DIGITS_PER_DIGIT = -(d.exp * DEC_DIGITS_PER_DIGIT)
    BY <2>3, Limits
  <2>5. -b.exp * DEC_DIGITS_PER_DIGIT - prec =< b.n * DEC_DIGITS_PER_DIGIT
    BY <1>4, <2>2, <2>4 DEF Place
  <2>6. QED
    BY <1>4, <2>5 DEF RoundsCorrectly
<1>7. QED
  BY <1>5, <1>6

LEMMA ShintRounds ==
  ASSUME NEW a, Operand(a), a.sign # 0, ~a.dyn, MagnitudeFits(DigitsOf(a)), NEW prec \in Int,
         -FPDEC_MAX_DEC_PREC =< prec, prec < a.dec_prec, NEW mode,
         RoundsCorrectly(a, prec, mode)
  PROVE  Rounds(a, prec, mode, fpdec_shint_adjust_to_prec(a, prec, mode))
<1>1. PICK s \in {-1, 1}, c \in Nat \ {0}, q \in 0 .. MAX_DEC_PREC_FOR_SHINT :
        s = a.sign /\ c = a.coeff /\ q = a.dec_prec /\ c < SHINT_LIMIT
  BY DEF Operand, WellFormed, Decimals
<1>2. Number(a) = Canonical(s * c, -q)
  BY <1>1 DEF Number
<1>3. PICK n \in Nat \ {0}, shift \in Int, f \in Int, e \in Int :
        n = q - prec /\ shift = -n /\ shift = prec - q /\ f = -prec /\ e = -q /\ e =< f /\ f - e = n
  <2>1. q \in Int /\ prec < q
    BY <1>1, Room
  <2>2. q - prec \in Nat \ {0}
    BY <2>1
  <2>3. /\ -(q - prec) \in Int /\ -(q - prec) = prec - q /\ -prec \in Int /\ -q \in Int
        /\ -q =< -prec /\ (-prec) - (-q) = q - prec
    BY <2>1
  <2>4. QED
    BY <2>2, <2>3
<1>4. /\ n =< MAX_N_DEC_DIGITS_IN_SHINT
      /\ n =< UINT64_10_POW_N_CUTOFF \/ c % RADIX = 0
      /\ mode = "05UP" => c < U64
  BY <1>1, <1>3 DEF RoundsCorrectly
<1>5. PICK p \in 0 .. MAX_DEC_PREC_FOR_SHINT, back \in Nat, g \in Int :
        /\ p = MAX(prec, 0) /\ back = MAX(-prec, 0) /\ back =< n
        /\ g = -p /\ g =< f /\ f - g = back
  <2>1. q \in Int /\ 0 =< q /\ prec < q /\ q =< MAX_DEC_PREC_FOR_SHINT
    BY <1>1, Room
  <2>2. MAX(prec, 0) \in 0 .. MAX_DEC_PREC_FOR_SHINT /\ MAX(-prec, 0) \in Nat /\ MAX(-prec, 0) =< n
    BY <1>3, <2>1, Room DEF MAX
  <2>3. /\ -MAX(prec, 0) \in Int /\ -MAX(prec, 0) =< f /\ f - (-MAX(prec, 0)) = MAX(-prec, 0)
    BY <1>3, <2>1, Room DEF MAX
  <2>4. QED
    BY <2>2, <2>3
<1>6. PICK u \in Nat : /\ u = u128_idecshift(c, s, shift, mode)
                       /\ u = Rounded(s, c, Power(10, n), mode)
  <2>1. u128_idecshift(c, s, shift, mode) \in Nat
    BY DecShift
  <2>2. u128_idecshift(c, s, shift, mode) = Rounded(s, c, Power(10, n), mode)
    BY <1>3, <1>4, ShiftRounds
  <2>3. QED
    BY <2>1, <2>2
<1>7. RoundedNumber(Number(a), prec, mode) = Canonical(s * u, f)
  <2>1. Ten(e, f) = Power(10, n)
    BY <1>3 DEF Ten
  <2>2. RoundedNumber(Canonical(s * c, e), prec, mode) = Canonical(s * Rounded(s, c, Ten(e, f), mode), f)
    BY <1>3, RoundedNumberIs
  <2>3. QED
    BY <1>2, <1>3, <1>6, <2>1, <2>2
<1>8. u * Power(10, back) < U128
  <2>1. PICK i \in Nat \ {0}, j \in Nat \ {0} : i = Power(10, back) /\ j = Power(10, n) /\ i =< j
    <3>1. Power(10, back) \in Nat \ {0} /\ Power(10, n) \in Nat \ {0}
      BY PowersOf10
    <3>2. PICK b \in Nat : b = 10 /\ b >= 2
      OBVIOUS
    <3>3. Power(b, back) =< Power(b, n)
      BY <1>5, <3>2, PowerOrder
    <3>4. QED
      BY <3>1, <3>2, <3>3
  <2>2. Rounded(s, c, j, mode) * i =< c + i
    BY <2>1, RoundedAbove
  <2>3. u * Power(10, back) =< c + Power(10, back)
    BY <1>6, <2>1, <2>2
  <2>4. back =< MAX_N_DEC_DIGITS_IN_SHINT
    BY <1>4, <1>5, Room
  <2>5. QED
    BY <1>1, <2>3, <2>4, RoundedFits
<1>9. PICK v \in Nat : /\ v = ShiftedBack(u, back)
                       /\ v < SHINT_LIMIT => v = u * Power(10, back)
                       /\ v >= SHINT_LIMIT => u * Power(10, back) >= SHINT_LIMIT
  BY <1>8, ShiftedBackExact
<1> DEFINE o == fpdec_shint_adjust_to_prec(a, prec, mode)
<1>10. o = IF -shift > MAX_N_DEC_DIGITS_IN_SHINT THEN Ok(FPDEC_ZERO)
           ELSE IF v >= SHINT_LIMIT THEN fpdec_dyn_adjust_to_prec(AsDyn(a), prec, mode)
           ELSE Ok(Shint(IF v = 0 THEN 0 ELSE s, p, v))
  BY <1>1, <1>3, <1>5, <1>6, <1>9 DEF fpdec_shint_adjust_to_prec
<1> HIDE DEF o
<1>11. ~(-shift > MAX_N_DEC_DIGITS_IN_SHINT)
  BY <1>3, <1>4, Room
<1>12. CASE v >= SHINT_LIMIT
  <2>1. PICK b : b = AsDyn(a)
    OBVIOUS
  <2>2. /\ Operand(b) /\ b.dyn /\ b.dec_prec = a.dec_prec
        /\ Number(b) = Number(a) /\ MagnitudeFits(b)
    BY <2>1, AsDynOperand
  <2>3. u # 0
    <3>1. SUFFICES ASSUME u = 0 PROVE FALSE
      OBVIOUS
    <3>2. PICK i \in Nat \ {0} : i = Power(10, back)
      BY PowersOf10
    <3>3. u * i = 0
      BY <3>1
    <3>4. QED
      BY <1>9, <1>12, <3>2, <3>3, Limits
  <2>4. RoundsCorrectly(b, prec, mode)
    <3>1. n = a.dec_prec - prec
      BY <1>1, <1>3
    <3>2. QED
      BY <1>1, <1>6, <2>1, <2>3, <3>1, DigitsRoundCorrectly
  <2>5. prec =< FPDEC_MAX_DEC_PREC
    BY <1>1, Room
  <2>6. Rounds(b, prec, mode, fpdec_dyn_adjust_to_prec(b, prec, mode))
    BY <2>2, <2>4, <2>5, DynRounds
  <2>7. o = fpdec_dyn_adjust_to_prec(b, prec, mode)
    BY <1>10, <1>11, <1>12, <2>1
  <2>8. QED
    BY <2>2, <2>6, <2>7 DEF Rounds, o
<1>13. CASE ~(v >= SHINT_LIMIT)
  <2>1. v < SHINT_LIMIT
    BY <1>13, Limits
  <2>2. o = Ok(Shint(IF v = 0 THEN 0 ELSE s, p, v))
    BY <1>10, <1>11, <1>13
  <2>3. v = u * Ten(g, f)
    BY <1>5, <1>9, <2>1 DEF Ten
  <2>4. ShiftsTo(s, u, g, f)
    BY <1>5, SignedShift
  <2>5. Canonical(s * v, g) = Canonical(s * u, f)
    BY <2>3, <2>4 DEF ShiftsTo
  <2>6. Number(o.v) = Canonical(s * v, g)
    <3>1. CASE v = 0
      <4>1. o = Ok(ResetToZero(p))
        BY <2>2, <3>1 DEF ResetToZero
      <4>2. Number(ResetToZero(p)) = << 0, 0 >>
        <5>1. p \in 0 .. FPDEC_MAX_DEC_PREC
          BY Room
        <5>2. QED
          BY <5>1, ZeroOperand
      <4>3. s * v = 0
        BY <3>1
      <4>4. QED
        BY <4>1, <4>2, <4>3, CanonicalZero DEF Ok, Returns
    <3>2. CASE v # 0
      <4>1. o = Ok(Shint(s, p, v))
        BY <2>2, <3>2
      <4>2. Number(Shint(s, p, v)) = Canonical(s * v, -p)
        BY <2>1, <3>2, ShintOperand
      <4>3. QED
        BY <1>5, <4>1, <4>2 DEF Ok, Returns
    <3>3. QED
      BY <3>1, <3>2
  <2>7. QED
    BY <1>7, <2>5, <2>6 DEF Rounds, o
<1>14. QED
  BY <1>12, <1>13

(* fpdec_adjust. *)
LEMMA AdjustRounds ==
  ASSUME NEW a, Operand(a), a.sign # 0 => MagnitudeFits(DigitsOf(a)), NEW prec \in Int, NEW mode,
         RoundsCorrectly(a, prec, mode)
  PROVE  Rounds(a, prec, mode, fpdec_adjust(a, prec, mode))
<1> DEFINE o == fpdec_adjust(a, prec, mode)
<1>1. PICK q \in 0 .. FPDEC_MAX_DEC_PREC : q = a.dec_prec /\ q \in Int
  <2>1. a.dec_prec \in 0 .. FPDEC_MAX_DEC_PREC
    BY DEF Operand, Decimals
  <2>2. QED
    BY <2>1, Room
<1>2. prec >= q => RoundedNumber(Number(a), prec, mode) = Number(a)
  <2>1. SUFFICES ASSUME prec >= q PROVE RoundedNumber(Number(a), prec, mode) = Number(a)
    OBVIOUS
  <2>2. PICK m \in Int, e \in Int : Number(a) = Canonical(m, e)
    <3>1. PICK s \in Int, c \in Int, i \in Int : s = a.sign /\ c = a.coeff /\ i = a.exp
      BY Room DEF Operand, Decimals
    <3>2. s * c \in Int /\ Place(i) \in Int /\ -q \in Int
      <4>1. s * c \in Int /\ -q \in Int
        BY <1>1
      <4>2. i \in Int /\ Place(i) \in Int
        BY <3>1, PlaceFacts
      <4>3. QED
        BY <4>1, <4>2
    <3>3. Number(a) = Canonical(s * c, Place(i)) \/ Number(a) = Canonical(s * c, -q)
      BY <1>1, <3>1 DEF Number, Place
    <3>4. QED
      BY <3>2, <3>3
  <2>3. Number(a)[2] \in Int
    BY <2>2, CanonicalSign
  <2>4. Number(a)[2] >= -q
    BY <1>1 DEF Operand, PrecCoversDigits
  <2>5. Number(a)[2] >= -prec
    BY <1>1, <2>1, <2>3, <2>4
  <2>6. QED
    BY <2>3, <2>5, NotRounded
<1>3. Adjusts(a, prec, o)
  BY AdjustOutcome
<1>4. CASE prec >= q
  BY <1>1, <1>2, <1>3, <1>4 DEF Adjusts, Rounds
<1>5. CASE a.sign = 0
  <2>1. Number(a) = << 0, 0 >> /\ RoundedNumber(Number(a), prec, mode) = Number(a)
    BY <1>5, ZeroNumber, ZeroRounded
  <2>2. PICK p \in 0 .. FPDEC_MAX_DEC_PREC : p = AsDecPrec(prec)
    BY AsDecPrecFacts
  <2>3. Number([a EXCEPT !.dec_prec = p]) = Number(a)
    BY <1>5, PrecChanged
  <2>4. o.rc = "OK" => o.v = a \/ o.v = [a EXCEPT !.dec_prec = p]
    BY <1>5, <2>2 DEF fpdec_adjust, Ok, Returns
  <2>5. QED
    BY <2>1, <2>3, <2>4 DEF Rounds
<1>6. CASE prec < q /\ a.sign # 0
  <2>1. CASE ABS(prec) > FPDEC_MAX_DEC_PREC
    <3>1. o.rc = "PREC_LIMIT_EXCEEDED"
      BY <2>1 DEF fpdec_adjust, Returns
    <3>2. QED
      BY <3>1 DEF Rounds
  <2>2. CASE ~(ABS(prec) > FPDEC_MAX_DEC_PREC) /\ a.dyn
    <3>1. -FPDEC_MAX_DEC_PREC =< prec /\ prec =< FPDEC_MAX_DEC_PREC
      BY <2>2, Room DEF ABS
    <3>2. o = fpdec_dyn_adjust_to_prec(a, prec, mode)
      BY <1>1, <1>6, <2>2 DEF fpdec_adjust
    <3>3. MagnitudeFits(a)
      BY <1>6, <2>2 DEF MagnitudeFits, DigitsOf
    <3>4. QED
      BY <2>2, <3>1, <3>2, <3>3, DynRounds
  <2>3. CASE ~(ABS(prec) > FPDEC_MAX_DEC_PREC) /\ ~a.dyn
    <3>1. -FPDEC_MAX_DEC_PREC =< prec /\ prec =< FPDEC_MAX_DEC_PREC
      BY <2>3, Room DEF ABS
    <3>2. ~(prec > MAX_DEC_PREC_FOR_SHINT) /\ prec < a.dec_prec /\ a.dec_prec # prec
      <4>1. q =< MAX_DEC_PREC_FOR_SHINT
        BY <1>1, <1>6, <2>3 DEF Operand, WellFormed
      <4>2. QED
        BY <1>1, <1>6, <4>1, Room
    <3>3. o = fpdec_shint_adjust_to_prec(a, prec, mode)
      BY <1>6, <2>3, <3>2 DEF fpdec_adjust
    <3>4. QED
      BY <1>6, <2>3, <3>1, <3>2, <3>3, ShintRounds
  <2>4. QED
    BY <2>1, <2>2, <2>3
<1>7. QED
  BY <1>1, <1>4, <1>5, <1>6

-----------------------------------------------------------------------------
(***************************************************************************)
(* The precision of the result.                                            *)
(***************************************************************************)
LEMMA DynGetsPrec ==
  ASSUME NEW a, a \in Decimals, NEW prec \in Int, prec =< FPDEC_MAX_DEC_PREC, NEW mode
  PROVE  GetsPrec(prec, fpdec_dyn_adjust_to_prec(a, prec, mode))
<1>1. SUFFICES ASSUME fpdec_dyn_adjust_to_prec(a, prec, mode).rc = "OK", prec >= 0
               PROVE  fpdec_dyn_adjust_to_prec(a, prec, mode).v.dec_prec = prec
  BY Zenon DEF GetsPrec
<1>2. AsDecPrec(prec) = prec
  <2>1. prec \in 0 .. FPDEC_MAX_DEC_PREC
    BY <1>1, Room
  <2>2. QED
    BY <2>1, AsDecPrecFacts
<1>3. MAX(prec, 0) = prec
  BY <1>1 DEF MAX
<1> DEFINE shift == Int32(-a.exp * DEC_DIGITS_PER_DIGIT) - prec
           b == [a EXCEPT !.dec_prec = prec]
           r1 == [RoundedAway(a, shift, mode) EXCEPT !.dec_prec = prec]
           r2 == [RoundedIn(a, shift, mode) EXCEPT !.dec_prec = prec]
           o == fpdec_dyn_adjust_to_prec(a, prec, mode)
<1>4. o = Ok(b) \/ o = fpdec_dyn_normalize(r1) \/ o = fpdec_dyn_normalize(r2)
  BY <1>2, <1>3, Zenon DEF fpdec_dyn_adjust_to_prec
<1>5. b.dec_prec = prec
  BY DEF Decimals
<1>6. r1.dec_prec = prec
  BY DEF Decimals, RoundedAway
<1>7. r2.dec_prec = prec
  BY DEF Decimals, RoundedIn
<1> HIDE DEF r1, r2, b
<1>8. CASE o = Ok(b)
  BY <1>5, <1>8 DEF Ok, Returns
<1>9. CASE o = fpdec_dyn_normalize(r1)
  BY <1>1, <1>6, <1>9, NormalizedPrec
<1>10. CASE o = fpdec_dyn_normalize(r2)
  BY <1>1, <1>7, <1>10, NormalizedPrec
<1>11. QED
  BY <1>4, <1>8, <1>9, <1>10

LEMMA AdjustGetsPrec ==
  ASSUME NEW a, Operand(a), NEW prec \in Int, NEW mode
  PROVE  GetsPrec(prec, fpdec_adjust(a, prec, mode))
<1> DEFINE o == fpdec_adjust(a, prec, mode)
<1>1. SUFFICES ASSUME o.rc = "OK", prec >= 0
               PROVE  o.v.dec_prec = prec \/ o.v = FPDEC_ZERO
  BY Zenon DEF GetsPrec
<1>2. ~(ABS(prec) > FPDEC_MAX_DEC_PREC)
  BY <1>1 DEF fpdec_adjust, Returns
<1>3. prec =< FPDEC_MAX_DEC_PREC
  BY <1>1, <1>2, Room DEF ABS
<1>4. a \in Decimals
  BY DEF Operand
<1>5. CASE a.dec_prec = prec
  BY <1>2, <1>5 DEF fpdec_adjust, Ok, Returns
<1>6. CASE a.dec_prec # prec /\ a.sign = 0
  <2>1. AsDecPrec(prec) = prec
    <3>1. prec \in 0 .. FPDEC_MAX_DEC_PREC
      BY <1>1, <1>3, Room
    <3>2. QED
      BY <3>1, AsDecPrecFacts
  <2>2. o = Ok([a EXCEPT !.dec_prec = prec])
    BY <1>2, <1>6, <2>1, Zenon DEF fpdec_adjust
  <2>3. QED
    BY <1>4, <2>2 DEF Ok, Returns, Decimals
<1>7. CASE a.dec_prec # prec /\ a.sign # 0 /\ (a.dyn \/ prec > MAX_DEC_PREC_FOR_SHINT)
  <2>1. PICK b : b = IF a.dyn THEN a ELSE AsDyn(a)
    OBVIOUS
  <2>2. o = fpdec_dyn_adjust_to_prec(b, prec, mode)
    BY <1>2, <1>7, <2>1, OperandConvertible, Zenon DEF fpdec_adjust, Asserting
  <2>3. b \in Decimals
    <3>1. ~a.dyn => AsDyn(a) \in Decimals
      BY <1>7, AsDynOperand DEF Operand
    <3>2. QED
      BY <1>4, <2>1, <3>1
  <2>4. QED
    BY <1>1, <1>3, <2>2, <2>3, DynGetsPrec DEF GetsPrec
<1>8. CASE a.dec_prec # prec /\ a.sign # 0 /\ ~(a.dyn \/ prec > MAX_DEC_PREC_FOR_SHINT)
  <2>1. o = fpdec_shint_adjust_to_prec(a, prec, mode)
    BY <1>2, <1>8, Zenon DEF fpdec_adjust
  <2>2. \/ o = Ok(FPDEC_ZERO)
        \/ o = fpdec_dyn_adjust_to_prec(AsDyn(a), prec, mode)
        \/ \E s, v : o = Ok(Shint(s, MAX(prec, 0), v))
    BY <2>1, Zenon DEF fpdec_shint_adjust_to_prec
  <2>3. AsDyn(a) \in Decimals
    BY <1>8, AsDynOperand DEF Operand
  <2>4. CASE o = fpdec_dyn_adjust_to_prec(AsDyn(a), prec, mode)
    BY <1>1, <1>3, <2>3, <2>4, DynGetsPrec DEF GetsPrec
  <2>5. CASE o = Ok(FPDEC_ZERO)
    BY <2>5 DEF Ok, Returns
  <2>6. CASE \E s, v : o = Ok(Shint(s, MAX(prec, 0), v))
    <3>1. MAX(prec, 0) = prec
      BY <1>1 DEF MAX
    <3>2. QED
      BY <2>6, <3>1 DEF Ok, Returns, Shint
  <2>7. QED
    BY <2>2, <2>4, <2>5, <2>6
<1>9. QED
  BY <1>5, <1>6, <1>7, <1>8

-----------------------------------------------------------------------------
(* A call of fpdec_adjusted; no other function leaves its name in call. *)
LEMMA AdjustedCall ==
  ASSUME FpdecInv, Adjusted
  PROVE  AdjustedIsRounded'
<1>1. PICK prec \in Precisions, mode \in Modes :
        LET outcome == fpdec_adjusted(x, prec, Resolved(mode, dflt_rounding_mode))
        IN  z' = outcome.v /\ call' = Called("adjusted", prec, mode, outcome.rc)
  BY DEF Adjusted
<1>2. x' = x /\ dflt_rounding_mode' = dflt_rounding_mode
  BY DEF Adjusted, operands
<1>3. PICK m : m = Resolved(mode, dflt_rounding_mode)
  OBVIOUS
<1>4. PICK o : o = fpdec_adjust(x, prec, m)
  OBVIOUS
<1>5. prec \in Int /\ Operand(x) /\ (x.sign # 0 => MagnitudeFits(DigitsOf(x)))
  BY InputsAssumption DEF FpdecInv, Adjusted, Adjustable
<1>6. call'.prec = prec /\ call'.mode = mode /\ m = Resolved(call'.mode, dflt_rounding_mode')
  BY <1>1, <1>2, <1>3 DEF Called
<1>7. call'.rc = "OK" => o.rc = "OK" /\ z' = o.v
  <2>1. o.rc \in {"OK", "PREC_LIMIT_EXCEEDED"}
    BY <1>4, <1>5, AdjustOutcome DEF Adjusts
  <2>2. call'.rc = o.rc /\ (o.rc = "OK" => z' = o.v)
    BY <1>1, <1>3, <1>4, <2>1 DEF fpdec_adjusted, Returns, Called
  <2>3. QED
    BY <2>2
<1>8. RoundsCorrectly(x, prec, m) => Rounds(x, prec, m, o)
  BY <1>4, <1>5, AdjustRounds
<1>9. GetsPrec(prec, o)
  BY <1>4, <1>5, AdjustGetsPrec
<1>10. QED
  BY <1>2, <1>6, <1>7, <1>8, <1>9 DEF AdjustedIsRounded, Return, Rounds, GetsPrec

LEMMA StepRounds ==
  ASSUME FpdecInv, AdjustedIsRounded, [Next]_vars
  PROVE  AdjustedIsRounded'
<1>1. CASE Adjusted
  BY <1>1, AdjustedCall
<1>2. CASE UNCHANGED vars
  BY <1>2 DEF vars, AdjustedIsRounded, Return
<1>3. CASE call'.fn # "adjusted"
  BY <1>3 DEF AdjustedIsRounded, Return
<1>4. [Next]_vars => Adjusted \/ UNCHANGED vars \/ call'.fn # "adjusted"
  BY DEF Next, FromLiteral, FromLongLong, FromDigits, Copy, Neg, Add, Sub, Mul, Adjust,
         NormalizePrec, SetDefaultRoundingMode, KeepX, KeepY, Reset, Aborted, Calling, Called, Nothing
<1>5. QED
  BY <1>1, <1>2, <1>3, <1>4

(***************************************************************************)
(* fpdec_adjusted rounds as the mode demands, whatever representation x    *)
(* has and the result gets, where RoundsCorrectly says so, and the result  *)
(* has the precision asked for.                                            *)
(***************************************************************************)
THEOREM AdjustedRounds == Spec => []AdjustedIsRounded
<1>1. Init => AdjustedIsRounded
  BY DEF Init, Nothing, Called, AdjustedIsRounded, Return
<1>2. FpdecInv /\ AdjustedIsRounded /\ [Next]_vars => AdjustedIsRounded'
  BY StepRounds
<1>3. QED
  BY <1>1, <1>2, FpdecInvariant, PTL DEF Spec

=============================================================================
