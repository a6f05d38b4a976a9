------------------------------ MODULE HeapProofs ------------------------------
(***************************************************************************)
(* Proofs about FpdecHeap and DecimalClass, for any number of objects and  *)
(* of arrays: whatever allocation fails, arrays have one owner, are freed  *)
(* once, and are lost only where the model says so.                        *)
(*                                                                         *)
(* One lemma for each function says which arrays its outcomes have added   *)
(* to the heap: Extends composes along the calls of a function. The step   *)
(* of a client is then the replacement of what one or two variables own.   *)
(***************************************************************************)
EXTENDS DecimalClass, TLAPS

Heaps == [used : SUBSET Arrays, faults : SUBSET Faults]

Pointers == Arrays \cup {NULL}

(* A decimal, as to its representation; with the number it should hold it has digits. *)
Decs ==
  {d \in [dyn : BOOLEAN, arr : Pointers, intact : BOOLEAN] :
     /\ ~d.dyn => d.arr = NULL
     /\ d.dyn /\ d.intact => d.arr # NULL}

Ptr(p) == {p} \ {NULL}
Own(d) == Ptr(d.arr)

(* Faults the model finds in the code, and the others. *)
Tolerated == {"unset", "leak", "unchecked"}
Fatal == {"double_free", "use_after_free"}

(***************************************************************************)
(* From m to n only the arrays S have been added, and only tolerated       *)
(* faults: with such a fault there may be more arrays.                     *)
(***************************************************************************)
Extends(m, n, S) ==
  /\ m \in Heaps
  /\ n \in Heaps
  /\ m.used \subseteq n.used
  /\ S \subseteq n.used \ m.used
  /\ m.faults \subseteq n.faults
  /\ n.faults \subseteq m.faults \cup Tolerated
  /\ n.faults = {} => n.used = m.used \cup S

-----------------------------------------------------------------------------
(* Calls of the allocator. *)

LEMMA ExtendsSelf ==
  ASSUME NEW m \in Heaps
  PROVE  Extends(m, m, {})
BY DEF Extends

(* One extension after another. *)
LEMMA ExtendsTwice ==
  ASSUME NEW m, NEW n, NEW k, NEW S, NEW T, Extends(m, n, S), Extends(n, k, T)
  PROVE  Extends(m, k, S \cup T) /\ S \cap T = {}
BY DEF Extends

LEMMA PointersDiffer == NULL \notin Arrays /\ UNSET \notin Arrays /\ UNSET # NULL
BY MaxArraysAssumption DEF NULL, UNSET, Arrays

LEMMA AllocExtends ==
  ASSUME NEW m \in Heaps, NEW a \in alloc(m)
  PROVE  a.p \in Pointers /\ Extends(m, a.m, Ptr(a.p))
<1>1. CASE a = [m |-> m, p |-> NULL]
  BY <1>1 DEF Extends, Ptr, Pointers
<1>2. CASE \E b \in Arrays \ m.used : a = [m |-> [m EXCEPT !.used = @ \cup {b}], p |-> b]
  <2>1. PICK b \in Arrays \ m.used : a = [m |-> [m EXCEPT !.used = @ \cup {b}], p |-> b]
    BY <1>2
  <2>2. a.m \in Heaps /\ a.m.used = m.used \cup {b} /\ a.m.faults = m.faults /\ a.p = b
    BY <2>1 DEF Heaps
  <2>3. b # NULL
    BY PointersDiffer
  <2> QED BY <2>2, <2>3 DEF Extends, Ptr, Pointers
<1> QED BY <1>1, <1>2 DEF alloc

(* Freeing what has been added, or a null pointer. *)
LEMMA FreeExtends ==
  ASSUME NEW m, NEW n, NEW S, Extends(m, n, S), NEW p \in S \cup {NULL}
  PROVE  Extends(m, free(n, p), S \ Ptr(p))
<1>1. CASE p = NULL
  BY <1>1 DEF free, Ptr
<1>2. CASE p # NULL
  <2>1. p \in n.used
    BY <1>2 DEF Extends
  <2>2. free(n, p) = [n EXCEPT !.used = @ \ {p}]
    BY <1>2, <2>1 DEF free
  <2>3. free(n, p) \in Heaps /\ free(n, p).used = n.used \ {p} /\ free(n, p).faults = n.faults
    BY <2>2 DEF Extends, Heaps
  <2> QED BY <1>2, <2>1, <2>3 DEF Extends, Ptr
<1> QED BY <1>1, <1>2

LEMMA FaultExtends ==
  ASSUME NEW m, NEW n, NEW S, Extends(m, n, S), NEW kind \in Tolerated, NEW T \in SUBSET S
  PROVE  Extends(m, Fault(n, kind), T) /\ Fault(n, kind).faults # {}
<1>1. Fault(n, kind) \in Heaps /\ Fault(n, kind).used = n.used
      /\ Fault(n, kind).faults = n.faults \cup {kind}
  BY DEF Fault, Heaps, Extends, Tolerated, Faults
<1> QED BY <1>1 DEF Extends

(* Freeing a pointer that was never assigned. *)
LEMMA FreeUnset ==
  ASSUME NEW m, NEW n, NEW S, Extends(m, n, S), NEW T \in SUBSET S
  PROVE  Extends(m, free(n, UNSET), T)
<1>1. free(n, UNSET) = Fault(n, "unset")
  BY PointersDiffer DEF free, Extends, Heaps
<1> QED BY <1>1, FaultExtends DEF Tolerated

(* Whatever is freed, a heap is left. *)
LEMMA FreeHeap ==
  ASSUME NEW n \in Heaps, NEW p
  PROVE  free(n, p) \in Heaps /\ n.faults \subseteq free(n, p).faults
BY DEF free, Fault, Heaps, Faults

(* One more allocation. *)
LEMMA AllocMore ==
  ASSUME NEW m, NEW n, NEW S, Extends(m, n, S), NEW a \in alloc(n)
  PROVE  /\ a.p \in Pointers
         /\ Extends(m, a.m, S \cup Ptr(a.p))
         /\ S \cap Ptr(a.p) = {}
<1>1. n \in Heaps
  BY DEF Extends
<1>2. a.p \in Pointers /\ Extends(n, a.m, Ptr(a.p))
  BY <1>1, AllocExtends
<1> QED BY <1>2, ExtendsTwice

-----------------------------------------------------------------------------
(* digit_array.c *)

LEMMA DivDigitExtends ==
  ASSUME NEW m \in Heaps, NEW a \in digits_div_digit(m)
  PROVE  a.p \in Pointers /\ Extends(m, a.m, Ptr(a.p))
<1>1. PICK q \in alloc(m) :
        a \in IF q.p = NULL THEN {q}
              ELSE {q} \cup
                   {IF h.p = NULL
                    THEN [m |-> free(h.m, q.p), p |-> NULL]
                    ELSE [m |-> free(h.m, h.p), p |-> q.p] : h \in alloc(q.m)}
  BY DEF digits_div_digit
<1>2. q.p \in Pointers /\ Extends(m, q.m, Ptr(q.p))
  BY AllocExtends
<1>3. CASE a = q
  BY <1>2, <1>3
<1>4. CASE q.p # NULL /\ \E h \in alloc(q.m) :
             a = IF h.p = NULL
                 THEN [m |-> free(h.m, q.p), p |-> NULL]
                 ELSE [m |-> free(h.m, h.p), p |-> q.p]
  <2>1. PICK h \in alloc(q.m) :
          a = IF h.p = NULL
              THEN [m |-> free(h.m, q.p), p |-> NULL]
              ELSE [m |-> free(h.m, h.p), p |-> q.p]
    BY <1>4
  <2>3. Extends(m, h.m, Ptr(q.p) \cup Ptr(h.p)) /\ Ptr(q.p) \cap Ptr(h.p) = {}
    BY <1>2, AllocMore
  <2>4. CASE h.p = NULL
    <3>1. Extends(m, free(h.m, q.p), (Ptr(q.p) \cup Ptr(h.p)) \ Ptr(q.p))
      BY <1>4, <2>3, FreeExtends DEF Ptr
    <3>2. (Ptr(q.p) \cup Ptr(h.p)) \ Ptr(q.p) = Ptr(NULL)
      BY <2>4 DEF Ptr
    <3> QED BY <2>1, <2>4, <3>1, <3>2 DEF Pointers
  <2>5. CASE h.p # NULL
    <3>1. Extends(m, free(h.m, h.p), (Ptr(q.p) \cup Ptr(h.p)) \ Ptr(h.p))
      BY <2>3, <2>5, FreeExtends DEF Ptr
    <3>2. (Ptr(q.p) \cup Ptr(h.p)) \ Ptr(h.p) = Ptr(q.p)
      BY <2>3
    <3> QED BY <1>2, <2>1, <2>5, <3>1, <3>2
  <2> QED BY <2>4, <2>5
<1> QED BY <1>1, <1>3, <1>4

LEMMA DivDigitMore ==
  ASSUME NEW m, NEW n, NEW S, Extends(m, n, S), NEW a \in digits_div_digit(n)
  PROVE  /\ a.p \in Pointers
         /\ Extends(m, a.m, S \cup Ptr(a.p))
         /\ S \cap Ptr(a.p) = {}
<1>1. n \in Heaps
  BY DEF Extends
<1>2. a.p \in Pointers /\ Extends(n, a.m, Ptr(a.p))
  BY <1>1, DivDigitExtends
<1> QED BY <1>2, ExtendsTwice

(* Quotient and remainder, or neither; the latter is not assigned then. *)
Divided(m, d, wanted) ==
  \/ d.q = NULL /\ d.r = UNSET /\ Extends(m, d.m, {})
  \/ /\ d.q \in Arrays
     /\ IF wanted
        THEN d.r \in Pointers /\ d.r # d.q /\ Extends(m, d.m, {d.q} \cup Ptr(d.r))
        ELSE d.r = UNSET /\ Extends(m, d.m, {d.q})

LEMMA DivModExtends ==
  ASSUME NEW m \in Heaps, NEW wanted \in BOOLEAN, NEW d \in digits_divmod(m, wanted)
  PROVE  Divided(m, d, wanted)
<1> DEFINE Rest(h, xd, yd, q) ==
             {[m |-> free(free(r.m, xd), yd), q |-> q, r |-> r.p] :
                r \in IF wanted THEN digits_div_digit(h) ELSE {[m |-> h, p |-> UNSET]}}
           Gives(h) == {[m |-> h, q |-> NULL, r |-> UNSET]}
           AfterXd(q, xd) ==
             UNION {IF yd.p = NULL THEN Gives(free(free(yd.m, q.p), xd.p))
                    ELSE Rest(yd.m, xd.p, yd.p, q.p) : yd \in alloc(xd.m)}
           AfterQ(q) ==
             UNION {IF xd.p = NULL THEN Gives(free(xd.m, q.p)) ELSE AfterXd(q, xd) :
                      xd \in alloc(q.m)}
<1>1. PICK q \in alloc(m) : d \in IF q.p = NULL THEN Gives(q.m) ELSE AfterQ(q)
  BY DEF digits_divmod
<1>2. q.p \in Pointers /\ Extends(m, q.m, Ptr(q.p))
  BY AllocExtends
<1>3. CASE q.p = NULL
  <2>1. d.q = NULL /\ d.r = UNSET /\ d.m = q.m
    BY <1>1, <1>3
  <2> QED BY <1>2, <1>3, <2>1 DEF Divided, Ptr
<1>4. CASE q.p # NULL
  <2>1. PICK xd \in alloc(q.m) :
          d \in IF xd.p = NULL THEN Gives(free(xd.m, q.p)) ELSE AfterXd(q, xd)
    BY <1>1, <1>4
  <2>3. Extends(m, xd.m, Ptr(q.p) \cup Ptr(xd.p)) /\ Ptr(q.p) \cap Ptr(xd.p) = {}
    BY <1>2, AllocMore
  <2>4. CASE xd.p = NULL
    <3>1. Extends(m, free(xd.m, q.p), (Ptr(q.p) \cup Ptr(xd.p)) \ Ptr(q.p))
      BY <1>4, <2>3, FreeExtends DEF Ptr
    <3>2. (Ptr(q.p) \cup Ptr(xd.p)) \ Ptr(q.p) = {}
      BY <2>4 DEF Ptr
    <3>3. d.q = NULL /\ d.r = UNSET /\ d.m = free(xd.m, q.p)
      BY <2>1, <2>4
    <3> QED BY <3>1, <3>2, <3>3 DEF Divided
  <2>5. CASE xd.p # NULL
    <3>1. PICK yd \in alloc(xd.m) :
            d \in IF yd.p = NULL THEN Gives(free(free(yd.m, q.p), xd.p))
                  ELSE Rest(yd.m, xd.p, yd.p, q.p)
      BY <2>1, <2>5
    <3>3. /\ Extends(m, yd.m, (Ptr(q.p) \cup Ptr(xd.p)) \cup Ptr(yd.p))
          /\ (Ptr(q.p) \cup Ptr(xd.p)) \cap Ptr(yd.p) = {}
      BY <2>3, AllocMore
    <3>4. CASE yd.p = NULL
      <4>1. Extends(m, free(yd.m, q.p), (Ptr(q.p) \cup Ptr(xd.p)) \ Ptr(q.p))
        BY <1>4, <3>3, <3>4, FreeExtends DEF Ptr
      <4>2. (Ptr(q.p) \cup Ptr(xd.p)) \ Ptr(q.p) = Ptr(xd.p)
        BY <2>3
      <4>3. Extends(m, free(free(yd.m, q.p), xd.p), Ptr(xd.p) \ Ptr(xd.p))
        BY <2>5, <4>1, <4>2, FreeExtends DEF Ptr
      <4>4. d.q = NULL /\ d.r = UNSET /\ d.m = free(free(yd.m, q.p), xd.p)
        BY <3>1, <3>4
      <4> QED BY <4>3, <4>4 DEF Divided
    <3>5. CASE yd.p # NULL
      <4>1. PICK r \in IF wanted THEN digits_div_digit(yd.m) ELSE {[m |-> yd.m, p |-> UNSET]} :
              d = [m |-> free(free(r.m, xd.p), yd.p), q |-> q.p, r |-> r.p]
        BY <3>1, <3>5
      <4> DEFINE S == (Ptr(q.p) \cup Ptr(xd.p)) \cup Ptr(yd.p)
                 R == IF wanted THEN Ptr(r.p) ELSE {}
      <4>2. /\ Extends(m, r.m, S \cup R) /\ S \cap R = {}
            /\ IF wanted THEN r.p \in Pointers ELSE r.p = UNSET
        <5>1. CASE wanted
          <6>1. r \in digits_div_digit(yd.m)
            BY <4>1, <5>1
          <6>2. Extends(m, yd.m, S) 
            BY <3>3
          <6> HIDE DEF S
          <6>3. r.p \in Pointers /\ Extends(m, r.m, S \cup Ptr(r.p)) /\ S \cap Ptr(r.p) = {}
            BY <6>1, <6>2, DivDigitMore
          <6> QED BY <5>1, <6>3
        <5>2. CASE ~wanted
          BY <3>3, <4>1, <5>2
        <5> QED BY <5>1, <5>2
      <4>3. Extends(m, free(r.m, xd.p), (S \cup R) \ Ptr(xd.p))
        BY <2>5, <4>2, FreeExtends DEF Ptr
      <4>4. yd.p \in (S \cup R) \ Ptr(xd.p)
        BY <3>3, <3>5 DEF Ptr
      <4>5. Extends(m, free(free(r.m, xd.p), yd.p), ((S \cup R) \ Ptr(xd.p)) \ Ptr(yd.p))
        BY <4>3, <4>4, FreeExtends
      <4>6. ((S \cup R) \ Ptr(xd.p)) \ Ptr(yd.p) = {q.p} \cup R
        BY <1>4, <2>3, <3>3, <4>2 DEF Ptr
      <4>7. wanted => r.p # q.p
        BY <1>4, <4>2 DEF Ptr
      <4>8. d.m = free(free(r.m, xd.p), yd.p) /\ d.q = q.p /\ d.r = r.p
        BY <4>1
      <4>9. Extends(m, d.m, {q.p} \cup R)
        BY <4>5, <4>6, <4>8
      <4>10. q.p \in Arrays
        BY <1>2, <1>4 DEF Pointers
      <4> QED BY <4>2, <4>7, <4>8, <4>9, <4>10 DEF Divided
    <3> QED BY <3>4, <3>5
  <2> QED BY <2>4, <2>5
<1> QED BY <1>3, <1>4

-----------------------------------------------------------------------------
(* What an outcome a of alloc and of the divisions has added: its array. *)
Allocates(m, a) == a.p \in Pointers /\ Extends(m, a.m, Ptr(a.p))

LEMMA AllocatesAfter ==
  ASSUME NEW m, NEW n, NEW a, Extends(m, n, {}), Allocates(n, a)
  PROVE  Allocates(m, a)
<1>1. a.p \in Pointers /\ Extends(n, a.m, Ptr(a.p))
  BY DEF Allocates
<1>2. Extends(m, a.m, {} \cup Ptr(a.p))
  BY <1>1, ExtendsTwice
<1>3. {} \cup Ptr(a.p) = Ptr(a.p)
  OBVIOUS
<1> QED BY <1>1, <1>2, <1>3 DEF Allocates

LEMMA FreesAllocated ==
  ASSUME NEW m, NEW a, Allocates(m, a)
  PROVE  Extends(m, free(a.m, a.p), {})
<1>1. Extends(m, a.m, Ptr(a.p)) /\ a.p \in Ptr(a.p) \cup {NULL}
  BY DEF Allocates, Ptr
<1>2. Extends(m, free(a.m, a.p), Ptr(a.p) \ Ptr(a.p))
  BY <1>1, FreeExtends
<1>3. Ptr(a.p) \ Ptr(a.p) = {}
  OBVIOUS
<1> QED BY <1>2, <1>3

LEMMA AllocatesNull ==
  ASSUME NEW m, NEW a, Allocates(m, a), a.p = NULL
  PROVE  Extends(m, a.m, {})
BY DEF Allocates, Ptr

LEMMA DivMaxExtends ==
  ASSUME NEW m \in Heaps, NEW a \in digits_div_max_prec(m)
  PROVE  Allocates(m, a)
<1> DEFINE again == {free(q.m, q.p) : q \in digits_div_digit(m)}
           Left(d) ==
             IF d.q = NULL \/ d.r = NULL THEN [m |-> Fault(d.m, "unset"), p |-> NULL]
             ELSE [m |-> free(d.m, d.r), p |-> d.q]
           first == {Left(d) : d \in digits_divmod(m, TRUE)}
           cleared == {free(l.m, l.p) : l \in {k \in first : k.p # NULL}}
<1>1. ASSUME NEW n \in Heaps, NEW q \in digits_div_digit(n)
      PROVE  Allocates(n, q)
  BY <1>1, DivDigitExtends DEF Allocates
<1>2. ASSUME NEW n \in Heaps, NEW d \in digits_divmod(n, TRUE)
      PROVE  Allocates(n, Left(d))
  <2>1. Divided(n, d, TRUE)
    BY <1>2, DivModExtends
  <2>2. CASE d.q = NULL
    <3>1. Extends(n, d.m, {})
      BY <2>1, <2>2, PointersDiffer DEF Divided
    <3>2. Extends(n, Fault(d.m, "unset"), {})
      BY <3>1, FaultExtends DEF Tolerated
    <3>3. Left(d).m = Fault(d.m, "unset") /\ Left(d).p = NULL
      BY <2>2
    <3> QED BY <3>2, <3>3 DEF Allocates, Pointers, Ptr
  <2>3. CASE d.q # NULL
    <3>1. d.q \in Arrays /\ d.r \in Pointers /\ d.r # d.q
          /\ Extends(n, d.m, {d.q} \cup Ptr(d.r))
      BY <2>1, <2>3 DEF Divided
    <3>2. CASE d.r = NULL
      <4>1. Extends(n, Fault(d.m, "unset"), {})
        BY <3>1, FaultExtends DEF Tolerated
      <4>2. Left(d).m = Fault(d.m, "unset") /\ Left(d).p = NULL
        BY <3>2
      <4> QED BY <4>1, <4>2 DEF Allocates, Pointers, Ptr
    <3>3. CASE d.r # NULL
      <4>1. Extends(n, free(d.m, d.r), ({d.q} \cup Ptr(d.r)) \ Ptr(d.r))
        BY <3>1, <3>3, FreeExtends DEF Ptr
      <4>2. ({d.q} \cup Ptr(d.r)) \ Ptr(d.r) = Ptr(d.q)
        BY <2>3, <3>1 DEF Ptr
      <4>3. Left(d).m = free(d.m, d.r) /\ Left(d).p = d.q
        BY <2>3, <3>3
      <4> QED BY <3>1, <4>1, <4>2, <4>3 DEF Allocates, Pointers
    <3> QED BY <3>2, <3>3
  <2> QED BY <2>2, <2>3
<1> HIDE DEF Left
<1>3. \/ a \in digits_div_digit(m) \cup first
      \/ \E h \in again : a \in digits_div_digit(h)
      \/ \E h \in cleared : a \in {Left(d) : d \in digits_divmod(h, TRUE)}
  BY DEF digits_div_max_prec, Left
<1>4. ASSUME NEW h \in again
      PROVE  h \in Heaps /\ Extends(m, h, {})
  <2>1. PICK q \in digits_div_digit(m) : h = free(q.m, q.p)
    BY <1>4
  <2> QED BY <1>1, <2>1, FreesAllocated DEF Extends
<1>5. ASSUME NEW h \in cleared
      PROVE  h \in Heaps /\ Extends(m, h, {})
  <2>1. PICK d \in digits_divmod(m, TRUE) : h = free(Left(d).m, Left(d).p)
    BY <1>5
  <2> QED BY <1>2, <2>1, FreesAllocated DEF Extends
<1>6. CASE a \in digits_div_digit(m) \cup first
  BY <1>1, <1>2, <1>6
<1>7. ASSUME NEW h \in again, a \in digits_div_digit(h)
      PROVE  Allocates(m, a)
  <2>1. h \in Heaps /\ Extends(m, h, {})
    BY <1>4
  <2> QED BY <1>1, <1>7, <2>1, AllocatesAfter
<1>8. ASSUME NEW h \in cleared, NEW d \in digits_divmod(h, TRUE), a = Left(d)
      PROVE  Allocates(m, a)
  <2>1. h \in Heaps /\ Extends(m, h, {})
    BY <1>5
  <2> QED BY <1>2, <1>8, <2>1, AllocatesAfter
<1> QED BY <1>3, <1>6, <1>7, <1>8

LEMMA DivLimitExtends ==
  ASSUME NEW m \in Heaps, NEW a \in digits_div_limit_prec(m)
  PROVE  Allocates(m, a)
<1>1. CASE a \in digits_div_digit(m)
  BY <1>1, DivDigitExtends DEF Allocates
<1>2. ASSUME NEW d \in digits_divmod(m, FALSE), a = [m |-> d.m, p |-> d.q]
      PROVE  Allocates(m, a)
  <2>1. Divided(m, d, FALSE)
    BY <1>2, DivModExtends
  <2>2. a.m = d.m /\ a.p = d.q
    BY <1>2
  <2>3. CASE d.q = NULL
    BY <2>1, <2>2, <2>3, PointersDiffer DEF Divided, Allocates, Ptr, Pointers
  <2>4. CASE d.q # NULL
    BY <2>1, <2>2, <2>4 DEF Divided, Allocates, Ptr, Pointers
  <2> QED BY <2>3, <2>4
<1> QED BY <1>1, <1>2 DEF digits_div_limit_prec

-----------------------------------------------------------------------------
(***************************************************************************)
(* Functions that write a result: the array of the result is all they have *)
(* added, they return none with an error, and the number is the right one  *)
(* if they report success.                                                 *)
(***************************************************************************)
Honest(o) == o.rc = OK /\ o.m.faults = {} => o.z.intact

Gives(m, o) ==
  /\ Extends(m, o.m, Own(o.z))
  /\ o.z \in Decs
  /\ o.rc # OK => Own(o.z) = {}
  /\ Honest(o)

(***************************************************************************)
(* Functions that change d: the array of d has become that of the result,  *)
(* if d owned it; and if it did not, there still is a decimal.             *)
(***************************************************************************)
Keeps(m, d, o) ==
  /\ o.m \in Heaps
  /\ o.z \in Decs
  /\ Honest(o)
  /\ \A b : Extends(b, m, Own(d)) => Extends(b, o.m, Own(o.z))

(* An operand that may be used. *)
Intact(m, d) == d \in Decs /\ (m.faults = {} => d.intact)

LEMMA Distinct == OK # ENOMEM /\ OK # LIMIT
BY DEF OK, ENOMEM, LIMIT

LEMMA ShintIsDec == Shint \in Decs /\ Own(Shint) = {} /\ Shint.intact /\ ~Shint.dyn
BY DEF Shint, Decs, Own, Ptr, Pointers

LEMMA DynIsDec ==
  ASSUME NEW p \in Pointers
  PROVE  /\ Dyn(p) \in Decs /\ Own(Dyn(p)) = Ptr(p)
         /\ Dyn(p).dyn /\ Dyn(p).arr = p /\ Dyn(p).intact = (p # NULL)
BY DEF Dyn, Decs, Own

LEMMA OutcomeParts ==
  ASSUME NEW m, NEW rc, NEW z
  PROVE  /\ Outcome(m, rc, z).m = m
         /\ Outcome(m, rc, z).rc = rc
         /\ Outcome(m, rc, z).z = z
BY DEF Outcome

LEMMA GivesShint ==
  ASSUME NEW m, NEW n, NEW rc, Extends(m, n, {})
  PROVE  Gives(m, Outcome(n, rc, Shint))
BY OutcomeParts, ShintIsDec DEF Gives, Honest

LEMMA GivesFailed ==
  ASSUME NEW m, NEW n, Extends(m, n, {})
  PROVE  Gives(m, Failed(n))
BY GivesShint DEF Failed

LEMMA GivesAllocated ==
  ASSUME NEW m, NEW a, Allocates(m, a), a.p # NULL
  PROVE  Gives(m, Outcome(a.m, OK, Dyn(a.p)))
<1>1. a.p \in Pointers /\ Extends(m, a.m, Ptr(a.p))
  BY DEF Allocates
<1>2. Dyn(a.p) \in Decs /\ Own(Dyn(a.p)) = Ptr(a.p) /\ Dyn(a.p).intact
  BY <1>1, DynIsDec
<1> QED BY <1>1, <1>2, OutcomeParts DEF Gives, Honest

(* Memory for the result, or an error. *)
LEMMA GivesIfAllocated ==
  ASSUME NEW m, NEW a, Allocates(m, a)
  PROVE  /\ Gives(m, IF a.p = NULL THEN Failed(a.m) ELSE Outcome(a.m, OK, Dyn(a.p)))
         /\ Gives(m, Outcome(a.m, IF a.p = NULL THEN ENOMEM ELSE OK, Dyn(a.p)))
<1>1. CASE a.p = NULL
  <2>1. Extends(m, a.m, {}) /\ NULL \in Pointers /\ Ptr(NULL) = {}
    BY <1>1, AllocatesNull DEF Pointers, Ptr
  <2>2. Gives(m, Outcome(a.m, ENOMEM, Dyn(NULL)))
    BY <2>1, OutcomeParts, DynIsDec, Distinct DEF Gives, Honest
  <2>3. Gives(m, Failed(a.m))
    BY <2>1, GivesFailed
  <2> QED BY <1>1, <2>2, <2>3
<1>2. CASE a.p # NULL
  BY <1>2, GivesAllocated
<1> QED BY <1>1, <1>2

LEMMA GivesAfter ==
  ASSUME NEW m, NEW n, NEW o, Extends(m, n, {}), Gives(n, o)
  PROVE  Gives(m, o)
<1>1. Extends(m, o.m, {} \cup Own(o.z))
  BY ExtendsTwice DEF Gives
<1>2. {} \cup Own(o.z) = Own(o.z)
  OBVIOUS
<1> QED BY <1>1, <1>2 DEF Gives

(* Freeing the array of a decimal. *)
LEMMA ReleaseIsFree ==
  ASSUME NEW m, NEW d \in Decs
  PROVE  Release(m, d) = free(m, d.arr)
BY DEF Release, Decs, free

LEMMA ReleaseExtends ==
  ASSUME NEW m, NEW n, NEW S, NEW d \in Decs, Extends(m, n, S), Own(d) \subseteq S
  PROVE  Extends(m, Release(n, d), S \ Own(d))
<1>1. d.arr \in S \cup {NULL}
  BY DEF Own, Ptr
<1> QED BY <1>1, ReleaseIsFree, FreeExtends DEF Own

LEMMA ReleaseHeap ==
  ASSUME NEW n \in Heaps, NEW d \in Decs
  PROVE  Release(n, d) \in Heaps /\ n.faults \subseteq Release(n, d).faults
BY ReleaseIsFree, FreeHeap

LEMMA ReleasesGiven ==
  ASSUME NEW m, NEW o, Gives(m, o)
  PROVE  Extends(m, Release(o.m, o.z), {})
<1>1. Extends(m, Release(o.m, o.z), Own(o.z) \ Own(o.z))
  BY ReleaseExtends DEF Gives
<1>2. Own(o.z) \ Own(o.z) = {}
  OBVIOUS
<1> QED BY <1>1, <1>2

(* A function that changes the result of another. *)
LEMMA KeepsGiven ==
  ASSUME NEW m, NEW c, NEW o, Gives(m, c), Keeps(c.m, c.z, o), o.rc # OK => Own(o.z) = {}
  PROVE  Gives(m, o)
BY DEF Gives, Keeps

LEMMA GivenIsIntact ==
  ASSUME NEW m, NEW o, Gives(m, o), o.rc = OK
  PROVE  o.m \in Heaps /\ Intact(o.m, o.z)
BY DEF Gives, Honest, Intact, Extends

LEMMA ReleaseKeeps ==
  ASSUME NEW m \in Heaps, NEW d \in Decs
  PROVE  Keeps(m, d, Outcome(Release(m, d), OK, Shint))
<1> DEFINE o == Outcome(Release(m, d), OK, Shint)
<1>1. o.m = Release(m, d) /\ o.rc = OK /\ o.z = Shint
  BY OutcomeParts
<1>2. ASSUME NEW b, Extends(b, m, Own(d))
      PROVE  Extends(b, Release(m, d), {})
  <2>1. Extends(b, Release(m, d), Own(d) \ Own(d))
    BY <1>2, ReleaseExtends
  <2>2. Own(d) \ Own(d) = {}
    OBVIOUS
  <2> QED BY <2>1, <2>2
<1>3. Release(m, d) \in Heaps
  BY ReleaseHeap
<1> HIDE DEF o
<1>4. Keeps(m, d, o)
  BY <1>1, <1>2, <1>3, ShintIsDec DEF Keeps, Honest
<1> QED BY <1>4 DEF o

(* fpdec_dyn_normalize *)
LEMMA NormalizedKeeps ==
  ASSUME NEW m \in Heaps, NEW d, Intact(m, d), NEW o \in Normalized(m, d)
  PROVE  Keeps(m, d, o) /\ o.rc = OK
<1>1. d \in Decs /\ (m.faults = {} => d.intact)
  BY DEF Intact
<1>2. CASE o = Outcome(m, OK, d)
  BY <1>1, <1>2, OutcomeParts DEF Keeps, Honest
<1>3. CASE o = Outcome(free(m, d.arr), OK, Shint)
  <2>1. o = Outcome(Release(m, d), OK, Shint)
    BY <1>1, <1>3, ReleaseIsFree
  <2> QED BY <1>1, <2>1, OutcomeParts, ReleaseKeeps
<1> QED BY <1>2, <1>3 DEF Normalized

LEMMA NormalizedGives ==
  ASSUME NEW m, NEW c, Gives(m, c), c.rc = OK, NEW o \in Normalized(c.m, c.z)
  PROVE  Gives(m, o)
<1>1. c.m \in Heaps /\ Intact(c.m, c.z)
  BY GivenIsIntact
<1>2. Keeps(c.m, c.z, o) /\ o.rc = OK
  BY <1>1, NormalizedKeeps
<1> QED BY <1>2, KeepsGiven

LEMMA NormalizedIfDynGives ==
  ASSUME NEW m, NEW c, Gives(m, c), NEW o \in NormalizedIfDyn(c)
  PROVE  Gives(m, o)
<1>1. CASE c.rc = OK /\ c.z.dyn
  BY <1>1, NormalizedGives DEF NormalizedIfDyn
<1>2. CASE ~(c.rc = OK /\ c.z.dyn)
  <2>1. o = c
    BY <1>2 DEF NormalizedIfDyn
  <2> QED BY <2>1
<1> QED BY <1>1, <1>2

-----------------------------------------------------------------------------
(* fpdec.c: copies and conversions. *)
LEMMA CopyGives ==
  ASSUME NEW m \in Heaps, NEW d, Intact(m, d), NEW o \in fpdec_copy(m, d)
  PROVE  Gives(m, o)
<1>1. d \in Decs /\ (m.faults = {} => d.intact)
  BY DEF Intact
<1>2. CASE d.dyn
  <2>1. PICK a \in alloc(m) :
          o = Outcome(a.m, IF a.p = NULL THEN ENOMEM ELSE OK, Dyn(a.p))
    BY <1>2 DEF fpdec_copy
  <2>2. Allocates(m, a)
    BY AllocExtends DEF Allocates
  <2> QED BY <2>1, <2>2, GivesIfAllocated
<1>3. CASE ~d.dyn
  <2>1. o = Outcome(m, OK, d)
    BY <1>3 DEF fpdec_copy
  <2>2. Own(d) = {}
    BY <1>1, <1>3 DEF Decs, Own, Ptr
  <2> QED BY <1>1, <2>1, <2>2, OutcomeParts, ExtendsSelf DEF Gives, Honest
<1> QED BY <1>2, <1>3

LEMMA ShintToDynGives ==
  ASSUME NEW m \in Heaps, NEW d \in Decs, ~d.dyn, NEW o \in fpdec_shint_to_dyn(m, d)
  PROVE  Gives(m, o) /\ (o.rc = OK => o.z.dyn) /\ o.rc \in {OK, ENOMEM}
<1>1. PICK a \in alloc(m) :
        o = IF a.p = NULL
            THEN Outcome(a.m, ENOMEM, [d EXCEPT !.intact = FALSE])
            ELSE Outcome(a.m, OK, Dyn(a.p))
  BY DEF fpdec_shint_to_dyn
<1>2. Allocates(m, a)
  BY AllocExtends DEF Allocates
<1>3. CASE a.p = NULL
  <2> DEFINE e == [d EXCEPT !.intact = FALSE]
  <2>1. o.m = a.m /\ o.rc = ENOMEM /\ o.z = e
    BY <1>1, <1>3, OutcomeParts
  <2>2. e \in Decs /\ Own(e) = {}
    BY DEF Decs, Own, Ptr
  <2>3. Extends(m, a.m, {})
    BY <1>2, <1>3, AllocatesNull
  <2> HIDE DEF e
  <2> QED BY <2>1, <2>2, <2>3, Distinct DEF Gives, Honest
<1>4. CASE a.p # NULL
  <2>1. o = Outcome(a.m, OK, Dyn(a.p))
    BY <1>1, <1>4
  <2>2. a.p \in Pointers
    BY <1>2 DEF Allocates
  <2> QED BY <1>2, <1>4, <2>1, <2>2, GivesAllocated, OutcomeParts, DynIsDec
<1> QED BY <1>3, <1>4

(* The arrays the copy c of the operand d has: none if it is d itself. *)
OwnCopy(d, c) == IF d.dyn THEN {} ELSE Own(c)

IsCopy(m, d, c) ==
  /\ Extends(m, c.m, OwnCopy(d, c.z))
  /\ c.rc # OK => Extends(m, c.m, {})
  /\ c.rc = OK => c.z \in Decs /\ c.z.dyn /\ Intact(c.m, c.z)

LEMMA AsDynCopies ==
  ASSUME NEW m \in Heaps, NEW d, Intact(m, d), NEW c \in AsDyn(m, d)
  PROVE  IsCopy(m, d, c)
<1>0. d \in Decs
  BY DEF Intact
<1>1. CASE d.dyn
  <2>1. c = Outcome(m, OK, d)
    BY <1>1 DEF AsDyn
  <2> QED BY <1>0, <1>1, <2>1, OutcomeParts, ExtendsSelf DEF IsCopy, OwnCopy
<1>2. CASE ~d.dyn
  <2>1. Gives(m, c) /\ (c.rc = OK => c.z.dyn)
    BY <1>0, <1>2, ShintToDynGives DEF AsDyn
  <2>2. c.rc = OK => Intact(c.m, c.z)
    BY <2>1, GivenIsIntact
  <2> QED BY <1>2, <2>1, <2>2 DEF Gives, IsCopy, OwnCopy
<1> QED BY <1>1, <1>2

LEMMA DropCopyExtends ==
  ASSUME NEW m, NEW n, NEW S, NEW d, NEW c \in Decs, c.dyn,
         Extends(m, n, S), OwnCopy(d, c) \subseteq S
  PROVE  Extends(m, DropCopy(n, d, c), S \ OwnCopy(d, c))
<1>1. CASE d.dyn
  <2>1. S \ OwnCopy(d, c) = S /\ DropCopy(n, d, c) = n
    BY <1>1 DEF OwnCopy, DropCopy
  <2> QED BY <2>1
<1>2. CASE ~d.dyn
  <2>1. OwnCopy(d, c) = Own(c) /\ DropCopy(n, d, c) = Release(n, c)
    BY <1>2 DEF OwnCopy, DropCopy
  <2> QED BY <2>1, ReleaseExtends
<1> QED BY <1>1, <1>2

LEMMA DropCopyHeap ==
  ASSUME NEW n \in Heaps, NEW d, NEW c \in Decs
  PROVE  DropCopy(n, d, c) \in Heaps /\ n.faults \subseteq DropCopy(n, d, c).faults
BY ReleaseHeap DEF DropCopy

(* Both operands are decimals; they may be used if the heap is as it should be. *)
Operands(m, x, y) == m \in Heaps /\ Intact(m, x) /\ Intact(m, y)

LEMMA OperandsAreDecs ==
  ASSUME NEW m, NEW x, NEW y, Operands(m, x, y)
  PROVE  m \in Heaps /\ x \in Decs /\ y \in Decs
BY DEF Operands, Intact

(* Both operands have digits now, or there was an error. *)
AreCopies(m, x, y, c) ==
  \/ c.rc # OK /\ Extends(m, c.m, {})
  \/ /\ c.rc = OK
     /\ c.x \in Decs /\ c.x.dyn /\ c.y \in Decs /\ c.y.dyn
     /\ Extends(m, c.m, OwnCopy(x, c.x) \cup OwnCopy(y, c.y))
     /\ OwnCopy(x, c.x) \cap OwnCopy(y, c.y) = {}
     /\ Intact(c.m, c.y)

LEMMA BothCopied ==
  ASSUME NEW m, NEW x, NEW y, Operands(m, x, y), NEW c \in BothAsDyn(m, x, y)
  PROVE  AreCopies(m, x, y, c)
<1> DEFINE Pair(h, rc, cx, cy) == [m |-> h, rc |-> rc, x |-> cx, y |-> cy]
<1>0. m \in Heaps /\ Intact(m, x) /\ Intact(m, y)
  BY DEF Operands
<1>1. PICK cx \in AsDyn(m, x) :
        c \in IF cx.rc # OK THEN {Pair(cx.m, ENOMEM, Shint, Shint)} ELSE
              {IF cy.rc # OK THEN Pair(DropCopy(cy.m, x, cx.z), ENOMEM, Shint, Shint)
               ELSE Pair(cy.m, OK, cx.z, cy.z) : cy \in AsDyn(cx.m, y)}
  BY DEF BothAsDyn
<1>2. IsCopy(m, x, cx)
  BY <1>0, AsDynCopies
<1>3. CASE cx.rc # OK
  <2>1. c.m = cx.m /\ c.rc = ENOMEM
    BY <1>1, <1>3
  <2>2. Extends(m, cx.m, {})
    BY <1>2, <1>3 DEF IsCopy
  <2> QED BY <2>1, <2>2, Distinct DEF AreCopies
<1>4. CASE cx.rc = OK
  <2>1. PICK cy \in AsDyn(cx.m, y) :
          c = IF cy.rc # OK THEN Pair(DropCopy(cy.m, x, cx.z), ENOMEM, Shint, Shint)
              ELSE Pair(cy.m, OK, cx.z, cy.z)
    BY <1>1, <1>4
  <2>2. Extends(m, cx.m, OwnCopy(x, cx.z)) /\ cx.m \in Heaps /\ cx.z \in Decs /\ cx.z.dyn
    BY <1>2, <1>4 DEF IsCopy, Extends
  <2>3. IsCopy(cx.m, y, cy)
    <3>1. m.faults \subseteq cx.m.faults
      BY <2>2 DEF Extends
    <3>2. Intact(cx.m, y)
      BY <1>0, <3>1 DEF Intact
    <3> QED BY <2>2, <3>2, AsDynCopies
  <2>4. CASE cy.rc # OK
    <3>1. Extends(cx.m, cy.m, {})
      BY <2>3, <2>4 DEF IsCopy
    <3>2. Extends(m, cy.m, OwnCopy(x, cx.z) \cup {})
      BY <2>2, <3>1, ExtendsTwice
    <3>3. Extends(m, DropCopy(cy.m, x, cx.z),
                  (OwnCopy(x, cx.z) \cup {}) \ OwnCopy(x, cx.z))
      BY <2>2, <3>2, DropCopyExtends
    <3>4. (OwnCopy(x, cx.z) \cup {}) \ OwnCopy(x, cx.z) = {}
      OBVIOUS
    <3>5. c.m = DropCopy(cy.m, x, cx.z) /\ c.rc = ENOMEM
      BY <2>1, <2>4
    <3> QED BY <3>3, <3>4, <3>5, Distinct DEF AreCopies
  <2>5. CASE cy.rc = OK
    <3>1. /\ Extends(cx.m, cy.m, OwnCopy(y, cy.z))
          /\ cy.z \in Decs /\ cy.z.dyn /\ Intact(cy.m, cy.z)
      BY <2>3, <2>5 DEF IsCopy
    <3>2. /\ Extends(m, cy.m, OwnCopy(x, cx.z) \cup OwnCopy(y, cy.z))
          /\ OwnCopy(x, cx.z) \cap OwnCopy(y, cy.z) = {}
      <4> DEFINE R == OwnCopy(x, cx.z)
                 T == OwnCopy(y, cy.z)
                 u == cx.m
                 v == cy.m
      <4>1. Extends(m, u, R)
        BY <2>2
      <4>2. Extends(u, v, T)
        BY <3>1
      <4> HIDE DEF R, T, u, v
      <4>3. Extends(m, v, R \cup T) /\ R \cap T = {}
        BY <4>1, <4>2, ExtendsTwice
      <4> QED BY <4>3 DEF R, T, v
    <3>3. c.m = cy.m /\ c.rc = OK /\ c.x = cx.z /\ c.y = cy.z
      BY <2>1, <2>5
    <3> QED BY <2>2, <3>1, <3>2, <3>3 DEF AreCopies
  <2> QED BY <2>4, <2>5
<1> QED BY <1>3, <1>4

LEMMA CopiesDropped ==
  ASSUME NEW m, NEW x, NEW y, NEW c, AreCopies(m, x, y, c), c.rc = OK,
         NEW n, NEW S, Extends(c.m, n, S)
  PROVE  Extends(m, DropCopy(DropCopy(n, y, c.y), x, c.x), S)
<1> DEFINE X == OwnCopy(x, c.x)
           Y == OwnCopy(y, c.y)
<1>1. /\ c.x \in Decs /\ c.x.dyn /\ c.y \in Decs /\ c.y.dyn
      /\ Extends(m, c.m, X \cup Y) /\ X \cap Y = {}
  BY DEF AreCopies
<1>2. Extends(m, n, (X \cup Y) \cup S) /\ (X \cup Y) \cap S = {}
  BY <1>1, ExtendsTwice
<1>3. Extends(m, DropCopy(n, y, c.y), ((X \cup Y) \cup S) \ Y)
  BY <1>1, <1>2, DropCopyExtends
<1>4. Extends(m, DropCopy(DropCopy(n, y, c.y), x, c.x), (((X \cup Y) \cup S) \ Y) \ X)
  BY <1>1, <1>3, DropCopyExtends
<1>5. (((X \cup Y) \cup S) \ Y) \ X = S
  BY <1>2
<1> QED BY <1>4, <1>5

LEMMA DropCopiesGives ==
  ASSUME NEW m, NEW x, NEW y, NEW c, AreCopies(m, x, y, c), c.rc = OK,
         NEW o, o = Outcome(o.m, o.rc, o.z), Gives(c.m, o)
  PROVE  Gives(m, DropCopies(o, x, y, c))
<1> DEFINE n == DropCopy(DropCopy(o.m, y, c.y), x, c.x)
<1>1. Extends(m, n, Own(o.z))
  BY CopiesDropped DEF Gives
<1> HIDE DEF n
<1>2. DropCopies(o, x, y, c) = [o EXCEPT !.m = n]
  BY DEF DropCopies, n
<1>3. DropCopies(o, x, y, c) = Outcome(n, o.rc, o.z)
  BY <1>2 DEF Outcome
<1>4. n.faults = {} => o.m.faults = {}
  <2>1. o.m \in Heaps /\ c.x \in Decs /\ c.y \in Decs
    BY DEF Gives, Extends, AreCopies
  <2>2. /\ DropCopy(o.m, y, c.y) \in Heaps
        /\ o.m.faults \subseteq DropCopy(o.m, y, c.y).faults
    BY <2>1, DropCopyHeap
  <2>3. DropCopy(o.m, y, c.y).faults \subseteq n.faults
    BY <2>1, <2>2, DropCopyHeap DEF n
  <2> QED BY <2>2, <2>3
<1> QED BY <1>1, <1>3, <1>4, OutcomeParts DEF Gives, Honest

-----------------------------------------------------------------------------
(* Addition, subtraction and multiplication. *)

(* The form of every outcome the following functions build. *)
LEMMA IsOutcome ==
  ASSUME NEW m, NEW rc, NEW z, NEW o, o = Outcome(m, rc, z)
  PROVE  o = Outcome(o.m, o.rc, o.z)
BY OutcomeParts

LEMMA AddDynGives ==
  ASSUME NEW m \in Heaps, NEW x, NEW y, NEW o \in fpdec_add_abs_dyn_to_dyn(m, x, y)
  PROVE  Gives(m, o) /\ o = Outcome(o.m, o.rc, o.z)
<1>1. PICK a \in alloc(m) :
        o = IF a.p = NULL THEN Failed(a.m) ELSE Outcome(a.m, OK, Dyn(a.p))
  BY DEF fpdec_add_abs_dyn_to_dyn
<1>2. Allocates(m, a)
  BY AllocExtends DEF Allocates
<1>3. o = Outcome(o.m, o.rc, o.z)
  BY <1>1, IsOutcome DEF Failed
<1> QED BY <1>1, <1>2, <1>3, GivesIfAllocated

LEMMA NormalizedIsOutcome ==
  ASSUME NEW m, NEW d, NEW o \in Normalized(m, d)
  PROVE  o = Outcome(o.m, o.rc, o.z)
BY OutcomeParts DEF Normalized

(* A new array is filled and normalised. *)
LEMMA NormalizedAllocated ==
  ASSUME NEW m, NEW n, NEW p \in Pointers \ {NULL}, Extends(m, n, Ptr(p)),
         NEW o \in Normalized(n, Dyn(p))
  PROVE  Gives(m, o) /\ o = Outcome(o.m, o.rc, o.z)
<1> DEFINE a == [m |-> n, p |-> p]
           c == Outcome(n, OK, Dyn(p))
<1>1. Allocates(m, a) /\ a.p # NULL /\ c = Outcome(a.m, OK, Dyn(a.p))
  BY DEF Allocates
<1> HIDE DEF a
<1>2. Gives(m, c)
  BY <1>1, GivesAllocated
<1>3. c.m = n /\ c.rc = OK /\ c.z = Dyn(p)
  BY OutcomeParts
<1> HIDE DEF c
<1> QED BY <1>2, <1>3, NormalizedGives, NormalizedIsOutcome

LEMMA SubDynGives ==
  ASSUME NEW m \in Heaps, NEW x, NEW y, NEW o \in fpdec_sub_abs_dyn_from_dyn(m, x, y)
  PROVE  Gives(m, o) /\ o = Outcome(o.m, o.rc, o.z)
<1>1. PICK z \in alloc(m) :
        o \in IF z.p = NULL THEN {Failed(z.m)} ELSE
              Normalized(z.m, Dyn(z.p)) \cup
              (UNION {IF s.p = NULL THEN {Failed(free(s.m, z.p))} ELSE
                      Normalized(free(s.m, s.p), Dyn(z.p)) : s \in alloc(z.m)})
  BY DEF fpdec_sub_abs_dyn_from_dyn
<1>2. z.p \in Pointers /\ Extends(m, z.m, Ptr(z.p))
  BY AllocExtends
<1>3. CASE z.p = NULL
  <2>1. o = Failed(z.m) /\ Extends(m, z.m, {})
    BY <1>1, <1>2, <1>3 DEF Ptr
  <2> QED BY <2>1, GivesFailed, IsOutcome DEF Failed
<1>4. CASE z.p # NULL
  <2>1. CASE o \in Normalized(z.m, Dyn(z.p))
    BY <1>2, <1>4, <2>1, NormalizedAllocated
  <2>2. ASSUME NEW s \in alloc(z.m),
               o \in IF s.p = NULL THEN {Failed(free(s.m, z.p))}
                     ELSE Normalized(free(s.m, s.p), Dyn(z.p))
        PROVE  Gives(m, o) /\ o = Outcome(o.m, o.rc, o.z)
    <3>1. Extends(m, s.m, Ptr(z.p) \cup Ptr(s.p)) /\ Ptr(z.p) \cap Ptr(s.p) = {}
      BY <1>2, AllocMore
    <3>2. CASE s.p = NULL
      <4>1. Extends(m, free(s.m, z.p), (Ptr(z.p) \cup Ptr(s.p)) \ Ptr(z.p))
        BY <1>4, <3>1, FreeExtends DEF Ptr
      <4>2. (Ptr(z.p) \cup Ptr(s.p)) \ Ptr(z.p) = {}
        BY <3>2 DEF Ptr
      <4>3. o = Failed(free(s.m, z.p))
        BY <2>2, <3>2
      <4> QED BY <4>1, <4>2, <4>3, GivesFailed, IsOutcome DEF Failed
    <3>3. CASE s.p # NULL
      <4>1. Extends(m, free(s.m, s.p), (Ptr(z.p) \cup Ptr(s.p)) \ Ptr(s.p))
        BY <3>1, <3>3, FreeExtends DEF Ptr
      <4>2. (Ptr(z.p) \cup Ptr(s.p)) \ Ptr(s.p) = Ptr(z.p)
        BY <3>1
      <4>3. o \in Normalized(free(s.m, s.p), Dyn(z.p))
        BY <2>2, <3>3
      <4> QED BY <1>2, <1>4, <4>1, <4>2, <4>3, NormalizedAllocated
    <3> QED BY <3>2, <3>3
  <2> QED BY <1>1, <1>4, <2>1, <2>2
<1> QED BY <1>3, <1>4

LEMMA CopiesHeap ==
  ASSUME NEW m, NEW x, NEW y, NEW c, AreCopies(m, x, y, c)
  PROVE  c.m \in Heaps /\ (c.rc # OK => Extends(m, c.m, {}))
BY DEF AreCopies, Extends

LEMMA AddAbsGives ==
  ASSUME NEW m, NEW x, NEW y, Operands(m, x, y), NEW o \in AddAbs(m, x, y)
  PROVE  Gives(m, o)
<1>1. m \in Heaps /\ x \in Decs /\ y \in Decs
  BY OperandsAreDecs
<1>2. CASE x.dyn \/ y.dyn
  <2>1. PICK c \in BothAsDyn(m, x, y) :
          o \in IF c.rc # OK THEN {Failed(c.m)} ELSE
                {DropCopies(s, x, y, c) : s \in fpdec_add_abs_dyn_to_dyn(c.m, c.x, c.y)}
    BY <1>2 DEF AddAbs
  <2>2. AreCopies(m, x, y, c)
    BY <1>1, BothCopied
  <2>3. CASE c.rc # OK
    BY <2>1, <2>2, <2>3, CopiesHeap, GivesFailed
  <2>4. CASE c.rc = OK
    <3>1. PICK s \in fpdec_add_abs_dyn_to_dyn(c.m, c.x, c.y) : o = DropCopies(s, x, y, c)
      BY <2>1, <2>4
    <3>2. Gives(c.m, s) /\ s = Outcome(s.m, s.rc, s.z)
      BY <2>2, CopiesHeap, AddDynGives
    <3> QED BY <2>2, <2>4, <3>1, <3>2, DropCopiesGives
  <2> QED BY <2>3, <2>4
<1>3. CASE ~(x.dyn \/ y.dyn)
  <2>1. o = Outcome(m, OK, Shint) \/ o \in fpdec_shint_to_dyn(m, Shint)
    BY <1>3 DEF AddAbs
  <2> QED BY <1>1, <2>1, ExtendsSelf, GivesShint, ShintToDynGives, ShintIsDec
<1> QED BY <1>2, <1>3

LEMMA SubAbsGives ==
  ASSUME NEW m, NEW x, NEW y, Operands(m, x, y), NEW o \in SubAbs(m, x, y)
  PROVE  Gives(m, o)
<1>1. m \in Heaps /\ x \in Decs /\ y \in Decs
  BY OperandsAreDecs
<1>2. CASE x.dyn \/ y.dyn
  <2>1. PICK c \in BothAsDyn(m, x, y) :
          o \in IF c.rc # OK THEN {Failed(c.m)} ELSE
                {DropCopies(s, x, y, c) : s \in fpdec_sub_abs_dyn_from_dyn(c.m, c.x, c.y)}
    BY <1>2 DEF SubAbs
  <2>2. AreCopies(m, x, y, c)
    BY <1>1, BothCopied
  <2>3. CASE c.rc # OK
    BY <2>1, <2>2, <2>3, CopiesHeap, GivesFailed
  <2>4. CASE c.rc = OK
    <3>1. PICK s \in fpdec_sub_abs_dyn_from_dyn(c.m, c.x, c.y) : o = DropCopies(s, x, y, c)
      BY <2>1, <2>4
    <3>2. Gives(c.m, s) /\ s = Outcome(s.m, s.rc, s.z)
      BY <2>2, CopiesHeap, SubDynGives
    <3> QED BY <2>2, <2>4, <3>1, <3>2, DropCopiesGives
  <2> QED BY <2>3, <2>4
<1>3. CASE ~(x.dyn \/ y.dyn)
  <2>1. o = Outcome(m, OK, Shint)
    BY <1>3 DEF SubAbs
  <2> QED BY <1>1, <2>1, ExtendsSelf, GivesShint
<1> QED BY <1>2, <1>3

LEMMA OperandsSwapped ==
  ASSUME NEW m, NEW x, NEW y, Operands(m, x, y)
  PROVE  Operands(m, y, x)
BY DEF Operands

LEMMA AddGives ==
  ASSUME NEW m, NEW x, NEW y, Operands(m, x, y), NEW o \in fpdec_add(m, x, y)
  PROVE  Gives(m, o)
<1>1. m \in Heaps /\ Intact(m, x) /\ Intact(m, y) /\ Operands(m, y, x)
  BY OperandsSwapped DEF Operands
<1>2. \/ o \in fpdec_copy(m, x) \cup fpdec_copy(m, y)
      \/ o \in AddAbs(m, x, y)
      \/ o \in SubAbs(m, x, y) \cup SubAbs(m, y, x)
      \/ o = Outcome(m, OK, Shint)
  BY DEF fpdec_add
<1>3. CASE o \in fpdec_copy(m, x) \cup fpdec_copy(m, y)
  BY <1>1, <1>3, CopyGives
<1>4. CASE o \in SubAbs(m, x, y) \cup SubAbs(m, y, x)
  BY <1>1, <1>4, SubAbsGives
<1>5. CASE o = Outcome(m, OK, Shint)
  BY <1>1, <1>5, ExtendsSelf, GivesShint
<1> QED BY <1>2, <1>3, <1>4, <1>5, AddAbsGives

(* An array, or an error after it was allocated. *)
LEMMA GivesOrFrees ==
  ASSUME NEW m, NEW a, Allocates(m, a),
         NEW o \in IF a.p = NULL THEN {Failed(a.m)}
                   ELSE {Outcome(free(a.m, a.p), LIMIT, Shint), Outcome(a.m, OK, Dyn(a.p))}
  PROVE  Gives(m, o) /\ o = Outcome(o.m, o.rc, o.z)
<1>1. CASE o = Outcome(free(a.m, a.p), LIMIT, Shint)
  BY <1>1, FreesAllocated, GivesShint, IsOutcome
<1>2. CASE o = IF a.p = NULL THEN Failed(a.m) ELSE Outcome(a.m, OK, Dyn(a.p))
  <2>1. o = Outcome(o.m, o.rc, o.z)
    BY <1>2, IsOutcome DEF Failed
  <2> QED BY <1>2, <2>1, GivesIfAllocated
<1> QED BY <1>1, <1>2

LEMMA MulAbsGives ==
  ASSUME NEW m, NEW x, NEW y, Operands(m, x, y), NEW o \in MulAbs(m, x, y)
  PROVE  Gives(m, o)
<1>1. m \in Heaps /\ x \in Decs /\ y \in Decs
  BY OperandsAreDecs
<1>2. PICK c \in BothAsDyn(m, x, y) :
        o \in IF c.rc # OK THEN {Failed(c.m)} ELSE
              {DropCopies(s, x, y, c) : s \in fpdec_mul_abs_dyn_by_dyn(c.m, c.x, c.y)}
  BY DEF MulAbs
<1>3. AreCopies(m, x, y, c)
  BY <1>1, BothCopied
<1>4. CASE c.rc # OK
  BY <1>2, <1>3, <1>4, CopiesHeap, GivesFailed
<1>5. CASE c.rc = OK
  <2>1. PICK s \in fpdec_mul_abs_dyn_by_dyn(c.m, c.x, c.y) : o = DropCopies(s, x, y, c)
    BY <1>2, <1>5
  <2>2. PICK a \in alloc(c.m) :
          s \in IF a.p = NULL THEN {Failed(a.m)}
                ELSE {Outcome(free(a.m, a.p), LIMIT, Shint), Outcome(a.m, OK, Dyn(a.p))}
    BY DEF fpdec_mul_abs_dyn_by_dyn
  <2>3. Allocates(c.m, a)
    BY <1>3, CopiesHeap, AllocExtends DEF Allocates
  <2>4. Gives(c.m, s) /\ s = Outcome(s.m, s.rc, s.z)
    BY <2>2, <2>3, GivesOrFrees
  <2> QED BY <1>3, <1>5, <2>1, <2>4, DropCopiesGives
<1> QED BY <1>4, <1>5

LEMMA MulGives ==
  ASSUME NEW m, NEW x, NEW y, Operands(m, x, y), NEW o \in fpdec_mul(m, x, y)
  PROVE  Gives(m, o)
<1>1. m \in Heaps
  BY DEF Operands
<1>2. \/ \E rc \in {OK, LIMIT} : o = Outcome(m, rc, Shint)
      \/ \E a \in MulAbs(m, x, y) : o \in NormalizedIfDyn(a)
  BY DEF fpdec_mul
<1>3. CASE \E rc \in {OK, LIMIT} : o = Outcome(m, rc, Shint)
  BY <1>1, <1>3, ExtendsSelf, GivesShint
<1>4. CASE \E a \in MulAbs(m, x, y) : o \in NormalizedIfDyn(a)
  BY <1>4, MulAbsGives, NormalizedIfDynGives
<1> QED BY <1>2, <1>3, <1>4

-----------------------------------------------------------------------------
(* Divisions. *)
LEMMA DivExactGives ==
  ASSUME NEW m \in Heaps, NEW x, NEW y, NEW o \in fpdec_div_abs_dyn_by_dyn_exact(m, x, y)
  PROVE  Gives(m, o) /\ o = Outcome(o.m, o.rc, o.z)
<1>1. CASE o = Outcome(m, LIMIT, Shint)
  BY <1>1, ExtendsSelf, GivesShint, IsOutcome
<1>2. ASSUME NEW q \in digits_div_max_prec(m),
             o \in IF q.p = NULL THEN {Failed(q.m)}
                   ELSE {Outcome(free(q.m, q.p), LIMIT, Shint), Outcome(q.m, OK, Dyn(q.p))}
      PROVE  Gives(m, o) /\ o = Outcome(o.m, o.rc, o.z)
  BY <1>2, DivMaxExtends, GivesOrFrees
<1> QED BY <1>1, <1>2 DEF fpdec_div_abs_dyn_by_dyn_exact

LEMMA DivDynGives ==
  ASSUME NEW m \in Heaps, NEW x, NEW y, NEW o \in fpdec_div_abs_dyn_by_dyn(m, x, y)
  PROVE  Gives(m, o) /\ o = Outcome(o.m, o.rc, o.z)
<1>1. CASE o \in fpdec_div_abs_dyn_by_dyn_exact(m, x, y)
  BY <1>1, DivExactGives
<1>2. CASE o = Outcome(m, OK, Shint)
  BY <1>2, ExtendsSelf, GivesShint, IsOutcome
<1>3. ASSUME NEW q \in digits_div_limit_prec(m) \cup alloc(m),
             o = IF q.p = NULL THEN Failed(q.m) ELSE Outcome(q.m, OK, Dyn(q.p))
      PROVE  Gives(m, o) /\ o = Outcome(o.m, o.rc, o.z)
  <2>1. Allocates(m, q)
    BY DivLimitExtends, AllocExtends DEF Allocates
  <2>2. o = Outcome(o.m, o.rc, o.z)
    BY <1>3, IsOutcome DEF Failed
  <2> QED BY <1>3, <2>1, <2>2, GivesIfAllocated
<1> QED BY <1>1, <1>2, <1>3 DEF fpdec_div_abs_dyn_by_dyn

LEMMA UncheckedGives ==
  ASSUME NEW m \in Heaps, NEW o \in Unchecked(m)
  PROVE  Gives(m, o)
<1>1. PICK c \in fpdec_shint_to_dyn(m, Shint) :
        o = IF c.rc = OK THEN c ELSE Outcome(Fault(c.m, "unchecked"), OK, c.z)
  BY DEF Unchecked
<1>2. Gives(m, c)
  BY ShintToDynGives, ShintIsDec
<1>3. CASE c.rc # OK
  <2>1. o.m = Fault(c.m, "unchecked") /\ o.rc = OK /\ o.z = c.z
    BY <1>1, <1>3, OutcomeParts
  <2>2. Extends(m, c.m, {}) /\ c.z \in Decs /\ Own(c.z) = {}
    BY <1>2, <1>3 DEF Gives
  <2>3. Extends(m, o.m, {}) /\ o.m.faults # {}
    BY <2>1, <2>2, FaultExtends DEF Tolerated
  <2> QED BY <2>1, <2>2, <2>3 DEF Gives, Honest
<1> QED BY <1>1, <1>2, <1>3

LEMMA DivAbsGives ==
  ASSUME NEW m, NEW x, NEW y, Operands(m, x, y), NEW o \in DivAbs(m, x, y)
  PROVE  Gives(m, o)
<1>1. m \in Heaps /\ x \in Decs /\ y \in Decs
  BY OperandsAreDecs
<1>2. \/ o \in fpdec_div_abs_shint_by_shint(m, x, y)
      \/ \E c \in BothAsDyn(m, x, y) :
           o \in IF c.rc # OK THEN {Failed(c.m)} ELSE
                 {DropCopies(s, x, y, c) : s \in fpdec_div_abs_dyn_by_dyn(c.m, c.x, c.y)}
  BY DEF DivAbs
<1>3. CASE o \in fpdec_div_abs_shint_by_shint(m, x, y)
  <2>1. \/ o = Outcome(m, OK, Shint)
        \/ o \in fpdec_shint_to_dyn(m, Shint)
        \/ o \in Unchecked(m)
    BY <1>3 DEF fpdec_div_abs_shint_by_shint
  <2> QED BY <1>1, <2>1, ExtendsSelf, GivesShint, ShintToDynGives, ShintIsDec, UncheckedGives
<1>4. ASSUME NEW c \in BothAsDyn(m, x, y),
             o \in IF c.rc # OK THEN {Failed(c.m)} ELSE
                   {DropCopies(s, x, y, c) : s \in fpdec_div_abs_dyn_by_dyn(c.m, c.x, c.y)}
      PROVE  Gives(m, o)
  <2>1. AreCopies(m, x, y, c)
    BY <1>1, BothCopied
  <2>2. CASE c.rc # OK
    BY <1>4, <2>1, <2>2, CopiesHeap, GivesFailed
  <2>3. CASE c.rc = OK
    <3>1. PICK s \in fpdec_div_abs_dyn_by_dyn(c.m, c.x, c.y) : o = DropCopies(s, x, y, c)
      BY <1>4, <2>3
    <3>2. Gives(c.m, s) /\ s = Outcome(s.m, s.rc, s.z)
      BY <2>1, CopiesHeap, DivDynGives
    <3> QED BY <2>1, <2>3, <3>1, <3>2, DropCopiesGives
  <2> QED BY <2>2, <2>3
<1> QED BY <1>2, <1>3, <1>4

LEMMA DivGives ==
  ASSUME NEW m, NEW x, NEW y, Operands(m, x, y), NEW o \in fpdec_div(m, x, y)
  PROVE  Gives(m, o)
<1>1. m \in Heaps
  BY DEF Operands
<1>2. \/ \E rc \in {OK, LIMIT} : o = Outcome(m, rc, Shint)
      \/ \E a \in DivAbs(m, x, y) : o \in NormalizedIfDyn(a)
  BY DEF fpdec_div
<1>3. CASE \E rc \in {OK, LIMIT} : o = Outcome(m, rc, Shint)
  BY <1>1, <1>3, ExtendsSelf, GivesShint
<1>4. CASE \E a \in DivAbs(m, x, y) : o \in NormalizedIfDyn(a)
  BY <1>4, DivAbsGives, NormalizedIfDynGives
<1> QED BY <1>2, <1>3, <1>4

(***************************************************************************)
(* Divisions with two results. With an error either may be left, and the   *)
(* client resets both.                                                     *)
(***************************************************************************)
GivesTwo(m, o) ==
  /\ Extends(m, o.m, Own(o.z[1]) \cup Own(o.z[2]))
  /\ Own(o.z[1]) \cap Own(o.z[2]) = {}
  /\ o.z[1] \in Decs /\ o.z[2] \in Decs
  /\ o.rc = OK /\ o.m.faults = {} => o.z[1].intact /\ o.z[2].intact

LEMMA TwoParts ==
  ASSUME NEW m, NEW rc, NEW q, NEW r
  PROVE  /\ Two(m, rc, q, r).m = m /\ Two(m, rc, q, r).rc = rc
         /\ Two(m, rc, q, r).z = << q, r >>
         /\ Two(m, rc, q, r).z[1] = q /\ Two(m, rc, q, r).z[2] = r
BY OutcomeParts DEF Two

LEMMA TwoIsOutcome ==
  ASSUME NEW m, NEW rc, NEW q, NEW r, NEW o, o = Two(m, rc, q, r)
  PROVE  o = Outcome(o.m, o.rc, o.z)
BY TwoParts DEF Two

LEMMA GivesTwoShints ==
  ASSUME NEW m, NEW n, NEW rc, Extends(m, n, {})
  PROVE  GivesTwo(m, Two(n, rc, Shint, Shint))
BY TwoParts, ShintIsDec DEF GivesTwo

LEMMA GivesTwoFailed ==
  ASSUME NEW m, NEW n, Extends(m, n, {})
  PROVE  GivesTwo(m, FailedTwo(n))
BY GivesTwoShints DEF FailedTwo

(* The remainder is all there is. *)
LEMMA GivesSecond ==
  ASSUME NEW m, NEW o, Gives(m, o)
  PROVE  GivesTwo(m, Two(o.m, o.rc, Shint, o.z))
<1>1. Own(o.z) \cup {} = Own(o.z) /\ {} \cup Own(o.z) = Own(o.z)
      /\ Own(o.z) \cap {} = {} /\ {} \cap Own(o.z) = {}
  OBVIOUS
<1>2. Extends(m, o.m, Own(o.z)) /\ o.z \in Decs
      /\ (o.rc = OK /\ o.m.faults = {} => o.z.intact)
  BY DEF Gives, Honest
<1> DEFINE two == Two(o.m, o.rc, Shint, o.z)
<1>3. two.m = o.m /\ two.rc = o.rc /\ two.z[1] = Shint /\ two.z[2] = o.z
  BY TwoParts
<1> HIDE DEF two
<1>4. GivesTwo(m, two)
  BY <1>1, <1>2, <1>3, ShintIsDec DEF GivesTwo
<1> QED BY <1>4 DEF two

LEMMA GivesFirst ==
  ASSUME NEW m, NEW o, Gives(m, o)
  PROVE  GivesTwo(m, Two(o.m, o.rc, o.z, Shint))
<1>1. Own(o.z) \cup {} = Own(o.z) /\ {} \cup Own(o.z) = Own(o.z)
      /\ Own(o.z) \cap {} = {} /\ {} \cap Own(o.z) = {}
  OBVIOUS
<1>2. Extends(m, o.m, Own(o.z)) /\ o.z \in Decs
      /\ (o.rc = OK /\ o.m.faults = {} => o.z.intact)
  BY DEF Gives, Honest
<1> DEFINE two == Two(o.m, o.rc, o.z, Shint)
<1>3. two.m = o.m /\ two.rc = o.rc /\ two.z[1] = o.z /\ two.z[2] = Shint
  BY TwoParts
<1> HIDE DEF two
<1>4. GivesTwo(m, two)
  BY <1>1, <1>2, <1>3, ShintIsDec DEF GivesTwo
<1> QED BY <1>4 DEF two

(* Quotient q is kept while the remainder is replaced by its complement. *)
LEMMA ComplementGives ==
  ASSUME NEW m, NEW n, NEW y, Intact(m, y), NEW q \in Arrays, NEW r \in Arrays, r # q,
         Extends(m, n, {q} \cup {r}),
         NEW t \in Normalized(n, Dyn(r)), NEW s \in fpdec_add(t.m, y, t.z),
         NEW o, o = IF s.rc = OK THEN Two(Release(s.m, t.z), OK, Dyn(q), s.z)
                    ELSE Two(free(Release(s.m, t.z), q), s.rc, Shint, s.z)
  PROVE  GivesTwo(m, o)
<1> DEFINE b == [n EXCEPT !.used = @ \ {r}]
<1>1. /\ m \in Heaps /\ n \in Heaps /\ m.faults \subseteq n.faults /\ r \in n.used
      /\ q \in Pointers /\ r \in Pointers /\ r # NULL /\ q # NULL
      /\ Ptr(r) = {r} /\ Ptr(q) = {q}
  BY PointersDiffer DEF Extends, Pointers, Ptr
<1>2. b \in Heaps /\ b.used = n.used \ {r} /\ b.faults = n.faults
  BY <1>1 DEF Heaps
<1>3. Extends(b, n, Ptr(r)) /\ Extends(m, b, {q})
  BY <1>1, <1>2 DEF Extends
<1> HIDE DEF b
<1>4. Gives(b, t) /\ t.rc = OK
  <2>1. Dyn(r) \in Decs /\ Dyn(r).intact
    BY <1>1, DynIsDec
  <2>2. Intact(n, Dyn(r))
    BY <2>1 DEF Intact
  <2>3. t.rc = OK
    BY <1>1, <2>2, NormalizedKeeps
  <2> QED BY <1>1, <1>3, <2>3, NormalizedAllocated
<1>5. Operands(t.m, y, t.z)
  <2>1. t.m \in Heaps /\ Intact(t.m, t.z)
    BY <1>4, GivenIsIntact
  <2>2. m.faults \subseteq t.m.faults
    BY <1>1, <1>2, <1>4 DEF Gives, Extends
  <2>3. Intact(t.m, y)
    BY <2>2 DEF Intact
  <2> QED BY <2>1, <2>3 DEF Operands
<1>6. Gives(t.m, s)
  BY <1>5, AddGives
<1>7. /\ Extends(b, s.m, Own(t.z) \cup Own(s.z)) /\ Own(t.z) \cap Own(s.z) = {}
      /\ t.z \in Decs /\ s.z \in Decs
  <2> DEFINE R == Own(t.z)
             T == Own(s.z)
             u == t.m
             v == s.m
  <2>1. Extends(b, u, R) /\ t.z \in Decs
    BY <1>4 DEF Gives
  <2>2. Extends(u, v, T) /\ s.z \in Decs
    BY <1>6 DEF Gives
  <2> HIDE DEF R, T, u, v
  <2>3. Extends(b, v, R \cup T) /\ R \cap T = {}
    BY <2>1, <2>2, ExtendsTwice
  <2> QED BY <2>1, <2>2, <2>3 DEF R, T, v
<1> DEFINE k == Release(s.m, t.z)
<1>8. Extends(b, k, Own(s.z))
  <2>1. Extends(b, k, (Own(t.z) \cup Own(s.z)) \ Own(t.z))
    BY <1>7, ReleaseExtends
  <2>2. (Own(t.z) \cup Own(s.z)) \ Own(t.z) = Own(s.z)
    BY <1>7
  <2> QED BY <2>1, <2>2
<1>9. k.faults = {} => s.m.faults = {}
  BY <1>6, <1>7, ReleaseHeap DEF Gives, Extends
<1> HIDE DEF k
<1>10. Extends(m, k, {q} \cup Own(s.z)) /\ {q} \cap Own(s.z) = {}
  BY <1>3, <1>8, ExtendsTwice
<1>11. CASE s.rc = OK
  <2>1. o.m = k /\ o.rc = OK /\ o.z[1] = Dyn(q) /\ o.z[2] = s.z
    BY <1>11, TwoParts DEF k
  <2>2. Dyn(q) \in Decs /\ Own(Dyn(q)) = {q} /\ Dyn(q).intact
    BY <1>1, DynIsDec
  <2>3. k.faults = {} => s.z.intact
    BY <1>6, <1>9, <1>11 DEF Gives, Honest
  <2> QED BY <1>7, <1>10, <2>1, <2>2, <2>3 DEF GivesTwo
<1>12. CASE s.rc # OK
  <2>1. o.m = free(k, q) /\ o.rc # OK /\ o.z[1] = Shint /\ o.z[2] = s.z
    BY <1>12, TwoParts DEF k
  <2>2. Extends(m, free(k, q), ({q} \cup Own(s.z)) \ Ptr(q))
    BY <1>10, FreeExtends
  <2>3. ({q} \cup Own(s.z)) \ Ptr(q) = Own(s.z)
    BY <1>1, <1>10
  <2> QED BY <1>7, <2>1, <2>2, <2>3, ShintIsDec DEF GivesTwo
<1> QED BY <1>11, <1>12

LEMMA DivModDynGives ==
  ASSUME NEW m, NEW x, NEW y, m \in Heaps, Intact(m, y), NEW o \in divmod_abs_dyn_by_dyn(m, x, y)
  PROVE  GivesTwo(m, o) /\ o = Outcome(o.m, o.rc, o.z)
<1> DEFINE Complement(h, q, r) ==
             UNION {{IF s.rc = OK THEN Two(Release(s.m, t.z), OK, Dyn(q), s.z)
                     ELSE Two(free(Release(s.m, t.z), q), s.rc, Shint, s.z) :
                       s \in fpdec_add(t.m, y, t.z)} : t \in Normalized(h, Dyn(r))}
           Short(q) == IF q.p = NULL THEN FailedTwo(q.m) ELSE Two(q.m, OK, Dyn(q.p), Shint)
           Long(d) ==
             IF d.q = NULL THEN {FailedTwo(free(d.m, d.r))}
             ELSE IF d.r = NULL THEN {FailedTwo(free(d.m, d.q))}
             ELSE {Two(d.m, OK, Dyn(d.q), Dyn(d.r))} \cup Complement(d.m, d.q, d.r)
<1>1. \/ \E q \in digits_div_digit(m) : o = Short(q)
      \/ \E d \in digits_divmod(m, TRUE) : o \in Long(d)
  BY DEF divmod_abs_dyn_by_dyn
<1>2. ASSUME NEW q \in digits_div_digit(m), o = Short(q)
      PROVE  GivesTwo(m, o) /\ o = Outcome(o.m, o.rc, o.z)
  <2>1. Allocates(m, q)
    BY DivDigitExtends DEF Allocates
  <2>2. CASE q.p = NULL
    <3>1. o = FailedTwo(q.m) /\ Extends(m, q.m, {})
      BY <1>2, <2>1, <2>2, AllocatesNull
    <3> QED BY <3>1, GivesTwoFailed, TwoIsOutcome DEF FailedTwo
  <2>3. CASE q.p # NULL
    <3> DEFINE c == Outcome(q.m, OK, Dyn(q.p))
    <3>1. Gives(m, c)
      BY <2>1, <2>3, GivesAllocated
    <3>2. o = Two(c.m, c.rc, c.z, Shint)
      BY <1>2, <2>3, OutcomeParts
    <3> HIDE DEF c
    <3> QED BY <3>1, <3>2, GivesFirst, TwoIsOutcome
  <2> QED BY <2>2, <2>3
<1>3. ASSUME NEW d \in digits_divmod(m, TRUE), o \in Long(d)
      PROVE  GivesTwo(m, o) /\ o = Outcome(o.m, o.rc, o.z)
  <2>1. Divided(m, d, TRUE)
    BY <1>3, DivModExtends
  <2>2. CASE d.q = NULL
    <3>1. Extends(m, d.m, {}) /\ d.r = UNSET
      BY <2>1, <2>2, PointersDiffer DEF Divided
    <3>2. Extends(m, free(d.m, d.r), {})
      BY <3>1, FreeUnset
    <3>3. o = FailedTwo(free(d.m, d.r))
      BY <1>3, <2>2
    <3> QED BY <3>2, <3>3, GivesTwoFailed, TwoIsOutcome DEF FailedTwo
  <2>3. CASE d.q # NULL
    <3>1. d.q \in Arrays /\ d.r \in Pointers /\ d.r # d.q
          /\ Extends(m, d.m, {d.q} \cup Ptr(d.r))
      BY <2>1, <2>3 DEF Divided
    <3>2. CASE d.r = NULL
      <4>1. Extends(m, free(d.m, d.q), ({d.q} \cup Ptr(d.r)) \ Ptr(d.q))
        BY <3>1, FreeExtends
      <4>2. ({d.q} \cup Ptr(d.r)) \ Ptr(d.q) = {}
        BY <2>3, <3>2 DEF Ptr
      <4>3. o = FailedTwo(free(d.m, d.q))
        BY <1>3, <2>3, <3>2
      <4> QED BY <4>1, <4>2, <4>3, GivesTwoFailed, TwoIsOutcome DEF FailedTwo
    <3>3. CASE d.r # NULL
      <4>1. /\ d.r \in Arrays /\ d.q \in Pointers /\ Ptr(d.r) = {d.r} /\ Ptr(d.q) = {d.q}
            /\ Extends(m, d.m, {d.q} \cup {d.r})
        BY <2>3, <3>1, <3>3 DEF Pointers, Ptr
      <4>2. CASE o = Two(d.m, OK, Dyn(d.q), Dyn(d.r))
        <5>1. /\ Dyn(d.q) \in Decs /\ Own(Dyn(d.q)) = {d.q} /\ Dyn(d.q).intact
              /\ Dyn(d.r) \in Decs /\ Own(Dyn(d.r)) = {d.r} /\ Dyn(d.r).intact
          BY <2>3, <3>1, <3>3, <4>1, DynIsDec
        <5>2. o.m = d.m /\ o.z[1] = Dyn(d.q) /\ o.z[2] = Dyn(d.r)
          BY <4>2, TwoParts
        <5>3. {d.q} \cap {d.r} = {}
          BY <3>1
        <5>4. GivesTwo(m, o)
          BY <4>1, <5>1, <5>2, <5>3 DEF GivesTwo
        <5> QED BY <4>2, <5>4, TwoIsOutcome
      <4>3. CASE o \in Complement(d.m, d.q, d.r)
        <5>1. PICK t \in Normalized(d.m, Dyn(d.r)) :
                \E s \in fpdec_add(t.m, y, t.z) :
                  o = IF s.rc = OK THEN Two(Release(s.m, t.z), OK, Dyn(d.q), s.z)
                      ELSE Two(free(Release(s.m, t.z), d.q), s.rc, Shint, s.z)
          BY <4>3
        <5>2. PICK s \in fpdec_add(t.m, y, t.z) :
                o = IF s.rc = OK THEN Two(Release(s.m, t.z), OK, Dyn(d.q), s.z)
                    ELSE Two(free(Release(s.m, t.z), d.q), s.rc, Shint, s.z)
          BY <5>1
        <5>3. GivesTwo(m, o)
          BY <3>1, <4>1, <5>2, ComplementGives
        <5> QED BY <5>2, <5>3, TwoIsOutcome
      <4> QED BY <1>3, <2>3, <3>3, <4>2, <4>3
    <3> QED BY <3>2, <3>3
  <2> QED BY <2>2, <2>3
<1> QED BY <1>1, <1>2, <1>3

(* One of two results is normalised, the other kept. *)
NormalizedPart(m, d) == IF d.dyn THEN Normalized(m, d) ELSE {Outcome(m, OK, d)}

LEMMA NormalizedBeside ==
  ASSUME NEW m, NEW n, NEW S, NEW d \in Decs, Extends(m, n, S \cup Own(d)),
         S \cap Own(d) = {}, NEW o \in NormalizedPart(n, d)
  PROVE  /\ Extends(m, o.m, S \cup Own(o.z)) /\ S \cap Own(o.z) = {}
         /\ o.z \in Decs /\ n.faults \subseteq o.m.faults
         /\ d.intact => o.z.intact
<1>1. CASE o = Outcome(n, OK, d)
  <2>1. o.m = n /\ o.z = d
    BY <1>1, OutcomeParts
  <2> QED BY <2>1, Zenon
<1>2. CASE o = Outcome(free(n, d.arr), OK, Shint)
  <2>1. o.m = Release(n, d) /\ o.z = Shint
    BY <1>2, ReleaseIsFree, OutcomeParts
  <2>2. Extends(m, Release(n, d), (S \cup Own(d)) \ Own(d))
    BY ReleaseExtends
  <2>3. (S \cup Own(d)) \ Own(d) = S \cup {}
    OBVIOUS
  <2>4. n.faults \subseteq Release(n, d).faults
    BY ReleaseHeap DEF Extends
  <2> QED BY <2>1, <2>2, <2>3, <2>4, ShintIsDec
<1> QED BY <1>1, <1>2 DEF NormalizedPart, Normalized

LEMMA NormalizedTwoGives ==
  ASSUME NEW m, NEW c, GivesTwo(m, c), NEW o \in NormalizedTwo(c)
  PROVE  GivesTwo(m, o)
<1> DEFINE x == c.z[1]
           y == c.z[2]
<1>1. PICK q \in NormalizedPart(c.m, x) :
        o \in {Two(r.m, c.rc, q.z, r.z) : r \in NormalizedPart(q.m, y)}
  BY DEF NormalizedTwo, NormalizedPart
<1>2. PICK r \in NormalizedPart(q.m, y) : o = Two(r.m, c.rc, q.z, r.z)
  BY <1>1
<1>3. /\ Extends(m, c.m, Own(x) \cup Own(y)) /\ Own(x) \cap Own(y) = {}
      /\ x \in Decs /\ y \in Decs
      /\ c.rc = OK /\ c.m.faults = {} => x.intact /\ y.intact
  BY DEF GivesTwo
<1> HIDE DEF x, y
<1>4. Extends(m, c.m, Own(y) \cup Own(x)) /\ Own(y) \cap Own(x) = {}
  <2>1. Own(y) \cup Own(x) = Own(x) \cup Own(y) /\ Own(y) \cap Own(x) = Own(x) \cap Own(y)
    OBVIOUS
  <2> QED BY <1>3, <2>1
<1>5. /\ Extends(m, q.m, Own(y) \cup Own(q.z)) /\ Own(y) \cap Own(q.z) = {}
      /\ q.z \in Decs /\ c.m.faults \subseteq q.m.faults
      /\ x.intact => q.z.intact
  BY <1>3, <1>4, NormalizedBeside
<1>6. Extends(m, q.m, Own(q.z) \cup Own(y)) /\ Own(q.z) \cap Own(y) = {}
  <2>1. /\ Own(y) \cup Own(q.z) = Own(q.z) \cup Own(y)
        /\ Own(y) \cap Own(q.z) = Own(q.z) \cap Own(y)
    OBVIOUS
  <2> QED BY <1>5, <2>1
<1>7. /\ Extends(m, r.m, Own(q.z) \cup Own(r.z)) /\ Own(q.z) \cap Own(r.z) = {}
      /\ r.z \in Decs /\ q.m.faults \subseteq r.m.faults
      /\ y.intact => r.z.intact
  BY <1>3, <1>6, NormalizedBeside
<1>8. o.m = r.m /\ o.rc = c.rc /\ o.z[1] = q.z /\ o.z[2] = r.z
  BY <1>2, TwoParts
<1>9. o.m.faults = {} => c.m.faults = {}
  BY <1>5, <1>7, <1>8
<1> QED BY <1>3, <1>5, <1>7, <1>8, <1>9 DEF GivesTwo

LEMMA DivModAbsGives ==
  ASSUME NEW m, NEW x, NEW y, Operands(m, x, y), NEW o \in DivModAbs(m, x, y)
  PROVE  GivesTwo(m, o)
<1>1. m \in Heaps /\ x \in Decs /\ y \in Decs
  BY OperandsAreDecs
<1>2. PICK c \in BothAsDyn(m, x, y) :
        o \in IF c.rc # OK THEN {FailedTwo(c.m)} ELSE
              {DropCopies(s, x, y, c) : s \in divmod_abs_dyn_by_dyn(c.m, c.x, c.y)}
  BY DEF DivModAbs
<1>3. AreCopies(m, x, y, c)
  BY <1>1, BothCopied
<1>4. CASE c.rc # OK
  BY <1>2, <1>3, <1>4, CopiesHeap, GivesTwoFailed
<1>5. CASE c.rc = OK
  <2>1. PICK s \in divmod_abs_dyn_by_dyn(c.m, c.x, c.y) : o = DropCopies(s, x, y, c)
    BY <1>2, <1>5
  <2>2. GivesTwo(c.m, s) /\ s = Outcome(s.m, s.rc, s.z)
    BY <1>3, <1>5, CopiesHeap, DivModDynGives DEF AreCopies
  <2> DEFINE n == DropCopy(DropCopy(s.m, y, c.y), x, c.x)
  <2>3. Extends(m, n, Own(s.z[1]) \cup Own(s.z[2]))
    BY <1>3, <1>5, <2>2, CopiesDropped DEF GivesTwo
  <2>4. n.faults = {} => s.m.faults = {}
    <3>1. s.m \in Heaps /\ c.x \in Decs /\ c.y \in Decs
      BY <1>3, <1>5, <2>2 DEF GivesTwo, Extends, AreCopies
    <3>2. /\ DropCopy(s.m, y, c.y) \in Heaps
          /\ s.m.faults \subseteq DropCopy(s.m, y, c.y).faults
      BY <3>1, DropCopyHeap
    <3>3. DropCopy(s.m, y, c.y).faults \subseteq n.faults
      BY <3>1, <3>2, DropCopyHeap
    <3> QED BY <3>2, <3>3
  <2>5. o.m = n /\ o.rc = s.rc /\ o.z = s.z
    <3>1. o = [s EXCEPT !.m = n]
      BY <2>1 DEF DropCopies
    <3>2. o = Outcome(n, s.rc, s.z)
      BY <2>2, <3>1 DEF Outcome
    <3> QED BY <3>2, OutcomeParts
  <2> HIDE DEF n
  <2> QED BY <2>2, <2>3, <2>4, <2>5 DEF GivesTwo
<1> QED BY <1>4, <1>5

LEMMA DivModGives ==
  ASSUME NEW m, NEW x, NEW y, Operands(m, x, y), NEW o \in fpdec_divmod(m, x, y)
  PROVE  GivesTwo(m, o)
<1>1. m \in Heaps /\ Intact(m, x)
  BY DEF Operands
<1>2. \/ \E rc \in {OK, LIMIT} : o = Two(m, rc, Shint, Shint)
      \/ \E c \in fpdec_copy(m, x) \cup fpdec_add(m, x, y) : o = Two(c.m, c.rc, Shint, c.z)
      \/ \E c \in DivModAbs(m, x, y) : o \in NormalizedTwo(c)
  BY DEF fpdec_divmod
<1>3. CASE \E rc \in {OK, LIMIT} : o = Two(m, rc, Shint, Shint)
  BY <1>1, <1>3, ExtendsSelf, GivesTwoShints
<1>4. CASE \E c \in fpdec_copy(m, x) \cup fpdec_add(m, x, y) : o = Two(c.m, c.rc, Shint, c.z)
  BY <1>1, <1>4, CopyGives, AddGives, GivesSecond
<1>5. CASE \E c \in DivModAbs(m, x, y) : o \in NormalizedTwo(c)
  BY <1>5, DivModAbsGives, NormalizedTwoGives
<1> QED BY <1>2, <1>3, <1>4, <1>5

-----------------------------------------------------------------------------
(* Changes in place, and on a copy. *)
LEMMA GivesKeeps ==
  ASSUME NEW m, NEW d, Own(d) = {}, NEW o, Gives(m, o)
  PROVE  Keeps(m, d, o)
<1>1. ASSUME NEW b, Extends(b, m, {})
      PROVE  Extends(b, o.m, Own(o.z))
  <2>1. Extends(b, o.m, {} \cup Own(o.z))
    BY <1>1, ExtendsTwice DEF Gives
  <2>2. {} \cup Own(o.z) = Own(o.z)
    OBVIOUS
  <2> QED BY <2>1, <2>2
<1>2. o.m \in Heaps
  BY DEF Gives, Extends
<1> QED BY <1>1, <1>2 DEF Gives, Keeps

(* A function that leaves d as it was. *)
LEMMA KeptKeeps ==
  ASSUME NEW m, NEW d, Intact(m, d), NEW o, o.z = d, Extends(m, o.m, {})
  PROVE  Keeps(m, d, o)
<1>1. ASSUME NEW b, Extends(b, m, Own(d))
      PROVE  Extends(b, o.m, Own(d))
  <2>1. Extends(b, o.m, Own(d) \cup {})
    BY <1>1, ExtendsTwice
  <2>2. Own(d) \cup {} = Own(d)
    OBVIOUS
  <2> QED BY <2>1, <2>2
<1>2. o.m \in Heaps /\ m.faults \subseteq o.m.faults
  BY DEF Extends
<1> QED BY <1>1, <1>2 DEF Keeps, Honest, Intact

LEMMA NotDyn ==
  ASSUME NEW d \in Decs, ~d.dyn
  PROVE  Own(d) = {}
BY DEF Decs, Own, Ptr

LEMMA Unchanged ==
  ASSUME NEW m \in Heaps, NEW d, Intact(m, d), NEW rc
  PROVE  Keeps(m, d, Outcome(m, rc, d))
BY OutcomeParts DEF Keeps, Honest, Intact

LEMMA AdjustKeeps ==
  ASSUME NEW m \in Heaps, NEW d, Intact(m, d), NEW o \in fpdec_adjust(m, d)
  PROVE  Keeps(m, d, o)
<1>1. CASE \E rc \in {OK, LIMIT} : o = Outcome(m, rc, d)
  BY <1>1, Unchanged
<1>2. CASE d.dyn /\ o \in Normalized(m, d)
  BY <1>2, NormalizedKeeps
<1>3. ASSUME ~d.dyn, NEW c \in fpdec_shint_to_dyn(m, d), o \in {c} \cup NormalizedIfDyn(c)
      PROVE  Keeps(m, d, o)
  <2>1. Own(d) = {} /\ Gives(m, c)
    BY <1>3, NotDyn, ShintToDynGives DEF Intact
  <2>2. Gives(m, o)
    BY <1>3, <2>1, NormalizedIfDynGives
  <2> QED BY <2>1, <2>2, GivesKeeps
<1> QED BY <1>1, <1>2, <1>3 DEF fpdec_adjust

(* The pointer to the array of d is lost, which is a fault if there is one. *)
LEMMA ForgottenExtends ==
  ASSUME NEW m, NEW n, NEW S, NEW T, NEW d \in Decs, Extends(m, n, S),
         T \subseteq S, S \subseteq T \cup Own(d)
  PROVE  Extends(m, Forgotten(n, d), T)
<1>1. CASE d.dyn
  BY <1>1, FaultExtends DEF Forgotten, Tolerated
<1>2. CASE ~d.dyn
  <2>1. S = T
    BY <1>2, NotDyn
  <2> QED BY <1>2, <2>1 DEF Forgotten
<1> QED BY <1>1, <1>2

LEMMA ForgottenHeap ==
  ASSUME NEW n \in Heaps, NEW d
  PROVE  Forgotten(n, d) \in Heaps /\ n.faults \subseteq Forgotten(n, d).faults
BY DEF Forgotten, Fault, Heaps, Faults

LEMMA OperandsAfter ==
  ASSUME NEW m, NEW n, NEW S, NEW d, Intact(m, d), Extends(m, n, S)
  PROVE  Intact(n, d)
BY DEF Intact, Extends

LEMMA QuantizeKeeps ==
  ASSUME NEW m, NEW d, NEW quant, Operands(m, d, quant), NEW o \in fpdec_quantize(m, d, quant)
  PROVE  Keeps(m, d, o)
<1>1. m \in Heaps /\ Intact(m, d) /\ Intact(m, quant) /\ d \in Decs
  BY DEF Operands, Intact
<1>2. PICK t1 \in fpdec_div(m, d, quant) :
        o \in IF t1.rc # OK THEN {Outcome(t1.m, t1.rc, d)} ELSE
              {Outcome(Release(IF t2.rc = OK THEN Release(t2.m, d) ELSE Forgotten(t2.m, d), t1.z),
                       t2.rc, t2.z) : t2 \in fpdec_mul(t1.m, t1.z, quant)}
  BY DEF fpdec_quantize
<1>3. Gives(m, t1)
  BY DivGives
<1>4. Extends(m, t1.m, Own(t1.z)) /\ t1.z \in Decs /\ t1.m \in Heaps
  BY <1>3 DEF Gives, Extends
<1>5. CASE t1.rc # OK
  <2>1. o.m = t1.m /\ o.rc = t1.rc /\ o.z = d
    BY <1>2, <1>5, OutcomeParts
  <2>2. Extends(m, t1.m, {})
    BY <1>3, <1>5 DEF Gives
  <2>3. ASSUME NEW b, Extends(b, m, Own(d))
        PROVE  Extends(b, t1.m, Own(d))
    <3>1. Extends(b, t1.m, Own(d) \cup {})
      BY <2>2, <2>3, ExtendsTwice
    <3>2. Own(d) \cup {} = Own(d)
      OBVIOUS
    <3> QED BY <3>1, <3>2
  <2> QED BY <1>1, <1>4, <1>5, <2>1, <2>3 DEF Keeps, Honest
<1>6. CASE t1.rc = OK
  <2>1. PICK t2 \in fpdec_mul(t1.m, t1.z, quant) :
          o = Outcome(Release(IF t2.rc = OK THEN Release(t2.m, d) ELSE Forgotten(t2.m, d), t1.z),
                      t2.rc, t2.z)
    BY <1>2, <1>6
  <2>2. Operands(t1.m, t1.z, quant)
    BY <1>1, <1>3, <1>4, <1>6, GivenIsIntact, OperandsAfter DEF Operands
  <2>3. Gives(t1.m, t2)
    BY <2>2, MulGives
  <2>4. Extends(t1.m, t2.m, Own(t2.z)) /\ t2.z \in Decs /\ t2.m \in Heaps
    BY <2>3 DEF Gives, Extends
  <2> DEFINE n == IF t2.rc = OK THEN Release(t2.m, d) ELSE Forgotten(t2.m, d)
             k == Release(n, t1.z)
  <2>5. n \in Heaps /\ t2.m.faults \subseteq n.faults
    BY <1>1, <2>4, ReleaseHeap, ForgottenHeap
  <2>6. ASSUME NEW b, Extends(b, m, Own(d))
        PROVE  Extends(b, k, Own(t2.z))
    <3>1. Extends(b, t1.m, Own(d) \cup Own(t1.z)) /\ Own(d) \cap Own(t1.z) = {}
      BY <1>4, <2>6, ExtendsTwice
    <3>2. /\ Extends(b, t2.m, (Own(d) \cup Own(t1.z)) \cup Own(t2.z))
          /\ (Own(d) \cup Own(t1.z)) \cap Own(t2.z) = {}
      <4> HIDE DEF n, k
      <4> DEFINE R == Own(d) \cup Own(t1.z)
                 T == Own(t2.z)
                 u == t1.m
                 v == t2.m
      <4>1. Extends(u, v, T)
        BY <2>4
      <4>2. Extends(b, u, R)
        BY <3>1
      <4> HIDE DEF R, T, u, v
      <4>3. Extends(b, v, R \cup T) /\ R \cap T = {}
        BY <4>1, <4>2, ExtendsTwice
      <4> QED BY <4>3 DEF R, T, v
    <3> DEFINE S == (Own(d) \cup Own(t1.z)) \cup Own(t2.z)
    <3>3. Own(d) \subseteq S /\ S \ Own(d) \subseteq S /\ S \subseteq (S \ Own(d)) \cup Own(d)
      OBVIOUS
    <3>4. Extends(b, n, S \ Own(d))
      <4> HIDE DEF S
      <4>1. Extends(b, t2.m, S)
        BY <3>2 DEF S
      <4>2. CASE t2.rc = OK
        BY <1>1, <3>3, <4>1, <4>2, ReleaseExtends
      <4>3. CASE t2.rc # OK
        BY <1>1, <3>3, <4>1, <4>3, ForgottenExtends
      <4> QED BY <4>2, <4>3
    <3>5. Own(t1.z) \subseteq S \ Own(d) /\ (S \ Own(d)) \ Own(t1.z) = Own(t2.z)
      BY <3>1, <3>2
    <3> HIDE DEF n, S
    <3>6. Extends(b, Release(n, t1.z), (S \ Own(d)) \ Own(t1.z))
      BY <1>4, <3>4, <3>5, ReleaseExtends
    <3> QED BY <3>5, <3>6
  <2>7. o.m = k /\ o.rc = t2.rc /\ o.z = t2.z
    BY <2>1, OutcomeParts
  <2> HIDE DEF n
  <2>8. k \in Heaps /\ n.faults \subseteq k.faults
    BY <1>4, <2>5, ReleaseHeap
  <2> HIDE DEF k
  <2>9. o.rc = OK /\ k.faults = {} => t2.z.intact
    BY <2>3, <2>5, <2>7, <2>8 DEF Gives, Honest
  <2> QED BY <2>4, <2>6, <2>7, <2>8, <2>9 DEF Keeps, Honest
<1> QED BY <1>5, <1>6

LEMMA ResetGives ==
  ASSUME NEW m, NEW c, NEW o, Gives(m, c), Keeps(c.m, c.z, o)
  PROVE  Gives(m, ResetOnError(o))
<1>1. CASE o.rc = OK
  BY <1>1, KeepsGiven DEF ResetOnError
<1>2. CASE o.rc # OK
  <2>1. Extends(m, o.m, Own(o.z)) /\ o.z \in Decs
    BY DEF Gives, Keeps
  <2>2. Extends(m, Release(o.m, o.z), Own(o.z) \ Own(o.z))
    BY <2>1, ReleaseExtends
  <2>3. Own(o.z) \ Own(o.z) = {}
    OBVIOUS
  <2> QED BY <1>2, <2>2, <2>3, GivesShint DEF ResetOnError
<1> QED BY <1>1, <1>2

LEMMA AdjustedGives ==
  ASSUME NEW m \in Heaps, NEW d, Intact(m, d), NEW o \in fpdec_adjusted(m, d)
  PROVE  Gives(m, o)
<1>1. PICK c \in fpdec_copy(m, d) :
        o \in IF c.rc # OK THEN {c} ELSE {ResetOnError(a) : a \in fpdec_adjust(c.m, c.z)}
  BY DEF fpdec_adjusted
<1>2. Gives(m, c)
  BY CopyGives
<1>3. CASE c.rc # OK
  BY <1>1, <1>2, <1>3
<1>4. CASE c.rc = OK
  <2>1. PICK a \in fpdec_adjust(c.m, c.z) : o = ResetOnError(a)
    BY <1>1, <1>4
  <2>2. c.m \in Heaps /\ Intact(c.m, c.z)
    BY <1>2, <1>4, GivenIsIntact
  <2>3. Keeps(c.m, c.z, a)
    BY <2>2, AdjustKeeps
  <2> QED BY <1>2, <2>1, <2>3, ResetGives
<1> QED BY <1>3, <1>4

LEMMA QuantizedGives ==
  ASSUME NEW m, NEW d, NEW quant, Operands(m, d, quant),
         NEW o \in fpdec_quantized(m, d, quant)
  PROVE  Gives(m, o)
<1>1. m \in Heaps /\ Intact(m, d) /\ Intact(m, quant)
  BY DEF Operands
<1>2. PICK c \in fpdec_copy(m, d) :
        o \in IF c.rc # OK THEN {c}
              ELSE {ResetOnError(a) : a \in fpdec_quantize(c.m, c.z, quant)}
  BY DEF fpdec_quantized
<1>3. Gives(m, c)
  BY <1>1, CopyGives
<1>4. CASE c.rc # OK
  BY <1>2, <1>3, <1>4
<1>5. CASE c.rc = OK
  <2>1. PICK a \in fpdec_quantize(c.m, c.z, quant) : o = ResetOnError(a)
    BY <1>2, <1>5
  <2>2. Operands(c.m, c.z, quant)
    BY <1>1, <1>3, <1>5, GivenIsIntact, OperandsAfter DEF Operands, Gives
  <2>3. Keeps(c.m, c.z, a)
    BY <2>2, QuantizeKeeps
  <2> QED BY <1>3, <2>1, <2>3, ResetGives
<1> QED BY <1>4, <1>5

(***************************************************************************)
(* Numbers from literals, and formatted numbers.                           *)
(***************************************************************************)
LEMMA SignDigitsExpGives ==
  ASSUME NEW m \in Heaps, NEW o \in fpdec_from_sign_digits_exp(m)
  PROVE  Gives(m, o)
<1>1. CASE o = Outcome(m, OK, Shint)
  BY <1>1, ExtendsSelf, GivesShint
<1>2. ASSUME NEW a \in alloc(m),
             o = Outcome(a.m, IF a.p = NULL THEN ENOMEM ELSE OK, Dyn(a.p))
      PROVE  Gives(m, o)
  <2>1. Allocates(m, a)
    BY AllocExtends DEF Allocates
  <2> QED BY <1>2, <2>1, GivesIfAllocated
<1> QED BY <1>1, <1>2 DEF fpdec_from_sign_digits_exp

(* An array that is freed when the result is there. *)
LEMMA FreesBuffer ==
  ASSUME NEW m, NEW b, Allocates(m, b), NEW o, o = Outcome(o.m, o.rc, o.z), Gives(b.m, o)
  PROVE  Gives(m, [o EXCEPT !.m = free(o.m, b.p)])
<1> DEFINE n == free(o.m, b.p)
<1>1. Extends(m, o.m, Ptr(b.p) \cup Own(o.z)) /\ Ptr(b.p) \cap Own(o.z) = {}
  BY ExtendsTwice DEF Allocates, Gives
<1>2. b.p \in (Ptr(b.p) \cup Own(o.z)) \cup {NULL}
  BY DEF Ptr
<1>3. Extends(m, n, (Ptr(b.p) \cup Own(o.z)) \ Ptr(b.p))
  BY <1>1, <1>2, FreeExtends
<1>4. (Ptr(b.p) \cup Own(o.z)) \ Ptr(b.p) = Own(o.z)
  BY <1>1
<1>5. o.m.faults \subseteq n.faults
  BY <1>1, FreeHeap DEF Extends
<1> HIDE DEF n
<1>6. [o EXCEPT !.m = n] = Outcome(n, o.rc, o.z)
  BY DEF Outcome
<1> DEFINE c == Outcome(n, o.rc, o.z)
<1>7. c.m = n /\ c.rc = o.rc /\ c.z = o.z
  BY OutcomeParts
<1> HIDE DEF c
<1>8. Extends(m, c.m, Own(c.z))
  BY <1>3, <1>4, <1>7
<1>9. Gives(m, c)
  BY <1>5, <1>7, <1>8 DEF Gives, Honest
<1> QED BY <1>6, <1>9 DEF n, c

LEMMA LiteralGives ==
  ASSUME NEW m \in Heaps, NEW o \in fpdec_from_ascii_literal(m)
  PROVE  Gives(m, o)
<1> DEFINE Parsed(h) ==
             {Outcome(h, LIMIT, Shint), Outcome(h, OK, Shint)} \cup
             (UNION {IF a.p = NULL THEN {Failed(a.m)} ELSE Normalized(a.m, Dyn(a.p)) :
                       a \in alloc(h)})
<1>1. \/ o \in Parsed(m)
      \/ \E b \in alloc(m) :
           o \in IF b.p = NULL THEN {Failed(b.m)}
                 ELSE {[s EXCEPT !.m = free(s.m, b.p)] : s \in Parsed(b.m)}
  BY DEF fpdec_from_ascii_literal
<1>2. ASSUME NEW h \in Heaps, NEW s \in Parsed(h)
      PROVE  Gives(h, s) /\ s = Outcome(s.m, s.rc, s.z)
  <2>1. CASE \E rc \in {OK, LIMIT} : s = Outcome(h, rc, Shint)
    BY <1>2, <2>1, ExtendsSelf, GivesShint, IsOutcome
  <2>2. ASSUME NEW a \in alloc(h),
               s \in IF a.p = NULL THEN {Failed(a.m)} ELSE Normalized(a.m, Dyn(a.p))
        PROVE  Gives(h, s) /\ s = Outcome(s.m, s.rc, s.z)
    <3>1. a.p \in Pointers /\ Extends(h, a.m, Ptr(a.p))
      BY <1>2, AllocExtends
    <3>2. CASE a.p = NULL
      <4>1. s = Failed(a.m) /\ Extends(h, a.m, {})
        BY <2>2, <3>1, <3>2 DEF Ptr
      <4> QED BY <4>1, GivesFailed, IsOutcome DEF Failed
    <3>3. CASE a.p # NULL
      BY <2>2, <3>1, <3>3, NormalizedAllocated
    <3> QED BY <3>2, <3>3
  <2> QED BY <1>2, <2>1, <2>2
<1> HIDE DEF Parsed
<1>3. ASSUME NEW b \in alloc(m),
             o \in IF b.p = NULL THEN {Failed(b.m)}
                   ELSE {[s EXCEPT !.m = free(s.m, b.p)] : s \in Parsed(b.m)}
      PROVE  Gives(m, o)
  <2>1. Allocates(m, b) /\ b.m \in Heaps
    BY AllocExtends DEF Allocates, Extends
  <2>2. CASE b.p = NULL
    BY <1>3, <2>1, <2>2, AllocatesNull, GivesFailed
  <2>3. CASE b.p # NULL
    <3>1. PICK s \in Parsed(b.m) : o = [s EXCEPT !.m = free(s.m, b.p)]
      BY <1>3, <2>3
    <3> QED BY <1>2, <2>1, <3>1, FreesBuffer
  <2> QED BY <2>2, <2>3
<1> QED BY <1>1, <1>2, <1>3

(* A formatted number is as it was, and nothing is left but by a fault. *)
Formats(m, d, o) == o.z = d /\ Extends(m, o.m, {})

LEMMA WidenedGives ==
  ASSUME NEW m, NEW c, Gives(m, c), c.z.dyn, NEW a \in alloc(c.m),
         NEW o, o = IF a.p = NULL
                    THEN Outcome(Fault(free(a.m, c.z.arr), "unset"), ENOMEM, Dyn(NULL))
                    ELSE Outcome(free(a.m, c.z.arr), OK, Dyn(a.p))
  PROVE  Gives(m, o)
<1>1. Extends(m, c.m, Own(c.z)) /\ c.z \in Decs
  BY DEF Gives
<1>2. /\ a.p \in Pointers /\ Extends(m, a.m, Own(c.z) \cup Ptr(a.p))
      /\ Own(c.z) \cap Ptr(a.p) = {}
  BY <1>1, AllocMore
<1> DEFINE n == free(a.m, c.z.arr)
<1>3. Extends(m, n, (Own(c.z) \cup Ptr(a.p)) \ Own(c.z))
  <2>1. Extends(m, Release(a.m, c.z), (Own(c.z) \cup Ptr(a.p)) \ Own(c.z))
    BY <1>1, <1>2, ReleaseExtends
  <2> QED BY <1>1, <2>1, ReleaseIsFree
<1>4. (Own(c.z) \cup Ptr(a.p)) \ Own(c.z) = Ptr(a.p)
  BY <1>2
<1> HIDE DEF n
<1>5. CASE a.p = NULL
  <2>1. o = Outcome(Fault(n, "unset"), ENOMEM, Dyn(NULL))
    BY <1>5 DEF n
  <2>2. NULL \in Pointers /\ Ptr(NULL) = {}
    BY DEF Pointers, Ptr
  <2>3. Extends(m, n, {})
    BY <1>3, <1>4, <1>5, <2>2
  <2>4. Extends(m, Fault(n, "unset"), {})
    BY <2>3, FaultExtends DEF Tolerated
  <2>5. Dyn(NULL) \in Decs /\ Own(Dyn(NULL)) = {}
    BY <2>2, DynIsDec
  <2> QED BY <2>1, <2>4, <2>5, OutcomeParts, Distinct DEF Gives, Honest
<1>6. CASE a.p # NULL
  <2> DEFINE k == [m |-> n, p |-> a.p]
  <2>1. Allocates(m, k) /\ k.p # NULL /\ k.m = n /\ k.p = a.p
    BY <1>2, <1>3, <1>4, <1>6 DEF Allocates
  <2>2. o = Outcome(k.m, OK, Dyn(k.p))
    BY <1>6, <2>1 DEF n
  <2> HIDE DEF k
  <2> QED BY <2>1, <2>2, GivesAllocated
<1> QED BY <1>5, <1>6

LEMMA FormattedKeeps ==
  ASSUME NEW m \in Heaps, NEW d, Intact(m, d), NEW o \in fpdec_formatted(m, d)
  PROVE  Formats(m, d, o)
<1> DEFINE Widened(c) ==
             {IF a.p = NULL
              THEN Outcome(Fault(free(a.m, c.z.arr), "unset"), ENOMEM, Dyn(NULL))
              ELSE Outcome(free(a.m, c.z.arr), OK, Dyn(a.p)) : a \in alloc(c.m)}
           adjusted == fpdec_adjusted(m, d)
           adj ==
             {Outcome(m, OK, Shint)} \cup adjusted \cup fpdec_mul(m, d, Shint) \cup
             (UNION {Widened(c) : c \in {p \in adjusted : p.rc = OK /\ p.z.dyn}})
<1>1. PICK c \in adj :
        o \in IF c.rc # OK THEN {Outcome(c.m, c.rc, d)} ELSE
              UNION {IF buf.p = NULL THEN {Outcome(Forgotten(buf.m, c.z), ENOMEM, d)}
                     ELSE {Outcome(Forgotten(free(buf.m, buf.p), c.z), LIMIT, d),
                           Outcome(free(Release(buf.m, c.z), buf.p), OK, d)} :
                buf \in alloc(c.m)}
  BY DEF fpdec_formatted
<1>2. Gives(m, c)
  <2>1. CASE c = Outcome(m, OK, Shint)
    BY <2>1, ExtendsSelf, GivesShint
  <2>2. CASE c \in adjusted
    BY <2>2, AdjustedGives
  <2>3. CASE c \in fpdec_mul(m, d, Shint)
    <3>1. Operands(m, d, Shint)
      BY ShintIsDec DEF Operands, Intact
    <3> QED BY <2>3, <3>1, MulGives
  <2>4. ASSUME NEW p \in adjusted, p.z.dyn, c \in Widened(p)
        PROVE  Gives(m, c)
    <3>1. Gives(m, p)
      BY <2>4, AdjustedGives
    <3> QED BY <2>4, <3>1, WidenedGives
  <2> QED BY <2>1, <2>2, <2>3, <2>4
<1> HIDE DEF adj
<1>3. Extends(m, c.m, Own(c.z)) /\ c.z \in Decs
  BY <1>2 DEF Gives
<1>4. CASE c.rc # OK
  <2>1. o = Outcome(c.m, c.rc, d)
    BY <1>1, <1>4
  <2>2. Extends(m, c.m, {})
    BY <1>2, <1>4 DEF Gives
  <2> QED BY <2>1, <2>2, OutcomeParts DEF Formats
<1>5. CASE c.rc = OK
  <2>1. PICK buf \in alloc(c.m) :
          o \in IF buf.p = NULL THEN {Outcome(Forgotten(buf.m, c.z), ENOMEM, d)}
                ELSE {Outcome(Forgotten(free(buf.m, buf.p), c.z), LIMIT, d),
                      Outcome(free(Release(buf.m, c.z), buf.p), OK, d)}
    BY <1>1, <1>5
  <2> DEFINE S == Own(c.z) \cup Ptr(buf.p)
  <2>2. Extends(m, buf.m, S) /\ Own(c.z) \cap Ptr(buf.p) = {}
    BY <1>3, AllocMore
  <2>3. CASE buf.p = NULL
    <3>1. o = Outcome(Forgotten(buf.m, c.z), ENOMEM, d)
      BY <2>1, <2>3
    <3>2. S \subseteq {} \cup Own(c.z)
      BY <2>3 DEF Ptr
    <3> HIDE DEF S
    <3>3. Extends(m, Forgotten(buf.m, c.z), {})
      BY <1>3, <2>2, <3>2, ForgottenExtends
    <3> QED BY <3>1, <3>3, OutcomeParts DEF Formats
  <2>4. CASE buf.p # NULL
    <3>1. /\ buf.p \in S /\ S \ Ptr(buf.p) \subseteq {} \cup Own(c.z)
          /\ Own(c.z) \subseteq S /\ buf.p \in S \ Own(c.z) /\ (S \ Own(c.z)) \ Ptr(buf.p) = {}
      BY <2>2, <2>4 DEF Ptr
    <3> HIDE DEF S
    <3>2. CASE o = Outcome(Forgotten(free(buf.m, buf.p), c.z), LIMIT, d)
      <4>1. Extends(m, free(buf.m, buf.p), S \ Ptr(buf.p))
        BY <2>2, <3>1, FreeExtends
      <4>2. Extends(m, Forgotten(free(buf.m, buf.p), c.z), {})
        BY <1>3, <3>1, <4>1, ForgottenExtends
      <4> QED BY <3>2, <4>2, OutcomeParts DEF Formats
    <3>3. CASE o = Outcome(free(Release(buf.m, c.z), buf.p), OK, d)
      <4>1. Extends(m, Release(buf.m, c.z), S \ Own(c.z))
        BY <1>3, <2>2, <3>1, ReleaseExtends
      <4>2. Extends(m, free(Release(buf.m, c.z), buf.p), (S \ Own(c.z)) \ Ptr(buf.p))
        BY <3>1, <4>1, FreeExtends
      <4>3. o.m = free(Release(buf.m, c.z), buf.p) /\ o.z = d
        BY <3>3, OutcomeParts
      <4> QED BY <3>1, <4>2, <4>3 DEF Formats
    <3> QED BY <2>1, <2>4, <3>2, <3>3
  <2> QED BY <2>3, <2>4
<1> QED BY <1>4, <1>5

-----------------------------------------------------------------------------
(***************************************************************************)
(* The heap and the variables of the client: each allocated array is owned *)
(* by one variable, as long as nothing worse than the faults known has     *)
(* happened.                                                               *)
(***************************************************************************)
Owned(m, f) ==
  /\ \A o \in Objects : Own(f[o]) \subseteq m.used
  /\ \A o, p \in Objects : o # p => Own(f[o]) \cap Own(f[p]) = {}
  /\ m.faults \subseteq Tolerated
  /\ m.faults = {} => \A a \in m.used : \E o \in Objects : a \in Own(f[o])

(* The inductive invariant. *)
HeapInv ==
  /\ mem \in Heaps
  /\ dec \in [Objects -> Decs]
  /\ warned \subseteq Objects /\ alive \subseteq Objects /\ shared \in BOOLEAN
  /\ mem.faults = {} => \A o \in Objects : dec[o].intact \/ o \in warned
  /\ ~shared => Owned(mem, dec)

(* What is added becomes the array of a variable that had none. *)
LEMMA OwnedMore ==
  ASSUME NEW m, NEW n, NEW f \in [Objects -> Decs], NEW z \in Objects, NEW e \in Decs,
         Owned(m, f), Own(f[z]) = {}, Extends(m, n, Own(e))
  PROVE  Owned(n, [f EXCEPT ![z] = e])
<1> DEFINE g == [f EXCEPT ![z] = e]
<1>1. g[z] = e /\ \A o \in Objects : o # z => g[o] = f[o]
  OBVIOUS
<1> HIDE DEF g
<1>2. /\ m.used \subseteq n.used /\ Own(e) \subseteq n.used /\ Own(e) \cap m.used = {}
      /\ n.faults \subseteq m.faults \cup Tolerated /\ m.faults \subseteq n.faults
      /\ n.faults = {} => n.used = m.used \cup Own(e)
  BY DEF Extends
<1>3. ASSUME NEW o \in Objects
      PROVE  Own(g[o]) \subseteq n.used
  BY <1>1, <1>2, <1>3 DEF Owned
<1>4. ASSUME NEW o \in Objects, NEW p \in Objects, o # p
      PROVE  Own(g[o]) \cap Own(g[p]) = {}
  <2>1. CASE o = z
    BY <1>1, <1>2, <1>4, <2>1 DEF Owned
  <2>2. CASE o # z /\ p = z
    BY <1>1, <1>2, <1>4, <2>2 DEF Owned
  <2>3. CASE o # z /\ p # z
    BY <1>1, <1>4, <2>3 DEF Owned
  <2> QED BY <2>1, <2>2, <2>3
<1>5. ASSUME n.faults = {}, NEW a \in n.used
      PROVE  \E o \in Objects : a \in Own(g[o])
  <2>1. CASE a \in Own(e)
    BY <1>1, <2>1
  <2>2. CASE a \notin Own(e)
    <3>1. PICK o \in Objects : a \in Own(f[o])
      BY <1>2, <1>5, <2>2 DEF Owned
    <3> QED BY <1>1, <3>1
  <2> QED BY <2>1, <2>2
<1>6. n.faults \subseteq Tolerated
  BY <1>2 DEF Owned
<1>7. Owned(n, g)
  BY <1>3, <1>4, <1>5, <1>6 DEF Owned
<1> QED BY <1>7 DEF g

(* The array of z is taken out of the heap. *)
LEMMA OwnedLess ==
  ASSUME NEW m \in Heaps, NEW f \in [Objects -> Decs], NEW z \in Objects, Owned(m, f),
         NEW b, b = [m EXCEPT !.used = @ \ Own(f[z])]
  PROVE  Owned(b, [f EXCEPT ![z] = Shint]) /\ Extends(b, m, Own(f[z]))
<1> DEFINE g == [f EXCEPT ![z] = Shint]
<1>1. g[z] = Shint /\ \A o \in Objects : o # z => g[o] = f[o]
  OBVIOUS
<1> HIDE DEF g
<1>2. b \in Heaps /\ b.used = m.used \ Own(f[z]) /\ b.faults = m.faults
  BY DEF Heaps
<1>3. Extends(b, m, Own(f[z]))
  <2>1. Own(f[z]) \subseteq m.used
    BY DEF Owned
  <2> QED BY <1>2, <2>1 DEF Extends
<1>4. ASSUME NEW o \in Objects
      PROVE  Own(g[o]) \subseteq b.used
  <2>1. CASE o = z
    BY <1>1, <2>1, ShintIsDec
  <2>2. CASE o # z
    BY <1>1, <1>2, <2>2 DEF Owned
  <2> QED BY <2>1, <2>2
<1>5. ASSUME NEW o \in Objects, NEW p \in Objects, o # p
      PROVE  Own(g[o]) \cap Own(g[p]) = {}
  <2>1. CASE o = z \/ p = z
    BY <1>1, <2>1, ShintIsDec
  <2>2. CASE o # z /\ p # z
    BY <1>1, <1>5, <2>2 DEF Owned
  <2> QED BY <2>1, <2>2
<1>6. ASSUME b.faults = {}, NEW a \in b.used
      PROVE  \E o \in Objects : a \in Own(g[o])
  <2>1. PICK o \in Objects : a \in Own(f[o])
    BY <1>2, <1>6 DEF Owned
  <2>2. o # z
    BY <1>2, <1>6, <2>1
  <2> QED BY <1>1, <2>1, <2>2
<1>7. b.faults \subseteq Tolerated
  BY <1>2 DEF Owned
<1>8. Owned(b, g)
  BY <1>4, <1>5, <1>6, <1>7 DEF Owned
<1> QED BY <1>3, <1>8 DEF g

LEMMA OwnedInPlace ==
  ASSUME NEW m \in Heaps, NEW f \in [Objects -> Decs], NEW z \in Objects, Owned(m, f),
         NEW o, Keeps(m, f[z], o)
  PROVE  Owned(o.m, [f EXCEPT ![z] = o.z])
<1> DEFINE b == [m EXCEPT !.used = @ \ Own(f[z])]
           g == [f EXCEPT ![z] = Shint]
<1>1. Owned(b, g) /\ Extends(b, m, Own(f[z]))
  BY OwnedLess
<1> HIDE DEF b
<1>2. g \in [Objects -> Decs] /\ Own(g[z]) = {}
  BY ShintIsDec
<1>3. [g EXCEPT ![z] = o.z] = [f EXCEPT ![z] = o.z]
  OBVIOUS
<1> HIDE DEF g
<1>4. Extends(b, o.m, Own(o.z)) /\ o.z \in Decs
  BY <1>1 DEF Keeps
<1>5. Owned(o.m, [g EXCEPT ![z] = o.z])
  BY <1>1, <1>2, <1>4, OwnedMore
<1> QED BY <1>3, <1>5

(* A call has changed z; m is the heap it found. *)
LEMMA Written ==
  ASSUME HeapInv, NEW z \in Objects, NEW m \in Heaps, ~shared => m = mem,
         NEW o, Keeps(m, dec[z], o),
         mem' = o.m, dec' = [dec EXCEPT ![z] = o.z], shared' = shared
  PROVE  /\ mem' \in Heaps /\ dec' \in [Objects -> Decs] /\ shared' \in BOOLEAN
         /\ ~shared' => Owned(mem', dec')
<1>1. dec \in [Objects -> Decs] /\ shared \in BOOLEAN /\ (~shared => Owned(mem, dec))
  BY DEF HeapInv
<1>2. o.m \in Heaps /\ o.z \in Decs
  BY DEF Keeps
<1>3. dec' \in [Objects -> Decs]
  BY <1>1, <1>2
<1>4. ASSUME ~shared
      PROVE  Owned(mem', dec')
  BY <1>1, <1>4, OwnedInPlace
<1> QED BY <1>1, <1>2, <1>3, <1>4

LEMMA ReturnsPreserves ==
  ASSUME HeapInv, Running, NEW z \in Objects, Usable(z), NEW m \in Heaps, ~shared => m = mem,
         NEW outcomes, \A o \in outcomes : Keeps(m, dec[z], o),
         Returns(z, outcomes), UNCHANGED << alive, shared >>
  PROVE  HeapInv'
<1>1. PICK o \in outcomes :
        /\ mem' = o.m
        /\ dec' = [dec EXCEPT ![z] = o.z]
        /\ warned' = Reported(o.rc, IF o.z = dec[z] THEN {} ELSE {z})
  BY DEF Returns
<1>2. Keeps(m, dec[z], o)
  OBVIOUS
<1>3. /\ mem' \in Heaps /\ dec' \in [Objects -> Decs] /\ shared' \in BOOLEAN
      /\ ~shared' => Owned(mem', dec')
  BY <1>1, <1>2, Written
<1>4. /\ warned \subseteq Objects /\ alive \subseteq Objects /\ dec \in [Objects -> Decs]
      /\ \A p \in Objects : dec[p].intact \/ p \in warned
  BY DEF HeapInv, Running
<1>5. warned' \subseteq Objects /\ alive' \subseteq Objects
  BY <1>1, <1>4 DEF Reported
<1>6. ASSUME mem'.faults = {}, NEW p \in Objects
      PROVE  dec'[p].intact \/ p \in warned'
  <2>1. CASE p # z
    <3>1. dec'[p] = dec[p] /\ (p \in warned => p \in warned')
      BY <1>1, <1>4, <2>1 DEF Reported
    <3> QED BY <1>4, <3>1
  <2>2. CASE p = z
    <3>1. dec'[p] = o.z
      BY <1>1, <1>4, <2>2
    <3>2. CASE o.rc = OK
      BY <1>1, <1>2, <1>6, <3>1, <3>2 DEF Keeps, Honest
    <3>3. CASE o.rc # OK
      BY <1>1, <1>4, <2>2, <3>1, <3>3 DEF Reported, Usable
    <3> QED BY <3>2, <3>3
  <2> QED BY <2>1, <2>2
<1> QED BY <1>3, <1>5, <1>6 DEF HeapInv

(* Reading operands finds them as they should be. *)
LEMMA ReadingFacts ==
  ASSUME HeapInv, Running, NEW S \in SUBSET Objects, \A x \in S : Usable(x)
  PROVE  /\ Reading(S) \in Heaps
         /\ ~shared => Reading(S) = mem
         /\ \A x \in S : Intact(Reading(S), dec[x])
<1>1. /\ mem \in Heaps /\ dec \in [Objects -> Decs]
      /\ \A x \in S : dec[x].intact
      /\ ~shared => Owned(mem, dec)
  BY DEF HeapInv, Running, Usable
<1>2. Reading(S) \in Heaps
  BY <1>1 DEF Reading, Fault, Heaps, Faults
<1>3. ASSUME ~shared, NEW x \in S
      PROVE  ~Dangling(x)
  <2>1. dec[x] \in Decs /\ dec[x].intact /\ Own(dec[x]) \subseteq mem.used
    BY <1>1, <1>3 DEF Owned
  <2> QED BY <2>1 DEF Dangling, Decs, Own, Ptr
<1>4. ~shared => Reading(S) = mem
  BY <1>3 DEF Reading
<1>5. \A x \in S : Intact(Reading(S), dec[x])
  BY <1>1 DEF Intact
<1> QED BY <1>2, <1>4, <1>5

(* A result is written to a variable without an array. *)
LEMMA FreeFacts ==
  ASSUME HeapInv, NEW z \in Objects, ~dec[z].dyn
  PROVE  Own(dec[z]) = {}
BY NotDyn DEF HeapInv

LEMMA ResultPreserves ==
  ASSUME HeapInv, Running, NEW z \in Objects, Free(z), NEW m \in Heaps, ~shared => m = mem,
         NEW outcomes, \A o \in outcomes : Gives(m, o),
         Returns(z, outcomes), UNCHANGED << alive, shared >>
  PROVE  HeapInv'
<1>1. Usable(z) /\ Own(dec[z]) = {}
  BY FreeFacts DEF Free
<1>2. \A o \in outcomes : Keeps(m, dec[z], o)
  BY <1>1, GivesKeeps
<1> QED BY <1>1, <1>2, ReturnsPreserves

-----------------------------------------------------------------------------
(* The steps of a client of the C functions. *)
LEMMA CreatePreserves ==
  ASSUME HeapInv, Running, NEW z \in Objects, CreateFrom(z), UNCHANGED << alive, shared >>
  PROVE  HeapInv'
<1> DEFINE outcomes == fpdec_from_ascii_literal(mem) \cup fpdec_from_sign_digits_exp(mem)
<1>1. mem \in Heaps
  BY DEF HeapInv
<1>2. \A o \in outcomes : Gives(mem, o)
  BY <1>1, LiteralGives, SignDigitsExpGives
<1>3. Free(z) /\ Returns(z, outcomes)
  BY DEF CreateFrom
<1> HIDE DEF outcomes
<1> QED BY <1>1, <1>2, <1>3, ResultPreserves

LEMMA CopyPreserves ==
  ASSUME HeapInv, Running, NEW z \in Objects, NEW x \in Objects, Copy(z, x) \/ Adjusted(z, x),
         UNCHANGED << alive, shared >>
  PROVE  HeapInv'
<1> DEFINE m == Reading({x})
<1>1. Free(z) /\ Usable(x)
  BY DEF Copy, Adjusted
<1>2. m \in Heaps /\ (~shared => m = mem) /\ Intact(m, dec[x])
  BY <1>1, ReadingFacts
<1> HIDE DEF m
<1>3. CASE Copy(z, x)
  <2>1. Returns(z, fpdec_copy(m, dec[x]))
    BY <1>3 DEF Copy, m
  <2>2. \A o \in fpdec_copy(m, dec[x]) : Gives(m, o)
    BY <1>2, CopyGives
  <2> QED BY <1>1, <1>2, <2>1, <2>2, ResultPreserves
<1>4. CASE Adjusted(z, x)
  <2>1. Returns(z, fpdec_adjusted(m, dec[x]))
    BY <1>4 DEF Adjusted, m
  <2>2. \A o \in fpdec_adjusted(m, dec[x]) : Gives(m, o)
    BY <1>2, AdjustedGives
  <2> QED BY <1>1, <1>2, <2>1, <2>2, ResultPreserves
<1> QED BY <1>3, <1>4

LEMMA OperandsRead ==
  ASSUME HeapInv, Running, NEW x \in Objects, NEW y \in Objects, Usable(x), Usable(y)
  PROVE  /\ Reading({x, y}) \in Heaps
         /\ ~shared => Reading({x, y}) = mem
         /\ Operands(Reading({x, y}), dec[x], dec[y])
<1>1. {x, y} \in SUBSET Objects /\ \A o \in {x, y} : Usable(o)
  OBVIOUS
<1> QED BY <1>1, ReadingFacts DEF Operands

LEMMA CombinePreserves ==
  ASSUME HeapInv, Running, NEW z \in Objects, NEW x \in Objects, NEW y \in Objects,
         Add(z, x, y) \/ Mul(z, x, y) \/ Div(z, x, y) \/ Quantized(z, x, y),
         UNCHANGED << alive, shared >>
  PROVE  HeapInv'
<1> DEFINE m == Reading({x, y})
<1>1. Free(z) /\ Usable(x) /\ Usable(y)
  BY DEF Add, Mul, Div, Quantized
<1>2. m \in Heaps /\ (~shared => m = mem) /\ Operands(m, dec[x], dec[y])
  BY <1>1, OperandsRead
<1> HIDE DEF m
<1>3. CASE Add(z, x, y)
  <2>1. Returns(z, fpdec_add(m, dec[x], dec[y]))
    BY <1>3 DEF Add, m
  <2>2. \A o \in fpdec_add(m, dec[x], dec[y]) : Gives(m, o)
    BY <1>2, AddGives
  <2> QED BY <1>1, <1>2, <2>1, <2>2, ResultPreserves
<1>4. CASE Mul(z, x, y)
  <2>1. Returns(z, fpdec_mul(m, dec[x], dec[y]))
    BY <1>4 DEF Mul, m
  <2>2. \A o \in fpdec_mul(m, dec[x], dec[y]) : Gives(m, o)
    BY <1>2, MulGives
  <2> QED BY <1>1, <1>2, <2>1, <2>2, ResultPreserves
<1>5. CASE Div(z, x, y)
  <2>1. Returns(z, fpdec_div(m, dec[x], dec[y]))
    BY <1>5 DEF Div, m
  <2>2. \A o \in fpdec_div(m, dec[x], dec[y]) : Gives(m, o)
    BY <1>2, DivGives
  <2> QED BY <1>1, <1>2, <2>1, <2>2, ResultPreserves
<1>6. CASE Quantized(z, x, y)
  <2>1. Returns(z, fpdec_quantized(m, dec[x], dec[y]))
    BY <1>6 DEF Quantized, m
  <2>2. \A o \in fpdec_quantized(m, dec[x], dec[y]) : Gives(m, o)
    BY <1>2, QuantizedGives
  <2> QED BY <1>1, <1>2, <2>1, <2>2, ResultPreserves
<1> QED BY <1>3, <1>4, <1>5, <1>6

(* Two results: first the one, then the other. *)
LEMMA ExtendsSplit ==
  ASSUME NEW m, NEW n, NEW S, NEW T, Extends(m, n, S \cup T), S \cap T = {}
  PROVE  \E c : Extends(m, c, S) /\ Extends(c, n, T)
<1> DEFINE c == [n EXCEPT !.used = @ \ T]
<1>1. /\ m \in Heaps /\ n \in Heaps /\ m.used \subseteq n.used
      /\ S \subseteq n.used \ m.used /\ T \subseteq n.used \ m.used
      /\ m.faults \subseteq n.faults /\ n.faults \subseteq m.faults \cup Tolerated
      /\ n.faults = {} => n.used = m.used \cup (S \cup T)
  BY DEF Extends
<1>2. c \in Heaps /\ c.used = n.used \ T /\ c.faults = n.faults
  BY <1>1 DEF Heaps
<1> HIDE DEF c
<1>3. Extends(m, c, S) /\ Extends(c, n, T)
  BY <1>1, <1>2 DEF Extends
<1> QED BY <1>3

LEMMA DivModPreserves ==
  ASSUME HeapInv, Running, NEW q \in Objects, NEW r \in Objects, NEW x \in Objects,
         NEW y \in Objects, DivMod(q, r, x, y), UNCHANGED << alive, shared >>
  PROVE  HeapInv'
<1> DEFINE m == Reading({x, y})
<1>1. /\ q # r /\ Usable(x) /\ Usable(y)
      /\ ~dec[q].dyn /\ ~dec[r].dyn
  BY DEF DivMod, Free
<1>2. m \in Heaps /\ (~shared => m = mem) /\ Operands(m, dec[x], dec[y])
  BY <1>1, OperandsRead
<1> HIDE DEF m
<1>3. PICK o \in fpdec_divmod(m, dec[x], dec[y]) :
        /\ mem' = o.m
        /\ dec' = [dec EXCEPT ![q] = o.z[1], ![r] = o.z[2]]
        /\ warned' = Reported(o.rc, {q, r})
  BY DEF DivMod, m
<1> DEFINE zq == o.z[1]
           zr == o.z[2]
<1>4. /\ Extends(m, o.m, Own(zq) \cup Own(zr)) /\ Own(zq) \cap Own(zr) = {}
      /\ zq \in Decs /\ zr \in Decs
      /\ o.rc = OK /\ o.m.faults = {} => zq.intact /\ zr.intact
  BY <1>2, DivModGives DEF GivesTwo
<1> HIDE DEF zq, zr
<1>5. /\ dec \in [Objects -> Decs] /\ shared \in BOOLEAN /\ (~shared => Owned(mem, dec))
      /\ warned \subseteq Objects /\ alive \subseteq Objects
      /\ \A p \in Objects : dec[p].intact \/ p \in warned
  BY DEF HeapInv, Running
<1>6. mem' \in Heaps
  BY <1>3, <1>4 DEF Extends
<1> DEFINE f == [dec EXCEPT ![q] = zq]
<1>7. f \in [Objects -> Decs] /\ f[r] = dec[r] /\ dec' = [f EXCEPT ![r] = zr]
  BY <1>1, <1>3, <1>4, <1>5 DEF zq, zr
<1>8. dec' \in [Objects -> Decs]
  BY <1>4, <1>7
<1>9. /\ dec'[q] = zq /\ dec'[r] = zr
      /\ \A p \in Objects \ {q, r} : dec'[p] = dec[p]
  BY <1>1, <1>5, <1>7
<1>10. ASSUME ~shared
       PROVE  Owned(mem', dec')
  <2>1. PICK c : Extends(m, c, Own(zq)) /\ Extends(c, o.m, Own(zr))
    <3> DEFINE Q == Own(zq)
               R == Own(zr)
               n == o.m
    <3>1. Extends(m, n, Q \cup R) /\ Q \cap R = {}
      BY <1>4
    <3> HIDE DEF Q, R, n
    <3>2. \E c : Extends(m, c, Q) /\ Extends(c, n, R)
      BY <3>1, ExtendsSplit, Zenon
    <3> QED BY <3>2 DEF Q, R, n
  <2>2. Own(dec[q]) = {} /\ Own(f[r]) = {}
    BY <1>1, <1>7, FreeFacts
  <2>3. Owned(m, dec)
    BY <1>2, <1>5, <1>10
  <2>4. Owned(c, f)
    BY <1>4, <1>5, <2>1, <2>2, <2>3, OwnedMore
  <2> HIDE DEF f
  <2>5. Owned(o.m, [f EXCEPT ![r] = zr])
    BY <1>4, <1>7, <2>1, <2>2, <2>4, OwnedMore
  <2> QED BY <1>3, <1>7, <2>5
<1>11. ASSUME mem'.faults = {}, NEW p \in Objects
       PROVE  dec'[p].intact \/ p \in warned'
  <2>1. CASE p \in {q, r} /\ o.rc = OK
    BY <1>3, <1>4, <1>9, <1>11, <2>1
  <2>2. CASE p \in {q, r} /\ o.rc # OK
    BY <1>3, <2>2 DEF Reported
  <2>3. CASE p \notin {q, r}
    BY <1>3, <1>5, <1>9, <2>3 DEF Reported
  <2> QED BY <2>1, <2>2, <2>3
<1>12. warned' \subseteq Objects
  BY <1>3, <1>5 DEF Reported
<1> QED BY <1>5, <1>6, <1>8, <1>10, <1>11, <1>12 DEF HeapInv

LEMMA InPlacePreserves ==
  ASSUME HeapInv, Running, NEW x \in Objects, Adjust(x) \/ Format(x),
         UNCHANGED << alive, shared >>
  PROVE  HeapInv'
<1> DEFINE m == Reading({x})
<1>1. Usable(x)
  BY DEF Adjust, Format
<1>2. m \in Heaps /\ (~shared => m = mem) /\ Intact(m, dec[x])
  BY <1>1, ReadingFacts
<1> HIDE DEF m
<1>3. CASE Adjust(x)
  <2>1. Returns(x, fpdec_adjust(m, dec[x]))
    BY <1>3 DEF Adjust, m
  <2>2. \A o \in fpdec_adjust(m, dec[x]) : Keeps(m, dec[x], o)
    BY <1>2, AdjustKeeps
  <2> QED BY <1>1, <1>2, <2>1, <2>2, ReturnsPreserves
<1>4. CASE Format(x)
  <2>1. Returns(x, fpdec_formatted(m, dec[x]))
    BY <1>4 DEF Format, m
  <2>2. ASSUME NEW o \in fpdec_formatted(m, dec[x])
        PROVE  Keeps(m, dec[x], o)
    <3>1. o.z = dec[x] /\ Extends(m, o.m, {})
      BY <1>2, FormattedKeeps DEF Formats
    <3> QED BY <1>2, <3>1, KeptKeeps
  <2> QED BY <1>1, <1>2, <2>1, <2>2, ReturnsPreserves
<1> QED BY <1>3, <1>4

LEMMA QuantizePreserves ==
  ASSUME HeapInv, Running, NEW x \in Objects, NEW quant \in Objects, Quantize(x, quant),
         UNCHANGED << alive, shared >>
  PROVE  HeapInv'
<1> DEFINE m == Reading({x, quant})
<1>1. Usable(x) /\ Usable(quant)
  BY DEF Quantize
<1>2. m \in Heaps /\ (~shared => m = mem) /\ Operands(m, dec[x], dec[quant])
  BY <1>1, OperandsRead
<1> HIDE DEF m
<1>3. Returns(x, fpdec_quantize(m, dec[x], dec[quant]))
  BY DEF Quantize, m
<1>4. \A o \in fpdec_quantize(m, dec[x], dec[quant]) : Keeps(m, dec[x], o)
  BY <1>2, QuantizeKeeps
<1> QED BY <1>1, <1>2, <1>3, <1>4, ReturnsPreserves

(* Reset and Destroy. *)
LEMMA ReleasePreserves ==
  ASSUME HeapInv, Running, NEW x \in Objects,
         mem' = Release(mem, dec[x]), dec' = [dec EXCEPT ![x] = Shint],
         warned' = warned \ {x}, alive' \subseteq Objects, shared' = shared
  PROVE  HeapInv'
<1> DEFINE o == Outcome(Release(mem, dec[x]), OK, Shint)
<1>1. /\ mem \in Heaps /\ dec[x] \in Decs /\ dec \in [Objects -> Decs] /\ warned \subseteq Objects
      /\ \A p \in Objects : dec[p].intact \/ p \in warned
  BY DEF HeapInv, Running
<1>2. Keeps(mem, dec[x], o)
  BY <1>1, ReleaseKeeps
<1>3. o.m = mem' /\ o.z = Shint
  BY OutcomeParts
<1> HIDE DEF o
<1>4. /\ mem' \in Heaps /\ dec' \in [Objects -> Decs] /\ shared' \in BOOLEAN
      /\ ~shared' => Owned(mem', dec')
  BY <1>1, <1>2, <1>3, Written
<1>5. \A p \in Objects : dec'[p].intact \/ p \in warned'
  <2>1. ASSUME NEW p \in Objects PROVE dec'[p].intact \/ p \in warned'
    <3>1. CASE p = x
      BY <1>1, <3>1, ShintIsDec
    <3>2. CASE p # x
      BY <1>1, <3>2
    <3> QED BY <3>1, <3>2
  <2> QED BY <2>1
<1> QED BY <1>1, <1>4, <1>5 DEF HeapInv

LEMMA CallsPreserve ==
  ASSUME HeapInv, NEW S \in SUBSET Objects, Calls(S), UNCHANGED << alive, shared >>
  PROVE  HeapInv'
<1>1. Running
  BY DEF Calls
<1>2. PICK z \in S :
        \/ CreateFrom(z) \/ Adjust(z) \/ Format(z) \/ Reset(z)
        \/ \E x \in S :
             \/ Copy(z, x) \/ Adjusted(z, x) \/ Quantize(z, x)
             \/ \E y \in S :
                  \/ Add(z, x, y) \/ Mul(z, x, y) \/ Div(z, x, y) \/ Quantized(z, x, y)
                  \/ \E r \in S : DivMod(z, r, x, y)
  BY DEF Calls
<1>3. z \in Objects /\ alive' \subseteq Objects
  BY DEF HeapInv
<1>4. CASE CreateFrom(z)
  BY <1>1, <1>3, <1>4, CreatePreserves
<1>5. CASE Adjust(z) \/ Format(z)
  BY <1>1, <1>3, <1>5, InPlacePreserves
<1>6. CASE Reset(z)
  BY <1>1, <1>3, <1>6, ReleasePreserves DEF Reset
<1>7. ASSUME NEW x \in S, Copy(z, x) \/ Adjusted(z, x)
      PROVE  HeapInv'
  BY <1>1, <1>3, <1>7, CopyPreserves
<1>8. ASSUME NEW x \in S, Quantize(z, x)
      PROVE  HeapInv'
  BY <1>1, <1>3, <1>8, QuantizePreserves
<1>9. ASSUME NEW x \in S, NEW y \in S,
             Add(z, x, y) \/ Mul(z, x, y) \/ Div(z, x, y) \/ Quantized(z, x, y)
      PROVE  HeapInv'
  BY <1>1, <1>3, <1>9, CombinePreserves
<1>10. ASSUME NEW x \in S, NEW y \in S, NEW r \in S, DivMod(z, r, x, y)
       PROVE  HeapInv'
  BY <1>1, <1>3, <1>10, DivModPreserves
<1> QED BY <1>2, <1>4, <1>5, <1>6, <1>7, <1>8, <1>9, <1>10


-----------------------------------------------------------------------------
(* The steps of the class. A constructor that throws has left nothing. *)
LEMMA ConstructsPreserves ==
  ASSUME HeapInv, Running, NEW o \in Objects, Vacant(o), NEW m \in Heaps, ~shared => m = mem,
         NEW outcomes, \A c \in outcomes : Gives(m, c), Constructs(o, outcomes)
  PROVE  HeapInv'
<1>1. PICK c \in outcomes :
        /\ mem' = c.m
        /\ IF c.rc = OK
           THEN alive' = alive \cup {o} /\ dec' = [dec EXCEPT ![o] = c.z]
           ELSE UNCHANGED << alive, dec >>
        /\ UNCHANGED << warned, shared >>
  BY DEF Constructs
<1>2. /\ dec \in [Objects -> Decs] /\ warned \subseteq Objects /\ alive \subseteq Objects
      /\ \A p \in Objects : dec[p].intact \/ p \in warned
  BY DEF HeapInv, Running
<1>3. dec[o] = Shint /\ Own(dec[o]) = {}
  BY ShintIsDec DEF Vacant
<1> DEFINE e == IF c.rc = OK THEN c ELSE Outcome(c.m, c.rc, Shint)
<1>4. Gives(m, e)
  <2>1. CASE c.rc = OK
    BY <2>1
  <2>2. CASE c.rc # OK
    <3>1. Extends(m, c.m, {})
      BY <2>2 DEF Gives
    <3> QED BY <2>2, <3>1, GivesShint
  <2> QED BY <2>1, <2>2
<1>5. e.m = c.m /\ (c.rc = OK => e = c) /\ (c.rc # OK => e.z = Shint)
  BY OutcomeParts
<1> HIDE DEF e
<1>6. mem' = e.m /\ dec' = [dec EXCEPT ![o] = e.z]
  BY <1>1, <1>2, <1>3, <1>5
<1>7. Keeps(m, dec[o], e)
  BY <1>3, <1>4, GivesKeeps
<1>8. /\ mem' \in Heaps /\ dec' \in [Objects -> Decs] /\ shared' \in BOOLEAN
      /\ ~shared' => Owned(mem', dec')
  BY <1>1, <1>6, <1>7, Written
<1>9. ASSUME mem'.faults = {}, NEW p \in Objects
      PROVE  dec'[p].intact \/ p \in warned'
  <2>1. CASE p # o \/ c.rc # OK
    BY <1>1, <1>2, <2>1
  <2>2. CASE p = o /\ c.rc = OK
    <3>1. c.z.intact
      BY <1>1, <1>9, <2>2 DEF Gives, Honest
    <3> QED BY <1>1, <1>2, <2>2, <3>1
  <2> QED BY <2>1, <2>2
<1>10. warned' \subseteq Objects /\ alive' \subseteq Objects
  BY <1>1, <1>2
<1> QED BY <1>8, <1>9, <1>10 DEF HeapInv

(* An operator that throws has destroyed its local result. *)
LEMMA YieldsPreserves ==
  ASSUME HeapInv, Running, NEW o \in Objects, Vacant(o), NEW m \in Heaps, ~shared => m = mem,
         NEW outcomes, \A c \in outcomes : Gives(m, c), Yields(o, outcomes)
  PROVE  HeapInv'
<1> DEFINE Left(c) == IF c.rc = OK THEN c ELSE Outcome(Release(c.m, c.z), c.rc, Shint)
           results == {Left(c) : c \in outcomes}
<1>1. Constructs(o, results)
  BY DEF Yields
<1>2. ASSUME NEW c \in outcomes
      PROVE  Gives(m, Left(c))
  <2>1. Gives(m, c)
    OBVIOUS
  <2>2. CASE c.rc # OK
    BY <2>1, <2>2, ReleasesGiven, GivesShint
  <2> QED BY <2>1, <2>2
<1>3. \A c \in results : Gives(m, c)
  BY <1>2
<1> HIDE DEF results
<1> QED BY <1>1, <1>3, ConstructsPreserves

LEMMA DefaultPreserves ==
  ASSUME HeapInv, NEW o \in Objects, ConstructDefault(o)
  PROVE  HeapInv'
BY DEF HeapInv, ConstructDefault

LEMMA ConstructPreserves ==
  ASSUME HeapInv, Running, NEW o \in Objects, NEW x \in Objects,
         \/ ConstructCopy(o, x) \/ ConstructAdjusted(o, x)
         \/ Negate(o, x) \/ ConstructFromString(o)
  PROVE  HeapInv'
<1>1. CASE ConstructFromString(o)
  <2>1. mem \in Heaps /\ Vacant(o) /\ Constructs(o, fpdec_from_ascii_literal(mem))
    BY <1>1 DEF HeapInv, ConstructFromString
  <2>2. \A c \in fpdec_from_ascii_literal(mem) : Gives(mem, c)
    BY <2>1, LiteralGives
  <2> QED BY <2>1, <2>2, ConstructsPreserves
<1> DEFINE m == Reading({x})
<1>2. ASSUME Usable(x)
      PROVE  m \in Heaps /\ (~shared => m = mem) /\ Intact(m, dec[x])
  BY <1>2, ReadingFacts
<1> HIDE DEF m
<1>3. CASE ConstructCopy(o, x)
  <2>1. Vacant(o) /\ Usable(x) /\ Constructs(o, fpdec_copy(m, dec[x]))
    BY <1>3 DEF ConstructCopy, IsDecimal, m
  <2>2. \A c \in fpdec_copy(m, dec[x]) : Gives(m, c)
    BY <1>2, <2>1, CopyGives
  <2> QED BY <1>2, <2>1, <2>2, ConstructsPreserves
<1>4. CASE ConstructAdjusted(o, x)
  <2>1. Vacant(o) /\ Usable(x) /\ Constructs(o, fpdec_adjusted(m, dec[x]))
    BY <1>4 DEF ConstructAdjusted, IsDecimal, m
  <2>2. \A c \in fpdec_adjusted(m, dec[x]) : Gives(m, c)
    BY <1>2, <2>1, AdjustedGives
  <2> QED BY <1>2, <2>1, <2>2, ConstructsPreserves
<1>5. CASE Negate(o, x)
  <2>1. Vacant(o) /\ Usable(x) /\ Yields(o, fpdec_copy(m, dec[x]))
    BY <1>5 DEF Negate, IsDecimal, m
  <2>2. \A c \in fpdec_copy(m, dec[x]) : Gives(m, c)
    BY <1>2, <2>1, CopyGives
  <2> QED BY <1>2, <2>1, <2>2, YieldsPreserves
<1> QED BY <1>1, <1>3, <1>4, <1>5

LEMMA OperatorPreserves ==
  ASSUME HeapInv, Running, NEW o \in Objects, NEW x \in Objects, NEW y \in Objects,
         Combine(o, x, y)
  PROVE  HeapInv'
<1> DEFINE m == Reading({x, y})
           sums == fpdec_add(m, dec[x], dec[y])
           products == fpdec_mul(m, dec[x], dec[y])
           quotients == fpdec_div(m, dec[x], dec[y])
           results == sums \cup products \cup quotients
<1>1. Vacant(o) /\ Usable(x) /\ Usable(y) /\ Yields(o, results)
  BY DEF Combine, IsDecimal
<1>2. m \in Heaps /\ (~shared => m = mem) /\ Operands(m, dec[x], dec[y])
  BY <1>1, OperandsRead
<1> HIDE DEF m
<1>3. \A c \in sums : Gives(m, c)
  BY <1>2, AddGives
<1>4. \A c \in products : Gives(m, c)
  BY <1>2, MulGives
<1>5. \A c \in quotients : Gives(m, c)
  BY <1>2, DivGives
<1> HIDE DEF sums, products, quotients
<1>6. \A c \in results : Gives(m, c)
  BY <1>3, <1>4, <1>5
<1> HIDE DEF results
<1> QED BY <1>1, <1>2, <1>6, YieldsPreserves

LEMMA DestroyPreserves ==
  ASSUME HeapInv, Running, NEW o \in Objects, Destroy(o)
  PROVE  HeapInv'
<1>1. alive' \subseteq Objects
  BY DEF HeapInv, Destroy
<1> QED BY <1>1, ReleasePreserves DEF Destroy

(* Reading does no harm to what is owned. *)
LEMMA InspectPreserves ==
  ASSUME HeapInv, Running, NEW x \in Objects, NEW y \in Objects, Inspect(x, y)
  PROVE  HeapInv'
<1>1. Usable(x) /\ Usable(y) /\ mem' = Reading({x, y})
      /\ UNCHANGED << dec, warned, alive, shared >>
  BY DEF Inspect, IsDecimal
<1>2. mem' \in Heaps /\ (~shared => mem' = mem)
  BY <1>1, OperandsRead
<1>3. \A p \in Objects : dec'[p].intact \/ p \in warned'
  BY <1>1 DEF HeapInv, Running
<1> QED BY <1>1, <1>2, <1>3 DEF HeapInv

(* The array goes from src to o. *)
LEMMA MovePreserves ==
  ASSUME HeapInv, Running, NEW o \in Objects, NEW src \in Objects, ConstructMoved(o, src)
  PROVE  HeapInv'
<1>1. /\ o # src /\ dec[o] = Shint /\ warned' = warned \cup {src} /\ alive' = alive \cup {o}
      /\ mem' = mem /\ shared' = shared
      /\ dec' = [dec EXCEPT ![o] = dec[src], ![src] = Stolen(dec[src])]
  BY DEF ConstructMoved, Vacant, IsDecimal
<1>2. /\ mem \in Heaps /\ dec \in [Objects -> Decs] /\ shared \in BOOLEAN
      /\ warned \subseteq Objects /\ alive \subseteq Objects
      /\ \A p \in Objects : dec[p].intact \/ p \in warned
      /\ ~shared => Owned(mem, dec)
  BY DEF HeapInv, Running
<1>3. Stolen(dec[src]) \in Decs /\ Own(Stolen(dec[src])) = {} /\ Own(dec[o]) = {}
  <2>1. MovedFrom \in Decs /\ Own(MovedFrom) = {}
    BY DEF MovedFrom, Decs, Own, Ptr, Pointers
  <2>2. dec[src] \in Decs
    BY <1>2
  <2> QED BY <1>1, <2>1, <2>2, NotDyn, ShintIsDec DEF Stolen
<1>4. Own(dec[src]) = {} \/ dec[src].dyn
  BY <1>2, NotDyn
<1>5. /\ dec' \in [Objects -> Decs]
      /\ dec'[o] = dec[src] /\ dec'[src] = Stolen(dec[src])
      /\ \A p \in Objects \ {o, src} : dec'[p] = dec[p]
  BY <1>1, <1>2, <1>3
<1>6. \A p \in Objects : dec'[p].intact \/ p \in warned'
  <2>1. ASSUME NEW p \in Objects PROVE dec'[p].intact \/ p \in warned'
    <3>1. CASE p = o
      <4>1. src \notin warned
        BY DEF ConstructMoved, IsDecimal, Usable
      <4> QED BY <1>2, <1>5, <3>1, <4>1
    <3>2. CASE p = src
      BY <1>1, <3>2
    <3>3. CASE p \notin {o, src}
      BY <1>1, <1>2, <1>5, <3>3
    <3> QED BY <3>1, <3>2, <3>3
  <2> QED BY <2>1
<1>7. ASSUME ~shared
      PROVE  Owned(mem, dec')
  <2>1. Owned(mem, dec)
    BY <1>2, <1>7
  <2>2. /\ Own(dec'[o]) = Own(dec[src]) /\ Own(dec'[src]) = {}
        /\ \A p \in Objects \ {o, src} : Own(dec'[p]) = Own(dec[p])
    BY <1>3, <1>5
  <2>3. \A p \in Objects : Own(dec'[p]) \subseteq mem.used
    BY <2>1, <2>2 DEF Owned
  <2>4. ASSUME NEW p \in Objects, NEW r \in Objects, p # r
        PROVE  Own(dec'[p]) \cap Own(dec'[r]) = {}
    <3>1. CASE p = src \/ r = src
      BY <2>2, <3>1
    <3>2. CASE p # src /\ r # src
      BY <2>1, <2>2, <2>4, <3>2 DEF Owned
    <3> QED BY <3>1, <3>2
  <2>5. ASSUME mem.faults = {}, NEW a \in mem.used
        PROVE  \E p \in Objects : a \in Own(dec'[p])
    <3>1. PICK p \in Objects : a \in Own(dec[p])
      BY <2>1, <2>5 DEF Owned
    <3>2. CASE p = src
      BY <2>2, <3>1, <3>2
    <3>3. CASE p # src
      BY <1>3, <2>2, <3>1, <3>3
    <3> QED BY <3>2, <3>3
  <2> QED BY <2>1, <2>3, <2>4, <2>5 DEF Owned
<1>8. warned' \subseteq Objects /\ alive' \subseteq Objects
  BY <1>1, <1>2
<1> QED BY <1>1, <1>2, <1>5, <1>6, <1>7, <1>8 DEF HeapInv

(* Without a digit array there is nothing that could have two owners. *)
LEMMA AssignPreserves ==
  ASSUME HeapInv, Running, NEW o \in Objects, NEW src \in Objects, Assign(o, src)
  PROVE  HeapInv'
<1>1. /\ dec' = [dec EXCEPT ![o] = dec[src]] /\ warned' = warned \ {o}
      /\ shared' = (shared \/ dec[o].dyn \/ dec[src].dyn)
      /\ mem' = mem /\ alive' = alive /\ src \notin warned
  BY DEF Assign, IsDecimal, Usable
<1>2. /\ mem \in Heaps /\ dec \in [Objects -> Decs] /\ shared \in BOOLEAN
      /\ warned \subseteq Objects /\ alive \subseteq Objects
      /\ \A p \in Objects : dec[p].intact \/ p \in warned
      /\ ~shared => Owned(mem, dec)
  BY DEF HeapInv, Running
<1>3. /\ dec' \in [Objects -> Decs] /\ dec'[o] = dec[src]
      /\ \A p \in Objects \ {o} : dec'[p] = dec[p]
  BY <1>1, <1>2
<1>4. \A p \in Objects : dec'[p].intact \/ p \in warned'
  <2>1. ASSUME NEW p \in Objects PROVE dec'[p].intact \/ p \in warned'
    <3>1. CASE p = o
      BY <1>1, <1>2, <1>3, <3>1
    <3>2. CASE p # o
      BY <1>1, <1>2, <1>3, <3>2
    <3> QED BY <3>1, <3>2
  <2> QED BY <2>1
<1>5. shared' \in BOOLEAN
  <2>1. dec[o].dyn \in BOOLEAN /\ dec[src].dyn \in BOOLEAN
    BY <1>2 DEF Decs
  <2> QED BY <1>1, <1>2, <2>1
<1>6. ASSUME ~shared'
      PROVE  Owned(mem, dec')
  <2>1. ~shared /\ ~dec[o].dyn /\ ~dec[src].dyn
    BY <1>1, <1>6
  <2>2. Own(dec[o]) = {} /\ Own(dec[src]) = {}
    BY <1>2, <2>1, NotDyn
  <2>3. \A p \in Objects : Own(dec'[p]) = Own(dec[p])
    BY <1>3, <2>2
  <2> QED BY <1>2, <2>1, <2>3 DEF Owned
<1> QED BY <1>1, <1>2, <1>3, <1>4, <1>5, <1>6 DEF HeapInv

-----------------------------------------------------------------------------
LEMMA MethodsPreserve ==
  ASSUME HeapInv, Methods
  PROVE  HeapInv'
<1>1. Running
  BY DEF Methods
<1>2. PICK o \in Objects :
        \/ ConstructDefault(o) \/ ConstructFromString(o) \/ Destroy(o)
        \/ \E x \in Objects :
             \/ ConstructCopy(o, x) \/ ConstructAdjusted(o, x) \/ ConstructMoved(o, x)
             \/ Assign(o, x) \/ Negate(o, x) \/ Inspect(o, x)
             \/ \E y \in Objects : Combine(o, x, y)
  BY DEF Methods
<1>3. CASE ConstructDefault(o)
  BY <1>3, DefaultPreserves
<1>4. CASE ConstructFromString(o)
  BY <1>1, <1>4, ConstructPreserves
<1>5. CASE Destroy(o)
  BY <1>1, <1>5, DestroyPreserves
<1>6. ASSUME NEW x \in Objects, ConstructCopy(o, x) \/ ConstructAdjusted(o, x) \/ Negate(o, x)
      PROVE  HeapInv'
  BY <1>1, <1>6, ConstructPreserves
<1>7. ASSUME NEW x \in Objects, ConstructMoved(o, x)
      PROVE  HeapInv'
  BY <1>1, <1>7, MovePreserves
<1>8. ASSUME NEW x \in Objects, Assign(o, x)
      PROVE  HeapInv'
  BY <1>1, <1>8, AssignPreserves
<1>9. ASSUME NEW x \in Objects, Inspect(o, x)
      PROVE  HeapInv'
  BY <1>1, <1>9, InspectPreserves
<1>10. ASSUME NEW x \in Objects, NEW y \in Objects, Combine(o, x, y)
       PROVE  HeapInv'
  BY <1>1, <1>10, OperatorPreserves
<1> QED BY <1>2, <1>3, <1>4, <1>5, <1>6, <1>7, <1>8, <1>9, <1>10

LEMMA HeapInvStarts == ClassInit => HeapInv
<1> SUFFICES ASSUME ClassInit PROVE HeapInv
  OBVIOUS
<1>1. /\ mem = [used |-> {}, faults |-> {}] /\ dec = [o \in Objects |-> Shint]
      /\ warned = {} /\ alive = {} /\ shared = FALSE
  BY DEF ClassInit, Init
<1>2. mem \in Heaps /\ mem.used = {} /\ mem.faults = {}
  BY <1>1 DEF Heaps
<1>3. dec \in [Objects -> Decs]
      /\ \A o \in Objects : Own(dec[o]) = {} /\ dec[o].intact
  BY <1>1, ShintIsDec
<1>4. Owned(mem, dec)
  BY <1>2, <1>3 DEF Owned
<1> QED BY <1>1, <1>2, <1>3, <1>4 DEF HeapInv

(***************************************************************************)
(* The inductive invariant, for every number of objects and of arrays: it  *)
(* holds initially, and each call and each method preserves it.            *)
(***************************************************************************)
THEOREM HeapInvariant == ClassSpec => []HeapInv
<1>1. ClassInit => HeapInv
  BY HeapInvStarts
<1>2. HeapInv /\ [ClassNext]_classVars => HeapInv'
  <2> SUFFICES ASSUME HeapInv, [ClassNext]_classVars PROVE HeapInv'
    OBVIOUS
  <2>1. CASE Methods
    BY <2>1, MethodsPreserve
  <2>2. CASE CCalls
    <3>1. Objects \ alive \in SUBSET Objects
      OBVIOUS
    <3> QED BY <2>2, <3>1, CallsPreserve DEF CCalls
  <2>3. CASE UNCHANGED classVars
    BY <2>3 DEF classVars, HeapInv, Owned
  <2> QED BY <2>1, <2>2, <2>3 DEF ClassNext
<1> QED BY <1>1, <1>2, PTL DEF ClassSpec

(***************************************************************************)
(* HeapTypeOK: what every call and method leaves is a heap and the         *)
(* representation of a decimal in each variable; a shifted int has no      *)
(* array.                                                                  *)
(***************************************************************************)
THEOREM HeapTypesHold == ClassSpec => []HeapTypeOK
<1>1. HeapInv => HeapTypeOK
  <2> SUFFICES ASSUME HeapInv PROVE HeapTypeOK
    OBVIOUS
  <2>1. mem \in [used : SUBSET Arrays, faults : SUBSET Faults]
    BY DEF HeapInv, Heaps
  <2>2. dec \in [Objects -> Decs] /\ warned \subseteq Objects /\ alive \subseteq Objects
        /\ shared \in BOOLEAN
    BY DEF HeapInv
  <2>3. dec \in [Objects -> [dyn : BOOLEAN, arr : Arrays \cup {NULL}, intact : BOOLEAN]]
        /\ \A o \in Objects : ~dec[o].dyn => dec[o].arr = NULL
    BY <2>2 DEF Decs, Pointers
  <2> QED BY <2>1, <2>2, <2>3 DEF HeapTypeOK
<1> QED BY <1>1, HeapInvariant, PTL

(***************************************************************************)
(* OwnersAreDistinct: copies, moves, results and failures of the functions *)
(* of fpdec.c and of the class never leave one digit array to two objects, *)
(* nor an object with an array that has been freed.                        *)
(***************************************************************************)
THEOREM DistinctOwners == ClassSpec => []OwnersAreDistinct
<1>1. HeapInv => OwnersAreDistinct
  <2> SUFFICES ASSUME HeapInv, ~shared, NEW o \in Objects, dec[o].dyn, dec[o].arr # NULL
               PROVE  /\ dec[o].arr \in mem.used
                      /\ \A p \in Objects \ {o} : dec[p].dyn => dec[p].arr # dec[o].arr
    BY DEF OwnersAreDistinct
  <2>1. Owned(mem, dec)
    BY DEF HeapInv
  <2>2. dec[o].arr \in Own(dec[o])
    BY DEF Own, Ptr
  <2>3. ASSUME NEW p \in Objects \ {o}, dec[p].arr = dec[o].arr
        PROVE  FALSE
    <3>1. dec[o].arr \in Own(dec[p])
      BY <2>3 DEF Own, Ptr
    <3> QED BY <2>1, <2>2, <3>1 DEF Owned
  <2> QED BY <2>1, <2>2, <2>3 DEF Owned
<1> QED BY <1>1, HeapInvariant, PTL

(***************************************************************************)
(* FreesAreValid: no array is freed twice or read after it was freed, on   *)
(* any path through the functions of fpdec.c, digit_array.c and the class. *)
(***************************************************************************)
THEOREM ValidFrees == ClassSpec => []FreesAreValid
<1>1. HeapInv => FreesAreValid
  <2> SUFFICES ASSUME HeapInv, ~shared
               PROVE  mem.faults \cap {"double_free", "use_after_free"} = {}
    BY DEF FreesAreValid
  <2>1. mem.faults \subseteq Tolerated
    BY DEF HeapInv, Owned
  <2> QED BY <2>1 DEF Tolerated
<1> QED BY <1>1, HeapInvariant, PTL

(***************************************************************************)
(* NothingLeaks: but for the leaks the model marks, every path through the *)
(* functions frees what it has allocated and does not return.              *)
(***************************************************************************)
THEOREM NoLeaks == ClassSpec => []NothingLeaks
<1>1. HeapInv => NothingLeaks
  <2> SUFFICES ASSUME HeapInv, ~shared, mem.faults = {}, NEW a \in mem.used
               PROVE  \E o \in Objects : a = dec[o].arr
    BY DEF NothingLeaks, Orphans
  <2>1. PICK o \in Objects : a \in Own(dec[o])
    BY DEF HeapInv, Owned
  <2> QED BY <2>1 DEF Own, Ptr
<1> QED BY <1>1, HeapInvariant, PTL

(***************************************************************************)
(* SuccessIsHonest: FPDEC_OK, and a constructor or operator that does not  *)
(* throw, mean that the result got the memory it needs.                    *)
(***************************************************************************)
THEOREM HonestSuccess == ClassSpec => []SuccessIsHonest
<1>1. HeapInv => SuccessIsHonest
  BY DEF HeapInv, SuccessIsHonest
<1> QED BY <1>1, HeapInvariant, PTL

=============================================================================
