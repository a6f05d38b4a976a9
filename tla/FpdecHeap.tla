------------------------------ MODULE FpdecHeap ------------------------------
(***************************************************************************)
(* Who owns which digit array: the allocations and deallocations of        *)
(* fpdec.c and digit_array.c, any of which may fail (calloc returns NULL). *)
(*                                                                         *)
(* Of a decimal only its representation is kept; numbers, and all that     *)
(* depends on them, are chosen freely. A function is an operator that      *)
(* gives the set of its outcomes; an action is a call of a client.         *)
(***************************************************************************)
EXTENDS Naturals, FiniteSets

CONSTANTS
  Objects,    (* Variables of type fpdec_t (or Decimal) of the client.     *)
  MaxArrays   (* Number of arrays the heap has room for. Bounds the model. *)

ASSUME MaxArraysAssumption == MaxArrays \in Nat

VARIABLES
  mem,   (* used: the arrays allocated, faults: what was done wrong.       *)
  dec,   (* The representation of each object.                             *)
  warned (* Objects an error has been reported for, not yet reset.         *)

Arrays == 1 .. MaxArrays
NULL == 0
UNSET == MaxArrays + 1   (* A local pointer that was never assigned.       *)

OK == "OK"
ENOMEM == "ENOMEM"
LIMIT == "LIMIT"         (* Every other error code.                        *)

-----------------------------------------------------------------------------
(***************************************************************************)
(* fpdec_mem_alloc and fpdec_mem_free. Which address calloc returns makes  *)
(* no difference, as long as it is not in use. Faults are what free or the *)
(* client run into, and, marked where it is found in the code:             *)
(*   unset      a pointer is used that was not assigned                    *)
(*   leak       the last pointer to an array is lost                       *)
(*   unchecked  a failure is not looked at                                 *)
(***************************************************************************)
Faults == {"double_free", "use_after_free", "unset", "leak", "unchecked"}

Fault(m, kind) == [m EXCEPT !.faults = @ \cup {kind}]

alloc(m) ==
  {[m |-> m, p |-> NULL]} \cup
  {[m |-> [m EXCEPT !.used = @ \cup {a}], p |-> a] :
     a \in {b \in Arrays \ m.used : \A c \in Arrays \ m.used : b =< c}}

free(m, p) ==
  IF p = NULL THEN m
  ELSE IF p \in m.used THEN [m EXCEPT !.used = @ \ {p}]
  ELSE Fault(m, IF p = UNSET THEN "unset" ELSE "double_free")

(***************************************************************************)
(* Representations. intact: the number is the one the function promises;   *)
(* the pointer shares its memory with the low word of a shifted int.       *)
(***************************************************************************)
Shint == [dyn |-> FALSE, arr |-> NULL, intact |-> TRUE]
Dyn(a) == [dyn |-> TRUE, arr |-> a, intact |-> a # NULL]

Outcome(m, rc, z) == [m |-> m, rc |-> rc, z |-> z]
Failed(m) == Outcome(m, ENOMEM, Shint)

(* fpdec_reset_to_zero, as to the memory. *)
Release(m, d) == IF d.dyn THEN free(m, d.arr) ELSE m

(* Mutant of Normalized: the pointer stays where the low word should be. *)
Normalized_KeepPointer(m, d) ==
  {Outcome(m, OK, d), Outcome(free(m, d.arr), OK, [d EXCEPT !.dyn = FALSE])}

(* fpdec_dyn_normalize: the array is kept, or freed (0 or a shifted int). *)
Normalized(m, d) == {Outcome(m, OK, d), Outcome(free(m, d.arr), OK, Shint)}

NormalizedIfDyn(o) ==
  IF o.rc = OK /\ o.z.dyn THEN Normalized(o.m, o.z) ELSE {o}

-----------------------------------------------------------------------------
(***************************************************************************)
(* digit_array.c: functions which allocate more than they return.          *)
(***************************************************************************)
(* The quotient, and a shifted copy of the dividend for the time being. *)
digits_div_digit(m) ==
  UNION {IF q.p = NULL THEN {q}
         ELSE {q} \cup
              {IF h.p = NULL
               THEN [m |-> free(h.m, q.p), p |-> NULL]
               ELSE [m |-> free(h.m, h.p), p |-> q.p] : h \in alloc(q.m)} : q \in alloc(m)}

(* The quotient, scaled copies of the operands, and the remainder if wanted. *)
digits_divmod(m, wanted) ==
  LET Divided(h, xd, yd, q) ==
        {[m |-> free(free(r.m, xd), yd), q |-> q, r |-> r.p] :
           r \in IF wanted THEN digits_div_digit(h) ELSE {[m |-> h, p |-> UNSET]}}
      Gives(h) == {[m |-> h, q |-> NULL, r |-> UNSET]}
  IN  UNION {IF q.p = NULL THEN Gives(q.m) ELSE
        UNION {IF xd.p = NULL THEN Gives(free(xd.m, q.p)) ELSE
          UNION {IF yd.p = NULL THEN Gives(free(free(yd.m, q.p), xd.p))
                 ELSE Divided(yd.m, xd.p, yd.p, q.p) :
            yd \in alloc(xd.m)} : xd \in alloc(q.m)} : q \in alloc(m)}

(***************************************************************************)
(* digits_div_max_prec divides again, with the dividend shifted further,   *)
(* until there is no remainder. That an allocation failed is not noticed:  *)
(* the remainder looked at was not assigned then.                          *)
(***************************************************************************)
digits_div_max_prec(m) ==
  LET again == {free(q.m, q.p) : q \in digits_div_digit(m)}
      Left(d) ==
        IF d.q = NULL \/ d.r = NULL THEN [m |-> Fault(d.m, "unset"), p |-> NULL]
        ELSE [m |-> free(d.m, d.r), p |-> d.q]
      first == {Left(d) : d \in digits_divmod(m, TRUE)}
      cleared == {free(l.m, l.p) : l \in {k \in first : k.p # NULL}}
  IN  digits_div_digit(m) \cup (UNION {digits_div_digit(h) : h \in again})
      \cup first \cup (UNION {{Left(d) : d \in digits_divmod(h, TRUE)} : h \in cleared})

digits_div_limit_prec(m) ==
  digits_div_digit(m) \cup {[m |-> d.m, p |-> d.q] : d \in digits_divmod(m, FALSE)}

-----------------------------------------------------------------------------
(***************************************************************************)
(* fpdec.c: copies and conversions.                                        *)
(***************************************************************************)
(* Mutant of fpdec_copy: the result of the allocation is not looked at. *)
fpdec_copy_Unchecked(m, src) ==
  IF src.dyn THEN {Outcome(a.m, OK, Dyn(a.p)) : a \in alloc(m)} ELSE {Outcome(m, OK, src)}

fpdec_copy(m, src) ==
  IF src.dyn
  THEN {Outcome(a.m, IF a.p = NULL THEN ENOMEM ELSE OK, Dyn(a.p)) : a \in alloc(m)}
  ELSE {Outcome(m, OK, src)}

(***************************************************************************)
(* fpdec_set_dyn_coeff, fpdec_shint_to_dyn: without memory the number is   *)
(* lost, since the null pointer is written over its low word.              *)
(***************************************************************************)
fpdec_shint_to_dyn(m, d) ==
  {IF a.p = NULL
   THEN Outcome(a.m, ENOMEM, [d EXCEPT !.intact = FALSE])
   ELSE Outcome(a.m, OK, Dyn(a.p)) : a \in alloc(m)}

(* An operand as digits: itself, or fpdec_copy_shint_as_dyn ... *)
AsDyn(m, d) == IF d.dyn THEN {Outcome(m, OK, d)} ELSE fpdec_shint_to_dyn(m, d)

(* Mutant of DropCopy: an operand that is dynamic itself is reset, too. *)
DropCopy_Always(m, d, copy) == Release(m, copy)

(* ... which is reset when the result is there. *)
DropCopy(m, d, copy) == IF d.dyn THEN m ELSE Release(m, copy)

(***************************************************************************)
(* The entries of the dispatch tables for two dynamic decimals get their   *)
(* shifted ints converted, and the copies are reset after the call o.      *)
(***************************************************************************)
BothAsDyn(m, x, y) ==
  LET Pair(h, rc, cx, cy) == [m |-> h, rc |-> rc, x |-> cx, y |-> cy]
  IN  UNION {IF cx.rc # OK THEN {Pair(cx.m, ENOMEM, Shint, Shint)} ELSE
        {IF cy.rc # OK THEN Pair(DropCopy(cy.m, x, cx.z), ENOMEM, Shint, Shint)
         ELSE Pair(cy.m, OK, cx.z, cy.z) : cy \in AsDyn(cx.m, y)} : cx \in AsDyn(m, x)}

DropCopies(o, x, y, c) == [o EXCEPT !.m = DropCopy(DropCopy(@, y, c.y), x, c.x)]

-----------------------------------------------------------------------------
(***************************************************************************)
(* Addition, subtraction and multiplication. A zero is a shifted int.      *)
(***************************************************************************)
fpdec_add_abs_dyn_to_dyn(m, x, y) ==
  {IF a.p = NULL THEN Failed(a.m) ELSE Outcome(a.m, OK, Dyn(a.p)) : a \in alloc(m)}

(* Mutant of fpdec_sub_abs_dyn_from_dyn: the shifted copy is forgotten. *)
fpdec_sub_abs_dyn_from_dyn_NoFree(m, x, y) ==
  UNION {IF z.p = NULL THEN {Failed(z.m)} ELSE
    Normalized(z.m, Dyn(z.p)) \cup
    UNION {IF s.p = NULL THEN {Failed(free(s.m, z.p))} ELSE
      Normalized(s.m, Dyn(z.p)) : s \in alloc(z.m)} : z \in alloc(m)}

(* The subtrahend is copied if it must be shifted. *)
fpdec_sub_abs_dyn_from_dyn(m, x, y) ==
  UNION {IF z.p = NULL THEN {Failed(z.m)} ELSE
    Normalized(z.m, Dyn(z.p)) \cup
    UNION {IF s.p = NULL THEN {Failed(free(s.m, z.p))} ELSE
      Normalized(free(s.m, s.p), Dyn(z.p)) : s \in alloc(z.m)} : z \in alloc(m)}

AddAbs(m, x, y) ==
  IF x.dyn \/ y.dyn
  THEN UNION {IF c.rc # OK THEN {Failed(c.m)} ELSE
         {DropCopies(o, x, y, c) : o \in fpdec_add_abs_dyn_to_dyn(c.m, c.x, c.y)} :
           c \in BothAsDyn(m, x, y)}
  ELSE {Outcome(m, OK, Shint)} \cup fpdec_shint_to_dyn(m, Shint)

SubAbs(m, x, y) ==
  IF x.dyn \/ y.dyn
  THEN UNION {IF c.rc # OK THEN {Failed(c.m)} ELSE
         {DropCopies(o, x, y, c) : o \in fpdec_sub_abs_dyn_from_dyn(c.m, c.x, c.y)} :
           c \in BothAsDyn(m, x, y)}
  ELSE {Outcome(m, OK, Shint)}

(* fpdec_add and, but for the sign, fpdec_sub. *)
fpdec_add(m, x, y) ==
  (IF x.dyn THEN {} ELSE fpdec_copy(m, y)) \cup
  (IF y.dyn THEN {} ELSE fpdec_copy(m, x)) \cup
  AddAbs(m, x, y) \cup SubAbs(m, x, y) \cup SubAbs(m, y, x) \cup {Outcome(m, OK, Shint)}

fpdec_mul_abs_dyn_by_dyn(m, x, y) ==
  UNION {IF a.p = NULL THEN {Failed(a.m)}
         ELSE {Outcome(free(a.m, a.p), LIMIT, Shint), Outcome(a.m, OK, Dyn(a.p))} :
           a \in alloc(m)}

MulAbs(m, x, y) ==
  UNION {IF c.rc # OK THEN {Failed(c.m)} ELSE
    {DropCopies(o, x, y, c) : o \in fpdec_mul_abs_dyn_by_dyn(c.m, c.x, c.y)} :
      c \in BothAsDyn(m, x, y)}

fpdec_mul(m, x, y) ==
  (IF x.dyn /\ y.dyn THEN {} ELSE {Outcome(m, OK, Shint)}) \cup
  {Outcome(m, LIMIT, Shint)} \cup
  UNION {NormalizedIfDyn(o) : o \in MulAbs(m, x, y)}

-----------------------------------------------------------------------------
(***************************************************************************)
(* Divisions.                                                              *)
(***************************************************************************)
fpdec_div_abs_dyn_by_dyn_exact(m, x, y) ==
  {Outcome(m, LIMIT, Shint)} \cup
  UNION {IF q.p = NULL THEN {Failed(q.m)}
         ELSE {Outcome(free(q.m, q.p), LIMIT, Shint), Outcome(q.m, OK, Dyn(q.p))} :
           q \in digits_div_max_prec(m)}

(* Without significant digits the quotient is 0 or one unit. *)
fpdec_div_abs_dyn_by_dyn(m, x, y) ==
  fpdec_div_abs_dyn_by_dyn_exact(m, x, y) \cup
  {IF q.p = NULL THEN Failed(q.m) ELSE Outcome(q.m, OK, Dyn(q.p)) :
     q \in digits_div_limit_prec(m) \cup alloc(m)} \cup
  {Outcome(m, OK, Shint)}

(***************************************************************************)
(* A quotient of shifted ints that is to have more places than such may    *)
(* have is converted, and whether that succeeded is not looked at.         *)
(***************************************************************************)
Unchecked(m) ==
  {IF o.rc = OK THEN o ELSE Outcome(Fault(o.m, "unchecked"), OK, o.z) :
     o \in fpdec_shint_to_dyn(m, Shint)}

fpdec_div_abs_shint_by_shint(m, x, y) ==
  {Outcome(m, OK, Shint)} \cup fpdec_shint_to_dyn(m, Shint) \cup Unchecked(m)

DivAbs(m, x, y) ==
  (UNION {IF c.rc # OK THEN {Failed(c.m)} ELSE
     {DropCopies(o, x, y, c) : o \in fpdec_div_abs_dyn_by_dyn(c.m, c.x, c.y)} :
       c \in BothAsDyn(m, x, y)}) \cup
  (IF x.dyn \/ y.dyn THEN {} ELSE fpdec_div_abs_shint_by_shint(m, x, y))

fpdec_div(m, x, y) ==
  {Outcome(m, LIMIT, Shint)} \cup
  (IF x.dyn THEN {} ELSE {Outcome(m, OK, Shint)}) \cup
  UNION {NormalizedIfDyn(o) : o \in DivAbs(m, x, y)}

(* Outcomes of a division with two results; z is the pair of them. *)
Two(m, rc, q, r) == Outcome(m, rc, << q, r >>)
FailedTwo(m) == Two(m, ENOMEM, Shint, Shint)

(***************************************************************************)
(* fpdec_divmod_abs_dyn_by_dyn. If no quotient comes back, the remainder   *)
(* is freed, which was not assigned. A negative quotient is rounded down:  *)
(* the remainder becomes its difference to the divisor.                    *)
(***************************************************************************)
divmod_abs_dyn_by_dyn(m, x, y) ==
  LET Complement(h, q, r) ==
        UNION {{IF s.rc = OK THEN Two(Release(s.m, t.z), OK, Dyn(q), s.z)
                ELSE Two(free(Release(s.m, t.z), q), s.rc, Shint, s.z) :
                  s \in fpdec_add(t.m, y, t.z)} : t \in Normalized(h, Dyn(r))}
  IN  {IF q.p = NULL THEN FailedTwo(q.m) ELSE Two(q.m, OK, Dyn(q.p), Shint) :
         q \in digits_div_digit(m)} \cup
      UNION {IF d.q = NULL THEN {FailedTwo(free(d.m, d.r))}
             ELSE IF d.r = NULL THEN {FailedTwo(free(d.m, d.q))}
             ELSE {Two(d.m, OK, Dyn(d.q), Dyn(d.r))} \cup Complement(d.m, d.q, d.r) :
               d \in digits_divmod(m, TRUE)}

(* fpdec_divmod normalises both results. *)
NormalizedTwo(o) ==
  UNION {{Two(r.m, o.rc, q.z, r.z) :
            r \in IF o.z[2].dyn THEN Normalized(q.m, o.z[2]) ELSE {Outcome(q.m, OK, o.z[2])}} :
     q \in IF o.z[1].dyn THEN Normalized(o.m, o.z[1]) ELSE {Outcome(o.m, OK, o.z[1])}}

DivModAbs(m, x, y) ==
  UNION {IF c.rc # OK THEN {FailedTwo(c.m)} ELSE
    {DropCopies(o, x, y, c) : o \in divmod_abs_dyn_by_dyn(c.m, c.x, c.y)} :
      c \in BothAsDyn(m, x, y)}

fpdec_divmod(m, x, y) ==
  {Two(m, LIMIT, Shint, Shint), Two(m, OK, Shint, Shint)} \cup
  {Two(o.m, o.rc, Shint, o.z) : o \in fpdec_copy(m, x) \cup fpdec_add(m, x, y)} \cup
  UNION {NormalizedTwo(o) : o \in DivModAbs(m, x, y)}

-----------------------------------------------------------------------------
(***************************************************************************)
(* Changes in place, and on a copy.                                        *)
(***************************************************************************)
fpdec_adjust(m, d) ==
  {Outcome(m, LIMIT, d), Outcome(m, OK, d)} \cup
  IF d.dyn THEN Normalized(m, d)
  ELSE UNION {{o} \cup NormalizedIfDyn(o) : o \in fpdec_shint_to_dyn(m, d)}

Forgotten(m, d) == IF d.dyn THEN Fault(m, "leak") ELSE m

(* The argument is overwritten also if the multiplication has failed. *)
fpdec_quantize(m, d, quant) ==
  UNION {IF t1.rc # OK THEN {Outcome(t1.m, t1.rc, d)} ELSE
    {Outcome(Release(IF t2.rc = OK THEN Release(t2.m, d) ELSE Forgotten(t2.m, d), t1.z),
             t2.rc, t2.z) :
       t2 \in fpdec_mul(t1.m, t1.z, quant)} : t1 \in fpdec_div(m, d, quant)}

(* fpdec_adjusted, fpdec_quantized: an error is followed by a reset, unless *)
(* there was no memory for the copy.                                       *)
ResetOnError(o) == IF o.rc = OK THEN o ELSE Outcome(Release(o.m, o.z), o.rc, Shint)

fpdec_adjusted(m, src) ==
  UNION {IF c.rc # OK THEN {c} ELSE {ResetOnError(o) : o \in fpdec_adjust(c.m, c.z)} :
           c \in fpdec_copy(m, src)}

fpdec_quantized(m, src, quant) ==
  UNION {IF c.rc # OK THEN {c}
         ELSE {ResetOnError(o) : o \in fpdec_quantize(c.m, c.z, quant)} :
           c \in fpdec_copy(m, src)}

(***************************************************************************)
(* fpdec_from_ascii_literal and fpdec_from_sign_digits_exp. A long literal *)
(* needs memory while it is parsed; only the latter leaves a null pointer  *)
(* in a dynamic decimal.                                                   *)
(***************************************************************************)
fpdec_from_ascii_literal(m) ==
  LET Parsed(h) ==
        {Outcome(h, LIMIT, Shint), Outcome(h, OK, Shint)} \cup
        UNION {IF a.p = NULL THEN {Failed(a.m)} ELSE Normalized(a.m, Dyn(a.p)) :
                 a \in alloc(h)}
  IN  Parsed(m) \cup
      UNION {IF b.p = NULL THEN {Failed(b.m)}
             ELSE {[o EXCEPT !.m = free(o.m, b.p)] : o \in Parsed(b.m)} : b \in alloc(m)}

fpdec_from_sign_digits_exp(m) ==
  {Outcome(m, OK, Shint)} \cup
  {Outcome(a.m, IF a.p = NULL THEN ENOMEM ELSE OK, Dyn(a.p)) : a \in alloc(m)}

(***************************************************************************)
(* fpdec_dyn_formatted works on an adjusted or multiplied copy (adj), with *)
(* room for a digit more if needed. Two of its error paths leave it. The   *)
(* text itself is freed by the client, here at once.                       *)
(***************************************************************************)
fpdec_formatted(m, d) ==
  LET Widened(o) ==
        {IF a.p = NULL
         THEN Outcome(Fault(free(a.m, o.z.arr), "unset"), ENOMEM, Dyn(NULL))
         ELSE Outcome(free(a.m, o.z.arr), OK, Dyn(a.p)) : a \in alloc(o.m)}
      adjusted == fpdec_adjusted(m, d)
      adj ==
        {Outcome(m, OK, Shint)} \cup adjusted \cup fpdec_mul(m, d, Shint) \cup
        UNION {Widened(o) : o \in {p \in adjusted : p.rc = OK /\ p.z.dyn}}
  IN  UNION {IF o.rc # OK THEN {Outcome(o.m, o.rc, d)} ELSE
        UNION {IF buf.p = NULL THEN {Outcome(Forgotten(buf.m, o.z), ENOMEM, d)}
               ELSE {Outcome(Forgotten(free(buf.m, buf.p), o.z), LIMIT, d),
                     Outcome(free(Release(buf.m, o.z), buf.p), OK, d)} :
          buf \in alloc(o.m)} : o \in adj}

-----------------------------------------------------------------------------
(***************************************************************************)
(* The client. It passes zeroed variables for results (ASSERT_FPDEC_IS_ZE- *)
(* ROED) and resets a variable that a failed call has changed.             *)
(***************************************************************************)
Init ==
  /\ mem = [used |-> {}, faults |-> {}]
  /\ dec = [o \in Objects |-> Shint]
  /\ warned = {}

Usable(o) == o \notin warned
Free(o) == Usable(o) /\ ~dec[o].dyn

(* Reading digits that have been freed. *)
Dangling(o) == dec[o].dyn /\ dec[o].arr \notin mem.used

Reading(S) == IF \E o \in S : Dangling(o) THEN Fault(mem, "use_after_free") ELSE mem

(* What the client knows when a call returns rc. *)
Reported(rc, changed) == IF rc = OK THEN warned \ changed ELSE warned \cup changed

(* A call that writes z. *)
Returns(z, outcomes) ==
  \E o \in outcomes :
    /\ mem' = o.m
    /\ dec' = [dec EXCEPT ![z] = o.z]
    /\ warned' = Reported(o.rc, IF o.z = dec[z] THEN {} ELSE {z})

CreateFrom(z) ==
  /\ Free(z)
  /\ Returns(z, fpdec_from_ascii_literal(mem) \cup fpdec_from_sign_digits_exp(mem))

(* fpdec_neg is a copy as well. *)
Copy(z, x) ==
  /\ Free(z) /\ Usable(x)
  /\ Returns(z, fpdec_copy(Reading({x}), dec[x]))

Add(z, x, y) ==
  /\ Free(z) /\ Usable(x) /\ Usable(y)
  /\ Returns(z, fpdec_add(Reading({x, y}), dec[x], dec[y]))

Mul(z, x, y) ==
  /\ Free(z) /\ Usable(x) /\ Usable(y)
  /\ Returns(z, fpdec_mul(Reading({x, y}), dec[x], dec[y]))

Div(z, x, y) ==
  /\ Free(z) /\ Usable(x) /\ Usable(y)
  /\ Returns(z, fpdec_div(Reading({x, y}), dec[x], dec[y]))

DivMod(q, r, x, y) ==
  /\ q # r /\ {q, r} \cap {x, y} = {}
  /\ Free(q) /\ Free(r) /\ Usable(x) /\ Usable(y)
  /\ \E o \in fpdec_divmod(Reading({x, y}), dec[x], dec[y]) :
       /\ mem' = o.m
       /\ dec' = [dec EXCEPT ![q] = o.z[1], ![r] = o.z[2]]
       /\ warned' = Reported(o.rc, {q, r})

Adjust(x) ==
  /\ Usable(x)
  /\ Returns(x, fpdec_adjust(Reading({x}), dec[x]))

Adjusted(z, x) ==
  /\ Free(z) /\ Usable(x)
  /\ Returns(z, fpdec_adjusted(Reading({x}), dec[x]))

Quantize(x, quant) ==
  /\ x # quant
  /\ Usable(x) /\ Usable(quant)
  /\ Returns(x, fpdec_quantize(Reading({x, quant}), dec[x], dec[quant]))

Quantized(z, x, quant) ==
  /\ Free(z) /\ Usable(x) /\ Usable(quant)
  /\ Returns(z, fpdec_quantized(Reading({x, quant}), dec[x], dec[quant]))

Format(x) ==
  /\ Usable(x) /\ dec[x].dyn
  /\ Returns(x, fpdec_formatted(Reading({x}), dec[x]))

Reset(x) ==
  /\ mem' = Release(mem, dec[x])
  /\ dec' = [dec EXCEPT ![x] = Shint]
  /\ warned' = warned \ {x}

Orphans == mem.used \ {dec[o].arr : o \in Objects}

(***************************************************************************)
(* After a fault anything may happen. A client that has lost an array by   *)
(* overwriting a variable is not followed further (a bound).               *)
(***************************************************************************)
Running == mem.faults = {} /\ Orphans = {}

(* Calls of a client whose variables are S. *)
Calls(S) ==
  /\ Running
  /\ \E z \in S :
       \/ CreateFrom(z) \/ Adjust(z) \/ Format(z) \/ Reset(z)
       \/ \E x \in S :
            \/ Copy(z, x) \/ Adjusted(z, x) \/ Quantize(z, x)
            \/ \E y \in S :
                 \/ Add(z, x, y) \/ Mul(z, x, y) \/ Div(z, x, y) \/ Quantized(z, x, y)
                 \/ \E r \in S : DivMod(z, r, x, y)

=============================================================================
