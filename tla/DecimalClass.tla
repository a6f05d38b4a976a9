----------------------------- MODULE DecimalClass -----------------------------
(***************************************************************************)
(* The C++ class Decimal (fpdecimal.hpp, fpdecimal.cpp) on top of the C    *)
(* functions: construction, destruction, assignment, operators, and what   *)
(* becomes of memory when they throw. Objects that are no Decimals are     *)
(* variables of a client of the C functions, which shares the heap.        *)
(***************************************************************************)
EXTENDS FpdecHeap

VARIABLES
  alive,    (* The Decimals between construction and destruction.          *)
  shared    (* History: a digit array has been assigned or overwritten.    *)

classVars == << mem, dec, warned, alive, shared >>

(* Storage in which an object may be constructed. *)
Vacant(o) == o \notin alive /\ o \notin warned /\ dec[o] = Shint

IsDecimal(o) == o \in alive /\ Usable(o)

(***************************************************************************)
(* A constructor that throws leaves no object, and what it had allocated   *)
(* is not freed: the destructor does not run.                              *)
(***************************************************************************)
Constructs(o, outcomes) ==
  \E c \in outcomes :
    /\ mem' = c.m
    /\ IF c.rc = OK
       THEN alive' = alive \cup {o} /\ dec' = [dec EXCEPT ![o] = c.z]
       ELSE UNCHANGED << alive, dec >>
    /\ UNCHANGED << warned, shared >>

ConstructDefault(o) ==
  /\ Vacant(o)
  /\ alive' = alive \cup {o}
  /\ UNCHANGED << mem, dec, warned, shared >>

ConstructCopy(o, src) ==
  /\ Vacant(o) /\ IsDecimal(src)
  /\ Constructs(o, fpdec_copy(Reading({src}), dec[src]))

ConstructAdjusted(o, src) ==
  /\ Vacant(o) /\ IsDecimal(src)
  /\ Constructs(o, fpdec_adjusted(Reading({src}), dec[src]))

ConstructFromString(o) ==
  Vacant(o) /\ Constructs(o, fpdec_from_ascii_literal(mem))

(* A shifted int of whatever the members of the former owner hold. *)
MovedFrom == [dyn |-> FALSE, arr |-> NULL, intact |-> FALSE]

(* Mutant of Stolen: the former owner keeps the digit array. *)
Stolen_Keep(d) == d

(* What the move constructor leaves of its argument. *)
Stolen(d) == IF d.dyn THEN MovedFrom ELSE d

(* The client knows that src is not to be used any more. *)
ConstructMoved(o, src) ==
  /\ Vacant(o) /\ IsDecimal(src)
  /\ alive' = alive \cup {o}
  /\ dec' = [dec EXCEPT ![o] = dec[src], ![src] = Stolen(dec[src])]
  /\ warned' = warned \cup {src}
  /\ UNCHANGED << mem, shared >>

Destroy(o) ==
  /\ o \in alive
  /\ mem' = Release(mem, dec[o])
  /\ dec' = [dec EXCEPT ![o] = Shint]
  /\ warned' = warned \ {o}
  /\ alive' = alive \ {o}
  /\ UNCHANGED shared

(***************************************************************************)
(* Both assignment operators are defaulted: the members are copied, which  *)
(* leaves two owners of an array, and none of the one that was overwritten.*)
(***************************************************************************)
Assign(o, src) ==
  /\ o \in alive /\ IsDecimal(src) /\ o # src
  /\ dec' = [dec EXCEPT ![o] = dec[src]]
  /\ warned' = warned \ {o}
  /\ shared' = (shared \/ dec[o].dyn \/ dec[src].dyn)
  /\ UNCHANGED << mem, alive >>

(***************************************************************************)
(* The operators build their result in a local Decimal, which becomes the  *)
(* new object o, or is destroyed when an error is thrown.                  *)
(***************************************************************************)
Yields(o, outcomes) ==
  Constructs(o,
    {IF c.rc = OK THEN c ELSE Outcome(Release(c.m, c.z), c.rc, Shint) : c \in outcomes})

Negate(o, x) ==
  /\ Vacant(o) /\ IsDecimal(x)
  /\ Yields(o, fpdec_copy(Reading({x}), dec[x]))

Combine(o, x, y) ==
  /\ Vacant(o) /\ IsDecimal(x) /\ IsDecimal(y)
  /\ LET m == Reading({x, y})
     IN  Yields(o, fpdec_add(m, dec[x], dec[y]) \cup fpdec_mul(m, dec[x], dec[y])
                   \cup fpdec_div(m, dec[x], dec[y]))

(* Comparisons read both operands, magnitude and dump one of them. *)
Inspect(x, y) ==
  /\ IsDecimal(x) /\ IsDecimal(y)
  /\ mem' = Reading({x, y})
  /\ UNCHANGED << dec, warned, alive, shared >>

-----------------------------------------------------------------------------
ClassInit == Init /\ alive = {} /\ shared = FALSE

Methods ==
  /\ Running
  /\ \E o \in Objects :
       \/ ConstructDefault(o) \/ ConstructFromString(o) \/ Destroy(o)
       \/ \E x \in Objects :
            \/ ConstructCopy(o, x) \/ ConstructAdjusted(o, x) \/ ConstructMoved(o, x)
            \/ Assign(o, x) \/ Negate(o, x) \/ Inspect(o, x)
            \/ \E y \in Objects : Combine(o, x, y)

CCalls == Calls(Objects \ alive) /\ UNCHANGED << alive, shared >>

ClassNext == Methods \/ CCalls

ClassSpec == ClassInit /\ [][ClassNext]_classVars

-----------------------------------------------------------------------------
(***************************************************************************)
(* Properties.                                                             *)
(***************************************************************************)
(* The type invariant. A shifted int has no array. *)
HeapTypeOK ==
  /\ mem \in [used : SUBSET Arrays, faults : SUBSET Faults]
  /\ dec \in [Objects -> [dyn : BOOLEAN, arr : Arrays \cup {NULL}, intact : BOOLEAN]]
  /\ \A o \in Objects : ~dec[o].dyn => dec[o].arr = NULL
  /\ warned \subseteq Objects /\ alive \subseteq Objects /\ shared \in BOOLEAN

(***************************************************************************)
(* Every dynamic decimal has an array of its own that is allocated: no two *)
(* objects share one, whatever was copied, moved or failed in between      *)
(* (unless it was assigned). A copy that failed has none.                  *)
(***************************************************************************)
OwnersAreDistinct ==
  ~shared =>
    \A o \in Objects :
      dec[o].dyn /\ dec[o].arr # NULL =>
        /\ dec[o].arr \in mem.used
        /\ \A p \in Objects \ {o} : dec[p].dyn => dec[p].arr # dec[o].arr

(***************************************************************************)
(* Nothing is freed twice or read after it was freed (unless an array was  *)
(* assigned). What is freed or read without having been set is another     *)
(* matter: failing allocations in the long division do that.               *)
(***************************************************************************)
FreesAreValid == ~shared => mem.faults \cap {"double_free", "use_after_free"} = {}

(***************************************************************************)
(* A call leaves no array without an owner, also when an allocation in the *)
(* middle of it fails, but for the two places marked as leaks: errors in   *)
(* fpdec_quantize and in the formatting of a dynamic decimal.              *)
(***************************************************************************)
NothingLeaks == ~shared /\ mem.faults = {} => Orphans = {}

(***************************************************************************)
(* An object the client was not warned of holds the number it should: no   *)
(* call reports FPDEC_OK, no constructor ends without throwing, although   *)
(* memory for its result was lacking (but for the conversion in fpdec_div  *)
(* that is marked as unchecked).                                           *)
(***************************************************************************)
SuccessIsHonest ==
  mem.faults = {} => \A o \in Objects : dec[o].intact \/ o \in warned

=============================================================================
