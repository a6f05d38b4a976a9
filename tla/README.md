# fpdec in TLA+

`fpdec` is a C library of decimal fixed-point arithmetic with exact results and
explicit rounding, plus a C++ class on top of it. It is sequential: no threads,
no I/O, no messages. What makes it hard is elsewhere: every number has two
representations, results move between them depending on their history, carries
are inferred from machine words that wrapped, exponents and precisions live in
16 and 32 bits, loops that propagate a carry test no bound, buffers are sized
before they are filled, and every allocation may fail in the middle of a call. A
test checks a few values out of 2^192; the modules here check all combinations
of a small base, and prove some facts for every base.

All paths below are relative to `src/src/libfpdec/`.

## Inventory

| Component | State | Operations | What makes it correct |
|---|---|---|---|
| Words (`uint64_math.h`, `common.h`) | none | `FLOOR`, `CEIL`, `MOD`, powers of ten | the relations 10^19 = RADIX < 2^64 < 2 RADIX |
| Rounding (`rounding.c`, `rounding_helper.h`) | the default mode | `round_qr`, `round_to_multiple`, `round_u128`, set/get default | agreement with the promise of `rounding.h` |
| Digit arrays (`digit_array.c`) | memory: digits, `n_alloc`, `n_signif` | copy, add, subtract, multiply, short and long division, round, compare, strip zeros | exact results, digits below RADIX, no access outside of the array |
| Shifted ints (`shifted_int.c`) | none | compare, shift with rounding, read from digits | exactness up to 96 bits, correct rounding |
| 128-bit arithmetic (`uint128_math_native.h`, `uint128_math.h`, `basemath.h`) | none | multiply, divide, shift | exact or overflow signalled; both forms agree |
| Decimals (`fpdec.c`) | `fpdec_t`: representation, sign, precision, exponent, coefficient | create, copy, compare, add, subtract, multiply, divide, divmod, adjust, quantize, normalize precision, convert | the numerical result does not depend on the representation; results are well-formed operands |
| Parser (`parser.c`, `unicode_digits.h`) | position in a literal | scan an ASCII or Unicode literal | value and precision of the literal, limits |
| Formatting (`format_spec.c`, part of `fpdec.c`) | buffer | parse a format spec, lay out a number | characters written fit the buffer |
| Memory (`mem.h`, all of the above) | ownership of digit arrays | allocate, free, reset | every array is freed once, also when an allocation fails |
| C++ class (`fpdecimal.cpp`) | an `fpdec_t` | construct, copy, move, assign, operators | no array shared by two objects |

Interaction: the client calls `fpdec.c`; it dispatches on the representation of
the operands to 128-bit arithmetic (shifted ints) or to `digit_array.c`,
converting operands as needed; `rounding.c` holds the one piece of global
state. Result parameters must be zeroed before a call.

## Modules

| Module | Models |
|---|---|
| `FpdecCommon` | Word size, base and macros. Constants instead of 2^64 and 10^19, with the relations the code relies on as assumptions. `Power` is the power by its recursion: the provers know nothing about `^`. |
| `Rounding` | `round_qr`, `round_to_multiple`, `round_u128`, and next to them `Rounded`, the definition of the modes in `rounding.h` on exact numbers. |
| `DigitOps` | What the functions of `digit_array.c` compute, on numbers instead of arrays, including how many digits they report. |
| `DigitArithmetic` | Abstract specification of a call into `digit_array.c`: one step from operands to result. |
| `DigitArray` | The loops of `digit_array.c` but the long division, one action per iteration, digits in words of `U64` values. Implements `DigitArithmetic`. |
| `KnuthD` | The long division `digits_divmod`, one action per iteration of each of its loops. |
| `DigitLemmas` | Lemmas: recursion and powers; arithmetic with single digits; the numbers that digits stand for. |
| `DigitArrayProofs` | Theorems about `DigitArray`: memory and digits, then results. |
| `KnuthDProofs` | The same for `KnuthD`. |
| `FpdecOps` | The functions of `fpdec.c`, `shifted_int.c` and the native 128-bit multiplication as operators on records. |
| `DecimalNumbers` | Exact decimal numbers, pairs of a coefficient and an exponent: what the properties compare with. |
| `DecimalLemmas` | Lemmas about them and about the operators of `FpdecOps`: counts of digits, zeros, canonical numbers. |
| `Fpdec` | The C API as a state machine: a client with two operands that keeps results as operands of later calls. |
| `FpdecProofs` | Theorems about `Fpdec`: results and comparison, then rounding. |
| `FpdecDivOps` | The divisions of `fpdec.c` as operators, and `digits_div_max_prec`, `digits_div_limit_prec`. |
| `FpdecDivision` | `Fpdec` with `fpdec_div`, `fpdec_divmod`, `fpdec_quantize`, `fpdec_quantized`. |
| `DivisionProofs` | Theorems about `FpdecDivision`. |
| `FpdecHeap` | Who owns which digit array: all functions that allocate or free them, with allocations that fail. |
| `DecimalClass` | The C++ class `Decimal` and clients of the C functions on the same heap. |
| `HeapProofs` | Theorems about `FpdecHeap` and `DecimalClass`. |
| `Uint128Native` | `uint128_math_native.h` and the division by the radix of `basemath.h`, on numbers below `U64`^2. |
| `Uint128` | `uint128_math.h`: the same functions on two words, shown to agree with the native ones. |
| `Parser` | `parser.c`: from characters to sign, coefficient, exponent and digits. |
| `LiteralOps` | What is made of them word by word (`shint_from_dec_coeff`, `digits_from_dec_coeff_exp`), and literals with the digits of other scripts (`unicode_digits.h`). |
| `Formatter` | `format_spec.c` and the functions of `fpdec.c` that write a number or take it apart. |
| `Text` | A client that reads numbers and has them written again. |
| `TextProofs` | Theorems about `Text`: reading digits, and taking numbers apart. |
| `MC...` | Small instances for TLC. |

`DigitOps`, `FpdecOps`, `FpdecDivOps`, `Parser` and `Formatter` are operators;
`DigitArray`, `KnuthD`, `Fpdec`, `FpdecDivision`, `DecimalClass`, `Uint128` and `Text`
are state machines. `FpdecDivision` composes `Fpdec` with the divisions,
`DecimalClass` the C++ class with clients of the C functions, `Text` the parser
with the creation of numbers and the formatter.

### DigitArray

A behaviour is one call. `fn`, `x`, `y`, `arg` are the function and its
operands, `z` the array written (in place operations start with `z = x`), `i`
and `j` the pointers of the loops, `carry` the carry, borrow or remainder, `pc`
the phase (`loop`, `carry` propagation, `done`), `ret` the value returned. `Init`
has one disjunct per function; the operands are those its callers in `fpdec.c`
and `digit_array.c` pass: e.g. the array added to is a copy with leading zeros as
`fpdec_add_abs_dyn_to_dyn` makes it, and the array incremented is any, since nothing keeps
`fpdec.c:1924` from passing one without room for a carry. Arithmetic on digits is modulo `U64`, so
the tests `sum < y`, `d > x` do what they do in C.

`DigitArithmetic` is reached by the refinement mapping `Promise`: until the
function is done the abstract result is the operand, then it is `z` and `ret`.

### KnuthD

A behaviour is one call of `digits_divmod` with operands its callers can pass: at
most one of them shifted, the divisor of two digits or more. `xd` and `yd` are the
scaled copies the function works on, `quot` and `rem` its results, `qhat`, `rhat`
trial digit and trial remainder, `carry` and `borrow` the locals of its inner
loops. Products are 128-bit numbers and exact; what the code keeps in a word is
modulo `U64`, so `rhat` may wrap in the correction loop. `misled` remembers that
this made a difference: the correction went on, which Knuth's algorithm does
not do. `QuotientIsExact` holds where it did not happen, and the run
`trial_digit` shows that it does happen.

### FpdecOps and Fpdec

A decimal is a record. A shifted int holds its coefficient (96 bits) and
`dec_prec`; a dynamic decimal the number its digits stand for, their count
`n`, `exp` and `dec_prec`. What a digit loop does is taken from `DigitOps`, which is
what `DigitArray` is shown to implement. An operator returns the return code and
the value left in the result; the code `ABORT` stands for a failed assertion,
after which the program is gone (action `Aborted`).

The actions of `Fpdec` are the functions of the API. Guard of those that create a
number: the result is zeroed (`ASSERT_FPDEC_IS_ZEROED`). `KeepX` and `KeepY` are
the client using a result as an operand, so that operands are reached by calls
and only by calls.

### FpdecDivOps and FpdecDivision

The quotient of two digit arrays is that of the numbers they hold, with as many
digits as `digits_div_digit` and `digits_divmod` report; how it is computed is the
subject of `DigitArray` and `KnuthD`. Where `fpdec_divmod` increments a quotient it does so
in the digits allocated for it (`QuotientLength`, `Increment`). Everything else is as in the code: how far
dividend or divisor are shifted, which branch divides 128 bits and which one
digits, what is rounded and with which remainder, what becomes the precision of
the result.

`FpdecDivision` adds one variable, `r`, the remainder of `fpdec_divmod`. Its next-state
relation has the divisions and, as one disjunct, every step of `Fpdec`, after which
the remainder has been freed. `KeepRemainder` makes divisor and remainder the
operands of the next call, as Euclid's algorithm does, so that remainders are
reached as operands. `fpdec_quantize` works in place and what it leaves in its
argument is an operand as well.

The properties compare with rational arithmetic (`DecimalNumbers`), which knows
nothing of representations.

### FpdecHeap and DecimalClass

Of a decimal only the representation is kept: a shifted int, or the array it
points to, and whether it holds the number it was promised to (`intact`). Since
numbers are abstracted, a function is an operator that gives the *set* of its
outcomes `[m, rc, z]`: heap, return code, result. Every allocation has the outcome
NULL. What C leaves undefined, or the code forgets, is recorded as a fault of
the heap: `double_free`, `use_after_free`, `unset` (a pointer used that was not assigned),
`leak` (the last pointer to an array is lost), `unchecked` (a failure not looked at).
The last three mark places found in the code (see below); the first two are what
the properties exclude. A behaviour ends with the first fault.

An action is a call of a client that follows the rules of the library: it passes zeroed
variables for results, and does not use a variable after an error was reported
for it (`warned`) before it is reset. An object in `alive` is a `Decimal`, an object
that is not is a variable of a C client. Both copy assignments of the class are
defaulted (`fpdecimal.hpp:96-97`), so two objects share an array afterwards:
`shared` remembers it, and the properties are about behaviours without it.

### Uint128Native and Uint128

Each call is one step that writes `x` and `r`. The native form is the specification of
the two-word form: `Uint128` instantiates it with the values of the pairs of words
as the refinement mapping, and `AgreesWithNative` says that each step is one of
the native form, but for three named cases in which the results differ:
`LowCarryOverflows`, `ZeroIsStripped`, `EstimateOverflows`.

### Parser, LiteralOps, Formatter and Text

A text is a sequence of characters; `"wide"` is a character of several bytes, so
that the difference of width and size can be seen, `"broken"` a byte that does not
start a UTF-8 character. The formatter's operators compute, beside the text, how
many bytes the buffer has that was allocated for it (`max_n_bytes`), up to where it
is written (`end`), and the same for the scratch buffer of the integral part.
`Demanded` is the text a format demands, from the value of the number alone: it
is written from the layout's rules, rounding by `Rounded`, and not from the code.
`Reading` is the number a literal says, by the grammar quoted in `parser.c`.

## What the runs check

| Run | Shows |
|---|---|
| `digit_array` | Every loop of `digit_array.c` but the long division stays in its memory (`InBounds`), keeps carries within one digit (`CarryIsBit`), terminates, and returns proper digits and the result promised (`ImplementsArithmetic`, `SumIsExact`), for an increment also the lost carry. |
| `long_division` | Trial digits are at most one too large after their correction (`EstimateIsClose`), quotient and remainder are those of the numbers (`QuotientIsExact`), the scaled divisor is normalised all along (`DivisorIsNormalized`), and the division ends (`DivisionTerminates`). |
| `arith` | Sequences of creations, comparisons, additions, subtractions and multiplications: results are exact (`SumsAreExact`, `MulIsExact`), comparison is that of the numbers (`ComparesNumerically`), results are in the form later calls take for granted (`ResultsAreUsable`), assertions hold (`NoAssertionFails`). |
| `adjust` | Rounding by `fpdec_adjusted` in all modes, to precisions from -8 to 8, against `Rounded` (`AdjustedIsRounded`), and adjusting up or normalizing the precision in place never changes the number (`InPlaceKeepsNumber`). That adjusted numbers are in the form later calls need is part of the theorem `UsableResults`. |
| `divide` | Quotients rounded to a limit agree with the definition of the modes (`DivIsRounded`), exact ones multiply back to the dividend (`DivIsExact`) and carry no needless places (`QuotientIsConcise`); `x = q y + r` with an integral `q` and `r` between 0 and `y` (`DivModIsFloor`; where a carry of `q` is lost, with the `q` it belongs to); quantizing finds the right multiple, also in place (`QuantizingFindsMultiple`); all operands and results of divisions are in the form the next call needs (`DivisionsAreWellFormed`) and no assertion fails in a division but in one case (`DivisionsDoNotAbort`). Those of the calls in between are the subject of `arith`. |
| `heap` | Whatever allocation fails in whatever call, no array gets two owners (`OwnersAreDistinct`) or is freed twice or read after it was freed (`FreesAreValid`), none is lost outside of the places marked as leaks (`NothingLeaks`), and no call reports success without its result (`SuccessIsHonest`). |
| `u128` | The two-word arithmetic agrees with the native one on all pairs of small words (`AgreesWithNative`), and the division by the radix by means of an inverse is exact (`RadixDivisionIsExact`). |
| `text` | Literals read as the numbers they say (`LiteralsAreReadExactly`) and their digits word by word as the number of all of them (`NoDigitIsLost`), formatted numbers are the text demanded (`TextSaysNumber`) and fit the buffers sized for them (`TextFitsBuffer`), written literals read as the same number (`LiteralsReadBack`), the coefficient of 128 bits is exact or refused (`CoefficientIsExact`). |
| `sum_of_shifted_ints`, `half_up_beyond_digits`, `tiny_quotient`, `trial_digit` | Four statements of the code's comments that do not hold, see below. |

### Bounds

* `MCDigitArray`: base 100 in words of 7 bits (so 100 < 128 < 200, as 10^19 <
  2^64 < 2 * 10^19), up to 3 digits out of {0, 1, 50, 99}: those that carry,
  borrow, ripple or tie.
* `MCKnuthD`: base 10 in words of 16 values (10 < 16 < 20), digits 0, 1, 8, 9,
  dividends of up to 4 digits and divisors of up to 3, shifts included. All ways the
  correction can end, the addition back and the wrapped `rhat` occur.
* `MCFpdec...`: base 1000 in words of 10 bits, shifted ints of 16 bits with at most
  one fractional digit, `dec_prec` of 3 bits, exponents of 6 bits. So every limit
  is within reach of a few calls: overflow of a shifted int, of 2 words, of a
  precision, of an exponent. The literals are chosen at these limits (see the
  comments there). `MaxChanges` bounds how often an operand is replaced.
* `MCFpdecDivision`: a maximal precision of 5, so that two digits of 3 places are more
  than the limit and both outcomes of an exact division (found, limit exceeded) are
  a shift of one or two digits away; literals of both representations and signs, a
  dividend that overflows when scaled, divisors of one and two digits, with and
  without zeros at their end, and -999999 with 1000 and 5e7, whose quotients are made of
  the greatest digits only, with and without a digit to spare. `Divisible` bounds the digits after shifting. It and
  `Quantizable` also keep to operands whose magnitudes an `int32_t` can hold, as
  `Alignable` does for sums (`QuotientFits`: together and twice), and `RemainderFits` to
  divisors and remainders whose logarithm is not rounded up. `FPDEC_MAX_EXP` is 255 here,
  so that these guards do not cut off what the literals can reach.
* `MaxSpan` and `MaxInt` bound the digits aligned and the products, since TLC has
  integers of 32 bits. Besides, `Alignable` leaves out exponents for which the
  `int32_t` of a magnitude overflows and numbers whose logarithm is rounded up
  (`MagnitudeFits`, `LogarithmIsExact`), `Multipliable` products whose number of
  digits overflows it, `Adjustable` exponents for which the place of the point does.
* `MCDecimalClass`: 3 objects, which a division with two results and an operand
  needs, and 9 arrays, more than the objects and the temporaries of any call hold, so
  that an allocation fails because it may and never because there is no room. Objects
  are symmetric. (4 objects and 10 arrays, 204,065 states, pass as well.) A client that
  has lost an array by overwriting a variable is not followed further
  (`Running`).
* `MCUint128`: words of 4 bits, halves of 2, radix 10 and 3 in place of 10, all
  operands. Excluded are divisors with their top bit set where the code would
  shift by the width of a word; `u128_shift_right` is called with 1 only, as in the code.
* `MCText`: base 10^4 in words of 14 bits, shifted ints of 20 bits, exponents in
  11 bits for literals, so that an exponent wraps around once and twice, and in 5 bits for
  numbers, so that the product of an exponent and the places of a digit does. All texts of up to 5 out
  of 7 characters, literals about all limits, Unicode literals of 12 scripts; 12
  literals and 10 digit arrays, of which three are too far from the point for a text (`Writable`), written in 856 formats, 7
  locales and 2 default rounding modes. A percentage shifts by 1 and by 2 places (2
  in the code; with 2 of 4 places in a digit and shifted ints of 2 places one of the
  branches would not occur). Left out: widths and precisions beyond `size_t`,
  texts of a locale longer than a character, characters 128 to 255,
  numbers of three digits with a fraction (`Formattable`; 32-bit integers).

Fairness: `DigitArray` and `KnuthD` have `WF_vars(Next)`: a function that has been called
and can go on does go on. The other modules state no liveness: a client may stop
calling. Deadlock is checked by all runs but `heap` and `u128`: a client of the heap is
not followed after a fault, and each behaviour of `Uint128` is one call.

### Deviations found

Four of them are runs that end in a violation:

1. The sum of two shifted ints that needs more than 96 bits loses its upper bits
   (`SameSignAddsAbsValues`; `fpdec.c:1504`).
2. A number tiny against the unit it is rounded to is rounded up by the
   `HALF_` modes if the unit is a power of the radix (`HalfUpRoundsToNearest`;
   `fpdec.c:627`).
3. A quotient without significant digits that is rounded up gets its unit in the
   wrong digit: 1e-60 / 1 to one place, rounded up, is 10.0 (`TinyQuotientIsUnit`;
   `fpdec.c:2152`).
4. The correction of a trial digit goes on when its remainder has wrapped, and the
   quotient gets one too small (`IsAlgorithmD`; `digit_array.c:480`). 2 * 10^19 exceeds
   2^64, so Knuth's test "rhat < base" is not the comparison of two words.

Others are carved out of the properties by named operators, each saying exactly
where the property does not hold.

* `Fpdec`: `ShintsOverflow` (also the difference of scaled shifted ints,
  `fpdec.c:1614`), `CarryIsLost` (the count of a sum whose carry leaves the longer
  operand, `digit_array.c:282`), `ProductIsLost` (the overflow test of the high word
  only, `uint128_math_native.h:125`), `ExponentWraps` (zero digits are eliminated after
  the limit was tested, in literals, digits given and products, an exponent wraps and an
  assertion fails, `fpdec.c:384`; or the precision set from the exponent of digits does
  not fit its 16 bits, `fpdec.c:290`), `ZeroIsSigned` (digits that all are 0
  leave a number with the sign it was given, not equal to 0; `fpdec.c:279`), and
  in `RoundsCorrectly` the shift by more than 19 places (`shifted_int.c:130`), by
  more than 29 places (`fpdec.c:663`) and the last digit of a quotient above a word
  (`shifted_int.c:110`).
* `FpdecDivision`: `IncrementIsLost` (a negative quotient with a remainder is
  incremented in an array that `digits_divmod` allocated without a spare digit,
  `digit_array.c:446`, and the overflow `digits_iadd_digit` returns is ignored: if all digits
  are RADIX - 1 the quotient becomes 0. -(10^57 - 1) divmod 10^38 gives 0, not -10^19. The
  code says "Safe to increment q_digits. See comment above." at `fpdec.c:1923`; the comment
  above, at 1887-1891, holds for a divisor of one digit only. The remainder is right, so
  `DivModIsFloor` says that the quotient is 0 there and the remainder belongs to -RADIX^n), `PrecIsLost` (an exact quotient of shifted ints gets the
  precision 65535: 0.123456789 / 1; `fpdec.c:2269`), `DividendWraps` (the test of
  `uint128_math_native.h:125` again), `QuotientIsCut` (an exact quotient of more than
  96 bits asked for with more than 9 places; `fpdec.c:2262`), `RemainderDecides` (the
  remainder of the division is not looked at when the guard digit is rounded;
  `fpdec.c:2133`), `TinyMisjudged` (with deviation 3, the `HALF_` modes as in
  deviation 2), `LowWordDecides`, and for the remainder `RemainderIsUnscaled`
  ((10^41 + 1) divmod 7.00 leaves 0.06; `fpdec.c:1882`) and `RemainderIsTooPrecise` (a
  shifted int with more places than such may have, which is only safe as long as
  it is no operand: `Usable` keeps it from becoming one). `QuotientIsConcise` excepts
  multiples of 10: the division appends at least one zero digit to a short dividend,
  so an integral quotient has places at first, and `fpdec.c:2080` subtracts all zeros
  at its end from them, in an `uint16_t` (1e40 / 2e38 = 50 gets the precision 65535).
* `KnuthD`: `misled`, deviation 4.
* `Uint128`: the three cases above; `EstimateOverflows` is a quotient one off, if the
  product of divisor and estimate exceeds two words.
* `Text`: `PercentGoesWrong` (".18%" of a number with 21 places fails the assertion
  of `u64_10_pow_n`, `fpdec.c:1191-1198`; "%" of a dynamic number whose hundredfold is a
  shifted int reads that as a pointer, `fpdec.c:1199-1213`; "%" of a shifted int may give more
  digits than its buffers have), `NeededPrecWraps` (`fpdec.c:1157`), `CoefficientWraps`
  (3500000000000000000000000000000000000010 as coefficient of 128 bits,
  `fpdec.c:1447`), `ExponentWraps` of `Text` (the exponent of the lowest digit in decimal
  places is a product of ints: 1e2147483664 is read, and taken apart gets the exponent
  -2147483632; `fpdec.c:1419`; sign and coefficient are right), `IsLone` ("1e+" is accepted, though the grammar at `parser.c:39` wants
  digits).
* `FpdecHeap`, as faults or outcomes: a remainder that was never assigned is freed
  if the long division fails (`fpdec.c:1900`) and read if it fails in
  `digits_div_max_prec` (`digit_array.c:540-571`); `fpdec_quantize` loses its argument when
  the multiplication fails (`fpdec.c:751-758`); two error paths of `fpdec_dyn_formatted`
  leave a copy (`fpdec.c:1267`, `1343`), and a failing `digits_copy` is not looked at
  (`1191`); nor is a failing conversion in `fpdec_div` (`2263`); the class shares arrays
  by its defaulted assignments, and a constructor that throws frees nothing.

## What is proved

From the named assumptions on the constants only (`FpdecCommon`, `FpdecOps`, `FpdecDivOps`,
`DigitArray`, `KnuthD`, `Fpdec`, `FpdecHeap`, `Parser`, `LiteralOps`, `Text`): every base and word size, every set of digits, any number of
digits, objects and arrays.

`DigitArrayProofs`:

* `TypeCorrect`, `NoOverrun`, `CarryCorrect`, `ProperResult`: `Spec => []P` for
  `TypeOK`, `InBounds`, `CarryIsBit`, `ResultIsProper`.
* They follow from `Invariance`: `Spec => []IInv`. `IInv` has one conjunct per
  function. What it adds to the properties: the part of `z` not yet reached is still
  that of `x` (`SameFrom`); for an addition, the memory above `x` is 0, so a carry
  stops at the latest at the leading zero; for a subtraction, there is a digit `p`
  where `x` exceeds `y` with equal digits above, and a borrow never gets beyond `p`;
  for a multiplication by a digit, the carry stays below the factor; for a rounding,
  only the digit at `i` can be RADIX.
* The step lemmas follow the functions: one per action, each leaf with the few
  facts about arithmetic modulo `U64` it needs, many of them in `DigitLemmas`.

Its second half, on top of that, is about what the loops compute:

* `ArithmeticImplemented`: `Spec => ImplementsArithmetic`. The loops refine
  `DigitArithmetic`: all steps of a call but the one in which it returns are stuttering,
  and that one is `Return`. `SumExact`: `Spec => []SumIsExact`.
* They follow from `ValuesInvariant`: `Spec => []VInv`. `VInv` is `IInv` and, for each
  function, the number its unfinished result stands for (for an increment, the sum
  modulo the weight of all digits, and whether a carry was lost): e.g. for an addition, the
  digits of `z` below `i` and the carry at position `i` make the sum of the digits of
  the operands below `i`; for a multiplication, digit `j + x.n_signif` of `z` counts at
  `i + j` until its row is complete; for a short division, dividend and quotient agree
  down to digit `i` but for the remainder. `IInv` is needed for the bounds under which
  the words that wrap give the right digits, and `ResultAsPromised` cannot be inductive
  alone: it says nothing before the function is done. (TLC has checked `VInv` with
  base 10 and base 100, as an invariant of the instance of `digit_array`.)
* `*Computes` is the lemma of a function: its steps keep `VInv`. `Promised*` say that the
  operators of the instance `Promise` are those of `DigitOps`.
* `DigitLemmas` has what this needs about `ValueOf`: its recursion (`ValueNext`), its
  range (`ValueRange`), how it divides into low and high digits (`ValueSplit`,
  `ValueDivides`), that order is that of the topmost difference (`ValueOrder`), and that
  rounding one digit, knowing whether anything below it is not 0, rounds the number
  (`RoundedAtDigit`, for every mode). `ValueOf` and `Power` are recursive functions.
  It shows once that a recursion by a first-order step function has exactly
  one solution on `0 .. n` (`RecursionExists`, `RecursionUnique`), and does induction by
  the least element of a set of numbers (`SetInduction`), so no theorem with an operator as
  parameter is used. Powers of ten (`PowersOfTen`: that they divide the radix) are
  derived and no longer assumed.

`KnuthDProofs`:

* `LongDivisionTypes` and `ScaledDivisorIsNormalized`: `Spec => []P` for `KnuthTypeOK`
  (every digit stays a digit, every index in its array) and
  `DivisorIsNormalized` (the scaled top digit is at least half the radix, what the
  estimate of trial digits relies on).
* They follow from `LongDivisionInvariant`: `KnuthInv` adds that `scale` is the
  normalising factor of the divisor, that digits not yet scaled are those of `y`
  and the carry of the scaling is below the factor, which is what keeps the digit
  above from overflowing.

And what the long division computes:

* `ExactQuotient` and `CloseEstimate`: `Spec => []P` for `QuotientIsExact` and
  `EstimateIsClose`, for operands of any length. Both speak of divisions that were not
  misled (deviation 4); that the trial digit fits a word is shown for all.
* They follow from `DivisionInvariant`: `Spec => []DivisionInv`, which is `KnuthInv` and
  what the unfinished arrays stand for. `Rest` is what remains of the scaled dividend
  after the quotient digits found so far, `Unit` what each unit of the next digit takes
  from it. Between two digits `Rest < RADIX * Unit` and the digits of `xd` are those of
  `Rest` (`LoopValues`, `EstimateValues`); while the trial digit is subtracted,
  `(qhat - 1) * Unit <= Rest < (qhat + 1) * Unit` and the digits reached differ from
  those of `Rest` by the multiple subtracted and by carry and borrow (`SubtractValues`); a
  borrow at the end then means that `qhat` is one too large, and adding the divisor back
  gives `Rest` (`AddBackValues`). `QuotientIsExact` alone says nothing before the end.
* `TrialFromAbove`, `TrialTooLarge`, `TrialAccepted` and `TrialEnded` are the four facts about
  the correction loop, on numbers: it never goes below the digit looked for, and
  however it ends, the digit is at most one too large, for which the divisor must be
  normalised.
* One assumption is needed for this beyond the others: `TrialAssumption`, which holds
  for 10^19 and 2^64. Without it the trial digit after a wrong one might not fit a
  word.
* (TLC has checked `DivisionInv` on the instance of `long_division`, with all ten digits
  in words of 18 values, and with base 100 in words of 164: 0.4 to 2.2 million
  states.)

`HeapProofs`, for any number of objects and of arrays, whatever allocation fails:

* `HeapTypesHold`, `DistinctOwners`, `ValidFrees`, `NoLeaks`, `HonestSuccess`:
  `ClassSpec => []P` for the five invariants of the run `heap`.
* They follow from `HeapInvariant`: `ClassSpec => []HeapInv`. `HeapInv` adds that a
  decimal with the number it should hold has an array if it is dynamic, and joins the
  properties on owners, frees and leaks to one relation of heap and variables (`Owned`):
  separately none of them is inductive, since it is the owner that makes a free valid.
* The argument goes along the calls. `Extends(m, n, S)` says that from the heap `m` to
  `n` just the arrays `S` have been added (and no fault but the three that mark
  findings); two extensions compose (`ExtendsTwice`), a free takes an array out of `S`.
  `Gives` says this of a function that writes a result (what was added is the array of
  the result, there is none with an error, success means the number is there), `Keeps`
  of one that changes its argument. There is a lemma for each function of `FpdecHeap`,
  from `alloc` up to `fpdec_quantized`, proved from those of the functions it calls,
  and then one for each kind of step of the client and the class.

`FpdecProofs`, for any base, word size, limits and inputs, and any sequence of calls:

* `FpdecTypes`, `ExactSums`, `ExactProducts`, `NumericComparison`, `UsableResults`,
  `NoFailedAssertion`: `Spec => []P` for `TypeOK`, `SumsAreExact`, `MulIsExact`,
  `ComparesNumerically`, `ResultsAreUsable` and `NoAssertionFails`; and
  `InPlaceCallsKeepNumber`: `Spec => InPlaceKeepsNumber`.
* They follow from `FpdecInvariant`: `Spec => []FpdecInv`. It says that both operands are
  in good form (`Operand`: in their types, `WellFormed`, `PrecCoversDigits`), and the
  result is, if the client may keep it and its exponent has not wrapped. This
  is what makes `SumsAreExact` and the others inductive: they speak of a result, but hold
  because of the form of the operands, which earlier calls have left. In particular
  `dec_prec` must cover the digits, since `fpdec_dyn_normalize` cuts off the rest. (TLC has
  checked `FpdecInv` on the instance of `arith`.)
* `AddOutcome`, `SubOutcome`, `MulOutcome`, `CompareIsExact`, `AdjustOutcome`,
  `NormalizePrecOutcome`, `LiteralOutcome` and so on say of each function what it makes of
  any operands. Sums and comparisons are proved in a unit that both operands are whole
  multiples of (`CommonUnit`, `Amount`): there shifting digits, scaling a shifted int and
  comparing digit by digit become facts about integers, and `AmountsAdd` takes them back
  to canonical numbers. `SumLost`, `Wrapped` and `Overflows` are the exceptions of the
  properties, as relations of the operands.
* `DecimalLemmas` shows that the logarithms and counts the operators look up exist and are
  unique, that numbers with the same value have the same canonical form
  (`CanonicalScale`, `CanonicalIs`), and that removing zero digits keeps the number
  (`TrimmedNumber`).
* The guards `Alignable`, `Multipliable` and `Adjustable` are part of what is proved: magnitudes
  beyond an `int32_t` and logarithms rounded up are outside of it, as they are outside
  of the runs (see Bounds). The bounds `MaxSpan` and `MaxInt` are not used by any proof.

Its second half, on top of that, shows that rounding rounds:

* `AdjustedRounds`: `Spec => []AdjustedIsRounded`, from `FpdecInv` and the lemmas
  `AdjustRounds` (the number is the one `RoundedNumber` gives) and `AdjustGetsPrec` (so is
  the precision), each for any operand, precision and mode. All cases in which the code
  rounds otherwise are outside of `RoundsCorrectly`.
* The code rounds in three ways, which are three lemmas. Within the digits (`InRounds`)
  one digit is rounded, knowing whether anything below it is not 0, and the carry goes up
  to a new digit (`RoundedAtDigit`). Beyond them (`AwayRounds`) only "0 or one unit" is
  decided, by a comparison with half a unit that a power of the radix turns into 0: that it
  is right wherever the unit is no such power is `DecisionAway`. A shifted int is divided by
  a power of ten, or by two of which the first leaves no rest (`ShiftRounds`), then
  multiplied back in a loop that stops when the product gets too large
  (`ShiftedBackExact`); what does not fit is rounded once more as digits, which is right
  because they reach the place rounded to (`DigitsReach`, `DigitsRoundCorrectly`).
* `RoundedNumberIs` compares any of them with the definition of the modes: the canonical
  form of a number has lost its zeros, and neither these (`RoundedScaled`) nor how far
  beyond its top digit the unit is (`RoundedTiny`) makes a difference to any mode.

`DivisionProofs`, on top of that, that divisions divide:

* `WellFormedDivisions`, `NoDivisionAborts`, `FloorDivision`, `ExactDivision`,
  `ConciseQuotient`, `RoundedDivision`: `DivisionSpec => []P` for
  `DivisionsAreWellFormed`, `DivisionsDoNotAbort`, `DivModIsFloor`, `DivIsExact`,
  `QuotientIsConcise` and `DivIsRounded`; and `QuantizingIsRight`:
  `DivisionSpec => QuantizingFindsMultiple`. That is all the run `divide` checks.
* They follow from `DivisionInvariant`: `DivisionSpec => []DivisionInv`. `DivisionInv` adds to
  the six properties that both operands are in good form (`Operand`), and the last
  quotient and remainder are, as far as a client may keep them; that there is no
  remainder unless the last call was `fpdec_divmod`; and, after any other call of
  `Fpdec`, what `FpdecInv` says of its result. The properties speak of one division, but
  quotients, remainders (`KeepRemainder`) and quantized numbers are operands of the next,
  and so are sums and products of them: none of the properties is inductive without the
  form of all operands.
* `DivOutcome` says what `fpdec_div` makes of any operands. It goes along three branches.
  A division of shifted ints in 128 bits is scaled up or down to the precision
  (`ScaledQuotient`); without a limit, dividing once more by ten while nothing remains
  ends at the number with the fewest places (`ExactU128`, `ConciseU128`). A limited
  division of digits has one guard digit, which is rounded without looking at what is left
  of the dividend: `GuardRounds` shows this right for every mode, unless the rest of the
  quotient's digit is 0 or a tie (`RemainderDecides`); a quotient without digits is
  0 or one unit (`TinyOutcome`). An exact division of digits extends the dividend until
  nothing remains (`LeastExtension`): which zeros the last batch has added
  too many does not matter to the number (`DynExact`), and the places subtracted again
  are as many as there are zeros at the end (`ExactPrecConcise`).
* `DivModOutcome` is the same for `fpdec_divmod`: dividend and divisor are whole multiples of
  a common unit, the quotient is the floor of that of the multiples and the remainder what
  remains of them (`FloorIs`, `FloorsScaled`); for opposite signs both are adjusted,
  the remainder by a subtraction that is shown to be exact (`ComplementedRest`), so
  `SubOutcome` of `FpdecProofs` is used here again. The increment of the quotient adds 1
  unless its carry leaves the digits allocated (`DigitsIncrement`); then the floor was
  RADIX^n - 1 and the result is 0 (`CarryLoses`), which `QuotientMeant` and `FloorMeant` set right
  on the side of the property. That it never happens with a divisor of one digit or shifted
  ints is part of the proof, as the comment in the code argues (`QuotientDigitsSuffice`). `QuantizeOutcome` joins a division to
  0 places with a product.
* `DivisionAssumption` is what the constants must satisfy besides: a word holds 10^18, the
  greatest power of ten a quotient of shifted ints is scaled by (10^(2 * 9) < 2^64); 2^128 is
  no multiple of ten and no product of a word and a number of 128 bits whose overflow the
  test of the high word misses (both because all of these would be powers of 2), so a
  dividend that wraps is never 0; and the places by which a quotient's precision may wrap
  below 0 (19 + 9) are fewer than the greatest precision (65535).
* The guards `Divisible`, `Quantizable` and `RemainderFits` are part of what is proved, but
  for the bound `MaxSpan` on digits, which no proof uses. The exceptions are those
  listed under "Deviations found"; quantizing excepts in addition the products that
  `fpdec_mul` loses (`Overflows`), and a remainder that is the sum of operands of opposite
  signs those sums that lose bits (`DivModIsLost`).

`TextProofs`, for texts of any length:

* `DigitsAreKept`: `Spec => []NoDigitIsLost`. The decimal digits of a literal become a shifted
  int or an array of digits as the number of all of them would, though
  `shint_from_dec_coeff` never has more of it than two words, and
  `digits_from_dec_coeff_exp` only chunks of it.
* `Reads(f, s)` is the number the first `k` digits of `s` write, for every `k`; it is unique, so
  it is what `NumberIn` computes, and parts of `s` can be cut out and joined (`PartsJoin`).
  Both conversions are then inductions over positions, done by the least counterexample:
  `WordsRead` says that the words hold the number read so far or an overflow has been seen
  (`OneMoreDigit` is the step, with the carries between half words); `DigitsRead` that the
  chunks, counted from the end, are the digits of the number in base RADIX (`ArrayValue`,
  from `EndsFacts`: where chunks begin and end). `LiteralParsed` is what the parser guarantees
  to both: there is a digit, and the exponent is within the limits, also after it wrapped.
* `CoefficientsAreExact`: `Spec => []CoefficientIsExact`. It holds because of the form of the number
  asked for, so its inductive invariant adds `ReadyIsStored`: a number that was read or made
  is `Stored`, that is, a shifted int within its limit, or digits that are counted
  and have no zeros at the end (`StoredLiteral`, `StoredDigits`). The exponent is that of the
  number as long as `ExponentWraps` does not hold; coefficient, sign and refusal without that.
* `NumberTaken` goes along the cases of the code. With three digits (`ThreeTaken`), zeros of the
  lowest digit are left out, and two parts are added: that the sum is seen to overflow
  needs the lower part to fit, and that 2^128 - 1 always stands for an overflow holds
  because it is odd, and a product with a power of ten is not. With more, it is shown that the
  number cannot fit (`MoreNotTaken`): zeros at the end would have to be a whole digit of them. The product that
  wraps unnoticed (`CoefficientWraps`) is excepted, see above.
* What is assumed besides: half words whose square is a word (`HalfAssumption`), a natural
  number as the greatest `int64_t` (`ExponentAssumption`), and that texts are texts and exponents
  `int32_t` (`TextAssumption`).

Only model-checked:

* Termination (`Termination`, `DivisionTerminates`): liveness under fairness.
* `LiteralsAreReadExactly`, `TextSaysNumber`, `TextFitsBuffer` and `LiteralsReadBack` of `Text`: what a
  text says, and how long one is that is put together of groups, separators and fill, is
  the value of a recursive reading or writing of sequences of characters, for every text
  an induction over data.
* Those of `Uint128`: bitwise operations and products of unknowns.

## What is not modelled

* `fpdec_dump`, `Decimal::dump`, the wording of exceptions, trivial accessors
  (`fpdec_is_neg`, ...): layout, or a single field.
* The comparisons of `Decimal` with integers, which build a temporary shifted int and
  compare; creation and comparison are covered.
* Allocation of `fpdec_t` itself (`fpdec_new`), build variants other than the two forms
  of 128-bit arithmetic.
* `src/thirdparty/catch` (the test framework, 16,865 of the 22,623 lines of
  implementation) and the tests. Of the library's own 5,758 lines about 70 % are
  mapped; the rest is declarations, includes, comments and the above.
* The buffer of `fpdec_from_unicode_literal` (`fpdec.c:219-245`): the digits of other
  scripts are modelled, the copy they are written to is of the literal's size plus one.
* The private constructor of `Decimal` (`fpdecimal.hpp:112`), which nothing calls.
* Texts with 2^31 zeros or more: the zeros are counted in ints (`fpdec.c:1215-1233`), and
  `Writable` leaves such numbers out.
* The `int32_t` of `fpdec.c:587`, which is unbounded in `fpdec_normalize_prec`: where it
  wraps only a precision could change, not the number.
* Values beyond the bounds above, where a run's guard names them (`Alignable`, `Divisible`,
  `Formattable`): in particular magnitudes that overflow an `int32_t` (`fpdec.c:465`) and the
  rounding of `log10` (`shifted_int.h:37`), which the hazards list without a property.
