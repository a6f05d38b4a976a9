-------------------------------- MODULE MCText --------------------------------
(***************************************************************************)
(* Model checking of Text in base 10000, with words of 14 bits and shifted *)
(* ints of 20: all texts of up to 5 of 7 characters, and some literals     *)
(* that are read and written again in formats with all kinds of parts.     *)
(***************************************************************************)
EXTENDS Text

(* coeff * 10^-prec, written with at least n digits. *)
Plain(sign, coeff, n, prec) ==
  LET digits == DecDigits(coeff, MAX(n, Len(AllDecDigits(coeff))))
      int == Len(digits) - prec
  IN  sign \o SubSeq(digits, 1, int)
      \o (IF prec = 0 THEN <<>> ELSE << "." >> \o SubSeq(digits, int + 1, Len(digits)))

MCShown ==
  {Plain(<<>>, 0, 3, 2),               (* 0.00                             *)
   Plain(<< "-" >>, 155, 3, 1),        (* -15.5                            *)
   Plain(<<>>, 995, 3, 2),             (* 9.95                             *)
   Plain(<<>>, 1048575, 7, 2),         (* the greatest shifted int         *)
   Plain(<< "-" >>, 1048575, 7, 0),
   Plain(<<>>, 1048576, 7, 0),         (* one more                         *)
   Plain(<< "-" >>, 49, 5, 4),         (* -0.0049                          *)
   Plain(<<>>, 123456, 7, 6),          (* 0.123456                         *)
   Plain(<<>>, 1000010, 7, 4),         (* 100.0010                         *)
   Plain(<<>>, 12345678, 8, 0),
   Plain(<< "-" >>, 999995, 6, 4),     (* -99.9995                         *)
   Plain(<<>>, 1, 10, 9)}              (* 0.000000001                      *)

(* Exponents at the limit, and beyond it where the int64_t wraps to 2. *)
MCPowers ==
  {<< "5", "e" >> \o sign \o digits :
     sign \in {<<>>, << "-" >>, << "+" >>},
     digits \in {AllDecDigits(n) : n \in {9, 11, 12, 15, 16, 60, 61, 205, 2050, 2047, 2048, 4100}}}

(* Coefficients about the limit of shifted ints, also with zeros added in two rounds. *)
MCCoefficients ==
  {AllDecDigits(n) : n \in {99999, 163839, 163840, 163841, 999999, 1048569, 1048575, 1048576,
                            1048579, 1048580, 1638400, 9999999}}
  \cup {AllDecDigits(n) \o << "e", e >> : n \in {1, 9, 10, 32, 65, 99, 104, 105}, e \in {"3", "4", "5", "6"}}

MCLiterals ==
  MCShown \cup MCPowers \cup MCCoefficients \cup {<< "5", ".", "0", "0", "e", "-", "1", "0", "2", "3" >>}
  \cup UNION {[1 .. n -> {" ", "+", "-", "0", "5", ".", "e"}] : n \in 0 .. 5}

MCWideLiterals ==
  UNION {[1 .. n -> {" ", "em", "ohm", "-", "0", "9"}] : n \in 0 .. 3}
  \cup {<< "em", "-", "1", "2", "3", ".", "4", "5", "6", "7", "e", "8", " " >>,
        << "1", "e", "5", "em" >>}

(* ASCII, first, neighbouring, fullwidth and last ranges. *)
MCZeros == {48, 1632, 1776, 2406, 4160, 6784, 6800, 7232, 7248, 65296, 70096, 125264}

MCDigitValues ==
  {<< 1, 5, 1 >>,           (* 50000, becomes a shifted int when multiplied *)
   << -1, 70001, -1 >>,
   << 1, 2, 2 >>,
   << 1, 30, 4 >>,          (* four decimal places each: 16 wraps to -16    *)
   << -1, 70001, -5 >>,
   << 1, 200001000, 7 >>,
   << 1, 200000001, 0 >>,   (* three digits: 128 bits                       *)
   << -1, 200001000, -1 >>, (* with zeros at their end                      *)
   << 1, 300000001, 0 >>,   (* beyond 128 bits                              *)
   << -1, 2000000001, 0 >>}

MCFormats ==
  [fill : {<<>>}, align : {<<>>, << "<" >>, << "^" >>}, sign : {<<>>, << "+" >>},
   zero : {<<>>, << "0" >>}, width : {<<>>, << "1", "1" >>}, sep : {<<>>, << "," >>},
   prec : {<<>>, << "0" >>, << "2" >>, << "3" >>}, type : {<<>>, << "%" >>, << "n" >>},
   rest : {<<>>}]
  \cup
  [fill : {<< "0" >>, << "wide" >>}, align : {<< "=" >>, << ">" >>}, sign : {<< "-" >>, << " " >>},
   zero : {<<>>, << "0" >>}, width : {<< "9" >>, << "1", "2" >>}, sep : {<<>>, << "," >>},
   prec : {<< "2" >>, << "1", "5" >>}, type : {<< "%" >>, << "n" >>}, rest : {<<>>}]
  \cup
  [fill : {<<>>}, align : {<<>>}, sign : {<<>>}, zero : {<<>>, << "0" >>}, width : {<<>>, << "5" >>},
   sep : {<<>>}, prec : {<<>>}, type : {<<>>, << "f" >>},
   rest : {<< "x" >>, << "." >>, << "broken" >>}]

Locale(sep, grouping, point) ==
  [thousands_sep |-> sep, grouping |-> grouping, decimal_point |-> point]

MCLocales ==
  {Locale(<<>>, <<>>, << "." >>),
   Locale(<< "." >>, << 3, 3 >>, << "," >>),
   Locale(<< "wide" >>, << 1 >>, << "wide" >>),
   Locale(<< "," >>, << 3, 2 >>, << "." >>),
   Locale(<< "," >>, << 2, 0 >>, << "." >>),
   Locale(<< "broken" >>, << 3 >>, << "," >>),
   Locale(<<>>, <<>>, <<>>)}

=============================================================================
