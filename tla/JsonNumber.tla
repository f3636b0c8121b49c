------------------------------ MODULE JsonNumber ------------------------------
(***************************************************************************)
(* Numbers of a JSON text: ParseNumber of reader.h one character at a      *)
(* time, the integers of internal/itoa.h and the layout of doubles of      *)
(* internal/dtoa.h.  The widths of the machine are constants: UintBits     *)
(* stands for 32, Uint64Bits for 64, FastMax for 2^53 - 1, MaxDigits for   *)
(* 17, DblMaxTenth for DBL_MAX / 10, MaxExp for 308, IntMaxTenth for       *)
(* INT_MAX / 10.  A double is an exact integer d and a power of ten: the   *)
(* rounding of the machine is left out.                                    *)
(***************************************************************************)
EXTENDS Integers, Sequences, SequencesExt, FiniteSetsExt

CONSTANTS
  UintBits, Uint64Bits, FastMax, MaxDigits, DblMaxTenth, MaxExp, IntMaxTenth,
  NumberSymbols, MaxNumber,   \* what is read
  PointMin, PointMax,         \* dtoa.h: 6 places below and 21 above the point
  Radix                       \* itoa.h: 10

ASSUME JsonNumberAssumption ==
  /\ {UintBits, Uint64Bits, FastMax, MaxDigits, DblMaxTenth, IntMaxTenth, MaxNumber, PointMax} \subseteq Nat \ {0}
  /\ UintBits < Uint64Bits /\ MaxExp >= 9 /\ PointMin \in Nat
  /\ NumberSymbols \subseteq 0 .. 15 /\ Radix >= 2

VARIABLES
  ntext,   \* the characters taken
  number,  \* the locals of ParseNumber
  printed  \* the integer printed

numberVars == <<ntext, number, printed>>

\* Digits are themselves; Word is NaN or Inf or Infinity, Other all else.
Dot == 10
Exp == 11
Plus == 12
Minus == 13
Word == 14
Other == 15
Digit(c) == c \in 0 .. 9

NumberStart ==
  [at |-> "start", minus |-> FALSE, i |-> 0, use64bit |-> FALSE, useDouble |-> FALSE, nan |-> FALSE,
   significandDigit |-> 0, d |-> 0, expFrac |-> 0, exp |-> 0, expMinus |-> FALSE, err |-> "none"]

NumberFails(s, e) == [s EXCEPT !.at = "end", !.err = e]

-----------------------------------------------------------------------------
(* ParseNumber. *)

\* What the magnitude may not exceed: 2^(w-1) below zero, 2^w - 1 above.
Limit(s, w) == IF s.minus THEN 2 ^ (w - 1) ELSE 2 ^ w - 1

\* One more digit does not fit the width.
\* As a bug: the last digit is not looked at.
Over_tenth(s, c, w) == s.i > Limit(s, w) \div 10
Over(s, c, w) ==
  /\ s.i >= Limit(s, w) \div 10
  /\ s.i # Limit(s, w) \div 10 \/ c > Limit(s, w) % 10

\* A further digit of the integer part: the loops of 32 bits, of 64 bits and
\* of the double, each left for the next one with the digit still to be taken.
IntDigit(s, c) ==
  LET wide == s.use64bit \/ Over(s, c, UintBits)
      big  == s.useDouble \/ (wide /\ Over(s, c, Uint64Bits))
      d    == IF s.useDouble THEN s.d ELSE s.i
  IN  CASE big /\ d >= DblMaxTenth -> NumberFails(s, "NumberTooBig")
        [] big /\ d < DblMaxTenth ->
             [s EXCEPT !.use64bit = TRUE, !.useDouble = TRUE, !.d = d * 10 + c]
        [] OTHER ->
             [s EXCEPT !.use64bit = wide, !.i = @ * 10 + c, !.significandDigit = @ + 1]

\* A digit of the fraction: in the integer while that is below 2^53, then in
\* the double while there are digits to be had, then dropped.
SlowFrac(s, c) ==
  IF s.significandDigit < MaxDigits
  THEN [s EXCEPT !.at = "frac", !.d = @ * 10 + c, !.expFrac = @ - 1,
                 !.significandDigit = IF s.d * 10 + c > 0 THEN @ + 1 ELSE @]
  ELSE [s EXCEPT !.at = "frac"]
FracDigit(s, c) ==
  IF s.useDouble THEN SlowFrac(s, c)
  ELSE IF s.i > FastMax THEN SlowFrac([s EXCEPT !.d = s.i, !.useDouble = TRUE], c)
  ELSE [s EXCEPT !.at = "frac", !.i = @ * 10 + c, !.expFrac = @ - 1,
                 !.significandDigit = IF s.i * 10 + c # 0 THEN @ + 1 ELSE @]

ExpDigit(s, c) ==
  LET e == s.exp * 10 + c
  IN  CASE s.expMinus -> [s EXCEPT !.exp = e, !.at = IF e >= IntMaxTenth THEN "expRest" ELSE @]
        [] ~s.expMinus /\ e > MaxExp - s.expFrac -> NumberFails(s, "NumberTooBig")
        [] OTHER -> [s EXCEPT !.exp = e]

ToDouble(s) == IF s.useDouble THEN s ELSE [s EXCEPT !.d = s.i, !.useDouble = TRUE]

\* What follows a complete integer or fraction.
NumberBehind(s, c) ==
  CASE c = Dot /\ s.at # "frac" -> [s EXCEPT !.at = "dot"]
    [] c = Exp -> [ToDouble(s) EXCEPT !.at = "e"]
    [] OTHER -> [(IF s.at = "frac" THEN ToDouble(s) ELSE s) EXCEPT !.at = "end"]

\* One character: taken, or found not to belong to the number.
NumberStep(s, c) ==
  CASE s.at = "start" /\ c = Minus -> [s EXCEPT !.at = "first", !.minus = TRUE]
    [] s.at \in {"start", "first"} /\ c = 0 -> [s EXCEPT !.at = "behind"]
    [] s.at \in {"start", "first"} /\ c \in 1 .. 9 -> [s EXCEPT !.at = "int", !.i = c]
    [] s.at \in {"start", "first"} /\ c = Word -> [s EXCEPT !.at = "behind", !.nan = TRUE]
    [] \/ s.at = "first" /\ c \notin (0 .. 9) \cup {Word}
       \/ s.at = "start" /\ c \notin (0 .. 9) \cup {Word, Minus} -> NumberFails(s, "ValueInvalid")
    [] s.at = "int" /\ Digit(c) -> IntDigit(s, c)
    [] s.at = "dot" -> IF Digit(c) THEN FracDigit(s, c) ELSE NumberFails(s, "NumberMissFraction")
    [] s.at = "frac" /\ Digit(c) -> FracDigit(s, c)
    [] s.at = "e" /\ c \in {Plus, Minus} -> [s EXCEPT !.at = "sign", !.expMinus = c = Minus]
    [] s.at \in {"e", "sign"} /\ Digit(c) -> [s EXCEPT !.at = "exp", !.exp = c]
    [] \/ s.at = "e" /\ c \notin (0 .. 9) \cup {Plus, Minus}
       \/ s.at = "sign" /\ ~Digit(c) -> NumberFails(s, "NumberMissExponent")
    [] s.at = "exp" /\ Digit(c) -> ExpDigit(s, c)
    [] s.at = "expRest" /\ Digit(c) -> s
    [] s.at \in {"exp", "expRest"} /\ ~Digit(c) -> [s EXCEPT !.at = "end"]
    [] s.at = "behind" \/ (s.at \in {"int", "frac"} /\ ~Digit(c)) -> NumberBehind(s, c)
    [] s.at = "end" -> s

\* StrtodNormalPrecision: at most two divisions by a power of the table.
StrtodNormalPrecision(d, p) == IF p < -2 * MaxExp THEN [d |-> 0, p |-> 0] ELSE [d |-> d, p |-> p]

\* The event the handler gets.
NumberEvent(s) ==
  LET p == (IF s.expMinus THEN -s.exp ELSE s.exp) + s.expFrac
      r == StrtodNormalPrecision(s.d, p)
  IN  CASE s.useDouble -> [kind |-> "Double", minus |-> s.minus, value |-> r.d, p |-> r.p]
        [] ~s.useDouble /\ s.nan -> [kind |-> "NaN", minus |-> s.minus, value |-> 0, p |-> 0]
        [] OTHER -> [kind |-> IF s.use64bit THEN IF s.minus THEN "Int64" ELSE "Uint64"
                              ELSE IF s.minus THEN "Int" ELSE "Uint",
                     minus |-> s.minus, value |-> s.i, p |-> 0]

ParseNumber(text) == FoldLeft(NumberStep, NumberStart, Append(text, Other))

-----------------------------------------------------------------------------
(* A value of the document: each constructor sets the flags of the kinds   *)
(* the number may be taken as.                                             *)

\* No bit of i from bit w up.
Below(i, w) == i < 2 ^ w

NumberFlags(kind, i) ==
  LET U == UintBits
      W == Uint64Bits
      narrow == (IF Below(i, U) THEN {"Uint"} ELSE {}) \cup (IF Below(i, U - 1) THEN {"Int"} ELSE {})
  IN  CASE kind = "Int" -> {"Int", "Int64"} \cup IF i >= 0 THEN {"Uint", "Uint64"} ELSE {}
        [] kind = "Uint" -> {"Uint", "Uint64", "Int64"} \cup IF Below(i, U - 1) THEN {"Int"} ELSE {}
        [] kind = "Int64" -> {"Int64"} \cup IF i >= 0 THEN {"Uint64"} \cup narrow
                                           ELSE IF i >= -(2 ^ (U - 1)) THEN {"Int"} ELSE {}
        [] kind = "Uint64" -> {"Uint64"} \cup narrow \cup IF Below(i, W - 1) THEN {"Int64"} ELSE {}

-----------------------------------------------------------------------------
(* Printing an integer: itoa.h works in groups of two, four and eight. *)

Lut(v)   == <<v \div Radix, v % Radix>>
Four(v)  == Lut(v \div Radix ^ 2) \o Lut(v % Radix ^ 2)
Eight(v) == Four(v \div Radix ^ 4) \o Four(v % Radix ^ 4)

\* The digits of a leading group, each put only if the value reaches it; low
\* digits follow the group.
Leading(v, group, low) ==
  LET n     == Len(group)
      first == Min({p \in 1 .. n : p = n \/ v >= Radix ^ (low + n - p)})
  IN  SubSeq(group, first, n)

u32toa(v) ==
  LET a == v \div Radix ^ 8
  IN  CASE v < Radix ^ 4 -> Leading(v, Four(v), 0)
        [] v >= Radix ^ 4 /\ v < Radix ^ 8 -> Leading(v, Four(v \div Radix ^ 4), 4) \o Four(v % Radix ^ 4)
        [] OTHER -> (IF a >= Radix THEN Lut(a) ELSE <<a>>) \o Eight(v % Radix ^ 8)

u64toa(v) ==
  LET a == v \div Radix ^ 16
      r == v % Radix ^ 16
      top == CASE a < Radix -> <<a>>
               [] a >= Radix /\ a < Radix ^ 2 -> Lut(a)
               [] a >= Radix ^ 2 /\ a < Radix ^ 3 -> <<a \div Radix ^ 2>> \o Lut(a % Radix ^ 2)
               [] OTHER -> Lut(a \div Radix ^ 2) \o Lut(a % Radix ^ 2)
  IN  CASE v < Radix ^ 8 -> u32toa(v)
        [] v >= Radix ^ 8 /\ v < Radix ^ 16 -> Leading(v, Eight(v \div Radix ^ 8), 8) \o Eight(v % Radix ^ 8)
        [] OTHER -> top \o Eight(r \div Radix ^ 8) \o Eight(r % Radix ^ 8)

-----------------------------------------------------------------------------
(* Laying out the digits of a double, of value digits * 10^k. *)

Zeros(n) == [z \in 1 .. n |-> 0]

\* WriteExponent: the sign and the digits, at most three of them.
WriteExponent(K) ==
  LET a == IF K < 0 THEN -K ELSE K
  IN  (IF K < 0 THEN <<Minus>> ELSE <<>>) \o
      CASE a >= 100 -> <<a \div 100, (a % 100) \div 10, a % 10>>
        [] a >= 10 /\ a < 100 -> <<a \div 10, a % 10>>
        [] OTHER -> <<a>>

\* The text cut behind its last digit that is not zero and not beyond last,
\* with at least one digit behind the point.
Cut(text, point, last) ==
  SubSeq(text, 1, Max({point + 1} \cup {j \in point + 2 .. last : text[j] # 0}))

Prettify(digits, k, places) ==
  LET n     == Len(digits)
      kk    == n + k
      mixed == SubSeq(digits, 1, kk) \o <<Dot>> \o SubSeq(digits, kk + 1, n)
      small == <<0, Dot>> \o Zeros(-kk) \o digits
  IN  CASE 0 <= k /\ kk <= PointMax -> digits \o Zeros(k) \o <<Dot, 0>>
        [] k < 0 /\ 0 < kk /\ kk <= PointMax ->
             IF 0 > k + places THEN Cut(mixed, kk + 1, kk + 1 + places) ELSE mixed
        [] -PointMin < kk /\ kk <= 0 ->
             IF n - kk > places THEN Cut(small, 2, 2 + places) ELSE small
        [] OTHER ->
             IF kk < -places THEN <<0, Dot, 0>>
             ELSE (IF n = 1 THEN digits ELSE <<Head(digits), Dot>> \o Tail(digits))
                    \o <<Exp>> \o WriteExponent(kk - 1)

-----------------------------------------------------------------------------
JsonNumberInit == ntext = <<>> /\ number = NumberStart /\ printed = 0

TakeCharacter ==
  /\ Len(ntext) < MaxNumber /\ number.at # "end" /\ printed = 0
  /\ \E c \in NumberSymbols :
       /\ number' = NumberStep(number, c)
       /\ ntext' = Append(ntext, c)
  /\ UNCHANGED printed

\* Powers of the radix and their neighbours near and far.
PrintInteger ==
  /\ ntext = <<>> /\ printed = 0
  /\ \E a, b \in 0 .. 19, sign \in {-1, 0, 1} :
       b <= a /\ printed' = Radix ^ a + sign * Radix ^ b
  /\ UNCHANGED <<ntext, number>>

JsonNumberNext == TakeCharacter \/ PrintInteger

-----------------------------------------------------------------------------
\* The number a sequence of digits writes, to a base.
DigitsValue(digits, base) == FoldLeft(LAMBDA v, c : v * base + c, 0, digits)

\* The parts of a number's text, as RFC 7159 has them.
PlaceOf(text, c) == Min({Len(text) + 1} \cup {j \in DOMAIN text : text[j] = c})
Mantissa(text) == SubSeq(text, 1, PlaceOf(text, Exp) - 1)
AllDigits(text) == DigitsValue(SelectSeq(Mantissa(text), Digit), 10)
FracDigits(text) ==
  LET m == Mantissa(text) IN IF PlaceOf(m, Dot) > Len(m) THEN 0 ELSE Len(m) - PlaceOf(m, Dot)
Exponent(text) ==
  LET e == SubSeq(text, PlaceOf(text, Exp) + 1, Len(text))
      v == DigitsValue(SelectSeq(e, Digit), 10)
  IN  IF e # <<>> /\ e[1] = Minus THEN -v ELSE v
WholeNumber(text) == \A j \in DOMAIN text : text[j] \notin {Dot, Exp, Word}

\* A number's text as it stands when the parser has found its end.
Complete == number.at = "end" /\ number.err = "none"
Taken == Front(ntext)

(* A whole number is reported in the narrowest kind that holds it and with *)
(* its value; a double keeps all digits, or as many as its precision asks, *)
(* and the exponent that belongs to them: 2^31, 2^32 - 1 and their 64-bit  *)
(* fellows are where the loops hand over (reader.h:1155), the 17th digit   *)
(* where they stop (reader.h:1271).  The power of ten looked up lies in    *)
(* the table, however long the fraction and the exponent are.              *)
ParsedExact ==
  Complete /\ ~number.nan => \A e \in {NumberEvent(number)}, all \in {AllDigits(Taken)} :
    LET dropped == FracDigits(Taken) + number.expFrac
        fits(w) == all <= Limit(number, w)
    IN  IF WholeNumber(Taken)
        THEN /\ e.value = all /\ e.p = 0
             /\ e.kind = CASE fits(UintBits) -> IF number.minus THEN "Int" ELSE "Uint"
                           [] ~fits(UintBits) /\ fits(Uint64Bits) -> IF number.minus THEN "Int64" ELSE "Uint64"
                           [] OTHER -> "Double"
        ELSE /\ e.kind = "Double" /\ dropped >= 0
             /\ number.d = all \div 10 ^ dropped
             /\ dropped > 0 => number.d >= 10 ^ (MaxDigits - 1)
             /\ e.p <= MaxExp
             /\ number.exp < 10 * IntMaxTenth
             /\ number.exp < IntMaxTenth /\ e.value # 0 =>
                  e.p = Exponent(Taken) - FracDigits(Taken) + dropped

\* The kinds that hold i.
Kinds(i) ==
  {k \in {"Int", "Uint", "Int64", "Uint64"} :
     LET w == IF k \in {"Int", "Uint"} THEN UintBits ELSE Uint64Bits
     IN  IF k \in {"Int", "Int64"} THEN i \in -(2 ^ (w - 1)) .. 2 ^ (w - 1) - 1
         ELSE i \in 0 .. 2 ^ w - 1}

(* A value may be taken as exactly the kinds that hold it, whichever       *)
(* constructor made it (document.h:634-671).                               *)
KindsExact ==
  \A i \in {printed, -printed} : \A k \in Kinds(i) : NumberFlags(k, i) = Kinds(i)

(* An integer is printed in its digits, without a leading zero, across the *)
(* borders of the groups itoa.h works in (itoa.h:39, :117).                *)
IntegersPrinted ==
  \A text \in {u64toa(printed)} \cup IF printed < Radix ^ 10 THEN {u32toa(printed)} ELSE {} :
    /\ DigitsValue(text, Radix) = printed
    /\ Len(text) > 1 => text[1] # 0

(* A double laid out in any of the five forms of Prettify is read back as  *)
(* the same digits and power; with few decimal places it is cut to them    *)
(* towards zero, and loses less than the last of them (dtoa.h:144).        *)
LayoutReadBack ==
  (ntext # <<>> /\ Len(ntext) <= MaxDigits /\ \A j \in DOMAIN ntext : Digit(ntext[j]) /\ ntext[1] # 0) =>
    \A k \in -PointMin - 3 .. PointMax + 2, places \in {1, 2, 40} :
      \A text \in {Prettify(ntext, k, places)} : \A s \in {ParseNumber(text)} : \A e \in {NumberEvent(s)} :
        LET low == Min({k, e.p})
            was == DigitsValue(ntext, 10) * 10 ^ (k - low)
            is  == e.value * 10 ^ (e.p - low)
        IN  /\ s.at = "end" /\ s.err = "none" /\ e.kind = "Double"
            /\ is <= was
            /\ places = 40 => is = was
            /\ places < 40 /\ PlaceOf(text, Exp) > Len(text) => FracDigits(text) <= places
            /\ is # was => was - is < 10 ^ (-places - low)

(* What a text says is what the document holds, and what is printed is     *)
(* what is meant (reader.h:1134, itoa.h, dtoa.h).                          *)
NumberExact == ParsedExact /\ KindsExact /\ IntegersPrinted /\ LayoutReadBack
=============================================================================
