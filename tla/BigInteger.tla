------------------------------ MODULE BigInteger ------------------------------
(***************************************************************************)
(* internal/biginteger.h: the long integers strtod.h compares decimals     *)
(* with.  A word has WordBits bits (64) and halves of half as many; the    *)
(* array keeps what earlier values left behind the count.  PowLong and     *)
(* PowShort are the powers of five that fit a word (27) and half a word    *)
(* (13), ChunkDigits the decimals that fit a word (19).                    *)
(***************************************************************************)
EXTENDS Integers, Sequences, SequencesExt, FiniteSetsExt

CONSTANTS
  WordBits, PowLong, PowShort, ChunkDigits, Capacity,
  Addends, Factors, Shifts, Powers, Decimals,  \* the operands
  MaxBig, MaxBigSteps                          \* values stay below, and steps

ASSUME BigIntegerAssumption ==
  /\ {WordBits, PowLong, PowShort, ChunkDigits, Capacity, MaxBig, MaxBigSteps} \subseteq Nat \ {0}
  /\ WordBits % 2 = 0 /\ 10 ^ ChunkDigits < 2 ^ WordBits
  /\ 5 ^ PowLong < 2 ^ WordBits /\ 5 ^ PowShort < 2 ^ (WordBits \div 2)
  /\ Addends \cup Factors \subseteq 0 .. 2 ^ WordBits - 1

VARIABLES
  big,     \* count and digits
  rhs,     \* another one
  bigNum,  \* what they stand for
  rhsNum,
  moved,   \* several words were shifted by whole words
  bigSteps

bigVars == <<big, rhs, bigNum, rhsNum, moved, bigSteps>>

Base == 2 ^ WordBits
HalfBase == 2 ^ (WordBits \div 2)
Words == 0 .. Capacity - 1

\* Sum of the words in use.
BigValue(b) == FoldFunctionOnSet(+, 0, [i \in Words |-> b.digits[i] * Base ^ i], 0 .. b.count - 1)

-----------------------------------------------------------------------------
Assign(b, u) == [count |-> 1, digits |-> [b.digits EXCEPT ![0] = u]]
IsZero(b) == b.count = 1 /\ b.digits[0] = 0
IsWord(b, u) == b.count = 1 /\ b.digits[0] = u

PushDigit(b, u) == [count |-> b.count + 1, digits |-> [b.digits EXCEPT ![b.count] = u]]

\* operator+=: the carry runs on while a word gets smaller.
\* As a bug: the carry is looked for once.
BigAdd_once(b, u) ==
  LET d == b.digits
      low == (d[0] + u) % Base
  IN  CASE low >= d[0] -> [b EXCEPT !.digits[0] = low]
        [] low < d[0] /\ b.count > 1 -> [b EXCEPT !.digits = [d EXCEPT ![0] = low, ![1] = (d[1] + 1) % Base]]
        [] OTHER -> PushDigit([b EXCEPT !.digits[0] = low], 1)
BigAdd(b, u) ==
  LET d == b.digits
      new(i) == (d[i] + IF i = 0 THEN u ELSE 1) % Base
      carry[i \in Words] == (i = 0 \/ carry[i - 1]) /\ new(i) < d[i]
      sum == [b EXCEPT !.digits = [i \in Words |->
                IF i = 0 \/ (i < b.count /\ carry[i - 1]) THEN new(i) ELSE d[i]]]
  IN  IF carry[b.count - 1] THEN PushDigit(sum, 1) ELSE sum

\* MulAdd64 out of the four products of halves, each in one word.
MulAdd64(a, b, k) ==
  LET a0 == a % HalfBase
      a1 == a \div HalfBase
      b0 == b % HalfBase
      b1 == b \div HalfBase
      x0 == a0 * b0
      x2 == a1 * b0
      x1 == (a0 * b1 + x0 \div HalfBase + x2) % Base
      x3 == (a1 * b1 + IF x1 < x2 THEN HalfBase ELSE 0) % Base
      lo == (((x1 * HalfBase) % Base) + (x0 % HalfBase)) % Base
      hi == (x3 + x1 \div HalfBase) % Base
      sum == (lo + k) % Base
  IN  [lo |-> sum, hi |-> IF sum < k THEN (hi + 1) % Base ELSE hi]

\* The product of a word and half a word, by halves.
MulAdd32(a, u, k) ==
  LET p0 == (u * (a % HalfBase) + k) % Base
      p1 == (u * (a \div HalfBase) + p0 \div HalfBase) % Base
  IN  [lo |-> (p0 % HalfBase) + ((p1 * HalfBase) % Base), hi |-> p1 \div HalfBase]

\* operator*= by a word, or by halves.
BigMultiply(b, u, halves) ==
  LET MulAdd(a, k) == IF halves THEN MulAdd32(a, u, k) ELSE MulAdd64(a, u, k)
      step[i \in Words] == MulAdd(b.digits[i], IF i = 0 THEN 0 ELSE step[i - 1].hi)
      product == [b EXCEPT !.digits = [i \in Words |-> IF i < b.count THEN step[i].lo ELSE b.digits[i]]]
      k == step[b.count - 1].hi
  IN  CASE u = 0 -> Assign(b, 0)
        [] u = 1 -> b
        [] u > 1 /\ IsWord(b, 1) -> Assign(b, u)
        [] OTHER -> IF k > 0 THEN PushDigit(product, k) ELSE product

\* operator<<=: by whole words it moves from the last word on.
BigShift(b, shift) ==
  LET offset == shift \div WordBits
      inter  == shift % WordBits
      d      == [b.digits EXCEPT ![b.count] = 0]
      top    == b.count - 1 + offset
      whole  == [i \in Words |-> IF i \in top .. top + b.count - 1 THEN b.digits[i - offset] ELSE b.digits[i]]
      parts  == [i \in Words |->
                   CASE i \in offset + 1 .. offset + b.count ->
                          ((d[i - offset] * 2 ^ inter) % Base) + d[i - offset - 1] \div 2 ^ (WordBits - inter)
                     [] i = offset -> (d[0] * 2 ^ inter) % Base
                     [] OTHER -> d[i]]
      new    == IF inter = 0 THEN whole ELSE parts
      count  == b.count + offset + IF inter # 0 /\ parts[b.count + offset] # 0 THEN 1 ELSE 0
  IN  IF IsZero(b) \/ shift = 0 THEN b
      ELSE [count |-> count, digits |-> [i \in Words |-> IF i < offset THEN 0 ELSE new[i]]]

\* MultiplyPow5: by words, by half words, then by what is left.
MultiplyPow5(b, exp) ==
  LET byWords == exp \div PowLong
      byHalves == (exp % PowLong) \div PowShort
      rest == (exp % PowLong) % PowShort
      L[n \in 0 .. byWords] == IF n = 0 THEN b ELSE BigMultiply(L[n - 1], 5 ^ PowLong, FALSE)
      S[n \in 0 .. byHalves] == IF n = 0 THEN L[byWords] ELSE BigMultiply(S[n - 1], 5 ^ PowShort, TRUE)
  IN  IF rest = 0 THEN S[byHalves] ELSE BigMultiply(S[byHalves], 5 ^ rest, TRUE)

\* AppendDecimal64 of at most ChunkDigits decimals.
ParseUint64(digits) == FoldLeft(LAMBDA r, c : (r * 10 + c) % Base, 0, digits)
AppendDecimal64(b, digits) ==
  IF IsZero(b) THEN Assign(b, ParseUint64(digits))
  ELSE BigAdd(BigShift(MultiplyPow5(b, Len(digits)), Len(digits)), ParseUint64(digits))

\* The constructor from decimals, in chunks.
FromDecimals(b, digits) ==
  LET chunks == (Len(digits) + ChunkDigits - 1) \div ChunkDigits
      chunk(n) == SubSeq(digits, (n - 1) * ChunkDigits + 1, Min({n * ChunkDigits, Len(digits)}))
      C[n \in 0 .. chunks] == IF n = 0 THEN Assign(b, 0) ELSE AppendDecimal64(C[n - 1], chunk(n))
  IN  C[chunks]

Compare(a, b) ==
  LET differ == {i \in 0 .. a.count - 1 : a.digits[i] # b.digits[i]}
      top    == Max(differ)
  IN  CASE a.count # b.count -> IF a.count < b.count THEN -1 ELSE 1
        [] a.count = b.count /\ differ = {} -> 0
        [] OTHER -> IF a.digits[top] < b.digits[top] THEN -1 ELSE 1

\* Difference of two that differ, into out.
Difference(l, r, out) ==
  LET a == IF Compare(l, r) < 0 THEN r ELSE l
      b == IF Compare(l, r) < 0 THEN l ELSE r
      minus(x, y) == (x - y + Base) % Base
      step[i \in Words] ==
        LET borrow == IF i > 0 THEN step[i - 1].borrow ELSE 0
            less   == minus(a.digits[i], borrow)
            d      == IF i < b.count THEN minus(less, b.digits[i]) ELSE less
        IN  [d |-> d, borrow |-> IF d > a.digits[i] THEN 1 ELSE 0]
      used == {i \in 0 .. a.count - 1 : step[i].d # 0}
  IN  [count  |-> IF used = {} THEN out.count ELSE Max(used) + 1,
       digits |-> [i \in Words |-> IF i < a.count THEN step[i].d ELSE out.digits[i]]]

-----------------------------------------------------------------------------
\* The arrays start with anything in them.
BigInit ==
  /\ \E junk \in {0, Base - 1} :
       /\ big = Assign([count |-> 1, digits |-> [i \in Words |-> junk]], 0)
       /\ rhs = big
  /\ bigNum = 0 /\ rhsNum = 0 /\ moved = FALSE /\ bigSteps = 0

\* An operation that makes the value n.
Becomes(b, n) ==
  /\ bigSteps < MaxBigSteps /\ n < MaxBig
  /\ big' = b /\ bigNum' = n /\ bigSteps' = bigSteps + 1
  /\ UNCHANGED <<rhs, rhsNum>>

AddWord == \E u \in Addends : Becomes(BigAdd(big, u), bigNum + u) /\ UNCHANGED moved
MultiplyWord ==
  \E u \in Factors :
    /\ u > 0 => bigNum < MaxBig \div u
    /\ Becomes(BigMultiply(big, u, FALSE), bigNum * u)
    /\ UNCHANGED moved
MultiplyHalf ==
  \E u \in Factors :
    /\ u < HalfBase /\ (u > 0 => bigNum < MaxBig \div u)
    /\ Becomes(BigMultiply(big, u, TRUE), bigNum * u)
    /\ UNCHANGED moved
ShiftLeft ==
  \E s \in Shifts :
    /\ bigNum < MaxBig \div 2 ^ s
    /\ Becomes(BigShift(big, s), bigNum * 2 ^ s)
    /\ moved' = (moved \/ (big.count > 1 /\ s > 0 /\ s % WordBits = 0))
TimesPow5 ==
  \E e \in Powers :
    /\ bigNum < MaxBig \div 5 ^ e
    /\ Becomes(MultiplyPow5(big, e), bigNum * 5 ^ e)
    /\ UNCHANGED moved
ReadDecimals ==
  \E ds \in Decimals :
    /\ Becomes(FromDecimals(big, ds), FoldLeft(LAMBDA r, c : r * 10 + c, 0, ds))
    /\ moved' = FALSE
CopyBig ==
  /\ bigSteps < MaxBigSteps /\ bigSteps' = bigSteps + 1 /\ ~moved
  /\ rhs' = [count |-> big.count,
             digits |-> [i \in Words |-> IF i < big.count THEN big.digits[i] ELSE rhs.digits[i]]]
  /\ rhsNum' = bigNum
  /\ UNCHANGED <<big, bigNum, moved>>

BigNext ==
  \/ AddWord \/ MultiplyWord \/ MultiplyHalf \/ ShiftLeft \/ TimesPow5 \/ ReadDecimals \/ CopyBig

-----------------------------------------------------------------------------
\* The lower of two, and whether the code loses no borrow on it: a borrow
\* that meets a word of all ones there leaves the word above as it is.
Lower == IF bigNum < rhsNum THEN big ELSE rhs
BorrowsSeen == \A i \in 1 .. Lower.count - 1 : Lower.digits[i] # Base - 1

(* A long integer stands for the number its operations make: carries run   *)
(* through full words, halves are put together, words that earlier values  *)
(* left behind are never read.  It is compared as that number, and the     *)
(* difference is exact unless a borrow meets a word of all ones            *)
(* (biginteger.h:199).  Left out is operator<<= by whole words, which      *)
(* moves the wrong words of a number of several (biginteger.h:136).        *)
BigExact ==
  ~moved =>
    /\ BigValue(big) = bigNum /\ (big.count > 1 => big.digits[big.count - 1] # 0)
    /\ Compare(big, rhs) = CASE bigNum < rhsNum -> -1 [] bigNum = rhsNum -> 0 [] OTHER -> 1
    /\ bigNum # rhsNum /\ BorrowsSeen =>
         BigValue(Difference(big, rhs, Assign(big, 0))) =
           IF bigNum > rhsNum THEN bigNum - rhsNum ELSE rhsNum - bigNum
=============================================================================
