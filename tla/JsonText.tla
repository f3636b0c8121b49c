------------------------------- MODULE JsonText -------------------------------
(***************************************************************************)
(* The characters of a JSON text: encodings.h (UTF-8, UTF-16, UTF-32 with  *)
(* their byte orders and marks), encodedstream.h (which of them a stream   *)
(* is in), ParseString of reader.h, WriteString of writer.h, and the       *)
(* library's own json_writer.hpp.  Bytes and code units are numbers, a     *)
(* stream is a sequence that ends in zeros.                                *)
(***************************************************************************)
EXTENDS Integers, Sequences, SequencesExt, FiniteSetsExt

CONSTANTS
  Codepoints, MaxCodepoints,  \* what is written
  Octets, MaxOctets           \* what is read

ASSUME JsonTextAssumption ==
  /\ Codepoints \subseteq 1 .. 1114111 /\ Octets \subseteq 0 .. 255
  /\ MaxCodepoints \in Nat /\ MaxOctets \in Nat

VARIABLES codepoints, octets

jsonTextVars == <<codepoints, octets>>

Surrogate(u) == u \in 55296 .. 57343
Lead(u)      == u \in 55296 .. 56319
Trail(u)     == u \in 56320 .. 57343

At0(s, i) == IF i <= Len(s) THEN s[i] ELSE 0

-----------------------------------------------------------------------------
(* UTF-8. *)

TailByte(cp, shift) == 128 + ((cp \div shift) % 64)

Encode8(cp) ==
  CASE cp <= 127   -> <<cp>>
    [] cp \in 128 .. 2047 -> <<192 + cp \div 64, TailByte(cp, 1)>>
    [] cp \in 2048 .. 65535 -> <<224 + cp \div 4096, TailByte(cp, 64), TailByte(cp, 1)>>
    [] OTHER -> <<240 + cp \div 262144, TailByte(cp, 4096), TailByte(cp, 64), TailByte(cp, 1)>>

\* GetRange: classes of bytes; 16, 64 and 32 are the three ranges of tails.
GetRange(c) ==
  CASE c \in 0 .. 127   -> 0
    [] c \in 128 .. 143 -> 16
    [] c \in 144 .. 159 -> 64
    [] c \in 160 .. 191 -> 32
    [] c \in 194 .. 223 -> 2
    [] c = 224 -> 10
    [] c = 237 -> 4
    [] c \in 225 .. 239 /\ c # 237 -> 3
    [] c = 240 -> 11
    [] c \in 241 .. 243 -> 6
    [] c = 244 -> 5
    [] OTHER -> 8

\* The ranges allowed for the first tail, and how many tails there are.
AnyTail == {16, 64, 32}
FirstTail(type) ==
  CASE type = 4 -> {16, 64} [] type = 5 -> {16} [] type = 10 -> {32} [] type = 11 -> {64, 32} [] OTHER -> AnyTail
Tails(type) ==
  CASE type = 2 -> 1 [] type \in {3, 4, 10} -> 2 [] type \in {5, 6, 11} -> 3 [] OTHER -> 0

\* The bits of the first byte that belong to the code point: 0xFF >> type.
Bits(c, type) == c % (2 ^ (8 - Min({type, 8})))

\* As a bug: the first tail of a form of four bytes is any tail.
DecodeAt_anyTail(s, i) ==
  LET type == GetRange(s[i])
      n    == Tails(type)
      ok   == \/ s[i] < 128
              \/ n > 0 /\ \A k \in 1 .. n :
                   GetRange(At0(s, i + k)) \in IF k = 1 /\ n < 3 THEN FirstTail(type) ELSE AnyTail
      cp   == FoldFunction(+, 0, [k \in 0 .. n |->
                 IF k = 0 THEN Bits(s[i], type) * 64 ^ n ELSE (At0(s, i + k) % 64) * 64 ^ (n - k)])
  IN  [ok |-> ok, cp |-> cp, next |-> i + 1 + n]
DecodeAt(s, i) ==
  LET type == GetRange(s[i])
      n    == Tails(type)
      ok   == \/ s[i] < 128
              \/ n > 0 /\ \A k \in 1 .. n :
                   GetRange(At0(s, i + k)) \in IF k = 1 THEN FirstTail(type) ELSE AnyTail
      cp   == FoldFunction(+, 0, [k \in 0 .. n |->
                 IF k = 0 THEN Bits(s[i], type) * 64 ^ n ELSE (At0(s, i + k) % 64) * 64 ^ (n - k)])
  IN  [ok |-> ok, cp |-> cp, next |-> i + 1 + n]

Decode8(s) == DecodeAt(s, 1)

-----------------------------------------------------------------------------
(* UTF-16 and UTF-32. *)

Encode16(cp) ==
  IF cp <= 65535 THEN <<cp>>
  ELSE <<55296 + (cp - 65536) \div 1024, 56320 + ((cp - 65536) % 1024)>>

Decode16(s, i) ==
  CASE ~Surrogate(s[i]) -> [ok |-> TRUE, cp |-> s[i], next |-> i + 1]
    [] Lead(s[i]) -> [ok |-> Trail(At0(s, i + 1)), next |-> i + 2,
                      cp |-> 65536 + (s[i] % 1024) * 1024 + (At0(s, i + 1) % 1024)]
    [] OTHER -> [ok |-> FALSE, cp |-> 0, next |-> i + 1]

Encode32(cp) == <<cp>>
Decode32(s, i) == [ok |-> s[i] <= 1114111, cp |-> s[i], next |-> i + 1]

EncodeAscii(cp) == <<cp % 256>>
DecodeAscii(s, i) == [ok |-> s[i] <= 127, cp |-> s[i], next |-> i + 1]

Types == {"UTF8", "UTF16LE", "UTF16BE", "UTF32LE", "UTF32BE"}

Units(type, cp) ==
  CASE type = "UTF8" -> Encode8(cp) [] type \in {"UTF16LE", "UTF16BE"} -> Encode16(cp) [] OTHER -> Encode32(cp)

\* A code point of UTF-8 in another encoding, or one unit in the same.
Transcode(type, s, i) ==
  LET v == DecodeAt(s, i)
  IN  IF type = "UTF8" THEN [ok |-> TRUE, next |-> i + 1, out |-> <<s[i]>>]
      ELSE [ok |-> v.ok, next |-> v.next, out |-> Units(type, v.cp)]

\* Put of a code unit, byte by byte.
PutUnit(type, u) ==
  CASE type = "UTF8"    -> <<u>>
    [] type = "UTF16LE" -> <<u % 256, u \div 256>>
    [] type = "UTF16BE" -> <<u \div 256, u % 256>>
    [] type = "UTF32LE" -> <<u % 256, (u \div 256) % 256, u \div 65536, 0>>
    [] type = "UTF32BE" -> <<0, u \div 65536, (u \div 256) % 256, u % 256>>

\* Take of a code unit at byte i.
Width(type) == CASE type = "UTF8" -> 1 [] type \in {"UTF16LE", "UTF16BE"} -> 2 [] OTHER -> 4
TakeUnit(type, b, i) ==
  CASE type = "UTF8"    -> At0(b, i)
    [] type = "UTF16LE" -> At0(b, i) + 256 * At0(b, i + 1)
    [] type = "UTF16BE" -> 256 * At0(b, i) + At0(b, i + 1)
    [] type = "UTF32LE" -> At0(b, i) + 256 * At0(b, i + 1) + 65536 * At0(b, i + 2)
    [] type = "UTF32BE" -> 65536 * At0(b, i + 1) + 256 * At0(b, i + 2) + At0(b, i + 3)

Mark(type) == IF type = "UTF8" THEN <<239, 187, 191>> ELSE PutUnit(type, 65279)

PutText(type, cps, mark) ==
  (IF mark THEN Mark(type) ELSE <<>>) \o
    FlattenSeq([i \in DOMAIN cps |->
      FlattenSeq([j \in DOMAIN Units(type, cps[i]) |-> PutUnit(type, Units(type, cps[i])[j])])])

\* The units of a stream from byte i on.
TakeAll(type, b, i) ==
  [k \in 1 .. (Len(b) - i + 1) \div Width(type) |-> TakeUnit(type, b, i + (k - 1) * Width(type))]

\* TakeBOM: the byte it delivers first.  Of a mark that is not complete the
\* bytes before are gone.
TakeBOM(type, b) ==
  CASE type # "UTF8" -> IF TakeUnit(type, b, 1) = 65279 THEN 1 + Width(type) ELSE 1
    [] type = "UTF8" -> Min({4} \cup {k \in 1 .. 3 : At0(b, k) # Mark("UTF8")[k]})

\* The one for memory looks for each byte of the mark by itself.
MemoryMark(b) == FoldLeft(LAMBDA i, c : IF At0(b, i) = c THEN i + 1 ELSE i, 1, Mark("UTF8"))

\* DetectType: the marks in this order, then which of four bytes are zero;
\* without four bytes, or with another pattern, the type it was given.
MarkOrder == <<"UTF32BE", "UTF32LE", "UTF16BE", "UTF16LE", "UTF8">>
MarksOf(b) == SelectSeq(MarkOrder, LAMBDA t : SubSeq(b, 1, Len(Mark(t))) = Mark(t))

DetectType(b, given) ==
  LET zero == [k \in 1 .. 4 |-> b[k] = 0]
      type == CASE zero = <<TRUE, TRUE, TRUE, FALSE>>     -> "UTF32BE"
                [] zero = <<TRUE, FALSE, TRUE, FALSE>>    -> "UTF16BE"
                [] zero = <<FALSE, TRUE, TRUE, TRUE>>     -> "UTF32LE"
                [] zero = <<FALSE, TRUE, FALSE, TRUE>>    -> "UTF16LE"
                [] zero = <<FALSE, FALSE, FALSE, FALSE>>  -> "UTF8"
                [] OTHER -> given
  IN  CASE Len(b) < 4 -> [type |-> given, mark |-> FALSE]
        [] Len(b) >= 4 /\ MarksOf(b) # <<>> -> [type |-> MarksOf(b)[1], mark |-> TRUE]
        [] OTHER -> [type |-> type, mark |-> FALSE]

-----------------------------------------------------------------------------
(* ParseStringToStream: the characters behind the opening quote, up to the *)
(* closing one.  34 is the quote, 92 the backslash, 117 the u.             *)

EscapeOf(e) ==
  CASE e \in {34, 47, 92} -> e [] e = 98 -> 8 [] e = 102 -> 12
    [] e = 110 -> 10 [] e = 114 -> 13 [] e = 116 -> 9 [] OTHER -> 0

HexDigit(c) ==
  CASE c \in 48 .. 57 -> c - 48 [] c \in 65 .. 70 -> c - 55 [] c \in 97 .. 102 -> c - 87 [] OTHER -> -1

ParseHex4(s, i) ==
  LET d == [k \in 0 .. 3 |-> HexDigit(At0(s, i + k))]
  IN  IF \E k \in 0 .. 3 : d[k] < 0 THEN -1 ELSE d[0] * 4096 + d[1] * 256 + d[2] * 16 + d[3]

\* \uXXXX at i: code point and place behind it, or an error.
UnicodeEscape(s, i) ==
  LET u  == ParseHex4(s, i)
      u2 == ParseHex4(s, i + 6)
      wrong(e) == [err |-> e, cp |-> 0, next |-> 0]
  IN  CASE u < 0 -> wrong("UnicodeEscapeInvalidHex")
        [] u >= 0 /\ ~Lead(u) -> [err |-> "none", cp |-> u, next |-> i + 4]
        [] Lead(u) /\ <<At0(s, i + 4), At0(s, i + 5)>> # <<92, 117>> -> wrong("UnicodeSurrogateInvalid")
        [] Lead(u) /\ <<At0(s, i + 4), At0(s, i + 5)>> = <<92, 117>> /\ u2 < 0 -> wrong("UnicodeEscapeInvalidHex")
        [] OTHER -> IF ~Trail(u2) THEN wrong("UnicodeSurrogateInvalid")
                    ELSE [err |-> "none", cp |-> (u - 55296) * 1024 + (u2 - 56320) + 65536, next |-> i + 10]

ParseString(s, validate) ==
  LET stop(e) == [err |-> e, out |-> <<>>]
      P[i \in 1 .. Len(s) + 5] ==
        LET c == At0(s, i)
            more(bytes, next) == LET r == P[next] IN [r EXCEPT !.out = bytes \o @]
            e == At0(s, i + 1)
            u == UnicodeEscape(s, i + 2)
            v == DecodeAt(s, i)
        IN  CASE c = 92 /\ EscapeOf(e) # 0 -> more(<<EscapeOf(e)>>, i + 2)
              [] c = 92 /\ e = 117 -> IF u.err # "none" THEN stop(u.err) ELSE more(Encode8(u.cp), u.next)
              [] c = 92 /\ EscapeOf(e) = 0 /\ e # 117 -> stop("EscapeInvalid")
              [] c = 34 -> stop("none")
              [] c = 0 -> stop("MissQuotationMark")
              [] c \in 1 .. 31 -> stop("EscapeInvalid")
              [] OTHER -> IF ~validate THEN more(<<c>>, i + 1)
                          ELSE IF v.ok THEN more(SubSeq(s, i, v.next - 1), v.next)
                          ELSE stop("InvalidEncoding")
  IN  P[1]

-----------------------------------------------------------------------------
(* Writing a string: Writer to UTF-8, Writer to ASCII, and json_writer. *)

Nibble == [n \in 0 .. 15 |-> IF n < 10 THEN 48 + n ELSE 55 + n]
NibbleLow == [n \in 0 .. 15 |-> IF n < 10 THEN 48 + n ELSE 87 + n]
Hex4(u, digit) ==
  <<92, 117, digit[u \div 4096], digit[(u \div 256) % 16], digit[(u \div 16) % 16], digit[u % 16]>>

EscapeFor(c) ==
  CASE c = 8 -> 98 [] c = 9 -> 116 [] c = 10 -> 110 [] c = 12 -> 102 [] c = 13 -> 114
    [] c \in {34, 92} -> c [] c \in (0 .. 31) \ {8, 9, 10, 12, 13} -> 117 [] OTHER -> 0

Escaped(c) == IF EscapeFor(c) = 117 THEN Hex4(c, Nibble) ELSE <<92, EscapeFor(c)>>

WriteString(bytes) ==
  FlattenSeq([i \in DOMAIN bytes |-> IF EscapeFor(bytes[i]) # 0 THEN Escaped(bytes[i]) ELSE <<bytes[i]>>])
    \o <<34>>

\* To an encoding without Unicode: all above 127 as \u, in pairs if need be.
WriteAscii(bytes) ==
  LET W[i \in 1 .. Len(bytes) + 1] ==
        LET v == DecodeAt(bytes, i)
        IN  CASE i > Len(bytes) -> <<34>>
              [] i <= Len(bytes) /\ bytes[i] >= 128 ->
                   (IF v.cp <= 65535 THEN Hex4(v.cp, Nibble)
                    ELSE Hex4((v.cp - 65536) \div 1024 + 55296, Nibble)
                           \o Hex4(((v.cp - 65536) % 1024) + 56320, Nibble)) \o W[v.next]
              [] OTHER -> (IF EscapeFor(bytes[i]) # 0 THEN Escaped(bytes[i]) ELSE EncodeAscii(bytes[i])) \o W[i + 1]
  IN  W[1]

\* utf8ToCodepoint of json_writer: the first byte alone says how long the
\* form is; what is cut off or too long for its value is U+FFFD.
Replacement == 65533
utf8ToCodepoint(s, i) ==
  LET c == s[i]
      left == Len(s) - i + 1
      t(k) == s[i + k] % 64
      two   == (c % 32) * 64 + t(1)
      three == (c % 16) * 4096 + t(1) * 64 + t(2)
      four  == (c % 8) * 262144 + t(1) * 4096 + t(2) * 64 + t(3)
      lost  == [cp |-> Replacement, next |-> i + 1]
  IN  CASE c < 128 -> [cp |-> c, next |-> i + 1]
        [] c \in 128 .. 223 -> IF left < 2 THEN lost
                               ELSE [cp |-> IF two < 128 THEN Replacement ELSE two, next |-> i + 2]
        [] c \in 224 .. 239 -> IF left < 3 THEN lost
                               ELSE [cp |-> IF Surrogate(three) \/ three < 2048 THEN Replacement ELSE three,
                                     next |-> i + 3]
        [] c \in 240 .. 247 -> IF left < 4 THEN lost
                               ELSE [cp |-> IF four < 65536 THEN Replacement ELSE four, next |-> i + 4]
        [] OTHER -> lost

Pair(cp) == Hex4((cp - 65536) \div 1024 + 55296, NibbleLow) \o Hex4(((cp - 65536) % 1024) + 56320, NibbleLow)

value_2_quoted_str(bytes) ==
  LET Q[i \in 1 .. Len(bytes) + 1] ==
        LET v == utf8ToCodepoint(bytes, i)
        IN  CASE i > Len(bytes) -> <<34>>
              [] i <= Len(bytes) /\ EscapeFor(bytes[i]) \notin {0, 117} -> <<92, EscapeFor(bytes[i])>> \o Q[i + 1]
              [] OTHER -> (CASE v.cp \in 32 .. 127 -> <<v.cp>>
                             [] v.cp \in (0 .. 31) \cup (128 .. 65535) -> Hex4(v.cp, NibbleLow)
                             [] OTHER -> Pair(v.cp)) \o Q[v.next]
  IN  Q[1]

-----------------------------------------------------------------------------
JsonTextInit == codepoints = <<>> /\ octets = <<>>

AddCodepoint ==
  /\ octets = <<>> /\ Len(codepoints) < MaxCodepoints
  /\ \E c \in Codepoints : codepoints' = Append(codepoints, c)
  /\ UNCHANGED octets

\* The last octet only behind one that may begin a form of MaxOctets.
AddOctet ==
  /\ codepoints = <<>> /\ Len(octets) < MaxOctets
  /\ Len(octets) = MaxOctets - 1 => octets[1] >= 240
  /\ \E o \in Octets : octets' = Append(octets, o)
  /\ UNCHANGED codepoints

JsonTextNext == AddCodepoint \/ AddOctet

-----------------------------------------------------------------------------
Bytes(cps) == FlattenSeq([i \in DOMAIN cps |-> Encode8(cps[i])])

(* A string of any characters that are no surrogates, written by any of    *)
(* the three writers, is read back as it was, with or without the check of *)
(* its encoding: control characters and quotes are escaped, what is beyond *)
(* the first plane goes through pairs (json_writer.hpp:88, writer.h:345,   *)
(* reader.h:815); the writer to ASCII writes nothing else.                 *)
StringsReadBack ==
  (\A i \in DOMAIN codepoints : ~Surrogate(codepoints[i])) =>
    \A bytes \in {Bytes(codepoints)} : \A ascii \in {WriteAscii(bytes)} :
      /\ \A i \in DOMAIN ascii : DecodeAscii(ascii, i).ok
      /\ \A written \in {WriteString(bytes), ascii, value_2_quoted_str(bytes)}, validate \in BOOLEAN :
           ParseString(written, validate) = [err |-> "none", out |-> bytes]

(* The decoder accepts exactly the bytes the encoder writes for a code     *)
(* point that is no surrogate, and gives that code point: no overlong      *)
(* form, no surrogate, nothing above U+10FFFF passes (encodings.h:131);    *)
(* a string that passes the reader's check decodes throughout.             *)
Utf8Exact ==
  /\ octets # <<>> =>
       LET v == Decode8(octets)
       IN  v.ok <=> /\ ~Surrogate(v.cp) /\ v.cp <= 1114111
                    /\ v.next <= Len(octets) + 1
                    /\ Encode8(v.cp) = SubSeq(octets, 1, v.next - 1)
  /\ \A i \in DOMAIN codepoints :
       LET w == Encode16(codepoints[i])
       IN  ~Surrogate(codepoints[i]) =>
             /\ Decode8(Encode8(codepoints[i])) =
                  [ok |-> TRUE, cp |-> codepoints[i], next |-> Len(Encode8(codepoints[i])) + 1]
             /\ Decode32(Encode32(codepoints[i]), 1).cp = codepoints[i]
             /\ Decode16(w, 1) = [ok |-> TRUE, cp |-> codepoints[i], next |-> Len(w) + 1]

\* The first two characters of a text, as RFC 4627 has them: ASCII, not zero.
AsciiStart == Len(codepoints) >= 2 /\ codepoints[1] < 128 /\ codepoints[2] < 128

AllUnits(type) == FlattenSeq([i \in DOMAIN codepoints |-> Units(type, codepoints[i])])

(* The type of a stream of four bytes or more is found from its mark, in   *)
(* any encoding; without one it is found when the text begins with two     *)
(* ASCII characters; and what is read is what was written                  *)
(* (encodedstream.h:184).                                                  *)
TypeFound ==
  codepoints # <<>> =>
    \A type \in Types, mark \in BOOLEAN, given \in Types :
      \A b \in {PutText(type, codepoints, mark)} : Len(b) >= 4 /\ (mark \/ AsciiStart) =>
        /\ DetectType(b, given) = [type |-> type, mark |-> mark]
        /\ TakeAll(type, b, 1 + IF mark THEN Len(Mark(type)) ELSE 0) = AllUnits(type)

(* A stream of an encoding that is known is read as it was written, with   *)
(* or without its mark, unless what is no mark begins like one             *)
(* (encodings.h:224); transcoding a text gives what writing it does.       *)
StreamExact ==
  codepoints # <<>> =>
    \A type \in Types :
      /\ \A mark \in BOOLEAN :
           \A b \in {PutText(type, codepoints, mark)} : mark \/ codepoints[1] \notin 61440 .. 65535 =>
             /\ TakeAll(type, b, TakeBOM(type, b)) = AllUnits(type)
             /\ type = "UTF8" => TakeAll(type, b, MemoryMark(b)) = AllUnits(type)
      /\ (\A i \in DOMAIN codepoints : ~Surrogate(codepoints[i])) => \A s \in {Bytes(codepoints)} :
           LET T[i \in 1 .. Len(s) + 1] ==
                 IF i > Len(s) THEN <<>>
                 ELSE LET t == Transcode(type, s, i) IN IF t.ok THEN t.out \o T[t.next] ELSE <<>>
           IN  T[1] = AllUnits(type)

(* What is encoded is decoded to what it was: strings with their escapes,  *)
(* code points, and streams by the encoding they have.                     *)
TextExact == StringsReadBack /\ Utf8Exact /\ TypeFound /\ StreamExact
=============================================================================
