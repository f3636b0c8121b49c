--------------------------------- MODULE Lzo ---------------------------------
(***************************************************************************)
(* minilzo.c: lzo1x_1_compress on blocks of the input, and the decompressor*)
(* with its checks (lzo1x_decompress_safe) and without (lzo1x_decompress). *)
(* One step is one round of a loop of the code: a literal passed over or a *)
(* match written, a run or a match read.  Between the two the compressed   *)
(* data may be damaged, as it is what a server receives.  Buffers are      *)
(* sequences of bytes, ip counts from 0.                                   *)
(***************************************************************************)
EXTENDS Integers, Sequences, SequencesExt, FiniteSetsExt

CONSTANTS
  Plain,        \* inputs of the compressor
  BlockMax,     \* 49152, the longest block
  DictSize,     \* 2^D_BITS
  Damage,       \* bytes that may replace one of the compressed data
  Matches       \* lengths and offsets whose encoding is looked at

ASSUME LzoAssumption ==
  /\ BlockMax \in Nat /\ BlockMax > 20 /\ BlockMax <= 49152 /\ DictSize \in Nat \ {0}
  /\ Plain \subseteq Seq(0 .. 255) /\ Damage \subseteq 0 .. 255
  /\ \A m \in Matches : m \in Nat \X Nat /\ m[1] > 2 /\ m[2] > 0 /\ m[2] < 49152

M2_MAX_LEN == 8
M2_MAX_OFFSET == 2048
M3_MAX_LEN == 33
M3_MAX_OFFSET == 16384
M4_MAX_LEN == 9
M3_MARKER == 32
M4_MARKER == 16

VARIABLES
  plain,     \* in of the compressor
  enc,         \* the compressor: pc, block, ip, ii, t, dict, out
  lin, lcap, \* in of the decompressor and *out_len on entry
  dec,         \* the decompressor: pc, ip, t, out, safe
  intact,    \* lin is what the compressor wrote
  overread   \* a byte behind the input was read

lzoVars == <<plain, enc, lin, lcap, dec, intact, overread>>

-----------------------------------------------------------------------------
(* Writing. *)

\* Zero bytes for each 255, and the rest.
LongLength(n) == [i \in 1 .. (n - 1) \div 255 |-> 0] \o <<n - 255 * ((n - 1) \div 255)>>

\* t literals behind out; up to 3 are counted in the last match's low bits.
Literals(out, t, bytes) ==
  CASE t = 0 -> out
    [] t \in 1 .. 3 -> [out EXCEPT ![Len(out) - 1] = @ + t] \o bytes
    [] t \in 4 .. 18 -> out \o <<t - 3>> \o bytes
    [] OTHER -> out \o <<0>> \o LongLength(t - 18) \o bytes

MatchLength(len, max, marker) ==
  IF len <= max THEN <<marker + len - 2>> ELSE <<marker>> \o LongLength(len - max)

EncodeMatch(len, off) ==
  LET o3 == off - 1
      o4 == off - M3_MAX_OFFSET
  IN  CASE len <= M2_MAX_LEN /\ off <= M2_MAX_OFFSET ->
             <<(len - 1) * 32 + (o3 % 8) * 4, o3 \div 8>>
        [] ~(len <= M2_MAX_LEN /\ off <= M2_MAX_OFFSET) /\ off <= M3_MAX_OFFSET ->
             MatchLength(len, M3_MAX_LEN, M3_MARKER) \o <<(o3 * 4) % 256, o3 \div 64>>
        [] OTHER ->
             MatchLength(len, M4_MAX_LEN, M4_MARKER + ((o4 \div 16384) % 2) * 8)
               \o <<(o4 * 4) % 256, (o4 \div 64) % 256>>

\* DINDEX: a simpler function than the code's multiplication.  It decides
\* which matches are found; the control needs an index of the table.
Dindex(dv) == (dv[1] + 2 * dv[2] + 3 * dv[3] + 5 * dv[4]) % DictSize

\* Bytes from ip on that agree with those from m on, in groups of eight as
\* long as the end of the block is not reached.
Agree(ip, m, n) == SubSeq(plain, ip + 1, ip + n) = SubSeq(plain, m + 1, m + n)
MatchLen(ip, m, ipEnd) ==
  LET Whole(k)  == Agree(ip + 4, m + 4, 8 * k)
      groups    == Max({k \in 0 .. Len(plain) :
                          (k < 2 \/ ip + 8 * k - 4 < ipEnd) /\ Whole(k)})
      cut       == groups > 0 /\ ip + 4 + 8 * groups >= ipEnd
      rest      == Max({j \in 0 .. 8 : Agree(ip + 4 + 8 * groups, m + 4 + 8 * groups, j)})
  IN  4 + 8 * groups + (IF cut THEN 0 ELSE rest)

NoDict == [i \in 0 .. DictSize - 1 |-> 0]

NewCompressor ==
  [pc |-> "block", from |-> 0, ll |-> 0, ip |-> 0, ii |-> 0, t |-> 0, dict |-> NoDict, out |-> <<>>]

\* The loop of lzo1x_1_compress: the next block, beginning behind a literal.
\* Its test for a wrapped address also ends it when t + ll is below 32.
Remaining == Len(plain) - enc.from
More == Remaining > 20 /\ enc.t + Min({Remaining, BlockMax}) >= 32
Skip(ip, ii) == ip + 1 + (ip - ii) \div 32
BlockBegin ==
  LET ip == enc.from + (IF enc.t < 4 THEN 4 - enc.t ELSE 0)
  IN  /\ enc.pc = "block" /\ More
      /\ enc' = [enc EXCEPT !.pc = "scan", !.ll = Min({Remaining, BlockMax}), !.ii = enc.from,
                        !.ip = Skip(ip, enc.from), !.dict = NoDict]
      /\ UNCHANGED <<plain, lin, lcap, dec, intact, overread>>

IpEnd == enc.from + enc.ll - 20
Found ==
  LET dv == SubSeq(plain, enc.ip + 1, enc.ip + 4)
  IN  [at |-> Dindex(dv), m |-> enc.from + enc.dict[Dindex(dv)]]

Scan(match) ==
  /\ enc.pc = "scan" /\ enc.ip < IpEnd
  /\ Agree(enc.ip, Found.m, 4) = match

Updated == [enc.dict EXCEPT ![Found.at] = enc.ip - enc.from]

Literal ==
  /\ Scan(FALSE)
  /\ enc' = [enc EXCEPT !.dict = Updated, !.ip = Skip(enc.ip, enc.ii)]
  /\ UNCHANGED <<plain, lin, lcap, dec, intact, overread>>

Pending == enc.ip - enc.ii + enc.t

WriteMatch ==
  LET len == MatchLen(enc.ip, Found.m, IpEnd)
      lits == SubSeq(plain, enc.ip - Pending + 1, enc.ip)
  IN  /\ Scan(TRUE)
      /\ enc' = [enc EXCEPT !.dict = Updated, !.ip = enc.ip + len, !.ii = enc.ip + len, !.t = 0,
                        !.out = Literals(@, Pending, lits) \o EncodeMatch(len, enc.ip - Found.m)]
      /\ UNCHANGED <<plain, lin, lcap, dec, intact, overread>>

BlockEnd ==
  /\ enc.pc = "scan" /\ enc.ip >= IpEnd
  /\ enc' = [enc EXCEPT !.pc = "block", !.t = enc.from + enc.ll - enc.ii + @, !.from = @ + enc.ll]
  /\ UNCHANGED <<plain, lin, lcap, dec, intact, overread>>

\* What is left are literals, and the end marker.
Finish ==
  LET t    == enc.t + Remaining
      lits == SubSeq(plain, Len(plain) - t + 1, Len(plain))
      out  == IF t > 0 /\ enc.out = <<>> /\ t <= 238 THEN <<17 + t>> \o lits
              ELSE Literals(enc.out, t, lits)
  IN  /\ enc.pc = "block" /\ ~More
      /\ enc' = [enc EXCEPT !.pc = "done", !.out = out \o <<M4_MARKER + 1, 0, 0>>]
      /\ UNCHANGED <<plain, lin, lcap, dec, intact, overread>>

-----------------------------------------------------------------------------
(* The data arrives: whole, cut off, or with one byte changed. *)

Start(data, cap, safe, whole) ==
  /\ lin' = data /\ lcap' = cap /\ intact' = whole
  /\ dec' = [pc |-> "start", ip |-> 0, t |-> 0, out |-> <<>>, safe |-> safe]
  /\ UNCHANGED <<plain, enc, overread>>

Receive ==
  /\ enc.pc = "done" /\ dec.pc = "idle"
  /\ \/ \E safe \in BOOLEAN : Start(enc.out, Len(plain), safe, TRUE)
     \/ plain # <<>> /\ Start(enc.out, Len(plain) - 1, TRUE, FALSE)
     \/ \E n \in 0 .. Len(enc.out) - 1 : Start(SubSeq(enc.out, 1, n), Len(plain), TRUE, FALSE)
     \/ \E i \in DOMAIN enc.out, b \in Damage :
          Start([enc.out EXCEPT ![i] = b], Len(plain), TRUE, FALSE)

-----------------------------------------------------------------------------
(* Reading. *)

Byte(i) == IF i < Len(lin) THEN lin[i + 1] ELSE 0

\* As a bug: one byte of look-ahead too few.
NeedIp_less(ip, x) == dec.safe => Len(lin) - ip >= x - 1
NeedIp(ip, x) == dec.safe => Len(lin) - ip >= x
NeedOp(x) == dec.safe => lcap - Len(dec.out) >= x

Stop(result) == dec' = [dec EXCEPT !.pc = result]
ReadTo(ip) == overread' = (overread \/ ip > Len(lin))

\* A long length at ip: zero bytes and the first that is none; it may be cut.
Zeros(ip) == Min({k \in 0 .. Len(lin) : ip + k >= Len(lin) \/ Byte(ip + k) # 0})
Long(ip, base) == [t |-> 255 * Zeros(ip) + base + Byte(ip + Zeros(ip)), ip |-> ip + Zeros(ip) + 1,
                   cut |-> Zeros(ip) > 0 /\ ~NeedIp(ip + Zeros(ip), 1)]

\* n literals from ip on, if there is room for them and for `more` bytes.
CopyLiterals(ip, n, more, t, pc) ==
  CASE ~NeedOp(n) -> Stop("output overrun") /\ ReadTo(ip)
    [] NeedOp(n) /\ ~NeedIp(ip, n + more) -> Stop("input overrun") /\ ReadTo(ip)
    [] OTHER -> /\ dec' = [dec EXCEPT !.pc = pc, !.ip = ip + n, !.t = t,
                                  !.out = @ \o [i \in 1 .. n |-> Byte(ip + i - 1)]]
                /\ ReadTo(ip + n)

FirstCode ==
  /\ dec.pc = "start"
  /\ IF ~NeedIp(0, 1) THEN Stop("input overrun") /\ UNCHANGED overread
     ELSE LET t == Byte(0) - 17
          IN  CASE t \in 1 .. 3 -> dec' = [dec EXCEPT !.pc = "next", !.ip = 1, !.t = t] /\ ReadTo(1)
                [] t > 3 -> CopyLiterals(1, t, 3, 0, "first")
                [] OTHER -> dec' = [dec EXCEPT !.pc = "run"] /\ ReadTo(1)
  /\ UNCHANGED <<plain, enc, lin, lcap, intact>>

ReadRun ==
  /\ dec.pc = "run"
  /\ LET t == Byte(dec.ip)
         r == Long(dec.ip + 1, 15)
     IN  CASE ~NeedIp(dec.ip, 3) -> Stop("input overrun") /\ UNCHANGED overread
           [] NeedIp(dec.ip, 3) /\ t >= 16 ->
                dec' = [dec EXCEPT !.pc = "match", !.ip = @ + 1, !.t = t] /\ ReadTo(dec.ip + 1)
           [] NeedIp(dec.ip, 3) /\ t \in 1 .. 15 -> CopyLiterals(dec.ip + 1, t + 3, 3, 0, "first")
           [] OTHER -> IF r.cut THEN Stop("input overrun") /\ UNCHANGED overread
                       ELSE CopyLiterals(r.ip, r.t + 3, 3, 0, "first")
  /\ UNCHANGED <<plain, enc, lin, lcap, intact>>

\* A match of n bytes from off bytes back, and ip behind its code.
CopyMatch(off, n, ip) ==
  /\ CASE dec.safe /\ off \notin 1 .. Len(dec.out) -> Stop("lookbehind overrun")
       [] ~(dec.safe /\ off \notin 1 .. Len(dec.out)) /\ ~NeedOp(n) -> Stop("output overrun")
       [] OTHER -> dec' = [dec EXCEPT !.pc = "done", !.ip = ip,
                                  !.out = @ \o [i \in 1 .. n |->
                                              @[Len(@) - off + 1 + ((i - 1) % off)]]]
  /\ ReadTo(ip)

\* Behind the first literals, and behind any run, a small code is a match of
\* three bytes from beyond the reach of M2.
AfterRun ==
  /\ dec.pc = "first"
  /\ LET t == Byte(dec.ip)
     IN  IF t >= 16 THEN dec' = [dec EXCEPT !.pc = "match", !.ip = @ + 1, !.t = t] /\ ReadTo(dec.ip + 1)
         ELSE CopyMatch(1 + M2_MAX_OFFSET + t \div 4 + Byte(dec.ip + 1) * 4, 3, dec.ip + 2)
  /\ UNCHANGED <<plain, enc, lin, lcap, intact>>

\* The length, the place behind it, and whether the input ends before.
LengthOf(t, ip, base) ==
  IF t # 0 THEN [t |-> t, ip |-> ip, cut |-> FALSE]
  ELSE LET r == Long(ip, base) IN [r EXCEPT !.cut = @ \/ ~NeedIp(r.ip, 2)]

Offset(ip) == Byte(ip) \div 4 + Byte(ip + 1) * 64

\* What a match code says: offset, length, and where the next byte is.
DecodeMatch(t, ip) ==
  LET r3 == LengthOf(t % 32, ip, 31)
      r4 == LengthOf(t % 8, ip, 7)
      o4 == (t \div 8 % 2) * M3_MAX_OFFSET + Offset(r4.ip)
  IN  CASE t >= 64 -> [off |-> 1 + ((t \div 4) % 8) + Byte(ip) * 8, n |-> t \div 32 + 1,
                       ip |-> ip + 1, end |-> "no"]
        [] t \in 32 .. 63 -> [off |-> 1 + Offset(r3.ip), n |-> r3.t + 2, ip |-> r3.ip + 2,
                              end |-> IF r3.cut THEN "cut" ELSE "no"]
        [] t \in 16 .. 31 -> [off |-> M3_MAX_OFFSET + o4, n |-> r4.t + 2, ip |-> r4.ip + 2,
                              end |-> IF r4.cut THEN "cut" ELSE IF o4 = 0 THEN "eof" ELSE "no"]
        [] OTHER -> [off |-> 1 + t \div 4 + Byte(ip) * 4, n |-> 2, ip |-> ip + 1, end |-> "no"]

Result(ip) ==
  CASE ip = Len(lin) -> "ok" [] ip < Len(lin) -> "not consumed" [] OTHER -> "input overrun"

ReadMatch ==
  /\ dec.pc = "match"
  /\ LET m == DecodeMatch(dec.t, dec.ip)
     IN  CASE m.end = "cut" -> Stop("input overrun") /\ UNCHANGED overread
           [] m.end = "eof" -> dec' = [dec EXCEPT !.pc = Result(m.ip), !.ip = m.ip] /\ ReadTo(m.ip)
           [] OTHER -> CopyMatch(m.off, m.n, m.ip)
  /\ UNCHANGED <<plain, enc, lin, lcap, intact>>

\* The low bits of the byte before the last say how many literals follow.
MatchDone ==
  /\ dec.pc = "done"
  /\ dec' = [dec EXCEPT !.t = Byte(dec.ip - 2) % 4,
                    !.pc = IF Byte(dec.ip - 2) % 4 = 0 THEN "run" ELSE "next"]
  /\ UNCHANGED <<plain, enc, lin, lcap, intact, overread>>

MatchNext ==
  /\ dec.pc = "next"
  /\ CopyLiterals(dec.ip, dec.t, 3, 0, "code")
  /\ UNCHANGED <<plain, enc, lin, lcap, intact>>

NextCode ==
  /\ dec.pc = "code"
  /\ dec' = [dec EXCEPT !.pc = "match", !.ip = @ + 1, !.t = Byte(dec.ip)] /\ ReadTo(dec.ip + 1)
  /\ UNCHANGED <<plain, enc, lin, lcap, intact>>

-----------------------------------------------------------------------------
Idle == [pc |-> "idle", ip |-> 0, t |-> 0, out |-> <<>>, safe |-> TRUE]

LzoInit ==
  /\ overread = FALSE /\ intact = TRUE
  /\ \/ plain \in Plain /\ enc = NewCompressor /\ lin = <<>> /\ lcap = 0 /\ dec = Idle
     \/ \E m \in Matches :        \* the code of one match alone
          /\ plain = <<>> /\ enc = [NewCompressor EXCEPT !.pc = "none"]
          /\ lin = EncodeMatch(m[1], m[2]) /\ lcap = 0 /\ dec = Idle

Compress == BlockBegin \/ Literal \/ WriteMatch \/ BlockEnd \/ Finish
Matching == ReadMatch \/ MatchDone
Following == MatchNext \/ NextCode
Decompress == FirstCode \/ ReadRun \/ AfterRun \/ Matching \/ Following

LzoNext == Compress \/ Receive \/ Decompress

-----------------------------------------------------------------------------
(* What was compressed comes out again, from either decompressor, into a   *)
(* buffer of just its size: over blocks, literals kept from one block to   *)
(* the next, and matches that reach into what they themselves write.  And  *)
(* the code of every match is read back as its length and offset.          *)
LzoRoundTrip ==
  /\ intact /\ dec.pc \notin {"idle", "start", "run", "first", "match", "done", "next", "code"} =>
       dec.pc = "ok" /\ dec.out = plain
  /\ enc.pc = "none" =>
       LET m == DecodeMatch(lin[1], 1) IN <<m.n, m.off>> \in Matches /\ m.ip = Len(lin)
                                          /\ lin = EncodeMatch(m.n, m.off)

(* The decompressor with checks reads no byte behind the data it was       *)
(* given, writes none behind the buffer, and copies only from what it has  *)
(* written, whatever it was given: the three bytes it asks for in advance  *)
(* cover every byte it then reads without asking (minilzo.c:5984).         *)
LzoInBounds ==
  dec.safe /\ dec.pc # "idle" => ~overread /\ Len(dec.out) <= lcap

(* Data survives the compressor and both decompressors, and damaged data   *)
(* does no harm to the one with checks.                                    *)
LzoExact == LzoRoundTrip /\ LzoInBounds
=============================================================================
