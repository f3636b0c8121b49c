------------------------- MODULE WsConnection_proofs -------------------------
(***************************************************************************)
(* The reader of a websocket connection cuts the stream of bytes where the *)
(* client did: for every request and every set of frames a client may      *)
(* send, however many of them and however they arrive.                     *)
(***************************************************************************)
EXTENDS WsConnection, SequenceTheorems, TLAPS

WF == INSTANCE WellFoundedInduction

-----------------------------------------------------------------------------
(* Bytes                                                                   *)

(* The bit of x whose weight is w.                                         *)
Bit(x, w) == (x \div w) % 2

LEMMA BitsOf ==
  ASSUME NEW b \in Byte
  PROVE  /\ \A w \in {1, 2, 4, 8, 16, 32, 64, 128} : Bit(b, w) \in {0, 1}
         /\ b = Bit(b, 1) + 2 * Bit(b, 2) + 4 * Bit(b, 4) + 8 * Bit(b, 8)
                + 16 * Bit(b, 16) + 32 * Bit(b, 32) + 64 * Bit(b, 64)
                + 128 * Bit(b, 128)
BY DEF Bit, Byte

LEMMA BitsUnique ==
  ASSUME NEW d1 \in {0, 1}, NEW d2 \in {0, 1}, NEW d3 \in {0, 1}, NEW d4 \in {0, 1},
         NEW d5 \in {0, 1}, NEW d6 \in {0, 1}, NEW d7 \in {0, 1}, NEW d8 \in {0, 1},
         NEW b, b = d1 + 2 * d2 + 4 * d3 + 8 * d4 + 16 * d5 + 32 * d6 + 64 * d7 + 128 * d8
  PROVE  /\ b \in Byte /\ Bit(b, 1) = d1 /\ Bit(b, 2) = d2 /\ Bit(b, 4) = d3
         /\ Bit(b, 8) = d4 /\ Bit(b, 16) = d5 /\ Bit(b, 32) = d6
         /\ Bit(b, 64) = d7 /\ Bit(b, 128) = d8
BY DEF Bit, Byte

(* Xor works on the bits one by one.                                       *)
LEMMA XorBits ==
  ASSUME NEW a \in Nat, NEW k \in Nat
  PROVE  Xor(a, k) =
           ((Bit(a, 1) + Bit(k, 1)) % 2) + 2 * ((Bit(a, 2) + Bit(k, 2)) % 2)
           + 4 * ((Bit(a, 4) + Bit(k, 4)) % 2) + 8 * ((Bit(a, 8) + Bit(k, 8)) % 2)
           + 16 * ((Bit(a, 16) + Bit(k, 16)) % 2) + 32 * ((Bit(a, 32) + Bit(k, 32)) % 2)
           + 64 * ((Bit(a, 64) + Bit(k, 64)) % 2)
           + 128 * ((Bit(a, 128) + Bit(k, 128)) % 2)
BY DEF Xor, Bit

LEMMA Flip ==
  ASSUME NEW p \in {0, 1}, NEW q \in {0, 1}
  PROVE  (p + q) % 2 \in {0, 1} /\ (((p + q) % 2) + q) % 2 = p
OBVIOUS

(* x ^ k ^ k is x: unmasking undoes masking.                               *)
LEMMA XorTwice ==
  ASSUME NEW a \in Byte, NEW k \in Byte
  PROVE  Xor(a, k) \in Byte /\ Xor(Xor(a, k), k) = a
<1>. DEFINE b == Xor(a, k)
            D(w) == (Bit(a, w) + Bit(k, w)) % 2
            W == {1, 2, 4, 8, 16, 32, 64, 128}
<1>1. \A w \in W : D(w) \in {0, 1} /\ (D(w) + Bit(k, w)) % 2 = Bit(a, w)
  <2>. TAKE w \in W
  <2>1. Bit(a, w) \in {0, 1} /\ Bit(k, w) \in {0, 1}
    BY BitsOf
  <2>. QED BY ONLY <2>1, Flip
<1>2. a \in Nat /\ k \in Nat
  BY DEF Byte
<1>3. b = D(1) + 2 * D(2) + 4 * D(4) + 8 * D(8) + 16 * D(16) + 32 * D(32)
          + 64 * D(64) + 128 * D(128)
  BY ONLY <1>2, XorBits, ZenonT(40)
<1>. HIDE DEF D, b
<1>4. b \in Byte /\ \A w \in W : Bit(b, w) = D(w)
  <2>1. /\ D(1) \in {0, 1} /\ D(2) \in {0, 1} /\ D(4) \in {0, 1} /\ D(8) \in {0, 1}
        /\ D(16) \in {0, 1} /\ D(32) \in {0, 1} /\ D(64) \in {0, 1}
        /\ D(128) \in {0, 1}
    BY <1>1
  <2>2. /\ b \in Byte /\ Bit(b, 1) = D(1) /\ Bit(b, 2) = D(2) /\ Bit(b, 4) = D(4)
        /\ Bit(b, 8) = D(8) /\ Bit(b, 16) = D(16) /\ Bit(b, 32) = D(32)
        /\ Bit(b, 64) = D(64) /\ Bit(b, 128) = D(128)
    BY ONLY <2>1, <1>3, BitsUnique
  <2>. QED BY <2>2
<1>5. b \in Nat
  BY <1>4 DEF Byte
<1>6. Xor(b, k) =
        ((Bit(b, 1) + Bit(k, 1)) % 2) + 2 * ((Bit(b, 2) + Bit(k, 2)) % 2)
        + 4 * ((Bit(b, 4) + Bit(k, 4)) % 2) + 8 * ((Bit(b, 8) + Bit(k, 8)) % 2)
        + 16 * ((Bit(b, 16) + Bit(k, 16)) % 2) + 32 * ((Bit(b, 32) + Bit(k, 32)) % 2)
        + 64 * ((Bit(b, 64) + Bit(k, 64)) % 2)
        + 128 * ((Bit(b, 128) + Bit(k, 128)) % 2)
  BY ONLY <1>5, <1>2, XorBits, ZenonT(40)
<1>7. \A w \in W : (Bit(b, w) + Bit(k, w)) % 2 = Bit(a, w)
  BY <1>1, <1>4, ZenonT(40)
<1>8. Xor(b, k) = Bit(a, 1) + 2 * Bit(a, 2) + 4 * Bit(a, 4) + 8 * Bit(a, 8)
                  + 16 * Bit(a, 16) + 32 * Bit(a, 32) + 64 * Bit(a, 64)
                  + 128 * Bit(a, 128)
  BY ONLY <1>6, <1>7
<1>. QED BY <1>4, <1>8, BitsOf, Zenon DEF b

-----------------------------------------------------------------------------
(* Lengths                                                                 *)

LEMMA ReverseAt ==
  ASSUME NEW S, NEW s \in Seq(S)
  PROVE  /\ Reverse(s) \in Seq(S) /\ Len(Reverse(s)) = Len(s)
         /\ \A i \in 1 .. Len(s) : Reverse(s)[i] = s[Len(s) - i + 1]
BY SMT DEF Reverse

LEMMA MemoryTwo ==
  ASSUME NEW n \in Nat
  PROVE  /\ Memory(n, 2) \in Seq(Byte) /\ Len(Memory(n, 2)) = 2
         /\ Memory(n, 2)[1] = n % 256 /\ Memory(n, 2)[2] = (n \div 256) % 256
BY SMT DEF Memory, Byte

LEMMA MemoryEight ==
  ASSUME NEW n \in Nat
  PROVE  /\ Memory(n, 8) \in Seq(Byte) /\ Len(Memory(n, 8)) = 8
         /\ Memory(n, 8)[1] = n % 256 /\ Memory(n, 8)[2] = (n \div 256) % 256
         /\ Memory(n, 8)[3] = (n \div 65536) % 256
         /\ Memory(n, 8)[4] = (n \div 16777216) % 256
         /\ \A i \in 5 .. 8 : Memory(n, 8)[i] = 0
BY SMT DEF Memory, Byte

LEMMA NumberType ==
  ASSUME NEW mem \in Seq(Byte)
  PROVE  Number(mem) \in Nat
<1>. DEFINE B(i) == IF i <= Len(mem) THEN mem[i] ELSE 0
<1>1. B(1) \in Nat /\ B(2) \in Nat /\ B(3) \in Nat
  <2>1. \A i \in 1 .. Len(mem) : mem[i] \in Byte
    BY SMT
  <2>2. Len(mem) \in Nat /\ Byte \subseteq Nat
    BY SMT DEF Byte
  <2>3. \A i \in 1 .. Len(mem) : mem[i] \in Nat
    BY <2>1, <2>2, Zenon
  <2>. QED BY ONLY SMT, <2>2, <2>3
<1>2. Number(mem) = IF \E i \in 4 .. Len(mem) : mem[i] > 0 THEN Huge
                    ELSE B(1) + 256 * (B(2) + 256 * B(3))
  BY Zenon DEF Number
<1>3. B(1) + 256 * (B(2) + 256 * B(3)) \in Nat
  <2>. HIDE DEF B
  <2>. QED BY SMT, <1>1
<1>4. Huge \in Nat
  BY SMT DEF Huge
<1>. HIDE DEF B
<1>. QED BY <1>2, <1>3, <1>4, Zenon

(* myhtonll turns eight bytes around.                                      *)
LEMMA HtonllAt ==
  ASSUME NEW buf \in Seq(Byte), Len(buf) = 8
  PROVE  /\ Htonll(buf) \in Seq(Byte) /\ Len(Htonll(buf)) = 8
         /\ \A i \in 1 .. 8 : Htonll(buf)[i] = buf[9 - i]
<1>. DEFINE lo == SubSeq(buf, 1, 4)
            hi == SubSeq(buf, 5, 8)
            P == Reverse(hi)
            Q == Reverse(lo)
<1>1. lo \in Seq(Byte) /\ Len(lo) = 4 /\ \A i \in 1 .. 4 : lo[i] = buf[i]
  BY SMT, SubSeqProperties
<1>2. hi \in Seq(Byte) /\ Len(hi) = 4 /\ \A i \in 1 .. 4 : hi[i] = buf[4 + i]
  <2>1. 5 \in Int /\ 8 \in Int /\ \A i \in 5 .. 8 : buf[i] \in Byte
    <3>1. \A i \in 1 .. Len(buf) : buf[i] \in Byte
      BY ElementOfSeq, Zenon
    <3>. QED BY ONLY SMT, <3>1, Len(buf) = 8
  <2>2. /\ hi \in Seq(Byte) /\ Len(hi) = IF 5 <= 8 THEN 8 - 5 + 1 ELSE 0
        /\ \A i \in 1 .. 8 - 5 + 1 : hi[i] = buf[5 + i - 1]
    BY ONLY SMT, <2>1, SubSeqProperties
  <2>. HIDE DEF hi
  <2>. QED BY SMT, <2>2
<1>. HIDE DEF lo, hi
<1>3. Q \in Seq(Byte) /\ Len(Q) = 4 /\ \A i \in 1 .. 4 : Q[i] = buf[5 - i]
  <2>1. /\ Q \in Seq(Byte) /\ Len(Q) = Len(lo)
        /\ \A i \in 1 .. Len(lo) : Q[i] = lo[Len(lo) - i + 1]
    BY <1>1, ReverseAt, Zenon
  <2>. HIDE DEF Q
  <2>. QED BY SMT, <2>1, <1>1
<1>4. P \in Seq(Byte) /\ Len(P) = 4 /\ \A i \in 1 .. 4 : P[i] = buf[9 - i]
  <2>1. /\ P \in Seq(Byte) /\ Len(P) = Len(hi)
        /\ \A i \in 1 .. Len(hi) : P[i] = hi[Len(hi) - i + 1]
    BY <1>2, ReverseAt, Zenon
  <2>. HIDE DEF P
  <2>. QED BY SMT, <2>1, <1>2
<1>5. Htonll(buf) = P \o Q
  BY Zenon DEF Htonll, Hton, lo, hi
<1>. HIDE DEF P, Q
<1>6. /\ P \o Q \in Seq(Byte) /\ Len(P \o Q) = 8
      /\ \A i \in 1 .. 8 : (P \o Q)[i] = IF i <= 4 THEN P[i] ELSE Q[i - 4]
  <2>1. /\ P \o Q \in Seq(Byte) /\ Len(P \o Q) = Len(P) + Len(Q)
        /\ \A i \in 1 .. Len(P) + Len(Q) :
             (P \o Q)[i] = IF i <= Len(P) THEN P[i] ELSE Q[i - Len(P)]
    BY <1>3, <1>4, ConcatProperties, ZenonT(40)
  <2>. QED BY SMT, <1>3, <1>4, <2>1
<1>7. \A i \in 1 .. 8 : (P \o Q)[i] = buf[9 - i]
  BY SMT, <1>3, <1>4, <1>6
<1>. QED BY <1>5, <1>6, <1>7, Zenon

(* What the extended length of a frame says is the length of its payload.  *)
LEMMA LengthTwo ==
  ASSUME NEW n \in Nat, n < 256 * 256, NEW buf \in Seq(Byte), Len(buf) = 2,
         \A i \in 1 .. 2 : buf[i] = Memory(n, 2)[3 - i]
  PROVE  Number(Hton(buf)) = n
<1>. DEFINE h == Hton(buf)
            m == Memory(n, 2)
<1>1. /\ h \in Seq(Byte) /\ Len(h) = Len(buf)
      /\ \A i \in 1 .. Len(buf) : h[i] = buf[Len(buf) - i + 1]
  BY ReverseAt, Zenon DEF Hton
<1>2. m[1] = n % 256 /\ m[2] = (n \div 256) % 256
  BY MemoryTwo, ZenonT(40)
<1>3. \A i \in 1 .. 2 : buf[i] = m[3 - i]
  BY Zenon
<1>. HIDE DEF h, m
<1>4. buf[1] = m[2] /\ buf[2] = m[1]
  BY ONLY SMT, <1>3
<1>5. Len(h) = 2 /\ h[1] = n % 256 /\ h[2] = (n \div 256) % 256
  <2>1. Len(h) = 2 /\ h[1] = buf[2] /\ h[2] = buf[1]
    BY ONLY SMT, Len(buf) = 2, <1>1
  <2>. QED BY <2>1, <1>2, <1>4, ZenonT(40)
<1>6. Number(h) = h[1] + 256 * h[2]
  <2>1. h[1] \in Nat /\ h[2] \in Nat
    BY ONLY SMT, n \in Nat, <1>5
  <2>. QED BY ONLY SMT, <1>5, <2>1 DEF Number
<1>7. h[1] + 256 * h[2] = n
  BY ONLY SMT, n \in Nat, n < 256 * 256, <1>5
<1>. QED BY <1>6, <1>7, Zenon DEF h

LEMMA LengthEight ==
  ASSUME NEW n \in Nat, n < Huge, NEW buf \in Seq(Byte), Len(buf) = 8,
         \A i \in 1 .. 8 : buf[i] = Memory(n, 8)[9 - i]
  PROVE  Number(Htonll(buf)) = n
<1>. DEFINE h == Htonll(buf)
            m == Memory(n, 8)
<1>1. h \in Seq(Byte) /\ Len(h) = 8 /\ \A i \in 1 .. 8 : h[i] = buf[9 - i]
  BY HtonllAt, Zenon
<1>2. /\ m[1] = n % 256 /\ m[2] = (n \div 256) % 256
      /\ m[3] = (n \div 65536) % 256 /\ m[4] = (n \div 16777216) % 256
      /\ \A i \in 5 .. 8 : m[i] = 0
  BY SMT, MemoryEight
<1>3. (n \div 16777216) % 256 = 0 /\ n < 16777216
  BY SMT DEF Huge
<1>. HIDE DEF h, m
<1>4. \A i \in 1 .. 8 : h[i] = m[i]
  <2>1. \A i \in 1 .. 8 : 9 - i \in 1 .. 8 /\ 9 - (9 - i) = i
    BY SMT
  <2>2. \A i \in 1 .. 8 : buf[i] = m[9 - i]
    BY Zenon DEF m
  <2>. QED BY SMT, <1>1, <2>1, <2>2
<1>5. /\ h[1] = n % 256 /\ h[2] = (n \div 256) % 256 /\ h[3] = (n \div 65536) % 256
      /\ h[4] = 0 /\ \A i \in 5 .. 8 : h[i] = 0
  BY SMT, <1>2, <1>3, <1>4
<1>6. Number(h) = h[1] + 256 * (h[2] + 256 * h[3])
  BY SMT, <1>1, <1>5 DEF Number
<1>7. h[1] + 256 * (h[2] + 256 * h[3]) = n
  BY ONLY SMTT(30), n \in Nat, <1>3, <1>5
<1>. QED BY <1>6, <1>7, Zenon DEF h

-----------------------------------------------------------------------------
(* Frames on the wire                                                      *)

(* The bytes behind the first two that give the length, and what the       *)
(* second byte says of it.                                                 *)
Ext(f) == IF f.form = 7 THEN 0 ELSE IF f.form = 16 THEN 2 ELSE 8
Len7(f) == IF f.form = 7 THEN Len(f.data) ELSE IF f.form = 16 THEN 126 ELSE 127

LengthBytes(f) ==
  LET n == Len(f.data)
  IN  CASE f.form = 7  -> << 128 * f.mask + n >>
        [] f.form = 16 -> << 128 * f.mask + 126 >> \o Reverse(Memory(n, 2))
        [] f.form = 64 -> << 128 * f.mask + 127 >> \o Reverse(Memory(n, 8))
Masked(f) == [i \in 1 .. Len(f.data) |-> Xor(f.data[i], Key[1 + ((i - 1) % 4)])]
Body(f) == IF f.mask = 1 THEN Key \o Masked(f) ELSE f.data
Wire(f) == ClientBytes(f, Key)

LEMMA FrameFields ==
  ASSUME NEW f \in FrameSet
  PROVE  /\ f.fin \in {0, 1} /\ f.op \in 0 .. 15 /\ f.mask \in {0, 1}
         /\ f.form \in {7, 16, 64} /\ f.data \in Seq(Byte) /\ Len(f.data) \in Nat
         /\ f.form = 7 => Len(f.data) <= 125
         /\ f.form = 16 => Len(f.data) < 256 * 256
         /\ f.form = 64 => Len(f.data) < Huge
<1>1. /\ f \in [fin : {0, 1}, op : 0 .. 15, mask : {0, 1}, form : {7, 16, 64},
                data : Seq(Byte)]
      /\ f.form = 7 => Len(f.data) <= 125
      /\ f.form = 16 => Len(f.data) <= 65535
      /\ f.form = 64 => Len(f.data) < Huge
  BY SMT, FramesAssumption
<1>2. Len(f.data) \in Nat
  BY SMT, <1>1
<1>. QED BY SMT, <1>1, <1>2

(* The first two bytes and their fields.                                   *)
LEMMA FirstByte ==
  ASSUME NEW fin \in {0, 1}, NEW op \in 0 .. 15
  PROVE  /\ fin * 128 + op \in Byte /\ (fin * 128 + op) \div 128 = fin
         /\ (fin * 128 + op) % 16 = op
BY SMT DEF Byte

LEMMA SecondByte ==
  ASSUME NEW m \in {0, 1}, NEW l \in 0 .. 127
  PROVE  /\ 128 * m + l \in Byte /\ (128 * m + l) \div 128 = m
         /\ (128 * m + l) % 128 = l
BY SMT DEF Byte

LEMMA ConsAt ==
  ASSUME NEW S, NEW x \in S, NEW r \in Seq(S)
  PROVE  /\ Cons(x, r) \in Seq(S) /\ Len(Cons(x, r)) = Len(r) + 1
         /\ Cons(x, r)[1] = x /\ \A i \in 1 .. Len(r) : Cons(x, r)[i + 1] = r[i]
<1>. DEFINE h == <<x>>
            w == Cons(x, r)
<1>1. h \in Seq(S) /\ Len(h) = 1 /\ h[1] = x
  OBVIOUS
<1>2. w = h \o r
  BY DEF Cons
<1>. HIDE DEF h, w
<1>3. /\ h \o r \in Seq(S) /\ Len(h \o r) = Len(h) + Len(r)
      /\ \A i \in 1 .. Len(h) + Len(r) :
           (h \o r)[i] = IF i <= Len(h) THEN h[i] ELSE r[i - Len(h)]
  BY <1>1, ConcatProperties, Zenon
<1>4. Len(r) \in Nat
  OBVIOUS
<1>5. /\ w \in Seq(S) /\ Len(w) = Len(h) + Len(r)
      /\ \A i \in 1 .. Len(h) + Len(r) : w[i] = IF i <= Len(h) THEN h[i] ELSE r[i - Len(h)]
  BY <1>2, <1>3, Zenon
<1>6. /\ w \in Seq(S) /\ Len(w) = Len(r) + 1
      /\ w[1] = x /\ \A i \in 1 .. Len(r) : w[i + 1] = r[i]
  BY ONLY <1>1, <1>4, <1>5
<1>. QED BY <1>6, Zenon DEF w

LEMMA LengthBytesAt ==
  ASSUME NEW f \in FrameSet
  PROVE  /\ LengthBytes(f) \in Seq(Byte) /\ Len(LengthBytes(f)) = 1 + Ext(f)
         /\ LengthBytes(f)[1] = 128 * f.mask + Len7(f)
         /\ f.form = 16 => \A i \in 1 .. 2 :
              LengthBytes(f)[1 + i] = Memory(Len(f.data), 2)[3 - i]
         /\ f.form = 64 => \A i \in 1 .. 8 :
              LengthBytes(f)[1 + i] = Memory(Len(f.data), 8)[9 - i]
<1>. DEFINE W == LengthBytes(f)
<1>1. PICK n \in Nat, m \in {0, 1} :
        /\ n = Len(f.data) /\ m = f.mask /\ f.form \in {7, 16, 64}
        /\ f.form = 7 => n <= 125
  BY FrameFields, SMT
<1>. DEFINE Goal == /\ W \in Seq(Byte) /\ Len(W) = 1 + Ext(f)
                    /\ W[1] = 128 * m + Len7(f)
                    /\ f.form = 16 => \A i \in 1 .. 2 : W[1 + i] = Memory(n, 2)[3 - i]
                    /\ f.form = 64 => \A i \in 1 .. 8 : W[1 + i] = Memory(n, 8)[9 - i]
<1>. SUFFICES Goal
  BY <1>1, Zenon
<1>. HIDE DEF W
<1>2. CASE f.form = 7
  <2>1. W = << 128 * m + n >> /\ Ext(f) = 0 /\ Len7(f) = n
    BY SMT, <1>1, <1>2 DEF W, LengthBytes, Ext, Len7
  <2>2. 128 * m + n \in Byte
    <3>1. n <= 125
      BY <1>1, <1>2, Zenon
    <3>2. n \in 0 .. 127
      BY ONLY SMT, n \in Nat, <3>1
    <3>. QED BY <3>2, SecondByte, ZenonT(40)
    <2>3. W \in Seq(Byte) /\ Len(W) = 1 /\ W[1] = 128 * m + n
    BY ONLY SMT, <2>1, <2>2
  <2>4. f.form # 16 /\ f.form # 64
    BY ONLY SMT, <1>2
  <2>. QED BY SMT, <2>1, <2>3, <2>4
<1>3. CASE f.form = 16
  <2>. DEFINE R == Reverse(Memory(n, 2))
  <2>1. W = << 128 * m + 126 >> \o R /\ Ext(f) = 2 /\ Len7(f) = 126
    BY SMT, <1>1, <1>3 DEF W, LengthBytes, Ext, Len7
  <2>2. PICK x \in Byte : x = 128 * m + 126
    BY SecondByte, SMT
  <2>3. Memory(n, 2) \in Seq(Byte) /\ Len(Memory(n, 2)) = 2
    BY <1>1, MemoryTwo, ZenonT(40)
  <2>4. /\ R \in Seq(Byte) /\ Len(R) = Len(Memory(n, 2))
        /\ \A i \in 1 .. Len(Memory(n, 2)) :
             R[i] = Memory(n, 2)[Len(Memory(n, 2)) - i + 1]
    BY <2>3, ReverseAt, Zenon
  <2>. HIDE DEF R
  <2>5. R \in Seq(Byte) /\ Len(R) = 2 /\ \A i \in 1 .. 2 : R[i] = Memory(n, 2)[3 - i]
    BY ONLY SMT, <2>3, <2>4
  <2>6. /\ W \in Seq(Byte) /\ Len(W) = 3 /\ W[1] = x
        /\ \A i \in 1 .. 2 : W[1 + i] = R[i]
    <3>1. /\ W \in Seq(Byte) /\ Len(W) = 1 + Len(R) /\ W[1] = x
          /\ \A i \in 1 .. Len(R) : W[1 + i] = R[i]
      <4>1. W = Cons(x, R)
        BY <2>1, <2>2, SMT DEF Cons
      <4>2. /\ Cons(x, R) \in Seq(Byte) /\ Len(Cons(x, R)) = Len(R) + 1
            /\ Cons(x, R)[1] = x
            /\ \A i \in 1 .. Len(R) : Cons(x, R)[i + 1] = R[i]
        <5>1. R \in Seq(Byte)
          BY <2>5, Zenon
        <5>. QED BY ONLY x \in Byte, <5>1, ConsAt, SMT
      <4>. QED BY ONLY <4>1, <4>2, SMT
    <3>. QED BY ONLY SMT, <3>1, <2>5
  <2>7. f.form # 64
    BY ONLY SMT, <1>3
  <2>. QED BY SMT, <2>1, <2>2, <2>5, <2>6, <2>7
<1>4. CASE f.form = 64
  <2>. DEFINE R == Reverse(Memory(n, 8))
  <2>1. W = << 128 * m + 127 >> \o R /\ Ext(f) = 8 /\ Len7(f) = 127
    BY SMT, <1>1, <1>4 DEF W, LengthBytes, Ext, Len7
  <2>2. PICK x \in Byte : x = 128 * m + 127
    BY SecondByte, SMT
  <2>3. Memory(n, 8) \in Seq(Byte) /\ Len(Memory(n, 8)) = 8
    BY ONLY SMT, n \in Nat, MemoryEight
  <2>4. /\ R \in Seq(Byte) /\ Len(R) = Len(Memory(n, 8))
        /\ \A i \in 1 .. Len(Memory(n, 8)) :
             R[i] = Memory(n, 8)[Len(Memory(n, 8)) - i + 1]
    BY <2>3, ReverseAt, Zenon
  <2>. HIDE DEF R
  <2>5. R \in Seq(Byte) /\ Len(R) = 8 /\ \A i \in 1 .. 8 : R[i] = Memory(n, 8)[9 - i]
    <3>. DEFINE M == Memory(n, 8)
    <3>1. Len(M) = 8 /\ R \in Seq(Byte) /\ Len(R) = Len(M)
      BY <2>3, <2>4, Zenon
    <3>2. \A i \in 1 .. Len(M) : R[i] = M[Len(M) - i + 1]
      BY <2>4, Zenon
    <3>. HIDE DEF M
    <3>3. \A i \in 1 .. 8 : R[i] = M[9 - i]
      BY ONLY SMT, <3>1, <3>2
    <3>. QED BY <3>1, <3>3, Zenon DEF M
  <2>6. /\ W \in Seq(Byte) /\ Len(W) = 9 /\ W[1] = x
        /\ \A i \in 1 .. 8 : W[1 + i] = R[i]
    <3>1. /\ W \in Seq(Byte) /\ Len(W) = 1 + Len(R) /\ W[1] = x
          /\ \A i \in 1 .. Len(R) : W[1 + i] = R[i]
      <4>1. W = Cons(x, R)
        BY <2>1, <2>2, SMT DEF Cons
      <4>2. /\ Cons(x, R) \in Seq(Byte) /\ Len(Cons(x, R)) = Len(R) + 1
            /\ Cons(x, R)[1] = x
            /\ \A i \in 1 .. Len(R) : Cons(x, R)[i + 1] = R[i]
        <5>1. R \in Seq(Byte)
          BY <2>5, Zenon
        <5>. QED BY ONLY x \in Byte, <5>1, ConsAt, SMT
      <4>. QED BY ONLY <4>1, <4>2, SMT
    <3>. QED BY ONLY SMT, <3>1, <2>5
  <2>7. f.form # 16
    BY ONLY SMT, <1>4
  <2>. QED BY SMT, <2>1, <2>2, <2>5, <2>6, <2>7
<1>. QED BY <1>1, <1>2, <1>3, <1>4, Zenon

LEMMA KeyByte ==
  ASSUME NEW i \in Nat \ {0}
  PROVE  1 + ((i - 1) % 4) \in 1 .. 4 /\ Key[1 + ((i - 1) % 4)] \in Byte
<1>1. 1 + ((i - 1) % 4) \in 1 .. 4
  BY SMT
<1>2. \A j \in 1 .. Len(Key) : Key[j] \in Byte
  BY KeysAssumption, ElementOfSeq, Zenon
<1>3. Len(Key) = 4
  BY KeysAssumption, Zenon
<1>4. \A j \in 1 .. 4 : Key[j] \in Byte
  BY ONLY SMT, <1>2, <1>3
<1>. QED BY <1>1, <1>4, Zenon

LEMMA MaskedAt ==
  ASSUME NEW f \in FrameSet
  PROVE  /\ Masked(f) \in Seq(Byte) /\ Len(Masked(f)) = Len(f.data)
         /\ \A i \in 1 .. Len(f.data) :
              Masked(f)[i] = Xor(f.data[i], Key[1 + ((i - 1) % 4)])
<1>1. PICK n \in Nat, d \in Seq(Byte) : d = f.data /\ n = Len(d)
  BY FrameFields, Zenon
<1>2. \A i \in 1 .. n : Xor(d[i], Key[1 + ((i - 1) % 4)]) \in Byte
  <2>. TAKE i \in 1 .. n
  <2>1. i \in Nat \ {0}
    BY ONLY SMT, n \in Nat, i \in 1 .. n
  <2>2. d[i] \in Byte
    BY <1>1, ElementOfSeq, Zenon
  <2>. QED BY <2>1, <2>2, KeyByte, XorTwice, Zenon
<1>3. Masked(f) = [i \in 1 .. n |-> Xor(d[i], Key[1 + ((i - 1) % 4)])]
  BY <1>1, Zenon DEF Masked
<1>4. /\ Masked(f) \in Seq(Byte) /\ Len(Masked(f)) = n
      /\ \A i \in 1 .. n : Masked(f)[i] = Xor(d[i], Key[1 + ((i - 1) % 4)])
  BY ONLY SMT, n \in Nat, <1>2, <1>3
<1>. QED BY <1>1, <1>4, Zenon

LEMMA BodyAt ==
  ASSUME NEW f \in FrameSet
  PROVE  /\ Body(f) \in Seq(Byte)
         /\ f.mask = 1 =>
              /\ Len(Body(f)) = 4 + Len(f.data)
              /\ \A i \in 1 .. 4 : Body(f)[i] = Key[i]
              /\ \A i \in 1 .. Len(f.data) :
                   Body(f)[4 + i] = Xor(f.data[i], Key[1 + ((i - 1) % 4)])
<1>. DEFINE M == Masked(f)
            B == Body(f)
<1>1. PICK n \in Nat, d \in Seq(Byte) : d = f.data /\ n = Len(d)
  BY FrameFields, Zenon
<1>2. CASE f.mask = 1
  <2>1. /\ M \in Seq(Byte) /\ Len(M) = n
        /\ \A i \in 1 .. n : M[i] = Xor(d[i], Key[1 + ((i - 1) % 4)])
    BY <1>1, MaskedAt, Zenon
  <2>2. B = Key \o M
    BY <1>2, Zenon DEF Body
  <2>. HIDE DEF M, B
  <2>3. Key \in Seq(Byte) /\ Len(Key) = 4
    BY KeysAssumption, Zenon
  <2>4. /\ Key \o M \in Seq(Byte) /\ Len(Key \o M) = Len(Key) + Len(M)
        /\ \A i \in 1 .. Len(Key) + Len(M) :
             (Key \o M)[i] = IF i <= Len(Key) THEN Key[i] ELSE M[i - Len(Key)]
    BY <2>1, <2>3, ConcatProperties, Zenon
  <2>5. /\ B \in Seq(Byte) /\ Len(B) = 4 + n
        /\ \A i \in 1 .. 4 + n : B[i] = IF i <= 4 THEN Key[i] ELSE M[i - 4]
    BY <2>1, <2>2, <2>3, <2>4, Zenon
  <2>6. \A i \in 1 .. 4 : B[i] = Key[i]
    BY ONLY SMT, n \in Nat, <2>5
  <2>7. \A i \in 1 .. n : B[4 + i] = M[i]
    BY ONLY SMT, n \in Nat, <2>5
  <2>. QED BY <1>1, <2>1, <2>5, <2>6, <2>7, Zenon DEF B
<1>3. CASE f.mask # 1
  BY <1>1, <1>3, Zenon DEF Body
<1>. QED BY <1>2, <1>3, Zenon

(* What a client puts on the wire.                                         *)
LEMMA WireAt ==
  ASSUME NEW f \in FrameSet
  PROVE  /\ Wire(f) \in Seq(Byte) /\ Len(Wire(f)) \in Nat
         /\ f.mask = 1 =>
              /\ Len(Wire(f)) = 6 + Ext(f) + Len(f.data)
              /\ Wire(f)[1] = f.fin * 128 + f.op
              /\ Wire(f)[2] = 128 * f.mask + Len7(f)
              /\ f.form = 16 => \A i \in 1 .. 2 :
                   Wire(f)[2 + i] = Memory(Len(f.data), 2)[3 - i]
              /\ f.form = 64 => \A i \in 1 .. 8 :
                   Wire(f)[2 + i] = Memory(Len(f.data), 8)[9 - i]
              /\ \A i \in 1 .. 4 : Wire(f)[2 + Ext(f) + i] = Key[i]
              /\ \A i \in 1 .. Len(f.data) :
                   Wire(f)[6 + Ext(f) + i] = Xor(f.data[i], Key[1 + ((i - 1) % 4)])
<1>. DEFINE W == Wire(f)
            L == LengthBytes(f)
            B == Body(f)
            e == Ext(f)
<1>1. PICK n \in Nat, d \in Seq(Byte) : d = f.data /\ n = Len(d)
  BY FrameFields, Zenon
<1>2. PICK x \in Byte : x = f.fin * 128 + f.op
  <2>1. PICK a \in {0, 1}, b \in 0 .. 15 : a = f.fin /\ b = f.op
    BY FrameFields, SMT
  <2>2. a * 128 + b \in Byte
    BY ONLY a \in {0, 1}, b \in 0 .. 15, SMT DEF Byte
  <2>. QED BY <2>1, <2>2, SMT
<1>3. W = (<<x>> \o L) \o B
  <2>1. W = (<<f.fin * 128 + f.op>> \o L) \o B
    BY Zenon DEF Wire, ClientBytes, LengthBytes, Body, Masked
  <2>. HIDE DEF W, L, B
  <2>. QED BY ONLY SMT, <1>2, <2>1
<1>4. /\ L \in Seq(Byte) /\ Len(L) = 1 + e
      /\ L[1] = 128 * f.mask + Len7(f)
      /\ f.form = 16 => \A i \in 1 .. 2 : L[1 + i] = Memory(n, 2)[3 - i]
      /\ f.form = 64 => \A i \in 1 .. 8 : L[1 + i] = Memory(n, 8)[9 - i]
  <2>1. f \in FrameSet
    OBVIOUS
  <2>2. /\ L \in Seq(Byte) /\ Len(L) = 1 + e
        /\ L[1] = 128 * f.mask + Len7(f)
        /\ f.form = 16 => \A i \in 1 .. 2 : L[1 + i] = Memory(Len(f.data), 2)[3 - i]
        /\ f.form = 64 => \A i \in 1 .. 8 : L[1 + i] = Memory(Len(f.data), 8)[9 - i]
    BY ONLY SMT, <2>1, LengthBytesAt
  <2>. QED BY <1>1, <2>2, SMT
<1>5. /\ B \in Seq(Byte)
      /\ f.mask = 1 => /\ Len(B) = 4 + n /\ \A i \in 1 .. 4 : B[i] = Key[i]
                       /\ \A i \in 1 .. n : B[4 + i] = Xor(d[i], Key[1 + ((i - 1) % 4)])
  BY <1>1, BodyAt, Zenon
<1>6. e \in {0, 2, 8} /\ (f.form = 16 => e = 2) /\ (f.form = 64 => e = 8)
  BY SMT DEF Ext
<1>. HIDE DEF W, L, B, e
<1>7. PICK h \in Seq(Byte) :
        /\ W = h \o B /\ Len(h) = 2 + e /\ h[1] = x
        /\ \A i \in 1 .. 1 + e : h[1 + i] = L[i]
  <2>. DEFINE c == Cons(x, L)
  <2>1. W = c \o B
    BY <1>3, Zenon DEF Cons
  <2>2. L \in Seq(Byte) /\ Len(L) = 1 + e
    BY <1>4, SMT
  <2>3. /\ c \in Seq(Byte) /\ Len(c) = Len(L) + 1 /\ c[1] = x
        /\ \A i \in 1 .. Len(L) : c[i + 1] = L[i]
    <3>1. L \in Seq(Byte)
      BY <2>2, Zenon
    <3>. QED BY ONLY SMT, x \in Byte, <3>1, ConsAt
  <2>. HIDE DEF c
  <2>4. Len(c) = 2 + e /\ \A i \in 1 .. 1 + e : c[1 + i] = L[i]
    BY ONLY SMT, <2>2, <2>3, <1>6
  <2>. QED BY <2>1, <2>3, <2>4, Zenon
<1>8. /\ W \in Seq(Byte) /\ Len(W) = 2 + e + Len(B)
      /\ \A i \in 1 .. 2 + e + Len(B) : W[i] = IF i <= 2 + e THEN h[i] ELSE B[i - (2 + e)]
  <2>1. /\ h \o B \in Seq(Byte) /\ Len(h \o B) = Len(h) + Len(B)
        /\ \A i \in 1 .. Len(h) + Len(B) : (h \o B)[i] = IF i <= Len(h) THEN h[i] ELSE B[i - Len(h)]
    BY <1>5, ConcatProperties, Zenon
  <2>. QED BY <1>7, <2>1, Zenon
<1>9. CASE f.mask = 1
  <2>0. Len(B) = 4 + n
    BY <1>5, <1>9, Zenon
  <2>1. \A i \in 1 .. 2 + e : W[i] = h[i]
    BY ONLY SMT, n \in Nat, <2>0, <1>6, <1>8
  <2>2. \A i \in 1 .. 4 + n : W[2 + e + i] = B[i]
    BY ONLY SMT, n \in Nat, <2>0, <1>6, <1>8
  <2>3. Len(W) = 6 + e + n
    BY ONLY SMT, n \in Nat, <2>0, <1>6, <1>8
  <2>4. W[1] = x /\ \A i \in 1 .. 1 + e : W[1 + i] = L[i]
    BY ONLY SMT, <2>1, <1>6, <1>7
  <2>5. W[2] = L[1] /\ \A i \in 1 .. e : W[2 + i] = L[1 + i]
    BY ONLY SMT, <2>4, <1>6
  <2>6. \A i \in 1 .. 4 : W[2 + e + i] = B[i]
    BY ONLY SMT, n \in Nat, <2>2
  <2>7. \A i \in 1 .. n : W[6 + e + i] = B[4 + i]
    BY ONLY SMT, n \in Nat, <2>2, <1>6
  <2>8. f.form = 16 => \A i \in 1 .. 2 : W[2 + i] = Memory(n, 2)[3 - i]
    BY ONLY SMT, <2>5, <1>4, <1>6
  <2>9. f.form = 64 => \A i \in 1 .. 8 : W[2 + i] = Memory(n, 8)[9 - i]
    BY ONLY SMT, <2>5, <1>4, <1>6
  <2>10. \A i \in 1 .. 4 : W[2 + e + i] = Key[i]
    BY <2>6, <1>5, <1>9, Zenon
  <2>11. \A i \in 1 .. n : W[6 + e + i] = Xor(d[i], Key[1 + ((i - 1) % 4)])
    BY <2>7, <1>5, <1>9, Zenon
  <2>12. W[2] = 128 * f.mask + Len7(f) /\ W[1] = f.fin * 128 + f.op
    BY ONLY SMT, <2>4, <2>5, <1>2, <1>4
  <2>13. W \in Seq(Byte) /\ Len(W) \in Nat
    BY ONLY SMT, <1>8
  <2>. QED BY SMT, <2>3, <2>8, <2>9, <2>10, <2>11, <2>12, <2>13, <1>1 DEF W, e
<1>10. CASE f.mask # 1
  <2>1. W \in Seq(Byte) /\ Len(W) \in Nat
    BY ONLY SMT, <1>8
  <2>. QED BY <1>10, <2>1, Zenon DEF W
<1>. QED BY <1>9, <1>10, Zenon

-----------------------------------------------------------------------------
(* Reading frames                                                          *)

Keys == {k \in Seq(Byte) : Len(k) = 4}
FrameFieldsT == [fin : Nat, opcode : Nat, mask : Nat, payload_len : Nat,
                 masking_key : Keys, payload_data : Seq(Byte)]

LEMMA ByteParts ==
  ASSUME NEW b \in Byte
  PROVE  b \div 128 \in Nat /\ b % 16 \in Nat /\ b % 128 \in 0 .. 127
BY SMT DEF Byte

LEMMA SetField ==
  ASSUME NEW fr \in FrameFieldsT, NEW x \in Nat
  PROVE  /\ [fr EXCEPT !.fin = x] \in FrameFieldsT
         /\ [fr EXCEPT !.opcode = x] \in FrameFieldsT
         /\ [fr EXCEPT !.mask = x] \in FrameFieldsT
         /\ [fr EXCEPT !.payload_len = x] \in FrameFieldsT
BY DEF FrameFieldsT

LEMMA HeaderType ==
  ASSUME NEW fr \in FrameFieldsT, NEW buf \in Seq(Byte), Len(buf) = 2
  PROVE  /\ ParseFrameHeader(buf, fr) \in FrameFieldsT
         /\ ParseFrameHeader(buf, fr).fin = buf[1] \div 128
         /\ ParseFrameHeader(buf, fr).opcode = buf[1] % 16
         /\ ParseFrameHeader(buf, fr).payload_len = buf[2] % 128
         /\ ParseFrameHeader(buf, fr).payload_len \in 0 .. 127
<1>1. buf[1] \in Byte /\ buf[2] \in Byte
  BY SMT
<1>2. /\ buf[1] \div 128 \in Nat /\ buf[1] % 16 \in Nat
      /\ buf[2] \div 128 \in Nat /\ buf[2] % 128 \in 0 .. 127
  <2>1. buf[1] \div 128 \in Nat /\ buf[1] % 16 \in Nat
    BY <1>1, ByteParts, Zenon
  <2>2. buf[2] \div 128 \in Nat /\ buf[2] % 128 \in 0 .. 127
    BY <1>1, ByteParts, Zenon
  <2>. QED BY <2>1, <2>2, Zenon
<1>3. PICK a \in Nat, b \in Nat, c \in Nat, d \in 0 .. 127 :
        /\ a = buf[1] \div 128 /\ b = buf[1] % 16
        /\ c = buf[2] \div 128 /\ d = buf[2] % 128
  BY <1>2, Zenon
<1>4. ParseFrameHeader(buf, fr) =
        [fr EXCEPT !.fin = a, !.opcode = b, !.mask = c, !.payload_len = d]
  BY <1>3, Zenon DEF ParseFrameHeader
<1>5. d \in Nat
  BY SMT
<1>6. PICK p : p = [fr EXCEPT !.fin = a, !.opcode = b, !.mask = c, !.payload_len = d]
  OBVIOUS
<1>7. p.fin = a /\ p.opcode = b /\ p.payload_len = d
  BY ONLY SMT, fr \in FrameFieldsT, <1>6 DEF FrameFieldsT
<1>8. p \in FrameFieldsT
  <2>1. PICK p1 \in FrameFieldsT : p1 = [fr EXCEPT !.fin = a]
    BY SetField, Zenon
  <2>2. PICK p2 \in FrameFieldsT : p2 = [p1 EXCEPT !.opcode = b]
    BY SetField, Zenon
  <2>3. PICK p3 \in FrameFieldsT : p3 = [p2 EXCEPT !.mask = c]
    BY SetField, Zenon
  <2>4. p = [p3 EXCEPT !.payload_len = d]
    BY ONLY <1>6, <2>1, <2>2, <2>3, SMT
  <2>. QED BY <1>5, <2>4, SetField, Zenon
<1>. QED BY <1>3, <1>4, <1>6, <1>7, <1>8, ZenonT(40)

LEMMA HeaderRead ==
  ASSUME NEW f \in FrameSet, f.mask = 1,
         NEW fr \in FrameFieldsT, NEW buf \in Seq(Byte), Len(buf) = 2,
         \A i \in 1 .. 2 : buf[i] = Wire(f)[i]
  PROVE  /\ ParseFrameHeader(buf, fr).fin = f.fin
         /\ ParseFrameHeader(buf, fr).opcode = f.op
         /\ ParseFrameHeader(buf, fr).payload_len = Len7(f)
<1>1. PICK a \in {0, 1}, b \in 0 .. 15 : a = f.fin /\ b = f.op
  BY FrameFields, SMT
<1>2. PICK l \in 0 .. 127 : l = Len7(f)
  <2>1. PICK n \in Nat : n = Len(f.data) /\ (f.form = 7 => n <= 125)
    BY FrameFields, Zenon
  <2>2. Len7(f) = IF f.form = 7 THEN n ELSE IF f.form = 16 THEN 126 ELSE 127
    BY <2>1, Zenon DEF Len7
  <2>3. Len7(f) \in 0 .. 127
    <3>1. f.form = 7 => n \in 0 .. 127
      <4>1. f.form = 7 => n <= 125
        BY <2>1, Zenon
      <4>. QED BY ONLY SMT, n \in Nat, <4>1
    <3>2. 126 \in 0 .. 127 /\ 127 \in 0 .. 127
      BY SMT
    <3>. QED BY ONLY SMT, <2>2, <3>1, <3>2
  <2>. QED BY <2>3, Zenon
<1>3. Wire(f)[1] = f.fin * 128 + f.op /\ Wire(f)[2] = 128 * f.mask + Len7(f)
  BY WireAt, Zenon
<1>4. buf[1] = a * 128 + b /\ buf[2] = 128 + l
  <2>1. buf[1] = f.fin * 128 + f.op /\ buf[2] = 128 * f.mask + Len7(f)
    BY <1>3, SMT
  <2>2. buf[1] = a * 128 + b /\ buf[2] = 128 * 1 + l
    BY <1>1, <1>2, <2>1, Zenon
  <2>. QED BY ONLY SMT, <2>2, l \in 0 .. 127
<1>5. buf[1] \div 128 = a /\ buf[1] % 16 = b /\ buf[2] % 128 = l
  BY ONLY SMT, <1>4, a \in {0, 1}, b \in 0 .. 15, l \in 0 .. 127
<1>. QED BY <1>1, <1>2, <1>5, HeaderType, ZenonT(40)

LEMMA LengthType ==
  ASSUME NEW fr \in FrameFieldsT, NEW buf \in Seq(Byte), Len(buf) \in {2, 8},
         fr.payload_len # 126 => Len(buf) = 8
  PROVE  /\ ParseLength(buf, fr) \in FrameFieldsT
         /\ ParseLength(buf, fr).fin = fr.fin
         /\ ParseLength(buf, fr).opcode = fr.opcode
         /\ ParseLength(buf, fr).payload_len =
              IF fr.payload_len = 126 THEN Number(Hton(buf)) ELSE Number(Htonll(buf))
<1>. DEFINE p == IF fr.payload_len = 126 THEN Number(Hton(buf)) ELSE Number(Htonll(buf))
<1>1. p \in Nat
  <2>1. Hton(buf) \in Seq(Byte)
    BY ReverseAt, Zenon DEF Hton
  <2>2. fr.payload_len # 126 => Htonll(buf) \in Seq(Byte)
    BY HtonllAt, Zenon
  <2>. QED BY <2>1, <2>2, NumberType, Zenon
<1>2. ParseLength(buf, fr) = [fr EXCEPT !.payload_len = p]
  BY SMT DEF ParseLength
<1>. HIDE DEF p
<1>3. /\ ParseLength(buf, fr) \in FrameFieldsT
      /\ ParseLength(buf, fr).fin = fr.fin
      /\ ParseLength(buf, fr).opcode = fr.opcode
      /\ ParseLength(buf, fr).payload_len = p
  BY ONLY SMTT(30), fr \in FrameFieldsT, <1>1, <1>2 DEF FrameFieldsT
<1>. QED BY <1>3, Zenon DEF p

LEMMA LengthRead ==
  ASSUME NEW f \in FrameSet, f.mask = 1, f.form # 7,
         NEW fr \in FrameFieldsT, fr.payload_len = Len7(f),
         NEW buf \in Seq(Byte), Len(buf) = Ext(f),
         \A i \in 1 .. Ext(f) : buf[i] = Wire(f)[2 + i]
  PROVE  ParseLength(buf, fr).payload_len = Len(f.data)
<1>1. PICK n \in Nat : n = Len(f.data)
  BY FrameFields, Zenon
<1>2. CASE f.form = 16
  <2>1. n < 256 * 256
    BY FrameFields, <1>1, <1>2, SMT
  <2>2. Ext(f) = 2 /\ Len7(f) = 126
    BY <1>2, SMT DEF Ext, Len7
  <2>3. \A i \in 1 .. 2 : Wire(f)[2 + i] = Memory(n, 2)[3 - i]
    BY <1>1, <1>2, WireAt, Zenon
  <2>4. \A i \in 1 .. 2 : buf[i] = Memory(n, 2)[3 - i]
    BY <2>2, <2>3, Zenon
  <2>5. Len(buf) = 2
    BY <2>2, Zenon
  <2>6. Number(Hton(buf)) = n
    BY <2>1, <2>4, <2>5, LengthTwo, Zenon
  <2>. QED BY <1>1, <2>2, <2>5, <2>6, LengthType, SMT
<1>3. CASE f.form = 64
  <2>1. n < Huge
    BY FrameFields, <1>1, <1>3, SMT
  <2>2. Ext(f) = 8 /\ Len7(f) = 127
    BY <1>3, SMT DEF Ext, Len7
  <2>3. \A i \in 1 .. 8 : Wire(f)[2 + i] = Memory(n, 8)[9 - i]
    BY <1>1, <1>3, WireAt, Zenon
  <2>4. \A i \in 1 .. 8 : buf[i] = Memory(n, 8)[9 - i]
    BY <2>2, <2>3, Zenon
  <2>5. Len(buf) = 8
    BY <2>2, Zenon
  <2>6. Number(Htonll(buf)) = n
    BY <2>1, <2>4, <2>5, LengthEight, Zenon
  <2>. QED BY <1>1, <2>2, <2>5, <2>6, LengthType, SMT
<1>4. f.form = 16 \/ f.form = 64
  BY FrameFields, SMT
<1>. QED BY <1>2, <1>3, <1>4, Zenon

LEMMA UnmaskType ==
  ASSUME NEW buf \in Seq(Byte), NEW key \in Keys
  PROVE  UnmaskPayloadData(buf, key) \in Seq(Byte)
<1>1. PICK n \in Nat : n = Len(buf)
  OBVIOUS
<1>2. DOMAIN buf = 1 .. n
  BY <1>1
<1>3. \A i \in 1 .. n : Xor(buf[i], key[1 + ((i - 1) % 4)]) \in Byte
  <2>. TAKE i \in 1 .. n
  <2>0. key \in Seq(Byte) /\ Len(key) = 4
    BY Zenon DEF Keys
  <2>1. 1 + ((i - 1) % 4) \in 1 .. Len(key)
    BY ONLY <2>0, n \in Nat, i \in 1 .. n, SMT
  <2>2. key[1 + ((i - 1) % 4)] \in Byte
    BY <2>0, <2>1, ElementOfSeq, Zenon
  <2>3. buf[i] \in Byte
    BY <1>1, ElementOfSeq, Zenon
  <2>. QED BY <2>2, <2>3, XorTwice, Zenon
<1>4. UnmaskPayloadData(buf, key) = [i \in 1 .. n |-> Xor(buf[i], key[1 + ((i - 1) % 4)])]
  BY <1>2, Zenon DEF UnmaskPayloadData
<1>. QED BY ONLY SMT, n \in Nat, <1>3, <1>4

LEMMA PayloadRead ==
  ASSUME NEW f \in FrameSet, f.mask = 1,
         NEW buf \in Seq(Byte), Len(buf) = Len(f.data),
         \A i \in 1 .. Len(f.data) : buf[i] = Wire(f)[6 + Ext(f) + i]
  PROVE  UnmaskPayloadData(buf, Key) = f.data
<1>1. PICK n \in Nat, d \in Seq(Byte) : d = f.data /\ n = Len(d)
  BY FrameFields, Zenon
<1>2. DOMAIN buf = 1 .. n /\ DOMAIN d = 1 .. n
  BY <1>1
<1>3. \A i \in 1 .. n : Xor(buf[i], Key[1 + ((i - 1) % 4)]) = d[i]
  <2>. TAKE i \in 1 .. n
  <2>1. i \in Nat \ {0}
    BY ONLY SMT, n \in Nat, i \in 1 .. n
  <2>2. d[i] \in Byte
    BY <1>1, ElementOfSeq, Zenon
  <2>3. buf[i] = Xor(d[i], Key[1 + ((i - 1) % 4)])
    BY <1>1, WireAt, ZenonT(40)
  <2>4. PICK k \in Byte : k = Key[1 + ((i - 1) % 4)]
    BY <2>1, KeyByte, Zenon
  <2>5. Xor(Xor(d[i], k), k) = d[i]
    BY <2>2, XorTwice, Zenon
  <2>. QED BY <2>3, <2>4, <2>5, Zenon
<1>4. UnmaskPayloadData(buf, Key) = [i \in 1 .. n |-> Xor(buf[i], Key[1 + ((i - 1) % 4)])]
  BY <1>2, Zenon DEF UnmaskPayloadData
<1>5. [i \in 1 .. n |-> Xor(buf[i], Key[1 + ((i - 1) % 4)])] = [i \in 1 .. n |-> d[i]]
  BY <1>3, Zenon
<1>6. d = [i \in 1 .. n |-> d[i]]
  BY ONLY SMT, n \in Nat, d \in Seq(Byte), <1>2
<1>. QED BY <1>1, <1>4, <1>5, <1>6, Zenon

-----------------------------------------------------------------------------
(* The handshake                                                           *)

Response == [kind |-> "response", accept |-> GenerateKey(ClientKey)]

LEMMA BlanksDropped ==
  ASSUME NEW S, NEW v \in Seq(S), NEW b \in 0 .. Len(v),
         \A j \in 1 .. b : v[j] = " ",
         SubSeq(v, b + 1, Len(v)) = ClientKey
  PROVE  DropBlanks(v) = ClientKey
<1>. DEFINE T == {i \in DOMAIN v : v[i] # " "}
            first == CHOOSE i \in T : \A j \in T : i <= j
<1>1. Len(v) \in Nat /\ DOMAIN v = 1 .. Len(v) /\ b \in Nat /\ b <= Len(v)
  BY ONLY v \in Seq(S), b \in 0 .. Len(v)
<1>0. Len(v) \in Nat /\ b \in Nat /\ b <= Len(v)
  BY <1>1, Zenon
<1>2. b < Len(v)
  <2>1. CASE b = Len(v)
    <3>1. b + 1 \in Int /\ Len(v) \in Int /\ Len(v) < b + 1
      BY ONLY <1>1, <2>1
    <3>2. SubSeq(v, b + 1, Len(v)) = <<>>
      BY <3>1, SubSeqEmpty, Zenon
    <3>. QED BY <3>2, KeysAssumption, Zenon
  <2>. QED BY ONLY <1>0, <2>1, SMT
<1>3. ClientKey[1] = v[b + 1]
  <2>. DEFINE w == SubSeq(v, b + 1, Len(v))
  <2>1. b + 1 \in Int /\ Len(v) \in Int /\ \A i \in b + 1 .. Len(v) : v[i] \in S
    <3>1. \A i \in 1 .. Len(v) : v[i] \in S
      BY ElementOfSeq, Zenon
    <3>. QED BY ONLY <1>1, <3>1
  <2>2. \A i \in 1 .. Len(v) - (b + 1) + 1 : w[i] = v[b + 1 + i - 1]
    BY ONLY <2>1, SubSeqProperties, SMT
  <2>. HIDE DEF w
  <2>3. w[1] = v[b + 1]
    BY ONLY <1>1, <1>2, <2>2
  <2>. QED BY <2>3, Zenon DEF w
<1>4. b + 1 \in T /\ \A j \in T : b + 1 <= j
  <2>1. v[b + 1] # " "
    BY <1>3, KeysAssumption, Zenon
  <2>2. b + 1 \in DOMAIN v
    BY ONLY <1>1, <1>2
  <2>3. ASSUME NEW j \in T PROVE b + 1 <= j
    <3>1. j \in 1 .. Len(v) /\ v[j] # " "
      BY <1>1, Zenon
    <3>2. ~(j \in 1 .. b)
      BY <3>1, Zenon
    <3>3. j \in 1 .. Len(v)
      BY <3>1, Zenon
    <3>. HIDE DEF T
    <3>. QED BY ONLY <1>0, <3>2, <3>3, SMT
  <2>. QED BY <2>1, <2>2, <2>3, Zenon
<1>5. first \in T /\ \A j \in T : first <= j
  BY <1>4, Zenon
<1>6. T \subseteq 1 .. Len(v)
  BY <1>1, Zenon
<1>. HIDE DEF first, T
<1>7. first = b + 1
  <2>1. first <= b + 1 /\ b + 1 <= first /\ first \in 1 .. Len(v)
    BY <1>4, <1>5, <1>6, Zenon
  <2>. QED BY ONLY <1>1, <2>1
<1>8. T # {}
  BY <1>4, Zenon
<1>9. DropBlanks(v) = IF T = {} THEN <<>> ELSE SubSeq(v, first, Len(v))
  BY Zenon DEF DropBlanks, T, first
<1>. QED BY <1>7, <1>8, <1>9, Zenon

(* The response to a request of this client carries its key.               *)
LEMMA Answer ==
  ASSUME NEW r \in Requests
  PROVE  GenerateWebsocketResponse(ParseWebsocketRequest(r)) = Response
<1>. DEFINE K == "Sec-WebSocket-Key"
            H == Headers(r, K)
            Final == CHOOSE i \in H : \A j \in H : j <= i
            p == ParseWebsocketRequest(r)
<1>1. PICK i \in H :
        /\ \A j \in H : j <= i
        /\ \E b \in 0 .. Len(r[i].value) :
             /\ \A j \in 1 .. b : r[i].value[j] = " "
             /\ SubSeq(r[i].value, b + 1, Len(r[i].value)) = ClientKey
  BY RequestsAssumption, Zenon
<1>2. r \in Seq([name : STRING, value : Seq(STRING)])
  BY RequestsAssumption, Zenon
<1>3. H \subseteq 1 .. Len(r)
  BY <1>2, SMT DEF Headers
<1>4. H # {} /\ Final \in H /\ \A j \in H : j <= Final
  BY <1>1, Zenon
<1>. HIDE DEF Final, H
<1>5. Final = i
  <2>1. Final <= i /\ i <= Final /\ i \in 1 .. Len(r) /\ Final \in 1 .. Len(r)
    BY <1>1, <1>3, <1>4, Zenon
  <2>. QED BY <1>2, <2>1
<1>6. r[i].value \in Seq(STRING)
  <2>1. i \in 1 .. Len(r)
    BY <1>3, Zenon
  <2>2. r[i] \in [name : STRING, value : Seq(STRING)]
    BY <1>2, <2>1, ElementOfSeq, Zenon
  <2>. QED BY <2>2
<1>7. DropBlanks(r[i].value) = ClientKey
  <2>1. PICK b \in 0 .. Len(r[i].value) :
             /\ \A j \in 1 .. b : r[i].value[j] = " "
             /\ SubSeq(r[i].value, b + 1, Len(r[i].value)) = ClientKey
    BY <1>1, Zenon
  <2>. QED BY <1>6, <2>1, BlanksDropped, Zenon
<1>8. p[K] = IF H = {} THEN <<>> ELSE DropBlanks(r[Final].value)
  <2>1. K # "Host"
    OBVIOUS
  <2>. QED BY <2>1, SMT DEF ParseWebsocketRequest, H, Final
<1>9. p[K] = ClientKey
  BY <1>4, <1>5, <1>7, <1>8, Zenon
<1>. HIDE DEF p
<1>. QED BY <1>9, Zenon DEF GenerateWebsocketResponse, Response, p

-----------------------------------------------------------------------------
(* The stream and the phases of a connection                               *)

LEMMA ConcatAt ==
  ASSUME NEW S, NEW s \in Seq(S), NEW t \in Seq(S)
  PROVE  /\ s \o t \in Seq(S) /\ Len(s \o t) = Len(s) + Len(t)
         /\ \A i \in 1 .. Len(s) : (s \o t)[i] = s[i]
         /\ \A i \in 1 .. Len(t) : (s \o t)[Len(s) + i] = t[i]
         /\ Len(s) \in Nat /\ Len(t) \in Nat
<1>1. Len(s) \in Nat /\ Len(t) \in Nat
  OBVIOUS
<1>. DEFINE w == s \o t
<1>2. /\ w \in Seq(S) /\ Len(w) = Len(s) + Len(t)
      /\ \A i \in 1 .. Len(s) + Len(t) : w[i] = IF i <= Len(s) THEN s[i] ELSE t[i - Len(s)]
  BY ConcatProperties, Zenon
<1>. HIDE DEF w
<1>3. /\ \A i \in 1 .. Len(s) : w[i] = s[i]
      /\ \A i \in 1 .. Len(t) : w[Len(s) + i] = t[i]
  <2>1. PICK m \in Nat, n \in Nat : m = Len(s) /\ n = Len(t)
    BY <1>1, Zenon
  <2>2. \A i \in 1 .. m + n : w[i] = IF i <= m THEN s[i] ELSE t[i - m]
    BY <1>2, <2>1, Zenon
  <2>3. \A i \in 1 .. m : w[i] = s[i]
    BY ONLY m \in Nat, n \in Nat, <2>2, SMT
  <2>4. \A i \in 1 .. n : w[m + i] = t[i]
    BY ONLY m \in Nat, n \in Nat, <2>2, SMT
  <2>. QED BY <2>1, <2>3, <2>4, Zenon
<1>. QED BY <1>1, <1>2, <1>3, Zenon DEF w

(* What may be read: a byte, or a character or a line of the request.      *)
Sym == Byte \cup [name : STRING, value : Seq(STRING)]

(* The bytes the client has sent and no callback has taken.                *)
Unread == inbuf \o socket

TypeInv ==
  /\ socket \in Seq(Sym) /\ inbuf \in Seq(Sym)
  /\ step \in {"ZERO", "ONE", "TWO", "THREE", "FOUR"}
  /\ ntoread \in Nat /\ frame \in FrameFieldsT
  /\ ws_req_str \in Seq(Sym) /\ written \in Seq({Response, CloseFrame})
  /\ request \in Requests \cup {<<>>} /\ sent \in Seq(FrameSet)
  /\ msg \in Seq(Byte) /\ delivered \in Seq(Seq(Byte)) /\ pongs \in Seq(Seq(Byte))

(* Until it has been answered the request is being read, a byte at a time. *)
Asking ==
  written = <<>> =>
    /\ step = "ZERO" /\ ntoread = 1
    /\ request = <<>> => ws_req_str = <<>> /\ Unread = <<>> /\ sent = <<>>
    /\ request # <<>> => Len(ws_req_str) < Len(request)
    /\ \A i \in 1 .. Len(ws_req_str) : ws_req_str[i] = request[i]
    /\ Len(request) <= Len(ws_req_str) + Len(Unread)
    /\ \A i \in 1 .. Len(Unread) :
         IF Len(ws_req_str) + i <= Len(request)
           THEN Unread[i] = request[Len(ws_req_str) + i] ELSE Unread[i] \in Byte

(* From then on everything is bytes, and only close frames are written.    *)
Answered ==
  written # <<>> =>
    /\ ws_req_str = request /\ request # <<>>
    /\ inbuf \in Seq(Byte) /\ socket \in Seq(Byte)
    /\ written[1] = Response
    /\ \A i \in 2 .. Len(written) : written[i] = CloseFrame
    /\ step = "ZERO" => ~reading /\ inbuf = <<>> /\ Len(written) = 1

Watermarks ==
  /\ Len(inbuf) <= ntoread
  /\ step = "ZERO" => ntoread = 1
  /\ step = "ONE" => ntoread = 2
  /\ step = "TWO" => \/ frame.payload_len = 126 /\ ntoread = 2
                     \/ frame.payload_len = 127 /\ ntoread = 8
  /\ step = "THREE" => ntoread = 4
  /\ step = "FOUR" => ntoread = frame.payload_len /\ ntoread > 0

(* After a close frame the reader is stuck at that frame.                  *)
Ended ==
  Len(written) >= 2 =>
    /\ step \in {"THREE", "FOUR"} /\ frame.fin = 1 /\ frame.opcode = 8
    /\ step = "THREE" => frame.payload_len = 0

ConnInv == TypeInv /\ Asking /\ Answered /\ Watermarks /\ Ended

LEMMA Frame0Type == Frame0 \in FrameFieldsT
<1>1. <<0, 0, 0, 0>> \in Keys
  BY SMT DEF Keys, Byte
<1>2. <<>> \in Seq(Byte)
  OBVIOUS
<1>. QED BY <1>1, <1>2 DEF Frame0, FrameFieldsT

LEMMA ConnInvInit == Init => ConnInv
<1>. SUFFICES ASSUME Init PROVE ConnInv
  OBVIOUS
<1>1. TypeInv
  BY Frame0Type DEF Init, ConnNew, AcceptWebsocketRequest, TypeInv
<1>2. Asking /\ Answered
  BY DEF Init, ConnNew, AcceptWebsocketRequest, Asking, Answered, Unread
<1>3. Watermarks /\ Ended
  BY DEF Init, ConnNew, AcceptWebsocketRequest, Watermarks, Ended
<1>. QED BY <1>1, <1>2, <1>3 DEF ConnInv

LEMMA RequestType ==
  ASSUME NEW r \in Requests
  PROVE  r \in Seq(Sym) /\ Len(r) >= 4 /\ Len(r) \in Nat /\ r # <<>>
<1>1. r \in Seq([name : STRING, value : Seq(STRING)]) /\ Len(r) >= 4
  BY RequestsAssumption, Zenon
<1>. DEFINE L == [name : STRING, value : Seq(STRING)]
<1>2. r \in Seq(L) /\ L \subseteq Sym /\ Len(r) >= 4
  BY <1>1, Zenon DEF Sym
<1>. HIDE DEF L
<1>. QED BY ONLY <1>2, SMT

(* Sending.                                                                *)
LEMMA SendRequestInv ==
  ASSUME ConnInv, NEW r \in Requests, SendRequest(r)
  PROVE  ConnInv'
<1>. USE DEF SendRequest, conn
<1>1. r \in Seq(Sym) /\ Len(r) >= 4 /\ Len(r) \in Nat /\ r # <<>>
  BY RequestType
<1>2. socket \in Seq(Sym) /\ inbuf \in Seq(Sym) /\ TypeInv
  BY DEF ConnInv, TypeInv
<1>3. written = <<>>
  BY DEF ConnInv, Answered
<1>4. inbuf = <<>> /\ socket = <<>> /\ ws_req_str = <<>> /\ step = "ZERO" /\ ntoread = 1
  <2>1. Unread = <<>> /\ ws_req_str = <<>> /\ step = "ZERO" /\ ntoread = 1
    BY <1>3 DEF ConnInv, Asking
  <2>. QED BY <1>2, <2>1 DEF Unread
<1>5. socket' = r /\ Unread' = r /\ inbuf' = <<>>
  BY <1>1, <1>4 DEF Unread
<1>6. TypeInv'
  BY <1>1, <1>2, <1>5 DEF TypeInv
<1>7. Asking'
  BY <1>1, <1>3, <1>4, <1>5 DEF Asking
<1>8. Answered' /\ Watermarks' /\ Ended'
  BY <1>3 DEF ConnInv, Answered, Watermarks, Ended
<1>. QED BY <1>6, <1>7, <1>8 DEF ConnInv

LEMMA ByteSym == Byte \subseteq Sym /\ Seq(Byte) \subseteq Seq(Sym)
<1>1. Byte \subseteq Sym
  BY Zenon DEF Sym
<1>. QED BY <1>1

LEMMA UnreadType ==
  ASSUME TypeInv
  PROVE  /\ Unread \in Seq(Sym) /\ Len(Unread) = Len(inbuf) + Len(socket)
         /\ \A i \in 1 .. Len(inbuf) : Unread[i] = inbuf[i]
         /\ \A i \in 1 .. Len(socket) : Unread[Len(inbuf) + i] = socket[i]
         /\ Len(inbuf) \in Nat /\ Len(socket) \in Nat /\ Len(Unread) \in Nat
<1>1. inbuf \in Seq(Sym) /\ socket \in Seq(Sym)
  BY Zenon DEF TypeInv
<1>2. /\ Unread \in Seq(Sym) /\ Len(Unread) = Len(inbuf) + Len(socket)
      /\ \A i \in 1 .. Len(inbuf) : Unread[i] = inbuf[i]
      /\ \A i \in 1 .. Len(socket) : Unread[Len(inbuf) + i] = socket[i]
      /\ Len(inbuf) \in Nat /\ Len(socket) \in Nat
  BY <1>1, ConcatAt, Zenon DEF Unread
<1>3. Len(Unread) \in Nat
  BY <1>2
<1>. QED BY <1>2, <1>3, Zenon

LEMMA SendUnread ==
  ASSUME TypeInv, NEW f \in FrameSet, SendFrame(f)
  PROVE  Unread' = Unread \o Wire(f) /\ Wire(f) \in Seq(Byte) /\ Wire(f) \in Seq(Sym)
<1>1. inbuf \in Seq(Sym) /\ socket \in Seq(Sym)
  BY Zenon DEF TypeInv
<1>2. Wire(f) \in Seq(Byte) /\ Wire(f) \in Seq(Sym)
  BY WireAt, ByteSym, Zenon
<1>3. Unread' = inbuf \o (socket \o Wire(f))
  BY Zenon DEF SendFrame, Unread, Wire
<1>4. (inbuf \o socket) \o Wire(f) = inbuf \o (socket \o Wire(f))
  BY <1>1, <1>2, ConcatAssociative
<1>. QED BY <1>2, <1>3, <1>4, Zenon DEF Unread

LEMMA SendFrameInv ==
  ASSUME ConnInv, NEW f \in FrameSet, SendFrame(f)
  PROVE  ConnInv'
<1>. DEFINE w == Wire(f)
<1>0. TypeInv
  BY DEF ConnInv
<1>1. /\ Unread' = Unread \o w /\ w \in Seq(Byte) /\ w \in Seq(Sym)
      /\ sent' = Append(sent, f) /\ socket' = socket \o w
      /\ inbuf' = inbuf /\ request' = request /\ alive' = alive
      /\ reading' = reading /\ step' = step /\ ntoread' = ntoread /\ frame' = frame
      /\ ws_req_str' = ws_req_str /\ written' = written /\ msg' = msg
      /\ delivered' = delivered /\ pongs' = pongs /\ request # <<>>
  BY <1>0, SendUnread, Zenon DEF SendFrame, conn, Wire
<1>. HIDE DEF w
<1>2. TypeInv'
  BY <1>0, <1>1 DEF TypeInv
<1>3. Asking'
  <2>. SUFFICES ASSUME written = <<>>
               PROVE  Asking'
    BY <1>1, Zenon DEF Asking
  <2>1. PICK u \in Seq(Sym) : u = Unread
    BY <1>0, UnreadType, Zenon
  <2>2. /\ Len(u \o w) = Len(u) + Len(w)
        /\ \A i \in 1 .. Len(u) : (u \o w)[i] = u[i]
        /\ \A i \in 1 .. Len(w) : (u \o w)[Len(u) + i] = w[i]
        /\ Len(u) \in Nat /\ Len(w) \in Nat
    <3>1. w \in Seq(Sym)
      BY <1>1, Zenon
    <3>. QED BY ONLY u \in Seq(Sym), <3>1, ConcatAt, SMT
  <2>3. PICK v : v = u \o w /\ v = Unread'
    BY <1>1, <2>1, Zenon
  <2>4. PICK m \in Nat, n \in Nat : m = Len(ws_req_str) /\ n = Len(request)
    <3>1. ws_req_str \in Seq(Sym) /\ request \in Requests \cup {<<>>}
      BY <1>0 DEF TypeInv
    <3>. QED BY <3>1, RequestType, <1>1
  <2>5. /\ n <= m + Len(u)
        /\ \A i \in 1 .. Len(u) :
             IF m + i <= n THEN u[i] = request[m + i] ELSE u[i] \in Byte
    BY <2>1, <2>4, Zenon DEF ConnInv, Asking
  <2>6. n <= m + Len(v)
    BY ONLY <2>2, <2>3, <2>5, m \in Nat, n \in Nat, SMT
  <2>7. \A i \in 1 .. Len(v) :
          IF m + i <= n THEN v[i] = request[m + i] ELSE v[i] \in Byte
    <3>. TAKE i \in 1 .. Len(v)
    <3>0. Len(v) = Len(u) + Len(w)
      BY <2>2, <2>3, Zenon
    <3>1. CASE i \in 1 .. Len(u)
      <4>1. v[i] = u[i]
        BY <2>2, <2>3, <3>1, Zenon
      <4>. QED BY <2>5, <3>1, <4>1, Zenon
    <3>2. CASE ~(i \in 1 .. Len(u))
      <4>1. PICK j \in 1 .. Len(w) : i = Len(u) + j
        <5>1. i - Len(u) \in 1 .. Len(w) /\ i = Len(u) + (i - Len(u))
          BY ONLY <2>2, <3>0, <3>2, i \in 1 .. Len(v), SMT
        <5>. QED BY <5>1, Zenon
      <4>2. v[i] = w[j]
        BY <2>2, <2>3, <4>1, Zenon
      <4>3. w[j] \in Byte
        BY <1>1, ElementOfSeq, Zenon
      <4>4. ~(m + i <= n)
        BY ONLY <2>2, <2>5, <4>1, j \in 1 .. Len(w), m \in Nat, n \in Nat, SMT
      <4>. QED BY <4>2, <4>3, <4>4, Zenon
    <3>. QED BY <3>1, <3>2, Zenon
  <2>8. /\ step = "ZERO" /\ ntoread = 1 /\ Len(ws_req_str) < Len(request)
        /\ \A i \in 1 .. Len(ws_req_str) : ws_req_str[i] = request[i]
    BY <1>1, Zenon DEF ConnInv, Asking
  <2>. QED BY <1>1, <2>3, <2>4, <2>6, <2>7, <2>8, Zenon DEF Asking
<1>4. Answered'
  <2>1. written # <<>> => socket \in Seq(Byte)
    BY DEF ConnInv, Answered
  <2>2. written # <<>> => socket \o w \in Seq(Byte)
    BY <1>1, <2>1
  <2>. QED BY <1>1, <2>2, Zenon DEF ConnInv, Answered
<1>5. Watermarks' /\ Ended'
  BY <1>1, Zenon DEF ConnInv, Watermarks, Ended
<1>. QED BY <1>2, <1>3, <1>4, <1>5, Zenon DEF ConnInv

(* libevent takes a byte off the socket: it is unread all the same.        *)
LEMMA ArriveUnread ==
  ASSUME TypeInv, Arrive
  PROVE  /\ Unread' = Unread /\ Len(inbuf') = Len(inbuf) + 1
         /\ inbuf' \in Seq(Sym) /\ socket' \in Seq(Sym) /\ Head(socket) \in Sym
<1>. DEFINE x == Head(socket)
            t == Tail(socket)
<1>1. inbuf \in Seq(Sym) /\ socket \in Seq(Sym) /\ socket # <<>>
  BY DEF TypeInv, Arrive
<1>2. x \in Sym /\ t \in Seq(Sym) /\ socket = <<x>> \o t
  BY <1>1
<1>3. inbuf' = Append(inbuf, x) /\ socket' = t
  BY DEF Arrive
<1>. HIDE DEF x, t
<1>4. Append(inbuf, x) = inbuf \o <<x>> /\ <<x>> \in Seq(Sym)
  BY <1>1, <1>2, AppendIsConcat
<1>5. (inbuf \o <<x>>) \o t = inbuf \o (<<x>> \o t)
  BY <1>1, <1>2, <1>4, ConcatAssociative
<1>6. Unread' = Unread
  BY <1>2, <1>3, <1>4, <1>5, Zenon DEF Unread
<1>7. Append(inbuf, x) \in Seq(Sym) /\ Len(Append(inbuf, x)) = Len(inbuf) + 1
  BY <1>1, <1>2
<1>. QED BY <1>2, <1>3, <1>6, <1>7, Zenon DEF x

LEMMA ArriveInv ==
  ASSUME ConnInv, Arrive
  PROVE  ConnInv'
<1>0. TypeInv
  BY DEF ConnInv
<1>1. /\ Unread' = Unread /\ Len(inbuf') = Len(inbuf) + 1
      /\ inbuf' \in Seq(Sym) /\ socket' \in Seq(Sym)
      /\ sent' = sent /\ request' = request
      /\ reading' = reading /\ step' = step /\ ntoread' = ntoread /\ frame' = frame
      /\ ws_req_str' = ws_req_str /\ written' = written /\ msg' = msg
      /\ delivered' = delivered /\ pongs' = pongs
      /\ reading /\ Len(inbuf) < ntoread
  BY <1>0, ArriveUnread, Zenon DEF Arrive, conn
<1>2. TypeInv'
  BY <1>0, <1>1, Zenon DEF TypeInv
<1>3. Asking'
  BY <1>1, Zenon DEF ConnInv, Asking
<1>4. Answered'
  <2>1. written # <<>> => inbuf' \in Seq(Byte) /\ socket' \in Seq(Byte)
    <3>1. written # <<>> => inbuf \in Seq(Byte) /\ socket \in Seq(Byte)
      BY DEF ConnInv, Answered
    <3>2. /\ inbuf' = Append(inbuf, Head(socket)) /\ socket' = Tail(socket)
          /\ socket # <<>>
      BY DEF Arrive
    <3>. QED BY <3>1, <3>2
  <2>. QED BY <1>1, <2>1, Zenon DEF ConnInv, Answered
<1>5. Watermarks' /\ Ended'
  <2>1. Len(inbuf') <= ntoread
    BY <1>0, <1>1, UnreadType DEF TypeInv
  <2>. QED BY <1>1, <2>1, Zenon DEF ConnInv, Watermarks, Ended
<1>. QED BY <1>2, <1>3, <1>4, <1>5, Zenon DEF ConnInv

(* A callback takes the whole input buffer.                                *)
LEMMA ReadUnread ==
  ASSUME TypeInv, inbuf' = <<>>, socket' = socket
  PROVE  /\ Unread' = socket /\ Unread' \in Seq(Sym)
         /\ Len(Unread) = Len(inbuf) + Len(Unread')
         /\ \A i \in 1 .. Len(inbuf) : inbuf[i] = Unread[i]
         /\ \A i \in 1 .. Len(Unread') : Unread'[i] = Unread[Len(inbuf) + i]
         /\ Len(inbuf) \in Nat /\ Len(Unread') \in Nat
<1>1. socket \in Seq(Sym)
  BY DEF TypeInv
<1>2. Unread' = socket
  <2>1. Unread' = <<>> \o socket
    BY Zenon DEF Unread
  <2>. QED BY <1>1, <2>1
<1>. QED BY <1>1, <1>2, UnreadType, Zenon

LEMMA SameSub ==
  ASSUME NEW S, NEW s \in Seq(S), NEW t \in Seq(S), Len(s) <= Len(t), Len(s) >= 4,
         \A i \in 1 .. Len(s) : s[i] = t[i]
  PROVE  SubSeq(s, Len(s) - 3, Len(s)) = SubSeq(t, Len(s) - 3, Len(s))
<1>1. PICK n \in Nat : n = Len(s) /\ n >= 4 /\ n <= Len(t)
  OBVIOUS
<1>. DEFINE a == SubSeq(s, n - 3, n)
            b == SubSeq(t, n - 3, n)
<1>2. n - 3 \in Int /\ n \in Int /\ \A i \in n - 3 .. n : s[i] \in S /\ t[i] \in S
  <2>1. \A i \in n - 3 .. n : i \in 1 .. Len(s) /\ i \in 1 .. Len(t)
    <3>1. Len(t) \in Nat
      OBVIOUS
    <3>. QED BY ONLY <1>1, <3>1, SMT
  <2>2. \A i \in n - 3 .. n : s[i] \in S /\ t[i] \in S
    BY <2>1, ElementOfSeq, Zenon
  <2>. QED BY <2>2, SMT
<1>3. /\ a \in Seq(S) /\ Len(a) = (IF n - 3 <= n THEN n - (n - 3) + 1 ELSE 0)
      /\ \A i \in 1 .. n - (n - 3) + 1 : a[i] = s[(n - 3) + i - 1]
  BY ONLY <1>2, SubSeqProperties, SMT
<1>4. /\ b \in Seq(S) /\ Len(b) = (IF n - 3 <= n THEN n - (n - 3) + 1 ELSE 0)
      /\ \A i \in 1 .. n - (n - 3) + 1 : b[i] = t[(n - 3) + i - 1]
  BY ONLY <1>2, SubSeqProperties, SMT
<1>. HIDE DEF a, b
<1>5. Len(a) = 4 /\ \A i \in 1 .. 4 : a[i] = s[(n - 4) + i]
  BY ONLY <1>3, n \in Nat, SMT
<1>6. Len(b) = 4 /\ \A i \in 1 .. 4 : b[i] = t[(n - 4) + i]
  BY ONLY <1>4, n \in Nat, SMT
<1>7. \A i \in 1 .. 4 : (n - 4) + i \in 1 .. Len(s)
  BY ONLY <1>1, n \in Nat, SMT
<1>8. \A i \in 1 .. 4 : a[i] = b[i]
  BY <1>5, <1>6, <1>7, Zenon
<1>9. a = b
  BY <1>3, <1>4, <1>5, <1>6, <1>8, SeqEqual
<1>. QED BY <1>1, <1>9, Zenon DEF a, b

(* The end of the request is seen where it is, and not before.             *)
LEMMA RequestEnd ==
  ASSUME NEW r \in Requests, NEW s \in Seq(Sym), Len(s) <= Len(r),
         \A i \in 1 .. Len(s) : s[i] = r[i]
  PROVE  (Len(s) >= 4 /\ SubSeq(s, Len(s) - 3, Len(s)) = <<CR, LF, CR, LF>>)
           <=> Len(s) = Len(r)
<1>1. r \in Seq(Sym) /\ Len(r) >= 4 /\ Len(r) \in Nat /\ Len(s) \in Nat
  BY RequestType
<1>2. Len(s) = Len(r) => Len(s) >= 4
  BY <1>1, Zenon
<1>3. ASSUME Len(s) >= 4
      PROVE  SubSeq(s, Len(s) - 3, Len(s)) = <<CR, LF, CR, LF>> <=> Len(s) = Len(r)
  <2>1. SubSeq(s, Len(s) - 3, Len(s)) = SubSeq(r, Len(s) - 3, Len(s))
    BY <1>1, <1>3, SameSub, Zenon
  <2>2. Len(s) \in 4 .. Len(r)
    BY ONLY <1>1, <1>3, Len(s) <= Len(r), SMT
  <2>3. \A n \in 4 .. Len(r) : SubSeq(r, n - 3, n) = <<CR, LF, CR, LF>> <=> n = Len(r)
    BY RequestsAssumption, Zenon
  <2>4. SubSeq(r, Len(s) - 3, Len(s)) = <<CR, LF, CR, LF>> <=> Len(s) = Len(r)
    BY <2>2, <2>3, Zenon
  <2>. QED BY <2>1, <2>4, Zenon
<1>. QED BY <1>2, <1>3, Zenon

(* request_read_cb takes the next byte of the request.                     *)
LEMMA RequestReadFacts ==
  ASSUME ConnInv, RequestRead
  PROVE  /\ written = <<>> /\ request \in Requests /\ Len(inbuf) = 1
         /\ ws_req_str \o inbuf \in Seq(Sym)
         /\ Len(ws_req_str \o inbuf) = Len(ws_req_str) + 1
         /\ Len(ws_req_str) + 1 <= Len(request)
         /\ \A i \in 1 .. Len(ws_req_str) + 1 : (ws_req_str \o inbuf)[i] = request[i]
         /\ Len(ws_req_str) \in Nat /\ Len(request) \in Nat
<1>0. TypeInv /\ inbuf \in Seq(Sym) /\ ws_req_str \in Seq(Sym)
  BY DEF ConnInv, TypeInv
<1>1. reading /\ Len(inbuf) = ntoread /\ step = "ZERO"
  BY Zenon DEF RequestRead, Ready
<1>2. written = <<>>
  BY <1>1, Zenon DEF ConnInv, Answered
<1>3. Len(inbuf) = 1
  BY <1>1, <1>2, Zenon DEF ConnInv, Asking
<1>4. /\ Len(Unread) = 1 + Len(socket) /\ Unread[1] = inbuf[1] /\ Len(socket) \in Nat
  BY <1>0, <1>3, UnreadType
<1>5. request # <<>>
  <2>1. Unread # <<>>
    BY <1>4
  <2>. QED BY <1>2, <2>1, Zenon DEF ConnInv, Asking
<1>6. request \in Requests
  BY <1>0, <1>5, Zenon DEF TypeInv
<1>7. PICK m \in Nat, n \in Nat : m = Len(ws_req_str) /\ n = Len(request)
  BY <1>0, <1>6, RequestType
<1>8. m < n /\ \A i \in 1 .. m : ws_req_str[i] = request[i]
  BY <1>2, <1>5, <1>7, Zenon DEF ConnInv, Asking
<1>9. inbuf[1] = request[m + 1]
  <2>1. \A i \in 1 .. Len(Unread) :
          IF m + i <= n THEN Unread[i] = request[m + i] ELSE Unread[i] \in Byte
    BY <1>2, <1>7, Zenon DEF ConnInv, Asking
  <2>2. 1 \in 1 .. Len(Unread) /\ m + 1 <= n
    BY <1>4, <1>8, SMT
  <2>3. Unread[1] = request[m + 1]
    BY <2>1, <2>2, Zenon
  <2>. QED BY <1>4, <2>3, Zenon
<1>10. PICK s : s = ws_req_str \o inbuf
  OBVIOUS
<1>11. /\ s \in Seq(Sym) /\ Len(s) = m + 1
       /\ \A i \in 1 .. m : s[i] = ws_req_str[i]
       /\ \A i \in 1 .. 1 : s[m + i] = inbuf[i]
  <2>1. PICK a \in Seq(Sym), b \in Seq(Sym) : a = ws_req_str /\ b = inbuf
    BY <1>0, Zenon
  <2>2. /\ a \o b \in Seq(Sym) /\ Len(a \o b) = Len(a) + Len(b)
        /\ \A i \in 1 .. Len(a) : (a \o b)[i] = a[i]
        /\ \A i \in 1 .. Len(b) : (a \o b)[Len(a) + i] = b[i]
    BY ONLY a \in Seq(Sym), b \in Seq(Sym), ConcatAt, SMT
  <2>. QED BY <1>3, <1>7, <1>10, <2>1, <2>2, Zenon
<1>12. \A i \in 1 .. m + 1 : s[i] = request[i]
  <2>. TAKE i \in 1 .. m + 1
  <2>1. CASE i \in 1 .. m
    BY <1>8, <1>11, <2>1, Zenon
  <2>2. CASE i = m + 1
    <3>1. s[m + 1] = inbuf[1]
      BY <1>11, SMT
    <3>. QED BY <1>9, <2>2, <3>1, Zenon
  <2>3. i \in 1 .. m \/ i = m + 1
    BY ONLY m \in Nat, i \in 1 .. m + 1, SMT
  <2>. QED BY <2>1, <2>2, <2>3, Zenon
<1>13. m + 1 <= n
  BY ONLY <1>8, m \in Nat, n \in Nat, SMT
<1>. QED BY <1>2, <1>3, <1>6, <1>7, <1>10, <1>11, <1>12, <1>13, Zenon

LEMMA RequestReadInv ==
  ASSUME ConnInv, RequestRead
  PROVE  ConnInv'
<1>. DEFINE s == ws_req_str \o inbuf
            E == Len(s) >= 4 /\ SubSeq(s, Len(s) - 3, Len(s)) = <<CR, LF, CR, LF>>
<1>0. TypeInv
  BY DEF ConnInv
<1>1. PICK m \in Nat, n \in Nat :
        /\ m = Len(ws_req_str) /\ n = Len(request)
        /\ written = <<>> /\ request \in Requests /\ Len(inbuf) = 1
        /\ s \in Seq(Sym) /\ Len(s) = m + 1 /\ m + 1 <= n
        /\ \A i \in 1 .. m + 1 : s[i] = request[i]
  BY RequestReadFacts, Zenon
<1>2. /\ inbuf' = <<>> /\ socket' = socket /\ ws_req_str' = s
      /\ step' = step /\ ntoread' = ntoread /\ frame' = frame /\ msg' = msg
      /\ delivered' = delivered /\ pongs' = pongs /\ request' = request /\ sent' = sent
      /\ step = "ZERO"
  BY Zenon DEF RequestRead
<1>3. IF E THEN RespondWebsocketRequest(s) ELSE reading' = reading /\ written' = written
  BY <1>2, Zenon DEF RequestRead
<1>. HIDE DEF s
<1>4. E <=> m + 1 = n
  BY <1>1, RequestEnd, Zenon
<1>. HIDE DEF E
<1>5. PICK u \in Seq(Sym), v \in Seq(Sym) :
        /\ u = Unread /\ v = Unread' /\ v = socket /\ Len(u) = 1 + Len(v) /\ Len(v) \in Nat
        /\ \A i \in 1 .. Len(v) : v[i] = u[1 + i]
  <2>1. /\ Unread' = socket /\ Unread' \in Seq(Sym)
        /\ Len(Unread) = Len(inbuf) + Len(Unread')
        /\ \A i \in 1 .. Len(Unread') : Unread'[i] = Unread[Len(inbuf) + i]
        /\ Len(Unread') \in Nat
    BY <1>0, <1>2, ReadUnread, Zenon
  <2>2. Unread \in Seq(Sym)
    BY <1>0, UnreadType, Zenon
  <2>3. /\ Len(Unread) = 1 + Len(Unread')
        /\ \A i \in 1 .. Len(Unread') : Unread'[i] = Unread[1 + i]
    BY <1>1, <2>1, Zenon
  <2>4. Unread' \in Seq(Sym)
    BY <2>1, Zenon
  <2>. QED BY <2>1, <2>2, <2>3, <2>4, Zenon
<1>6. /\ n <= m + Len(u)
      /\ \A i \in 1 .. Len(u) : IF m + i <= n THEN u[i] = request[m + i] ELSE u[i] \in Byte
      /\ ntoread = 1 /\ request # <<>>
  BY <1>1, <1>5, RequestType, Zenon DEF ConnInv, Asking
<1>7. \A i \in 1 .. Len(v) : IF (m + 1) + i <= n THEN v[i] = request[(m + 1) + i] ELSE v[i] \in Byte
  <2>. TAKE i \in 1 .. Len(v)
  <2>1. 1 + i \in 1 .. Len(u) /\ m + (1 + i) = (m + 1) + i
    BY ONLY <1>5, i \in 1 .. Len(v), m \in Nat, SMT
  <2>2. IF m + (1 + i) <= n THEN u[1 + i] = request[m + (1 + i)] ELSE u[1 + i] \in Byte
    BY <1>6, <2>1, Zenon
  <2>3. v[i] = u[1 + i]
    BY <1>5, Zenon
  <2>. QED BY <2>1, <2>2, <2>3, Zenon
<1>8. CASE E
  <2>1. m + 1 = n /\ reading' = FALSE
        /\ written' = Append(written, GenerateWebsocketResponse(ParseWebsocketRequest(s)))
    BY <1>3, <1>4, <1>8, Zenon DEF RespondWebsocketRequest
  <2>2. s = request
    <3>1. request \in Seq(Sym) /\ Len(s) = Len(request)
      BY <1>1, <2>1, RequestType, Zenon
    <3>. QED BY <1>1, <3>1, SeqEqual, Zenon
  <2>3. written' = <<Response>>
    <3>1. GenerateWebsocketResponse(ParseWebsocketRequest(s)) = Response
      BY <1>1, <2>2, Answer, Zenon
    <3>2. written' = Append(<<>>, Response)
      BY <1>1, <2>1, <3>1, Zenon
    <3>. QED BY <3>2
  <2>4. /\ written' \in Seq({Response, CloseFrame}) /\ Len(written') = 1
        /\ written'[1] = Response /\ written' # <<>>
    BY <2>3
  <2>5. TypeInv'
    BY <1>0, <1>1, <1>2, <2>4 DEF TypeInv
  <2>6. v \in Seq(Byte)
    <3>1. \A i \in 1 .. Len(v) : v[i] \in Byte
      <4>. TAKE i \in 1 .. Len(v)
      <4>1. ~((m + 1) + i <= n)
        BY ONLY <2>1, <1>5, i \in 1 .. Len(v), n \in Nat, m \in Nat, SMT
      <4>. QED BY <1>7, <4>1, Zenon
    <3>. QED BY ONLY <3>1, v \in Seq(Sym), SMT
  <2>7. Answered'
    <3>1. \A i \in 2 .. Len(written') : FALSE
      BY <2>4
    <3>2. inbuf' \in Seq(Byte)
      BY <1>2
    <3>. QED BY <1>2, <1>5, <1>6, <2>1, <2>2, <2>4, <2>6, <3>1, <3>2, Zenon DEF Answered
  <2>8. Asking' /\ Ended'
    BY <2>4 DEF Asking, Ended
  <2>9. Watermarks'
    BY <1>2, <1>6 DEF Watermarks
  <2>. QED BY <2>5, <2>7, <2>8, <2>9, Zenon DEF ConnInv
<1>9. CASE ~E
  <2>1. m + 1 < n /\ reading' = reading /\ written' = <<>>
    <3>1. m + 1 # n /\ reading' = reading /\ written' = written
      BY <1>3, <1>4, <1>9, Zenon
    <3>. QED BY <1>1, <3>1
  <2>2. TypeInv'
    BY <1>0, <1>1, <1>2, <2>1 DEF TypeInv
  <2>3. n <= (m + 1) + Len(v)
    BY ONLY <1>5, <1>6, m \in Nat, n \in Nat, SMT
  <2>4. Asking'
    <3>1. Len(ws_req_str') = m + 1 /\ Len(request') = n /\ request' # <<>>
      BY <1>1, <1>2, <1>6, Zenon
    <3>2. \A i \in 1 .. m + 1 : ws_req_str'[i] = request'[i]
      BY <1>1, <1>2, Zenon
    <3>3. \A i \in 1 .. Len(Unread') :
            IF (m + 1) + i <= n THEN Unread'[i] = request'[(m + 1) + i] ELSE Unread'[i] \in Byte
      BY <1>2, <1>5, <1>7, Zenon
    <3>4. n <= (m + 1) + Len(Unread')
      BY <1>5, <2>3, Zenon
    <3>. QED BY <1>2, <1>6, <2>1, <3>1, <3>2, <3>3, <3>4, Zenon DEF Asking
  <2>5. Answered' /\ Ended'
    BY <2>1 DEF Answered, Ended
  <2>6. Watermarks'
    BY <1>2, <1>6 DEF Watermarks
  <2>. QED BY <2>2, <2>4, <2>5, <2>6, Zenon DEF ConnInv
<1>. QED BY <1>8, <1>9, Zenon

LEMMA ResponseWrittenInv ==
  ASSUME ConnInv, ResponseWritten
  PROVE  ConnInv'
<1>1. /\ step' = "ONE" /\ ntoread' = 2 /\ reading' = TRUE /\ step = "ZERO"
      /\ written # <<>> /\ socket' = socket /\ inbuf' = inbuf /\ frame' = frame
      /\ ws_req_str' = ws_req_str /\ written' = written /\ msg' = msg
      /\ delivered' = delivered /\ pongs' = pongs /\ request' = request /\ sent' = sent
  BY Zenon DEF ResponseWritten, FrameRecvLoop, Goto
<1>2. Len(written) = 1 /\ inbuf = <<>>
  BY <1>1, Zenon DEF ConnInv, Answered
<1>3. TypeInv'
  BY <1>1 DEF ConnInv, TypeInv
<1>4. Asking' /\ Answered'
  BY <1>1 DEF ConnInv, Asking, Answered
<1>5. Watermarks'
  BY <1>1, <1>2 DEF Watermarks
<1>6. Ended'
  BY <1>1, <1>2 DEF Ended
<1>. QED BY <1>3, <1>4, <1>5, <1>6 DEF ConnInv

(* What every callback of frame_read_cb finds and leaves.                  *)
LEMMA CallbackFacts ==
  ASSUME ConnInv, Callback, step # "ZERO"
  PROVE  /\ written # <<>> /\ inbuf \in Seq(Byte) /\ socket \in Seq(Byte)
         /\ Len(inbuf) = ntoread /\ inbuf' = <<>> /\ socket' = socket
         /\ ws_req_str' = ws_req_str /\ request' = request /\ sent' = sent
<1>1. written # <<>>
  BY Zenon DEF ConnInv, Asking
<1>. QED BY <1>1, Zenon DEF Callback, Ready, ConnInv, Answered

LEMMA CallbackInv ==
  ASSUME ConnInv, Callback, step # "ZERO",
         step' \in {"ONE", "TWO", "THREE", "FOUR"}, ntoread' \in Nat, frame' \in FrameFieldsT,
         msg' \in Seq(Byte), delivered' \in Seq(Seq(Byte)), pongs' \in Seq(Seq(Byte)),
         written' = written \/ written' = Append(written, CloseFrame)
  PROVE  TypeInv' /\ Asking' /\ Answered' /\ Len(inbuf') <= ntoread'
<1>1. /\ written # <<>> /\ inbuf \in Seq(Byte) /\ socket \in Seq(Byte)
      /\ inbuf' = <<>> /\ socket' = socket
      /\ ws_req_str' = ws_req_str /\ request' = request /\ sent' = sent
  BY CallbackFacts, Zenon
<1>2. /\ written \in Seq({Response, CloseFrame}) /\ written[1] = Response
      /\ \A i \in 2 .. Len(written) : written[i] = CloseFrame
  BY <1>1, Zenon DEF ConnInv, TypeInv, Answered
<1>3. /\ written' \in Seq({Response, CloseFrame}) /\ written'[1] = Response
      /\ \A i \in 2 .. Len(written') : written'[i] = CloseFrame
      /\ written' # <<>>
  <2>. DEFINE O == {Response, CloseFrame}
  <2>1. CloseFrame \in O /\ written \in Seq(O)
    BY <1>2, Zenon
  <2>. HIDE DEF O
  <2>2. CASE written' = written
    BY <1>1, <1>2, <2>2, Zenon
  <2>3. CASE written' = Append(written, CloseFrame)
    <3>1. /\ Append(written, CloseFrame) \in Seq(O)
          /\ Append(written, CloseFrame) # <<>>
          /\ Len(Append(written, CloseFrame)) = Len(written) + 1
          /\ \A i \in 1 .. Len(written) : Append(written, CloseFrame)[i] = written[i]
          /\ Append(written, CloseFrame)[Len(written) + 1] = CloseFrame
      BY <2>1, AppendProperties, SMT
    <3>2. Len(written) \in Nat /\ Len(written) >= 1
      BY <1>1, <2>1
    <3>3. written'[1] = Response
      BY <1>2, <2>3, <3>1, <3>2, SMT
    <3>4. \A i \in 2 .. Len(written') : written'[i] = CloseFrame
      <4>. TAKE i \in 2 .. Len(written')
      <4>1. Len(written') = Len(written) + 1
        BY <2>3, <3>1, Zenon
      <4>2. i \in 2 .. Len(written) \/ i = Len(written) + 1
        BY ONLY <3>2, <4>1, i \in 2 .. Len(written'), SMT
      <4>3. i \in 2 .. Len(written) => i \in 1 .. Len(written)
        BY ONLY <3>2, SMT
      <4>. QED BY <1>2, <2>3, <3>1, <4>2, <4>3, Zenon
    <3>. QED BY <2>3, <3>1, <3>3, <3>4, Zenon DEF O
  <2>. QED BY <2>2, <2>3, Zenon
<1>4. TypeInv'
  <2>1. /\ socket' \in Seq(Sym) /\ inbuf' \in Seq(Sym)
        /\ ws_req_str' \in Seq(Sym) /\ request' \in Requests \cup {<<>>}
        /\ sent' \in Seq(FrameSet)
    BY <1>1 DEF ConnInv, TypeInv
  <2>2. step' \in {"ZERO", "ONE", "TWO", "THREE", "FOUR"}
    OBVIOUS
  <2>. QED BY <1>3, <2>1, <2>2, Zenon DEF TypeInv
<1>5. Asking'
  BY <1>3, Zenon DEF Asking
<1>6. Answered'
  <2>1. step' # "ZERO" /\ inbuf' \in Seq(Byte)
    BY <1>1
  <2>2. ws_req_str = request /\ request # <<>>
    BY <1>1, Zenon DEF ConnInv, Answered
  <2>. QED BY <1>1, <1>3, <2>1, <2>2, Zenon DEF Answered
<1>7. Len(inbuf') <= ntoread'
  BY <1>1
<1>. QED BY <1>4, <1>5, <1>6, <1>7, Zenon

LEMMA PayloadType ==
  ASSUME NEW f \in FrameFieldsT
  PROVE  Payload(f) \in Seq(Byte)
BY DEF Payload, FrameFieldsT

LEMMA WholeFacts ==
  ASSUME TypeInv, NEW f \in FrameFieldsT, NEW here, NEW n, Whole(f, here, n)
  PROVE  /\ msg' \in Seq(Byte) /\ delivered' \in Seq(Seq(Byte))
         /\ pongs' \in Seq(Seq(Byte))
         /\ \/ /\ f.fin = 1 /\ f.opcode = 8
               /\ written' = Append(written, CloseFrame)
               /\ step' = here /\ ntoread' = n
               /\ msg' = msg /\ delivered' = delivered /\ pongs' = pongs
            \/ /\ ~(f.fin = 1 /\ f.opcode = 8) /\ written' = written
               /\ step' = "ONE" /\ ntoread' = 2
<1>. DEFINE p == Payload(f)
<1>0. /\ p \in Seq(Byte) /\ msg \in Seq(Byte)
      /\ delivered \in Seq(Seq(Byte)) /\ pongs \in Seq(Seq(Byte))
  BY PayloadType, Zenon DEF TypeInv
<1>. HIDE DEF p
<1>1. CASE /\ f.fin = 1 /\ f.opcode = 8
           /\ written' = Append(written, CloseFrame)
           /\ AfterClose(here, n)
           /\ UNCHANGED <<msg, delivered, pongs>>
  BY <1>0, <1>1, Zenon DEF AfterClose, Goto
<1>2. CASE /\ f.fin = 1 /\ f.opcode = 9
           /\ Goto("ONE", 2)
           /\ UNCHANGED <<written, msg, delivered, pongs>>
  BY <1>0, <1>2, SMT DEF Goto
<1>3. CASE /\ f.fin = 1 /\ f.opcode = 10
           /\ OnPongReceived(f)
           /\ Goto("ONE", 2)
           /\ UNCHANGED <<written, msg, delivered>>
  BY <1>0, <1>3, SMT DEF Goto, OnPongReceived, p
<1>4. CASE /\ f.fin = 0 \/ f.opcode \notin {8, 9, 10}
           /\ OnFrameReceived(f)
           /\ Goto("ONE", 2)
           /\ UNCHANGED <<written, pongs>>
  <2>1. msg' \in Seq(Byte) /\ delivered' \in Seq(Seq(Byte))
    <3>1. <<>> \in Seq(Byte)
      OBVIOUS
    <3>2. PICK q \in Seq(Byte) : q = msg \o p
      <4>1. msg \o p \in Seq(Byte)
        BY <1>0, ConcatProperties, Zenon
      <4>. QED BY <4>1, Zenon
    <3>3. \/ delivered' = Append(delivered, q) /\ msg' = <<>>
          \/ delivered' = delivered /\ msg' = q
      BY <1>4, <3>2, Zenon DEF OnFrameReceived, p
    <3>4. Append(delivered, q) \in Seq(Seq(Byte))
      BY <1>0, AppendProperties, SMT
    <3>. QED BY <1>0, <3>1, <3>3, <3>4, Zenon
  <2>2. ~(f.fin = 1 /\ f.opcode = 8)
    BY <1>4
  <2>. QED BY <1>0, <1>4, <2>1, <2>2, Zenon DEF Goto
<1>. QED BY <1>1, <1>2, <1>3, <1>4, Zenon DEF Whole

LEMMA ReadHeaderInv ==
  ASSUME ConnInv, ReadHeader
  PROVE  /\ ConnInv' /\ Len(inbuf) = 2
         /\ frame'.payload_len \in 0 .. 127
         /\ \/ frame'.payload_len <= 125 /\ step' = "THREE"
            \/ frame'.payload_len > 125 /\ step' = "TWO"
<1>0. TypeInv /\ frame \in FrameFieldsT
  BY DEF ConnInv, TypeInv
<1>1. /\ Callback /\ step = "ONE" /\ frame' = ParseFrameHeader(inbuf, frame)
      /\ written' = written /\ msg' = msg /\ delivered' = delivered /\ pongs' = pongs
  BY Zenon DEF ReadHeader
<1>2. step # "ZERO"
  BY <1>1
<1>3. inbuf \in Seq(Byte) /\ Len(inbuf) = 2
  BY <1>1, <1>2, CallbackFacts, Zenon DEF ConnInv, Watermarks
<1>4. frame' \in FrameFieldsT /\ frame'.payload_len \in 0 .. 127
  BY <1>0, <1>1, <1>3, HeaderType, Zenon
<1>5. PICK l \in 0 .. 127 : l = frame'.payload_len
  BY <1>4, Zenon
<1>6. \/ l <= 125 /\ step' = "THREE" /\ ntoread' = 4
      \/ l = 126 /\ step' = "TWO" /\ ntoread' = 2
      \/ l = 127 /\ step' = "TWO" /\ ntoread' = 8
  <2>1. (CASE frame'.payload_len <= 125 -> Goto("THREE", 4)
           [] frame'.payload_len = 126  -> Goto("TWO", 2)
           [] frame'.payload_len = 127  -> Goto("TWO", 8))
    BY Zenon DEF ReadHeader
  <2>2. (CASE l <= 125 -> Goto("THREE", 4)
           [] l = 126  -> Goto("TWO", 2)
           [] l = 127  -> Goto("TWO", 8))
    BY <1>5, <2>1, Zenon
  <2>3. l <= 125 \/ l = 126 \/ l = 127
    BY SMT
  <2>4. ~(126 <= 125) /\ ~(127 <= 125) /\ 126 # 127
    BY SMT
  <2>5. CASE l <= 125
    <3>1. l # 126 /\ l # 127
      BY <2>5
    <3>2. Goto("THREE", 4)
      BY <2>2, <2>5, <3>1
    <3>. QED BY <2>5, <3>2, Zenon DEF Goto
  <2>6. CASE l = 126
    <3>1. Goto("TWO", 2)
      BY <2>2, <2>4, <2>6, SMT
    <3>. QED BY <2>6, <3>1, Zenon DEF Goto
  <2>7. CASE l = 127
    <3>1. Goto("TWO", 8)
      BY <2>2, <2>4, <2>7, SMT
    <3>. QED BY <2>7, <3>1, Zenon DEF Goto
  <2>. QED BY <2>3, <2>5, <2>6, <2>7, Zenon
<1>7. Len(written) \in Nat /\ ~(Len(written) >= 2)
  <2>1. Len(written) \in Nat
    BY <1>0 DEF TypeInv
  <2>. QED BY <1>1, <2>1 DEF ConnInv, Ended
<1>8. step' \in {"ONE", "TWO", "THREE", "FOUR"} /\ ntoread' \in Nat
  BY <1>6
<1>9. TypeInv' /\ Asking' /\ Answered' /\ Len(inbuf') <= ntoread'
  BY <1>0, <1>1, <1>2, <1>4, <1>8, CallbackInv, Zenon DEF TypeInv
<1>10. Watermarks'
  BY <1>5, <1>6, <1>9 DEF Watermarks
<1>11. Ended'
  BY <1>1, <1>7, Zenon DEF Ended
<1>. QED BY <1>3, <1>5, <1>6, <1>9, <1>10, <1>11, SMT DEF ConnInv

LEMMA ReadLengthInv ==
  ASSUME ConnInv, ReadLength
  PROVE  ConnInv' /\ frame'.fin = frame.fin /\ frame'.opcode = frame.opcode
<1>0. TypeInv /\ frame \in FrameFieldsT
  BY DEF ConnInv, TypeInv
<1>1. /\ Callback /\ step = "TWO" /\ frame' = ParseLength(inbuf, frame)
      /\ written' = written /\ msg' = msg /\ delivered' = delivered /\ pongs' = pongs
      /\ step' = "THREE" /\ ntoread' = 4
  BY Zenon DEF ReadLength, Goto
<1>2. step # "ZERO"
  BY <1>1
<1>3. inbuf \in Seq(Byte) /\ Len(inbuf) = ntoread
  BY <1>1, <1>2, CallbackFacts, Zenon
<1>4. \/ frame.payload_len = 126 /\ Len(inbuf) = 2
      \/ frame.payload_len = 127 /\ Len(inbuf) = 8
  BY <1>1, <1>3, Zenon DEF ConnInv, Watermarks
<1>5. Len(inbuf) \in {2, 8} /\ (frame.payload_len # 126 => Len(inbuf) = 8)
  BY <1>4
<1>6. frame' \in FrameFieldsT /\ frame'.fin = frame.fin /\ frame'.opcode = frame.opcode
  BY <1>0, <1>1, <1>3, <1>5, LengthType, Zenon
<1>7. step' \in {"ONE", "TWO", "THREE", "FOUR"} /\ ntoread' \in Nat
  BY <1>1
<1>8. TypeInv' /\ Asking' /\ Answered' /\ Len(inbuf') <= ntoread'
  BY <1>0, <1>1, <1>2, <1>6, <1>7, CallbackInv, Zenon DEF TypeInv
<1>9. Watermarks'
  BY <1>1, <1>8 DEF Watermarks
<1>10. Ended'
  <2>1. ~(Len(written) >= 2)
    BY <1>1 DEF ConnInv, Ended
  <2>. QED BY <1>1, <2>1, Zenon DEF Ended
<1>. QED BY <1>6, <1>8, <1>9, <1>10, Zenon DEF ConnInv

LEMMA SetKey ==
  ASSUME NEW fr \in FrameFieldsT, NEW k \in Keys, NEW d \in Seq(Byte)
  PROVE  /\ [fr EXCEPT !.masking_key = k] \in FrameFieldsT
         /\ [fr EXCEPT !.masking_key = k].masking_key = k
         /\ [fr EXCEPT !.masking_key = k].fin = fr.fin
         /\ [fr EXCEPT !.masking_key = k].opcode = fr.opcode
         /\ [fr EXCEPT !.masking_key = k].payload_len = fr.payload_len
         /\ [fr EXCEPT !.payload_data = d] \in FrameFieldsT
         /\ [fr EXCEPT !.payload_data = d].payload_data = d
         /\ [fr EXCEPT !.payload_data = d].fin = fr.fin
         /\ [fr EXCEPT !.payload_data = d].opcode = fr.opcode
         /\ [fr EXCEPT !.payload_data = d].payload_len = fr.payload_len
BY DEF FrameFieldsT

LEMMA ReadKeyInv ==
  ASSUME ConnInv, ReadKey
  PROVE  /\ ConnInv' /\ frame' \in FrameFieldsT
         /\ Len(inbuf) = 4 /\ frame'.masking_key = inbuf
         /\ frame'.fin = frame.fin /\ frame'.opcode = frame.opcode
         /\ frame'.payload_len = frame.payload_len
         /\ IF frame.payload_len > 0
              THEN /\ step' = "FOUR" /\ ntoread' = frame.payload_len
                   /\ UNCHANGED <<written, msg, delivered, pongs>>
              ELSE Whole(frame', "THREE", 4)
<1>0. TypeInv /\ frame \in FrameFieldsT
  BY DEF ConnInv, TypeInv
<1>1. /\ Callback /\ step = "THREE" /\ frame' = [frame EXCEPT !.masking_key = inbuf]
      /\ IF frame.payload_len > 0
           THEN /\ step' = "FOUR" /\ ntoread' = frame.payload_len
                /\ UNCHANGED <<written, msg, delivered, pongs>>
           ELSE Whole(frame', "THREE", 4)
  BY Zenon DEF ReadKey, Goto
<1>2. step # "ZERO"
  BY <1>1
<1>3. inbuf \in Seq(Byte) /\ Len(inbuf) = 4
  BY <1>1, <1>2, CallbackFacts, Zenon DEF ConnInv, Watermarks
<1>4. inbuf \in Keys
  BY <1>3, Zenon DEF Keys
<1>5. /\ frame' \in FrameFieldsT /\ frame'.masking_key = inbuf
      /\ frame'.fin = frame.fin /\ frame'.opcode = frame.opcode
      /\ frame'.payload_len = frame.payload_len
  BY <1>0, <1>1, <1>3, <1>4, SetKey, Zenon
<1>6. PICK l \in Nat : l = frame.payload_len
  BY <1>0 DEF FrameFieldsT
<1>7. CASE l > 0
  <2>1. /\ step' = "FOUR" /\ ntoread' = l /\ written' = written /\ msg' = msg
        /\ delivered' = delivered /\ pongs' = pongs
    BY <1>1, <1>6, <1>7, Zenon
  <2>2. step' \in {"ONE", "TWO", "THREE", "FOUR"} /\ ntoread' \in Nat
    BY <2>1
  <2>3. TypeInv' /\ Asking' /\ Answered' /\ Len(inbuf') <= ntoread'
    BY <1>0, <1>1, <1>2, <1>5, <2>1, <2>2, CallbackInv, Zenon DEF TypeInv
  <2>4. Watermarks'
    BY <1>5, <1>6, <1>7, <2>1, <2>3 DEF Watermarks
  <2>5. Ended'
    <3>1. ~(Len(written) >= 2)
      BY <1>1, <1>6, <1>7 DEF ConnInv, Ended
    <3>. QED BY <2>1, <3>1, Zenon DEF Ended
  <2>. QED BY <1>1, <1>3, <1>5, <2>3, <2>4, <2>5, Zenon DEF ConnInv
<1>8. CASE ~(l > 0)
  <2>1. Whole(frame', "THREE", 4)
    BY <1>1, <1>6, <1>8, Zenon
  <2>2. /\ msg' \in Seq(Byte) /\ delivered' \in Seq(Seq(Byte)) /\ pongs' \in Seq(Seq(Byte))
        /\ \/ /\ frame'.fin = 1 /\ frame'.opcode = 8
              /\ written' = Append(written, CloseFrame)
              /\ step' = "THREE" /\ ntoread' = 4
           \/ /\ ~(frame'.fin = 1 /\ frame'.opcode = 8) /\ written' = written
              /\ step' = "ONE" /\ ntoread' = 2
    BY <1>0, <1>5, <2>1, WholeFacts, Zenon
  <2>3. step' \in {"ONE", "TWO", "THREE", "FOUR"} /\ ntoread' \in Nat
    BY <2>2
  <2>4. TypeInv' /\ Asking' /\ Answered' /\ Len(inbuf') <= ntoread'
    BY <1>0, <1>1, <1>2, <1>5, <2>2, <2>3, CallbackInv, Zenon
  <2>5. Watermarks'
    BY <2>2, <2>4 DEF Watermarks
  <2>6. Ended'
    <3>1. CASE written' = written /\ ~(frame'.fin = 1 /\ frame'.opcode = 8)
      <4>1. ~(Len(written) >= 2)
        BY <1>5, <3>1, Zenon DEF ConnInv, Ended
      <4>. QED BY <3>1, <4>1, Zenon DEF Ended
    <3>2. CASE frame'.fin = 1 /\ frame'.opcode = 8 /\ step' = "THREE"
      <4>1. frame'.payload_len = 0
        BY <1>5, <1>6, <1>8
      <4>. QED BY <3>2, <4>1 DEF Ended
    <3>. QED BY <2>2, <3>1, <3>2, Zenon
  <2>. QED BY <1>1, <1>3, <1>5, <2>4, <2>5, <2>6, Zenon DEF ConnInv
<1>. QED BY <1>7, <1>8, Zenon

LEMMA ReadPayloadInv ==
  ASSUME ConnInv, ReadPayload
  PROVE  /\ ConnInv' /\ frame' \in FrameFieldsT
         /\ Len(inbuf) = frame.payload_len /\ frame.payload_len > 0
         /\ frame'.payload_data = UnmaskPayloadData(inbuf, frame.masking_key)
         /\ frame'.fin = frame.fin /\ frame'.opcode = frame.opcode
         /\ frame'.payload_len = frame.payload_len
         /\ Whole(frame', "FOUR", frame.payload_len)
<1>0. TypeInv /\ frame \in FrameFieldsT
  BY DEF ConnInv, TypeInv
<1>. DEFINE d == UnmaskPayloadData(inbuf, frame.masking_key)
<1>1. /\ Callback /\ step = "FOUR" /\ frame' = [frame EXCEPT !.payload_data = d]
      /\ Whole(frame', "FOUR", frame.payload_len)
  BY Zenon DEF ReadPayload
<1>2. step # "ZERO"
  BY <1>1
<1>3. /\ inbuf \in Seq(Byte) /\ Len(inbuf) = ntoread /\ ntoread = frame.payload_len
      /\ ntoread > 0 /\ ntoread \in Nat
  BY <1>1, <1>2, CallbackFacts, Zenon DEF ConnInv, Watermarks, TypeInv
<1>4. frame.masking_key \in Keys
  BY <1>0 DEF FrameFieldsT
<1>5. d \in Seq(Byte)
  BY <1>3, <1>4, UnmaskType, Zenon
<1>. HIDE DEF d
<1>6. /\ frame' \in FrameFieldsT /\ frame'.payload_data = d
      /\ frame'.fin = frame.fin /\ frame'.opcode = frame.opcode
      /\ frame'.payload_len = frame.payload_len
  BY <1>0, <1>1, <1>4, <1>5, SetKey, Zenon
<1>7. /\ msg' \in Seq(Byte) /\ delivered' \in Seq(Seq(Byte)) /\ pongs' \in Seq(Seq(Byte))
      /\ \/ /\ frame'.fin = 1 /\ frame'.opcode = 8
            /\ written' = Append(written, CloseFrame)
            /\ step' = "FOUR" /\ ntoread' = frame.payload_len
         \/ /\ ~(frame'.fin = 1 /\ frame'.opcode = 8) /\ written' = written
            /\ step' = "ONE" /\ ntoread' = 2
  BY <1>0, <1>1, <1>6, WholeFacts, Zenon
<1>8. step' \in {"ONE", "TWO", "THREE", "FOUR"} /\ ntoread' \in Nat
  BY <1>3, <1>7
<1>9. TypeInv' /\ Asking' /\ Answered' /\ Len(inbuf') <= ntoread'
  BY <1>0, <1>1, <1>2, <1>6, <1>7, <1>8, CallbackInv, Zenon
<1>10. Watermarks'
  BY <1>3, <1>6, <1>7, <1>9 DEF Watermarks
<1>11. Ended'
  <2>1. CASE written' = written /\ ~(frame'.fin = 1 /\ frame'.opcode = 8)
    <3>1. ~(Len(written) >= 2)
      BY <1>6, <2>1, Zenon DEF ConnInv, Ended
    <3>. QED BY <2>1, <3>1, Zenon DEF Ended
  <2>2. CASE frame'.fin = 1 /\ frame'.opcode = 8 /\ step' = "FOUR"
    BY <2>2 DEF Ended
  <2>. QED BY <1>7, <2>1, <2>2, Zenon
<1>. QED BY <1>1, <1>3, <1>6, <1>9, <1>10, <1>11, Zenon DEF ConnInv, d

LEMMA ConnInvStep == ConnInv /\ [Next]_vars => ConnInv'
<1>. SUFFICES ASSUME ConnInv, [Next]_vars PROVE ConnInv'
  OBVIOUS
<1>1. CASE \E r \in Requests : SendRequest(r)
  BY <1>1, SendRequestInv, Zenon
<1>2. CASE \E f \in FrameSet : SendFrame(f)
  BY <1>2, SendFrameInv, Zenon
<1>3. CASE Arrive
  BY <1>3, ArriveInv, Zenon
<1>4. CASE Reader
  BY <1>4, RequestReadInv, ResponseWrittenInv, ReadHeaderInv, ReadLengthInv,
     ReadKeyInv, ReadPayloadInv, Zenon DEF Reader
<1>5. CASE CloseCb
  BY <1>5 DEF CloseCb, conn, ConnInv, TypeInv, Asking, Answered, Watermarks, Ended, Unread
<1>6. CASE UNCHANGED vars
  BY <1>6 DEF vars, ConnInv, TypeInv, Asking, Answered, Watermarks, Ended, Unread
<1>. QED BY <1>1, <1>2, <1>3, <1>4, <1>5, <1>6, Zenon DEF Next

LEMMA ConnInvAlways == Spec => []ConnInv
BY ConnInvInit, ConnInvStep, PTL DEF Spec

(* What the input buffer holds is what the callback will read.             *)
LEMMA ReadsFitAlways == Spec => []ReadsFit
<1>1. ConnInv => ReadsFit
  BY DEF ConnInv, Watermarks, ReadsFit, TypeInv
<1>. QED BY <1>1, ConnInvAlways, PTL

LEMMA PairSeq ==
  ASSUME NEW a \in Nat, NEW b \in Nat
  PROVE  <<a>> \o <<b>> = <<a, b>>
<1>1. PICK s \in Seq(Nat) : s = <<a>> /\ Len(s) = 1 /\ s[1] = a
  <2>1. <<a>> \in Seq(Nat) /\ Len(<<a>>) = 1 /\ <<a>>[1] = a
    OBVIOUS
  <2>. QED BY <2>1, Zenon
<1>2. PICK t \in Seq(Nat) : t = <<a, b>> /\ Len(t) = 2 /\ t[1] = a /\ t[2] = b
  <2>1. <<a, b>> \in Seq(Nat) /\ Len(<<a, b>>) = 2 /\ <<a, b>>[1] = a /\ <<a, b>>[2] = b
    OBVIOUS
  <2>. QED BY <2>1, Zenon
<1>3. PICK u : u = Append(s, b)
  OBVIOUS
<1>4. /\ u \in Seq(Nat) /\ Len(u) = Len(s) + 1
      /\ \A i \in 1 .. Len(s) : u[i] = s[i]
      /\ u[Len(s) + 1] = b
  BY <1>3, AppendProperties, ZenonT(40)
<1>5. Len(u) = 2 /\ u[1] = a /\ u[2] = b
  BY ONLY <1>1, <1>4, SMT
<1>6. \A i \in 1 .. Len(u) : u[i] = t[i]
  BY ONLY <1>2, <1>5, SMT
<1>7. u = t
  BY <1>2, <1>4, <1>5, <1>6, SeqEqual, Zenon
<1>8. Append(s, b) = s \o <<b>>
  BY ONLY s \in Seq(Nat), b \in Nat, AppendIsConcat, SMT
<1>. QED BY <1>1, <1>2, <1>3, <1>7, <1>8, Zenon

LEMMA CloseFrameBytes == CloseFrame.kind = "frame" /\ CloseFrame.bytes = <<136, 0>>
<1>1. Header(1, 8, 0) = <<136>> \o <<0>>
  BY SMT DEF Header, Max7
<1>2. <<136>> \o <<0>> = <<136, 0>> /\ <<136, 0>> \in Seq(Nat)
  <2>1. 136 \in Nat /\ 0 \in Nat
    BY SMT
  <2>2. <<136, 0>> \in Seq(Nat)
    BY SMT
  <2>. QED BY <2>1, <2>2, PairSeq, SMT
<1>3. FrameCopy(1, 8, <<>>) = <<136, 0>> \o <<>>
  BY <1>1, <1>2, SMT DEF FrameCopy
<1>4. <<136, 0>> \o <<>> = <<136, 0>>
  BY <1>2, ConcatEmptySeq, SMT
<1>. QED BY <1>3, <1>4, SMT DEF CloseFrame

LEMMA HandshakeAlways == Spec => []HandshakeRight
<1>1. ConnInv => HandshakeRight
  <2>. SUFFICES ASSUME ConnInv, written # <<>> PROVE HandshakeRight
    BY DEF HandshakeRight
  <2>1. /\ ws_req_str = request /\ written[1] = Response
        /\ \A i \in 2 .. Len(written) : written[i] = CloseFrame
    BY Zenon DEF ConnInv, Answered
  <2>2. written[1].kind = "response" /\ written[1].accept = GenerateKey(ClientKey)
    BY <2>1 DEF Response
  <2>3. \A i \in 2 .. Len(written) : written[i].kind = "frame" /\ written[i].bytes = <<136, 0>>
    BY <2>1, CloseFrameBytes, SMT
  <2>. QED BY <2>1, <2>2, <2>3, Zenon DEF HandshakeRight
<1>. QED BY <1>1, ConnInvAlways, PTL

LEMMA ClosesWritten ==
  ASSUME ConnInv
  PROVE  /\ Closes # {} <=> Len(written) >= 2
         /\ Len(written) \in Nat
         /\ \A i \in Closes : i \in 2 .. Len(written)
<1>1. written \in Seq({Response, CloseFrame})
  BY DEF ConnInv, TypeInv
<1>2. Len(written) \in Nat /\ DOMAIN written = 1 .. Len(written)
  BY <1>1
<1>3. Response.kind # "frame" /\ CloseFrame.kind = "frame"
  BY CloseFrameBytes DEF Response
<1>4. ASSUME NEW i \in Closes PROVE i \in 2 .. Len(written)
  <2>1. i \in 1 .. Len(written) /\ written[i].kind = "frame"
    BY <1>2, Zenon DEF Closes
  <2>2. written # <<>>
    BY <2>1
  <2>3. written[1] = Response
    BY <2>2, Zenon DEF ConnInv, Answered
  <2>4. i # 1
    BY <1>3, <2>1, <2>3, Zenon
  <2>. QED BY ONLY <1>2, <2>1, <2>4, SMT
<1>5. ASSUME Len(written) >= 2 PROVE Closes # {}
  <2>1. 2 \in 1 .. Len(written) /\ 2 \in 2 .. Len(written) /\ written # <<>>
    BY <1>2, <1>5
  <2>2. written[2] = CloseFrame
    BY <2>1, Zenon DEF ConnInv, Answered
  <2>3. 2 \in Closes
    BY <1>2, <1>3, <2>1, <2>2, Zenon DEF Closes
  <2>. QED BY <2>3, Zenon
<1>6. ASSUME Closes # {} PROVE Len(written) >= 2
  <2>1. PICK i : i \in Closes
    BY <1>6
  <2>2. i \in 2 .. Len(written)
    BY <1>4, <2>1, Zenon
  <2>. QED BY ONLY <1>2, <2>2, SMT
<1>. QED BY <1>2, <1>4, <1>5, <1>6, Zenon

(* After its answer to a close frame the reader delivers nothing.          *)
LEMMA SilentStep ==
  ASSUME ConnInv, [Next]_vars, Closes # {}
  PROVE  delivered' = delivered /\ pongs' = pongs
<1>1. Len(written) >= 2
  BY ClosesWritten, Zenon
<1>2. /\ step \in {"THREE", "FOUR"} /\ frame.fin = 1 /\ frame.opcode = 8
      /\ step = "THREE" => frame.payload_len = 0
  BY <1>1, Zenon DEF ConnInv, Ended
<1>3. CASE ReadKey
  <2>1. /\ frame' \in FrameFieldsT /\ frame'.fin = 1 /\ frame'.opcode = 8
    BY <1>2, <1>3, ReadKeyInv, Zenon
  <2>2. step = "THREE"
    BY <1>3, Zenon DEF ReadKey
  <2>3. Whole(frame', "THREE", 4)
    <3>1. ~(frame.payload_len > 0)
      BY <1>2, <2>2
    <3>. QED BY <1>3, <3>1, ReadKeyInv, Zenon
  <2>. QED BY <2>1, <2>3, WholeFacts, Zenon DEF ConnInv
<1>4. CASE ReadPayload
  <2>1. /\ frame' \in FrameFieldsT /\ frame'.fin = 1 /\ frame'.opcode = 8
        /\ Whole(frame', "FOUR", frame.payload_len)
    BY <1>2, <1>4, ReadPayloadInv, Zenon
  <2>. QED BY <2>1, WholeFacts, Zenon DEF ConnInv
<1>5. CASE ReadHeader \/ ReadLength \/ RequestRead \/ ResponseWritten
  BY <1>5, Zenon DEF ReadHeader, ReadLength, RequestRead, ResponseWritten
<1>6. CASE \/ \E r \in Requests : SendRequest(r)
           \/ \E f \in FrameSet : SendFrame(f)
           \/ Arrive \/ CloseCb
  BY <1>6, Zenon DEF SendRequest, SendFrame, Arrive, CloseCb, conn
<1>7. CASE UNCHANGED vars
  BY <1>7, Zenon DEF vars
<1>. QED BY <1>3, <1>4, <1>5, <1>6, <1>7, Zenon DEF Next, Reader

LEMMA SilentAlways == Spec => SilentAfterClose
<1>1. ConnInv /\ [Next]_vars => [Closes # {} => delivered' = delivered /\ pongs' = pongs]_vars
  BY SilentStep
<1>. QED BY <1>1, ConnInvAlways, PTL DEF Spec, SilentAfterClose

-----------------------------------------------------------------------------
(* Where the frames lie in the stream                                      *)

(* The j-th frame ends off[j] bytes behind the request; c bytes of what    *)
(* lies there have been read (before its end, minus what is left of it),   *)
(* and u is what has not.                                                  *)
Layout(off, c, S, u) ==
  /\ off \in [0 .. Len(S) -> Nat] /\ c \in Int /\ off[0] = 0
  /\ \A j \in 1 .. Len(S) : off[j] = off[j - 1] + Len(Wire(S[j]))
  /\ \A j \in 0 .. Len(S) : off[j] <= off[Len(S)]
  /\ off[Len(S)] = c + Len(u)
  /\ \A j \in 1 .. Len(S) : \A i \in 1 .. Len(Wire(S[j])) :
       off[j - 1] + i > c => u[off[j - 1] + i - c] = Wire(S[j])[i]

LEMMA Within ==
  ASSUME NEW a \in Nat, NEW w \in Nat, NEW c \in Int, NEW q \in Nat, NEW i \in 1 .. w,
         a + w <= c + q, a + i > c
  PROVE  a + i - c \in 1 .. q
OBVIOUS

LEMMA LayoutRead ==
  ASSUME NEW off, NEW c, NEW S \in Seq(FrameSet), NEW u \in Seq(Sym), Layout(off, c, S, u),
         NEW k \in Nat, NEW v \in Seq(Sym), Len(u) = k + Len(v),
         \A i \in 1 .. Len(v) : v[i] = u[k + i]
  PROVE  Layout(off, c + k, S, v)
<1>1. /\ off \in [0 .. Len(S) -> Nat] /\ c \in Int /\ off[0] = 0
      /\ \A j \in 1 .. Len(S) : off[j] = off[j - 1] + Len(Wire(S[j]))
      /\ \A j \in 0 .. Len(S) : off[j] <= off[Len(S)]
      /\ off[Len(S)] = c + Len(u)
  BY Zenon DEF Layout
<1>2. Len(S) \in Nat /\ Len(u) \in Nat /\ Len(v) \in Nat
  OBVIOUS
<1>3. c + k \in Int /\ off[Len(S)] = (c + k) + Len(v)
  BY ONLY <1>1, <1>2, k \in Nat, Len(u) = k + Len(v), SMT
<1>4. ASSUME NEW j \in 1 .. Len(S), NEW i \in 1 .. Len(Wire(S[j])), off[j - 1] + i > c + k
      PROVE  v[off[j - 1] + i - (c + k)] = Wire(S[j])[i]
  <2>1. PICK w \in Nat : w = Len(Wire(S[j])) /\ i \in 1 .. w
    <3>1. S[j] \in FrameSet
      BY ElementOfSeq, Zenon
    <3>. QED BY <3>1, WireAt, Zenon
  <2>2. j \in 0 .. Len(S) /\ j - 1 \in 0 .. Len(S)
    BY ONLY <1>2, j \in 1 .. Len(S), SMT
  <2>3. PICK a \in Nat, b \in Nat : a = off[j - 1] /\ b = off[j] /\ b = a + w /\ b <= c + Len(u)
    <3>1. off[j - 1] \in Nat /\ off[j] \in Nat
      BY <1>1, <2>2
    <3>2. off[j] = off[j - 1] + w /\ off[j] <= c + Len(u)
      BY <1>1, <2>1, <2>2, Zenon
    <3>. QED BY <3>1, <3>2, Zenon
  <2>4. PICK x \in 1 .. Len(v) : x = a + i - (c + k)
    <3>1. a + i - (c + k) \in 1 .. Len(v)
      <4>1. a + i > c + k
        BY <1>4, <2>3, Zenon
      <4>2. PICK q \in Nat, d \in Int : q = Len(v) /\ d = c + k
        BY <1>2, <1>3, Zenon
      <4>3. a + w <= d + q
        <5>1. PICK m \in Nat : m = Len(u) /\ m = k + q
          BY <1>2, <4>2, Zenon
        <5>2. a + w <= c + m /\ c \in Int
          BY <1>1, <2>3, <5>1, Zenon
        <5>3. d = c + k /\ m = k + q
          BY <4>2, <5>1, Zenon
        <5>. QED BY ONLY <5>2, <5>3, a \in Nat, w \in Nat, k \in Nat, q \in Nat, m \in Nat, SMT
      <4>4. a + i > d
        BY <4>1, <4>2, Zenon
      <4>5. i \in 1 .. w
        BY <2>1, Zenon
      <4>6. a + i - d \in 1 .. q
        BY ONLY <4>3, <4>4, <4>5, Within, a \in Nat, w \in Nat, d \in Int, q \in Nat, SMT
      <4>. QED BY <4>2, <4>6, Zenon
    <3>. QED BY <3>1, Zenon
  <2>5. k + x = a + i - c /\ a + i > c
    <3>1. c \in Int /\ i \in Nat /\ x \in Nat /\ x > 0
      BY <1>1, <2>1, <1>2, SMT
    <3>. QED BY ONLY <2>4, <3>1, k \in Nat, a \in Nat, SMT
  <2>6. u[a + i - c] = Wire(S[j])[i]
    BY <2>3, <2>5, Zenon DEF Layout
  <2>7. v[x] = u[k + x]
    OBVIOUS
  <2>. QED BY <2>3, <2>4, <2>5, <2>6, <2>7, Zenon
<1>. QED BY <1>1, <1>3, <1>4, Zenon DEF Layout

(* The ends of the frames when f is one more.                              *)
OneMore(off, S, f) == [j \in 0 .. Len(S) + 1 |->
                         IF j <= Len(S) THEN off[j] ELSE off[Len(S)] + Len(Wire(f))]

LEMMA LayoutSend ==
  ASSUME NEW off, NEW c, NEW S \in Seq(FrameSet), NEW u \in Seq(Sym), Layout(off, c, S, u),
         NEW f \in FrameSet
  PROVE  /\ Layout(OneMore(off, S, f), c, Append(S, f), u \o Wire(f))
         /\ \A j \in 0 .. Len(S) : OneMore(off, S, f)[j] = off[j]
<1>1. PICK n \in Nat, w \in Seq(Sym), l \in Nat, m \in Nat :
        n = Len(S) /\ w = Wire(f) /\ l = Len(w) /\ m = Len(u)
  <2>1. Wire(f) \in Seq(Sym)
    BY WireAt, ByteSym, Zenon
  <2>2. Len(S) \in Nat /\ Len(Wire(f)) \in Nat /\ Len(u) \in Nat
    BY <2>1
  <2>. QED BY <2>1, <2>2, Zenon
<1>2. /\ off \in [0 .. n -> Nat] /\ c \in Int /\ off[0] = 0
      /\ \A j \in 1 .. n : off[j] = off[j - 1] + Len(Wire(S[j]))
      /\ \A j \in 0 .. n : off[j] <= off[n]
      /\ off[n] = c + m
      /\ \A j \in 1 .. n : \A i \in 1 .. Len(Wire(S[j])) :
           off[j - 1] + i > c => u[off[j - 1] + i - c] = Wire(S[j])[i]
  BY <1>1, Zenon DEF Layout
<1>3. PICK T \in Seq(FrameSet) :
        /\ T = Append(S, f) /\ Len(T) = n + 1 /\ T[n + 1] = f
        /\ \A j \in 1 .. n : T[j] = S[j]
  <2>1. /\ Append(S, f) \in Seq(FrameSet) /\ Len(Append(S, f)) = Len(S) + 1
        /\ \A j \in 1 .. Len(S) : Append(S, f)[j] = S[j]
        /\ Append(S, f)[Len(S) + 1] = f
    BY AppendProperties, SMT
  <2>. QED BY <1>1, <2>1, Zenon
<1>4. PICK x \in Seq(Sym) :
        /\ x = u \o w /\ Len(x) = m + l
        /\ \A i \in 1 .. m : x[i] = u[i]
        /\ \A i \in 1 .. l : x[m + i] = w[i]
  <2>1. /\ u \o w \in Seq(Sym) /\ Len(u \o w) = Len(u) + Len(w)
        /\ \A i \in 1 .. Len(u) : (u \o w)[i] = u[i]
        /\ \A i \in 1 .. Len(w) : (u \o w)[Len(u) + i] = w[i]
    BY ONLY u \in Seq(Sym), w \in Seq(Sym), ConcatAt, SMT
  <2>. QED BY <1>1, <2>1, Zenon
<1>5. PICK g : g = OneMore(off, S, f)
  OBVIOUS
<1>6. g = [j \in 0 .. n + 1 |-> IF j <= n THEN off[j] ELSE off[n] + l]
  BY <1>1, <1>5, Zenon DEF OneMore
<1>7. \A j \in 0 .. n : off[j] \in Nat
  BY <1>2
<1>8. off[n] \in Nat
  BY <1>7, SMT
<1>9. /\ \A j \in 0 .. n : g[j] = off[j]
      /\ g[n + 1] = off[n] + l /\ g \in [0 .. n + 1 -> Nat]
  <2>1. \A j \in 0 .. n : g[j] = off[j]
    BY ONLY <1>6, n \in Nat, SMT
  <2>2. g[n + 1] = off[n] + l
    BY ONLY <1>6, n \in Nat, SMT
  <2>3. g \in [0 .. n + 1 -> Nat]
    BY ONLY <1>6, <1>7, <1>8, n \in Nat, l \in Nat, SMT
  <2>. QED BY <2>1, <2>2, <2>3, Zenon
<1>10. \A j \in 1 .. n + 1 : g[j] = g[j - 1] + Len(Wire(T[j]))
  <2>. TAKE j \in 1 .. n + 1
  <2>1. CASE j = n + 1
    <3>1. j - 1 = n /\ n \in 0 .. n
      BY <2>1, SMT
    <3>. QED BY <1>1, <1>3, <1>9, <2>1, <3>1, Zenon
  <2>2. CASE j # n + 1
    <3>1. j \in 1 .. n /\ j \in 0 .. n /\ j - 1 \in 0 .. n
      BY <2>2, SMT
    <3>. QED BY <1>2, <1>3, <1>9, <3>1, Zenon
  <2>. QED BY <2>1, <2>2, Zenon
<1>11. \A j \in 0 .. n + 1 : g[j] <= g[n + 1]
  <2>. TAKE j \in 0 .. n + 1
  <2>1. CASE j \in 0 .. n
    <3>1. g[j] = off[j] /\ off[j] <= off[n] /\ off[j] \in Nat
      BY <1>2, <1>7, <1>9, <2>1, Zenon
    <3>. QED BY ONLY <3>1, <1>8, <1>9, l \in Nat, SMTT(30)
  <2>2. CASE j = n + 1
    <3>1. g[n + 1] \in Nat
      BY ONLY <1>8, <1>9, l \in Nat, SMT
    <3>. QED BY <2>2, <3>1, SMT
  <2>3. j \in 0 .. n \/ j = n + 1
    BY SMT
  <2>. QED BY <2>1, <2>2, <2>3, Zenon
<1>12. g[n + 1] = c + Len(x)
  BY ONLY <1>2, <1>4, <1>8, <1>9, l \in Nat, m \in Nat, SMT
<1>13. ASSUME NEW j \in 1 .. n + 1, NEW i \in 1 .. Len(Wire(T[j])), g[j - 1] + i > c
       PROVE  x[g[j - 1] + i - c] = Wire(T[j])[i]
  <2>1. CASE j = n + 1
    <3>1. j - 1 = n /\ n \in 0 .. n
      BY <2>1, SMT
    <3>2. T[j] = f /\ g[j - 1] = off[n] /\ i \in 1 .. l
      BY <1>1, <1>3, <1>9, <2>1, <3>1, Zenon
    <3>3. off[n] + i - c = m + i
      <4>1. off[n] = c + m /\ c \in Int /\ i \in Nat
        BY <1>2, <3>2, SMT
      <4>. QED BY ONLY <4>1, m \in Nat, SMT
    <3>4. x[m + i] = w[i]
      BY <1>4, <3>2, Zenon
    <3>. QED BY <1>1, <3>2, <3>3, <3>4, Zenon
  <2>2. CASE j # n + 1
    <3>1. j \in 1 .. n /\ j \in 0 .. n /\ j - 1 \in 0 .. n
      BY <2>2, SMT
    <3>2. T[j] = S[j] /\ g[j - 1] = off[j - 1]
      BY <1>3, <1>9, <3>1, Zenon
    <3>3. u[off[j - 1] + i - c] = Wire(S[j])[i]
      BY <1>2, <1>13, <3>1, <3>2, Zenon
    <3>4. off[j - 1] + i - c \in 1 .. m
      <4>1. PICK a \in Nat, b \in Nat, k \in Nat :
              a = off[j - 1] /\ b = off[j] /\ k = Len(Wire(S[j])) /\ i \in 1 .. k
              /\ b = a + k /\ b <= off[n] /\ a + i > c
        <5>1. off[j - 1] \in Nat /\ off[j] \in Nat
          BY <1>7, <3>1, Zenon
        <5>2. Len(Wire(S[j])) \in Nat
          <6>1. S[j] \in FrameSet
            BY <1>1, <3>1, ElementOfSeq, Zenon
          <6>. QED BY <6>1, WireAt, Zenon
        <5>3. off[j] = off[j - 1] + Len(Wire(S[j])) /\ off[j] <= off[n]
          BY <1>2, <3>1, Zenon
        <5>. QED BY <1>13, <3>2, <5>1, <5>2, <5>3, Zenon
      <4>2. off[n] = c + m /\ c \in Int
        BY <1>2, Zenon
      <4>3. a + i - c \in 1 .. m
        <5>1. a + k <= c + m /\ i \in 1 .. k /\ a + i > c
          BY <4>1, <4>2, Zenon
        <5>. QED BY ONLY <4>2, <5>1, Within, m \in Nat, a \in Nat, k \in Nat, SMT
      <4>. QED BY <4>1, <4>3, Zenon
    <3>5. x[off[j - 1] + i - c] = u[off[j - 1] + i - c]
      BY <1>4, <3>4, Zenon
    <3>. QED BY <3>2, <3>3, <3>5, Zenon
  <2>. QED BY <2>1, <2>2, Zenon
<1>14. Layout(g, c, T, x)
  <2>1. g[0] = 0
    <3>1. 0 \in 0 .. n
      BY SMT
    <3>. QED BY <1>2, <1>9, <3>1, Zenon
  <2>. QED BY <1>2, <1>3, <1>9, <1>10, <1>11, <1>12, <1>13, <2>1, Zenon DEF Layout
<1>. QED BY <1>1, <1>3, <1>4, <1>5, <1>9, <1>14, Zenon

-----------------------------------------------------------------------------
(* What the client meant, frame by frame                                   *)

Books == [whole : Seq(Seq(Byte)), part : Seq(Byte)]
Blank == [whole |-> <<>>, part |-> <<>>]

(* The account of a frame more.                                            *)
AccStep(a, f) ==
  CASE IsControl(f) -> a
    [] ~IsControl(f) /\ f.fin = 0 -> [a EXCEPT !.part = a.part \o f.data]
    [] OTHER -> [whole |-> Append(a.whole, a.part \o f.data), part |-> <<>>]

Leads(s, t) == Len(s) <= Len(t) /\ \A i \in 1 .. Len(s) : s[i] = t[i]

LEMMA LeadsAppend ==
  ASSUME NEW S, NEW s \in Seq(S), NEW x \in S
  PROVE  Leads(s, s) /\ Leads(s, Append(s, x)) /\ Append(s, x) \in Seq(S)
<1>1. /\ Len(s) \in Nat /\ Len(Append(s, x)) = Len(s) + 1 /\ Append(s, x) \in Seq(S)
      /\ \A i \in 1 .. Len(s) : Append(s, x)[i] = s[i]
  BY AppendProperties, SMT
<1>. QED BY <1>1, SMT DEF Leads

LEMMA LeadsTwice ==
  ASSUME NEW S, NEW r \in Seq(S), NEW s \in Seq(S), NEW t \in Seq(S),
         Leads(r, s), Leads(s, t)
  PROVE  Leads(r, t)
<1>1. Len(r) \in Nat /\ Len(s) \in Nat /\ Len(t) \in Nat
  OBVIOUS
<1>2. Len(r) <= Len(s) /\ Len(s) <= Len(t)
  BY Zenon DEF Leads
<1>3. \A i \in 1 .. Len(r) : i \in 1 .. Len(s)
  BY ONLY <1>1, <1>2, SMT
<1>4. \A i \in 1 .. Len(r) : r[i] = t[i]
  BY <1>3, Zenon DEF Leads
<1>5. Len(r) <= Len(t)
  BY ONLY <1>1, <1>2, SMT
<1>. QED BY <1>4, <1>5, Zenon DEF Leads

LEMMA AccStepFacts ==
  ASSUME NEW a \in Books, NEW f \in FrameSet
  PROVE  /\ AccStep(a, f) \in Books
         /\ IsControl(f) => AccStep(a, f) = a
         /\ ~IsControl(f) /\ f.fin = 0 =>
              AccStep(a, f).whole = a.whole /\ AccStep(a, f).part = a.part \o f.data
         /\ ~IsControl(f) /\ f.fin = 1 =>
              /\ AccStep(a, f).whole = Append(a.whole, a.part \o f.data)
              /\ AccStep(a, f).part = <<>>
         /\ Leads(a.whole, AccStep(a, f).whole)
<1>1. PICK w \in Seq(Seq(Byte)), p \in Seq(Byte) : a = [whole |-> w, part |-> p]
  BY DEF Books
<1>2. f.fin \in {0, 1} /\ f.data \in Seq(Byte)
  BY FrameFields, Zenon
<1>3. PICK d \in Seq(Byte), t \in Seq(Byte) : d = f.data /\ t = p \o d
  <2>1. p \o f.data \in Seq(Byte)
    BY ONLY <1>2, p \in Seq(Byte), ConcatProperties, Zenon
  <2>. QED BY <1>2, <2>1, Zenon
<1>4. /\ Append(w, t) \in Seq(Seq(Byte)) /\ Leads(w, w) /\ Leads(w, Append(w, t))
  BY ONLY LeadsAppend, w \in Seq(Seq(Byte)), t \in Seq(Byte), SMT
<1>5. CASE IsControl(f)
  <2>1. AccStep(a, f) = a
    BY <1>5 DEF AccStep
  <2>. QED BY <1>1, <1>4, <1>5, <2>1
<1>6. CASE ~IsControl(f) /\ f.fin = 0
  <2>1. AccStep(a, f) = [a EXCEPT !.part = a.part \o f.data]
    BY <1>6 DEF AccStep
  <2>2. AccStep(a, f) = [whole |-> w, part |-> t]
    BY <1>1, <1>3, <2>1
  <2>3. [whole |-> w, part |-> t] \in Books
    BY DEF Books
  <2>4. /\ AccStep(a, f).whole = w /\ AccStep(a, f).part = t
        /\ a.whole = w /\ a.part = p
    BY <1>1, <2>2
  <2>. QED BY <1>3, <1>4, <1>6, <2>2, <2>3, <2>4, 0 # 1, Zenon
<1>7. CASE ~IsControl(f) /\ f.fin = 1
  <2>1. AccStep(a, f) = [whole |-> Append(a.whole, a.part \o f.data), part |-> <<>>]
    <3>1. f.fin # 0
      BY <1>7
    <3>. QED BY <1>7, <3>1 DEF AccStep
  <2>2. AccStep(a, f) = [whole |-> Append(w, t), part |-> <<>>]
    BY <1>1, <1>3, <2>1
  <2>3. [whole |-> Append(w, t), part |-> <<>>] \in Books
    BY <1>4 DEF Books
  <2>4. /\ AccStep(a, f).whole = Append(w, t) /\ AccStep(a, f).part = <<>>
        /\ a.whole = w /\ a.part = p
    BY <1>1, <2>2
  <2>. QED BY <1>3, <1>4, <1>7, <2>2, <2>3, <2>4, 0 # 1, Zenon
<1>. QED BY <1>2, <1>5, <1>6, <1>7, Zenon

Accounted(acc, S) ==
  /\ acc \in [0 .. Len(S) -> Books] /\ acc[0] = Blank
  /\ \A i \in 1 .. Len(S) : acc[i] = AccStep(acc[i - 1], S[i])
  /\ \A i \in 0 .. Len(S) : Leads(acc[i].whole, acc[Len(S)].whole)

LEMMA AccountedNone == \E acc : Accounted(acc, <<>>)
<1>. DEFINE acc == [i \in {0} |-> Blank]
<1>1. Blank \in Books /\ Leads(Blank.whole, Blank.whole)
  BY DEF Blank, Books, Leads
<1>2. Len(<<>>) = 0 /\ 0 .. 0 = {0}
  OBVIOUS
<1>3. acc \in [0 .. 0 -> Books] /\ acc[0] = Blank
  BY <1>1, <1>2
<1>4. \A i \in 1 .. 0 : FALSE
  OBVIOUS
<1>5. \A i \in 0 .. 0 : acc[i] = Blank
  BY <1>2, <1>3
<1>. HIDE DEF acc
<1>6. Accounted(acc, <<>>)
  BY <1>1, <1>2, <1>3, <1>4, <1>5 DEF Accounted
<1>. QED BY <1>6

LEMMA AccountedAppend ==
  ASSUME NEW acc, NEW S \in Seq(FrameSet), Accounted(acc, S), NEW f \in FrameSet
  PROVE  \E acc2 : /\ Accounted(acc2, Append(S, f))
                   /\ \A j \in 0 .. Len(S) : acc2[j] = acc[j]
<1>1. PICK n \in Nat : n = Len(S)
  BY LenProperties, Zenon
<1>2. /\ acc \in [0 .. n -> Books] /\ acc[0] = Blank
      /\ \A i \in 1 .. n : acc[i] = AccStep(acc[i - 1], S[i])
      /\ \A i \in 0 .. n : Leads(acc[i].whole, acc[n].whole)
  BY <1>1, Zenon DEF Accounted
<1>3. PICK T \in Seq(FrameSet) :
        /\ T = Append(S, f) /\ Len(T) = n + 1 /\ T[n + 1] = f
        /\ \A j \in 1 .. n : T[j] = S[j]
  <2>1. /\ Append(S, f) \in Seq(FrameSet) /\ Len(Append(S, f)) = Len(S) + 1
        /\ \A j \in 1 .. Len(S) : Append(S, f)[j] = S[j]
        /\ Append(S, f)[Len(S) + 1] = f
    BY AppendProperties, SMT
  <2>. QED BY <1>1, <2>1, Zenon
<1>4. n \in 0 .. n /\ 0 \in 0 .. n /\ \A j \in 0 .. n + 1 : j \in 0 .. n \/ j = n + 1
  BY ONLY n \in Nat, SMT
<1>5. \A j \in 0 .. n : acc[j] \in Books
  BY <1>2, Zenon
<1>6. PICK z \in Books : /\ z = AccStep(acc[n], f) /\ Leads(acc[n].whole, z.whole)
  <2>1. acc[n] \in Books
    BY <1>4, <1>5, Zenon
  <2>. QED BY ONLY <2>1, AccStepFacts, f \in FrameSet, Zenon
<1>7. PICK g : g = [j \in 0 .. n + 1 |-> IF j <= n THEN acc[j] ELSE z]
  OBVIOUS
<1>8. /\ \A j \in 0 .. n : g[j] = acc[j]
      /\ g[n + 1] = z /\ g \in [0 .. n + 1 -> Books]
  <2>1. \A j \in 0 .. n : g[j] = acc[j]
    BY ONLY <1>7, n \in Nat, SMT
  <2>2. g[n + 1] = z
    BY ONLY <1>7, n \in Nat, SMT
  <2>3. g \in [0 .. n + 1 -> Books]
    <3>1. \A j \in 0 .. n + 1 : g[j] \in Books
      BY <1>4, <1>5, <2>1, <2>2, Zenon
    <3>. QED BY ONLY <1>7, <3>1, Zenon
  <2>. QED BY <2>1, <2>2, <2>3, Zenon
<1>9. \A j \in 1 .. n + 1 : g[j] = AccStep(g[j - 1], T[j])
  <2>. TAKE j \in 1 .. n + 1
  <2>1. CASE j = n + 1
    <3>1. j - 1 = n
      BY <2>1, SMT
    <3>. QED BY <1>3, <1>4, <1>6, <1>8, <2>1, <3>1, Zenon
  <2>2. CASE j # n + 1
    <3>1. j \in 1 .. n /\ j \in 0 .. n /\ j - 1 \in 0 .. n
      BY ONLY <2>2, n \in Nat, j \in 1 .. n + 1, SMT
    <3>. QED BY <1>2, <1>3, <1>8, <3>1, Zenon
  <2>. QED BY <2>1, <2>2, Zenon
<1>10. \A j \in 0 .. n + 1 : Leads(g[j].whole, g[n + 1].whole)
  <2>. TAKE j \in 0 .. n + 1
  <2>1. CASE j \in 0 .. n
    <3>1. g[j] = acc[j] /\ Leads(acc[j].whole, acc[n].whole)
      BY <1>2, <1>8, <2>1, Zenon
    <3>2. /\ acc[j].whole \in Seq(Seq(Byte)) /\ acc[n].whole \in Seq(Seq(Byte))
          /\ z.whole \in Seq(Seq(Byte))
      <4>1. acc[j] \in Books /\ acc[n] \in Books
        BY <1>4, <1>5, <2>1, Zenon
      <4>. QED BY <4>1 DEF Books
    <3>3. Leads(acc[j].whole, z.whole)
      BY ONLY <1>6, <3>1, <3>2, LeadsTwice, Zenon
    <3>. QED BY <1>8, <3>1, <3>3, Zenon
  <2>2. CASE j = n + 1
    <3>1. Leads(z.whole, z.whole)
      <4>1. z.whole \in Seq(Seq(Byte)) /\ Len(z.whole) \in Nat
        BY DEF Books
      <4>. QED BY <4>1 DEF Leads
    <3>. QED BY <1>8, <2>2, <3>1, Zenon
  <2>. QED BY <1>4, <2>1, <2>2, Zenon
<1>11. Accounted(g, T)
  BY <1>2, <1>3, <1>4, <1>8, <1>9, <1>10, Zenon DEF Accounted
<1>. QED BY <1>1, <1>3, <1>8, <1>11, Zenon

(* Induction over the naturals, for a set.                                 *)
LEMMA SetInduction ==
  ASSUME NEW S, 0 \in S, \A n \in Nat : n \in S => n + 1 \in S
  PROVE  Nat \subseteq S
<1>. DEFINE T == Nat \ S
            R == WF!OpToRel(<, Nat)
<1>1. SUFFICES ASSUME T # {} PROVE FALSE OBVIOUS
<1>2. WF!IsWellFoundedOn(R, Nat) BY WF!NatLessThanWellFounded
<1>3. PICK x \in T : \A y \in T : ~(<<y, x>> \in R)
  <2>. HIDE DEF T, R
  <2>1. T \subseteq Nat BY DEF T
  <2>. QED BY <1>1, <1>2, <2>1, WF!WFMin
<1>4. x \in Nat /\ x # 0 /\ x - 1 \in Nat OBVIOUS
<1>5. x - 1 \notin S BY <1>4
<1>6. <<x - 1, x>> \in R BY <1>4 DEF WF!OpToRel
<1>. QED BY <1>3, <1>4, <1>5, <1>6

AccBody(g, i) == IF i = 0 THEN Blank ELSE AccStep(g[i - 1], sent[i])

(* The recursion of account is well-founded: it is what the frames make of *)
(* it one after the other.                                                 *)
LEMMA AccountedIs ==
  ASSUME NEW acc, sent \in Seq(FrameSet), Accounted(acc, sent)
  PROVE  account = acc
<1>1. account = CHOOSE g : g = [i \in 0 .. Len(sent) |-> AccBody(g, i)]
  BY Zenon DEF account, AccBody, AccStep, Blank
<1>2. PICK n \in Nat : n = Len(sent)
  BY LenProperties, Zenon
<1>3. /\ acc \in [0 .. n -> Books] /\ acc[0] = Blank
      /\ \A i \in 1 .. n : acc[i] = AccStep(acc[i - 1], sent[i])
  BY <1>2, Zenon DEF Accounted
<1>4. acc = [i \in 0 .. n |-> AccBody(acc, i)]
  <2>1. \A i \in 0 .. n : acc[i] = AccBody(acc, i)
    <3>. TAKE i \in 0 .. n
    <3>1. i = 0 \/ i \in 1 .. n
      OBVIOUS
    <3>2. i \in 1 .. n => i # 0
      OBVIOUS
    <3>. QED BY <1>3, <3>1, <3>2, Zenon DEF AccBody
  <2>. QED BY ONLY <1>3, <2>1, Zenon
<1>5. ASSUME NEW g, g = [i \in 0 .. n |-> AccBody(g, i)] PROVE g = acc
  <2>. DEFINE T == {i \in Nat : i \in 0 .. n => g[i] = acc[i]}
  <2>1. \A i \in 0 .. n : g[i] = AccBody(g, i)
    BY <1>5, Zenon
  <2>2. 0 \in T
    <3>1. 0 \in 0 .. n
      OBVIOUS
    <3>. QED BY <1>3, <2>1, <3>1 DEF AccBody
  <2>3. ASSUME NEW i \in Nat, i \in T PROVE i + 1 \in T
    <3>1. SUFFICES ASSUME i + 1 \in 0 .. n PROVE g[i + 1] = acc[i + 1]
      OBVIOUS
    <3>2. /\ i \in 0 .. n /\ i + 1 \in 1 .. n /\ (i + 1) - 1 = i /\ i + 1 # 0
      BY <3>1
    <3>3. g[i] = acc[i]
      BY <2>3, <3>2
    <3>4. g[i + 1] = AccStep(g[i], sent[i + 1])
      BY <2>1, <3>1, <3>2, Zenon DEF AccBody
    <3>. QED BY <1>3, <3>2, <3>3, <3>4, Zenon
  <2>. HIDE DEF T
  <2>4. Nat \subseteq T
    BY <2>2, <2>3, SetInduction
  <2>5. \A i \in 0 .. n : g[i] = acc[i]
    BY <2>4 DEF T
  <2>6. g = [i \in 0 .. n |-> g[i]] /\ acc = [i \in 0 .. n |-> acc[i]]
    BY <1>3, <1>5
  <2>. QED BY ONLY <2>5, <2>6, Zenon
<1>6. account = CHOOSE g : g = [i \in 0 .. n |-> AccBody(g, i)]
  BY <1>1, <1>2, Zenon
<1>7. PICK x : x = CHOOSE g : g = [i \in 0 .. n |-> AccBody(g, i)]
  OBVIOUS
<1>8. x = [i \in 0 .. n |-> AccBody(x, i)]
  BY ONLY <1>4, <1>7, Zenon
<1>. QED BY <1>5, <1>6, <1>7, <1>8, Zenon

-----------------------------------------------------------------------------
(* The reader's place in the stream                                        *)

(* What lies before the reader when it is p bytes into frame k + 1.        *)
LEMMA LayoutSlice ==
  ASSUME NEW off, NEW c, NEW S \in Seq(FrameSet), NEW u, Layout(off, c, S, u),
         NEW k \in Nat, k < Len(S), NEW p \in Nat, c = off[k] + p,
         NEW i \in Nat, i > 0, p + i <= Len(Wire(S[k + 1]))
  PROVE  u[i] = Wire(S[k + 1])[p + i]
<1>1. PICK n \in Nat, w \in Nat : n = Len(S) /\ w = Len(Wire(S[k + 1])) /\ S[k + 1] \in FrameSet
  <2>1. Len(S) \in Nat /\ k + 1 \in 1 .. Len(S)
    BY LenProperties, SMT
  <2>2. S[k + 1] \in FrameSet
    BY <2>1, ElementOfSeq, Zenon
  <2>. QED BY <2>1, <2>2, WireAt, Zenon
<1>2. k < n /\ p + i <= w
  BY <1>1, Zenon
<1>3. PICK a \in Nat : a = off[k]
  <2>1. off \in [0 .. n -> Nat] /\ k \in 0 .. n
    BY ONLY <1>1, <1>2, Layout(off, c, S, u), k \in Nat, n \in Nat, SMT DEF Layout
  <2>. QED BY <2>1
<1>4. /\ k + 1 \in 1 .. n /\ p + i \in 1 .. w /\ (k + 1) - 1 = k
  BY ONLY <1>2, k \in Nat, n \in Nat, p \in Nat, i \in Nat, i > 0, w \in Nat, SMT
<1>5. c = a + p
  BY <1>3, Zenon
<1>6. a + (p + i) > c /\ a + (p + i) - c = i
  BY ONLY <1>5, a \in Nat, p \in Nat, i \in Nat, i > 0, SMT
<1>7. off[(k + 1) - 1] + (p + i) > c =>
        u[off[(k + 1) - 1] + (p + i) - c] = Wire(S[k + 1])[p + i]
  BY <1>1, <1>4, Zenon DEF Layout
<1>. QED BY <1>3, <1>4, <1>6, <1>7, Zenon

LEMMA LayoutMore ==
  ASSUME NEW off, NEW c, NEW S \in Seq(FrameSet), NEW u \in Seq(Sym), Layout(off, c, S, u),
         NEW k \in 0 .. Len(S), c = off[k], Len(u) > 0
  PROVE  k < Len(S)
<1>1. PICK n \in Nat, m \in Nat : n = Len(S) /\ m = Len(u)
  BY LenProperties, Zenon
<1>2. c \in Int /\ off[n] = c + m /\ m > 0 /\ k \in 0 .. n
  BY <1>1, Zenon DEF Layout
<1>3. k # n
  BY ONLY <1>2, c = off[k], m \in Nat, SMT
<1>4. k < n
  BY ONLY <1>2, <1>3, n \in Nat, SMT
<1>. QED BY <1>1, <1>4, Zenon

HeadRead(f) == frame.fin = f.fin /\ frame.opcode = f.op

(* The messages of k frames were received, and c bytes were read since the *)
(* end of the request.                                                     *)
Place(off, c, k) ==
  /\ written = <<>> => k = 0 /\ c = Len(ws_req_str) - Len(request)
  /\ step = "ZERO" /\ written # <<>> => k = 0 /\ c = 0
  /\ step = "ONE" => c = off[k]
  /\ step = "TWO" =>
       /\ k < Len(sent) /\ sent[k + 1].form # 7 /\ c = off[k] + 2
       /\ HeadRead(sent[k + 1]) /\ frame.payload_len = Len7(sent[k + 1])
  /\ step = "THREE" /\ Len(written) < 2 =>
       /\ k < Len(sent) /\ c = off[k] + (2 + Ext(sent[k + 1]))
       /\ HeadRead(sent[k + 1]) /\ frame.payload_len = Len(sent[k + 1].data)
  /\ step = "FOUR" /\ Len(written) < 2 =>
       /\ k < Len(sent) /\ c = off[k] + (6 + Ext(sent[k + 1]))
       /\ HeadRead(sent[k + 1]) /\ frame.payload_len = Len(sent[k + 1].data)
       /\ frame.masking_key = Key
  /\ Len(written) >= 2 =>
       Len(written) = 2 /\ k = Len(sent) /\ k > 0 /\ IsClose(sent[k]) /\ c = off[k]

Located(off, acc, c, k) ==
  /\ Layout(off, c, sent, Unread) /\ Accounted(acc, sent)
  /\ k \in 0 .. Len(sent) /\ Place(off, c, k)
  /\ delivered = acc[k].whole /\ msg = acc[k].part

StreamInv == Conforming => \E off, acc, c, k : Located(off, acc, c, k)

LEMMA StreamInvInit == Init => StreamInv
<1>. SUFFICES ASSUME Init PROVE \E off, acc, c, k : Located(off, acc, c, k)
  BY DEF StreamInv
<1>1. /\ sent = <<>> /\ Unread = <<>> /\ written = <<>> /\ step = "ZERO"
      /\ ws_req_str = <<>> /\ request = <<>> /\ delivered = <<>> /\ msg = <<>>
  BY DEF Init, Unread, ConnNew
<1>2. PICK acc : Accounted(acc, <<>>)
  BY AccountedNone
<1>3. acc[0] = Blank /\ Blank.whole = <<>> /\ Blank.part = <<>>
  BY <1>2 DEF Accounted, Blank
<1>4. PICK off : off = [j \in 0 .. 0 |-> 0]
  OBVIOUS
<1>5. Layout(off, 0, <<>>, <<>>)
  BY ONLY <1>4, SMT DEF Layout
<1>6. Place(off, 0, 0)
  BY <1>1 DEF Place
<1>7. 0 \in 0 .. Len(<<>>)
  OBVIOUS
<1>8. Located(off, acc, 0, 0)
  BY <1>1, <1>2, <1>3, <1>5, <1>6, <1>7, Zenon DEF Located
<1>. QED BY <1>8, Zenon

LEMMA ConformingFacts ==
  ASSUME Conforming, sent \in Seq(FrameSet), NEW k \in Nat, k < Len(sent)
  PROVE  /\ sent[k + 1] \in FrameSet /\ sent[k + 1].mask = 1
         /\ IsControl(sent[k + 1]) => sent[k + 1].fin = 1
         /\ IsClose(sent[k + 1]) => k + 1 = Len(sent)
<1>1. k + 1 \in 1 .. Len(sent) /\ DOMAIN sent = 1 .. Len(sent)
  BY LenProperties, SMT
<1>. QED BY <1>1, ElementOfSeq, Zenon DEF Conforming

LEMMA SameConforming ==
  ASSUME sent' = sent, Conforming'
  PROVE  Conforming
BY Zenon DEF Conforming, IsControl, IsClose

LEMMA SendRequestStream ==
  ASSUME ConnInv, StreamInv, NEW r \in Requests, SendRequest(r)
  PROVE  StreamInv'
<1>. SUFFICES ASSUME Conforming' PROVE (\E off, acc, c, k : Located(off, acc, c, k))'
  BY DEF StreamInv
<1>1. /\ request = <<>> /\ request' = r /\ socket' = socket \o r /\ inbuf' = inbuf
      /\ sent' = sent /\ written' = written /\ ws_req_str' = ws_req_str
      /\ step' = step /\ delivered' = delivered /\ msg' = msg
  BY Zenon DEF SendRequest, conn
<1>2. written = <<>>
  BY <1>1, Zenon DEF ConnInv, Answered
<1>3. ws_req_str = <<>> /\ Unread = <<>> /\ sent = <<>> /\ step = "ZERO"
  BY <1>1, <1>2, Zenon DEF ConnInv, Asking
<1>4. PICK off, acc, c, k : Located(off, acc, c, k)
  BY <1>1, SameConforming, Zenon DEF StreamInv
<1>5. /\ Accounted(acc, <<>>) /\ k = 0 /\ delivered = acc[0].whole /\ msg = acc[0].part
  BY <1>2, <1>3, <1>4, Zenon DEF Located, Place
<1>6. PICK n \in Nat : n = Len(r)
  BY RequestType, Zenon
<1>7. Unread' \in Seq(Sym) /\ Len(Unread') = n
  <2>1. TypeInv /\ TypeInv'
    BY SendRequestInv, Zenon DEF ConnInv
  <2>2. r \in Seq(Sym) /\ socket \in Seq(Sym)
    BY <2>1, RequestType, Zenon DEF TypeInv
  <2>3. Len(socket \o r) = Len(socket) + Len(r)
    BY ONLY <2>2, ConcatAt, SMT
  <2>4. /\ Len(Unread) = Len(inbuf) + Len(socket) /\ Len(inbuf) \in Nat /\ Len(socket) \in Nat
    BY <2>1, UnreadType, Zenon
  <2>5. Unread' \in Seq(Sym) /\ Len(Unread') = Len(inbuf') + Len(socket')
    <3>1. inbuf' \in Seq(Sym) /\ socket' \in Seq(Sym)
      BY <2>1, Zenon DEF TypeInv
    <3>2. inbuf' \o socket' \in Seq(Sym) /\ Len(inbuf' \o socket') = Len(inbuf') + Len(socket')
      BY ONLY <3>1, ConcatAt, SMT
    <3>. QED BY <3>2, Zenon DEF Unread
  <2>6. Len(Unread) = 0
    BY <1>3
  <2>7. Len(inbuf) = 0 /\ Len(socket) = 0
    BY ONLY <2>4, <2>6, SMT
  <2>. QED BY <1>1, <1>6, <2>3, <2>5, <2>7, SMT
<1>8. PICK g : g = [j \in 0 .. 0 |-> 0]
  OBVIOUS
<1>9. Layout(g, 0 - n, <<>>, Unread')
  <2>1. Len(<<>>) = 0 /\ 0 = (0 - n) + Len(Unread') /\ 0 - n \in Int
    BY ONLY <1>7, n \in Nat, SMT
  <2>2. g \in [0 .. 0 -> Nat] /\ g[0] = 0 /\ \A j \in 0 .. 0 : g[j] = 0
    BY ONLY <1>8, SMT
  <2>3. \A j \in 1 .. 0 : FALSE
    OBVIOUS
  <2>4. \A j \in 0 .. 0 : g[j] <= g[0]
    BY ONLY <2>2, SMT
  <2>. QED BY <2>1, <2>2, <2>3, <2>4, Zenon DEF Layout
<1>10. Place(g, 0 - n, 0)'
  <2>1. Len(ws_req_str') - Len(request') = 0 - n
    BY <1>1, <1>3, <1>6
  <2>2. ~(Len(written') >= 2)
    BY <1>1, <1>2
  <2>. QED BY <1>1, <1>2, <1>3, <2>1, <2>2, Zenon DEF Place
<1>11. Located(g, acc, 0 - n, 0)'
  <2>1. 0 \in 0 .. Len(<<>>)
    OBVIOUS
  <2>. QED BY <1>1, <1>3, <1>5, <1>9, <1>10, <2>1, Zenon DEF Located
<1>. QED BY <1>11, Zenon

LEMMA SendConforming ==
  ASSUME sent \in Seq(FrameSet), NEW f \in FrameSet, sent' = Append(sent, f), Conforming'
  PROVE  /\ Conforming /\ Len(sent') = Len(sent) + 1
         /\ \A i \in 1 .. Len(sent) : sent'[i] = sent[i] /\ ~IsClose(sent[i])
<1>1. /\ DOMAIN sent = 1 .. Len(sent) /\ DOMAIN sent' = 1 .. Len(sent')
      /\ Len(sent') = Len(sent) + 1 /\ Len(sent) \in Nat
      /\ \A i \in 1 .. Len(sent) : sent'[i] = sent[i]
  <2>1. /\ Len(Append(sent, f)) = Len(sent) + 1 /\ Append(sent, f) \in Seq(FrameSet)
        /\ \A i \in 1 .. Len(sent) : Append(sent, f)[i] = sent[i]
    BY AppendProperties, SMT
  <2>. QED BY <2>1, LenProperties, Zenon
<1>2. \A i \in 1 .. Len(sent) : i \in 1 .. Len(sent') /\ i # Len(sent')
  BY ONLY <1>1, SMT
<1>3. \A i \in 1 .. Len(sent) : /\ sent[i].mask = 1 /\ ~IsClose(sent[i])
                                /\ IsControl(sent[i]) => sent[i].fin = 1
  <2>. TAKE i \in 1 .. Len(sent)
  <2>1. PICK g : g = sent[i] /\ g = sent'[i]
    BY <1>1, Zenon
  <2>2. i \in DOMAIN sent' /\ i # Len(sent')
    BY <1>1, <1>2, Zenon
  <2>3. /\ sent'[i].mask = 1
        /\ IsControl(sent[i])' => sent'[i].fin = 1
        /\ IsClose(sent[i])' => i = Len(sent')
    BY <2>2, Zenon DEF Conforming
  <2>4. (IsControl(g) => g.fin = 1) /\ (IsClose(g) => i = Len(sent')) /\ g.mask = 1
    BY <2>1, <2>3, Zenon DEF IsControl, IsClose
  <2>. QED BY <2>1, <2>2, <2>4, Zenon
<1>. QED BY <1>1, <1>3, Zenon DEF Conforming

LEMMA SendFrameStream ==
  ASSUME ConnInv, StreamInv, NEW f \in FrameSet, SendFrame(f)
  PROVE  StreamInv'
<1>. SUFFICES ASSUME Conforming' PROVE (\E off, acc, c, k : Located(off, acc, c, k))'
  BY DEF StreamInv
<1>1. /\ sent' = Append(sent, f)
      /\ request' = request /\ written' = written /\ ws_req_str' = ws_req_str
      /\ step' = step /\ frame' = frame /\ delivered' = delivered /\ msg' = msg
  BY Zenon DEF SendFrame, conn
<1>2. TypeInv /\ sent \in Seq(FrameSet)
  BY Zenon DEF ConnInv, TypeInv
<1>3. PICK n \in Nat : /\ n = Len(sent) /\ Len(sent') = n + 1
                       /\ \A i \in 1 .. n : sent'[i] = sent[i] /\ ~IsClose(sent[i])
  BY <1>1, <1>2, SendConforming, LenProperties, Zenon
<1>4. PICK off, acc, c, k : Located(off, acc, c, k)
  BY <1>1, <1>2, SendConforming, Zenon DEF StreamInv
<1>5. /\ Layout(off, c, sent, Unread) /\ Accounted(acc, sent) /\ k \in 0 .. n
      /\ Place(off, c, k) /\ delivered = acc[k].whole /\ msg = acc[k].part
  BY <1>3, <1>4, Zenon DEF Located
<1>6. ~(Len(written) >= 2)
  <2>. SUFFICES ASSUME Len(written) >= 2 PROVE FALSE
    OBVIOUS
  <2>1. k = n /\ k > 0 /\ IsClose(sent[k])
    BY <1>3, <1>5, Zenon DEF Place
  <2>2. k \in 1 .. n
    BY ONLY <2>1, n \in Nat, SMT
  <2>. QED BY <1>3, <2>1, <2>2, Zenon
<1>7. PICK off2 : /\ Layout(off2, c, sent', Unread')
                  /\ \A j \in 0 .. n : off2[j] = off[j]
  <2>1. Unread' = Unread \o Wire(f)
    BY <1>2, SendUnread, Zenon
  <2>2. Unread \in Seq(Sym) /\ sent \in Seq(FrameSet) /\ Layout(off, c, sent, Unread)
    BY <1>2, <1>5, UnreadType, Zenon
  <2>3. /\ Layout(OneMore(off, sent, f), c, Append(sent, f), Unread \o Wire(f))
        /\ \A j \in 0 .. Len(sent) : OneMore(off, sent, f)[j] = off[j]
    BY ONLY <2>2, f \in FrameSet, LayoutSend, Zenon
  <2>. QED BY <1>1, <1>3, <2>1, <2>3, Zenon
<1>8. PICK acc2 : Accounted(acc2, sent') /\ \A j \in 0 .. n : acc2[j] = acc[j]
  <2>1. \E acc2 : /\ Accounted(acc2, Append(sent, f))
                  /\ \A j \in 0 .. Len(sent) : acc2[j] = acc[j]
    BY ONLY <1>2, <1>5, f \in FrameSet, AccountedAppend, Zenon
  <2>. QED BY <1>1, <1>3, <2>1, Zenon
<1>9. k \in 0 .. Len(sent') /\ (k < n => k < Len(sent') /\ k + 1 \in 1 .. n)
  BY ONLY <1>3, <1>5, n \in Nat, SMT
<1>10. Place(off2, c, k)'
  <2>1. off2[k] = off[k]
    BY <1>5, <1>7, Zenon
  <2>2. k < n => sent'[k + 1] = sent[k + 1]
    BY <1>3, <1>9, Zenon
  <2>3. Len(sent) = n
    BY <1>3, Zenon
  <2>4. \A x : HeadRead(x)' <=> HeadRead(x)
    BY <1>1, Zenon DEF HeadRead
  <2>5. \A x : HeadRead(x) <=> frame.fin = x.fin /\ frame.opcode = x.op
    BY Zenon DEF HeadRead
  <2>. QED BY <1>1, <1>5, <1>6, <1>9, <2>1, <2>2, <2>3, <2>4, Zenon DEF Place, HeadRead
<1>11. Located(off2, acc2, c, k)'
  BY <1>1, <1>5, <1>7, <1>8, <1>9, <1>10, Zenon DEF Located
<1>. QED BY <1>11, Zenon

LEMMA ArriveStream ==
  ASSUME ConnInv, StreamInv, Arrive
  PROVE  StreamInv'
<1>. SUFFICES ASSUME Conforming' PROVE (\E off, acc, c, k : Located(off, acc, c, k))'
  BY DEF StreamInv
<1>1. /\ sent' = sent /\ request' = request /\ written' = written
      /\ ws_req_str' = ws_req_str /\ step' = step /\ frame' = frame
      /\ delivered' = delivered /\ msg' = msg
  BY Zenon DEF Arrive, conn
<1>2. Unread' = Unread
  BY ArriveUnread, Zenon DEF ConnInv
<1>3. PICK off, acc, c, k : Located(off, acc, c, k)
  BY <1>1, SameConforming, Zenon DEF StreamInv
<1>4. Place(off, c, k)'
  BY <1>1, <1>3, Zenon DEF Located, Place, HeadRead
<1>5. Located(off, acc, c, k)'
  BY <1>1, <1>2, <1>3, <1>4, Zenon DEF Located
<1>. QED BY <1>5, Zenon

(* A callback leaves the frames where they lie.                            *)
LEMMA ReadLayout ==
  ASSUME TypeInv, inbuf' = <<>>, socket' = socket, sent' = sent,
         NEW off, NEW c, NEW k \in Nat, Layout(off, c, sent, Unread), k = Len(inbuf)
  PROVE  Layout(off, c + k, sent', Unread')
<1>1. sent \in Seq(FrameSet) /\ Unread \in Seq(Sym)
  BY UnreadType, Zenon DEF TypeInv
<1>2. /\ Unread' \in Seq(Sym) /\ Len(Unread) = k + Len(Unread')
      /\ \A i \in 1 .. Len(Unread') : Unread'[i] = Unread[k + i]
  BY ReadUnread, Zenon
<1>3. PICK v \in Seq(Sym) : v = Unread'
  BY <1>2, Zenon
<1>4. Len(Unread) = k + Len(v) /\ \A i \in 1 .. Len(v) : v[i] = Unread[k + i]
  BY <1>2, <1>3, Zenon
<1>5. Layout(off, c + k, sent, v)
  BY ONLY <1>1, <1>4, LayoutRead, Layout(off, c, sent, Unread), v \in Seq(Sym), k \in Nat, Zenon
<1>. QED BY <1>3, <1>5, Zenon

LEMMA RequestReadStream ==
  ASSUME ConnInv, StreamInv, RequestRead
  PROVE  StreamInv'
<1>. SUFFICES ASSUME Conforming' PROVE (\E off, acc, c, k : Located(off, acc, c, k))'
  BY DEF StreamInv
<1>1. /\ sent' = sent /\ request' = request /\ ws_req_str' = ws_req_str \o inbuf
      /\ step = "ZERO" /\ step' = step /\ inbuf' = <<>> /\ socket' = socket
      /\ delivered' = delivered /\ msg' = msg
  BY Zenon DEF RequestRead
<1>2. ConnInv' /\ TypeInv
  BY RequestReadInv, Zenon DEF ConnInv
<1>3. /\ written = <<>> /\ Len(inbuf) = 1 /\ Len(ws_req_str') = Len(ws_req_str) + 1
      /\ Len(ws_req_str) \in Nat /\ Len(request) \in Nat
  BY <1>1, RequestReadFacts, Zenon
<1>4. PICK off, acc, c, k : Located(off, acc, c, k)
  BY <1>1, SameConforming, Zenon DEF StreamInv
<1>5. /\ k = 0 /\ c = Len(ws_req_str) - Len(request)
      /\ Layout(off, c, sent, Unread)
  BY <1>3, <1>4, Zenon DEF Located, Place
<1>6. Layout(off, c + 1, sent', Unread')
  BY <1>1, <1>2, <1>3, <1>5, ReadLayout, 1 \in Nat, Zenon
<1>7. c + 1 = Len(ws_req_str') - Len(request')
  <2>1. PICK a \in Nat, b \in Nat : a = Len(ws_req_str) /\ b = Len(request)
    BY <1>3, Zenon
  <2>2. c = a - b /\ Len(ws_req_str') = a + 1 /\ Len(request') = b
    BY <1>1, <1>3, <1>5, <2>1, Zenon
  <2>. QED BY ONLY <2>2, a \in Nat, b \in Nat, SMT
<1>8. written' # <<>> => c + 1 = 0 /\ Len(written') = 1
  <2>. SUFFICES ASSUME written' # <<>> PROVE c + 1 = 0 /\ Len(written') = 1
    OBVIOUS
  <2>1. ws_req_str' = request' /\ Len(written') = 1
    BY <1>1, <1>2, Zenon DEF ConnInv, Answered
  <2>2. c + 1 = Len(request') - Len(request') /\ Len(request') \in Nat
    BY <1>1, <1>3, <1>7, <2>1, Zenon
  <2>3. c + 1 = 0
    BY ONLY <2>2, SMT
  <2>. QED BY <2>1, <2>3, Zenon
<1>9. ~(Len(written') >= 2)
  <2>1. CASE written' # <<>>
    <3>1. Len(written') = 1
      BY <1>8, <2>1, Zenon
    <3>. QED BY <3>1
  <2>2. CASE written' = <<>>
    BY <2>2
  <2>. QED BY <2>1, <2>2
<1>10. Place(off, c + 1, k)'
  BY <1>1, <1>5, <1>7, <1>8, <1>9, Zenon DEF Place
<1>11. Located(off, acc, c + 1, k)'
  BY <1>1, <1>4, <1>6, <1>10, Zenon DEF Located
<1>. QED BY <1>11, Zenon

LEMMA ResponseWrittenStream ==
  ASSUME ConnInv, StreamInv, ResponseWritten
  PROVE  StreamInv'
<1>. SUFFICES ASSUME Conforming' PROVE (\E off, acc, c, k : Located(off, acc, c, k))'
  BY DEF StreamInv
<1>1. /\ sent' = sent /\ request' = request /\ written' = written
      /\ ws_req_str' = ws_req_str /\ step = "ZERO" /\ step' = "ONE" /\ written # <<>>
      /\ inbuf' = inbuf /\ socket' = socket /\ delivered' = delivered /\ msg' = msg
  BY Zenon DEF ResponseWritten, FrameRecvLoop, Goto
<1>2. PICK off, acc, c, k : Located(off, acc, c, k)
  BY <1>1, SameConforming, Zenon DEF StreamInv
<1>3. k = 0 /\ c = 0 /\ Layout(off, c, sent, Unread)
  BY <1>1, <1>2, Zenon DEF Located, Place
<1>4. off[k] = c
  BY <1>3, Zenon DEF Layout
<1>5. ~(Len(written') >= 2)
  <2>1. Len(written') = 1
    BY <1>1, Zenon DEF ConnInv, Answered
  <2>. QED BY <2>1
<1>6. Place(off, c, k)'
  BY <1>1, <1>4, <1>5, Zenon DEF Place
<1>7. Unread' = Unread
  BY <1>1, Zenon DEF Unread
<1>8. Located(off, acc, c, k)'
  BY <1>1, <1>2, <1>6, <1>7, Zenon DEF Located
<1>. QED BY <1>8, Zenon

(* What a frame adds to the messages is what the reader adds to them.      *)
LEMMA WholeStream ==
  ASSUME ConnInv, Conforming, NEW acc, Accounted(acc, sent),
         NEW k \in Nat, k < Len(sent), delivered = acc[k].whole, msg = acc[k].part,
         NEW fr \in FrameFieldsT, fr.fin = sent[k + 1].fin, fr.opcode = sent[k + 1].op,
         Payload(fr) = sent[k + 1].data, NEW here, NEW m, Whole(fr, here, m)
  PROVE  /\ delivered' = acc[k + 1].whole /\ msg' = acc[k + 1].part
         /\ \/ written' = written /\ step' = "ONE"
            \/ /\ IsClose(sent[k + 1]) /\ k + 1 = Len(sent)
               /\ written' = Append(written, CloseFrame) /\ step' = here
<1>1. sent \in Seq(FrameSet)
  BY Zenon DEF ConnInv, TypeInv
<1>2. PICK f \in FrameSet : /\ f = sent[k + 1]
                            /\ IsControl(f) => f.fin = 1
                            /\ IsClose(f) => k + 1 = Len(sent)
  <2>1. /\ sent[k + 1] \in FrameSet
        /\ IsControl(sent[k + 1]) => sent[k + 1].fin = 1
        /\ IsClose(sent[k + 1]) => k + 1 = Len(sent)
    BY <1>1, ConformingFacts, Zenon
  <2>. QED BY <2>1, Zenon
<1>3. acc[k] \in Books /\ acc[k + 1] = AccStep(acc[k], f)
  <2>1. k \in 0 .. Len(sent) /\ k + 1 \in 1 .. Len(sent) /\ (k + 1) - 1 = k
    BY <1>1, LenProperties, SMT
  <2>2. acc \in [0 .. Len(sent) -> Books]
    BY Zenon DEF Accounted
  <2>3. acc[k + 1] = AccStep(acc[(k + 1) - 1], sent[k + 1])
    BY <2>1, Zenon DEF Accounted
  <2>. QED BY <1>2, <2>1, <2>2, <2>3, Zenon
<1>4. PICK a \in Books : a = acc[k] /\ acc[k + 1] = AccStep(a, f)
  BY <1>3, Zenon
<1>11. PICK b : b = acc[k + 1]
  OBVIOUS
<1>5. fr.fin = f.fin /\ fr.opcode = f.op /\ Payload(fr) = f.data /\ f.fin \in {0, 1}
  <2>1. f.fin \in {0, 1}
    BY ONLY f \in FrameSet, FrameFields, SMT
  <2>. QED BY <1>2, <2>1, Zenon
<1>12. /\ IsControl(f) => b = a
       /\ ~IsControl(f) /\ f.fin = 0 => b.whole = a.whole /\ b.part = a.part \o f.data
       /\ ~IsControl(f) /\ f.fin = 1 =>
            b.whole = Append(a.whole, a.part \o f.data) /\ b.part = <<>>
  <2>1. b = AccStep(a, f)
    BY <1>4, <1>11, Zenon
  <2>2. /\ IsControl(f) => AccStep(a, f) = a
        /\ ~IsControl(f) /\ f.fin = 0 =>
             AccStep(a, f).whole = a.whole /\ AccStep(a, f).part = a.part \o f.data
        /\ ~IsControl(f) /\ f.fin = 1 =>
             /\ AccStep(a, f).whole = Append(a.whole, a.part \o f.data)
             /\ AccStep(a, f).part = <<>>
    BY ONLY f \in FrameSet, a \in Books, AccStepFacts, Zenon
  <2>. QED BY <2>1, <2>2, Zenon
<1>6. delivered = a.whole /\ msg = a.part
  BY <1>4, <1>11, Zenon
<1>7. CASE f.fin = 1 /\ f.op = 8
  <2>1. fr.fin = 1 /\ fr.opcode = 8 /\ IsClose(f) /\ IsControl(f)
    BY <1>5, <1>7, Zenon DEF IsClose, IsControl
  <2>2. b = a
    BY <1>12, <2>1, Zenon
  <2>3. /\ written' = Append(written, CloseFrame) /\ step' = here
        /\ msg' = msg /\ delivered' = delivered
    BY <2>1, WholeFacts, Zenon DEF ConnInv
  <2>. QED BY <1>2, <1>4, <1>11, <1>6, <2>1, <2>2, <2>3, Zenon
<1>8. CASE f.fin = 1 /\ f.op \in {9, 10}
  <2>1. fr.fin = 1 /\ fr.opcode \in {9, 10} /\ IsControl(f)
    BY <1>5, <1>8, Zenon DEF IsControl
  <2>2. b = a
    BY <1>12, <2>1, Zenon
  <2>3. fr.opcode # 8 /\ fr.fin # 0
    BY ONLY <2>1, SMT
  <2>4. /\ written' = written /\ step' = "ONE"
        /\ msg' = msg /\ delivered' = delivered
    BY <2>1, <2>3, Zenon DEF Whole, Goto
  <2>. QED BY <1>4, <1>11, <1>6, <2>2, <2>4, Zenon
<1>9. CASE ~IsControl(f)
  <2>1. fr.opcode \notin {8, 9, 10} /\ fr.opcode # 8 /\ fr.opcode # 9 /\ fr.opcode # 10
    BY <1>5, <1>9, Zenon DEF IsControl
  <2>2. OnFrameReceived(fr) /\ step' = "ONE" /\ written' = written
    BY <2>1, Zenon DEF Whole, Goto
  <2>3. CASE f.fin = 1
    <3>1. fr.fin = 1
      BY <1>5, <2>3, Zenon
    <3>2. delivered' = Append(delivered, msg \o f.data) /\ msg' = <<>>
      BY <1>5, <2>2, <3>1, Zenon DEF OnFrameReceived
    <3>3. b.whole = Append(a.whole, a.part \o f.data) /\ b.part = <<>>
      BY <1>12, <1>9, <2>3, Zenon
    <3>. QED BY <1>4, <1>11, <1>6, <2>2, <3>2, <3>3, Zenon
  <2>4. CASE f.fin = 0
    <3>1. fr.fin # 1
      BY <1>5, <2>4
    <3>2. delivered' = delivered /\ msg' = msg \o f.data
      BY <1>5, <2>2, <3>1, Zenon DEF OnFrameReceived
    <3>3. b.whole = a.whole /\ b.part = a.part \o f.data
      BY <1>12, <1>9, <2>4, Zenon
    <3>. QED BY <1>4, <1>11, <1>6, <2>2, <3>2, <3>3, Zenon
  <2>. QED BY <1>5, <2>3, <2>4, Zenon
<1>10. IsControl(f) => f.fin = 1 /\ (f.op = 8 \/ f.op \in {9, 10})
  BY <1>2, Zenon DEF IsControl
<1>. QED BY <1>7, <1>8, <1>9, <1>10, Zenon

(* The reader is about to read in frame k + 1, p bytes into it.            *)
LEMMA ReadSlice ==
  ASSUME ConnInv, NEW off, NEW c, Layout(off, c, sent, Unread),
         NEW k \in Nat, k < Len(sent), NEW p \in Nat, c = off[k] + p,
         inbuf' = <<>>, socket' = socket,
         p + Len(inbuf) <= Len(Wire(sent[k + 1]))
  PROVE  \A i \in 1 .. Len(inbuf) : inbuf[i] = Wire(sent[k + 1])[p + i]
<1>1. sent \in Seq(FrameSet) /\ TypeInv
  BY Zenon DEF ConnInv, TypeInv
<1>2. PICK l \in Nat, w \in Nat : l = Len(inbuf) /\ w = Len(Wire(sent[k + 1]))
  <2>1. k + 1 \in 1 .. Len(sent)
    BY <1>1, LenProperties, SMT
  <2>2. sent[k + 1] \in FrameSet
    BY <1>1, <2>1, ElementOfSeq, Zenon
  <2>. QED BY <1>1, <2>2, UnreadType, WireAt, Zenon
<1>3. SUFFICES ASSUME NEW i \in 1 .. l PROVE inbuf[i] = Wire(sent[k + 1])[p + i]
  BY <1>2, Zenon
<1>4. inbuf[i] = Unread[i]
  BY <1>1, <1>2, UnreadType, Zenon
<1>5. i \in Nat /\ i > 0 /\ p + i <= w
  <2>1. p + l <= w
    BY <1>2, Zenon
  <2>. QED BY ONLY <2>1, i \in 1 .. l, p \in Nat, l \in Nat, w \in Nat, SMT
<1>6. p + i <= Len(Wire(sent[k + 1]))
  BY <1>2, <1>5, Zenon
<1>7. Unread[i] = Wire(sent[k + 1])[p + i]
  BY ONLY <1>1, <1>5, <1>6, LayoutSlice, Layout(off, c, sent, Unread), k \in Nat,
     k < Len(sent), p \in Nat, c = off[k] + p, SMTT(30)
<1>. QED BY <1>4, <1>7, Zenon

LEMMA FormFacts ==
  ASSUME NEW f \in FrameSet
  PROVE  /\ Ext(f) \in {0, 2, 8} /\ Ext(f) \in Nat /\ f.form \in {7, 16, 64}
         /\ f.form = 7 => Ext(f) = 0 /\ Len7(f) = Len(f.data) /\ Len7(f) <= 125
         /\ f.form = 16 => Ext(f) = 2 /\ Len7(f) = 126
         /\ f.form = 64 => Ext(f) = 8 /\ Len7(f) = 127
<1>1. f.form \in {7, 16, 64} /\ (f.form = 7 => Len(f.data) <= 125)
  BY ONLY f \in FrameSet, FrameFields, Zenon
<1>. QED BY ONLY <1>1, SMT DEF Ext, Len7

(* Before a callback of the steps ONE to FOUR.                             *)
LEMMA CallbackStream ==
  ASSUME ConnInv, StreamInv, Callback, step # "ZERO", ntoread > 0, Conforming'
  PROVE  /\ Conforming /\ written # <<>> /\ Len(written) < 2
         /\ \E off, acc, c, k :
              /\ Located(off, acc, c, k)
              /\ Layout(off, c + Len(inbuf), sent', Unread')
              /\ k \in Nat /\ k <= Len(sent) /\ off[k] \in Nat
              /\ c = off[k] => k < Len(sent)
<1>1. /\ written # <<>> /\ inbuf' = <<>> /\ socket' = socket /\ sent' = sent
      /\ Len(inbuf) = ntoread
  BY CallbackFacts, Zenon
<1>2. TypeInv /\ sent \in Seq(FrameSet) /\ ntoread \in Nat
  BY Zenon DEF ConnInv, TypeInv
<1>3. Conforming
  BY <1>1, SameConforming, Zenon
<1>4. PICK off, acc, c, k : Located(off, acc, c, k)
  BY <1>3, Zenon DEF StreamInv
<1>5. /\ Layout(off, c, sent, Unread) /\ k \in 0 .. Len(sent) /\ Place(off, c, k)
  BY <1>4, Zenon DEF Located
<1>6. Layout(off, c + Len(inbuf), sent', Unread')
  BY <1>1, <1>2, <1>5, ReadLayout, Zenon
<1>7. Unread \in Seq(Sym) /\ Len(Unread) > 0
  <2>1. /\ Unread \in Seq(Sym) /\ Len(Unread) = Len(inbuf) + Len(socket)
        /\ Len(inbuf) \in Nat /\ Len(socket) \in Nat
    BY <1>2, UnreadType, Zenon
  <2>2. Len(inbuf) > 0
    BY <1>1, Zenon
  <2>3. Len(Unread) > 0
    BY ONLY <2>1, <2>2, SMT
  <2>. QED BY <2>1, <2>3, Zenon
<1>8. c = off[k] => k < Len(sent)
  BY ONLY <1>2, <1>5, <1>7, LayoutMore, Zenon
<1>9. Len(sent) \in Nat /\ k \in Nat /\ k <= Len(sent)
  <2>1. Len(sent) \in Nat
    BY <1>2, LenProperties, Zenon
  <2>. QED BY ONLY <1>5, <2>1, SMT
<1>10. off[k] \in Nat
  <2>1. off \in [0 .. Len(sent) -> Nat]
    BY <1>5, Zenon DEF Layout
  <2>. QED BY <1>5, <2>1, Zenon
<1>11. ~(Len(written) >= 2)
  <2>. SUFFICES ASSUME Len(written) >= 2 PROVE FALSE
    OBVIOUS
  <2>1. k = Len(sent) /\ c = off[k]
    BY <1>5, Zenon DEF Place
  <2>2. k < k /\ k \in Nat
    BY <1>8, <1>9, <2>1, Zenon
  <2>. QED BY ONLY <2>2, SMT
<1>12. Len(written) \in Nat
  BY ClosesWritten, Zenon
<1>13. Len(written) < 2
  BY ONLY <1>11, <1>12, SMT
<1>. QED BY <1>1, <1>3, <1>4, <1>6, <1>8, <1>9, <1>10, <1>13, Zenon

LEMMA ReadHeaderStream ==
  ASSUME ConnInv, StreamInv, ReadHeader
  PROVE  StreamInv'
<1>. SUFFICES ASSUME Conforming' PROVE (\E off, acc, c, k : Located(off, acc, c, k))'
  BY DEF StreamInv
<1>1. /\ Callback /\ step = "ONE" /\ frame' = ParseFrameHeader(inbuf, frame)
      /\ written' = written /\ msg' = msg /\ delivered' = delivered
  BY Zenon DEF ReadHeader
<1>2. step # "ZERO"
  BY <1>1
<1>3. /\ inbuf \in Seq(Byte) /\ inbuf' = <<>> /\ socket' = socket /\ sent' = sent
      /\ ntoread = Len(inbuf)
  BY <1>1, <1>2, CallbackFacts, Zenon
<1>4. /\ Len(inbuf) = 2 /\ \/ frame'.payload_len <= 125 /\ step' = "THREE"
                           \/ frame'.payload_len > 125 /\ step' = "TWO"
  BY ReadHeaderInv, Zenon
<1>5. ntoread > 0
  <2>1. ntoread = 2
    BY <1>3, <1>4, Zenon
  <2>. QED BY <2>1
<1>6. Conforming /\ written # <<>> /\ Len(written) < 2
  BY <1>1, <1>2, <1>5, CallbackStream, Zenon
<1>7. PICK off, acc, c, k :
        /\ Located(off, acc, c, k) /\ Layout(off, c + 2, sent', Unread')
        /\ k \in Nat /\ off[k] \in Nat
        /\ c = off[k] => k < Len(sent)
  BY <1>1, <1>2, <1>4, <1>5, CallbackStream, Zenon
<1>8. c = off[k] /\ k < Len(sent) /\ Layout(off, c, sent, Unread)
  BY <1>1, <1>7, Zenon DEF Located, Place
<1>9. sent \in Seq(FrameSet) /\ frame \in FrameFieldsT
  BY Zenon DEF ConnInv, TypeInv
<1>10. PICK f \in FrameSet : f = sent[k + 1] /\ f.mask = 1
  BY <1>6, <1>7, <1>8, <1>9, ConformingFacts, Zenon
<1>11. /\ Len(Wire(f)) = 6 + Ext(f) + Len(f.data) /\ Ext(f) \in Nat /\ Len(f.data) \in Nat
       /\ Len(Wire(f)) \in Nat
  BY ONLY <1>10, f \in FrameSet, WireAt, FormFacts, FrameFields, SMT
<1>12. \A i \in 1 .. 2 : inbuf[i] = Wire(f)[i]
  <2>1. off[k] + 0 = off[k] /\ 0 \in Nat /\ 0 + 2 <= Len(Wire(f))
    BY ONLY <1>7, <1>11, SMT
  <2>2. \A i \in 1 .. Len(inbuf) : inbuf[i] = Wire(sent[k + 1])[0 + i]
    BY <1>3, <1>4, <1>7, <1>8, <1>10, <2>1, ReadSlice, ZenonT(40)
  <2>3. \A i \in 1 .. 2 : 0 + i = i
    OBVIOUS
  <2>. QED BY <1>4, <1>10, <2>2, <2>3, Zenon
<1>13. frame'.fin = f.fin /\ frame'.opcode = f.op /\ frame'.payload_len = Len7(f)
  <2>1. /\ ParseFrameHeader(inbuf, frame).fin = f.fin
        /\ ParseFrameHeader(inbuf, frame).opcode = f.op
        /\ ParseFrameHeader(inbuf, frame).payload_len = Len7(f)
    BY ONLY <1>3, <1>4, <1>9, <1>10, <1>12, f \in FrameSet, HeaderRead, Zenon
  <2>. QED BY <1>1, <2>1, Zenon
<1>14. /\ c + 2 = off[k] + 2 /\ off[k] + 2 = off[k] + (2 + 0)
       /\ ~(Len(written) >= 2)
  <2>1. PICK a \in Nat : a = off[k]
    BY <1>7, Zenon
  <2>2. a + 2 = a + (2 + 0)
    OBVIOUS
  <2>3. Len(written) \in Nat
    BY ClosesWritten, Zenon
  <2>4. ~(Len(written) >= 2)
    BY ONLY <1>6, <2>3, SMT
  <2>. QED BY <1>8, <2>1, <2>2, <2>4, Zenon
<1>15. \/ step' = "THREE" /\ frame'.payload_len = Len(f.data) /\ Ext(f) = 0
       \/ step' = "TWO" /\ f.form # 7
  <2>1. /\ f.form \in {7, 16, 64}
        /\ f.form = 7 => Ext(f) = 0 /\ Len7(f) = Len(f.data) /\ Len7(f) <= 125
        /\ f.form = 16 => Len7(f) = 126
        /\ f.form = 64 => Len7(f) = 127
    BY ONLY f \in FrameSet, FormFacts, ZenonT(40)
  <2>2. CASE f.form = 7
    <3>1. Ext(f) = 0 /\ Len7(f) = Len(f.data) /\ Len7(f) <= 125
      BY <2>1, <2>2, Zenon
    <3>2. ~(Len7(f) > 125)
      BY ONLY <1>11, <3>1, SMT
    <3>. QED BY <1>4, <1>13, <3>1, <3>2, Zenon
  <2>3. CASE f.form # 7
    <3>1. Len7(f) = 126 \/ Len7(f) = 127
      BY <2>1, <2>3, Zenon
    <3>2. ~(Len7(f) <= 125)
      BY ONLY <3>1, SMT
    <3>. QED BY <1>4, <1>13, <2>3, <3>2, Zenon
  <2>. QED BY <2>2, <2>3, Zenon
<1>16. Place(off, c + 2, k)'
  <2>1. /\ frame'.fin = sent'[k + 1].fin /\ frame'.opcode = sent'[k + 1].op
        /\ frame'.payload_len = Len7(sent'[k + 1]) /\ k < Len(sent')
        /\ sent'[k + 1] = f /\ written' # <<>> /\ ~(Len(written') >= 2)
    BY <1>1, <1>3, <1>6, <1>8, <1>10, <1>13, <1>14, Zenon
  <2>2. CASE step' = "THREE" /\ frame'.payload_len = Len(f.data) /\ Ext(f) = 0
    <3>1. c + 2 = off[k] + (2 + Ext(sent'[k + 1])) /\ frame'.payload_len = Len(sent'[k + 1].data)
      BY <1>14, <2>1, <2>2, Zenon
    <3>. QED BY <2>1, <2>2, <3>1, Zenon DEF Place, HeadRead
  <2>3. CASE step' = "TWO" /\ f.form # 7
    <3>1. c + 2 = off[k] + 2 /\ sent'[k + 1].form # 7
      BY <1>14, <2>1, <2>3, Zenon
    <3>. QED BY <2>1, <2>3, <3>1, Zenon DEF Place, HeadRead
  <2>. QED BY <1>15, <2>2, <2>3, Zenon
<1>17. Located(off, acc, c + 2, k)'
  BY <1>1, <1>3, <1>7, <1>16, Zenon DEF Located
<1>. QED BY <1>17, Zenon

LEMMA ReadLengthStream ==
  ASSUME ConnInv, StreamInv, ReadLength
  PROVE  StreamInv'
<1>. SUFFICES ASSUME Conforming' PROVE (\E off, acc, c, k : Located(off, acc, c, k))'
  BY DEF StreamInv
<1>1. /\ Callback /\ step = "TWO" /\ frame' = ParseLength(inbuf, frame)
      /\ written' = written /\ msg' = msg /\ delivered' = delivered /\ step' = "THREE"
  BY Zenon DEF ReadLength, Goto
<1>2. step # "ZERO"
  BY <1>1
<1>3. /\ inbuf \in Seq(Byte) /\ inbuf' = <<>> /\ socket' = socket /\ sent' = sent
      /\ ntoread = Len(inbuf)
  BY <1>1, <1>2, CallbackFacts, Zenon
<1>4. \/ frame.payload_len = 126 /\ ntoread = 2
      \/ frame.payload_len = 127 /\ ntoread = 8
  BY <1>1, Zenon DEF ConnInv, Watermarks
<1>5. ntoread > 0
  BY ONLY <1>4, SMT
<1>6. Conforming /\ written # <<>> /\ Len(written) < 2
  BY <1>1, <1>2, <1>5, CallbackStream, Zenon
<1>7. PICK off, acc, c, k :
        /\ Located(off, acc, c, k) /\ Layout(off, c + Len(inbuf), sent', Unread')
        /\ k \in Nat /\ off[k] \in Nat
  BY <1>1, <1>2, <1>5, CallbackStream, Zenon
<1>8. /\ k < Len(sent) /\ sent[k + 1].form # 7 /\ c = off[k] + 2
      /\ frame.fin = sent[k + 1].fin /\ frame.opcode = sent[k + 1].op
      /\ frame.payload_len = Len7(sent[k + 1]) /\ Layout(off, c, sent, Unread)
  BY <1>1, <1>7, Zenon DEF Located, Place, HeadRead
<1>9. sent \in Seq(FrameSet) /\ frame \in FrameFieldsT
  BY Zenon DEF ConnInv, TypeInv
<1>10. PICK f \in FrameSet : f = sent[k + 1] /\ f.mask = 1 /\ f.form # 7
  BY <1>6, <1>7, <1>8, <1>9, ConformingFacts, Zenon
<1>11. /\ Len(Wire(f)) = 6 + Ext(f) + Len(f.data) /\ Ext(f) \in Nat /\ Len(f.data) \in Nat
       /\ Len(Wire(f)) \in Nat
  BY ONLY <1>10, f \in FrameSet, WireAt, FormFacts, FrameFields, SMT
<1>12. Len(inbuf) = Ext(f)
  <2>1. /\ f.form \in {7, 16, 64}
        /\ f.form = 16 => Ext(f) = 2 /\ Len7(f) = 126
        /\ f.form = 64 => Ext(f) = 8 /\ Len7(f) = 127
    BY ONLY f \in FrameSet, FormFacts, ZenonT(40)
  <2>2. frame.payload_len = Len7(f)
    BY <1>8, <1>10, Zenon
  <2>3. ntoread = Ext(f)
    BY ONLY <1>4, <1>10, <2>1, <2>2, SMT
  <2>. QED BY <1>3, <2>3, Zenon
<1>13. \A i \in 1 .. Ext(f) : inbuf[i] = Wire(f)[2 + i]
  <2>1. 2 \in Nat /\ 2 + Ext(f) <= Len(Wire(f))
    BY ONLY <1>11, SMT
  <2>2. \A i \in 1 .. Len(inbuf) : inbuf[i] = Wire(sent[k + 1])[2 + i]
    BY <1>3, <1>7, <1>8, <1>10, <1>12, <2>1, ReadSlice, Zenon
  <2>. QED BY <1>10, <1>12, <2>2, Zenon
<1>14. frame'.payload_len = Len(f.data) /\ frame'.fin = f.fin /\ frame'.opcode = f.op
  <2>1. frame.payload_len = Len7(f)
    BY <1>8, <1>10, Zenon
  <2>2. ParseLength(inbuf, frame).payload_len = Len(f.data)
    BY ONLY <1>3, <1>9, <1>10, <1>12, <1>13, <2>1, f \in FrameSet, LengthRead, Zenon
  <2>3. frame'.fin = frame.fin /\ frame'.opcode = frame.opcode
    BY ReadLengthInv, Zenon
  <2>. QED BY <1>1, <1>8, <1>10, <2>2, <2>3, Zenon
<1>15. /\ c + Len(inbuf) = off[k] + (2 + Ext(f)) /\ ~(Len(written) >= 2)
  <2>1. PICK a \in Nat, e \in Nat : a = off[k] /\ e = Ext(f)
    BY <1>7, <1>11, Zenon
  <2>2. (a + 2) + e = a + (2 + e)
    OBVIOUS
  <2>3. Len(written) \in Nat
    BY ClosesWritten, Zenon
  <2>4. ~(Len(written) >= 2)
    BY ONLY <1>6, <2>3, SMT
  <2>. QED BY <1>8, <1>12, <2>1, <2>2, <2>4, Zenon
<1>0. PICK d : d = c + Len(inbuf)
  OBVIOUS
<1>16. Place(off, d, k)'
  <2>1. /\ frame'.fin = sent'[k + 1].fin /\ frame'.opcode = sent'[k + 1].op
        /\ frame'.payload_len = Len(sent'[k + 1].data) /\ k < Len(sent')
        /\ d = off[k] + (2 + Ext(sent'[k + 1]))
        /\ written' # <<>> /\ ~(Len(written') >= 2)
    BY <1>0, <1>1, <1>3, <1>6, <1>8, <1>10, <1>14, <1>15, Zenon
  <2>. QED BY <1>1, <2>1, Zenon DEF Place, HeadRead
<1>17. Located(off, acc, d, k)'
  BY <1>0, <1>1, <1>3, <1>7, <1>16, Zenon DEF Located
<1>. QED BY <1>17, Zenon

(* Behind a whole frame the reader stands at its end.                      *)
LEMMA WholeLocated ==
  ASSUME ConnInv, Conforming, NEW off, NEW acc, NEW c, NEW k \in Nat, k < Len(sent),
         Accounted(acc, sent), delivered = acc[k].whole, msg = acc[k].part,
         NEW fr \in FrameFieldsT, fr.fin = sent[k + 1].fin, fr.opcode = sent[k + 1].op,
         Payload(fr) = sent[k + 1].data, NEW here \in {"THREE", "FOUR"}, NEW m,
         Whole(fr, here, m),
         sent' = sent, Layout(off, c, sent', Unread'), c = off[k + 1],
         written # <<>>, Len(written) < 2
  PROVE  Located(off, acc, c, k + 1)'
<1>1. /\ delivered' = acc[k + 1].whole /\ msg' = acc[k + 1].part
      /\ \/ written' = written /\ step' = "ONE"
         \/ /\ IsClose(sent[k + 1]) /\ k + 1 = Len(sent)
            /\ written' = Append(written, CloseFrame) /\ step' = here
  BY WholeStream, Zenon
<1>2. sent \in Seq(FrameSet) /\ written \in Seq({Response, CloseFrame})
  BY Zenon DEF ConnInv, TypeInv
<1>3. /\ Len(written) \in Nat /\ Len(Append(written, CloseFrame)) = Len(written) + 1
      /\ Len(written) # 0
  <2>1. Len(written) \in Nat /\ Len(written) # 0
    BY <1>2, LenProperties, EmptySeq, Zenon
  <2>2. CloseFrame \in {Response, CloseFrame}
    BY Zenon
  <2>3. Len(Append(written, CloseFrame)) = Len(written) + 1
    BY ONLY <1>2, <2>2, AppendProperties, SMT
  <2>. QED BY <2>1, <2>3, Zenon
<1>4. Len(written) = 1 /\ ~(Len(written) >= 2) /\ Len(Append(written, CloseFrame)) = 2
  <2>1. PICK l \in Nat, q \in Nat : l = Len(written) /\ q = Len(Append(written, CloseFrame))
    <3>1. Len(written) + 1 \in Nat
      BY ONLY <1>3, SMT
    <3>. QED BY <1>3, <3>1, Zenon
  <2>2. l < 2 /\ l # 0 /\ q = l + 1
    BY <1>3, <2>1, Zenon
  <2>3. l = 1 /\ ~(l >= 2) /\ q = 2
    BY ONLY <2>2, l \in Nat, SMT
  <2>. QED BY <2>1, <2>3, Zenon
<1>5. k + 1 \in 0 .. Len(sent) /\ k + 1 > 0
  <2>1. Len(sent) \in Nat
    BY <1>2, LenProperties, Zenon
  <2>. QED BY ONLY <2>1, k \in Nat, k < Len(sent), SMT
<1>6. CASE written' = written /\ step' = "ONE"
  <2>1. Place(off, c, k + 1)'
    BY <1>4, <1>6, Zenon DEF Place
  <2>. QED BY <1>1, <1>5, <2>1, Zenon DEF Located
<1>7. CASE /\ IsClose(sent[k + 1]) /\ k + 1 = Len(sent)
           /\ written' = Append(written, CloseFrame) /\ step' = here
  <2>1. Len(written') = 2 /\ written' # <<>> /\ ~(Len(written') < 2)
    <3>1. Len(written') = 2
      BY <1>4, <1>7, Zenon
    <3>2. written' # <<>> /\ ~(Len(written') < 2)
      BY ONLY <3>1, SMT
    <3>. QED BY <3>1, <3>2, Zenon
  <2>2. step' # "ZERO" /\ step' # "ONE" /\ step' # "TWO"
    <3>1. here # "ZERO" /\ here # "ONE" /\ here # "TWO"
      OBVIOUS
    <3>. QED BY <1>7, <3>1, Zenon
  <2>3. k + 1 = Len(sent') /\ IsClose(sent[k + 1])'
    BY <1>7, Zenon DEF IsClose
  <2>4. Place(off, c, k + 1)'
    BY <1>5, <2>1, <2>2, <2>3, Zenon DEF Place
  <2>. QED BY <1>1, <1>5, <2>4, Zenon DEF Located
<1>. QED BY <1>1, <1>6, <1>7, Zenon

LEMMA NextEnd ==
  ASSUME sent \in Seq(FrameSet), NEW off, NEW c, NEW u, Layout(off, c, sent, u),
         NEW k \in Nat, k < Len(sent)
  PROVE  off[k + 1] = off[k] + Len(Wire(sent[k + 1]))
<1>1. k + 1 \in 1 .. Len(sent) /\ (k + 1) - 1 = k
  BY LenProperties, SMT
<1>2. off[k + 1] = off[(k + 1) - 1] + Len(Wire(sent[k + 1]))
  BY <1>1, Zenon DEF Layout
<1>. QED BY <1>1, <1>2, Zenon

LEMMA ReadKeyStream ==
  ASSUME ConnInv, StreamInv, ReadKey
  PROVE  StreamInv'
<1>. SUFFICES ASSUME Conforming' PROVE (\E off, acc, c, k : Located(off, acc, c, k))'
  BY DEF StreamInv
<1>1. Callback /\ step = "THREE"
  BY Zenon DEF ReadKey
<1>2. step # "ZERO"
  BY <1>1
<1>3. /\ inbuf \in Seq(Byte) /\ inbuf' = <<>> /\ socket' = socket /\ sent' = sent
      /\ ntoread = Len(inbuf)
  BY <1>1, <1>2, CallbackFacts, Zenon
<1>4. /\ Len(inbuf) = 4 /\ frame' \in FrameFieldsT /\ frame'.masking_key = inbuf
      /\ frame'.fin = frame.fin /\ frame'.opcode = frame.opcode
      /\ frame'.payload_len = frame.payload_len
      /\ IF frame.payload_len > 0
           THEN /\ step' = "FOUR"
                /\ UNCHANGED <<written, msg, delivered, pongs>>
           ELSE Whole(frame', "THREE", 4)
  BY ReadKeyInv, Zenon
<1>5. ntoread > 0
  <2>1. ntoread = 4
    BY <1>3, <1>4, Zenon
  <2>. QED BY <2>1
<1>6. Conforming /\ written # <<>> /\ Len(written) < 2
  BY <1>1, <1>2, <1>5, CallbackStream, Zenon
<1>7. PICK off, acc, c, k :
        /\ Located(off, acc, c, k) /\ Layout(off, c + 4, sent', Unread')
        /\ k \in Nat /\ off[k] \in Nat
  BY <1>1, <1>2, <1>4, <1>5, CallbackStream, Zenon
<1>8. /\ k < Len(sent) /\ c = off[k] + (2 + Ext(sent[k + 1]))
      /\ frame.fin = sent[k + 1].fin /\ frame.opcode = sent[k + 1].op
      /\ frame.payload_len = Len(sent[k + 1].data) /\ Layout(off, c, sent, Unread)
  BY <1>1, <1>6, <1>7, Zenon DEF Located, Place, HeadRead
<1>9. sent \in Seq(FrameSet)
  BY Zenon DEF ConnInv, TypeInv
<1>10. PICK f \in FrameSet : f = sent[k + 1] /\ f.mask = 1
  BY <1>6, <1>7, <1>8, <1>9, ConformingFacts, Zenon
<1>11. /\ Len(Wire(f)) = 6 + Ext(f) + Len(f.data) /\ Ext(f) \in Nat /\ Len(f.data) \in Nat
       /\ Len(Wire(f)) \in Nat
       /\ f.data \in Seq(Byte)
       /\ \A i \in 1 .. 4 : Wire(f)[2 + Ext(f) + i] = Key[i]
  <2>1. /\ Len(Wire(f)) = 6 + Ext(f) + Len(f.data) /\ Ext(f) \in Nat /\ Len(f.data) \in Nat
        /\ Len(Wire(f)) \in Nat
        /\ f.data \in Seq(Byte)
    BY ONLY <1>10, f \in FrameSet, WireAt, FormFacts, FrameFields, SMT
  <2>2. \A i \in 1 .. 4 : Wire(f)[2 + Ext(f) + i] = Key[i]
    BY ONLY <1>10, f \in FrameSet, WireAt, Zenon
  <2>. QED BY <2>1, <2>2, Zenon
<1>12. PICK a \in Nat, e \in Nat, l \in Nat, w \in Nat :
         a = off[k] /\ e = Ext(f) /\ l = Len(f.data) /\ w = Len(Wire(f)) /\ w = 6 + e + l
         /\ c = a + (2 + e)
  BY <1>7, <1>8, <1>10, <1>11, Zenon
<1>13. inbuf = Key
  <2>1. 2 + e \in Nat /\ (2 + e) + 4 <= w
    BY ONLY <1>12, e \in Nat, l \in Nat, SMTT(30)
  <2>2. PICK p \in Nat : p = 2 + e
    BY <2>1, Zenon
  <2>3. c = off[k] + p /\ p + Len(inbuf) <= Len(Wire(sent[k + 1]))
    BY <1>4, <1>10, <1>12, <2>2, <2>1, Zenon
  <2>4. /\ k \in Nat /\ k < Len(sent) /\ Layout(off, c, sent, Unread)
        /\ inbuf' = <<>> /\ socket' = socket
    BY <1>3, <1>7, <1>8, Zenon
  <2>5. \A i \in 1 .. Len(inbuf) : inbuf[i] = Wire(sent[k + 1])[p + i]
    BY ONLY ConnInv, <2>3, <2>4, p \in Nat, ReadSlice, ZenonT(40)
  <2>6. \A i \in 1 .. Len(inbuf) : inbuf[i] = Wire(sent[k + 1])[(2 + e) + i]
    BY <2>2, <2>5, Zenon
  <2>7. \A i \in 1 .. 4 : inbuf[i] = Key[i]
    BY <1>4, <1>10, <1>11, <1>12, <2>6, Zenon
  <2>8. Key \in Seq(Byte) /\ Len(Key) = 4
    BY KeysAssumption, Zenon
  <2>. QED BY ONLY <1>3, <1>4, <2>7, <2>8, SeqEqual, Zenon
<1>14. CASE frame.payload_len > 0
  <2>1. /\ step' = "FOUR" /\ written' = written /\ msg' = msg /\ delivered' = delivered
    BY <1>4, <1>14, Zenon
  <2>2. c + 4 = a + (6 + e)
    <3>1. c = a + (2 + e)
      BY <1>12, Zenon
    <3>. QED BY ONLY <3>1, a \in Nat, e \in Nat, SMT
  <2>3. Len(written) \in Nat
    BY ClosesWritten, Zenon
  <2>4. ~(Len(written) >= 2)
    BY ONLY <1>6, <2>3, SMT
  <2>5. /\ frame'.fin = sent'[k + 1].fin /\ frame'.opcode = sent'[k + 1].op
        /\ frame'.payload_len = Len(sent'[k + 1].data) /\ k < Len(sent')
        /\ c + 4 = off[k] + (6 + Ext(sent'[k + 1])) /\ frame'.masking_key = Key
        /\ written' # <<>> /\ ~(Len(written') >= 2)
    BY <1>3, <1>4, <1>6, <1>8, <1>10, <1>12, <1>13, <2>1, <2>2, <2>4, Zenon
  <2>6. Place(off, c + 4, k)'
    BY <2>1, <2>5, Zenon DEF Place, HeadRead
  <2>7. Located(off, acc, c + 4, k)'
    BY <1>3, <1>7, <2>1, <2>6, Zenon DEF Located
  <2>. QED BY <2>7, Zenon
<1>15. CASE ~(frame.payload_len > 0)
  <2>1. Whole(frame', "THREE", 4)
    BY <1>4, <1>15, Zenon
  <2>2. frame.payload_len = l
    BY <1>8, <1>10, <1>12, Zenon
  <2>3. l = 0
    BY ONLY <1>15, <2>2, l \in Nat, SMT
  <2>4. PICK fr \in FrameFieldsT : fr = frame'
    BY <1>4, Zenon
  <2>5. fr.fin = sent[k + 1].fin /\ fr.opcode = sent[k + 1].op /\ fr.payload_len = 0
    BY <1>4, <1>8, <2>2, <2>3, <2>4, Zenon
  <2>6. Payload(fr) = sent[k + 1].data
    <3>1. f.data = <<>>
      BY <1>11, <1>12, <2>3, EmptySeq, Zenon
    <3>2. ~(fr.payload_len > 0)
      BY ONLY <2>5, SMT
    <3>. QED BY <1>10, <3>1, <3>2, Zenon DEF Payload
  <2>7. c + 4 = off[k + 1]
    <3>1. off[k + 1] = a + w
      BY <1>7, <1>8, <1>9, <1>10, <1>12, NextEnd, Zenon
    <3>2. c + 4 = a + w
      BY ONLY <1>12, <2>3, a \in Nat, e \in Nat, l \in Nat, SMT
    <3>. QED BY <3>1, <3>2, Zenon
  <2>8. /\ Accounted(acc, sent) /\ delivered = acc[k].whole /\ msg = acc[k].part
    BY <1>7, Zenon DEF Located
  <2>9. Whole(fr, "THREE", 4) /\ "THREE" \in {"THREE", "FOUR"}
    BY <2>1, <2>4, Zenon
  <2>10. Located(off, acc, c + 4, k + 1)'
    BY <1>3, <1>6, <1>7, <1>8, <2>5, <2>6, <2>7, <2>8, <2>9, WholeLocated, Zenon
  <2>. QED BY <2>10, Zenon
<1>. QED BY <1>14, <1>15, Zenon

LEMMA ReadPayloadStream ==
  ASSUME ConnInv, StreamInv, ReadPayload
  PROVE  StreamInv'
<1>. SUFFICES ASSUME Conforming' PROVE (\E off, acc, c, k : Located(off, acc, c, k))'
  BY DEF StreamInv
<1>1. Callback /\ step = "FOUR"
  BY Zenon DEF ReadPayload
<1>2. step # "ZERO"
  BY <1>1
<1>3. /\ inbuf \in Seq(Byte) /\ inbuf' = <<>> /\ socket' = socket /\ sent' = sent
      /\ ntoread = Len(inbuf)
  BY <1>1, <1>2, CallbackFacts, Zenon
<1>4. /\ Len(inbuf) = frame.payload_len /\ frame' \in FrameFieldsT /\ frame.payload_len > 0
      /\ frame'.payload_data = UnmaskPayloadData(inbuf, frame.masking_key)
      /\ frame'.fin = frame.fin /\ frame'.opcode = frame.opcode
      /\ frame'.payload_len = frame.payload_len
      /\ Whole(frame', "FOUR", frame.payload_len)
  BY ReadPayloadInv, Zenon
<1>5. ntoread > 0
  BY <1>3, <1>4, Zenon
<1>6. Conforming /\ written # <<>> /\ Len(written) < 2
  BY <1>1, <1>2, <1>5, CallbackStream, Zenon
<1>7. PICK off, acc, c, k :
        /\ Located(off, acc, c, k) /\ Layout(off, c + Len(inbuf), sent', Unread')
        /\ k \in Nat /\ off[k] \in Nat
  BY <1>1, <1>2, <1>5, CallbackStream, Zenon
<1>8. /\ k < Len(sent) /\ c = off[k] + (6 + Ext(sent[k + 1]))
      /\ frame.fin = sent[k + 1].fin /\ frame.opcode = sent[k + 1].op
      /\ frame.payload_len = Len(sent[k + 1].data) /\ Layout(off, c, sent, Unread)
      /\ frame.masking_key = Key
  BY <1>1, <1>6, <1>7, Zenon DEF Located, Place, HeadRead
<1>9. sent \in Seq(FrameSet)
  BY Zenon DEF ConnInv, TypeInv
<1>10. PICK f \in FrameSet : f = sent[k + 1] /\ f.mask = 1
  BY <1>6, <1>7, <1>8, <1>9, ConformingFacts, Zenon
<1>11. /\ Len(Wire(f)) = 6 + Ext(f) + Len(f.data) /\ Ext(f) \in Nat /\ Len(f.data) \in Nat
       /\ Len(Wire(f)) \in Nat
  BY ONLY <1>10, f \in FrameSet, WireAt, FormFacts, FrameFields, SMT
<1>12. PICK a \in Nat, e \in Nat, l \in Nat, w \in Nat :
         a = off[k] /\ e = Ext(f) /\ l = Len(f.data) /\ w = Len(Wire(f)) /\ w = 6 + e + l
         /\ c = a + (6 + e) /\ l = Len(inbuf)
  BY <1>4, <1>7, <1>8, <1>10, <1>11, Zenon
<1>13. UnmaskPayloadData(inbuf, Key) = f.data
  <2>1. 6 + e \in Nat /\ (6 + e) + l <= w
    BY ONLY <1>12, e \in Nat, l \in Nat, SMT
  <2>2. PICK p \in Nat : p = 6 + e
    BY <2>1, Zenon
  <2>3. c = off[k] + p /\ p + Len(inbuf) <= Len(Wire(sent[k + 1]))
    BY <1>4, <1>10, <1>12, <2>2, <2>1, Zenon
  <2>4. /\ k \in Nat /\ k < Len(sent) /\ Layout(off, c, sent, Unread)
        /\ inbuf' = <<>> /\ socket' = socket
    BY <1>3, <1>7, <1>8, Zenon
  <2>5. \A i \in 1 .. Len(inbuf) : inbuf[i] = Wire(sent[k + 1])[p + i]
    BY ONLY ConnInv, <2>3, <2>4, p \in Nat, ReadSlice, ZenonT(40)
  <2>6. \A i \in 1 .. Len(inbuf) : inbuf[i] = Wire(sent[k + 1])[(6 + e) + i]
    BY <2>2, <2>5, Zenon
  <2>7. Len(inbuf) = Len(f.data) /\ \A i \in 1 .. Len(f.data) : inbuf[i] = Wire(f)[6 + Ext(f) + i]
    BY <1>10, <1>12, <2>6, Zenon
  <2>. QED BY ONLY <1>3, <1>10, <2>7, f \in FrameSet, PayloadRead, Zenon
<1>14. PICK fr \in FrameFieldsT : fr = frame'
  BY <1>4, Zenon
<1>15. /\ fr.fin = sent[k + 1].fin /\ fr.opcode = sent[k + 1].op
       /\ Payload(fr) = sent[k + 1].data
  BY <1>4, <1>8, <1>10, <1>13, <1>14, Zenon DEF Payload
<1>16. PICK d : d = c + l
  OBVIOUS
<1>17. d = off[k + 1]
  <2>1. off[k + 1] = a + w
    BY <1>7, <1>8, <1>9, <1>10, <1>12, NextEnd, Zenon
  <2>2. d = a + w
    <3>1. c = a + (6 + e) /\ w = 6 + e + l
      BY <1>12, Zenon
    <3>. QED BY ONLY <1>16, <3>1, a \in Nat, e \in Nat, l \in Nat, SMT
  <2>. QED BY <2>1, <2>2, Zenon
<1>18. /\ Accounted(acc, sent) /\ delivered = acc[k].whole /\ msg = acc[k].part
       /\ Layout(off, d, sent', Unread')
  BY <1>7, <1>12, <1>16, Zenon DEF Located
<1>19. Whole(fr, "FOUR", frame.payload_len) /\ "FOUR" \in {"THREE", "FOUR"}
  BY <1>4, <1>14, Zenon
<1>20. Located(off, acc, d, k + 1)'
  BY <1>3, <1>6, <1>7, <1>8, <1>15, <1>17, <1>18, <1>19, WholeLocated, Zenon
<1>. QED BY <1>20, Zenon

LEMMA StreamInvStep == ConnInv /\ StreamInv /\ [Next]_vars => StreamInv'
<1>. SUFFICES ASSUME ConnInv, StreamInv, [Next]_vars PROVE StreamInv'
  OBVIOUS
<1>1. CASE \E r \in Requests : SendRequest(r)
  BY <1>1, SendRequestStream, Zenon
<1>2. CASE \E f \in FrameSet : SendFrame(f)
  BY <1>2, SendFrameStream, Zenon
<1>3. CASE Arrive
  BY <1>3, ArriveStream, Zenon
<1>4. CASE Reader
  BY <1>4, RequestReadStream, ResponseWrittenStream, ReadHeaderStream, ReadLengthStream,
     ReadKeyStream, ReadPayloadStream, Zenon DEF Reader
<1>5. CASE CloseCb \/ UNCHANGED vars
  <2>1. /\ sent' = sent /\ request' = request /\ written' = written
        /\ ws_req_str' = ws_req_str /\ step' = step /\ frame' = frame
        /\ delivered' = delivered /\ msg' = msg /\ inbuf' = inbuf /\ socket' = socket
    BY <1>5, Zenon DEF CloseCb, conn, vars
  <2>. SUFFICES ASSUME Conforming' PROVE (\E off, acc, c, k : Located(off, acc, c, k))'
    BY DEF StreamInv
  <2>2. Unread' = Unread
    BY <2>1, Zenon DEF Unread
  <2>3. PICK off, acc, c, k : Located(off, acc, c, k)
    BY <2>1, SameConforming, Zenon DEF StreamInv
  <2>4. Place(off, c, k)'
    BY <2>1, <2>3, Zenon DEF Located, Place, HeadRead
  <2>5. Located(off, acc, c, k)'
    BY <2>1, <2>2, <2>3, <2>4, Zenon DEF Located
  <2>. QED BY <2>5, Zenon
<1>. QED BY <1>1, <1>2, <1>3, <1>4, <1>5, Zenon DEF Next

LEMMA StreamInvAlways == Spec => [](ConnInv /\ StreamInv)
BY ConnInvInit, ConnInvStep, StreamInvInit, StreamInvStep, PTL DEF Spec

LEMMA MessagesAre ==
  ASSUME ConnInv, StreamInv
  PROVE  MessagesIntact
<1>. SUFFICES ASSUME Conforming PROVE IsPrefix(delivered, Meant)
  BY DEF MessagesIntact
<1>1. PICK off, acc, c, k : Located(off, acc, c, k)
  BY Zenon DEF StreamInv
<1>2. sent \in Seq(FrameSet) /\ Accounted(acc, sent) /\ k \in 0 .. Len(sent)
  BY <1>1, Zenon DEF ConnInv, TypeInv, Located
<1>3. account = acc
  BY <1>2, AccountedIs, Zenon
<1>4. PICK s, t : s = delivered /\ t = Meant /\ Leads(s, t)
  <2>1. delivered = acc[k].whole /\ Leads(acc[k].whole, acc[Len(sent)].whole)
    BY <1>1, <1>2, Zenon DEF Located, Accounted
  <2>. QED BY <1>3, <2>1, Zenon DEF Meant
<1>5. s \in Seq(Seq(Byte)) /\ t \in Seq(Seq(Byte))
  <2>1. acc \in [0 .. Len(sent) -> Books] /\ Len(sent) \in Nat
    BY <1>2, LenProperties, Zenon DEF Accounted
  <2>2. Len(sent) \in 0 .. Len(sent)
    BY ONLY <2>1, SMT
  <2>3. acc[Len(sent)] \in Books
    BY <2>1, <2>2, Zenon
  <2>4. acc[Len(sent)].whole \in Seq(Seq(Byte))
    BY ONLY <2>3, SMT DEF Books
  <2>5. delivered \in Seq(Seq(Byte))
    BY Zenon DEF ConnInv, TypeInv
  <2>. QED BY <1>3, <1>4, <2>4, <2>5, Zenon DEF Meant
<1>6. Len(s) <= Len(t) /\ \A i \in 1 .. Len(s) : s[i] = t[i]
  BY <1>4, Zenon DEF Leads
<1>7. SubSeq(s, 1, Len(s)) = SubSeq(t, 1, Len(s))
  BY ONLY <1>5, <1>6, SMT
<1>. QED BY <1>4, <1>6, <1>7, Zenon DEF IsPrefix

LEMMA CloseAnsweredOnce ==
  ASSUME ConnInv, StreamInv
  PROVE  CloseAnswered
<1>. SUFFICES ASSUME Conforming
              PROVE  /\ \A i, j \in Closes : i = j
                     /\ Closes # {} => sent # <<>> /\ IsClose(Last(sent)) /\ socket = <<>>
  BY DEF CloseAnswered
<1>1. PICK off, acc, c, k : Located(off, acc, c, k)
  BY Zenon DEF StreamInv
<1>2. /\ Closes # {} <=> Len(written) >= 2
      /\ \A i \in Closes : i \in 2 .. Len(written)
  BY ClosesWritten, Zenon
<1>. SUFFICES ASSUME Closes # {}
              PROVE  /\ \A i, j \in Closes : i = j
                     /\ sent # <<>> /\ IsClose(Last(sent)) /\ socket = <<>>
  BY Zenon
<1>3. /\ Len(written) = 2 /\ k = Len(sent) /\ k > 0 /\ IsClose(sent[k]) /\ c = off[k]
      /\ Layout(off, c, sent, Unread)
  BY <1>1, <1>2, Zenon DEF Located, Place
<1>4. \A i \in Closes : i = 2
  <2>1. \A i \in 2 .. 2 : i = 2
    OBVIOUS
  <2>. QED BY <1>2, <1>3, <2>1, Zenon
<1>5. sent # <<>> /\ Last(sent) = sent[k]
  <2>1. sent # <<>>
    BY ONLY <1>3, SMT
  <2>. QED BY <1>3, <2>1, Zenon DEF Last
<1>6. socket = <<>>
  <2>1. /\ TypeInv /\ socket \in Seq(Sym)
    BY Zenon DEF ConnInv, TypeInv
  <2>2. PICK l \in Nat, m \in Nat : /\ l = Len(inbuf) /\ m = Len(socket)
                                    /\ Len(Unread) = l + m
    BY <2>1, UnreadType, Zenon
  <2>3. c \in Int /\ c = c + (l + m)
    BY <1>3, <2>2, Zenon DEF Layout
  <2>4. m = 0
    BY ONLY <2>3, l \in Nat, m \in Nat, SMT
  <2>. QED BY <2>1, <2>2, <2>4, EmptySeq, Zenon
<1>. QED BY <1>3, <1>4, <1>5, <1>6, Zenon

(* For every set of requests and of frames, every key and any number of    *)
(* frames, however the bytes arrive: the response answers the key of the   *)
(* request and no byte of a frame is taken for the request; the messages   *)
(* handed over are the first of those the client meant, whole and in       *)
(* order; and a read is for exactly the bytes that are awaited             *)
(* (connection.cpp:105-357).                                               *)
THEOREM StreamIsFaithful == Spec => []StreamFaithful
<1>1. ConnInv /\ StreamInv => MessagesIntact
  BY MessagesAre
<1>2. HandshakeRight /\ MessagesIntact /\ ReadsFit => StreamFaithful
  BY DEF StreamFaithful
<1>. QED BY <1>1, <1>2, StreamInvAlways, HandshakeAlways, ReadsFitAlways, PTL

(* A close frame is answered once, when it is the last frame the client    *)
(* sent and all its bytes are read; and after an answer no message and no  *)
(* pong is delivered, although the steps THREE and FOUR leave step as it   *)
(* was (connection.cpp:268, 326).                                          *)
THEOREM CloseIsTheEnd == Spec => CloseEnds
<1>1. ConnInv /\ StreamInv => CloseAnswered
  BY CloseAnsweredOnce
<1>2. Spec => []CloseAnswered
  BY <1>1, StreamInvAlways, PTL
<1>. QED BY <1>2, SilentAlways, PTL DEF CloseEnds
=============================================================================
