------------------------------- MODULE WsFrame -------------------------------
(***************************************************************************)
(* The websocket frame format as ws/frame.cpp, ws/websocket.cpp and        *)
(* ws/tools.h read and write it: pure operators, shared by WsConnection    *)
(* and the frames MCWsConnection sends it.  A byte is a number of 0..255;  *)
(* every length from 2^24 on is the bound Huge, of which no payload ever   *)
(* arrives.                                                                *)
(***************************************************************************)
LOCAL INSTANCE Integers
LOCAL INSTANCE Sequences
LOCAL INSTANCE SequencesExt

Byte == 0 .. 255

\* *a ^ *b on two bytes.
Xor(a, b) ==
  LET Bit(x, i) == (x \div 2^i) % 2
      D(i) == ((Bit(a, i) + Bit(b, i)) % 2) * 2^i
  IN  D(0) + D(1) + D(2) + D(3) + D(4) + D(5) + D(6) + D(7)

Huge == 2^24

\* An unsigned number of k bytes as it lies in memory (little-endian).
Memory(n, k) ==
  [i \in 1 .. k |-> IF i > 4 THEN 0 ELSE (n \div 256^(i - 1)) % 256]
Number(mem) ==
  LET B(i) == IF i <= Len(mem) THEN mem[i] ELSE 0
  IN  IF \E i \in 4 .. Len(mem) : mem[i] > 0 THEN Huge
      ELSE B(1) + 256 * (B(2) + 256 * B(3))

\* myhtons, myhtonl and myhtonll (and their inverses, which are the same).
Hton(mem) == Reverse(mem)
Htonll(mem) == Hton(SubSeq(mem, 5, 8)) \o Hton(SubSeq(mem, 1, 4))

-----------------------------------------------------------------------------
(* Reading. *)

Frame0 == [fin |-> 0, opcode |-> 0, mask |-> 0, payload_len |-> 0,
           masking_key |-> <<0, 0, 0, 0>>, payload_data |-> <<>>]

ParseFrameHeader(buf, frame) ==
  [frame EXCEPT !.fin = buf[1] \div 128,
                !.opcode = buf[1] % 16,
                !.mask = buf[2] \div 128,
                !.payload_len = buf[2] % 128]

\* An extended length of 2 or of 8 bytes, and the key.
ParseLength_hostOrder(buf, frame) == [frame EXCEPT !.payload_len = Number(buf)]
ParseLength(buf, frame) ==
  [frame EXCEPT !.payload_len =
     IF @ = 126 THEN Number(Hton(buf)) ELSE Number(Htonll(buf))]

UnmaskPayloadData_shifted(data, key) ==
  [i \in DOMAIN data |-> Xor(data[i], key[1 + (i % 4)])]
UnmaskPayloadData(data, key) ==
  [i \in DOMAIN data |-> Xor(data[i], key[1 + ((i - 1) % 4)])]

-----------------------------------------------------------------------------
(* Writing.  A server never masks, so the branches with mask # 0 are dead. *)

\* The largest length that is written in the second byte itself.
Max7 == 125

\* The header of a frame of n bytes: c1, c2 and the extended length.
Header(fin, opcode, n) ==
  << fin * 128 + opcode >>
  \o (CASE n <= Max7   -> << n >>
        [] n \in Max7 + 1 .. 65535 -> << 126 >> \o Hton(Memory(n, 2))
        [] OTHER      -> << 127 >> \o Htonll(Memory(n, 8)))

\* frame_buffer_new over a payload: a copy behind a header.
FrameCopy(fin, opcode, payload) ==
  IF fin > 1 \/ opcode > 15 THEN <<>>
  ELSE Header(fin, opcode, Len(payload)) \o payload

-----------------------------------------------------------------------------
(* What a client sends. *)

\* The bytes of a client's frame; `form' is how its length is written.
ClientBytes(f, key) ==
  LET n == Len(f.data)
  IN  << f.fin * 128 + f.op >>
      \o (CASE f.form = 7  -> << 128 * f.mask + n >>
            [] f.form = 16 -> << 128 * f.mask + 126 >> \o Reverse(Memory(n, 2))
            [] f.form = 64 -> << 128 * f.mask + 127 >> \o Reverse(Memory(n, 8)))
      \o (IF f.mask = 1
          THEN key \o [i \in 1 .. n |-> Xor(f.data[i], key[1 + ((i - 1) % 4)])]
          ELSE f.data)
=============================================================================
