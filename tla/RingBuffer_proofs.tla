-------------------------- MODULE RingBuffer_proofs --------------------------
(***************************************************************************)
(* Nobody overwrites a block of the ring buffer that somebody uses, and    *)
(* the blocks in its memory are a queue of messages: for any number of     *)
(* producers, any size and alignment of the buffer, in the guard and in    *)
(* the release build.                                                      *)
(***************************************************************************)
EXTENDS RingBuffer, SequenceTheorems, WellFoundedInduction, TLAPS

Owner(p) == pc[p] \in {"own", "filled"} /\ blk[p].handle.valid
Inside(p) == pc[p] \in {"border", "reserve", "publish"}

(* The locals of a call of a producer.                                     *)
Locals ==
  [n : Nat, no_wait : BOOLEAN, beg : Nat, end : Nat, msg : Nat,
   handle : [valid : BOOLEAN, at : Nat]]

(* Types; _ix_write is at most the buffer ahead of _ix_read.               *)
RingTypes ==
  /\ DOMAIN mem = Slot
  /\ ix_read \in Nat /\ ix_write \in Nat
  /\ ix_read <= ix_write /\ ix_write <= ix_read + Size
  /\ pc \in [Producers ->
               {"idle", "border", "reserve", "publish", "own", "filled"}]
  /\ blk \in [Producers -> Locals]
  /\ cpc \in {"idle", "peek", "held", "free"}
  /\ outcome \in Seq({"pending"} \cup Resolved)

(* The slot of an index, and the end of the block that begins there.       *)
View(i) == mem[At(i)]
Ends(b) == b + Extent(View(b))

(* The blocks of the buffer begin at the indices of B: they cover what     *)
(* lies between _ix_read and _ix_write without gaps or overlaps.           *)
Covered(B) ==
  /\ B \subseteq Nat
  /\ \A b \in B : /\ ix_read <= b /\ b < Ends(b) /\ Ends(b) <= ix_write
                  /\ Ends(b) = ix_write \/ Ends(b) \in B
  /\ \A a, b \in B : a < b => Ends(a) <= b
  /\ ix_read = ix_write \/ ix_read \in B

(* Every block has its prefix and, unless it is fake, data and postfix.    *)
Formed(B) ==
  \A b \in B :
    /\ View(b) = Header(View(b).size, View(b).state)
    /\ View(b).size \in Nat /\ View(b).state \in State
    /\ View(b).state # "fake" =>
         View(b).size >= 1 /\ (Guard = 1 => View(b + View(b).size + 1) = Postfix)

Filled(b, m) == \A k \in 1 .. View(b).size : View(b + k) = Data(m)

(* A committed block holds one message that was committed.                 *)
Committed(B) ==
  \A b \in B : View(b).state = "commited" =>
    \E m \in DOMAIN outcome : outcome[m] = "commited" /\ Filled(b, m)

(* A producer that owns a block owns it alone, and it is still busy.       *)
Owned(B) ==
  \A p \in Producers :
    /\ pc[p] = "filled" => blk[p].handle.valid
    /\ Owner(p) =>
         /\ blk[p].beg \in B /\ blk[p].handle.at = At(blk[p].beg)
         /\ View(blk[p].beg).size = blk[p].n /\ View(blk[p].beg).state = "busy"
         /\ blk[p].msg \in DOMAIN outcome /\ outcome[blk[p].msg] = "pending"
         /\ pc[p] = "filled" => Filled(blk[p].beg, blk[p].msg)
         /\ \A q \in Producers : Owner(q) /\ q # p =>
              blk[q].beg # blk[p].beg /\ blk[q].msg # blk[p].msg

(* The producer that is inside allocate holds the lock; its block, and the *)
(* fake block before it, lie behind _ix_write.                             *)
Reserved ==
  \A p \in Producers : Inside(p) =>
    /\ lock = p /\ ~blk[p].handle.valid
    /\ blk[p].n >= 1 /\ blk[p].end = blk[p].beg + blk[p].n + Overhead
    /\ ix_write <= blk[p].beg
    /\ pc[p] = "border" => blk[p].beg = ix_write
    /\ ix_write < blk[p].beg =>
         /\ View(ix_write) = Header(blk[p].beg - ix_write, "fake")
         /\ ix_write < ix_read + Size
    /\ pc[p] = "publish" =>
         /\ blk[p].end <= ix_read + Size
         /\ View(blk[p].beg) = Header(blk[p].n, "busy")
         /\ Guard = 1 => View(blk[p].beg + blk[p].n + 1) = Postfix

(* What the consumer has passed over, it may pass over again.              *)
Consumed(B) ==
  /\ cpc \in {"peek", "free"} =>
       /\ readIx = ix_write \/ readIx \in B
       /\ \A b \in B : b < readIx => View(b).state \in PassedOver
  /\ cpc \in {"held", "free"} =>
       /\ held \in B /\ View(held).state = "commited"
       /\ \A b \in B : b < held => View(b).state \in PassedOver

RingParts(B) ==
  Covered(B) /\ Formed(B) /\ Committed(B) /\ Owned(B) /\ Consumed(B)

Ring(B) == RingTypes /\ Reserved /\ RingParts(B)

RingInv == \E B \in SUBSET Nat : Ring(B)

-----------------------------------------------------------------------------
(* Slots                                                                   *)

(* ix & (__size - 1) is a slot, and tells indices apart that are less than *)
(* the size of the buffer away from each other.                            *)
LEMMA Slots ==
  /\ \A i \in Nat : At(i) \in Slot
  /\ \A i, j \in Nat : i <= j /\ j < i + Size /\ At(i) = At(j) => i = j
<1>1. Size \in Nat /\ Size > 0 BY ConstantsAssumption
<1>2. ASSUME NEW i \in Nat
      PROVE  /\ i \div Size \in Int /\ i % Size \in 0 .. Size - 1
             /\ i = Size * (i \div Size) + (i % Size)
  BY ConstantsAssumption
<1>3. \A i, j \in Nat : i <= j /\ j < i + Size /\ At(i) = At(j) => i = j
  <2>. SUFFICES ASSUME NEW i \in Nat, NEW j \in Nat, i <= j, j < i + Size,
                       i % Size = j % Size
                PROVE  i = j
    BY DEF At
  <2>. DEFINE a == i \div Size
              b == j \div Size
  <2>1. a \in Int /\ b \in Int BY <1>2
  <2>2. j - i = Size * b - Size * a
    <3>1. i = Size * a + (i % Size) /\ j = Size * b + (j % Size) BY <1>2
    <3>2. i % Size \in Int BY <1>2
    <3>3. Size * a \in Int /\ Size * b \in Int BY <1>1, <2>1
    <3>. HIDE DEF a, b
    <3>. QED BY <3>1, <3>2, <3>3
  <2>. HIDE DEF a, b
  <2>3. Size * b - Size * a = Size * (b - a) BY <1>1, <2>1
  <2>4. 0 <= Size * (b - a) /\ Size * (b - a) < Size BY <2>2, <2>3, <1>1
  <2>5. b - a = 0
    <3>1. b - a < 1
      <4>. SUFFICES ASSUME b - a >= 1 PROVE FALSE BY <2>1
      <4>1. Size * (b - a) >= Size BY <1>1, <2>1
      <4>. QED BY <1>1, <2>1, <2>4, <4>1
    <3>2. b - a > -1
      <4>. SUFFICES ASSUME b - a <= -1 PROVE FALSE BY <2>1
      <4>1. Size * (b - a) <= -Size BY <1>1, <2>1
      <4>. QED BY <1>1, <2>1, <2>4, <4>1
    <3>. QED BY <2>1, <3>1, <3>2
  <2>6. Size * (b - a) = 0 BY <1>1, <2>5
  <2>. QED BY <2>2, <2>3, <2>6
<1>. QED BY <1>2, <1>3 DEF At, Slot

-----------------------------------------------------------------------------
(* Blocks that a step leaves alone                                         *)

Kept(b) ==
  /\ View(b)' = View(b)
  /\ View(b).state # "fake" =>
       \A k \in 0 .. View(b).size + Guard : View(b + k)' = View(b + k)

(* A block is kept when its slots are.                                     *)
LEMMA BlockKept ==
  ASSUME NEW B \in SUBSET Nat, Covered(B), Formed(B), NEW b \in B,
         \A i \in Nat : b <= i /\ i < Ends(b) => View(i)' = View(i)
  PROVE  Kept(b)
<1>1. b \in Nat /\ b < Ends(b) /\ View(b).size \in Nat BY DEF Covered, Formed
<1>2. Guard \in {0, 1} BY ConstantsAssumption
<1>3. View(b)' = View(b) BY <1>1
<1>4. ASSUME View(b).state # "fake", NEW k \in 0 .. View(b).size + Guard
      PROVE  View(b + k)' = View(b + k)
  <2>1. Ends(b) = b + View(b).size + 1 + Guard
    BY <1>1, <1>2, <1>4 DEF Ends, Extent, Overhead
  <2>2. b + k \in Nat /\ b <= b + k /\ b + k < Ends(b) BY <1>1, <1>2, <2>1
  <2>. QED BY <2>2
<1>. QED BY <1>3, <1>4 DEF Kept

(* What is known of a block stays true of it.                              *)
LEMMA KeptFacts ==
  ASSUME NEW B \in SUBSET Nat, Formed(B), NEW b \in B, Kept(b)
  PROVE  /\ View(b)' = View(b) /\ Ends(b)' = Ends(b)
         /\ (View(b).state # "fake" /\ Guard = 1 => View(b + View(b).size + 1) = Postfix)'
         /\ \A m : View(b).state # "fake" /\ Filled(b, m) => Filled(b, m)'
<1>1. View(b)' = View(b) /\ View(b).size \in Nat /\ b \in Nat BY DEF Kept, Formed
<1>2. Ends(b)' = Ends(b) BY <1>1 DEF Ends, Extent
<1>3. (View(b).state # "fake" /\ Guard = 1 => View(b + View(b).size + 1) = Postfix)'
  <2>. SUFFICES ASSUME View(b).state # "fake", Guard = 1
                PROVE  View(b + View(b).size + 1)' = Postfix
    BY <1>1
  <2>1. PICK n \in Nat : n = View(b).size BY <1>1
  <2>2. View(b + n + 1) = Postfix BY <2>1 DEF Formed
  <2>3. n + 1 \in 0 .. View(b).size + Guard /\ b + (n + 1) = b + n + 1 BY <1>1, <2>1
  <2>4. View(b + n + 1)' = View(b + n + 1) BY <2>3 DEF Kept
  <2>. QED BY <1>1, <2>1, <2>2, <2>4
<1>4. ASSUME NEW m, View(b).state # "fake", Filled(b, m) PROVE Filled(b, m)'
  <2>1. PICK n \in Nat : n = View(b).size BY <1>1
  <2>2. \A k \in 1 .. n : k \in 0 .. n + Guard BY <2>1, ConstantsAssumption
  <2>3. \A k \in 1 .. n : View(b + k)' = Data(m) BY <1>4, <2>1, <2>2 DEF Filled, Kept
  <2>. QED BY <1>1, <2>1, <2>3 DEF Filled
<1>. QED BY <1>1, <1>2, <1>3, <1>4

(* A step that keeps all blocks keeps what is known of them.               *)
LEMMA LayoutKept ==
  ASSUME NEW B \in SUBSET Nat, Covered(B), Formed(B), Committed(B),
         \A b \in B : Kept(b), UNCHANGED <<ix_read, ix_write, outcome>>
  PROVE  Covered(B)' /\ Formed(B)' /\ Committed(B)'
<1>1. \A b \in B : View(b)' = View(b) /\ Ends(b)' = Ends(b) BY KeptFacts
<1>2. Covered(B)' BY <1>1 DEF Covered
<1>3. \A b \in B : (View(b).state # "fake" /\ Guard = 1 => View(b + View(b).size + 1) = Postfix)'
  BY KeptFacts
<1>4. Formed(B)' BY <1>1, <1>3 DEF Formed
<1>5. \A b \in B : \A m : View(b).state # "fake" /\ Filled(b, m) => Filled(b, m)'
  BY KeptFacts
<1>6. Committed(B)' BY <1>1, <1>5 DEF Committed
<1>. QED BY <1>2, <1>4, <1>6

(* Owners that do not move, of blocks that are kept.                       *)
LEMMA OwnersKept ==
  ASSUME NEW B \in SUBSET Nat, Formed(B), Owned(B), \A b \in B : Kept(b),
         UNCHANGED outcome,
         \A p \in Producers :
           Owner(p)' => Owner(p) /\ pc'[p] = pc[p] /\ blk'[p] = blk[p],
         \A p \in Producers : pc'[p] = "filled" => blk'[p].handle.valid
  PROVE  Owned(B)'
<1>1. \A b \in B : View(b)' = View(b) BY KeptFacts
<1>2. \A b \in B : \A m : View(b).state # "fake" /\ Filled(b, m) => Filled(b, m)'
  BY KeptFacts
<1>. SUFFICES ASSUME NEW p \in Producers, Owner(p)'
              PROVE  (/\ blk[p].beg \in B /\ blk[p].handle.at = At(blk[p].beg)
                      /\ View(blk[p].beg).size = blk[p].n
                      /\ View(blk[p].beg).state = "busy"
                      /\ blk[p].msg \in DOMAIN outcome /\ outcome[blk[p].msg] = "pending"
                      /\ pc[p] = "filled" => Filled(blk[p].beg, blk[p].msg)
                      /\ \A q \in Producers : Owner(q) /\ q # p =>
                           blk[q].beg # blk[p].beg /\ blk[q].msg # blk[p].msg)'
  BY DEF Owned
<1>3. Owner(p) /\ pc'[p] = pc[p] /\ blk'[p] = blk[p] OBVIOUS
<1>4. PICK b \in B : b = blk[p].beg BY <1>3 DEF Owned
<1>5. PICK m : m = blk[p].msg OBVIOUS
<1>6. View(b)' = View(b) /\ View(b).state = "busy" BY <1>1, <1>3, <1>4 DEF Owned
<1>7. pc[p] = "filled" => Filled(b, m)' BY <1>2, <1>3, <1>4, <1>5, <1>6 DEF Owned
<1>8. (pc[p] = "filled" => Filled(blk[p].beg, blk[p].msg))'
  BY <1>3, <1>4, <1>5, <1>7 DEF Filled
<1>9. (View(blk[p].beg).size = blk[p].n /\ View(blk[p].beg).state = "busy")'
  BY <1>3, <1>4, <1>6 DEF Owned, View
<1>10. (/\ blk[p].beg \in B /\ blk[p].handle.at = At(blk[p].beg)
        /\ blk[p].msg \in DOMAIN outcome /\ outcome[blk[p].msg] = "pending")'
  BY <1>3 DEF Owned
<1>11. (\A q \in Producers : Owner(q) /\ q # p =>
          blk[q].beg # blk[p].beg /\ blk[q].msg # blk[p].msg)'
  BY <1>3 DEF Owned
<1>. QED BY <1>8, <1>9, <1>10, <1>11

(* A consumer that does not move, in front of blocks that are kept.        *)
LEMMA ConsumerKept ==
  ASSUME NEW B \in SUBSET Nat, Formed(B), Consumed(B), \A b \in B : Kept(b),
         UNCHANGED <<ix_write, consVars>>
  PROVE  Consumed(B)'
<1>1. \A b \in B : View(b)' = View(b) BY KeptFacts
<1>2. held \in B => View(held)' = View(held) BY <1>1 DEF consVars, View
<1>. QED BY <1>1, <1>2 DEF Consumed, consVars

(* A step that writes nothing between _ix_read and _ix_write.              *)
LEMMA WindowKept ==
  ASSUME RingTypes, NEW B \in SUBSET Nat, Covered(B), Formed(B),
         \A i \in Nat : ix_read <= i /\ i < ix_write => View(i)' = View(i)
  PROVE  \A b \in B : Kept(b)
<1>. SUFFICES ASSUME NEW b \in B PROVE Kept(b) OBVIOUS
<1>1. /\ b \in Nat /\ ix_read <= b /\ b < Ends(b) /\ Ends(b) <= ix_write
      /\ View(b).size \in Nat
  BY DEF Covered, Formed
<1>2. Ends(b) \in Int BY <1>1, ConstantsAssumption DEF Ends, Extent, Overhead
<1>3. \A i \in Nat : b <= i /\ i < Ends(b) => View(i)' = View(i)
  <2>1. ix_read \in Int /\ ix_write \in Int BY DEF RingTypes
  <2>. QED BY <1>1, <1>2, <2>1
<1>. QED BY <1>3, BlockKept

LEMMA PartsKept ==
  ASSUME RingTypes, NEW B \in SUBSET Nat, RingParts(B),
         \A i \in Nat : ix_read <= i /\ i < ix_write => View(i)' = View(i),
         UNCHANGED <<ix_read, ix_write, outcome, consVars>>,
         \A p \in Producers :
           Owner(p)' => Owner(p) /\ pc'[p] = pc[p] /\ blk'[p] = blk[p],
         \A p \in Producers : pc'[p] = "filled" => blk'[p].handle.valid
  PROVE  RingParts(B)'
<1>1. Covered(B) /\ Formed(B) /\ Committed(B) /\ Owned(B) /\ Consumed(B) BY DEF RingParts
<1>2. \A b \in B : Kept(b) BY <1>1, WindowKept
<1>3. Covered(B)' /\ Formed(B)' /\ Committed(B)' BY <1>1, <1>2, LayoutKept
<1>4. Owned(B)' BY <1>1, <1>2, OwnersKept
<1>5. Consumed(B)' BY <1>1, <1>2, ConsumerKept
<1>. QED BY <1>3, <1>4, <1>5 DEF RingParts

(* A step that writes nothing behind _ix_write, of somebody outside of     *)
(* allocate; _ix_read may move on.                                         *)
LEMMA ReservedKept ==
  ASSUME RingTypes, Reserved,
         \A i \in Nat : ix_write <= i /\ i < ix_read + Size => View(i)' = View(i),
         ix_read' \in Nat, ix_read <= ix_read', ix_write' = ix_write,
         \A p \in Producers : Inside(p)' =>
           Inside(p) /\ pc'[p] = pc[p] /\ blk'[p] = blk[p] /\ lock' = lock
  PROVE  Reserved'
<1>. SUFFICES ASSUME NEW p \in Producers, Inside(p)'
              PROVE  (/\ lock = p /\ ~blk[p].handle.valid
                      /\ blk[p].n >= 1 /\ blk[p].end = blk[p].beg + blk[p].n + Overhead
                      /\ ix_write <= blk[p].beg
                      /\ pc[p] = "border" => blk[p].beg = ix_write
                      /\ ix_write < blk[p].beg =>
                           /\ View(ix_write) = Header(blk[p].beg - ix_write, "fake")
                           /\ ix_write < ix_read + Size
                      /\ pc[p] = "publish" =>
                           /\ blk[p].end <= ix_read + Size
                           /\ View(blk[p].beg) = Header(blk[p].n, "busy")
                           /\ Guard = 1 => View(blk[p].beg + blk[p].n + 1) = Postfix)'
  BY DEF Reserved
<1>1. Inside(p) /\ pc'[p] = pc[p] /\ blk'[p] = blk[p] /\ lock' = lock OBVIOUS
<1>2. /\ blk[p].beg \in Nat /\ blk[p].n \in Nat /\ blk[p].end \in Nat
      /\ ix_read \in Nat /\ ix_write \in Nat /\ Size \in Nat /\ Guard \in {0, 1}
  BY ConstantsAssumption DEF RingTypes, Locals
<1>3. (/\ lock = p /\ ~blk[p].handle.valid
       /\ blk[p].n >= 1 /\ blk[p].end = blk[p].beg + blk[p].n + Overhead
       /\ ix_write <= blk[p].beg
       /\ pc[p] = "border" => blk[p].beg = ix_write)'
  BY <1>1 DEF Reserved
<1>4. (ix_write < blk[p].beg => /\ View(ix_write) = Header(blk[p].beg - ix_write, "fake")
                                /\ ix_write < ix_read + Size)'
  <2>. SUFFICES ASSUME ix_write < blk[p].beg
                PROVE  (/\ View(ix_write) = Header(blk[p].beg - ix_write, "fake")
                        /\ ix_write < ix_read + Size)'
    BY <1>1
  <2>1. PICK w \in Nat : w = ix_write BY <1>2
  <2>2. View(w) = Header(blk[p].beg - w, "fake") /\ w < ix_read + Size
    BY <1>1, <2>1 DEF Reserved
  <2>3. View(w)' = View(w) BY <1>2, <2>1, <2>2
  <2>4. w < ix_read' + Size
    <3>1. \A i, r, q, n \in Nat : i < r + n /\ r <= q => i < q + n OBVIOUS
    <3>. QED BY <1>2, <2>2, <3>1, ZenonT(30)
  <2>. QED BY <1>1, <2>1, <2>2, <2>3, <2>4 DEF View, Header, Blank
<1>5. (pc[p] = "publish" => /\ blk[p].end <= ix_read + Size
                            /\ View(blk[p].beg) = Header(blk[p].n, "busy")
                            /\ Guard = 1 => View(blk[p].beg + blk[p].n + 1) = Postfix)'
  <2>. SUFFICES ASSUME pc[p] = "publish"
                PROVE  (/\ blk[p].end <= ix_read + Size
                        /\ View(blk[p].beg) = Header(blk[p].n, "busy")
                        /\ Guard = 1 => View(blk[p].beg + blk[p].n + 1) = Postfix)'
    BY <1>1
  <2>1. PICK b \in Nat : b = blk[p].beg BY <1>2
  <2>2. PICK n \in Nat : n = blk[p].n BY <1>2
  <2>3. /\ View(b) = Header(n, "busy") /\ (Guard = 1 => View(b + n + 1) = Postfix)
        /\ b + n + 1 + Guard <= ix_read + Size /\ ix_write <= b /\ n >= 1
    <3>1. /\ blk[p].end <= ix_read + Size /\ blk[p].end = b + n + Overhead
          /\ View(b) = Header(n, "busy") /\ (Guard = 1 => View(b + n + 1) = Postfix)
          /\ ix_write <= b /\ n >= 1
      BY <1>1, <2>1, <2>2 DEF Reserved
    <3>. QED BY <1>2, <3>1 DEF Overhead
  <2>4. b < ix_read + Size BY <1>2, <2>3
  <2>5. View(b)' = View(b) BY <2>3, <2>4
  <2>6. Guard = 1 => View(b + n + 1)' = View(b + n + 1)
    <3>. SUFFICES ASSUME Guard = 1 PROVE View(b + n + 1)' = View(b + n + 1) OBVIOUS
    <3>1. b + n + 1 \in Nat /\ ix_write <= b + n + 1 /\ b + n + 1 < ix_read + Size
      BY <1>2, <2>3
    <3>. QED BY <3>1
  <2>7. blk[p].end <= ix_read' + Size
    <3>1. blk[p].end <= ix_read + Size BY <1>1 DEF Reserved
    <3>. QED BY <1>2, <3>1
  <2>8. (blk[p].end <= ix_read + Size)' BY <1>1, <2>7
  <2>9. (View(blk[p].beg) = Header(blk[p].n, "busy"))'
    <3>1. View(b)' = Header(n, "busy") BY <2>3, <2>5
    <3>2. View(blk[p].beg)' = View(b)' BY <1>1, <2>1 DEF View
    <3>3. (Header(blk[p].n, "busy"))' = Header(n, "busy") BY <1>1, <2>2 DEF Header, Blank
    <3>. QED BY <3>1, <3>2, <3>3
  <2>10. (Guard = 1 => View(blk[p].beg + blk[p].n + 1) = Postfix)'
    <3>1. Guard = 1 => View(b + n + 1)' = Postfix BY <2>3, <2>6
    <3>2. View(blk[p].beg + blk[p].n + 1)' = View(b + n + 1)' BY <1>1, <2>1, <2>2 DEF View
    <3>. QED BY <3>1, <3>2 DEF Postfix, Blank
  <2>. QED BY <2>8, <2>9, <2>10
<1>. QED BY <1>3, <1>4, <1>5

(* Nobody else is inside allocate.                                         *)
LEMMA OneInside ==
  ASSUME Reserved, NEW p \in Producers, NEW q \in Producers, Inside(p), Inside(q)
  PROVE  p = q
BY DEF Reserved

(* Whoever takes the lock finds nobody inside allocate.                    *)
LEMMA NoneInside ==
  ASSUME Reserved, lock = NoOne, NEW q \in Producers
  PROVE  ~Inside(q)
BY ConstantsAssumption DEF Reserved

(* Indices between _ix_read and the end of the buffer behind it have slots *)
(* of their own.                                                           *)
LEMMA Window ==
  ASSUME RingTypes, NEW i \in Nat, NEW j \in Nat, At(i) = At(j),
         ix_read <= i, i < ix_read + Size, ix_read <= j, j < ix_read + Size
  PROVE  i = j
<1>1. ix_read \in Nat /\ Size \in Nat BY ConstantsAssumption DEF RingTypes
<1>2. CASE i <= j
  <2>1. j < i + Size BY <1>1
  <2>. QED BY <1>2, <2>1, Slots
<1>3. CASE j <= i
  <2>1. i < j + Size BY <1>1
  <2>. QED BY <1>3, <2>1, Slots
<1>. QED BY <1>2, <1>3

-----------------------------------------------------------------------------
(* The producers                                                           *)

(* A step that only moves producers that neither own a block nor enter     *)
(* allocate.                                                               *)
LEMMA RingQuiet ==
  ASSUME NEW B \in SUBSET Nat, Ring(B), RingTypes', UNCHANGED <<mem, ix_read, ix_write, outcome, consVars>>,
         \A p \in Producers :
           Owner(p)' => Owner(p) /\ pc'[p] = pc[p] /\ blk'[p] = blk[p],
         \A p \in Producers : pc'[p] = "filled" => blk'[p].handle.valid,
         \A p \in Producers : Inside(p)' =>
           Inside(p) /\ pc'[p] = pc[p] /\ blk'[p] = blk[p] /\ lock' = lock
  PROVE  Ring(B)'
<1>1. RingTypes /\ Reserved BY DEF Ring
<1>2. RingParts(B) BY DEF Ring
<1>3. \A i : View(i)' = View(i) BY DEF View
<1>4. RingParts(B)' BY <1>1, <1>2, <1>3, PartsKept
<1>5. ix_read' \in Nat /\ ix_read <= ix_read' BY <1>1 DEF RingTypes
<1>6. Reserved' BY <1>1, <1>3, <1>5, ReservedKept
<1>. QED BY <1>4, <1>6 DEF Ring

(* A producer that is not served by allocate.                              *)
LEMMA AllocNothing ==
  ASSUME NEW B \in SUBSET Nat, Ring(B), NEW p \in Producers,
         (\E bytes \in Requests : AllocRefuse(p, bytes)) \/ AllocFail(p)
  PROVE  Ring(B)'
<1>1. RingTypes /\ Reserved BY DEF Ring
<1>2. RingParts(B) BY DEF Ring
<1>3. Owned(B) BY <1>2 DEF RingParts
<1>4. /\ pc' = [pc EXCEPT ![p] = "own"] /\ blk' = [blk EXCEPT ![p] = NoBlock]
      /\ UNCHANGED <<mem, ix_read, ix_write, outcome, consVars>>
      /\ ~(\E bytes \in Requests : AllocRefuse(p, bytes)) => lock' = NoOne /\ Inside(p)
      /\ ~AllocFail(p) => lock' = lock
  BY DEF AllocRefuse, AllocFail, Inside
<1>5. /\ pc'[p] = "own" /\ blk'[p] = NoBlock
      /\ \A q \in Producers : q # p => pc'[q] = pc[q] /\ blk'[q] = blk[q]
  BY <1>1, <1>4 DEF RingTypes
<1>6. NoBlock \in Locals /\ ~NoBlock.handle.valid BY DEF NoBlock, Locals, InvalidHandle
<1>7. RingTypes' BY <1>1, <1>4, <1>6 DEF RingTypes, consVars
<1>8. \A q \in Producers : Owner(q)' => Owner(q) /\ pc'[q] = pc[q] /\ blk'[q] = blk[q]
  BY <1>5, <1>6 DEF Owner
<1>9. \A q \in Producers : pc'[q] = "filled" => blk'[q].handle.valid
  BY <1>3, <1>5, <1>6 DEF Owned
<1>10. ASSUME NEW q \in Producers, Inside(q)'
       PROVE  Inside(q) /\ pc'[q] = pc[q] /\ blk'[q] = blk[q] /\ lock' = lock
  <2>1. q # p BY <1>5, <1>10 DEF Inside
  <2>2. Inside(q) /\ pc'[q] = pc[q] /\ blk'[q] = blk[q] BY <1>5, <1>10, <2>1 DEF Inside
  <2>3. ~Inside(p) BY <1>1, <2>1, <2>2, OneInside
  <2>4. ~AllocFail(p) BY <2>3 DEF AllocFail, Inside
  <2>. QED BY <1>4, <2>2, <2>4
<1>. QED BY <1>4, <1>7, <1>8, <1>9, <1>10, RingQuiet

(* A request that is not refused takes at least one slot.                  *)
LEMMA SomeSlots ==
  ASSUME NEW bytes \in Requests, ~Refused(bytes)
  PROVE  DataSlots(bytes) \in Nat /\ DataSlots(bytes) >= 1
<1>1. bytes \in Nat /\ bytes >= 1 BY ConstantsAssumption DEF Refused
<1>2. Align \in Nat /\ Align >= 1 BY ConstantsAssumption
<1>3. PICK x \in Nat : x = bytes + Align - 1 /\ x >= Align BY <1>1, <1>2
<1>4. /\ x \div Align \in Int /\ x % Align \in 0 .. Align - 1
      /\ x = Align * (x \div Align) + (x % Align)
  BY <1>2
<1>5. PICK q \in Int : q = x \div Align BY <1>4
<1>6. PICK r \in 0 .. Align - 1 : r = x % Align BY <1>4
<1>7. x = Align * q + r BY <1>4, <1>5, <1>6
<1>8. q >= 1
  <2>. SUFFICES ASSUME q <= 0 PROVE FALSE BY <1>5
  <2>1. Align * q <= 0 BY <1>2
  <2>2. Align * q \in Int BY <1>2
  <2>. QED BY <1>2, <1>3, <1>6, <1>7, <2>1, <2>2
<1>. QED BY <1>3, <1>5, <1>8 DEF DataSlots

(* allocate takes the lock and places its block at _ix_write.              *)
LEMMA EnterStep ==
  ASSUME NEW B \in SUBSET Nat, Ring(B), NEW p \in Producers, NEW bytes \in Requests, NEW no_wait \in BOOLEAN,
         AllocEnter(p, bytes, no_wait)
  PROVE  Ring(B)'
<1>1. RingTypes /\ Reserved BY DEF Ring
<1>2. RingParts(B) BY DEF Ring
<1>3. PICK n \in Nat : n = DataSlots(bytes) /\ n >= 1 BY SomeSlots DEF AllocEnter
<1>4. PICK w \in Nat : w = ix_write BY <1>1 DEF RingTypes
<1>5. Overhead \in Nat BY ConstantsAssumption DEF Overhead
<1>6. PICK e \in Nat : e = w + n + Overhead BY <1>5
<1>7. PICK rec : rec = [NoBlock EXCEPT !.n = n, !.no_wait = no_wait, !.beg = w, !.end = e]
  OBVIOUS
<1>8. /\ rec \in Locals /\ rec.n = n /\ rec.beg = w /\ rec.end = e
      /\ ~rec.handle.valid
  BY <1>7 DEF NoBlock, Locals, InvalidHandle
<1>9. /\ lock = NoOne /\ lock' = p /\ blk' = [blk EXCEPT ![p] = rec]
      /\ \E s \in {"border", "reserve"} : pc' = [pc EXCEPT ![p] = s]
      /\ UNCHANGED <<mem, ix_read, ix_write, consVars, outcome>>
  BY <1>3, <1>4, <1>6, <1>7 DEF AllocEnter
<1>10. PICK s \in {"border", "reserve"} : pc' = [pc EXCEPT ![p] = s] BY <1>9
<1>11. /\ pc'[p] = s /\ blk'[p] = rec
       /\ \A q \in Producers : q # p => pc'[q] = pc[q] /\ blk'[q] = blk[q]
  BY <1>1, <1>9, <1>10 DEF RingTypes
<1>12. RingTypes' BY <1>1, <1>8, <1>9, <1>10 DEF RingTypes, consVars
<1>13. \A q \in Producers : ~Inside(q) BY <1>1, <1>9, NoneInside
<1>14. RingParts(B)'
  <2>1. \A i : View(i)' = View(i) BY <1>9 DEF View
  <2>2. \A q \in Producers : Owner(q)' => Owner(q) /\ pc'[q] = pc[q] /\ blk'[q] = blk[q]
    BY <1>10, <1>11 DEF Owner
  <2>3. Owned(B) BY <1>2 DEF RingParts
  <2>4. \A q \in Producers : pc'[q] = "filled" => blk'[q].handle.valid
    BY <1>10, <1>11, <2>3 DEF Owned
  <2>. QED BY <1>1, <1>2, <1>9, <2>1, <2>2, <2>4, PartsKept
<1>15. Reserved'
  <2>1. \A q \in Producers : Inside(q)' => q = p BY <1>11, <1>13 DEF Inside
  <2>2. ix_write' = w BY <1>4, <1>9
  <2>. QED BY <1>3, <1>4, <1>6, <1>8, <1>9, <1>10, <1>11, <2>1, <2>2 DEF Reserved, Inside
<1>. QED BY <1>12, <1>14, <1>15 DEF Ring

(* allocate turns the rest of the array into a fake block.                 *)
LEMMA WrapStep ==
  ASSUME NEW B \in SUBSET Nat, Ring(B), NEW p \in Producers, AllocWrap(p)
  PROVE  Ring(B)' /\ \A b \in B : Kept(b)
<1>1. RingTypes /\ Reserved BY DEF Ring
<1>2. RingParts(B) BY DEF Ring
<1>3. PICK w \in Nat : w = ix_write BY <1>1 DEF RingTypes
<1>4. PICK r \in Nat : r = ix_read BY <1>1 DEF RingTypes
<1>5. PICK n \in Nat : n = blk[p].n BY <1>1 DEF RingTypes, Locals
<1>6. PICK e \in Nat : e = blk[p].end BY <1>1 DEF RingTypes, Locals
<1>7. Size \in Nat /\ Size >= 1 /\ Overhead \in Nat
  BY ConstantsAssumption DEF Overhead
<1>8. /\ pc[p] = "border" /\ Inside(p) /\ lock = p /\ ~blk[p].handle.valid
      /\ blk[p].beg = w /\ n >= 1 /\ e = w + n + Overhead
  BY <1>1, <1>3, <1>5, <1>6 DEF AllocWrap, Reserved, Inside
<1>9. PICK d \in Nat : d = Size - At(w) /\ d >= 1
  <2>1. At(w) \in Slot BY Slots
  <2>. QED BY <1>7, <2>1 DEF Slot
<1>10. /\ mem' = [mem EXCEPT ![At(w)] = FakePrefix(d)]
       /\ blk' = [blk EXCEPT ![p].beg = @ + d, ![p].end = @ + d]
       /\ pc' = [pc EXCEPT ![p] = "reserve"]
       /\ UNCHANGED <<ix_read, ix_write, lock, consVars, outcome>>
       /\ w + 1 - r <= Size
  BY <1>3, <1>4, <1>8, <1>9 DEF AllocWrap, Fits
<1>11. /\ pc'[p] = "reserve" /\ blk'[p].beg = w + d /\ blk'[p].end = e + d
       /\ blk'[p].n = n /\ blk'[p].handle = blk[p].handle /\ blk'[p] \in Locals
       /\ \A q \in Producers : q # p => pc'[q] = pc[q] /\ blk'[q] = blk[q]
  <2>1. \A q \in Producers : q # p => pc'[q] = pc[q] /\ blk'[q] = blk[q]
    BY <1>1, <1>10 DEF RingTypes
  <2>2. pc'[p] = "reserve" BY <1>1, <1>10 DEF RingTypes
  <2>3. PICK rec \in Locals : rec = blk[p] BY <1>1 DEF RingTypes
  <2>4. blk'[p] = [rec EXCEPT !.beg = rec.beg + d, !.end = rec.end + d]
    <3>1. p \in DOMAIN blk BY <1>1 DEF RingTypes
    <3>2. blk[p] = rec /\ rec \in Locals BY <2>3
    <3>. QED BY <1>10, <3>1, <3>2 DEF Locals
  <2>5. rec.beg = w /\ rec.end = e /\ rec.n = n BY <1>5, <1>6, <1>8, <2>3
  <2>6. PICK x \in Nat : x = w + d OBVIOUS
  <2>7. PICK y \in Nat : y = e + d OBVIOUS
  <2>8. blk'[p] = [rec EXCEPT !.beg = x, !.end = y] BY <2>4, <2>5, <2>6, <2>7
  <2>9. /\ blk'[p].beg = x /\ blk'[p].end = y /\ blk'[p].n = rec.n
        /\ blk'[p].handle = rec.handle /\ blk'[p] \in Locals
    BY <2>8 DEF Locals
  <2>. QED BY <2>1, <2>2, <2>3, <2>5, <2>6, <2>7, <2>9
<1>12. RingTypes'
  <2>1. blk' \in [Producers -> Locals] BY <1>1, <1>10, <1>11 DEF RingTypes
  <2>2. DOMAIN mem' = Slot BY <1>1, <1>10 DEF RingTypes
  <2>. QED BY <1>1, <1>10, <2>1, <2>2 DEF RingTypes, consVars
<1>13. r <= w /\ w < r + Size BY <1>1, <1>3, <1>4, <1>7, <1>10 DEF RingTypes
<1>14. View(w)' = Header(d, "fake")
  <2>1. At(w) \in DOMAIN mem BY <1>1, Slots DEF RingTypes
  <2>. QED BY <1>10, <2>1 DEF View, FakePrefix
<1>15. ASSUME NEW i \in Nat, r <= i, i < r + Size, i # w PROVE View(i)' = View(i)
  <2>1. At(i) # At(w) BY <1>1, <1>4, <1>13, <1>15, Window
  <2>2. At(i) \in DOMAIN mem BY <1>1, Slots DEF RingTypes
  <2>. QED BY <1>10, <2>1, <2>2 DEF View
<1>18. \A i \in Nat : ix_read <= i /\ i < ix_write => View(i)' = View(i)
  <2>. SUFFICES ASSUME NEW i \in Nat, r <= i, i < w PROVE View(i)' = View(i)
    BY <1>3, <1>4
  <2>1. i < r + Size /\ i # w BY <1>7, <1>13
  <2>. QED BY <1>15, <2>1
<1>19. \A b \in B : Kept(b) BY <1>1, <1>2, <1>18, WindowKept DEF RingParts
<1>16. RingParts(B)'
  <2>2. \A q \in Producers : Owner(q)' => Owner(q) /\ pc'[q] = pc[q] /\ blk'[q] = blk[q]
    BY <1>11 DEF Owner
  <2>3. Owned(B) BY <1>2 DEF RingParts
  <2>4. \A q \in Producers : pc'[q] = "filled" => blk'[q].handle.valid
    BY <1>11, <2>3 DEF Owned
  <2>. QED BY <1>1, <1>2, <1>10, <1>18, <2>2, <2>4, PartsKept
<1>17. Reserved'
  <2>1. \A q \in Producers : Inside(q)' => q = p
    BY <1>1, <1>8, <1>11, OneInside DEF Inside
  <2>2. ix_write' = w /\ ix_read' = r BY <1>3, <1>4, <1>10
  <2>3. (/\ lock = p /\ ~blk[p].handle.valid /\ pc[p] # "border" /\ pc[p] # "publish"
         /\ blk[p].n >= 1 /\ blk[p].end = blk[p].beg + blk[p].n + Overhead
         /\ ix_write <= blk[p].beg)'
    BY <1>5, <1>7, <1>8, <1>9, <1>10, <1>11, <2>2
  <2>4. (View(ix_write) = Header(blk[p].beg - ix_write, "fake") /\ ix_write < ix_read + Size)'
    <3>1. blk'[p].beg - ix_write' = d BY <1>11, <2>2
    <3>2. View(ix_write)' = View(w)' BY <2>2 DEF View
    <3>3. Header(blk[p].beg - ix_write, "fake")' = Header(d, "fake") BY <3>1 DEF Header, Blank
    <3>. QED BY <1>13, <1>14, <2>2, <3>2, <3>3
  <2>. QED BY <2>1, <2>3, <2>4 DEF Reserved
<1>. QED BY <1>12, <1>16, <1>17, <1>19 DEF Ring

(* allocate writes the prefix and the postfix of the block that fits.      *)
LEMMA ReserveStep ==
  ASSUME NEW B \in SUBSET Nat, Ring(B), NEW p \in Producers, AllocReserve(p)
  PROVE  Ring(B)' /\ \A b \in B : Kept(b)
<1>1. RingTypes /\ Reserved BY DEF Ring
<1>2. RingParts(B) BY DEF Ring
<1>3. PICK w \in Nat : w = ix_write BY <1>1 DEF RingTypes
<1>4. PICK r \in Nat : r = ix_read BY <1>1 DEF RingTypes
<1>5. PICK n \in Nat : n = blk[p].n BY <1>1 DEF RingTypes, Locals
<1>6. PICK b \in Nat : b = blk[p].beg BY <1>1 DEF RingTypes, Locals
<1>7. Size \in Nat /\ Guard \in {0, 1} BY ConstantsAssumption
<1>8. /\ pc[p] = "reserve" /\ Inside(p) /\ lock = p /\ ~blk[p].handle.valid
      /\ n >= 1 /\ blk[p].end = b + n + Overhead /\ w <= b
      /\ w < b => View(w) = Header(b - w, "fake") /\ w < r + Size
  BY <1>1, <1>3, <1>4, <1>5, <1>6 DEF AllocReserve, Reserved, Inside
<1>9. blk[p].end - r <= Size BY <1>4 DEF AllocReserve, Fits
<1>10. b + n + 1 + Guard <= r + Size /\ b + n + 1 + Guard = blk[p].end
  BY <1>7, <1>8, <1>9 DEF Overhead
<1>11. r <= w BY <1>1, <1>3, <1>4 DEF RingTypes
<1>12. PICK l \in Nat : l = b + n + 1 OBVIOUS
<1>13. /\ mem' = [i \in Slot |->
                    CASE i = At(b) -> Header(n, "busy")
                      [] Guard = 1 /\ i = At(l) -> Postfix
                      [] OTHER -> mem[i]]
       /\ pc' = [pc EXCEPT ![p] = "publish"]
       /\ UNCHANGED <<ix_read, ix_write, lock, blk, consVars, outcome>>
  <2>1. Guard = 1 => blk[p].end - 1 = l BY <1>7, <1>10, <1>12
  <2>. QED BY <1>5, <1>6, <2>1 DEF AllocReserve
<1>14. /\ pc'[p] = "publish"
       /\ \A q \in Producers : q # p => pc'[q] = pc[q]
  BY <1>1, <1>13 DEF RingTypes
<1>15. RingTypes'
  <2>1. DOMAIN mem' = Slot BY <1>13
  <2>. QED BY <1>1, <1>13, <2>1 DEF RingTypes, consVars
<1>16. /\ r <= b /\ b < r + Size /\ b < l
       /\ Guard = 1 => l < r + Size
  BY <1>7, <1>8, <1>10, <1>11, <1>12
<1>17. Guard = 1 => At(l) # At(b) BY <1>1, <1>4, <1>16, Window
<1>18. View(b)' = Header(n, "busy") /\ (Guard = 1 => View(l)' = Postfix)
  <2>1. At(b) \in Slot /\ At(l) \in Slot BY Slots
  <2>. QED BY <1>13, <1>17, <2>1 DEF View
<1>19. ASSUME NEW i \in Nat, r <= i, i < r + Size, i # b, i # l PROVE View(i)' = View(i)
  <2>1. At(i) # At(b) /\ (Guard = 1 => At(i) # At(l)) BY <1>1, <1>4, <1>16, <1>19, Window
  <2>2. At(i) \in Slot BY Slots
  <2>. QED BY <1>13, <2>1, <2>2 DEF View
<1>22. \A i \in Nat : ix_read <= i /\ i < ix_write => View(i)' = View(i)
  <2>. SUFFICES ASSUME NEW i \in Nat, r <= i, i < w PROVE View(i)' = View(i)
    BY <1>3, <1>4
  <2>1. i < r + Size /\ i # b /\ i # l BY <1>7, <1>8, <1>16
  <2>. QED BY <1>19, <2>1
<1>23. \A c \in B : Kept(c) BY <1>1, <1>2, <1>22, WindowKept DEF RingParts
<1>20. RingParts(B)'
  <2>2. \A q \in Producers : Owner(q)' => Owner(q) /\ pc'[q] = pc[q] /\ blk'[q] = blk[q]
    BY <1>8, <1>13, <1>14 DEF Owner
  <2>3. Owned(B) BY <1>2 DEF RingParts
  <2>4. \A q \in Producers : pc'[q] = "filled" => blk'[q].handle.valid
    BY <1>13, <1>14, <2>3 DEF Owned
  <2>. QED BY <1>1, <1>2, <1>13, <1>22, <2>2, <2>4, PartsKept
<1>21. Reserved'
  <2>1. \A q \in Producers : Inside(q)' => q = p
    BY <1>1, <1>8, <1>14, OneInside DEF Inside
  <2>2. ix_write' = w /\ ix_read' = r /\ blk'[p] = blk[p] BY <1>3, <1>4, <1>13
  <2>3. (/\ lock = p /\ ~blk[p].handle.valid /\ pc[p] # "border"
         /\ blk[p].n >= 1 /\ blk[p].end = blk[p].beg + blk[p].n + Overhead
         /\ ix_write <= blk[p].beg)'
    BY <1>5, <1>6, <1>8, <1>13, <1>14, <2>2
  <2>4. (ix_write < blk[p].beg => /\ View(ix_write) = Header(blk[p].beg - ix_write, "fake")
                                  /\ ix_write < ix_read + Size)'
    <3>1. w < b => View(w)' = Header(b - w, "fake") /\ w < r + Size
      BY <1>8, <1>11, <1>16, <1>19
    <3>2. View(ix_write)' = View(w)' BY <2>2 DEF View
    <3>3. Header(blk[p].beg - ix_write, "fake")' = Header(b - w, "fake")
      BY <1>6, <2>2 DEF Header, Blank
    <3>. QED BY <1>6, <2>2, <3>1, <3>2, <3>3
  <2>5. (blk[p].end <= ix_read + Size)' BY <1>10, <2>2
  <2>6. (View(blk[p].beg) = Header(blk[p].n, "busy"))'
    <3>1. View(blk[p].beg)' = View(b)' BY <1>6, <2>2 DEF View
    <3>2. Header(blk[p].n, "busy")' = Header(n, "busy") BY <1>5, <2>2 DEF Header, Blank
    <3>. QED BY <1>18, <3>1, <3>2
  <2>7. (Guard = 1 => View(blk[p].beg + blk[p].n + 1) = Postfix)'
    <3>1. View(blk[p].beg + blk[p].n + 1)' = View(l)' BY <1>5, <1>6, <1>12, <2>2 DEF View
    <3>. QED BY <1>18, <3>1 DEF Postfix, Blank
  <2>. QED BY <2>1, <2>3, <2>4, <2>5, <2>6, <2>7 DEF Reserved
<1>. QED BY <1>15, <1>20, <1>21, <1>23 DEF Ring

(* allocate publishes its block, and the fake block before it.             *)
LEMMA PublishStep ==
  ASSUME NEW B \in SUBSET Nat, Ring(B), NEW p \in Producers, AllocPublish(p),
         NEW C, C = B \cup {blk[p].beg} \cup {ix_write}
  PROVE  C \in SUBSET Nat /\ Ring(C)'
<1>1. RingTypes /\ Reserved BY DEF Ring
<1>2. RingParts(B) BY DEF Ring
<1>3. Covered(B) /\ Formed(B) /\ Committed(B) /\ Owned(B) /\ Consumed(B)
  BY <1>2 DEF RingParts
<1>4. PICK w \in Nat : w = ix_write BY <1>1 DEF RingTypes
<1>5. PICK r \in Nat : r = ix_read BY <1>1 DEF RingTypes
<1>6. PICK n \in Nat : n = blk[p].n BY <1>1 DEF RingTypes, Locals
<1>7. PICK b \in Nat : b = blk[p].beg BY <1>1 DEF RingTypes, Locals
<1>8. PICK e \in Nat : e = blk[p].end BY <1>1 DEF RingTypes, Locals
<1>9. PICK m \in Nat : m = Len(outcome) + 1 BY <1>1 DEF RingTypes
<1>10. Size \in Nat /\ Overhead \in Nat /\ Overhead >= 1
  BY ConstantsAssumption DEF Overhead
<1>11. /\ pc[p] = "publish" /\ Inside(p) /\ lock = p
       /\ n >= 1 /\ e = b + n + Overhead /\ w <= b
       /\ w < b => View(w) = Header(b - w, "fake")
       /\ e <= r + Size /\ View(b) = Header(n, "busy")
       /\ Guard = 1 => View(b + n + 1) = Postfix
  BY <1>1, <1>4, <1>5, <1>6, <1>7, <1>8 DEF AllocPublish, Reserved, Inside
<1>12. PICK h : h = [valid |-> TRUE, at |-> At(b)] OBVIOUS
<1>13. /\ ix_write' = e
       /\ blk' = [blk EXCEPT ![p].msg = m, ![p].handle = h]
       /\ outcome' = Append(outcome, "pending") /\ lock' = NoOne
       /\ pc' = [pc EXCEPT ![p] = "own"] /\ UNCHANGED <<mem, ix_read, consVars>>
  BY <1>7, <1>8, <1>9, <1>12 DEF AllocPublish, WriteEnd
<1>14. /\ pc'[p] = "own" /\ blk'[p].msg = m /\ blk'[p].handle = h
       /\ blk'[p].beg = b /\ blk'[p].n = n /\ blk'[p] \in Locals
       /\ \A q \in Producers : q # p => pc'[q] = pc[q] /\ blk'[q] = blk[q]
  <2>1. \A q \in Producers : q # p => pc'[q] = pc[q] /\ blk'[q] = blk[q]
    BY <1>1, <1>13 DEF RingTypes
  <2>2. pc'[p] = "own" BY <1>1, <1>13 DEF RingTypes
  <2>3. PICK rec \in Locals : rec = blk[p] BY <1>1 DEF RingTypes
  <2>4. blk'[p] = [rec EXCEPT !.msg = m, !.handle = h]
    <3>1. p \in DOMAIN blk BY <1>1 DEF RingTypes
    <3>. QED BY <1>13, <2>3, <3>1 DEF Locals
  <2>5. h \in [valid : BOOLEAN, at : Nat]
    <3>1. At(b) \in Nat BY <1>10, Slots DEF Slot
    <3>. QED BY <1>12, <3>1
  <2>6. /\ blk'[p].msg = m /\ blk'[p].handle = h /\ blk'[p].n = rec.n
        /\ blk'[p].beg = rec.beg /\ blk'[p] \in Locals
    BY <2>4, <2>5 DEF Locals
  <2>. QED BY <1>6, <1>7, <2>1, <2>2, <2>3, <2>6
<1>15. /\ outcome' \in Seq({"pending"} \cup Resolved) /\ m \notin DOMAIN outcome
       /\ m \in DOMAIN outcome' /\ outcome'[m] = "pending"
       /\ \A k \in DOMAIN outcome : k \in DOMAIN outcome' /\ outcome'[k] = outcome[k]
  BY <1>1, <1>9, <1>13 DEF RingTypes
<1>16. RingTypes'
  <2>1. blk' \in [Producers -> Locals] BY <1>1, <1>13, <1>14 DEF RingTypes
  <2>2. r <= e /\ e <= r + Size BY <1>1, <1>4, <1>5, <1>10, <1>11 DEF RingTypes
  <2>3. (ix_read \in Nat /\ ix_write \in Nat /\ ix_read <= ix_write
         /\ ix_write <= ix_read + Size)'
    BY <1>5, <1>13, <2>2
  <2>. QED BY <1>1, <1>13, <1>15, <2>1, <2>3 DEF RingTypes, consVars
<1>17. Reserved'
  <2>1. \A q \in Producers : ~Inside(q)'
    BY <1>1, <1>11, <1>14, OneInside DEF Inside
  <2>. QED BY <2>1 DEF Reserved
<1>0. C = B \cup {b} \cup {w} BY <1>4, <1>7
<1>. USE <1>0
<1>18. \A i : View(i)' = View(i) /\ Ends(i)' = Ends(i) BY <1>13 DEF View, Ends, Extent
<1>19. Ends(b) = e /\ View(b).size = n /\ View(b).state = "busy"
  BY <1>10, <1>11 DEF Ends, Extent, Header, Blank
<1>20. w < b => Ends(w) = b /\ View(w).size = b - w /\ View(w).state = "fake"
  <2>. SUFFICES ASSUME w < b
                PROVE  Ends(w) = b /\ View(w).size = b - w /\ View(w).state = "fake"
    OBVIOUS
  <2>1. PICK d \in Int : d = b - w OBVIOUS
  <2>2. View(w).size = d /\ View(w).state = "fake" BY <1>11, <2>1 DEF Header, Blank
  <2>3. Ends(w) = w + d BY <2>2 DEF Ends, Extent
  <2>. QED BY <2>1, <2>2, <2>3
<1>21. /\ r <= w
       /\ \A c \in B : /\ c \in Nat /\ r <= c /\ c < Ends(c) /\ Ends(c) <= w
                       /\ Ends(c) = w \/ Ends(c) \in B
       /\ \A a, c \in B : a < c => Ends(a) <= c
  BY <1>1, <1>3, <1>4, <1>5 DEF Covered, RingTypes
<1>22. \A c \in B : Ends(c) \in Int
  BY <1>3, <1>10 DEF Covered, Formed, Ends, Extent
<1>23. \A c \in B : c < w BY <1>21, <1>22
<1>24. b < e BY <1>10, <1>11
<1>25. \A c \in C : c \in B \/ c = b \/ (c = w /\ w < b) BY <1>11
<1>26. Covered(C)'
  <2>1. \A c \in C : /\ r <= c /\ c < Ends(c) /\ Ends(c) <= e
                     /\ Ends(c) = e \/ Ends(c) \in C
    <3>. SUFFICES ASSUME NEW c \in C
                  PROVE  /\ r <= c /\ c < Ends(c) /\ Ends(c) <= e
                         /\ Ends(c) = e \/ Ends(c) \in C
      OBVIOUS
    <3>1. CASE c \in B
      <4>1. /\ c \in Nat /\ r <= c /\ c < Ends(c) /\ Ends(c) <= w
            /\ Ends(c) = w \/ Ends(c) \in B
        BY <1>21, <3>1
      <4>2. Ends(c) <= e BY <1>11, <1>22, <1>24, <3>1, <4>1
      <4>. QED BY <4>1, <4>2
    <3>2. CASE c = b BY <3>2, <1>11, <1>19, <1>21, <1>24
    <3>3. CASE c = w /\ w < b BY <3>3, <1>20, <1>21, <1>24
    <3>. QED BY <1>25, <3>1, <3>2, <3>3
  <2>2. \A a, c \in C : a < c => Ends(a) <= c
    <3>. SUFFICES ASSUME NEW a \in C, NEW c \in C, a < c PROVE Ends(a) <= c
      OBVIOUS
    <3>1. CASE a \in B /\ c \in B BY <3>1, <1>21
    <3>2. CASE a \in B /\ c \notin B BY <3>2, <1>11, <1>21, <1>22, <1>25
    <3>3. CASE a = b BY <3>3, <1>11, <1>23, <1>25
    <3>4. CASE a = w /\ w < b BY <3>4, <1>20, <1>23, <1>25
    <3>. QED BY <1>25, <3>1, <3>2, <3>3, <3>4
  <2>3. r = w \/ r \in B BY <1>3, <1>4, <1>5 DEF Covered
  <2>. QED BY <1>5, <1>13, <1>18, <2>1, <2>2, <2>3 DEF Covered
<1>27. Formed(C)'
  <2>. SUFFICES ASSUME NEW c \in C
                PROVE  /\ View(c) = Header(View(c).size, View(c).state)
                       /\ View(c).size \in Nat /\ View(c).state \in State
                       /\ View(c).state # "fake" =>
                            /\ View(c).size >= 1
                            /\ Guard = 1 => View(c + View(c).size + 1) = Postfix
    <3>1. \A c : View(c + View(c).size + 1)' = View(c + View(c).size + 1) BY <1>13 DEF View
    <3>. QED BY <1>18, <3>1 DEF Formed, Header, Postfix, Blank
  <2>1. CASE c \in B BY <1>3, <2>1 DEF Formed
  <2>2. CASE c = b BY <1>11, <1>19, <2>2 DEF State
  <2>3. CASE c = w /\ w < b BY <1>11, <1>20, <2>3 DEF State
  <2>. QED BY <1>25, <2>1, <2>2, <2>3
<1>28. \A c, k : Filled(c, k)' <=> Filled(c, k) BY <1>13 DEF Filled, View
<1>29. Committed(C)'
  <2>1. \A c \in C : View(c).state = "commited" => c \in B BY <1>19, <1>20, <1>25
  <2>. QED BY <1>3, <1>15, <1>18, <1>28, <2>1 DEF Committed
<1>30. Owned(C)'
  <2>1. \A q \in Producers : Owner(q)' /\ q # p => Owner(q) BY <1>14 DEF Owner
  <2>2. \A q \in Producers : Owner(q)' /\ q # p =>
          /\ blk[q].beg \in B /\ blk[q].beg # b
          /\ blk[q].msg \in DOMAIN outcome /\ blk[q].msg # m
    BY <1>3, <1>11, <1>15, <1>23, <2>1 DEF Owned
  <2>3. ASSUME NEW q \in Producers, pc'[q] = "filled" PROVE blk'[q].handle.valid
    BY <1>3, <1>14, <2>3 DEF Owned
  <2>4. ASSUME NEW q \in Producers, Owner(q)'
        PROVE  \A o \in Producers : Owner(o)' /\ o # q =>
                 blk'[o].beg # blk'[q].beg /\ blk'[o].msg # blk'[q].msg
    <3>1. CASE q = p BY <1>14, <2>2, <3>1
    <3>2. CASE q # p BY <1>3, <1>14, <2>1, <2>2, <2>4, <3>2 DEF Owned
    <3>. QED BY <3>1, <3>2
  <2>5. ASSUME NEW q \in Producers, Owner(q)'
        PROVE  (/\ blk[q].beg \in C /\ blk[q].handle.at = At(blk[q].beg)
                /\ View(blk[q].beg).size = blk[q].n /\ View(blk[q].beg).state = "busy"
                /\ blk[q].msg \in DOMAIN outcome /\ outcome[blk[q].msg] = "pending"
                /\ pc[q] = "filled" => Filled(blk[q].beg, blk[q].msg))'
    <3>1. CASE q = p
      <4>1. /\ blk'[p].beg \in C /\ blk'[p].handle.at = At(blk'[p].beg)
            /\ blk'[p].msg \in DOMAIN outcome' /\ outcome'[blk'[p].msg] = "pending"
            /\ pc'[p] # "filled"
        BY <1>12, <1>14, <1>15
      <4>2. View(blk[p].beg)' = View(b) BY <1>13, <1>14 DEF View
      <4>. QED BY <1>14, <1>19, <3>1, <4>1, <4>2
    <3>2. CASE q # p
      <4>1. Owner(q) /\ pc'[q] = pc[q] /\ blk'[q] = blk[q] BY <1>14, <2>1, <2>5, <3>2
      <4>2. View(blk[q].beg)' = View(blk[q].beg) BY <1>13, <4>1 DEF View
      <4>3. Filled(blk[q].beg, blk[q].msg)' <=> Filled(blk[q].beg, blk[q].msg)
        BY <1>13, <4>1 DEF Filled, View
      <4>. QED BY <1>3, <1>15, <4>1, <4>2, <4>3 DEF Owned
    <3>. QED BY <3>1, <3>2
  <2>. QED BY <2>3, <2>4, <2>5 DEF Owned
<1>31. Consumed(C)'
  <2>1. cpc' = cpc /\ readIx' = readIx /\ held' = held BY <1>13 DEF consVars
  <2>2. cpc \in {"peek", "free"} =>
          /\ readIx \in C
          /\ \A c \in C : c < readIx => View(c).state \in PassedOver
    <3>. SUFFICES ASSUME cpc \in {"peek", "free"}
                  PROVE  /\ readIx \in C
                         /\ \A c \in C : c < readIx => View(c).state \in PassedOver
      OBVIOUS
    <3>1. /\ readIx = w \/ readIx \in B
          /\ \A c \in B : c < readIx => View(c).state \in PassedOver
      BY <1>3, <1>4 DEF Consumed
    <3>2. readIx \in Nat /\ readIx <= w
      <4>1. CASE readIx = w BY <4>1
      <4>2. CASE readIx \in B
        <5>1. readIx \in Nat /\ readIx < w BY <1>23, <4>2
        <5>. QED BY <5>1
      <4>. QED BY <3>1, <4>1, <4>2
    <3>3. \A c \in C : c < readIx => c \in B BY <1>11, <1>25, <3>2
    <3>. QED BY <3>1, <3>3
  <2>3. cpc \in {"held", "free"} =>
          /\ held \in C /\ View(held).state = "commited"
          /\ \A c \in C : c < held => View(c).state \in PassedOver
    <3>. SUFFICES ASSUME cpc \in {"held", "free"}
                  PROVE  /\ held \in C /\ View(held).state = "commited"
                         /\ \A c \in C : c < held => View(c).state \in PassedOver
      OBVIOUS
    <3>1. /\ held \in B /\ View(held).state = "commited"
          /\ \A c \in B : c < held => View(c).state \in PassedOver
      BY <1>3 DEF Consumed
    <3>2. held \in Nat /\ held < w BY <1>23, <3>1
    <3>3. \A c \in C : c < held => c \in B BY <1>11, <1>25, <3>2
    <3>. QED BY <3>1, <3>3
  <2>4. View(held)' = View(held) BY <1>13, <2>1 DEF View
  <2>. QED BY <1>18, <2>1, <2>2, <2>3, <2>4 DEF Consumed
<1>32. C \in SUBSET Nat OBVIOUS
<1>. QED BY <1>16, <1>17, <1>26, <1>27, <1>29, <1>30, <1>31, <1>32 DEF Ring, RingParts

-----------------------------------------------------------------------------
(* The owner of a block                                                    *)

(* Writing into one block keeps the others.                                *)
LEMMA OthersKept ==
  ASSUME RingTypes, NEW B \in SUBSET Nat, Covered(B), Formed(B), NEW b \in B,
         \A i \in Nat : ix_read <= i /\ i < ix_write /\ (i < b \/ Ends(b) <= i) =>
                        View(i)' = View(i),
         NEW c \in B, c # b
  PROVE  Kept(c)
<1>1. ix_read \in Int /\ ix_write \in Int BY DEF RingTypes
<1>2. \A a \in B : a \in Nat /\ Ends(a) \in Int
  BY ConstantsAssumption DEF Covered, Formed, Ends, Extent, Overhead
<1>3. ix_read <= c /\ Ends(c) <= ix_write /\ (Ends(c) <= b \/ Ends(b) <= c)
  BY <1>2 DEF Covered
<1>4. ASSUME NEW i \in Nat, c <= i, i < Ends(c) PROVE View(i)' = View(i)
  <2>1. ix_read <= i /\ i < ix_write BY <1>1, <1>2, <1>3, <1>4
  <2>2. i < b \/ Ends(b) <= i BY <1>2, <1>3, <1>4
  <2>. QED BY <2>1, <2>2
<1>. QED BY <1>4, BlockKept

(* The block of an owner is one of the blocks of the buffer.               *)
LEMMA OwnerBlock ==
  ASSUME RingTypes, NEW B \in SUBSET Nat, RingParts(B), NEW p \in Producers, Owner(p),
         NEW b \in Nat, b = blk[p].beg, NEW n \in Nat, n = blk[p].n
  PROVE  /\ b \in B /\ n >= 1 /\ View(b) = Header(n, "busy")
         /\ View(b).size = n /\ View(b).state = "busy"
         /\ Guard = 1 => View(b + n + 1) = Postfix
         /\ Ends(b) = b + n + 1 + Guard /\ ix_read <= b /\ Ends(b) <= ix_write
<1>1. b \in B /\ View(b).size = n /\ View(b).state = "busy" BY DEF RingParts, Owned
<1>2. View(b) = Header(n, "busy") /\ n >= 1 /\ (Guard = 1 => View(b + n + 1) = Postfix)
  BY <1>1 DEF RingParts, Formed
<1>3. ix_read <= b /\ Ends(b) <= ix_write BY <1>1 DEF RingParts, Covered
<1>4. Ends(b) = b + n + 1 + Guard
  BY <1>1, ConstantsAssumption DEF Ends, Extent, Overhead
<1>. QED BY <1>1, <1>2, <1>3, <1>4

(* The owner writes its message.                                           *)
LEMMA FillStep ==
  ASSUME NEW B \in SUBSET Nat, Ring(B), NEW p \in Producers, Fill(p)
  PROVE  /\ Ring(B)'
         /\ \A b \in Nat : \A m : b = blk[p].beg /\ m = blk[p].msg =>
              /\ \A c \in B : c # b => Kept(c)
              /\ View(b)' = View(b) /\ View(b + 1)' = Data(m)
<1>1. RingTypes /\ Reserved BY DEF Ring
<1>2. RingParts(B) BY DEF Ring
<1>3. Covered(B) /\ Formed(B) /\ Committed(B) /\ Owned(B) /\ Consumed(B)
  BY <1>2 DEF RingParts
<1>4. PICK w \in Nat : w = ix_write BY <1>1 DEF RingTypes
<1>5. PICK r \in Nat : r = ix_read BY <1>1 DEF RingTypes
<1>6. PICK n \in Nat : n = blk[p].n BY <1>1 DEF RingTypes, Locals
<1>7. PICK b \in Nat : b = blk[p].beg BY <1>1 DEF RingTypes, Locals
<1>8. PICK m \in Nat : m = blk[p].msg BY <1>1 DEF RingTypes, Locals
<1>9. Size \in Nat /\ Guard \in {0, 1} BY ConstantsAssumption
<1>10. Owner(p) /\ pc[p] = "own" BY DEF Fill, Owner
<1>11. /\ b \in B /\ n >= 1 /\ View(b) = Header(n, "busy")
       /\ View(b).size = n /\ View(b).state = "busy"
       /\ Guard = 1 => View(b + n + 1) = Postfix
       /\ Ends(b) = b + n + 1 + Guard /\ ix_read <= b /\ Ends(b) <= ix_write
  BY <1>1, <1>2, <1>6, <1>7, <1>10, OwnerBlock
<1>12. r <= b /\ b + n + 1 + Guard <= w /\ w <= r + Size
  BY <1>1, <1>4, <1>5, <1>11 DEF RingTypes
<1>13. /\ mem' = [i \in Slot |-> IF i \in {At(b + k) : k \in 1 .. n} THEN Data(m) ELSE mem[i]]
       /\ pc' = [pc EXCEPT ![p] = "filled"]
       /\ UNCHANGED <<ix_read, ix_write, lock, blk, consVars, outcome>>
  BY <1>6, <1>7, <1>8 DEF Fill
<1>14. pc'[p] = "filled" /\ \A q \in Producers : q # p => pc'[q] = pc[q]
  BY <1>1, <1>13 DEF RingTypes
<1>15. RingTypes'
  <2>1. DOMAIN mem' = Slot BY <1>13
  <2>. QED BY <1>1, <1>13, <2>1 DEF RingTypes, consVars
<1>16. ASSUME NEW k \in 1 .. n PROVE View(b + k)' = Data(m)
  <2>1. At(b + k) \in Slot BY Slots
  <2>. QED BY <1>13, <2>1 DEF View
<1>17. ASSUME NEW i \in Nat, r <= i, i < r + Size, i <= b \/ b + n < i
       PROVE  View(i)' = View(i)
  <2>1. ASSUME NEW k \in 1 .. n PROVE At(i) # At(b + k)
    <3>1. /\ b + k \in Nat /\ r <= b + k /\ b + k < r + Size /\ b + k # i
      BY <1>9, <1>12, <1>17
    <3>. QED BY <1>1, <1>5, <1>17, <3>1, Window
  <2>2. At(i) \in Slot BY Slots
  <2>3. At(i) \notin {At(b + k) : k \in 1 .. n} BY <2>1
  <2>. QED BY <1>13, <2>2, <2>3 DEF View
<1>18. \A c \in B : c # b => Kept(c)
  <2>1. ASSUME NEW i \in Nat, ix_read <= i, i < ix_write, i < b \/ Ends(b) <= i
        PROVE  View(i)' = View(i)
    <3>1. r <= i /\ i < r + Size /\ (i <= b \/ b + n < i)
      BY <1>4, <1>5, <1>9, <1>11, <1>12, <2>1
    <3>. QED BY <1>17, <3>1
  <2>. QED BY <1>1, <1>3, <1>11, <2>1, OthersKept
<1>19. View(b)' = View(b)
  <2>1. b < r + Size BY <1>9, <1>12
  <2>. QED BY <1>12, <1>17, <2>1
<1>20. Guard = 1 => View(b + n + 1)' = Postfix
  <2>. SUFFICES ASSUME Guard = 1 PROVE View(b + n + 1)' = Postfix OBVIOUS
  <2>1. b + n + 1 \in Nat /\ r <= b + n + 1 /\ b + n + 1 < r + Size /\ b + n < b + n + 1
    BY <1>9, <1>12
  <2>2. View(b + n + 1)' = View(b + n + 1) BY <1>17, <2>1
  <2>. QED BY <1>11, <2>2
<1>21. \A c \in B : View(c)' = View(c) /\ Ends(c)' = Ends(c)
  <2>1. \A c \in B : View(c)' = View(c) BY <1>18, <1>19 DEF Kept
  <2>. QED BY <2>1 DEF Ends, Extent
<1>22. Covered(B)' BY <1>3, <1>13, <1>21 DEF Covered
<1>23. Formed(B)'
  <2>1. \A c \in B : c # b =>
          (View(c).state # "fake" /\ Guard = 1 => View(c + View(c).size + 1) = Postfix)'
    BY <1>3, <1>18, KeptFacts
  <2>2. (Guard = 1 => View(b + View(b).size + 1) = Postfix)'
    <3>1. View(b)'.size = n BY <1>11, <1>19
    <3>. QED BY <1>20, <3>1 DEF View
  <2>3. \A c \in B :
          (View(c).state # "fake" /\ Guard = 1 => View(c + View(c).size + 1) = Postfix)'
    BY <2>1, <2>2
  <2>. QED BY <1>3, <1>21, <2>3 DEF Formed
<1>24. \A c \in B : c # b =>
         \A k : View(c).state # "fake" /\ Filled(c, k) => Filled(c, k)'
  BY <1>3, <1>18, KeptFacts
<1>25. Committed(B)'
  <2>1. \A c \in B : View(c).state = "commited" => c # b BY <1>11
  <2>. QED BY <1>3, <1>13, <1>21, <1>24, <2>1 DEF Committed
<1>26. Filled(b, m)'
  <2>1. View(b)'.size = n BY <1>11, <1>19
  <2>. QED BY <1>16, <2>1 DEF Filled
<1>27. Owned(B)'
  <2>1. \A q \in Producers : (Owner(q)' <=> Owner(q)) /\ blk'[q] = blk[q]
    BY <1>10, <1>13, <1>14 DEF Owner
  <2>2. \A q \in Producers : pc'[q] = "filled" => blk'[q].handle.valid
    BY <1>3, <1>10, <1>13, <1>14 DEF Owned, Owner
  <2>3. ASSUME NEW q \in Producers, Owner(q)
        PROVE  (/\ blk[q].beg \in B /\ blk[q].handle.at = At(blk[q].beg)
                /\ blk[q].msg \in DOMAIN outcome /\ outcome[blk[q].msg] = "pending")'
    BY <1>3, <1>13, <2>1, <2>3 DEF Owned
  <2>4. ASSUME NEW q \in Producers, Owner(q)
        PROVE  (View(blk[q].beg).size = blk[q].n /\ View(blk[q].beg).state = "busy")'
    <3>1. PICK c \in B : c = blk[q].beg BY <1>3, <2>4 DEF Owned
    <3>2. View(c)' = View(c) BY <1>21
    <3>3. View(blk[q].beg)' = View(c)' BY <2>1, <3>1 DEF View
    <3>. QED BY <1>3, <2>1, <2>4, <3>1, <3>2, <3>3 DEF Owned
  <2>5. ASSUME NEW q \in Producers, Owner(q), pc'[q] = "filled"
        PROVE  Filled(blk[q].beg, blk[q].msg)'
    <3>1. CASE q = p BY <1>7, <1>8, <1>26, <2>1, <3>1 DEF Filled
    <3>2. CASE q # p
      <4>1. PICK c \in B : c = blk[q].beg BY <1>3, <2>5 DEF Owned
      <4>2. PICK k : k = blk[q].msg OBVIOUS
      <4>3. c # b /\ View(c).state = "busy" /\ Filled(c, k)
        BY <1>3, <1>7, <1>10, <1>14, <2>5, <3>2, <4>1, <4>2 DEF Owned
      <4>4. Filled(c, k)' BY <1>24, <4>3
      <4>. QED BY <2>1, <4>1, <4>2, <4>4 DEF Filled
    <3>. QED BY <3>1, <3>2
  <2>6. ASSUME NEW q \in Producers, Owner(q), NEW o \in Producers, Owner(o), o # q
        PROVE  (blk[o].beg # blk[q].beg /\ blk[o].msg # blk[q].msg)'
    BY <1>3, <2>1, <2>6 DEF Owned
  <2>. QED BY <2>1, <2>2, <2>3, <2>4, <2>5, <2>6 DEF Owned
<1>28. Consumed(B)'
  <2>1. cpc' = cpc /\ readIx' = readIx /\ held' = held /\ ix_write' = ix_write
    BY <1>13 DEF consVars
  <2>2. held \in B => View(held)' = View(held) BY <1>21, <2>1 DEF View
  <2>. QED BY <1>3, <1>21, <2>1, <2>2 DEF Consumed
<1>29. Reserved'
  <2>1. ASSUME NEW i \in Nat, ix_write <= i, i < ix_read + Size PROVE View(i)' = View(i)
    <3>1. r <= i /\ i < r + Size /\ b + n < i BY <1>4, <1>5, <1>9, <1>12, <2>1
    <3>. QED BY <1>17, <3>1
  <2>2. \A q \in Producers : Inside(q)' =>
          Inside(q) /\ pc'[q] = pc[q] /\ blk'[q] = blk[q] /\ lock' = lock
    BY <1>13, <1>14 DEF Inside
  <2>3. ix_read' \in Nat /\ ix_read <= ix_read' /\ ix_write' = ix_write BY <1>5, <1>13
  <2>. QED BY <1>1, <2>1, <2>2, <2>3, ReservedKept
<1>30. View(b + 1)' = Data(m)
  <2>1. 1 \in 1 .. n BY <1>11
  <2>. QED BY <1>16, <2>1
<1>31. Ring(B)'
  BY <1>15, <1>22, <1>23, <1>25, <1>27, <1>28, <1>29 DEF Ring, RingParts
<1>. QED BY <1>7, <1>8, <1>18, <1>19, <1>30, <1>31

(* Only the state of a prefix changes when its block is resolved.          *)
LEMMA HeaderState ==
  ASSUME NEW n, NEW s, NEW u
  PROVE  /\ [Header(n, u) EXCEPT !.state = s] = Header(n, s)
         /\ Header(n, s).size = n /\ Header(n, s).state = s
BY DEF Header, Blank

(* The owner commits or skips its block.                                   *)
LEMMA ResolveBlock ==
  ASSUME NEW B \in SUBSET Nat, Ring(B), NEW p \in Producers, NEW s \in Resolved, Owner(p), Resolve(p, s),
         s = "commited" => pc[p] = "filled"
  PROVE  /\ Ring(B)'
         /\ \A b \in Nat : \A n : b = blk[p].beg /\ n = blk[p].n =>
              /\ \A c \in B : c # b => Kept(c)
              /\ View(b)' = Header(n, s) /\ View(b + 1)' = View(b + 1)
<1>1. RingTypes /\ Reserved BY DEF Ring
<1>2. RingParts(B) BY DEF Ring
<1>3. Covered(B) /\ Formed(B) /\ Committed(B) /\ Owned(B) /\ Consumed(B)
  BY <1>2 DEF RingParts
<1>4. PICK w \in Nat : w = ix_write BY <1>1 DEF RingTypes
<1>5. PICK r \in Nat : r = ix_read BY <1>1 DEF RingTypes
<1>6. PICK n \in Nat : n = blk[p].n BY <1>1 DEF RingTypes, Locals
<1>7. PICK b \in Nat : b = blk[p].beg BY <1>1 DEF RingTypes, Locals
<1>8. PICK m \in Nat : m = blk[p].msg BY <1>1 DEF RingTypes, Locals
<1>9. Size \in Nat /\ Guard \in {0, 1} BY ConstantsAssumption
<1>10. s # "busy" /\ s # "fake" /\ s # "pending" /\ s \in State BY DEF Resolved, State
<1>11. /\ b \in B /\ n >= 1 /\ View(b) = Header(n, "busy")
       /\ View(b).size = n /\ View(b).state = "busy"
       /\ Guard = 1 => View(b + n + 1) = Postfix
       /\ Ends(b) = b + n + 1 + Guard /\ ix_read <= b /\ Ends(b) <= ix_write
  BY <1>1, <1>2, <1>6, <1>7, OwnerBlock
<1>12. r <= b /\ b + n + 1 + Guard <= w /\ w <= r + Size
  BY <1>1, <1>4, <1>5, <1>11 DEF RingTypes
<1>13. blk[p].handle.at = At(b) /\ m \in DOMAIN outcome /\ outcome[m] = "pending"
  BY <1>3, <1>7, <1>8 DEF Owned
<1>14. /\ mem' = [mem EXCEPT ![At(b)] = [mem[At(b)] EXCEPT !.state = s]]
       /\ outcome' = [outcome EXCEPT ![m] = s]
       /\ pc' = [pc EXCEPT ![p] = "idle"] /\ blk' = [blk EXCEPT ![p] = NoBlock]
       /\ UNCHANGED <<ix_read, ix_write, lock, consVars>>
  BY <1>8, <1>13 DEF Resolve, UpdateBlockState, Acts, Owner
<1>15. /\ pc'[p] = "idle" /\ blk'[p] = NoBlock
       /\ \A q \in Producers : q # p => pc'[q] = pc[q] /\ blk'[q] = blk[q]
  BY <1>1, <1>14 DEF RingTypes
<1>16. NoBlock \in Locals /\ ~NoBlock.handle.valid BY DEF NoBlock, Locals, InvalidHandle
<1>17. /\ DOMAIN outcome' = DOMAIN outcome /\ outcome'[m] = s
       /\ \A k \in DOMAIN outcome : k # m => outcome'[k] = outcome[k]
       /\ outcome' \in Seq({"pending"} \cup Resolved)
  BY <1>1, <1>13, <1>14 DEF RingTypes
<1>18. RingTypes'
  <2>1. DOMAIN mem' = Slot BY <1>1, <1>14 DEF RingTypes
  <2>. QED BY <1>1, <1>14, <1>16, <1>17, <2>1 DEF RingTypes, consVars
<1>19. View(b)' = Header(n, s)
  <2>1. At(b) \in DOMAIN mem BY <1>1, Slots DEF RingTypes
  <2>2. View(b)' = [View(b) EXCEPT !.state = s] BY <1>14, <2>1 DEF View
  <2>3. View(b)' = [Header(n, "busy") EXCEPT !.state = s] BY <1>11, <2>2
  <2>. QED BY <2>3, HeaderState
<1>20. View(b)'.size = n /\ View(b)'.state = s BY <1>19, HeaderState
<1>21. ASSUME NEW i \in Nat, r <= i, i < r + Size, i # b PROVE View(i)' = View(i)
  <2>1. At(i) # At(b)
    <3>1. b < r + Size BY <1>9, <1>12
    <3>. QED BY <1>1, <1>5, <1>12, <1>21, <3>1, Window
  <2>2. At(i) \in DOMAIN mem BY <1>1, Slots DEF RingTypes
  <2>. QED BY <1>14, <2>1, <2>2 DEF View
<1>22. \A c \in B : c # b => Kept(c)
  <2>1. ASSUME NEW i \in Nat, ix_read <= i, i < ix_write, i < b \/ Ends(b) <= i
        PROVE  View(i)' = View(i)
    <3>1. r <= i /\ i < r + Size /\ i # b
      BY <1>4, <1>5, <1>9, <1>11, <1>12, <2>1
    <3>. QED BY <1>21, <3>1
  <2>. QED BY <1>1, <1>3, <1>11, <2>1, OthersKept
<1>23. ASSUME NEW k \in 1 .. n + Guard PROVE View(b + k)' = View(b + k)
  <2>1. b + k \in Nat /\ r <= b + k /\ b + k < r + Size /\ b + k # b BY <1>9, <1>12
  <2>. QED BY <1>21, <2>1
<1>24. \A c \in B : c # b => View(c)' = View(c) BY <1>22 DEF Kept
<1>25. \A c \in B : Ends(c)' = Ends(c)
  <2>1. Ends(b)' = b + n + 1 + Guard BY <1>9, <1>10, <1>20 DEF Ends, Extent, Overhead
  <2>. QED BY <1>11, <1>24, <2>1 DEF Ends, Extent
<1>26. Covered(B)' BY <1>3, <1>14, <1>25 DEF Covered
<1>27. Formed(B)'
  <2>1. \A c \in B : c # b =>
          (View(c).state # "fake" /\ Guard = 1 => View(c + View(c).size + 1) = Postfix)'
    BY <1>3, <1>22, KeptFacts
  <2>2. (Guard = 1 => View(b + View(b).size + 1) = Postfix)'
    <3>. SUFFICES ASSUME Guard = 1 PROVE View(b + View(b).size + 1)' = Postfix OBVIOUS
    <3>1. n + 1 \in 1 .. n + Guard /\ b + (n + 1) = b + n + 1 BY <1>9
    <3>2. View(b + n + 1)' = Postfix BY <1>11, <1>23, <3>1
    <3>. QED BY <1>20, <3>2 DEF View
  <2>3. ASSUME NEW c \in B, c # b
        PROVE  (/\ View(c) = Header(View(c).size, View(c).state)
                /\ View(c).size \in Nat /\ View(c).state \in State
                /\ View(c).state # "fake" => View(c).size >= 1)'
    <3>1. View(c)' = View(c) BY <1>24, <2>3
    <3>. QED BY <1>3, <3>1 DEF Formed
  <2>4. (/\ View(b) = Header(View(b).size, View(b).state)
         /\ View(b).size \in Nat /\ View(b).state \in State /\ View(b).size >= 1)'
    BY <1>10, <1>11, <1>19, <1>20
  <2>. QED BY <2>1, <2>2, <2>3, <2>4 DEF Formed
<1>28. \A c \in B : c # b =>
         \A k : View(c).state # "fake" /\ Filled(c, k) => Filled(c, k)'
  BY <1>3, <1>22, KeptFacts
<1>29. Committed(B)'
  <2>. SUFFICES ASSUME NEW c \in B, View(c)'.state = "commited"
                PROVE  \E k \in DOMAIN outcome' : outcome'[k] = "commited" /\ Filled(c, k)'
    BY DEF Committed
  <2>1. CASE c = b
    <3>1. s = "commited" BY <1>20, <2>1
    <3>2. Filled(b, m) BY <1>3, <1>7, <1>8, <3>1 DEF Owned
    <3>3. \A k \in 1 .. n : View(b + k)' = Data(m)
      <4>1. \A k \in 1 .. n : k \in 1 .. n + Guard BY <1>9
      <4>. QED BY <1>11, <1>23, <3>2, <4>1 DEF Filled
    <3>4. Filled(b, m)' BY <1>20, <3>3 DEF Filled
    <3>. QED BY <1>13, <1>17, <2>1, <3>1, <3>4
  <2>2. CASE c # b
    <3>1. View(c).state = "commited" BY <1>24, <2>2
    <3>2. PICK k \in DOMAIN outcome : outcome[k] = "commited" /\ Filled(c, k)
      BY <1>3, <3>1 DEF Committed
    <3>3. k # m BY <1>13, <3>2
    <3>4. Filled(c, k)' BY <1>28, <2>2, <3>1, <3>2
    <3>. QED BY <1>17, <3>2, <3>3, <3>4
  <2>. QED BY <2>1, <2>2
<1>30. Owned(B)'
  <2>1. ASSUME NEW q \in Producers, Owner(q)'
        PROVE  q # p /\ Owner(q) /\ pc'[q] = pc[q] /\ blk'[q] = blk[q]
    BY <1>15, <1>16, <2>1 DEF Owner
  <2>2. \A q \in Producers : pc'[q] = "filled" => blk'[q].handle.valid
    BY <1>3, <1>15, <1>16 DEF Owned
  <2>3. ASSUME NEW q \in Producers, Owner(q)'
        PROVE  (/\ blk[q].beg \in B /\ blk[q].handle.at = At(blk[q].beg)
                /\ blk[q].msg \in DOMAIN outcome /\ outcome[blk[q].msg] = "pending")'
    <3>1. blk[q].msg # m BY <1>3, <1>8, <2>1, <2>3 DEF Owned
    <3>. QED BY <1>3, <1>17, <2>1, <2>3, <3>1 DEF Owned
  <2>4. ASSUME NEW q \in Producers, Owner(q)'
        PROVE  (/\ View(blk[q].beg).size = blk[q].n /\ View(blk[q].beg).state = "busy"
                /\ pc[q] = "filled" => Filled(blk[q].beg, blk[q].msg))'
    <3>0. q # p /\ Owner(q) /\ pc'[q] = pc[q] /\ blk'[q] = blk[q] BY <2>1, <2>4
    <3>1. PICK c \in B : c = blk[q].beg BY <1>3, <3>0 DEF Owned
    <3>2. PICK k : k = blk[q].msg OBVIOUS
    <3>3. c # b BY <1>3, <1>7, <3>0, <3>1 DEF Owned
    <3>4. /\ View(c).size = blk[q].n /\ View(c).state = "busy"
          /\ pc[q] = "filled" => Filled(c, k)
      BY <1>3, <3>0, <3>1, <3>2 DEF Owned
    <3>5. View(c)' = View(c) /\ (pc[q] = "filled" => Filled(c, k)')
      BY <1>24, <1>28, <3>3, <3>4
    <3>6. View(blk[q].beg)' = View(c)' BY <3>0, <3>1 DEF View
    <3>7. Filled(blk[q].beg, blk[q].msg)' <=> Filled(c, k)' BY <3>0, <3>1, <3>2 DEF Filled
    <3>. QED BY <3>0, <3>4, <3>5, <3>6, <3>7
  <2>5. ASSUME NEW q \in Producers, Owner(q)', NEW o \in Producers, Owner(o)', o # q
        PROVE  (blk[o].beg # blk[q].beg /\ blk[o].msg # blk[q].msg)'
    <3>1. Owner(q) /\ Owner(o) /\ blk'[q] = blk[q] /\ blk'[o] = blk[o] BY <2>1, <2>5
    <3>. QED BY <1>3, <2>5, <3>1 DEF Owned
  <2>. QED BY <2>2, <2>3, <2>4, <2>5 DEF Owned
<1>31. Consumed(B)'
  <2>1. cpc' = cpc /\ readIx' = readIx /\ held' = held /\ ix_write' = ix_write
    BY <1>14 DEF consVars
  <2>2. "busy" \notin PassedOver BY DEF PassedOver
  <2>3. \A c \in B : View(c).state \in PassedOver => View(c)'.state \in PassedOver
    BY <1>11, <1>24, <2>2
  <2>4. held \in B /\ View(held).state = "commited" => View(held)' = View(held)
    BY <1>11, <1>24, <2>1 DEF View
  <2>. QED BY <1>3, <2>1, <2>3, <2>4 DEF Consumed
<1>32. Reserved'
  <2>1. ASSUME NEW i \in Nat, ix_write <= i, i < ix_read + Size PROVE View(i)' = View(i)
    <3>1. r <= i /\ i < r + Size /\ i # b BY <1>4, <1>5, <1>9, <1>12, <2>1
    <3>. QED BY <1>21, <3>1
  <2>2. \A q \in Producers : Inside(q)' =>
          Inside(q) /\ pc'[q] = pc[q] /\ blk'[q] = blk[q] /\ lock' = lock
    BY <1>14, <1>15 DEF Inside
  <2>3. ix_read' \in Nat /\ ix_read <= ix_read' /\ ix_write' = ix_write BY <1>5, <1>14
  <2>. QED BY <1>1, <2>1, <2>2, <2>3, ReservedKept
<1>33. View(b + 1)' = View(b + 1)
  <2>1. 1 \in 1 .. n + Guard BY <1>9, <1>11
  <2>. QED BY <1>23, <2>1
<1>34. Ring(B)'
  BY <1>18, <1>26, <1>27, <1>29, <1>30, <1>31, <1>32 DEF Ring, RingParts
<1>. QED BY <1>6, <1>7, <1>19, <1>22, <1>33, <1>34

(* commit and skip; without a block they only end the call.                *)
LEMMA ResolveStep ==
  ASSUME NEW B \in SUBSET Nat, Ring(B), NEW p \in Producers, Commit(p) \/ Skip(p)
  PROVE  Ring(B)'
<1>1. RingTypes /\ Reserved BY DEF Ring
<1>2. RingParts(B) BY DEF Ring
<1>3. Owned(B) BY <1>2 DEF RingParts
<1>4. PICK s \in Resolved : /\ Resolve(p, s) /\ pc[p] \in {"own", "filled"}
                            /\ s = "commited" /\ blk[p].handle.valid => pc[p] = "filled"
  BY <1>3 DEF Commit, Skip, Resolved, Owned
<1>5. CASE blk[p].handle.valid
  <2>1. Owner(p) BY <1>4, <1>5 DEF Owner
  <2>. QED BY <1>4, <1>5, <2>1, ResolveBlock
<1>6. CASE ~blk[p].handle.valid
  <2>1. /\ pc' = [pc EXCEPT ![p] = "idle"] /\ blk' = [blk EXCEPT ![p] = NoBlock]
        /\ UNCHANGED <<mem, ix_read, ix_write, lock, outcome, consVars>>
    BY <1>4, <1>6 DEF Resolve, UpdateBlockState, Acts
  <2>2. /\ pc'[p] = "idle" /\ blk'[p] = NoBlock
        /\ \A q \in Producers : q # p => pc'[q] = pc[q] /\ blk'[q] = blk[q]
    BY <1>1, <2>1 DEF RingTypes
  <2>3. NoBlock \in Locals /\ ~NoBlock.handle.valid BY DEF NoBlock, Locals, InvalidHandle
  <2>4. RingTypes' BY <1>1, <2>1, <2>3 DEF RingTypes, consVars
  <2>5. \A q \in Producers : Owner(q)' => Owner(q) /\ pc'[q] = pc[q] /\ blk'[q] = blk[q]
    BY <2>2 DEF Owner
  <2>6. \A q \in Producers : pc'[q] = "filled" => blk'[q].handle.valid
    BY <1>3, <2>2 DEF Owned
  <2>7. \A q \in Producers : Inside(q)' =>
          Inside(q) /\ pc'[q] = pc[q] /\ blk'[q] = blk[q] /\ lock' = lock
    BY <2>1, <2>2 DEF Inside
  <2>. QED BY <2>1, <2>4, <2>5, <2>6, <2>7, RingQuiet
<1>. QED BY <1>5, <1>6

-----------------------------------------------------------------------------
(* The consumer                                                            *)

(* The consumer writes no memory: as long as it gives nothing back, only   *)
(* its own place in the scan changes.                                      *)
LEMMA ScanKept ==
  ASSUME RingTypes, Reserved, NEW B \in SUBSET Nat, RingParts(B),
         UNCHANGED <<mem, ix_read, ix_write, prodVars, outcome>>,
         cpc' \in {"idle", "peek", "held", "free"}, Consumed(B)'
  PROVE  Ring(B)'
<1>1. Covered(B) /\ Formed(B) /\ Committed(B) /\ Owned(B) BY DEF RingParts
<1>2. lock' = lock /\ pc' = pc /\ blk' = blk BY DEF prodVars
<1>3. \A i : View(i)' = View(i) BY DEF View
<1>4. \A b \in B : Kept(b) BY <1>3 DEF Kept
<1>5. Covered(B)' /\ Formed(B)' /\ Committed(B)' BY <1>1, <1>4, LayoutKept
<1>6. Owned(B)'
  <2>1. \A p \in Producers : Owner(p)' => Owner(p) /\ pc'[p] = pc[p] /\ blk'[p] = blk[p]
    BY <1>2 DEF Owner
  <2>2. \A p \in Producers : pc'[p] = "filled" => blk'[p].handle.valid
    BY <1>1, <1>2 DEF Owned
  <2>. QED BY <1>1, <1>4, <2>1, <2>2, OwnersKept
<1>7. RingTypes' BY <1>2 DEF RingTypes
<1>8. Reserved'
  <2>1. ix_read' \in Nat /\ ix_read <= ix_read' BY DEF RingTypes
  <2>2. \A p \in Producers : Inside(p)' =>
          Inside(p) /\ pc'[p] = pc[p] /\ blk'[p] = blk[p] /\ lock' = lock
    BY <1>2 DEF Inside
  <2>. QED BY <1>3, <2>1, <2>2, ReservedKept
<1>. QED BY <1>5, <1>6, <1>7, <1>8 DEF Ring, RingParts

(* A scan begins, passes a block over, or finds a committed one.           *)
LEMMA ScanStep ==
  ASSUME NEW B \in SUBSET Nat, Ring(B), PeekBegin \/ ScanPast \/ PeekHit \/ FreeBegin
  PROVE  Ring(B)'
<1>1. RingTypes /\ Reserved BY DEF Ring
<1>2. RingParts(B) BY DEF Ring
<1>3. Covered(B) /\ Formed(B) /\ Consumed(B) BY <1>2 DEF RingParts
<1>4. /\ UNCHANGED <<mem, ix_read, ix_write, prodVars, outcome>>
      /\ cpc' \in {"idle", "peek", "held", "free"}
  BY DEF PeekBegin, ScanPast, PeekHit, FreeBegin
<1>5. \A i : View(i)' = View(i) BY <1>4 DEF View
<1>6. PICK r \in Nat : r = ix_read BY <1>1 DEF RingTypes
<1>7. (r = ix_write \/ r \in B) /\ \A b \in B : b \in Nat /\ ~(b < r)
  BY <1>3, <1>6 DEF Covered
<1>8. held' = held => View(held)' = View(held) BY <1>4 DEF View
<1>9. CASE PeekBegin
  <2>1. cpc' = "peek" /\ readIx' = r BY <1>6, <1>9 DEF PeekBegin, ScanStart
  <2>2. Consumed(B)' BY <1>4, <1>7, <2>1 DEF Consumed
  <2>. QED BY <1>1, <1>2, <1>4, <2>2, ScanKept
<1>10. CASE FreeBegin
  <2>1. cpc = "held" /\ cpc' = "free" /\ readIx' = r /\ held' = held
    BY <1>6, <1>10 DEF FreeBegin, ScanStart
  <2>2. Consumed(B)' BY <1>3, <1>4, <1>5, <1>7, <1>8, <2>1 DEF Consumed
  <2>. QED BY <1>1, <1>2, <1>4, <2>2, ScanKept
<1>11. CASE PeekHit \/ ScanPast
  <2>1. PICK x \in B : /\ x = readIx
                       /\ \A b \in B : b < x => View(b).state \in PassedOver
    BY <1>3, <1>11 DEF PeekHit, ScanPast, Consumed
  <2>2. First = View(x) BY <2>1 DEF First, View
  <2>3. CASE PeekHit
    <3>1. cpc' = "held" /\ held' = x /\ View(x).state = "commited"
      BY <2>1, <2>2, <2>3 DEF PeekHit
    <3>2. View(held)' = View(x) BY <1>4, <3>1 DEF View
    <3>3. Consumed(B)' BY <1>5, <2>1, <3>1, <3>2 DEF Consumed
    <3>. QED BY <1>1, <1>2, <1>4, <3>3, ScanKept
  <2>4. CASE ScanPast
    <3>1. /\ cpc \in {"peek", "free"} /\ cpc' = cpc /\ held' = held
          /\ readIx' = Ends(x) /\ View(x).state \in PassedOver
      BY <2>1, <2>2, <2>4 DEF ScanPast, Ends
    <3>2. Ends(x) = ix_write \/ Ends(x) \in B BY <1>3 DEF Covered
    <3>3. ASSUME NEW b \in B, b < Ends(x) PROVE View(b).state \in PassedOver
      <4>1. CASE b < x BY <2>1, <4>1
      <4>2. CASE b = x BY <3>1, <4>2
      <4>3. CASE x < b
        <5>1. Ends(x) <= b BY <1>3, <4>3 DEF Covered
        <5>2. Ends(x) \in Int BY <1>3, ConstantsAssumption DEF Formed, Ends, Extent, Overhead
        <5>. QED BY <3>3, <5>1, <5>2
      <4>. QED BY <4>1, <4>2, <4>3
    <3>4. Consumed(B)' BY <1>3, <1>4, <1>5, <1>8, <3>1, <3>2, <3>3 DEF Consumed
    <3>. QED BY <1>1, <1>2, <1>4, <3>4, ScanKept
  <2>. QED BY <1>11, <2>3, <2>4
<1>. QED BY <1>9, <1>10, <1>11

(* The consumer gives back what lies before x; nobody owns any of it.      *)
LEMMA Advance ==
  ASSUME RingTypes, Reserved, NEW B \in SUBSET Nat, RingParts(B),
         NEW x \in Nat, x = ix_write \/ x \in B, NEW C, C = {b \in B : b >= x},
         \A b \in B : b < x => View(b).state # "busy",
         ix_read' = x, cpc' = "idle",
         UNCHANGED <<mem, ix_write, prodVars, outcome>>
  PROVE  C \in SUBSET Nat /\ Ring(C)'
<1>1. Covered(B) /\ Formed(B) /\ Committed(B) /\ Owned(B) BY DEF RingParts
<1>2. lock' = lock /\ pc' = pc /\ blk' = blk BY DEF prodVars
<1>3. \A i : View(i)' = View(i) /\ Ends(i)' = Ends(i) BY DEF View, Ends, Extent
<1>4. PICK w \in Nat : w = ix_write BY DEF RingTypes
<1>5. PICK r \in Nat : r = ix_read BY DEF RingTypes
<1>6. \A b \in B : b \in Nat /\ Ends(b) \in Int
  BY <1>1, ConstantsAssumption DEF Formed, Ends, Extent, Overhead
<1>7. /\ r <= w /\ w <= r + Size
      /\ \A b \in B : /\ r <= b /\ b < Ends(b) /\ Ends(b) <= w
                      /\ Ends(b) = w \/ Ends(b) \in B
      /\ \A a, b \in B : a < b => Ends(a) <= b
  BY <1>1, <1>4, <1>5 DEF Covered, RingTypes
<1>8. r <= x /\ x <= w
  <2>1. CASE x = w BY <1>7, <2>1
  <2>2. CASE x \in B BY <1>6, <1>7, <2>2
  <2>. QED BY <1>4, <2>1, <2>2
<1>9. RingTypes'
  <2>1. x <= w /\ w <= x + Size BY <1>7, <1>8, ConstantsAssumption
  <2>. QED BY <1>2, <1>4, <2>1 DEF RingTypes
<1>10. Covered(C)'
  <2>1. ASSUME NEW b \in C
        PROVE  /\ x <= b /\ b < Ends(b) /\ Ends(b) <= w
               /\ Ends(b) = w \/ Ends(b) \in C
    <3>1. /\ b \in Nat /\ x <= b /\ b < Ends(b) /\ Ends(b) <= w
          /\ Ends(b) = w \/ Ends(b) \in B
      BY <1>7
    <3>2. Ends(b) >= x BY <1>6, <3>1
    <3>. QED BY <3>1, <3>2
  <2>2. \A a, b \in C : a < b => Ends(a) <= b BY <1>7
  <2>3. x = w \/ x \in C BY <1>4
  <2>. QED BY <1>3, <1>4, <2>1, <2>2, <2>3 DEF Covered
<1>11. \A b \in B : Kept(b) BY <1>3 DEF Kept
<1>12. Formed(C)'
  <2>1. \A b \in C : View(b + View(b).size + 1)' = View(b + View(b).size + 1) BY DEF View
  <2>. QED BY <1>1, <1>3, <2>1 DEF Formed
<1>13. \A b, k : Filled(b, k)' <=> Filled(b, k) BY DEF Filled, View
<1>14. Committed(C)' BY <1>1, <1>3, <1>13 DEF Committed
<1>15. Owned(C)'
  <2>1. Owned(B)'
    <3>1. \A p \in Producers : Owner(p)' => Owner(p) /\ pc'[p] = pc[p] /\ blk'[p] = blk[p]
      BY <1>2 DEF Owner
    <3>2. \A p \in Producers : pc'[p] = "filled" => blk'[p].handle.valid
      BY <1>1, <1>2 DEF Owned
    <3>. QED BY <1>1, <1>11, <3>1, <3>2, OwnersKept
  <2>2. ASSUME NEW p \in Producers, Owner(p)' PROVE blk'[p].beg \in C
    <3>1. Owner(p) BY <1>2, <2>2 DEF Owner
    <3>2. blk[p].beg \in B /\ View(blk[p].beg).state = "busy" BY <1>1, <3>1 DEF Owned
    <3>3. ~(blk[p].beg < x) BY <3>2
    <3>4. blk[p].beg \in Nat BY <3>2
    <3>. QED BY <1>2, <3>2, <3>3, <3>4
  <2>. QED BY <2>1, <2>2 DEF Owned
<1>16. Consumed(C)' BY DEF Consumed
<1>17. Reserved'
  <2>1. \A p \in Producers : Inside(p)' =>
          Inside(p) /\ pc'[p] = pc[p] /\ blk'[p] = blk[p] /\ lock' = lock
    BY <1>2 DEF Inside
  <2>2. ix_read' \in Nat /\ ix_read <= ix_read' /\ ix_write' = ix_write BY <1>5, <1>8
  <2>. QED BY <1>3, <2>1, <2>2, ReservedKept
<1>18. C \in SUBSET Nat OBVIOUS
<1>. QED BY <1>9, <1>10, <1>12, <1>14, <1>15, <1>16, <1>17, <1>18 DEF Ring, RingParts

(* peek that found nothing and free give back what they have passed.       *)
LEMMA ReleaseStep ==
  ASSUME NEW B \in SUBSET Nat, Ring(B), PeekEmpty \/ FreeDone,
         NEW C, C = {b \in B : b >= ix_read'}
  PROVE  C \in SUBSET Nat /\ Ring(C)'
<1>1. RingTypes /\ Reserved BY DEF Ring
<1>2. RingParts(B) BY DEF Ring
<1>3. Covered(B) /\ Formed(B) /\ Consumed(B) BY <1>2 DEF RingParts
<1>4. "busy" \notin PassedOver BY DEF PassedOver
<1>5. CASE PeekEmpty
  <2>1. PICK x \in Nat : x = ix_write BY <1>1 DEF RingTypes
  <2>2. /\ ix_read' = x /\ cpc' = "idle" /\ UNCHANGED <<mem, ix_write, prodVars, outcome>>
        /\ \A b \in B : b < x => View(b).state \in PassedOver
    BY <1>3, <1>5, <2>1 DEF PeekEmpty, Reclaimed, Consumed
  <2>3. \A b \in B : b < x => View(b).state # "busy" BY <1>4, <2>2
  <2>. QED BY <1>1, <1>2, <2>1, <2>2, <2>3, Advance
<1>6. CASE FreeDone
  <2>1. PICK y \in B : /\ y = readIx
                       /\ \A b \in B : b < y => View(b).state \in PassedOver
    BY <1>3, <1>6 DEF FreeDone, Consumed
  <2>2. First = View(y) BY <2>1 DEF First, View
  <2>3. /\ ix_read' = Ends(y) /\ View(y).state = "commited" /\ cpc' = "idle"
        /\ UNCHANGED <<mem, ix_write, prodVars, outcome>>
    BY <1>6, <2>1, <2>2 DEF FreeDone, Ends
  <2>4. Ends(y) = ix_write \/ Ends(y) \in B BY <1>3 DEF Covered
  <2>5. PICK x \in Nat : x = Ends(y) BY <1>1, <2>4 DEF RingTypes
  <2>6. ASSUME NEW b \in B, b < x PROVE View(b).state # "busy"
    <3>1. CASE b < y BY <1>4, <2>1, <3>1
    <3>2. CASE b = y BY <2>3, <3>2
    <3>3. CASE y < b
      <4>1. x <= b BY <1>3, <2>5, <3>3 DEF Covered
      <4>. QED BY <2>6, <4>1
    <3>. QED BY <3>1, <3>2, <3>3
  <2>7. (x = ix_write \/ x \in B) /\ ix_read' = x BY <2>3, <2>4, <2>5
  <2>. QED BY <1>1, <1>2, <2>3, <2>6, <2>7, Advance
<1>. QED BY <1>5, <1>6

-----------------------------------------------------------------------------
(* The theorem                                                             *)

(* The buffer starts without blocks.                                       *)
LEMMA RingInvInit == Init => RingInv
<1>. SUFFICES ASSUME Init PROVE RingInv OBVIOUS
<1>1. NoBlock \in Locals /\ ~NoBlock.handle.valid BY DEF NoBlock, Locals, InvalidHandle
<1>2. Size \in Nat BY ConstantsAssumption
<1>3. RingTypes BY <1>1, <1>2 DEF Init, RingTypes
<1>4. Reserved BY DEF Init, Reserved, Inside
<1>5. Covered({}) /\ Formed({}) /\ Committed({}) /\ Consumed({})
  BY DEF Init, Covered, Formed, Committed, Consumed
<1>6. Owned({}) BY DEF Init, Owned, Owner
<1>. QED BY <1>3, <1>4, <1>5, <1>6 DEF RingInv, Ring, RingParts

(* Every step of a producer and of the consumer keeps the invariant.       *)
LEMMA RingInvStep ==
  ASSUME RingInv, [Next]_vars
  PROVE  RingInv'
<1>0. PICK B \in SUBSET Nat : Ring(B) BY DEF RingInv
<1>. SUFFICES \E C \in SUBSET Nat : Ring(C)' BY DEF RingInv
<1>1. ASSUME NEW p \in Producers, Allocate(p) PROVE \E C \in SUBSET Nat : Ring(C)'
  <2>1. CASE AllocPublish(p)
    <3>1. PICK C : C = B \cup {blk[p].beg} \cup {ix_write} OBVIOUS
    <3>. QED BY <1>0, <2>1, <3>1, PublishStep
  <2>. QED BY <1>0, <1>1, <2>1, AllocNothing, EnterStep, WrapStep, ReserveStep DEF Allocate
<1>2. ASSUME NEW p \in Producers, Use(p) PROVE Ring(B)'
  BY <1>0, <1>2, FillStep, ResolveStep DEF Use
<1>3. ASSUME PeekEmpty \/ FreeDone PROVE \E C \in SUBSET Nat : Ring(C)'
  <2>1. PICK C : C = {b \in B : b >= ix_read'} OBVIOUS
  <2>. QED BY <1>0, <1>3, <2>1, ReleaseStep
<1>4. ASSUME PeekBegin \/ ScanPast \/ PeekHit \/ FreeBegin PROVE Ring(B)'
  BY <1>0, <1>4, ScanStep
<1>5. CASE UNCHANGED vars
  <2>1. RingTypes /\ Reserved /\ RingParts(B) BY <1>0 DEF Ring
  <2>3. /\ UNCHANGED <<mem, ix_read, ix_write, prodVars, outcome>>
        /\ cpc' = cpc /\ readIx' = readIx /\ held' = held
    BY <1>5 DEF vars, consVars
  <2>4. Consumed(B)' BY <2>1, <2>3 DEF RingParts, Consumed, View
  <2>5. cpc' \in {"idle", "peek", "held", "free"} BY <2>1, <2>3 DEF RingTypes
  <2>. QED BY <2>1, <2>3, <2>4, <2>5, ScanKept
<1>. QED BY <1>1, <1>2, <1>3, <1>4, <1>5 DEF Next, Consume

(* The blocks of the invariant are intact.                                 *)
LEMMA InvIntact == RingInv => BlocksIntact
<1>. SUFFICES ASSUME RingInv PROVE BlocksIntact OBVIOUS
<1>1. PICK B \in SUBSET Nat : RingTypes /\ RingParts(B) BY DEF RingInv, Ring
<1>2. RingParts(B) BY <1>1
<1>3. Covered(B) /\ Formed(B) /\ Committed(B) /\ Owned(B) /\ Consumed(B)
  BY <1>2 DEF RingParts
<1>4. Guard \in {0, 1} BY ConstantsAssumption
<1>5. ASSUME NEW p \in Producers, Owner(p)
      PROVE  /\ Intact(blk[p].beg, blk[p].n, "busy", 0)
             /\ pc[p] = "filled" => Intact(blk[p].beg, blk[p].n, "busy", blk[p].msg)
  <2>1. PICK n \in Nat : n = blk[p].n BY <1>1 DEF RingTypes, Locals
  <2>2. PICK b \in Nat : b = blk[p].beg BY <1>1 DEF RingTypes, Locals
  <2>3. PICK m : m = blk[p].msg OBVIOUS
  <2>4. /\ b \in B /\ n >= 1 /\ View(b) = Header(n, "busy") /\ View(b).size = n
        /\ Guard = 1 => View(b + n + 1) = Postfix
        /\ Ends(b) = b + n + 1 + Guard /\ ix_read <= b /\ Ends(b) <= ix_write
    BY <1>1, <1>2, <1>5, <2>1, <2>2, OwnerBlock
  <2>5. b + n + Overhead <= ix_write
    <3>1. b + n + Overhead = Ends(b) BY <1>4, <2>4 DEF Overhead
    <3>. QED BY <2>4, <3>1
  <2>6. pc[p] = "filled" => \A k \in 1 .. n : View(b + k) = Data(m)
    BY <1>3, <1>5, <2>2, <2>3, <2>4 DEF Owned, Filled
  <2>7. Intact(b, n, "busy", 0) BY <2>4, <2>5 DEF Intact, View
  <2>8. pc[p] = "filled" => Intact(b, n, "busy", m) BY <2>4, <2>5, <2>6 DEF Intact, View
  <2>. QED BY <2>1, <2>2, <2>3, <2>7, <2>8
<1>6. ASSUME cpc \in {"held", "free"}
      PROVE  LET m == mem[At(held + 1)].msg
             IN  /\ m \in DOMAIN outcome /\ outcome[m] = "commited"
                 /\ Intact(held, mem[At(held)].size, "commited", m)
  <2>1. PICK b \in B : b = held /\ View(b).state = "commited" BY <1>3, <1>6 DEF Consumed
  <2>2. PICK m \in DOMAIN outcome : outcome[m] = "commited" /\ Filled(b, m)
    BY <1>3, <2>1 DEF Committed
  <2>3. PICK n \in Nat : n = View(b).size BY <1>3 DEF Formed
  <2>4. /\ View(b) = Header(n, "commited") /\ n >= 1
        /\ Guard = 1 => View(b + n + 1) = Postfix
    BY <1>3, <2>1, <2>3 DEF Formed
  <2>5. ix_read <= b /\ Ends(b) <= ix_write BY <1>3 DEF Covered
  <2>6. b + n + Overhead <= ix_write
    <3>1. Ends(b) = b + (n + Overhead) BY <2>1, <2>3 DEF Ends, Extent
    <3>2. b + (n + Overhead) = b + n + Overhead BY <1>4 DEF Overhead
    <3>. QED BY <2>5, <3>1, <3>2
  <2>7. \A k \in 1 .. n : View(b + k) = Data(m) BY <2>2, <2>3 DEF Filled
  <2>8. View(b + 1).msg = m
    <3>1. 1 \in 1 .. n BY <2>4
    <3>2. View(b + 1) = Data(m) BY <2>7, <3>1
    <3>. QED BY <3>2 DEF Data, Blank
  <2>9. Intact(b, n, "commited", m) BY <2>4, <2>5, <2>6, <2>7 DEF Intact, View
  <2>10. mem[At(held + 1)].msg = m /\ mem[At(held)].size = n BY <2>1, <2>3, <2>8 DEF View
  <2>. QED BY <2>1, <2>2, <2>9, <2>10
<1>7. \A p \in Producers : pc[p] = "filled" => Owner(p) BY <1>3 DEF Owned, Owner
<1>. QED BY <1>5, <1>6, <1>7 DEF BlocksIntact, Owner

(* Nobody overwrites a block of the buffer that a producer or the consumer *)
(* uses, for any number of producers and any size of the buffer, with and  *)
(* without guards (ring_buffer::allocate, commit, skip, peek and free).    *)
THEOREM RingIsIntact == Spec => []BlocksIntact
<1>1. RingInv /\ [Next]_vars => RingInv' BY RingInvStep
<1>. QED BY RingInvInit, <1>1, InvIntact, PTL DEF Spec

-----------------------------------------------------------------------------
(* The memory is a queue.  The entries of Blocks, which the recursive      *)
(* function parse collects, are those of the blocks that are not fake, in  *)
(* the order of their indices.                                             *)

(* Induction over the naturals, for a set.                                 *)
LEMMA SetInduction ==
  ASSUME NEW S, 0 \in S, \A n \in Nat : n \in S => n + 1 \in S
  PROVE  Nat \subseteq S
<1>. DEFINE T == Nat \ S
            R == OpToRel(<, Nat)
<1>1. SUFFICES ASSUME T # {} PROVE FALSE OBVIOUS
<1>2. IsWellFoundedOn(R, Nat) BY NatLessThanWellFounded
<1>3. PICK x \in T : \A y \in T : ~(<<y, x>> \in R)
  <2>. HIDE DEF T, R
  <2>1. T \subseteq Nat BY DEF T
  <2>. QED BY <1>1, <1>2, <2>1, WFMin
<1>4. x \in Nat /\ x # 0 /\ x - 1 \in Nat OBVIOUS
<1>5. x - 1 \notin S BY <1>4
<1>6. <<x - 1, x>> \in R BY <1>4 DEF OpToRel
<1>. QED BY <1>3, <1>4, <1>5, <1>6

(* The elements of S in their order.                                       *)
Lists(e, S) ==
  /\ e \in Seq(Nat)
  /\ \A i \in 1 .. Len(e) : e[i] \in S
  /\ \A i, j \in 1 .. Len(e) : i < j => e[i] < e[j]
  /\ \A b \in S : \E i \in 1 .. Len(e) : e[i] = b

(* A bounded set of naturals has a list.                                   *)
LEMMA Listed ==
  ASSUME NEW S \in SUBSET Nat, NEW n \in Nat, \A b \in S : b < n
  PROVE  \E e : Lists(e, S)
<1>. DEFINE Below(k) == {b \in S : b < k}
            T == {k \in Nat : \E e : Lists(e, Below(k))}
<1>0. \A b \in S : b \in Nat OBVIOUS
<1>1. 0 \in T
  <2>0. \A b \in S : ~(b < 0) BY <1>0
  <2>1. Below(0) = {} BY <2>0
  <2>2. Lists(<<>>, {}) BY DEF Lists
  <2>. QED BY <2>1, <2>2
<1>2. ASSUME NEW k \in Nat, k \in T PROVE k + 1 \in T
  <2>1. PICK e : Lists(e, Below(k)) BY <1>2
  <2>2. CASE k \in S
    <3>. DEFINE f == Append(e, k)
    <3>1. e \in Seq(Nat) /\ Len(e) \in Nat BY <2>1 DEF Lists
    <3>2. /\ f \in Seq(Nat) /\ Len(f) = Len(e) + 1 /\ f[Len(e) + 1] = k
          /\ \A i \in 1 .. Len(e) : f[i] = e[i]
      BY <3>1
    <3>3. Below(k + 1) = Below(k) \cup {k}
      <4>1. \A b \in S : b < k + 1 <=> b < k \/ b = k BY <1>0
      <4>. QED BY <2>2, <4>1
    <3>. HIDE DEF f
    <3>4. \A i \in 1 .. Len(f) : i \in 1 .. Len(e) \/ i = Len(e) + 1 BY <3>1, <3>2
    <3>5. \A i \in 1 .. Len(e) : e[i] \in S /\ e[i] < k BY <2>1 DEF Lists
    <3>6. \A i \in 1 .. Len(f) : f[i] \in Below(k + 1)
      BY <2>2, <3>2, <3>3, <3>4, <3>5
    <3>7. ASSUME NEW i \in 1 .. Len(f), NEW j \in 1 .. Len(f), i < j PROVE f[i] < f[j]
      <4>1. i \in 1 .. Len(e) BY <3>1, <3>2, <3>7
      <4>2. CASE j \in 1 .. Len(e) BY <2>1, <3>2, <3>7, <4>1, <4>2 DEF Lists
      <4>3. CASE j = Len(e) + 1 BY <3>2, <3>5, <4>1, <4>3
      <4>. QED BY <3>4, <4>2, <4>3
    <3>8. ASSUME NEW b \in Below(k + 1) PROVE \E i \in 1 .. Len(f) : f[i] = b
      <4>1. CASE b = k
        <5>1. Len(e) + 1 \in 1 .. Len(f) BY <3>1, <3>2
        <5>. QED BY <3>2, <4>1, <5>1
      <4>2. CASE b \in Below(k)
        <5>1. PICK i \in 1 .. Len(e) : e[i] = b BY <2>1, <4>2 DEF Lists
        <5>2. i \in 1 .. Len(f) BY <3>1, <3>2
        <5>. QED BY <3>2, <5>1, <5>2
      <4>. QED BY <3>3, <4>1, <4>2
    <3>9. Lists(f, Below(k + 1)) BY <3>2, <3>6, <3>7, <3>8 DEF Lists
    <3>. QED BY <3>9
  <2>3. CASE k \notin S
    <3>1. Below(k + 1) = Below(k)
      <4>1. \A b \in S : b < k + 1 <=> b < k BY <1>0, <2>3
      <4>. QED BY <4>1
    <3>. QED BY <2>1, <3>1
  <2>. QED BY <2>2, <2>3
<1>3. n \in T
  <2>. HIDE DEF T
  <2>. QED BY <1>1, <1>2, SetInduction
<1>4. Below(n) = S OBVIOUS
<1>. QED BY <1>3, <1>4

(* The sizes in prefixes and elsewhere are numbers.                        *)
Sized == \A i \in Slot : mem[i].size \in Nat

(* What parse makes of index ix, given what it makes of higher ones.       *)
ParseAt(g, ix) ==
  LET h    == mem[At(ix)]
      next == ix + Extent(h)
      d    == mem[At(ix + 1)]
  IN  IF ix = ix_write THEN <<>>
      ELSE IF h.tag # "prefix" \/ next = ix \/ next > ix_write THEN Corrupt
      ELSE IF h.state = "fake" THEN g[next]
      ELSE <<[st |-> h.state, msg |-> Written(ix, h, d)]>> \o g[next]

(* The recursion of parse is well-founded: it satisfies its equation.      *)
LEMMA ParseEquation ==
  ASSUME RingTypes, Sized
  PROVE  parse = [ix \in ix_read .. ix_write |-> ParseAt(parse, ix)]
<1>. DEFINE Solves(g, k) == g = [ix \in ix_write - k .. ix_write |-> ParseAt(g, ix)]
            T == {k \in Nat : ix_write - k >= ix_read => \E g : Solves(g, k)}
<1>1. /\ ix_read \in Nat /\ ix_write \in Nat /\ ix_read <= ix_write /\ Guard \in {0, 1}
  BY ConstantsAssumption DEF RingTypes
<1>2. ASSUME NEW ix \in Nat PROVE Extent(mem[At(ix)]) \in Nat
  BY <1>1, <1>2, Slots DEF Sized, Extent, Overhead
<1>3. ASSUME NEW ix \in Nat, NEW f, NEW g,
             \A y \in Nat : ix < y /\ y <= ix_write => f[y] = g[y]
      PROVE  ParseAt(f, ix) = ParseAt(g, ix)
  <2>1. PICK y \in Nat : y = ix + Extent(mem[At(ix)]) /\ y >= ix BY <1>2
  <2>2. ~(y = ix \/ y > ix_write) => f[y] = g[y] BY <1>1, <1>3, <2>1
  <2>. QED BY <2>1, <2>2 DEF ParseAt
<1>4. 0 \in T
  <2>. DEFINE g == [ix \in ix_write .. ix_write |-> <<>>]
  <2>1. ix_write - 0 = ix_write /\ ix_write .. ix_write = {ix_write} BY <1>1
  <2>2. ParseAt(g, ix_write) = <<>> BY DEF ParseAt
  <2>3. Solves(g, 0) BY <2>1, <2>2
  <2>. QED BY <2>3
<1>5. ASSUME NEW k \in Nat, k \in T PROVE k + 1 \in T
  <2>. SUFFICES ASSUME ix_write - (k + 1) >= ix_read PROVE \E g : Solves(g, k + 1)
    OBVIOUS
  <2>1. PICK x \in Nat : x = ix_write - (k + 1) BY <1>1
  <2>2. x + 1 = ix_write - k /\ ix_write - k >= ix_read BY <1>1, <2>1
  <2>3. PICK f : Solves(f, k) BY <1>5, <2>2
  <2>. DEFINE g == [ix \in x .. ix_write |-> IF ix = x THEN ParseAt(f, x) ELSE f[ix]]
  <2>4. \A y \in Nat : x < y /\ y <= ix_write => g[y] = f[y] BY <1>1
  <2>5. ASSUME NEW ix \in x .. ix_write PROVE g[ix] = ParseAt(g, ix)
    <3>1. ix \in Nat BY <1>1
    <3>2. ParseAt(g, ix) = ParseAt(f, ix)
      <4>. HIDE DEF g
      <4>1. \A y \in Nat : ix < y /\ y <= ix_write => g[y] = f[y] BY <1>1, <2>4, <3>1
      <4>. QED BY <1>3, <3>1, <4>1
    <3>3. CASE ix = x BY <3>2, <3>3
    <3>4. CASE ix # x
      <4>1. ix \in ix_write - k .. ix_write BY <1>1, <2>2, <3>4
      <4>2. f[ix] = ParseAt(f, ix) BY <2>3, <4>1
      <4>. QED BY <3>2, <3>4, <4>2
    <3>. QED BY <3>3, <3>4
  <2>6. g = [ix \in x .. ix_write |-> ParseAt(g, ix)] BY <2>5
  <2>. QED BY <2>1, <2>6
<1>6. \E g : g = [ix \in ix_read .. ix_write |-> ParseAt(g, ix)]
  <2>1. PICK k \in Nat : k = ix_write - ix_read BY <1>1
  <2>2. k \in T
    <3>. HIDE DEF T
    <3>. QED BY <1>4, <1>5, SetInduction
  <2>3. ix_write - k = ix_read BY <1>1, <2>1
  <2>. QED BY <2>2, <2>3, <1>1
<1>. QED BY <1>6 DEF parse, ParseAt

(* The blocks that are not fake, and the entry of one.                     *)
Real(B) == {b \in B : View(b).state # "fake"}
EntryAt(b) == [st |-> View(b).state, msg |-> Written(b, View(b), View(b + 1))]

(* The entries of the blocks of a list, from its j-th on.                  *)
From(e, j) == [i \in 1 .. Len(e) - j + 1 |-> EntryAt(e[j + i - 1])]

(* What parse collects from a block on are the entries of the blocks from  *)
(* there on.                                                               *)
LEMMA ParsedFrom ==
  ASSUME NEW B \in SUBSET Nat, Ring(B), Sized, NEW e, Lists(e, Real(B)),
         NEW x, x = ix_write \/ x \in B, NEW j \in 1 .. Len(e) + 1,
         \A i \in 1 .. Len(e) : i < j <=> e[i] < x
  PROVE  parse[x] = From(e, j)
<1>. DEFINE w == ix_write
            P(y, l) == (\A i \in 1 .. Len(e) : i < l <=> e[i] < y) => parse[y] = From(e, l)
            T == {k \in Nat : \A y \in B \cup {w} : \A l \in 1 .. Len(e) + 1 :
                                w - y <= k => P(y, l)}
<1>1. RingTypes /\ Covered(B) /\ Formed(B) BY DEF Ring, RingParts
<1>2. ix_read \in Nat /\ w \in Nat /\ ix_read <= w /\ Guard \in {0, 1}
  BY <1>1, ConstantsAssumption DEF RingTypes
<1>3. \A b \in B : /\ b \in Nat /\ ix_read <= b /\ b < Ends(b) /\ Ends(b) <= w
                   /\ Ends(b) \in Nat /\ (Ends(b) = w \/ Ends(b) \in B)
  BY <1>1, <1>2 DEF Covered
<1>4. parse = [ix \in ix_read .. w |-> ParseAt(parse, ix)]
  BY <1>1, ParseEquation
<1>5. /\ e \in Seq(Nat) /\ Len(e) \in Nat
      /\ \A i \in 1 .. Len(e) : e[i] \in Nat /\ e[i] \in B /\ View(e[i]).state # "fake"
  BY DEF Lists, Real
<1>6. ASSUME NEW l \in 1 .. Len(e) + 1, P(w, l)!1 PROVE parse[w] = From(e, l)
  <2>1. parse[w] = <<>>
    <3>1. w \in ix_read .. w BY <1>2
    <3>2. parse[w] = ParseAt(parse, w) BY <1>4, <3>1
    <3>. QED BY <3>2 DEF ParseAt
  <2>2. l = Len(e) + 1
    <3>1. \A i \in 1 .. Len(e) : e[i] < w BY <1>2, <1>3, <1>5
    <3>2. ~(l \in 1 .. Len(e)) BY <1>5, <1>6, <3>1
    <3>. QED BY <1>5, <3>2
  <2>3. Len(e) - l + 1 = 0 BY <1>5, <2>2
  <2>4. From(e, l) = <<>>
    <3>1. From(e, l) \in [1 .. 0 -> {}] BY <2>3 DEF From
    <3>. QED BY <3>1
  <2>. QED BY <2>1, <2>4
<1>7. ASSUME NEW y \in B, NEW l \in 1 .. Len(e) + 1, P(y, l)!1,
             \A m \in 1 .. Len(e) + 1 : P(Ends(y), m)
      PROVE  parse[y] = From(e, l)
  <2>1. PICK z \in Nat : z = Ends(y) BY <1>3
  <2>2. parse[y] = ParseAt(parse, y)
    <3>1. y \in ix_read .. w BY <1>2, <1>3
    <3>. QED BY <1>4, <3>1
  <2>3. /\ mem[At(y)] = View(y) /\ y + Extent(mem[At(y)]) = z /\ mem[At(y + 1)] = View(y + 1)
        /\ y # w /\ y # z /\ ~(z > w)
    BY <1>2, <1>3, <2>1 DEF Ends, View
  <2>4. View(y).tag = "prefix" BY <1>1 DEF Formed, Header, Blank
  <2>5. parse[y] = IF View(y).state = "fake" THEN parse[z]
                   ELSE <<EntryAt(y)>> \o parse[z]
    BY <2>2, <2>3, <2>4 DEF ParseAt, EntryAt
  <2>6. \A i \in 1 .. Len(e) : e[i] # y => (e[i] < y <=> e[i] < z)
    <3>1. \A b \in B : y < b => z <= b BY <1>1, <2>1 DEF Covered
    <3>2. y < z BY <1>3, <2>1
    <3>. QED BY <1>3, <1>5, <3>1, <3>2
  <2>7. CASE View(y).state = "fake"
    <3>1. \A i \in 1 .. Len(e) : e[i] # y BY <1>5, <2>7
    <3>2. \A i \in 1 .. Len(e) : i < l <=> e[i] < z BY <1>7, <2>6, <3>1
    <3>. QED BY <1>7, <2>1, <2>5, <2>7, <3>2
  <2>8. CASE View(y).state # "fake"
    <3>1. PICK n \in 1 .. Len(e) : e[n] = y BY <2>8 DEF Lists, Real
    <3>2. n = l
      <4>1. ~(n < l) BY <1>3, <1>7, <3>1
      <4>2. \A i \in 1 .. Len(e) : i < n => i < l BY <1>7, <3>1 DEF Lists
      <4>. QED BY <1>5, <4>1, <4>2
    <3>3. ASSUME NEW i \in 1 .. Len(e) PROVE i < l + 1 <=> e[i] < z
      <4>1. CASE i = n BY <1>3, <2>1, <3>1, <3>2, <4>1
      <4>2. CASE i # n
        <5>1. e[i] # y BY <1>5, <3>1, <4>2 DEF Lists
        <5>2. i < l <=> e[i] < z BY <1>7, <2>6, <5>1
        <5>. QED BY <3>2, <4>2, <5>2
      <4>. QED BY <4>1, <4>2
    <3>4. l + 1 \in 1 .. Len(e) + 1 BY <1>5, <3>2
    <3>5. parse[z] = From(e, l + 1) BY <1>7, <2>1, <3>3, <3>4
    <3>6. <<EntryAt(e[l])>> \o From(e, l + 1) = From(e, l)
      <4>0. Len(e) - l \in Nat BY <1>5, <3>2
      <4>1. PICK k \in Nat : k = Len(e) - l BY <4>0
      <4>2. From(e, l + 1) = [i \in 1 .. k |-> EntryAt(e[l + i])]
        <5>1. Len(e) - (l + 1) + 1 = k BY <1>5, <4>1
        <5>2. \A i \in 1 .. k : (l + 1) + i - 1 = l + i OBVIOUS
        <5>. QED BY <5>1, <5>2 DEF From
      <4>3. From(e, l) = [i \in 1 .. k + 1 |-> EntryAt(e[l + i - 1])]
        <5>1. Len(e) - l + 1 = k + 1 BY <4>1
        <5>. QED BY <5>1 DEF From
      <4>. DEFINE t == [i \in 1 .. k |-> EntryAt(e[l + i])]
                  u == [i \in 1 .. k + 1 |-> EntryAt(e[l + i - 1])]
                  a == EntryAt(e[l])
      <4>4. t \in Seq({EntryAt(e[i]) : i \in Nat}) /\ Len(t) = k
        <5>1. \A i \in 1 .. k : l + i \in Nat OBVIOUS
        <5>. QED BY <5>1
      <4>5. \A i \in 1 .. k : t[i] = u[i + 1]
        <5>1. \A i \in 1 .. k : l + (i + 1) - 1 = l + i OBVIOUS
        <5>. QED BY <5>1
      <4>6. u[1] = a
        <5>1. l + 1 - 1 = l OBVIOUS
        <5>. QED BY <5>1
      <4>7. u \in Seq({EntryAt(e[i]) : i \in Nat}) /\ Len(u) = k + 1
        <5>1. \A i \in 1 .. k + 1 : l + i - 1 \in Nat OBVIOUS
        <5>. QED BY <5>1
      <4>. DEFINE X == {EntryAt(e[i]) : i \in Nat}
      <4>9. a \in X OBVIOUS
      <4>. HIDE DEF t, u, a, X
      <4>8. <<a>> \o t = u
        <5>1. <<a>> \o t \in Seq(X) /\ Len(<<a>> \o t) = k + 1 BY <4>4, <4>9 DEF X
        <5>2. ASSUME NEW i \in 1 .. k + 1 PROVE (<<a>> \o t)[i] = u[i]
          <6>1. CASE i = 1 BY <4>4, <4>6, <6>1
          <6>2. CASE i # 1
            <7>1. PICK m \in 1 .. k : i = m + 1
              <8>1. i - 1 \in 1 .. k /\ i = (i - 1) + 1 BY <6>2
              <8>. QED BY <8>1
            <7>2. (<<a>> \o t)[m + 1] = t[m] BY <4>4
            <7>. QED BY <4>5, <7>1, <7>2
          <6>. QED BY <6>1, <6>2
        <5>. QED BY <4>7, <5>1, <5>2, SeqEqual DEF X
      <4>. QED BY <4>2, <4>3, <4>8 DEF t, u, a
    <3>. QED BY <2>5, <2>8, <3>1, <3>2, <3>5, <3>6
  <2>. QED BY <2>7, <2>8
<1>8. 0 \in T
  <2>1. ASSUME NEW y \in B \cup {w}, NEW l \in 1 .. Len(e) + 1, w - y <= 0 PROVE P(y, l)
    <3>1. y = w BY <1>2, <1>3, <2>1
    <3>. QED BY <1>6, <3>1
  <2>. QED BY <2>1
<1>9. ASSUME NEW k \in Nat, k \in T PROVE k + 1 \in T
  <2>1. ASSUME NEW y \in B \cup {w}, NEW l \in 1 .. Len(e) + 1, w - y <= k + 1
        PROVE  P(y, l)
    <3>1. CASE y = w BY <1>6, <3>1
    <3>2. CASE y \in B
      <4>1. Ends(y) \in B \cup {w} /\ w - Ends(y) <= k BY <1>2, <1>3, <2>1, <3>2
      <4>2. \A m \in 1 .. Len(e) + 1 : P(Ends(y), m) BY <1>9, <4>1
      <4>. HIDE DEF w
      <4>. QED BY <1>7, <3>2, <4>2
    <3>. QED BY <3>1, <3>2
  <2>. QED BY <2>1
<1>10. PICK k \in Nat : w - x <= k
  <2>1. w - x \in Nat
    <3>1. CASE x = w BY <1>2, <3>1
    <3>2. CASE x \in B BY <1>2, <1>3, <3>2
    <3>. QED BY <3>1, <3>2
  <2>. QED BY <1>2, <2>1
<1>11. k \in T
  <2>. HIDE DEF T
  <2>. QED BY <1>8, <1>9, SetInduction
<1>. QED BY <1>10, <1>11

-----------------------------------------------------------------------------
(* What a step does to the entries                                         *)

(* Somebody owns the block at b and has not written it yet.                *)
OwnAt(b) ==
  \E p \in Producers : pc[p] = "own" /\ blk[p].msg # 0 /\ blk[p].beg = b

(* The entry of a block, in terms of its owner.                            *)
LEMMA EntryOf ==
  \A b : EntryAt(b) = [st |-> View(b).state,
                       msg |-> IF View(b).state = "skipped" \/ OwnAt(b)
                               THEN 0 ELSE View(b + 1).msg]
BY DEF EntryAt, Written, OwnAt

(* Messages are numbered in the order of their blocks, one is left for the *)
(* block that is being allocated, and who has one owns a block.            *)
Numbered ==
  /\ Len(outcome) <= MaxMsgs
  /\ \A p \in Producers : Inside(p) => Len(outcome) < MaxMsgs
  /\ \A p \in Producers : pc[p] = "own" /\ blk[p].msg # 0 => blk[p].handle.valid

Entries(e) == [i \in 1 .. Len(e) |-> EntryAt(e[i])]

(* Blocks are the entries of the blocks that are not fake.                 *)
ParsedBlocks ==
  \A B \in SUBSET Nat : \A e :
    Ring(B) /\ Sized /\ Lists(e, Real(B)) => Blocks = Entries(e)

LEMMA BlocksListed == ParsedBlocks
<1>. SUFFICES ASSUME NEW B \in SUBSET Nat, NEW e, Ring(B), Sized, Lists(e, Real(B))
              PROVE  Blocks = Entries(e)
  BY DEF ParsedBlocks
<1>1. RingTypes /\ Covered(B) BY DEF Ring, RingParts
<1>2. e \in Seq(Nat) /\ Len(e) \in Nat BY DEF Lists
<1>3. ix_read = ix_write \/ ix_read \in B BY <1>1 DEF Covered
<1>4. 1 \in 1 .. Len(e) + 1 BY <1>2
<1>5. ASSUME NEW i \in 1 .. Len(e) PROVE ~(i < 1) /\ ~(e[i] < ix_read)
  <2>1. e[i] \in Nat /\ ix_read \in Nat /\ ix_read <= e[i]
    BY <1>1, <1>2 DEF Lists, Real, Covered, RingTypes
  <2>. QED BY <2>1
<1>6. parse[ix_read] = From(e, 1) BY <1>3, <1>4, <1>5, ParsedFrom
<1>7. From(e, 1) = Entries(e)
  <2>1. Len(e) - 1 + 1 = Len(e) BY <1>2
  <2>2. \A i \in 1 .. Len(e) : 1 + i - 1 = i OBVIOUS
  <2>. QED BY <2>1, <2>2 DEF From, Entries
<1>. QED BY <1>6, <1>7 DEF Blocks

(* The blocks that are not fake can be listed.                             *)
LEMMA RealListed ==
  ASSUME NEW B \in SUBSET Nat, Ring(B)
  PROVE  \E e : Lists(e, Real(B))
<1>1. RingTypes /\ Covered(B) /\ Formed(B) BY DEF Ring, RingParts
<1>2. PICK w \in Nat : w = ix_write BY <1>1 DEF RingTypes
<1>3. ASSUME NEW b \in Real(B) PROVE b < w
  <2>1. b \in B /\ b \in Nat BY DEF Real
  <2>2. b < Ends(b) /\ Ends(b) <= w BY <1>1, <1>2, <2>1 DEF Covered
  <2>3. Ends(b) \in Int
    BY <1>1, <2>1, ConstantsAssumption DEF Formed, Ends, Extent, Overhead
  <2>. QED BY <2>1, <2>2, <2>3
<1>4. Real(B) \in SUBSET Nat BY DEF Real
<1>. QED BY <1>3, <1>4, Listed

(* A step after which the same blocks are there.                           *)
LEMMA SameBlocks ==
  ASSUME NEW B \in SUBSET Nat, Ring(B), Sized, Ring(B)', Sized',
         \A b \in B : View(b)'.state = "fake" <=> View(b).state = "fake"
  PROVE  \E e : /\ Lists(e, Real(B))
                /\ Blocks = Entries(e)
                /\ Blocks' = [i \in 1 .. Len(e) |-> EntryAt(e[i])']
<1>1. PICK e : Lists(e, Real(B)) BY RealListed
<1>2. Real(B)' = Real(B) BY DEF Real
<1>3. Lists(e, Real(B))' BY <1>1, <1>2 DEF Lists
<1>4. ParsedBlocks' BY BlocksListed, PTL
<1>5. Blocks' = Entries(e)' BY <1>3, <1>4 DEF ParsedBlocks
<1>6. Blocks = Entries(e) BY <1>1, BlocksListed DEF ParsedBlocks
<1>. QED BY <1>1, <1>5, <1>6 DEF Entries

(* A block that is kept, and whose owner stays, has the same entry.        *)
LEMMA EntryKept ==
  ASSUME NEW B \in SUBSET Nat, Formed(B), NEW b \in B, Kept(b),
         View(b).state # "fake", OwnAt(b)' <=> OwnAt(b)
  PROVE  EntryAt(b)' = EntryAt(b) /\ View(b + 1)' = View(b + 1)
<1>1. View(b)' = View(b) BY DEF Kept
<1>2. View(b + 1)' = View(b + 1)
  <2>1. 1 \in 0 .. View(b).size + Guard BY ConstantsAssumption DEF Formed
  <2>. QED BY <2>1 DEF Kept
<1>3. EntryAt(b) = [st |-> View(b).state,
                    msg |-> IF View(b).state = "skipped" \/ OwnAt(b)
                            THEN 0 ELSE View(b + 1).msg]
  BY EntryOf
<1>4. EntryAt(b)' = [st |-> View(b)'.state,
                     msg |-> IF View(b)'.state = "skipped" \/ OwnAt(b)'
                             THEN 0 ELSE View(b + 1)'.msg]
  BY DEF EntryAt, Written, OwnAt
<1>. QED BY <1>1, <1>2, <1>3, <1>4

(* All blocks are kept: the queue stays as it is.                          *)
LEMMA BlocksKept ==
  ASSUME NEW B \in SUBSET Nat, Ring(B), Sized, Ring(B)', Sized',
         \A b \in B : Kept(b), \A b : OwnAt(b)' <=> OwnAt(b)
  PROVE  Blocks' = Blocks
<1>1. Formed(B) BY DEF Ring, RingParts
<1>2. \A b \in B : View(b)' = View(b) BY DEF Kept
<1>3. PICK e : /\ Lists(e, Real(B)) /\ Blocks = Entries(e)
               /\ Blocks' = [i \in 1 .. Len(e) |-> EntryAt(e[i])']
  BY <1>2, SameBlocks
<1>4. ASSUME NEW i \in 1 .. Len(e) PROVE EntryAt(e[i])' = EntryAt(e[i])
  <2>1. PICK b \in B : b = e[i] /\ View(b).state # "fake" BY <1>3 DEF Lists, Real
  <2>2. EntryAt(b)' = EntryAt(b) BY <1>1, <2>1, EntryKept
  <2>. QED BY <2>1, <2>2
<1>. QED BY <1>3, <1>4 DEF Entries

(* The message the consumer looks at.                                      *)
HeldMsg == IF cpc \in {"held", "free"} THEN View(held + 1).msg ELSE 0

(* It is in a committed block, and stays when that block is kept.          *)
LEMMA HeldKept ==
  ASSUME NEW B \in SUBSET Nat, Ring(B), UNCHANGED consVars,
         \A b \in B : View(b).state = "commited" => Kept(b)
  PROVE  HeldMsg' = HeldMsg
<1>1. Formed(B) /\ Consumed(B) BY DEF Ring, RingParts
<1>2. cpc' = cpc /\ held' = held BY DEF consVars
<1>3. CASE cpc \in {"held", "free"}
  <2>1. PICK b \in B : b = held /\ View(b).state = "commited" BY <1>1, <1>3 DEF Consumed
  <2>2. 1 \in 0 .. View(b).size + Guard BY <1>1, <2>1, ConstantsAssumption DEF Formed
  <2>3. View(b + 1)' = View(b + 1) BY <2>1, <2>2 DEF Kept
  <2>4. View(held + 1)' = View(b + 1)' BY <1>2, <2>1 DEF View
  <2>. QED BY <1>2, <1>3, <2>1, <2>3, <2>4 DEF HeldMsg
<1>4. CASE cpc \notin {"held", "free"} BY <1>2, <1>4 DEF HeldMsg
<1>. QED BY <1>3, <1>4

(* A committed block has no owner, and its entry is its message.           *)
LEMMA CommittedEntry ==
  ASSUME NEW B \in SUBSET Nat, Ring(B), Numbered, NEW b \in B,
         View(b).state = "commited"
  PROVE  /\ EntryAt(b) = [st |-> "commited", msg |-> View(b + 1).msg]
         /\ View(b + 1).msg # 0
<1>1. RingTypes /\ Owned(B) /\ Committed(B) /\ Formed(B) BY DEF Ring, RingParts
<1>2. ~OwnAt(b)
  <2>. SUFFICES ASSUME NEW p \in Producers, pc[p] = "own", blk[p].msg # 0, blk[p].beg = b
                PROVE  FALSE
    BY DEF OwnAt
  <2>1. Owner(p) BY DEF Numbered, Owner
  <2>. QED BY <1>1, <2>1 DEF Owned
<1>3. PICK m \in DOMAIN outcome : Filled(b, m) BY <1>1 DEF Committed
<1>4. View(b + 1) = Data(m)
  <2>1. 1 \in 1 .. View(b).size BY <1>1 DEF Formed
  <2>. QED BY <1>3, <2>1 DEF Filled
<1>5. m # 0 BY <1>1 DEF RingTypes
<1>6. View(b + 1).msg = m BY <1>4 DEF Data, Blank
<1>. QED BY <1>2, <1>5, <1>6, EntryOf

(* The owner of a block that is not written is the only one.               *)
LEMMA OwnerAlone ==
  ASSUME NEW B \in SUBSET Nat, Ring(B), Numbered, NEW p \in Producers, Owner(p),
         NEW q \in Producers, pc[q] = "own", blk[q].msg # 0, blk[q].beg = blk[p].beg
  PROVE  q = p
<1>1. Owner(q) BY DEF Numbered, Owner
<1>. QED BY <1>1 DEF Ring, RingParts, Owned

-----------------------------------------------------------------------------
(* The extra invariants                                                    *)

LEMMA SizedStep ==
  ASSUME RingTypes, Sized, [Next]_vars
  PROVE  Sized'
<1>1. ASSUME UNCHANGED mem PROVE Sized' BY <1>1 DEF Sized
<1>2. DOMAIN mem = Slot /\ \A p \in Producers : blk[p].beg \in Nat /\ blk[p].n \in Nat
  BY DEF RingTypes, Locals
<1>3. /\ Blank.size = 0 /\ Postfix.size = 0 /\ (\A m : Data(m).size = 0)
      /\ \A n, s : Header(n, s).size = n
  BY DEF Blank, Postfix, Data, Header
<1>4. ASSUME NEW p \in Producers, AllocWrap(p) PROVE Sized'
  <2>1. PICK j \in Slot : j = At(blk[p].beg) BY <1>2, Slots
  <2>2. Size - j \in Nat BY ConstantsAssumption DEF Slot
  <2>3. mem' = [mem EXCEPT ![j] = Header(Size - j, "fake")]
    BY <1>4, <2>1 DEF AllocWrap, FakePrefix
  <2>. QED BY <1>2, <1>3, <2>2, <2>3 DEF Sized
<1>5. ASSUME NEW p \in Producers, AllocReserve(p) PROVE Sized'
  <2>1. mem' = [i \in Slot |->
                  CASE i = At(blk[p].beg) -> Header(blk[p].n, "busy")
                    [] Guard = 1 /\ i = At(blk[p].end - 1) -> Postfix
                    [] OTHER -> mem[i]]
    BY <1>5 DEF AllocReserve
  <2>2. ASSUME NEW i \in Slot PROVE mem'[i] \in {Header(blk[p].n, "busy"), Postfix, mem[i]}
    BY <2>1
  <2>. QED BY <1>2, <1>3, <2>2 DEF Sized
<1>6. ASSUME NEW p \in Producers, Fill(p) PROVE Sized'
  <2>1. \A i \in Slot : mem'[i] \in {Data(blk[p].msg), mem[i]} BY <1>6 DEF Fill
  <2>. QED BY <1>3, <2>1 DEF Sized
<1>7. ASSUME NEW p \in Producers, NEW s, Resolve(p, s) PROVE Sized'
  <2>1. PICK a : a = blk[p].handle.at OBVIOUS
  <2>2. CASE Acts(blk[p].handle)
    <3>1. mem' = [mem EXCEPT ![a] = [mem[a] EXCEPT !.state = s]]
      BY <1>7, <2>1, <2>2 DEF Resolve, UpdateBlockState
    <3>2. [mem[a] EXCEPT !.state = s].size = mem[a].size OBVIOUS
    <3>3. \A i \in Slot : mem'[i].size = mem[i].size BY <1>2, <3>1, <3>2
    <3>. QED BY <3>3 DEF Sized
  <2>3. CASE ~Acts(blk[p].handle)
    <3>1. UNCHANGED mem BY <1>7, <2>3 DEF Resolve, UpdateBlockState
    <3>. QED BY <1>1, <3>1
  <2>. QED BY <2>2, <2>3
<1>8. ASSUME NEW p \in Producers, Allocate(p) PROVE Sized'
  BY <1>1, <1>4, <1>5, <1>8 DEF Allocate, AllocRefuse, AllocEnter, AllocPublish, AllocFail
<1>9. ASSUME NEW p \in Producers, Use(p) PROVE Sized'
  BY <1>6, <1>7, <1>9 DEF Use, Commit, Skip
<1>10. ASSUME Consume PROVE Sized'
  <2>1. UNCHANGED mem
    BY <1>10 DEF Consume, PeekBegin, PeekEmpty, ScanPast, PeekHit, FreeBegin, FreeDone
  <2>. QED BY <1>1, <2>1
<1>11. ASSUME UNCHANGED vars PROVE Sized'
  <2>1. UNCHANGED mem BY <1>11 DEF vars
  <2>. QED BY <1>1, <2>1
<1>. QED BY <1>8, <1>9, <1>10, <1>11 DEF Next

LEMMA NumberedStep ==
  ASSUME RingTypes, Reserved, Numbered, [Next]_vars
  PROVE  Numbered'
<1>1. /\ outcome \in Seq({"pending"} \cup Resolved) /\ Len(outcome) \in Nat
      /\ MaxMsgs \in Nat /\ DOMAIN pc = Producers /\ DOMAIN blk = Producers
  BY ConstantsAssumption DEF RingTypes
<1>2. NoBlock.msg = 0 BY DEF NoBlock
<1>3. ASSUME NEW p \in Producers, Len(outcome') = Len(outcome),
             \A q \in Producers : q # p => pc'[q] = pc[q] /\ blk'[q] = blk[q],
             Inside(p)' => Inside(p) \/ Len(outcome) < MaxMsgs,
             pc'[p] = "own" => blk'[p].msg = 0 \/ blk'[p].handle.valid
      PROVE  Numbered'
  BY <1>3 DEF Numbered, Inside
<1>4. ASSUME NEW p \in Producers, Allocate(p) PROVE Numbered'
  <2>1. ASSUME NEW bytes \in Requests, AllocRefuse(p, bytes) PROVE Numbered'
    BY <1>1, <1>2, <1>3, <2>1 DEF AllocRefuse, Inside
  <2>2. ASSUME NEW bytes \in Requests, NEW no_wait \in BOOLEAN, AllocEnter(p, bytes, no_wait)
        PROVE  Numbered'
    <3>1. PICK s \in {"border", "reserve"} : pc' = [pc EXCEPT ![p] = s]
      BY <2>2 DEF AllocEnter
    <3>2. \A q \in Producers : q # p => pc'[q] = pc[q] /\ blk'[q] = blk[q]
      BY <1>1, <2>2 DEF AllocEnter
    <3>. QED BY <1>1, <1>3, <2>2, <3>1, <3>2 DEF AllocEnter
  <2>3. ASSUME AllocWrap(p) \/ AllocReserve(p) PROVE Numbered'
    <3>1. Inside(p) /\ outcome' = outcome /\ pc'[p] # "own"
      BY <1>1, <2>3 DEF AllocWrap, AllocReserve, Inside
    <3>2. \A q \in Producers : q # p => pc'[q] = pc[q] /\ blk'[q] = blk[q]
      BY <1>1, <2>3 DEF AllocWrap, AllocReserve
    <3>. QED BY <1>3, <3>1, <3>2
  <2>4. ASSUME AllocPublish(p) PROVE Numbered'
    <3>1. Inside(p) /\ Len(outcome') = Len(outcome) + 1 /\ Len(outcome) < MaxMsgs
      BY <1>1, <2>4 DEF AllocPublish, Inside, Numbered
    <3>2. \A q \in Producers : q # p => pc'[q] = pc[q] /\ blk'[q] = blk[q]
      BY <1>1, <2>4 DEF AllocPublish
    <3>3. pc'[p] = "own" /\ blk'[p].handle.valid
      <4>1. PICK rec \in Locals : rec = blk[p] BY DEF RingTypes
      <4>2. PICK h : h = [valid |-> TRUE, at |-> At(blk[p].beg)] OBVIOUS
      <4>3. blk' = [blk EXCEPT ![p].msg = Len(outcome) + 1, ![p].handle = h]
        BY <2>4, <4>2 DEF AllocPublish
      <4>4. blk'[p].handle = h BY <1>1, <4>1, <4>3 DEF Locals
      <4>. QED BY <1>1, <2>4, <4>2, <4>4 DEF AllocPublish
    <3>4. \A q \in Producers : ~Inside(q)' BY <3>1, <3>2, <3>3, OneInside DEF Inside
    <3>. QED BY <1>1, <3>1, <3>2, <3>3, <3>4 DEF Numbered
  <2>5. ASSUME AllocFail(p) PROVE Numbered'
    BY <1>1, <1>2, <1>3, <2>5 DEF AllocFail, Inside
  <2>. QED BY <1>4, <2>1, <2>2, <2>3, <2>4, <2>5 DEF Allocate
<1>5. ASSUME NEW p \in Producers, Use(p) PROVE Numbered'
  <2>1. CASE Fill(p)
    BY <1>1, <1>3, <2>1 DEF Fill, Inside
  <2>2. ASSUME NEW s, Resolve(p, s) PROVE Numbered'
    <3>1. Len(outcome') = Len(outcome)
      BY <1>1, <2>2 DEF Resolve, UpdateBlockState
    <3>2. pc'[p] = "idle" /\ \A q \in Producers : q # p => pc'[q] = pc[q] /\ blk'[q] = blk[q]
      BY <1>1, <2>2 DEF Resolve
    <3>. QED BY <1>3, <3>1, <3>2 DEF Inside
  <2>. QED BY <1>5, <2>1, <2>2 DEF Use, Commit, Skip
<1>6. ASSUME Consume \/ UNCHANGED vars PROVE Numbered'
  <2>1. UNCHANGED <<pc, blk, outcome>>
    BY <1>6 DEF Consume, PeekBegin, PeekEmpty, ScanPast, PeekHit, FreeBegin, FreeDone,
                vars, prodVars
  <2>. QED BY <2>1 DEF Numbered, Inside
<1>. QED BY <1>4, <1>5, <1>6 DEF Next

-----------------------------------------------------------------------------
(* The steps of the queue                                                  *)

QueueKept == Blocks' = Blocks /\ HeldMsg' = HeldMsg /\ delivered' = delivered

(* What leaves blocks, consumer and history alone is no step of the queue. *)
LEMMA QuietStep ==
  ASSUME NEW B \in SUBSET Nat, Ring(B), Sized, Ring(B)', Sized',
         \A b \in B : Kept(b), \A b : OwnAt(b)' <=> OwnAt(b),
         UNCHANGED <<consVars, delivered>>
  PROVE  QueueKept
<1>1. Blocks' = Blocks BY BlocksKept
<1>2. HeldMsg' = HeldMsg BY HeldKept
<1>. QED BY <1>1, <1>2 DEF QueueKept

(* allocate, until it publishes its block.                                 *)
LEMMA AllocateQuiet ==
  ASSUME NEW B \in SUBSET Nat, Ring(B), Sized, Sized', NEW p \in Producers,
         Allocate(p), ~AllocPublish(p)
  PROVE  QueueKept
<1>1. RingTypes BY DEF Ring
<1>2. DOMAIN pc = Producers /\ DOMAIN blk = Producers BY <1>1 DEF RingTypes
<1>3. /\ pc[p] # "own" /\ (pc'[p] = "own" => blk'[p].msg = 0)
      /\ \A q \in Producers : q # p => pc'[q] = pc[q] /\ blk'[q] = blk[q]
      /\ UNCHANGED <<consVars, delivered>>
  <2>1. NoBlock.msg = 0 BY DEF NoBlock
  <2>2. CASE (\E bytes \in Requests : AllocRefuse(p, bytes)) \/ AllocFail(p)
    BY <1>2, <2>1, <2>2 DEF AllocRefuse, AllocFail
  <2>3. ASSUME NEW bytes \in Requests, NEW no_wait \in BOOLEAN, AllocEnter(p, bytes, no_wait)
        PROVE  <1>3!1 /\ <1>3!2 /\ <1>3!3
    <3>1. pc'[p] # "own" /\ \A q \in Producers : q # p => pc'[q] = pc[q]
      <4>1. PICK s \in {"border", "reserve"} : pc' = [pc EXCEPT ![p] = s]
        BY <2>3 DEF AllocEnter
      <4>. QED BY <1>2, <4>1
    <3>. QED BY <1>2, <2>3, <3>1 DEF AllocEnter
  <2>4. CASE AllocWrap(p) BY <1>2, <2>4 DEF AllocWrap
  <2>5. CASE AllocReserve(p) BY <1>2, <2>5 DEF AllocReserve
  <2>. QED BY <2>2, <2>3, <2>4, <2>5 DEF Allocate
<1>4. \A b : OwnAt(b)' <=> OwnAt(b) BY <1>3 DEF OwnAt
<1>5. Ring(B)' /\ \A b \in B : Kept(b)
  <2>1. CASE AllocWrap(p) \/ AllocReserve(p) BY <2>1, WrapStep, ReserveStep
  <2>2. CASE ~(AllocWrap(p) \/ AllocReserve(p))
    <3>1. Ring(B)' BY <2>2, AllocNothing, EnterStep DEF Allocate
    <3>2. UNCHANGED mem BY <2>2 DEF Allocate, AllocRefuse, AllocEnter, AllocFail
    <3>. QED BY <3>1, <3>2 DEF Kept, View
  <2>. QED BY <2>1, <2>2
<1>. QED BY <1>3, <1>4, <1>5, QuietStep

(* allocate publishes its block: a new entry, not written yet.             *)
LEMMA PublishQueue ==
  ASSUME NEW B \in SUBSET Nat, Ring(B), Sized, Numbered, Sized', NEW p \in Producers,
         AllocPublish(p)
  PROVE  /\ Blocks' = Append(Blocks, [st |-> "busy", msg |-> 0])
         /\ HeldMsg' = HeldMsg /\ delivered' = delivered
<1>1. RingTypes /\ Reserved /\ Covered(B) /\ Formed(B) BY DEF Ring, RingParts
<1>2. PICK b \in Nat : b = blk[p].beg BY <1>1 DEF RingTypes, Locals
<1>3. PICK w \in Nat : w = ix_write BY <1>1 DEF RingTypes
<1>4. PICK C : C = B \cup {b} \cup {w} OBVIOUS
<1>5. C \in SUBSET Nat /\ Ring(C)' BY <1>2, <1>3, <1>4, PublishStep
<1>6. UNCHANGED mem /\ UNCHANGED consVars /\ delivered' = delivered BY DEF AllocPublish
<1>7. \A i : View(i)' = View(i) BY <1>6 DEF View
<1>8. /\ w <= b /\ View(b).state = "busy"
      /\ w < b => View(w).state = "fake"
  BY <1>1, <1>2, <1>3 DEF AllocPublish, Reserved, Inside, Header, Blank
<1>9. /\ pc[p] = "publish" /\ pc'[p] = "own" /\ blk'[p].beg = b /\ blk'[p].msg # 0
      /\ \A q \in Producers : q # p => pc'[q] = pc[q] /\ blk'[q] = blk[q]
  <2>1. PICK rec \in Locals : rec = blk[p] BY <1>1 DEF RingTypes
  <2>2. PICK m \in Nat : m = Len(outcome) + 1 /\ m # 0 BY <1>1 DEF RingTypes
  <2>3. PICK h : h = [valid |-> TRUE, at |-> At(blk[p].beg)] OBVIOUS
  <2>4. blk' = [blk EXCEPT ![p].msg = m, ![p].handle = h] BY <2>2, <2>3 DEF AllocPublish
  <2>5. blk'[p].beg = b /\ blk'[p].msg = m
    BY <1>1, <1>2, <2>1, <2>4 DEF RingTypes, Locals
  <2>6. \A q \in Producers : q # p => blk'[q] = blk[q] BY <1>1, <2>4 DEF RingTypes
  <2>. QED BY <1>1, <2>2, <2>5, <2>6 DEF AllocPublish, RingTypes
<1>10. PICK e : Lists(e, Real(B)) BY RealListed
<1>11. e \in Seq(Nat) /\ Len(e) \in Nat BY <1>10 DEF Lists
<1>12. ASSUME NEW c \in B PROVE c \in Nat /\ c < w
  <2>1. c < Ends(c) /\ Ends(c) <= w BY <1>1, <1>3 DEF Covered
  <2>2. Ends(c) \in Int
    BY <1>1, ConstantsAssumption DEF Formed, Ends, Extent, Overhead
  <2>. QED BY <2>1, <2>2
<1>13. PICK f : f = Append(e, b) OBVIOUS
<1>14. /\ f \in Seq(Nat) /\ Len(f) = Len(e) + 1 /\ f[Len(e) + 1] = b
       /\ \A i \in 1 .. Len(e) : f[i] = e[i]
  BY <1>11, <1>13
<1>15. \A i \in 1 .. Len(f) : i \in 1 .. Len(e) \/ i = Len(e) + 1 BY <1>11, <1>14
<1>16. \A i \in 1 .. Len(e) : e[i] \in B /\ View(e[i]).state # "fake" /\ e[i] < b
  <2>1. \A i \in 1 .. Len(e) : e[i] \in B /\ View(e[i]).state # "fake"
    BY <1>10 DEF Lists, Real
  <2>2. \A c \in B : c < b BY <1>8, <1>12
  <2>. QED BY <2>1, <2>2
<1>17. Real(C)' = Real(B) \cup {b}
  <2>1. \A c \in C : c \in B \/ c = b \/ (c = w /\ w < b) BY <1>4, <1>8
  <2>2. \A c \in C : View(c)'.state # "fake" <=> c = b \/ c \in Real(B)
    BY <1>4, <1>7, <1>8, <2>1 DEF Real
  <2>. QED BY <1>4, <2>2 DEF Real
<1>18. Lists(f, Real(C)')
  <2>1. \A i \in 1 .. Len(f) : f[i] \in Real(C)'
    BY <1>10, <1>14, <1>15, <1>17 DEF Lists
  <2>2. ASSUME NEW i \in 1 .. Len(f), NEW j \in 1 .. Len(f), i < j PROVE f[i] < f[j]
    <3>1. i \in 1 .. Len(e) BY <1>11, <1>14, <2>2
    <3>2. CASE j \in 1 .. Len(e) BY <1>10, <1>14, <2>2, <3>1, <3>2 DEF Lists
    <3>3. CASE j = Len(e) + 1 BY <1>14, <1>16, <3>1, <3>3
    <3>. QED BY <1>15, <3>2, <3>3
  <2>3. ASSUME NEW c \in Real(C)' PROVE \E i \in 1 .. Len(f) : f[i] = c
    <3>1. CASE c = b
      <4>1. Len(e) + 1 \in 1 .. Len(f) BY <1>11, <1>14
      <4>. QED BY <1>14, <3>1, <4>1
    <3>2. CASE c \in Real(B)
      <4>1. PICK i \in 1 .. Len(e) : e[i] = c BY <1>10, <3>2 DEF Lists
      <4>2. i \in 1 .. Len(f) BY <1>11, <1>14
      <4>. QED BY <1>14, <4>1, <4>2
    <3>. QED BY <1>17, <3>1, <3>2
  <2>. QED BY <1>14, <2>1, <2>2, <2>3 DEF Lists
<1>19. Blocks = Entries(e) BY <1>10, BlocksListed DEF ParsedBlocks
<1>20. Blocks' = [i \in 1 .. Len(f) |-> EntryAt(f[i])']
  <2>1. ParsedBlocks' BY BlocksListed, PTL
  <2>2. Lists(f, Real(C))' BY <1>18 DEF Lists
  <2>3. Blocks' = Entries(f)' BY <1>5, <2>1, <2>2 DEF ParsedBlocks
  <2>. QED BY <2>3 DEF Entries
<1>21. EntryAt(b)' = [st |-> "busy", msg |-> 0]
  <2>1. OwnAt(b)' BY <1>9 DEF OwnAt
  <2>2. EntryAt(b)' = [st |-> View(b)'.state,
                       msg |-> IF View(b)'.state = "skipped" \/ OwnAt(b)'
                               THEN 0 ELSE View(b + 1)'.msg]
    BY DEF EntryAt, Written, OwnAt
  <2>. QED BY <1>7, <1>8, <2>1, <2>2
<1>22. ASSUME NEW i \in 1 .. Len(e) PROVE EntryAt(e[i])' = EntryAt(e[i])
  <2>0. e[i] \in B /\ View(e[i]).state # "fake" /\ e[i] < b BY <1>16
  <2>1. PICK c \in B : c = e[i] /\ View(c).state # "fake" /\ c < b BY <2>0
  <2>5. c # b BY <1>12, <2>1
  <2>2. Kept(c) BY <1>7 DEF Kept
  <2>3. OwnAt(c)' <=> OwnAt(c) BY <1>9, <2>5 DEF OwnAt
  <2>4. EntryAt(c)' = EntryAt(c) BY <1>1, <2>1, <2>2, <2>3, EntryKept
  <2>. QED BY <2>1, <2>4
<1>23. Blocks' = Append(Blocks, [st |-> "busy", msg |-> 0])
  <2>1. /\ Len(Blocks) = Len(e) /\ DOMAIN Blocks = 1 .. Len(e)
        /\ \A i \in 1 .. Len(e) : Blocks[i] = EntryAt(e[i])
    BY <1>11, <1>19 DEF Entries
  <2>2. PICK a : a = [st |-> "busy", msg |-> 0] OBVIOUS
  <2>3. Append(Blocks, a) = [i \in 1 .. Len(e) + 1 |-> IF i = Len(e) + 1 THEN a ELSE Blocks[i]]
    <3>1. PICK X : X = {EntryAt(c) : c \in Nat} OBVIOUS
    <3>2. \A i \in 1 .. Len(e) : Blocks[i] \in X BY <1>11, <2>1, <3>1
    <3>3. Blocks = [i \in 1 .. Len(e) |-> Blocks[i]] BY <1>19 DEF Entries
    <3>4. Blocks \in Seq(X \cup {a}) BY <1>11, <3>2, <3>3
    <3>5. PICK g : g = Append(Blocks, a) OBVIOUS
    <3>6. g \in Seq(X \cup {a}) /\ Len(g) = Len(e) + 1 /\ g[Len(e) + 1] = a
          /\ \A i \in 1 .. Len(e) : g[i] = Blocks[i]
      BY <2>1, <3>4, <3>5
    <3>7. \A i \in 1 .. Len(e) + 1 : g[i] = IF i = Len(e) + 1 THEN a ELSE Blocks[i]
      BY <1>11, <3>6
    <3>8. g = [i \in 1 .. Len(e) + 1 |-> g[i]] BY <3>6
    <3>. QED BY <3>5, <3>7, <3>8
  <2>4. ASSUME NEW i \in 1 .. Len(e) + 1
        PROVE  EntryAt(f[i])' = IF i = Len(e) + 1 THEN a ELSE Blocks[i]
    <3>1. CASE i = Len(e) + 1
      <4>1. f[i] = b BY <1>14, <3>1
      <4>. QED BY <1>21, <2>2, <3>1, <4>1
    <3>2. CASE i # Len(e) + 1
      <4>1. i \in 1 .. Len(e) BY <1>11, <3>2
      <4>2. f[i] = e[i] BY <1>14, <4>1
      <4>. QED BY <1>22, <2>1, <3>2, <4>1, <4>2
    <3>. QED BY <3>1, <3>2
  <2>. QED BY <1>14, <1>20, <2>2, <2>3, <2>4
<1>24. HeldMsg' = HeldMsg BY <1>6 DEF HeldMsg, consVars, View
<1>. QED BY <1>6, <1>23, <1>24

(* A step that touches one block changes its entry and no other.           *)
LEMMA OneChanged ==
  ASSUME NEW B \in SUBSET Nat, Ring(B), Sized, Ring(B)', Sized', NEW b \in B,
         View(b).state # "fake", View(b)'.state # "fake",
         \A c \in B : c # b => Kept(c) /\ (OwnAt(c)' <=> OwnAt(c))
  PROVE  \E i \in DOMAIN Blocks : /\ Blocks[i] = EntryAt(b)
                                  /\ Blocks' = [Blocks EXCEPT ![i] = EntryAt(b)']
<1>1. Formed(B) BY DEF Ring, RingParts
<1>2. \A c \in B : c # b => View(c)' = View(c) BY DEF Kept
<1>3. \A c \in B : View(c)'.state = "fake" <=> View(c).state = "fake"
  <2>. SUFFICES ASSUME NEW c \in B PROVE View(c)'.state = "fake" <=> View(c).state = "fake"
    OBVIOUS
  <2>1. CASE c = b BY <2>1
  <2>2. CASE c # b BY <1>2, <2>2
  <2>. QED BY <2>1, <2>2
<1>4. PICK e : /\ Lists(e, Real(B)) /\ Blocks = Entries(e)
               /\ Blocks' = [i \in 1 .. Len(e) |-> EntryAt(e[i])']
  BY <1>3, SameBlocks
<1>5. PICK i \in 1 .. Len(e) : e[i] = b BY <1>4 DEF Lists, Real
<1>6. ASSUME NEW j \in 1 .. Len(e), j # i PROVE EntryAt(e[j])' = EntryAt(e[j])
  <2>1. PICK c \in B : c = e[j] /\ View(c).state # "fake" BY <1>4 DEF Lists, Real
  <2>2. c # b BY <1>4, <1>5, <1>6, <2>1 DEF Lists
  <2>3. EntryAt(c)' = EntryAt(c) BY <1>1, <2>1, <2>2, EntryKept
  <2>. QED BY <2>1, <2>3
<1>7. EntryAt(e[i])' = EntryAt(b)' /\ EntryAt(e[i]) = EntryAt(b) BY <1>5
<1>8. /\ DOMAIN Blocks = 1 .. Len(e) /\ \A j \in 1 .. Len(e) : Blocks[j] = EntryAt(e[j])
  BY <1>4 DEF Entries
<1>9. Blocks' = [j \in 1 .. Len(e) |-> IF j = i THEN EntryAt(b)' ELSE Blocks[j]]
  BY <1>4, <1>6, <1>7, <1>8
<1>10. PICK a : a = EntryAt(b)' OBVIOUS
<1>11. [Blocks EXCEPT ![i] = a] = [j \in 1 .. Len(e) |-> IF j = i THEN a ELSE Blocks[j]]
  BY <1>8
<1>. QED BY <1>7, <1>8, <1>9, <1>10, <1>11

(* The owner writes its message into its entry.                            *)
LEMMA FillQueue ==
  ASSUME NEW B \in SUBSET Nat, Ring(B), Sized, Numbered, Sized', NEW p \in Producers, Fill(p)
  PROVE  /\ HeldMsg' = HeldMsg /\ delivered' = delivered
         /\ \E i \in DOMAIN Blocks, m \in Msg :
              /\ Blocks[i] = [st |-> "busy", msg |-> 0]
              /\ Blocks' = [Blocks EXCEPT ![i] = [st |-> "busy", msg |-> m]]
<1>1. RingTypes /\ RingParts(B) /\ Owned(B) BY DEF Ring, RingParts
<1>2. PICK b \in Nat : b = blk[p].beg BY <1>1 DEF RingTypes, Locals
<1>3. PICK m : m = blk[p].msg OBVIOUS
<1>4. Owner(p) /\ pc[p] = "own" BY DEF Fill, Owner
<1>5. b \in B /\ View(b).state = "busy" /\ m \in DOMAIN outcome
  BY <1>1, <1>2, <1>3, <1>4 DEF Owned
<1>6. m \in Msg /\ m # 0
  <2>1. m \in 1 .. Len(outcome) /\ Len(outcome) \in Nat BY <1>1, <1>5 DEF RingTypes
  <2>. QED BY <2>1, ConstantsAssumption DEF Numbered, Msg
<1>7. /\ Ring(B)' /\ (\A c \in B : c # b => Kept(c))
      /\ View(b)' = View(b) /\ View(b + 1)' = Data(m)
  BY <1>2, <1>3, FillStep
<1>8. /\ pc'[p] = "filled" /\ \A q \in Producers : q # p => pc'[q] = pc[q]
      /\ blk' = blk /\ UNCHANGED consVars /\ delivered' = delivered
  BY <1>1 DEF Fill, RingTypes
<1>9. \A c : c # b => (OwnAt(c)' <=> OwnAt(c)) BY <1>2, <1>8 DEF OwnAt
<1>10. OwnAt(b) BY <1>2, <1>3, <1>4, <1>6 DEF OwnAt
<1>11. ~OwnAt(b)'
  <2>. SUFFICES ASSUME NEW q \in Producers, pc'[q] = "own", blk'[q].msg # 0, blk'[q].beg = b
                PROVE  FALSE
    BY DEF OwnAt
  <2>1. q # p /\ pc[q] = "own" /\ blk[q].msg # 0 /\ blk[q].beg = blk[p].beg BY <1>2, <1>8
  <2>. QED BY <1>4, <2>1, OwnerAlone
<1>12. EntryAt(b) = [st |-> "busy", msg |-> 0] BY <1>5, <1>10, EntryOf
<1>13. EntryAt(b)' = [st |-> "busy", msg |-> m]
  <2>1. EntryAt(b)' = [st |-> View(b)'.state,
                       msg |-> IF View(b)'.state = "skipped" \/ OwnAt(b)'
                               THEN 0 ELSE View(b + 1)'.msg]
    BY DEF EntryAt, Written, OwnAt
  <2>2. Data(m).msg = m BY DEF Data, Blank
  <2>. QED BY <1>5, <1>7, <1>11, <2>1, <2>2
<1>14. PICK i \in DOMAIN Blocks : /\ Blocks[i] = EntryAt(b)
                                  /\ Blocks' = [Blocks EXCEPT ![i] = EntryAt(b)']
  BY <1>5, <1>7, <1>9, OneChanged
<1>15. \A c \in B : View(c).state = "commited" => Kept(c) BY <1>5, <1>7
<1>16. HeldMsg' = HeldMsg BY <1>8, <1>15, HeldKept
<1>. QED BY <1>6, <1>8, <1>12, <1>13, <1>14, <1>16

(* commit keeps the message of the entry, skip removes it.                 *)
LEMMA ResolveQueue ==
  ASSUME NEW B \in SUBSET Nat, Ring(B), Sized, Numbered, Sized', NEW p \in Producers,
         Owner(p), NEW s \in Resolved, Resolve(p, s), s = "commited" => pc[p] = "filled"
  PROVE  /\ HeldMsg' = HeldMsg /\ delivered' = delivered
         /\ \E i \in DOMAIN Blocks : \E m :
              /\ Blocks[i] = [st |-> "busy", msg |-> m]
              /\ s = "commited" => m # 0
              /\ Blocks' = [Blocks EXCEPT ![i] =
                              [st |-> s, msg |-> IF s = "skipped" THEN 0 ELSE m]]
<1>1. RingTypes /\ RingParts(B) /\ Owned(B) /\ Formed(B) BY DEF Ring, RingParts
<1>2. PICK b \in Nat : b = blk[p].beg BY <1>1 DEF RingTypes, Locals
<1>3. PICK n \in Nat : n = blk[p].n BY <1>1 DEF RingTypes, Locals
<1>4. b \in B /\ View(b).state = "busy" BY <1>1, <1>2 DEF Owned
<1>5. /\ Ring(B)' /\ (\A c \in B : c # b => Kept(c))
      /\ View(b)' = Header(n, s) /\ View(b + 1)' = View(b + 1)
  <2>1. /\ Ring(B)'
        /\ \A c \in Nat : \A k : c = blk[p].beg /\ k = blk[p].n =>
             /\ \A d \in B : d # c => Kept(d)
             /\ View(c)' = Header(k, s) /\ View(c + 1)' = View(c + 1)
    BY ResolveBlock
  <2>. QED BY <1>2, <1>3, <2>1
<1>6. View(b)'.state = s /\ s # "fake" BY <1>5, HeaderState DEF Resolved
<1>7. /\ pc'[p] = "idle" /\ \A q \in Producers : q # p => pc'[q] = pc[q] /\ blk'[q] = blk[q]
      /\ UNCHANGED consVars /\ delivered' = delivered
  BY <1>1 DEF Resolve, RingTypes
<1>8. \A c : c # b => (OwnAt(c)' <=> OwnAt(c)) BY <1>2, <1>7 DEF OwnAt
<1>9. ~OwnAt(b)'
  <2>. SUFFICES ASSUME NEW q \in Producers, pc'[q] = "own", blk'[q].msg # 0, blk'[q].beg = b
                PROVE  FALSE
    BY DEF OwnAt
  <2>1. q # p /\ pc[q] = "own" /\ blk[q].msg # 0 /\ blk[q].beg = blk[p].beg BY <1>2, <1>7
  <2>. QED BY <2>1, OwnerAlone
<1>10. PICK m : m = IF OwnAt(b) THEN 0 ELSE View(b + 1).msg OBVIOUS
<1>11. EntryAt(b) = [st |-> "busy", msg |-> m] BY <1>4, <1>10, EntryOf
<1>12. s = "commited" => m # 0 /\ m = View(b + 1).msg
  <2>. SUFFICES ASSUME s = "commited" PROVE m # 0 /\ m = View(b + 1).msg OBVIOUS
  <2>1. pc[p] = "filled" OBVIOUS
  <2>2. ~OwnAt(b)
    <3>. SUFFICES ASSUME NEW q \in Producers, pc[q] = "own", blk[q].msg # 0, blk[q].beg = b
                  PROVE  FALSE
      BY DEF OwnAt
    <3>1. q = p BY <1>2, OwnerAlone
    <3>. QED BY <2>1, <3>1
  <2>3. PICK k : k = blk[p].msg OBVIOUS
  <2>4. Filled(b, k) /\ k \in DOMAIN outcome BY <1>1, <1>2, <2>1, <2>3 DEF Owned
  <2>5. 1 \in 1 .. View(b).size BY <1>1, <1>4 DEF Formed
  <2>6. View(b + 1) = Data(k) BY <2>4, <2>5 DEF Filled
  <2>7. View(b + 1).msg = k BY <2>6 DEF Data, Blank
  <2>8. k # 0 BY <1>1, <2>4 DEF RingTypes
  <2>. QED BY <1>10, <2>2, <2>7, <2>8
<1>13. EntryAt(b)' = [st |-> s, msg |-> IF s = "skipped" THEN 0 ELSE m]
  <2>1. EntryAt(b)' = [st |-> View(b)'.state,
                       msg |-> IF View(b)'.state = "skipped" \/ OwnAt(b)'
                               THEN 0 ELSE View(b + 1)'.msg]
    BY DEF EntryAt, Written, OwnAt
  <2>. QED BY <1>5, <1>6, <1>9, <1>12, <2>1 DEF Resolved
<1>14. PICK i \in DOMAIN Blocks : /\ Blocks[i] = EntryAt(b)
                                  /\ Blocks' = [Blocks EXCEPT ![i] = EntryAt(b)']
  BY <1>4, <1>5, <1>6, <1>8, OneChanged
<1>15. \A c \in B : View(c).state = "commited" => Kept(c) BY <1>4, <1>5
<1>16. HeldMsg' = HeldMsg BY <1>7, <1>15, HeldKept
<1>. QED BY <1>7, <1>11, <1>12, <1>13, <1>14, <1>16

(* commit and skip without a block leave the queue alone.                  *)
LEMMA ResolveQuiet ==
  ASSUME NEW B \in SUBSET Nat, Ring(B), Sized, Numbered, Sized', NEW p \in Producers,
         Commit(p) \/ Skip(p), ~blk[p].handle.valid
  PROVE  QueueKept
<1>1. RingTypes BY DEF Ring
<1>2. Ring(B)' BY ResolveStep
<1>3. /\ pc' = [pc EXCEPT ![p] = "idle"] /\ blk' = [blk EXCEPT ![p] = NoBlock]
      /\ UNCHANGED <<mem, consVars, delivered>>
  BY DEF Commit, Skip, Resolve, UpdateBlockState, Acts
<1>4. /\ pc'[p] = "idle" /\ \A q \in Producers : q # p => pc'[q] = pc[q] /\ blk'[q] = blk[q]
  BY <1>1, <1>3 DEF RingTypes
<1>5. ~(pc[p] = "own" /\ blk[p].msg # 0) BY DEF Numbered
<1>6. \A b : OwnAt(b)' <=> OwnAt(b) BY <1>4, <1>5 DEF OwnAt
<1>7. \A b \in B : Kept(b) BY <1>3 DEF Kept, View
<1>. QED BY <1>2, <1>3, <1>6, <1>7, QuietStep

(* A scan that begins or passes a block over leaves the queue alone.       *)
LEMMA ScanQuiet ==
  ASSUME NEW B \in SUBSET Nat, Ring(B), Sized, Sized',
         PeekBegin \/ ScanPast \/ FreeBegin
  PROVE  QueueKept
<1>1. Ring(B)' BY ScanStep
<1>2. UNCHANGED <<mem, pc, blk, held, delivered>>
  BY DEF PeekBegin, ScanPast, FreeBegin, prodVars
<1>3. \A b : OwnAt(b)' <=> OwnAt(b) BY <1>2 DEF OwnAt
<1>4. \A b \in B : Kept(b) BY <1>2 DEF Kept, View
<1>5. Blocks' = Blocks BY <1>1, <1>3, <1>4, BlocksKept
<1>6. cpc' \in {"held", "free"} <=> cpc \in {"held", "free"}
  BY DEF PeekBegin, ScanPast, FreeBegin
<1>7. HeldMsg' = HeldMsg BY <1>2, <1>6 DEF HeldMsg, View
<1>. QED BY <1>2, <1>5, <1>7 DEF QueueKept

(* Blocks the consumer passed over are entries that were skipped; the one  *)
(* it stands at is the first entry that is not.                            *)
LEMMA FirstEntry ==
  ASSUME NEW B \in SUBSET Nat, Ring(B), Sized, Numbered, NEW x \in B,
         View(x).state = "commited",
         \A b \in B : b < x => View(b).state \in PassedOver,
         NEW e, Lists(e, Real(B))
  PROVE  \E i \in 1 .. Len(e) :
           /\ e[i] = x /\ Blocks[i] = [st |-> "commited", msg |-> View(x + 1).msg]
           /\ \A j \in 1 .. i - 1 : Blocks[j].st = "skipped"
<1>1. Blocks = Entries(e) BY BlocksListed DEF ParsedBlocks
<1>2. e \in Seq(Nat) /\ Len(e) \in Nat BY DEF Lists
<1>3. PICK i \in 1 .. Len(e) : e[i] = x BY DEF Lists, Real
<1>4. \A j \in 1 .. Len(e) : Blocks[j] = EntryAt(e[j]) BY <1>1 DEF Entries
<1>5. Blocks[i] = [st |-> "commited", msg |-> View(x + 1).msg]
  BY <1>3, <1>4, CommittedEntry
<1>6. ASSUME NEW j \in 1 .. i - 1 PROVE Blocks[j].st = "skipped"
  <2>1. j \in 1 .. Len(e) /\ j < i BY <1>2
  <2>2. PICK b \in B : b = e[j] /\ View(b).state # "fake" /\ b < x
    BY <1>3, <2>1 DEF Lists, Real
  <2>3. View(b).state = "skipped" BY <2>2 DEF PassedOver
  <2>4. EntryAt(b).st = View(b).state BY DEF EntryAt
  <2>. QED BY <1>4, <2>1, <2>2, <2>3, <2>4
<1>. QED BY <1>3, <1>5, <1>6

(* peek returns the first message that was not skipped.                    *)
LEMMA PeekQueue ==
  ASSUME NEW B \in SUBSET Nat, Ring(B), Sized, Numbered, Sized', PeekHit
  PROVE  /\ Blocks' = Blocks /\ delivered' = delivered /\ HeldMsg = 0
         /\ \E i \in DOMAIN Blocks :
              /\ Blocks[i].st = "commited" /\ HeldMsg' = Blocks[i].msg
              /\ \A j \in 1 .. i - 1 : Blocks[j].st = "skipped"
<1>1. Ring(B)' BY ScanStep
<1>2. UNCHANGED <<mem, pc, blk, delivered>> /\ cpc = "peek" /\ cpc' = "held" /\ held' = readIx
  BY DEF PeekHit, prodVars
<1>3. \A b : OwnAt(b)' <=> OwnAt(b) BY <1>2 DEF OwnAt
<1>4. \A b \in B : Kept(b) BY <1>2 DEF Kept, View
<1>5. Blocks' = Blocks BY <1>1, <1>3, <1>4, BlocksKept
<1>6. Consumed(B) BY DEF Ring, RingParts
<1>7. PICK x \in B : x = readIx /\ \A b \in B : b < x => View(b).state \in PassedOver
  BY <1>6 DEF PeekHit, Consumed
<1>8. View(x).state = "commited" BY <1>7 DEF PeekHit, First, View
<1>9. PICK e : Lists(e, Real(B)) BY RealListed
<1>10. PICK i \in 1 .. Len(e) :
         /\ e[i] = x /\ Blocks[i] = [st |-> "commited", msg |-> View(x + 1).msg]
         /\ \A j \in 1 .. i - 1 : Blocks[j].st = "skipped"
  BY <1>7, <1>8, <1>9, FirstEntry
<1>11. DOMAIN Blocks = 1 .. Len(e) BY <1>9, BlocksListed DEF ParsedBlocks, Entries
<1>12. HeldMsg' = View(x + 1).msg BY <1>2, <1>7 DEF HeldMsg, View
<1>13. HeldMsg = 0 BY <1>2 DEF HeldMsg
<1>. QED BY <1>2, <1>5, <1>10, <1>11, <1>12, <1>13

(* peek that found nothing drops the entries, which were all skipped.      *)
LEMMA EmptyQueue ==
  ASSUME NEW B \in SUBSET Nat, Ring(B), Sized, Sized', PeekEmpty
  PROVE  /\ HeldMsg = 0 /\ HeldMsg' = 0 /\ delivered' = delivered /\ Blocks' = <<>>
         /\ \A i \in DOMAIN Blocks : Blocks[i].st = "skipped"
<1>1. RingTypes /\ Covered(B) /\ Formed(B) /\ Consumed(B) BY DEF Ring, RingParts
<1>2. PICK w \in Nat : w = ix_write BY <1>1 DEF RingTypes
<1>3. cpc = "peek" /\ cpc' = "idle" /\ readIx = w /\ ix_read' = w /\ delivered' = delivered
  BY <1>2 DEF PeekEmpty, Reclaimed
<1>4. HeldMsg = 0 /\ HeldMsg' = 0 BY <1>3 DEF HeldMsg
<1>5. ASSUME NEW b \in B PROVE b \in Nat /\ b < w
  <2>1. b < Ends(b) /\ Ends(b) <= w BY <1>1, <1>2 DEF Covered
  <2>2. Ends(b) \in Int
    BY <1>1, ConstantsAssumption DEF Formed, Ends, Extent, Overhead
  <2>. QED BY <2>1, <2>2
<1>6. PICK e : Lists(e, Real(B)) BY RealListed
<1>7. Blocks = Entries(e) BY <1>6, BlocksListed DEF ParsedBlocks
<1>8. ASSUME NEW i \in DOMAIN Blocks PROVE Blocks[i].st = "skipped"
  <2>1. i \in 1 .. Len(e) /\ Blocks[i] = EntryAt(e[i]) BY <1>7 DEF Entries
  <2>2. PICK b \in B : b = e[i] /\ View(b).state # "fake" BY <1>6, <2>1 DEF Lists, Real
  <2>3. View(b).state \in PassedOver BY <1>1, <1>3, <1>5 DEF Consumed
  <2>4. View(b).state = "skipped" BY <2>2, <2>3 DEF PassedOver
  <2>. QED BY <2>1, <2>2, <2>4 DEF EntryAt
<1>9. PICK C : C = {b \in B : b >= ix_read'} OBVIOUS
<1>10. C = {}
  <2>1. \A b \in B : ~(b >= w) BY <1>5
  <2>. QED BY <1>3, <1>9, <2>1
<1>11. C \in SUBSET Nat /\ Ring(C)' BY <1>9, ReleaseStep
<1>12. Blocks' = <<>>
  <2>1. Lists(<<>>, Real(C))' BY <1>10 DEF Lists, Real
  <2>2. ParsedBlocks' BY BlocksListed, PTL
  <2>3. Blocks' = Entries(<<>>)' BY <1>11, <2>1, <2>2 DEF ParsedBlocks
  <2>4. Entries(<<>>)' = <<>>
    <3>1. Entries(<<>>)' \in [1 .. 0 -> {}] BY DEF Entries
    <3>. QED BY <3>1
  <2>. QED BY <2>3, <2>4
<1>. QED BY <1>3, <1>4, <1>8, <1>12

(* free delivers the message peek returned and drops it with what is       *)
(* before it.                                                              *)
LEMMA FreeQueue ==
  ASSUME NEW B \in SUBSET Nat, Ring(B), Sized, Numbered, Sized', FreeDone
  PROVE  /\ HeldMsg # 0 /\ HeldMsg' = 0 /\ delivered' = Append(delivered, HeldMsg)
         /\ \E i \in DOMAIN Blocks :
              /\ Blocks[i].st = "commited" /\ Blocks[i].msg = HeldMsg
              /\ \A j \in 1 .. i - 1 : Blocks[j].st = "skipped"
              /\ Blocks' = SubSeq(Blocks, i + 1, Len(Blocks))
<1>1. RingTypes /\ Covered(B) /\ Formed(B) /\ Consumed(B) BY DEF Ring, RingParts
<1>2. /\ cpc = "free" /\ cpc' = "idle" /\ UNCHANGED <<mem, prodVars>>
      /\ delivered' = Append(delivered, View(held + 1).msg)
  BY DEF FreeDone, View
<1>3. PICK x \in B : x = readIx /\ \A b \in B : b < x => View(b).state \in PassedOver
  BY <1>1 DEF FreeDone, Consumed
<1>4. View(x).state = "commited" /\ ix_read' = Ends(x)
  BY <1>3 DEF FreeDone, First, View, Ends
<1>5. held = x
  <2>1. /\ held \in B /\ View(held).state = "commited"
        /\ \A b \in B : b < held => View(b).state \in PassedOver
    BY <1>1, <1>2 DEF Consumed
  <2>2. ~(held < x) /\ ~(x < held) BY <1>3, <1>4, <2>1 DEF PassedOver
  <2>3. held \in Nat /\ x \in Nat BY <2>1
  <2>. QED BY <2>2, <2>3
<1>6. HeldMsg = View(x + 1).msg /\ HeldMsg' = 0 BY <1>2, <1>5 DEF HeldMsg
<1>7. HeldMsg # 0 BY <1>4, <1>6, CommittedEntry
<1>8. delivered' = Append(delivered, HeldMsg) BY <1>2, <1>5, <1>6
<1>9. PICK e : Lists(e, Real(B)) BY RealListed
<1>10. e \in Seq(Nat) /\ Len(e) \in Nat BY <1>9 DEF Lists
<1>11. PICK i \in 1 .. Len(e) :
         /\ e[i] = x /\ Blocks[i] = [st |-> "commited", msg |-> View(x + 1).msg]
         /\ \A j \in 1 .. i - 1 : Blocks[j].st = "skipped"
  <2>1. View(x).state = "commited" BY <1>4
  <2>2. \A b \in B : b < x => View(b).state \in PassedOver BY <1>3
  <2>. QED BY <1>9, <2>1, <2>2, FirstEntry
<1>12. Blocks = Entries(e) BY <1>9, BlocksListed DEF ParsedBlocks
<1>13. /\ DOMAIN Blocks = 1 .. Len(e) /\ Len(Blocks) = Len(e)
       /\ \A j \in 1 .. Len(e) : Blocks[j] = EntryAt(e[j])
  BY <1>10, <1>12 DEF Entries
<1>14. PICK C : C = {b \in B : b >= ix_read'} OBVIOUS
<1>15. C \in SUBSET Nat /\ Ring(C)' BY <1>14, ReleaseStep
<1>16. \A i1 : View(i1)' = View(i1) BY <1>2 DEF View
<1>17. Real(C)' = {b \in Real(B) : b > x}
  <2>1. ASSUME NEW b \in B PROVE b >= Ends(x) <=> b > x
    <3>1. x < Ends(x) /\ (x < b => Ends(x) <= b) BY <1>1 DEF Covered
    <3>2. Ends(x) \in Int
      BY <1>1, ConstantsAssumption DEF Formed, Ends, Extent, Overhead
    <3>. QED BY <3>1, <3>2
  <2>2. C = {b \in B : b > x} BY <1>4, <1>14, <2>1
  <2>. QED BY <1>16, <2>2 DEF Real
<1>18. PICK n \in Nat : n = Len(e) - i BY <1>10
<1>19. PICK f : f = [k \in 1 .. n |-> e[i + k]] OBVIOUS
<1>20. /\ \A k \in 1 .. n : i + k \in 1 .. Len(e) /\ f[k] = e[i + k] /\ f[k] \in Nat
       /\ f \in Seq(Nat) /\ Len(f) = n
  <2>1. \A k \in 1 .. n : i + k \in 1 .. Len(e) BY <1>10, <1>18
  <2>3. \A l \in 1 .. Len(e) : e[l] \in Nat BY <1>10
  <2>2. \A k \in 1 .. n : e[i + k] \in Nat BY <2>1, <2>3
  <2>. QED BY <1>19, <2>1, <2>2
<1>21. Lists(f, Real(C)')
  <2>1. ASSUME NEW k \in 1 .. n PROVE f[k] \in Real(B) /\ f[k] > x
    <3>1. i < i + k /\ i \in 1 .. Len(e) /\ i + k \in 1 .. Len(e) BY <1>10, <1>20
    <3>2. e[i] < e[i + k] /\ e[i + k] \in Real(B) BY <1>9, <3>1 DEF Lists
    <3>. QED BY <1>11, <1>20, <3>2
  <2>2. ASSUME NEW j \in 1 .. n, NEW k \in 1 .. n, j < k PROVE f[j] < f[k]
    <3>1. i + j < i + k /\ i + j \in 1 .. Len(e) /\ i + k \in 1 .. Len(e) BY <1>10, <1>20, <2>2
    <3>2. e[i + j] < e[i + k] BY <1>9, <3>1 DEF Lists
    <3>. QED BY <1>20, <3>2
  <2>3. ASSUME NEW b \in Real(B), b > x PROVE \E k \in 1 .. n : f[k] = b
    <3>1. PICK j \in 1 .. Len(e) : e[j] = b BY <1>9 DEF Lists
    <3>2. j > i
      <4>1. b \in Nat /\ x \in Nat BY DEF Real
      <4>2. j # i BY <1>11, <2>3, <3>1, <4>1
      <4>3. ~(j < i)
        <5>. SUFFICES ASSUME j < i PROVE FALSE OBVIOUS
        <5>1. e[j] < e[i] BY <1>9 DEF Lists
        <5>. QED BY <1>11, <2>3, <3>1, <4>1, <5>1
      <4>. QED BY <4>2, <4>3
    <3>3. j - i \in 1 .. n /\ i + (j - i) = j BY <1>10, <1>18, <3>2
    <3>. QED BY <1>20, <3>1, <3>3
  <2>. QED BY <1>17, <1>20, <2>1, <2>2, <2>3 DEF Lists
<1>22. Blocks' = [k \in 1 .. n |-> EntryAt(f[k])']
  <2>1. Lists(f, Real(C))' BY <1>21 DEF Lists
  <2>2. ParsedBlocks' BY BlocksListed, PTL
  <2>3. Blocks' = Entries(f)' BY <1>15, <2>1, <2>2 DEF ParsedBlocks
  <2>. QED BY <1>20, <2>3 DEF Entries
<1>23. \A b : EntryAt(b)' = EntryAt(b)
  <2>1. \A b : OwnAt(b)' <=> OwnAt(b) BY <1>2 DEF OwnAt, prodVars
  <2>2. \A b : EntryAt(b)' = [st |-> View(b)'.state,
                              msg |-> IF View(b)'.state = "skipped" \/ OwnAt(b)'
                                      THEN 0 ELSE View(b + 1)'.msg]
    BY DEF EntryAt, Written, OwnAt
  <2>. QED BY <1>16, <2>1, <2>2, EntryOf
<1>24. Blocks' = [k \in 1 .. n |-> Blocks[i + k]]
  <2>1. ASSUME NEW k \in 1 .. n PROVE EntryAt(f[k])' = Blocks[i + k]
    <3>1. f[k] = e[i + k] /\ i + k \in 1 .. Len(e) BY <1>20
    <3>2. Blocks[i + k] = EntryAt(e[i + k]) BY <1>13, <3>1
    <3>. QED BY <1>23, <3>1, <3>2
  <2>. QED BY <1>22, <2>1
<1>25. SubSeq(Blocks, i + 1, Len(Blocks)) = [k \in 1 .. n |-> Blocks[i + k]]
  <2>1. SubSeq(Blocks, i + 1, Len(Blocks))
          = [k \in 1 .. (Len(e) - (i + 1)) + 1 |-> Blocks[k + (i + 1) - 1]]
    BY <1>13 DEF SubSeq
  <2>2. Len(e) - (i + 1) + 1 = n /\ \A k \in 1 .. n : k + (i + 1) - 1 = i + k BY <1>10, <1>18
  <2>. QED BY <2>1, <2>2
<1>26. /\ i \in DOMAIN Blocks /\ Blocks[i].st = "commited" /\ Blocks[i].msg = HeldMsg
       /\ Blocks' = SubSeq(Blocks, i + 1, Len(Blocks))
  BY <1>6, <1>11, <1>13, <1>24, <1>25
<1>. QED BY <1>6, <1>7, <1>8, <1>11, <1>26

-----------------------------------------------------------------------------
(* The ring buffer implements the queue                                    *)

QueueInv == RingInv /\ Sized /\ Numbered

LEMMA QueueInvInit == Init => QueueInv
<1>. SUFFICES ASSUME Init PROVE QueueInv OBVIOUS
<1>1. Sized BY DEF Init, Sized, Blank
<1>2. Numbered BY ConstantsAssumption DEF Init, Numbered, Inside
<1>. QED BY <1>1, <1>2, RingInvInit DEF QueueInv

LEMMA QueueInvStep == QueueInv /\ [Next]_vars => QueueInv'
<1>. SUFFICES ASSUME QueueInv, [Next]_vars PROVE QueueInv' OBVIOUS
<1>1. RingTypes /\ Reserved BY DEF QueueInv, RingInv, Ring
<1>. QED BY <1>1, RingInvStep, SizedStep, NumberedStep DEF QueueInv

(* An empty buffer is the empty queue.                                     *)
LEMMA QueueInit == Init => Queue!Init
<1>. SUFFICES ASSUME Init PROVE Queue!Init OBVIOUS
<1>1. QueueInv BY QueueInvInit
<1>2. PICK B \in SUBSET Nat : Ring(B) BY <1>1 DEF QueueInv, RingInv
<1>3. B = {}
  <2>1. ASSUME NEW b \in B PROVE FALSE
    <3>1. Covered(B) /\ Formed(B) BY <1>2 DEF Ring, RingParts
    <3>2. 0 <= b /\ b < Ends(b) /\ Ends(b) <= 0 BY <3>1 DEF Covered, Init
    <3>3. Ends(b) \in Int
      BY <3>1, ConstantsAssumption DEF Formed, Ends, Extent, Overhead
    <3>. QED BY <3>2, <3>3
  <2>. QED BY <2>1
<1>4. Lists(<<>>, Real(B)) BY <1>3 DEF Lists, Real
<1>5. Blocks = Entries(<<>>) BY <1>1, <1>2, <1>4, BlocksListed DEF ParsedBlocks, QueueInv
<1>6. Entries(<<>>) = <<>>
  <2>1. Entries(<<>>) \in [1 .. 0 -> {}] BY DEF Entries
  <2>. QED BY <2>1
<1>. QED BY <1>5, <1>6 DEF Queue!Init, Init

(* Every step of the buffer is a step of the queue or leaves it alone.     *)
LEMMA QueueStep ==
  ASSUME QueueInv, [Next]_vars
  PROVE  [Queue!Next]_(Queue!vars)
<1>1. PICK B \in SUBSET Nat : Ring(B) BY DEF QueueInv, RingInv
<1>2. Sized /\ Numbered /\ Sized' BY QueueInvStep DEF QueueInv
<1>3. HeldMsg = (IF cpc \in {"held", "free"} THEN mem[At(held + 1)].msg ELSE 0)
  BY DEF HeldMsg, View
<1>4. HeldMsg' = (IF cpc \in {"held", "free"} THEN mem[At(held + 1)].msg ELSE 0)'
  BY DEF HeldMsg, View
<1>5. ASSUME QueueKept PROVE UNCHANGED Queue!vars
  BY <1>3, <1>4, <1>5 DEF QueueKept, Queue!vars
<1>6. ASSUME NEW p \in Producers, Allocate(p) PROVE [Queue!Next]_(Queue!vars)
  <2>1. CASE AllocPublish(p)
    <3>1. Queue!Reserve
      BY <1>1, <1>2, <1>3, <1>4, <2>1, PublishQueue DEF Queue!Reserve
    <3>. QED BY <3>1 DEF Queue!Next
  <2>2. CASE ~AllocPublish(p)
    <3>1. QueueKept BY <1>1, <1>2, <1>6, <2>2, AllocateQuiet
    <3>. QED BY <1>5, <3>1
  <2>. QED BY <2>1, <2>2
<1>7. ASSUME NEW p \in Producers, Fill(p) PROVE Queue!Next
  <2>1. /\ HeldMsg' = HeldMsg /\ delivered' = delivered
        /\ \E i \in DOMAIN Blocks, m \in Msg :
             /\ Blocks[i] = [st |-> "busy", msg |-> 0]
             /\ Blocks' = [Blocks EXCEPT ![i] = [st |-> "busy", msg |-> m]]
    BY <1>1, <1>2, <1>7, FillQueue
  <2>2. PICK i \in DOMAIN Blocks, m \in Msg :
             /\ Blocks[i] = [st |-> "busy", msg |-> 0]
             /\ Blocks' = [Blocks EXCEPT ![i] = [st |-> "busy", msg |-> m]]
    BY <2>1
  <2>3. [Blocks EXCEPT ![i].msg = m] = [Blocks EXCEPT ![i] = [st |-> "busy", msg |-> m]]
    <3>1. [Blocks[i] EXCEPT !.msg = m] = [st |-> "busy", msg |-> m] BY <2>2
    <3>. QED BY <3>1
  <2>4. Queue!Write(i, m) BY <1>3, <1>4, <2>1, <2>2, <2>3 DEF Queue!Write
  <2>. QED BY <2>4 DEF Queue!Next
<1>8. ASSUME NEW p \in Producers, Commit(p) \/ Skip(p) PROVE [Queue!Next]_(Queue!vars)
  <2>1. CASE ~blk[p].handle.valid
    <3>1. QueueKept BY <1>1, <1>2, <1>8, <2>1, ResolveQuiet
    <3>. QED BY <1>5, <3>1
  <2>2. CASE blk[p].handle.valid
    <3>1. PICK s \in Resolved : /\ Resolve(p, s) /\ pc[p] \in {"own", "filled"}
                                /\ s = "commited" => pc[p] = "filled"
      BY <1>8, <2>2 DEF Commit, Skip, Resolved
    <3>2. Owner(p) BY <2>2, <3>1 DEF Owner
    <3>3. /\ HeldMsg' = HeldMsg /\ delivered' = delivered
          /\ \E i \in DOMAIN Blocks : \E m :
               /\ Blocks[i] = [st |-> "busy", msg |-> m]
               /\ s = "commited" => m # 0
               /\ Blocks' = [Blocks EXCEPT ![i] =
                               [st |-> s, msg |-> IF s = "skipped" THEN 0 ELSE m]]
      BY <1>1, <1>2, <3>1, <3>2, ResolveQueue
    <3>4. PICK i \in DOMAIN Blocks : \E m :
               /\ Blocks[i] = [st |-> "busy", msg |-> m]
               /\ s = "commited" => m # 0
               /\ Blocks' = [Blocks EXCEPT ![i] =
                               [st |-> s, msg |-> IF s = "skipped" THEN 0 ELSE m]]
      BY <3>3
    <3>7. PICK m :
               /\ Blocks[i] = [st |-> "busy", msg |-> m]
               /\ s = "commited" => m # 0
               /\ Blocks' = [Blocks EXCEPT ![i] =
                               [st |-> s, msg |-> IF s = "skipped" THEN 0 ELSE m]]
      BY <3>4
    <3>5. [Blocks EXCEPT ![i].st = s, ![i].msg = IF s = "skipped" THEN 0 ELSE @]
            = [Blocks EXCEPT ![i] = [st |-> s, msg |-> IF s = "skipped" THEN 0 ELSE m]]
      <4>1. PICK k : k = IF s = "skipped" THEN 0 ELSE m OBVIOUS
      <4>2. PICK g : g = [Blocks EXCEPT ![i].st = s] OBVIOUS
      <4>3. /\ g = [Blocks EXCEPT ![i] = [Blocks[i] EXCEPT !.st = s]]
            /\ [Blocks[i] EXCEPT !.st = s] = [st |-> s, msg |-> m]
        BY <3>7, <4>2
      <4>4. g[i] = [st |-> s, msg |-> m] BY <4>3
      <4>5. [g[i] EXCEPT !.msg = k] = [st |-> s, msg |-> k] BY <4>4
      <4>6. [g EXCEPT ![i].msg = k] = [Blocks EXCEPT ![i] = [st |-> s, msg |-> k]]
        BY <4>3, <4>5
      <4>7. [Blocks EXCEPT ![i].st = s, ![i].msg = IF s = "skipped" THEN 0 ELSE @]
              = [g EXCEPT ![i].msg = IF s = "skipped" THEN 0 ELSE g[i].msg]
        BY <4>2
      <4>. QED BY <4>1, <4>4, <4>6, <4>7
    <3>8. Blocks[i].st = "busy" /\ (s = "commited" => Blocks[i].msg # 0) BY <3>7
    <3>9. Blocks' = [Blocks EXCEPT ![i].st = s, ![i].msg = IF s = "skipped" THEN 0 ELSE @]
      BY <3>5, <3>7, Zenon
    <3>6. Queue!Resolve(i, s) BY <1>3, <1>4, <3>3, <3>8, <3>9 DEF Queue!Resolve
    <3>. QED BY <3>6 DEF Queue!Next, Resolved
  <2>. QED BY <2>1, <2>2
<1>9. ASSUME PeekBegin \/ ScanPast \/ FreeBegin PROVE UNCHANGED Queue!vars
  <2>1. QueueKept BY <1>1, <1>2, <1>9, ScanQuiet
  <2>. QED BY <1>5, <2>1
<1>10. ASSUME PeekHit PROVE Queue!Next
  <2>1. /\ Blocks' = Blocks /\ delivered' = delivered /\ HeldMsg = 0
        /\ \E i \in DOMAIN Blocks :
             /\ Blocks[i].st = "commited" /\ HeldMsg' = Blocks[i].msg
             /\ \A j \in 1 .. i - 1 : Blocks[j].st = "skipped"
    BY <1>1, <1>2, <1>10, PeekQueue
  <2>2. PICK i \in DOMAIN Blocks :
             /\ Blocks[i].st = "commited" /\ HeldMsg' = Blocks[i].msg
             /\ \A j \in 1 .. i - 1 : Blocks[j].st = "skipped"
    BY <2>1
  <2>3. Queue!Peek(i) BY <1>3, <1>4, <2>1, <2>2 DEF Queue!Peek, Queue!IsFirst
  <2>. QED BY <2>3 DEF Queue!Next
<1>11. ASSUME PeekEmpty PROVE Queue!Next
  <2>1. Queue!DropSkipped
    BY <1>1, <1>2, <1>3, <1>4, <1>11, EmptyQueue DEF Queue!DropSkipped
  <2>. QED BY <2>1 DEF Queue!Next
<1>12. ASSUME FreeDone PROVE Queue!Next
  <2>1. /\ HeldMsg # 0 /\ HeldMsg' = 0 /\ delivered' = Append(delivered, HeldMsg)
        /\ \E i \in DOMAIN Blocks :
             /\ Blocks[i].st = "commited" /\ Blocks[i].msg = HeldMsg
             /\ \A j \in 1 .. i - 1 : Blocks[j].st = "skipped"
             /\ Blocks' = SubSeq(Blocks, i + 1, Len(Blocks))
    BY <1>1, <1>2, <1>12, FreeQueue
  <2>2. PICK i \in DOMAIN Blocks :
             /\ Blocks[i].st = "commited" /\ Blocks[i].msg = HeldMsg
             /\ \A j \in 1 .. i - 1 : Blocks[j].st = "skipped"
             /\ Blocks' = SubSeq(Blocks, i + 1, Len(Blocks))
    BY <2>1
  <2>3. Queue!Free(i)
    BY <1>3, <1>4, <2>1, <2>2 DEF Queue!Free, Queue!IsFirst, Queue!Rest
  <2>. QED BY <2>3 DEF Queue!Next
<1>13. ASSUME UNCHANGED vars PROVE UNCHANGED Queue!vars
  <2>1. /\ mem' = mem /\ ix_read' = ix_read /\ ix_write' = ix_write /\ pc' = pc
        /\ blk' = blk /\ cpc' = cpc /\ held' = held /\ delivered' = delivered
        /\ UNCHANGED consVars
    BY <1>13 DEF vars, prodVars, consVars
  <2>2. Ring(B)'
    <3>1. RingTypes /\ Reserved /\ RingParts(B) /\ Consumed(B) BY <1>1 DEF Ring, RingParts
    <3>2. Consumed(B)' BY <2>1, <3>1 DEF Consumed, consVars, View
    <3>3. UNCHANGED <<mem, ix_read, ix_write, prodVars, outcome>> BY <1>13 DEF vars
    <3>4. cpc' \in {"idle", "peek", "held", "free"} BY <2>1, <3>1 DEF RingTypes
    <3>. QED BY <3>1, <3>2, <3>3, <3>4, ScanKept
  <2>3. \A b : OwnAt(b)' <=> OwnAt(b) BY <2>1 DEF OwnAt
  <2>4. \A b \in B : Kept(b) BY <2>1 DEF Kept, View
  <2>5. QueueKept BY <1>1, <1>2, <2>1, <2>2, <2>3, <2>4, QuietStep
  <2>. QED BY <1>5, <2>5
<1>. QED BY <1>6, <1>7, <1>8, <1>9, <1>10, <1>11, <1>12, <1>13 DEF Next, Use, Consume

(* The memory behaves as a FIFO queue of messages, for any number of       *)
(* producers and any size of the buffer: entries keep the order in which   *)
(* their blocks were allocated, the consumer gets every committed message  *)
(* once and intact, and free releases exactly what peek returned           *)
(* (ring_buffer::allocate, commit, skip, peek and free).                   *)
THEOREM RingIsQueue == Spec => ImplementsQueue
<1>1. QueueInv /\ [Next]_vars => [Queue!Next]_(Queue!vars) BY QueueStep
<1>. QED BY QueueInvInit, QueueInvStep, QueueInit, <1>1, PTL
         DEF Spec, ImplementsQueue, Queue!Spec
=============================================================================
