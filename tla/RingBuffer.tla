----------------------------- MODULE RingBuffer -----------------------------
(***************************************************************************)
(* containers::ring_buffer (tools/ring_buffer.hpp): variable-size blocks   *)
(* in a circular byte array, many producers that allocate under            *)
(* _write_blocker and commit or skip without it, one consumer that peeks   *)
(* and frees without any lock.                                             *)
(*                                                                         *)
(* Memory is counted in slots of k_slot_alignment bytes; a prefix fills    *)
(* one slot (k_slot_alignment >= 16), a postfix one slot in the guard      *)
(* build and none in the release build.  _ix_read and _ix_write never wrap *)
(* within a run: they are 64-bit and their masked values are all the code  *)
(* uses.                                                                   *)
(***************************************************************************)
EXTENDS Integers, Sequences, FiniteSets

CONSTANTS
  Producers,   \* threads that allocate, commit and skip
  Size,        \* __size, in slots
  Align,       \* k_slot_alignment, in bytes
  Guard,       \* slots of the postfix: 1 with __USE_GUARD__, 0 without
  Requests,    \* the sizes in bytes that producers ask for
  MaxMsgs,     \* bound: blocks published in a behaviour
  NoOne        \* the free value of the spin lock

ASSUME ConstantsAssumption ==
  /\ Size \in Nat \ {0}
  /\ Align \in Nat \ {0}
  /\ Guard \in {0, 1}
  /\ Requests \subseteq Nat
  /\ MaxMsgs \in Nat
  /\ NoOne \notin Producers

VARIABLES
  mem,         \* the slots of _mem_ptr
  ix_read,     \* _ix_read
  ix_write,    \* _ix_write
  lock,        \* _write_blocker: its holder or NoOne
  pc,          \* where each producer is in allocate .. commit
  blk,         \* the locals of each producer's call: data slots, no_wait,
               \* write_beg_ix, write_end_ix, handle and message
  cpc,         \* where the consumer is in peek .. free
  readIx,      \* the consumer's local readIx
  held,        \* index of the block the last peek returned
  outcome,     \* history: what became of the m-th published block
  delivered    \* history: messages the consumer read, in order

prodVars == <<lock, pc, blk>>
consVars == <<cpc, readIx, held>>
vars == <<mem, ix_read, ix_write, prodVars, consVars, outcome, delivered>>

-----------------------------------------------------------------------------
(* prefix, postfix and the contents of a slot.                             *)

Slot == 0 .. Size - 1
Overhead == 1 + Guard                             \* k_overhead
Msg == 1 .. MaxMsgs
State == {"busy", "fake", "commited", "skipped"}  \* prefix::state

Blank == [tag |-> "raw", size |-> 0, state |-> "busy", msg |-> 0]
Header(n, s) == [Blank EXCEPT !.tag = "prefix", !.size = n, !.state = s]
Postfix == [Blank EXCEPT !.tag = "postfix"]
Data(m) == [Blank EXCEPT !.tag = "data", !.msg = m]

Cell ==
  [tag : {"raw", "prefix", "postfix", "data"}, size : 0 .. Size,
   state : State, msg : 0 .. MaxMsgs]

At(ix) == ix % Size                               \* ix & (__size - 1)

(* Slots a request takes: rounded up to the alignment.                     *)
DataSlots(bytes) == (bytes + Align - 1) \div Align

(* allocate refuses empty requests and those above a quarter of the buffer.*)
Refused(bytes) == bytes = 0 \/ bytes > (Size * Align) \div 4

(* The block [beg, end) crosses the end of the array (end_block #          *)
(* beg_block); a block that ends exactly there does not.                   *)
Crosses(beg, end) ==
  LET end_block == (end \div Size) - (IF At(end) = 0 THEN 1 ELSE 0)
  IN  end_block # beg \div Size

InvalidHandle == [valid |-> FALSE, at |-> 0]      \* k_invalid_handle
NoBlock ==
  [n |-> 0, no_wait |-> FALSE, beg |-> 0, end |-> 0, msg |-> 0,
   handle |-> InvalidHandle]

Init ==
  /\ mem = [i \in Slot |-> Blank]
  /\ ix_read = 0 /\ ix_write = 0
  /\ lock = NoOne
  /\ pc = [p \in Producers |-> "idle"]
  /\ blk = [p \in Producers |-> NoBlock]
  /\ cpc = "idle" /\ readIx = 0 /\ held = 0
  /\ outcome = <<>>
  /\ delivered = <<>>

-----------------------------------------------------------------------------
(* allocate                                                                *)

(* Lines 163-166: a refused size returns nullptr without taking the lock;  *)
(* the caller is left with the invalid handle it will still commit.        *)
AllocRefuse(p, bytes) ==
  /\ pc[p] = "idle"
  /\ Refused(bytes)
  /\ pc' = [pc EXCEPT ![p] = "own"]
  /\ blk' = [blk EXCEPT ![p] = NoBlock]
  /\ UNCHANGED <<mem, ix_read, ix_write, lock, consVars, outcome, delivered>>

(* Lines 167-182: take the lock, round the size, place the block at        *)
(* _ix_write and see whether it would cross the end of the array.          *)
AllocEnter(p, bytes, no_wait) ==
  /\ pc[p] = "idle"
  /\ ~Refused(bytes)
  /\ Len(outcome) < MaxMsgs
  /\ lock = NoOne
  /\ lock' = p
  /\ LET n   == DataSlots(bytes)
         end == ix_write + n + Overhead
     IN  /\ blk' = [blk EXCEPT ![p] = [NoBlock EXCEPT
                      !.n = n, !.no_wait = no_wait, !.beg = ix_write, !.end = end]]
         /\ pc' = [pc EXCEPT ![p] =
                     IF Crosses(ix_write, end) THEN "border" ELSE "reserve"]
  /\ UNCHANGED <<mem, ix_read, ix_write, consVars, outcome, delivered>>

(* Is there room up to index ix?  The subtraction is what the code does.   *)
Fits_offByOne(ix) == ix <= ix_read + Size + 1
Fits(ix) == ix - ix_read <= Size

(* The prefix of a fake block.                                             *)
FakePrefix(n) == Header(n, "fake")

(* Lines 183-209: once a prefix fits, the rest of the array becomes a fake *)
(* block and the block proper moves to slot 0.                             *)
AllocWrap(p) ==
  LET b       == blk[p]
      remains == Size - At(b.beg)
  IN  /\ pc[p] = "border"
      /\ Fits(b.beg + 1)
      /\ mem' = [mem EXCEPT ![At(b.beg)] = FakePrefix(remains)]
      /\ blk' = [blk EXCEPT ![p].beg = @ + remains, ![p].end = @ + remains]
      /\ pc' = [pc EXCEPT ![p] = "reserve"]
      /\ UNCHANGED <<ix_read, ix_write, lock, consVars, outcome, delivered>>

(* Lines 212-233: once the whole block fits, write its prefix and postfix. *)
AllocReserve(p) ==
  LET b == blk[p]
  IN  /\ pc[p] = "reserve"
      /\ Fits(b.end)
      /\ mem' = [i \in Slot |->
                   CASE i = At(b.beg) -> Header(b.n, "busy")
                     [] Guard = 1 /\ i = At(b.end - 1) -> Postfix
                     [] OTHER -> mem[i]]
      /\ pc' = [pc EXCEPT ![p] = "publish"]
      /\ UNCHANGED <<ix_read, ix_write, lock, blk, consVars, outcome, delivered>>

(* _ix_write += commit_size, which counts the fake block.                  *)
WriteEnd_withoutFake(p) == ix_write + blk[p].end - blk[p].beg
WriteEnd(p) == blk[p].end

(* Lines 235-240: publish the block, fake block included, return its       *)
(* handle and release the lock.                                            *)
AllocPublish(p) ==
  LET m == Len(outcome) + 1
  IN  /\ pc[p] = "publish"
      /\ ix_write' = WriteEnd(p)
      /\ blk' = [blk EXCEPT ![p].msg = m,
                            ![p].handle = [valid |-> TRUE, at |-> At(blk[p].beg)]]
      /\ outcome' = Append(outcome, "pending")
      /\ lock' = NoOne
      /\ pc' = [pc EXCEPT ![p] = "own"]
      /\ UNCHANGED <<mem, ix_read, consVars, delivered>>

(* Lines 184-187 and 212-215: without waiting, a full buffer is reported   *)
(* with nullptr; a fake prefix already written stays behind _ix_write.     *)
AllocFail(p) ==
  LET b == blk[p]
  IN  /\ b.no_wait
      /\ \/ pc[p] = "border" /\ ~Fits(b.beg + 1)
         \/ pc[p] = "reserve" /\ ~Fits(b.end)
      /\ lock' = NoOne
      /\ blk' = [blk EXCEPT ![p] = NoBlock]
      /\ pc' = [pc EXCEPT ![p] = "own"]
      /\ UNCHANGED <<mem, ix_read, ix_write, consVars, outcome, delivered>>

-----------------------------------------------------------------------------
(* What a producer does with the block it owns.                            *)

(* The user writes the message through the returned pointer.               *)
Fill(p) ==
  LET b == blk[p]
  IN  /\ pc[p] = "own"
      /\ b.handle.valid
      /\ mem' = [i \in Slot |->
                   IF i \in {At(b.beg + k) : k \in 1 .. b.n}
                   THEN Data(b.msg) ELSE mem[i]]
      /\ pc' = [pc EXCEPT ![p] = "filled"]
      /\ UNCHANGED <<ix_read, ix_write, lock, blk, consVars, outcome, delivered>>

(* _update_block_state: nothing for the invalid handle, else the state of  *)
(* the prefix the handle points to.                                        *)
Acts(handle) == handle.valid
UpdateBlockState(p, s) ==
  IF Acts(blk[p].handle)
  THEN /\ mem' = [mem EXCEPT ![blk[p].handle.at] = [@ EXCEPT !.state = s]]
       /\ outcome' = [outcome EXCEPT ![blk[p].msg] = s]
  ELSE UNCHANGED <<mem, outcome>>

Resolve(p, s) ==
  /\ UpdateBlockState(p, s)
  /\ pc' = [pc EXCEPT ![p] = "idle"]
  /\ blk' = [blk EXCEPT ![p] = NoBlock]
  /\ UNCHANGED <<ix_read, ix_write, lock, consVars, delivered>>

(* commit of a written block, or of the handle a failed allocate left.     *)
Commit(p) ==
  /\ pc[p] = "filled" \/ (pc[p] = "own" /\ ~blk[p].handle.valid)
  /\ Resolve(p, "commited")

(* skip of a block, written or not.                                        *)
Skip(p) ==
  /\ pc[p] \in {"own", "filled"}
  /\ Resolve(p, "skipped")

-----------------------------------------------------------------------------
(* The consumer: _get_first_block, peek and free.                          *)

First == mem[At(readIx)]

(* Slots of a block: a fake prefix counts itself in its size.              *)
Extent(h) == h.size + (IF h.state = "fake" THEN 0 ELSE Overhead)

(* Blocks the consumer passes over.  It waits for a busy one.              *)
PassedOver == {"fake", "skipped"}

(* Every scan, of peek and of free, starts at _ix_read.                    *)
ScanStart == ix_read

(* What a peek that found nothing gives back to the producers.             *)
Reclaimed_nothing == ix_read
Reclaimed == readIx

(* peek reads _ix_read into its local index.                               *)
PeekBegin ==
  /\ cpc = "idle"
  /\ cpc' = "peek"
  /\ readIx' = ScanStart
  /\ UNCHANGED <<mem, ix_read, ix_write, prodVars, held, outcome, delivered>>

(* Lines 255-261: the scan caught up with _ix_write; what it passed over   *)
(* is released and peek returns nullptr.                                   *)
PeekEmpty ==
  /\ cpc = "peek"
  /\ readIx = ix_write
  /\ ix_read' = Reclaimed
  /\ cpc' = "idle"
  /\ UNCHANGED <<mem, ix_write, prodVars, readIx, held, outcome, delivered>>

(* Lines 133-135 and 145-150: a fake or skipped block is passed over.  A   *)
(* busy one is waited for: no action is enabled.                           *)
ScanPast ==
  /\ cpc \in {"peek", "free"}
  /\ readIx # ix_write
  /\ First.state \in PassedOver
  /\ readIx' = readIx + Extent(First)
  /\ UNCHANGED <<mem, ix_read, ix_write, prodVars, cpc, held, outcome, delivered>>

(* peek returns the first committed block; _ix_read stays where it was.    *)
PeekHit ==
  /\ cpc = "peek"
  /\ readIx # ix_write
  /\ First.state = "commited"
  /\ cpc' = "held"
  /\ held' = readIx
  /\ readIx' = readIx + Extent(First)
  /\ UNCHANGED <<mem, ix_read, ix_write, prodVars, outcome, delivered>>

(* The user is done with the block and calls free, which scans again.      *)
FreeBegin ==
  /\ cpc = "held"
  /\ cpc' = "free"
  /\ readIx' = ScanStart
  /\ UNCHANGED <<mem, ix_read, ix_write, prodVars, held, outcome, delivered>>

(* Lines 276-280: free found the first committed block and releases it     *)
(* with everything before it.  The message is what the user read of it.    *)
FreeDone ==
  /\ cpc = "free"
  /\ readIx # ix_write
  /\ First.state = "commited"
  /\ ix_read' = readIx + Extent(First)
  /\ delivered' = Append(delivered, mem[At(held + 1)].msg)
  /\ cpc' = "idle"
  /\ UNCHANGED <<mem, ix_write, prodVars, readIx, held, outcome>>

-----------------------------------------------------------------------------

Allocate(p) ==
  \/ \E bytes \in Requests : AllocRefuse(p, bytes)
  \/ \E bytes \in Requests, no_wait \in BOOLEAN : AllocEnter(p, bytes, no_wait)
  \/ AllocWrap(p) \/ AllocReserve(p) \/ AllocPublish(p) \/ AllocFail(p)

Use(p) == Fill(p) \/ Commit(p) \/ Skip(p)

Consume ==
  PeekBegin \/ PeekEmpty \/ ScanPast \/ PeekHit \/ FreeBegin \/ FreeDone

Next ==
  \/ \E p \in Producers : Allocate(p) \/ Use(p)
  \/ Consume

Spec == Init /\ [][Next]_vars

(* Threads that run keep running: the consumer polls, the lock holder      *)
(* leaves the critical section when it can, an owner resolves its block.   *)
(* Nothing makes a producer call allocate.                                 *)
FairSpec ==
  /\ Spec
  /\ WF_vars(Consume)
  /\ \A p \in Producers :
       /\ WF_vars(AllocWrap(p) \/ AllocReserve(p) \/ AllocPublish(p) \/ AllocFail(p))
       /\ WF_vars(Use(p))

-----------------------------------------------------------------------------
(* Properties                                                              *)

Resolved == {"commited", "skipped"}
Waiting(p) == pc[p] \in {"border", "reserve"} /\ ~blk[p].no_wait

(* Every variable has its type; _ix_write is never more than the buffer    *)
(* ahead of _ix_read, and the consumer's scan stays between the two.       *)
TypeOK ==
  /\ mem \in [Slot -> Cell]
  /\ ix_read \in Nat /\ ix_write \in Nat /\ readIx \in Nat /\ held \in Nat
  /\ ix_read <= ix_write /\ ix_write <= ix_read + Size
  /\ cpc \in {"peek", "free"} => readIx \in ix_read .. ix_write
  /\ lock \in Producers \cup {NoOne}
  /\ pc \in [Producers ->
               {"idle", "border", "reserve", "publish", "own", "filled"}]
  /\ blk \in [Producers ->
               [n : 0 .. Size, no_wait : BOOLEAN, beg : Nat, end : Nat,
                msg : 0 .. MaxMsgs, handle : [valid : BOOLEAN, at : Slot]]]
  /\ cpc \in {"idle", "peek", "held", "free"}
  /\ outcome \in Seq({"pending"} \cup Resolved)
  /\ delivered \in Seq(0 .. MaxMsgs)

(* The block at index ix has the given data size and state, its slots hold *)
(* message m (m = 0: not written yet), its postfix is in place and all of  *)
(* it lies in the live part of the array.                                  *)
Intact(ix, n, s, m) ==
  /\ ix_read <= ix /\ ix + n + Overhead <= ix_write
  /\ mem[At(ix)] = Header(n, s)
  /\ m # 0 => \A k \in 1 .. n : mem[At(ix + k)] = Data(m)
  /\ Guard = 1 => mem[At(ix + n + 1)] = Postfix

(* Nobody overwrites a block somebody uses: a producer finds its block as  *)
(* it left it until it resolves it (the guards LOCK_ASSERTed at lines 113  *)
(* and 118), and the pointer peek returned shows the same committed        *)
(* message until free has released it.                                     *)
BlocksIntact ==
  /\ \A p \in Producers :
       /\ pc[p] = "own" /\ blk[p].handle.valid =>
            Intact(blk[p].beg, blk[p].n, "busy", 0)
       /\ pc[p] = "filled" => Intact(blk[p].beg, blk[p].n, "busy", blk[p].msg)
  /\ cpc \in {"held", "free"} =>
       LET m == mem[At(held + 1)].msg
       IN  /\ m \in DOMAIN outcome /\ outcome[m] = "commited"
           /\ Intact(held, mem[At(held)].size, "commited", m)

(* An allocate that waits can only be waiting for blocks in use: when the  *)
(* buffer is empty the request fits, fake block included (lines 189, 217). *)
EmptyBufferFits ==
  \A p \in Producers :
    Waiting(p) /\ ix_read = ix_write =>
      Fits(IF pc[p] = "border" THEN blk[p].beg + 1 ELSE blk[p].end)

(* A waiting allocate returns once the other users resolve their blocks    *)
(* and the consumer polls: skipped and fake blocks are reclaimed too.      *)
WaitingAllocateReturns ==
  \A p \in Producers : Waiting(p) ~> pc[p] = "own"

(* Every committed block is delivered, whatever is skipped around it.      *)
CommittedDelivered ==
  \A m \in Msg :
    (m \in DOMAIN outcome /\ outcome[m] = "commited")
      ~> \E i \in DOMAIN delivered : delivered[i] = m

(* The message of a block: none until its owner has written it, whatever   *)
(* the slots held before, and none once it is skipped.                     *)
Written(ix, h, d) ==
  IF h.state = "skipped"
     \/ \E p \in Producers : pc[p] = "own" /\ blk[p].msg # 0 /\ blk[p].beg = ix
  THEN 0 ELSE d.msg

(* The blocks between _ix_read and _ix_write as the consumer would parse   *)
(* them, fake blocks left out; a slot that is not a prefix, or a block     *)
(* that runs past _ix_write, is an entry no queue has.                     *)
Corrupt == <<[st |-> "fake", msg |-> 0]>>
parse[ix \in ix_read .. ix_write] ==
  LET h    == mem[At(ix)]
      next == ix + Extent(h)
      d    == mem[At(ix + 1)]
  IN  IF ix = ix_write THEN <<>>
      ELSE IF h.tag # "prefix" \/ next = ix \/ next > ix_write THEN Corrupt
      ELSE IF h.state = "fake" THEN parse[next]
      ELSE <<[st |-> h.state, msg |-> Written(ix, h, d)]>> \o parse[next]
Blocks == parse[ix_read]

Queue == INSTANCE MsgQueue WITH
  Msgs <- Msg,
  queue <- Blocks,
  held <- IF cpc \in {"held", "free"} THEN mem[At(held + 1)].msg ELSE 0,
  out <- delivered

(* The memory, parsed from _ix_read, behaves as the FIFO of MsgQueue:      *)
(* committed messages are delivered once each, in the order their blocks   *)
(* were allocated; free, which scans again, releases exactly the block the *)
(* preceding peek returned (peek and free, lines 251-281).                 *)
ImplementsQueue == Queue!Spec

(* Whatever is skipped, allocators that wait and messages that were        *)
(* committed get through (ring_buffer.hpp:188, :251).                      *)
RingProgress == WaitingAllocateReturns /\ CommittedDelivered
=============================================================================
