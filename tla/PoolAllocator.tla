--------------------------- MODULE PoolAllocator ---------------------------
(***************************************************************************)
(* tools::pool_allocator (tools/pool_allocator.hpp): objects in chunks of  *)
(* __chunk_size items that never move, each item with an active flag, and  *)
(* a stack of the positions that are free.                                 *)
(*                                                                         *)
(* allocate may fail at several points; each failure is a throw that       *)
(* leaves what was done before it.                                         *)
(***************************************************************************)
EXTENDS Integers, Sequences, FiniteSets

CONSTANTS
  ChunkSize,    \* __chunk_size
  MaxChunks,    \* bound: chunks in _data
  Values,       \* values of objects
  Default       \* the value of a default-constructed object

ASSUME PoolAllocatorConstants ==
  /\ ChunkSize \in Nat \ {0}
  /\ MaxChunks \in Nat
  /\ Default \in Values

VARIABLES
  data,         \* _data: the chunks; a chunk without memory has no items
  empty_objs    \* _empty_objs

poolVars == <<data, empty_objs>>

Item == [active : BOOLEAN, val : Values]
EmptyItem == [active |-> FALSE, val |-> Default]
NoMemory == <<>>                                     \* pool_chunk::_data = nullptr
Cleared == [i \in 1 .. ChunkSize |-> EmptyItem]      \* initialize

PoolInit == data = <<>> /\ empty_objs = <<>>

Chunk(pos) == (pos \div ChunkSize) + 1
ItemIx(pos) == (pos % ChunkSize) + 1
At(pos) == data[Chunk(pos)][ItemIx(pos)]

capacity == Len(data) * ChunkSize
size == capacity - Len(empty_objs)

(* Lines 159-166: the positions of chunk number n, the lowest on top.      *)
Positions(n) == [i \in 1 .. ChunkSize |-> n * ChunkSize - i]

(* _data and _empty_objs once there is a free position, lines 152-167.     *)
GrownData == IF empty_objs = <<>> THEN Append(data, Cleared) ELSE data
GrownList ==
  IF empty_objs = <<>> THEN Positions(Len(data) + 1) ELSE empty_objs

(* Lines 169-171.                                                          *)
Target == GrownList[Len(GrownList)]

(* The stack without the position that was given out, line 174.            *)
Popped_kept == GrownList
Popped == SubSeq(GrownList, 1, Len(GrownList) - 1)

CanGrow == empty_objs # <<>> \/ Len(data) < MaxChunks

(* allocate, lines 151-176, giving out Target.                             *)
Allocate ==
  /\ CanGrow
  /\ data' = [GrownData EXCEPT ![Chunk(Target)][ItemIx(Target)] =
                [active |-> TRUE, val |-> Default]]
  /\ empty_objs' = Popped

(* The object's constructor throws, line 173: the chunk stays, with all    *)
(* its positions free.                                                     *)
AllocateThrowsInObject ==
  /\ CanGrow
  /\ data' = GrownData
  /\ empty_objs' = GrownList

(* initialize gets no memory, lines 153-157: the empty chunk stays in      *)
(* _data.                                                                  *)
AllocateThrowsInChunk ==
  /\ empty_objs = <<>> /\ CanGrow
  /\ data' = Append(data, NoMemory)
  /\ UNCHANGED empty_objs

FreeList(pos) == Append(empty_objs, pos)

(* deallocate, lines 177-184.                                              *)
Deallocate(pos) ==
  /\ data' = [data EXCEPT ![Chunk(pos)][ItemIx(pos)].active = FALSE]
  /\ empty_objs' = FreeList(pos)

(* The holder of a reference writes to the object.                         *)
Store(pos, v) ==
  /\ data' = [data EXCEPT ![Chunk(pos)][ItemIx(pos)].val = v]
  /\ UNCHANGED empty_objs

=============================================================================
