--------------------------- MODULE LinearHashMap ---------------------------
(***************************************************************************)
(* tools::linear_hash_map (tools/linear_hash_map.hpp): an unordered_map    *)
(* from keys to positions in a pool_allocator.  It is used by one thread   *)
(* at a time; what is hard about it is what an exception leaves behind.    *)
(***************************************************************************)
EXTENDS PoolAllocator

CONSTANTS
  Keys,
  Absent,       \* no position
  Faults        \* what may fail: "object", "chunk", "key"

ASSUME MapConstants ==
  /\ Absent \notin Nat \cup Values
  /\ Faults \subseteq {"object", "chunk", "key"}

VARIABLE keys   \* _keys: the position of each key, or Absent

mapVars == <<poolVars, keys>>

MapInit ==
  /\ PoolInit
  /\ keys = [k \in Keys |-> Absent]

Present == {k \in Keys : keys[k] # Absent}

(* operator[] of a missing key, lines 45-47; what it returns is assigned   *)
(* by Assign.                                                              *)
Insert(k) ==
  /\ keys[k] = Absent
  /\ Allocate
  /\ keys' = [keys EXCEPT ![k] = Target]

(* The allocation fails: _keys is left alone.                              *)
InsertThrows(k) ==
  /\ keys[k] = Absent
  /\ \/ "object" \in Faults /\ AllocateThrowsInObject
     \/ "chunk" \in Faults /\ AllocateThrowsInChunk
  /\ UNCHANGED keys

(* Line 47: the map's own node cannot be allocated.                        *)
InsertThrowsInKeys(k) ==
  /\ "key" \in Faults
  /\ keys[k] = Absent
  /\ Allocate
  /\ UNCHANGED keys

(* operator[] or find of a key that is there, and a write through it.      *)
Assign(k, v) ==
  /\ keys[k] # Absent
  /\ Store(keys[k], v)
  /\ UNCHANGED keys

(* erase, lines 57-64.                                                     *)
KeysAfterErase(k) == [keys EXCEPT ![k] = Absent]

Erase(k) ==
  /\ keys[k] # Absent
  /\ Deallocate(keys[k])
  /\ keys' = KeysAfterErase(k)

MapNext ==
  \E k \in Keys :
    \/ Insert(k) \/ InsertThrows(k) \/ InsertThrowsInKeys(k) \/ Erase(k)
    \/ \E v \in Values : Assign(k, v)

MapSpec == MapInit /\ [][MapNext]_mapVars

-----------------------------------------------------------------------------
(* Properties                                                              *)

(* Types; every position, of a key or free, lies in a chunk with memory.   *)
Usable(pos) == data[Chunk(pos)] # NoMemory
MapTypeOK ==
  /\ \A c \in DOMAIN data :
       data[c] = NoMemory \/ data[c] \in [1 .. ChunkSize -> Item]
  /\ empty_objs \in Seq(0 .. capacity - 1)
  /\ keys \in [Keys -> (0 .. capacity - 1) \cup {Absent}]
  /\ \A i \in DOMAIN empty_objs : Usable(empty_objs[i])
  /\ \A k \in Present : Usable(keys[k])

(* SDK_CP_ASSERT(_data.size() == _keys.size()), at the beginning of every  *)
(* operation (lines 41, 58, 67, 79, 91, 104, 109, 114).                    *)
SizesAgree == size = Cardinality(Present)

(* What the two sizes differ by: the chunks that got no memory, and the    *)
(* objects whose key could not be stored.  Without such failures they      *)
(* agree, after any insertions, erasures and throwing constructors.        *)
Leaked ==
  {pos \in 0 .. capacity - 1 :
     /\ Usable(pos)
     /\ At(pos).active
     /\ \A k \in Present : keys[k] # pos}
SizeAccounted ==
  /\ size = Cardinality(Present) + Cardinality(Leaked)
            + ChunkSize * Cardinality({c \in DOMAIN data : data[c] = NoMemory})
  /\ Faults \cap {"chunk", "key"} = {} => SizesAgree

(* SDK_CP_ASSERT(ptr != nullptr), lines 53, 71 and 83, and what makes      *)
(* references usable: every key has an active object, and its own; the     *)
(* free positions are exactly the others, each once.                       *)
Partition ==
  /\ \A k \in Present : At(keys[k]).active
  /\ \A j, k \in Present : keys[j] = keys[k] => j = k
  /\ \A i, j \in DOMAIN empty_objs : empty_objs[i] = empty_objs[j] => i = j
  /\ \A i \in DOMAIN empty_objs :
       /\ ~At(empty_objs[i]).active
       /\ \A k \in Present : keys[k] # empty_objs[i]

Map == INSTANCE ObjectMap WITH
  map <- [k \in Keys |-> IF keys[k] = Absent THEN Absent ELSE At(keys[k]).val]

(* Through whatever reuse of positions and failed insertions, the keys see *)
(* the objects of a map.                                                   *)
ImplementsMap == Map!Spec

=============================================================================
