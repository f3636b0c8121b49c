------------------------------ MODULE JsonValue -------------------------------
(***************************************************************************)
(* The values of document.h in the memory of allocators.h: two roots whose *)
(* arrays, objects and strings live in the chunks of one                   *)
(* MemoryPoolAllocator.  A cell holds one GenericValue, a member takes two *)
(* cells; a string that is not stored inside its value takes one.  The     *)
(* pool frees nothing but all at once, so that destructors do nothing.     *)
(***************************************************************************)
EXTENDS Integers, Sequences, FiniteSets, SequencesExt, FiniteSetsExt

CONSTANTS
  Roots,            \* the two values
  ChunkCapacity,    \* of a chunk (64 KB)
  UserCapacity,     \* of the user's buffer
  DefaultCapacity,  \* of a container that grows from nothing (16)
  Names,            \* of members
  Ints, Strings,    \* numbers; long strings
  MaxValueSteps, MaxNesting

ASSUME JsonValueAssumption ==
  {ChunkCapacity, UserCapacity, DefaultCapacity, MaxValueSteps, MaxNesting} \subseteq Nat \ {0}

ASSUME RootsAssumption == Cardinality(Roots) = 2

VARIABLES
  chunks,      \* of the pool, the head last
  userBuffer,  \* the first chunk is the user's
  root,        \* what each of them holds
  tree,        \* what they stand for
  valueSteps

valueVars == <<chunks, userBuffer, root, tree, valueSteps>>

Sibling(r) == CHOOSE o \in Roots : o # r

Nowhere == <<0, 0>>
Plain(t, n) == [t |-> t, n |-> n, cap |-> 0, ptr |-> Nowhere]
NullValue == Plain("null", 0)
Junk == Plain("junk", 0)
IntValue(i) == Plain("int", i)

-----------------------------------------------------------------------------
(* MemoryPoolAllocator: m is the list of chunks. *)

NewChunk(cap) == [cap |-> cap, size |-> 0, cells |-> [o \in 0 .. cap - 1 |-> Junk]]

Malloc(m, n) ==
  LET full == IF m = <<>> THEN TRUE ELSE Last(m).size + n > Last(m).cap
      m2   == IF full THEN Append(m, NewChunk(Max({ChunkCapacity, n}))) ELSE m
  IN  IF n = 0 THEN [m |-> m, p |-> Nowhere]
      ELSE [m |-> [m2 EXCEPT ![Len(m2)].size = @ + n], p |-> <<Len(m2), Last(m2).size>>]

CellAt(m, p, i) == m[p[1]].cells[p[2] + i]
SetCell(m, p, i, v) == [m EXCEPT ![p[1]].cells[p[2] + i] = v]

\* Realloc grows the last block in place, or copies to a new one.
LastBlock(m, p, old) == p = <<Len(m), Last(m).size - old>>

CopyCells(m, from, to, n) ==
  [m EXCEPT ![to[1]].cells = [o \in DOMAIN @ |->
     IF o \in to[2] .. to[2] + n - 1 THEN CellAt(m, from, o - to[2]) ELSE @[o]]]

Realloc(m, p, old, new) ==
  LET moved == Malloc(m, new)
  IN  CASE p = Nowhere -> moved
        [] p # Nowhere /\ (new = 0 \/ old >= new) -> [m |-> m, p |-> IF new = 0 THEN Nowhere ELSE p]
        [] OTHER ->
             IF LastBlock(m, p, old) /\ Last(m).size + new - old <= Last(m).cap
             THEN [m |-> [m EXCEPT ![Len(m)].size = @ + new - old], p |-> p]
             ELSE [m |-> CopyCells(moved.m, p, moved.p, old), p |-> moved.p]

\* Clear: all chunks but the user's.
PoolCleared(m) == IF userBuffer THEN <<[m[1] EXCEPT !.size = 0]>> ELSE <<>>

-----------------------------------------------------------------------------
(* Containers: each operation gives the memory and the value after it. *)

Element(m, v, i) == CellAt(m, v.ptr, i)
MemberName(m, v, i) == CellAt(m, v.ptr, 2 * i).n
MemberValue(m, v, i) == CellAt(m, v.ptr, 2 * i + 1)

Grown(cap) == IF cap = 0 THEN DefaultCapacity ELSE cap + (cap + 1) \div 2

\* Reserve of an array; of an object, part of AddMember.  w cells an element.
ReserveCells(m, v, cap, w) ==
  IF cap <= v.cap THEN [m |-> m, v |-> v]
  ELSE LET r == Realloc(m, v.ptr, w * v.cap, w * cap)
       IN  [m |-> r.m, v |-> [v EXCEPT !.cap = cap, !.ptr = r.p]]

ArrayPush(m, v, e) ==
  LET r == IF v.n >= v.cap THEN ReserveCells(m, v, Grown(v.cap), 1) ELSE [m |-> m, v |-> v]
  IN  [m |-> SetCell(r.m, r.v.ptr, v.n, e), v |-> [r.v EXCEPT !.n = @ + 1]]

ObjectAdd(m, v, name, e) ==
  LET r == IF v.n >= v.cap THEN ReserveCells(m, v, Grown(v.cap), 2) ELSE [m |-> m, v |-> v]
  IN  [m |-> SetCell(SetCell(r.m, r.v.ptr, 2 * v.n, Plain("short", name)), r.v.ptr, 2 * v.n + 1, e),
       v |-> [r.v EXCEPT !.n = @ + 1]]

\* memmove of what lies behind [i, j) to i.
CellsErased(m, v, i, j, w) ==
  [m EXCEPT ![v.ptr[1]].cells = [o \in DOMAIN @ |->
     IF o \in v.ptr[2] + w * i .. v.ptr[2] + w * (v.n - (j - i)) - 1 THEN @[o + w * (j - i)] ELSE @[o]]]
Shrunk(v, i, j) == [v EXCEPT !.n = @ - (j - i)]

\* FindMember: the first of that name, or the end.
FindMember(m, v, name) == Min({v.n} \cup {i \in 0 .. v.n - 1 : MemberName(m, v, i) = name})

\* RemoveMember: the last one moves to its place.
MemberRemoved(m, v, i) == IF i = v.n - 1 THEN m ELSE CopyCells(m, <<v.ptr[1], v.ptr[2] + 2 * (v.n - 1)>>, <<v.ptr[1], v.ptr[2] + 2 * i>>, 2)

-----------------------------------------------------------------------------
(* Copies and comparisons go through the whole value. *)

RECURSIVE CopyOf(_, _), CopiesOf(_, _, _)

\* The values of a sequence copied one after the other.
CopiesOf(m, vs, done) ==
  IF vs = <<>> THEN [m |-> m, vs |-> done]
  ELSE LET c == CopyOf(m, Head(vs)) IN CopiesOf(c.m, Tail(vs), Append(done, c.v))

\* The copy constructor: containers are rebuilt from within by EndArray and
\* EndObject (SetArrayRaw, SetObjectRaw), strings copied, the rest assigned.
CopyOf(m, v) ==
  LET w     == IF v.t = "obj" THEN 2 ELSE 1
      cells == CopiesOf(m, [i \in 1 .. w * v.n |-> CellAt(m, v.ptr, i - 1)], <<>>)
      block == Malloc(cells.m, w * v.n)
      text  == Malloc(m, 1)
  IN  CASE v.t \in {"arr", "obj"} ->
             [m |-> FoldLeft(LAMBDA mm, i : SetCell(mm, block.p, i - 1, cells.vs[i]), block.m, [i \in 1 .. w * v.n |-> i]),
              v |-> [t |-> v.t, n |-> v.n, cap |-> v.n, ptr |-> block.p]]
        [] v.t = "copy" ->
             [m |-> SetCell(text.m, text.p, 0, CellAt(m, v.ptr, 0)), v |-> [v EXCEPT !.ptr = text.p]]
        [] OTHER -> [m |-> m, v |-> v]

\* operator==.
RECURSIVE Equals(_, _, _)
\* As a bug: the members are compared place by place.
Equals_byPlace(m, a, b) ==
  /\ a.t = b.t /\ (a.t # "copy" => a.n = b.n)
  /\ CASE a.t = "obj" ->
            \A i \in 0 .. a.n - 1 :
              /\ MemberName(m, a, i) = MemberName(m, b, i)
              /\ Equals(m, MemberValue(m, a, i), MemberValue(m, b, i))
       [] a.t = "arr" -> \A i \in 0 .. a.n - 1 : Equals(m, Element(m, a, i), Element(m, b, i))
       [] a.t = "copy" -> CellAt(m, a.ptr, 0) = CellAt(m, b.ptr, 0)
       [] OTHER -> TRUE
Equals(m, a, b) ==
  /\ a.t = b.t
  /\ CASE a.t = "obj" ->
            /\ a.n = b.n
            /\ \A i \in 0 .. a.n - 1 :
                 LET j == FindMember(m, b, MemberName(m, a, i))
                 IN  j < b.n /\ Equals(m, MemberValue(m, a, i), MemberValue(m, b, j))
       [] a.t = "arr" -> a.n = b.n /\ \A i \in 0 .. a.n - 1 : Equals(m, Element(m, a, i), Element(m, b, i))
       [] a.t = "copy" -> CellAt(m, a.ptr, 0) = CellAt(m, b.ptr, 0)
       [] OTHER -> a.n = b.n

\* What a value stands for.
RECURSIVE Contents(_, _)
Contents(m, v) ==
  CASE v.t = "arr" -> [k |-> "arr", v |-> [i \in 1 .. v.n |-> Contents(m, Element(m, v, i - 1))]]
    [] v.t = "obj" -> [k |-> "obj", v |-> [i \in 1 .. v.n |->
                         [k |-> MemberName(m, v, i - 1), v |-> <<Contents(m, MemberValue(m, v, i - 1))>>]]]
    [] v.t = "copy" -> [k |-> "str", v |-> CellAt(m, v.ptr, 0).n]
    [] OTHER -> [k |-> v.t, v |-> v.n]

-----------------------------------------------------------------------------
(* Trees, and the operations. *)

NullTree == [k |-> "null", v |-> 0]
EmptyTree(t) == [k |-> t, v |-> <<>>]
IntTree(i) == [k |-> "int", v |-> i]

RECURSIVE Depth(_)
Depth(t) ==
  CASE t.k = "arr" -> 1 + Max({0} \cup {Depth(t.v[i]) : i \in DOMAIN t.v})
    [] t.k = "obj" -> 1 + Max({0} \cup {Depth(t.v[i].v[1]) : i \in DOMAIN t.v})
    [] OTHER -> 0

Without(s, i, j) == SubSeq(s, 1, i) \o SubSeq(s, j + 1, Len(s))  \* [i, j) from 0

JsonValueInit ==
  /\ userBuffer \in BOOLEAN
  /\ chunks = IF userBuffer THEN <<NewChunk(UserCapacity)>> ELSE <<>>
  /\ root = [r \in Roots |-> NullValue] /\ tree = [r \in Roots |-> NullTree]
  /\ valueSteps = 0

\* r becomes v in memory m, and stands for t.
SetRoot(r, m, v, t) ==
  /\ valueSteps < MaxValueSteps /\ valueSteps' = valueSteps + 1
  /\ chunks' = m /\ root' = [root EXCEPT ![r] = v] /\ tree' = [tree EXCEPT ![r] = t]
  /\ UNCHANGED userBuffer

\* The same, and the other root's value has been moved away.
TakesOther(r, m, v, t) ==
  /\ valueSteps < MaxValueSteps /\ valueSteps' = valueSteps + 1
  /\ chunks' = m
  /\ root' = [root EXCEPT ![r] = v, ![Sibling(r)] = NullValue]
  /\ tree' = [tree EXCEPT ![r] = t, ![Sibling(r)] = NullTree]
  /\ UNCHANGED userBuffer

IsA(r, t) == root[r].t = t
Fits(r) == Depth(tree[Sibling(r)]) < MaxNesting

SetContainer(r) == \E t \in {"arr", "obj"} : SetRoot(r, chunks, Plain(t, 0), EmptyTree(t))
SetInt(r) == \E i \in Ints : SetRoot(r, chunks, IntValue(i), IntTree(i))
SetString(r) ==
  \E s \in Strings :
    LET b == Malloc(chunks, 1)
    IN  SetRoot(r, SetCell(b.m, b.p, 0, Plain("text", s)), [t |-> "copy", n |-> 0, cap |-> 0, ptr |-> b.p],
                [k |-> "str", v |-> s])

\* Of a number, which becomes a value of its own, or of the other root.
PushBack(r) ==
  LET a(e) == ArrayPush(chunks, root[r], e)
      t(e) == [tree[r] EXCEPT !.v = Append(@, e)]
      o    == Sibling(r)
  IN  /\ IsA(r, "arr")
      /\ \/ \E i \in Ints : SetRoot(r, a(IntValue(i)).m, a(IntValue(i)).v, t(IntTree(i)))
         \/ Fits(r) /\ TakesOther(r, a(root[o]).m, a(root[o]).v, t(tree[o]))

Reserve(r) ==
  /\ IsA(r, "arr")
  /\ LET a == ReserveCells(chunks, root[r], root[r].cap + 1, 1) IN SetRoot(r, a.m, a.v, tree[r])

\* Erase, PopBack and Clear.
Erase(r) ==
  /\ IsA(r, "arr")
  /\ \E i, j \in 0 .. root[r].n :
       /\ i < j
       /\ SetRoot(r, CellsErased(chunks, root[r], i, j, 1), Shrunk(root[r], i, j),
                  [tree[r] EXCEPT !.v = Without(@, i, j)])

AddMember(r) ==
  /\ IsA(r, "obj")
  /\ \E name \in Names :
       LET a(e) == ObjectAdd(chunks, root[r], name, e)
           t(e) == [tree[r] EXCEPT !.v = Append(@, [k |-> name, v |-> <<e>>])]
           o    == Sibling(r)
       IN  \/ \E i \in Ints : SetRoot(r, a(IntValue(i)).m, a(IntValue(i)).v, t(IntTree(i)))
           \/ Fits(r) /\ TakesOther(r, a(root[o]).m, a(root[o]).v, t(tree[o]))

RemoveMember(r) ==
  /\ IsA(r, "obj")
  /\ \E name \in Names :
       LET i == FindMember(chunks, root[r], name)
           s == tree[r].v
       IN  /\ i < root[r].n
           /\ SetRoot(r, MemberRemoved(chunks, root[r], i), [root[r] EXCEPT !.n = @ - 1],
                      [tree[r] EXCEPT !.v = Front([s EXCEPT ![i + 1] = Last(s)])])

\* EraseMember of a range, and RemoveAllMembers.
EraseMember(r) ==
  /\ IsA(r, "obj")
  /\ \E i, j \in 0 .. root[r].n :
       /\ i < j
       /\ SetRoot(r, CellsErased(chunks, root[r], i, j, 2), Shrunk(root[r], i, j),
                  [tree[r] EXCEPT !.v = Without(@, i, j)])

\* operator= from the other root, and from an element of the other root.
MoveAssign(r) == TakesOther(r, chunks, root[Sibling(r)], tree[Sibling(r)])
TakeElement(r) ==
  LET o == Sibling(r) IN
  /\ IsA(o, "arr")
  /\ \E i \in 0 .. root[o].n - 1 :
       /\ valueSteps < MaxValueSteps /\ valueSteps' = valueSteps + 1
       /\ root' = [root EXCEPT ![r] = Element(chunks, root[o], i)]
       /\ chunks' = SetCell(chunks, root[o].ptr, i, NullValue)
       /\ tree' = [tree EXCEPT ![r] = tree[o].v[i + 1], ![o].v[i + 1] = NullTree]
       /\ UNCHANGED userBuffer

CopyFrom(r) ==
  LET c == CopyOf(chunks, root[Sibling(r)]) IN SetRoot(r, c.m, c.v, tree[Sibling(r)])

SwapRoots ==
  /\ valueSteps < MaxValueSteps /\ valueSteps' = valueSteps + 1
  /\ root' = [r \in Roots |-> root[Sibling(r)]] /\ tree' = [r \in Roots |-> tree[Sibling(r)]]
  /\ UNCHANGED <<chunks, userBuffer>>

\* The pool is cleared when nothing of it is used.
ClearPool ==
  /\ valueSteps < MaxValueSteps /\ valueSteps' = valueSteps + 1
  /\ \A r \in Roots : root[r].ptr = Nowhere
  /\ chunks # <<>> /\ chunks' = PoolCleared(chunks)
  /\ UNCHANGED <<root, tree, userBuffer>>

JsonValueNext ==
  \/ \E r \in Roots :
       \/ SetContainer(r) \/ SetInt(r) \/ SetString(r) \/ PushBack(r) \/ Reserve(r) \/ Erase(r)
       \/ AddMember(r) \/ RemoveMember(r) \/ EraseMember(r) \/ MoveAssign(r) \/ TakeElement(r) \/ CopyFrom(r)
  \/ SwapRoots \/ ClearPool

-----------------------------------------------------------------------------
(* Whatever containers grow, in place or by moving, are copied, emptied,   *)
(* nested or taken apart, both values stand for what was put into them: no *)
(* block of the pool is handed out twice or grown over another             *)
(* (allocators.h:189, document.h:1186, :1541).                             *)
ContainersKeep == \A r \in Roots : Contents(chunks, root[r]) = tree[r]

\* Trees of the same meaning: members in any order.
RECURSIVE Same(_, _)
Same(a, b) ==
  /\ a.k = b.k
  /\ CASE a.k = "arr" -> Len(a.v) = Len(b.v) /\ \A i \in DOMAIN a.v : Same(a.v[i], b.v[i])
       [] a.k = "obj" -> /\ Len(a.v) = Len(b.v)
                         /\ \A i \in DOMAIN a.v : \E j \in DOMAIN b.v :
                              a.v[i].k = b.v[j].k /\ Same(a.v[i].v[1], b.v[j].v[1])
       [] OTHER -> a.v = b.v

RECURSIVE Duplicates(_)
Duplicates(t) ==
  CASE t.k = "arr" -> \E i \in DOMAIN t.v : Duplicates(t.v[i])
    [] t.k = "obj" -> \/ \E i, j \in DOMAIN t.v : i < j /\ t.v[i].k = t.v[j].k
                      \/ \E i \in DOMAIN t.v : Duplicates(t.v[i].v[1])
    [] OTHER -> FALSE

(* Two values without duplicate names are equal exactly when they mean the *)
(* same, in whatever order their members were added, removed or copied     *)
(* (document.h:852).                                                       *)
EqualityExact ==
  (\A r \in Roots : ~Duplicates(tree[r])) =>
    \A r \in Roots : Equals(chunks, root[r], root[Sibling(r)]) <=> Same(tree[r], tree[Sibling(r)])

(* The containers keep what was put into them and compare as it does.      *)
ContainersExact == ContainersKeep /\ EqualityExact
=============================================================================
