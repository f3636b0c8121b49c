---------------------------- MODULE HeapAllocator ----------------------------
(***************************************************************************)
(* heap_allocator.hpp: pages of one piece of memory, free ones marked in   *)
(* words of bits, small blocks packed into an active page; and heap.hpp,   *)
(* a growing list of such chunks behind a lock, with malloc behind it.     *)
(* Sizes and addresses are bytes from the beginning of the chunk's memory. *)
(* A chunk is a record; `live` is the ghost set of blocks given out.       *)
(***************************************************************************)
EXTENDS Integers, FiniteSets, FiniteSetsExt, Sequences, SequencesExt

CONSTANTS
  WordBits,    \* k_h_val: bits of a word of _blocks
  NumBlocks,   \* __num_blocks
  PageSize,    \* __page_size
  Alignment,   \* SDK_CP_ALIGNMENT, also sizeof(alloc_header)
  HeapSizes,   \* sizes requested
  MaxHeapChunks, MaxLive   \* bounds: chunks, and blocks out at a time

ASSUME HeapAssumption ==
  /\ {WordBits, NumBlocks, Alignment} \subseteq Nat \ {0}
  /\ PageSize \in Nat /\ PageSize > Alignment /\ PageSize % Alignment = 0
  /\ HeapSizes \subseteq Nat /\ {MaxHeapChunks, MaxLive} \subseteq Nat

NumPages == NumBlocks * WordBits
Pages == 0 .. NumPages - 1
ChunkBytes == NumPages * PageSize
NoPage == -1

VARIABLES chunks, mallocs
heapVars == <<chunks, mallocs>>

NewChunk ==
  [free |-> Pages, usage |-> [p \in Pages |-> 0],
   page |-> NoPage, position |-> NoPage, live |-> {}]

-----------------------------------------------------------------------------
(* The scan for a run of free pages, one word after the other. *)

\* The first run of a word that is long enough or reaches its end.
FirstRun(bits, n) ==
  {p \in bits : /\ p - 1 \notin bits
                /\ p .. Min({p + n, WordBits}) - 1 \subseteq bits}

LowestRun(bits) ==
  {p \in bits : Min(bits) .. p \subseteq bits}

Fresh(ix, bits, n) ==
  LET runs == FirstRun(bits, n)
  IN  IF runs = {} THEN [start |-> NoPage, remains |-> n]
      ELSE [start   |-> ix * WordBits + Min(runs),
            remains |-> n - (Min({Min(runs) + n, WordBits}) - Min(runs))]

GoesOn(bits, n) == 0 .. Min({n, WordBits}) - 1 \subseteq bits

\* One word.  A run carried over from the word before must go on here; if it
\* does not, the lowest run of this word is dropped with it.
ScanWord(s, ix, bits, n) ==
  CASE s.remains = 0 -> s
    [] s.remains > 0 /\ bits = {} -> [start |-> NoPage, remains |-> n]
    [] s.remains > 0 /\ bits # {} /\ s.start = NoPage -> Fresh(ix, bits, n)
    [] OTHER -> IF GoesOn(bits, s.remains)
                THEN [s EXCEPT !.remains = @ - Min({@, WordBits})]
                ELSE Fresh(ix, bits \ LowestRun(bits), n)

Word(free, ix) == {b \in 0 .. WordBits - 1 : ix * WordBits + b \in free}

\* What is found in the first words, one after the other.
ScanWords(free, n) ==
  LET scan[i \in 0 .. NumBlocks] ==
        IF i = 0 THEN [start |-> NoPage, remains |-> n]
        ELSE ScanWord(scan[i - 1], i - 1, Word(free, i - 1), n)
  IN  scan

GetBitScanStream(free, n) ==
  LET found == ScanWords(free, n)[NumBlocks]
  IN  IF found.remains > 0 THEN NoPage ELSE found.start

-----------------------------------------------------------------------------
\* Rounded up to the alignment.
Rounded(size) == size + ((Alignment - (size % Alignment)) % Alignment)
NeedSize(size) == size + Alignment

\* Pages of a block, and what it uses of the last one.
FullPages(need) == need \div PageSize + (IF need % PageSize = 0 THEN 0 ELSE 1)
LastPageUsage(need) == IF need % PageSize = 0 THEN PageSize ELSE need % PageSize

BlockAt(at, size) == [at |-> at, size |-> size]

\* Beside the last block of the active page.
InPage(c, size) ==
  LET need == NeedSize(size)
  IN  [c EXCEPT !.usage[c.page] = @ + need,
                !.position = @ + need,
                !.live = @ \cup {BlockAt(c.position, size)}]

\* On pages of its own; the last one becomes the active page if there is none.
OnPages(c, at, size) ==
  LET need == NeedSize(size)
      last == at + FullPages(need) - 1
      mine == at .. last
      take == c.page = NoPage
  IN  [free     |-> c.free \ mine,
       usage    |-> [c.usage EXCEPT ![last] = LastPageUsage(need)],
       page     |-> IF take THEN last ELSE c.page,
       position |-> IF take THEN last * PageSize + LastPageUsage(need) ELSE c.position,
       live     |-> c.live \cup {BlockAt(at * PageSize, size)}]

Small(need) == need < PageSize
PageRoom(c, need) == c.page * PageSize + PageSize - c.position >= need

\* heap_allocator::allocate: the chunk afterwards, and whether it gave a block.
AllocateIn(c, request) ==
  LET size == Rounded(request)
      need == NeedSize(size)
      packs == Small(need) /\ c.page # NoPage
      d  == IF packs THEN [c EXCEPT !.page = NoPage, !.position = NoPage] ELSE c
      at == GetBitScanStream(d.free, FullPages(need))
  IN  CASE size = 0 -> [chunk |-> c, ok |-> FALSE]
        [] size > 0 /\ packs /\ PageRoom(c, need) -> [chunk |-> InPage(c, size), ok |-> TRUE]
        [] OTHER -> IF at = NoPage THEN [chunk |-> d, ok |-> FALSE]
                    ELSE [chunk |-> OnPages(d, at, size), ok |-> TRUE]

\* heap_allocator::release of a block it gave.
\* As a bug: the active page stays when it becomes free.
ActiveAfter_kept(c, last) == c.page
ActiveAfter(c, last) == IF c.page = last THEN NoPage ELSE c.page

Release(c, b) ==
  LET need  == NeedSize(b.size)
      first == b.at \div PageSize
      many  == need > PageSize
      last  == IF many THEN first + FullPages(need) - 1 ELSE first
      used  == c.usage[last] - (IF many THEN LastPageUsage(need) ELSE need)
      page  == IF used = 0 THEN ActiveAfter(c, last) ELSE c.page
  IN  [free     |-> c.free \cup (first .. last - 1) \cup (IF used = 0 THEN {last} ELSE {}),
       usage    |-> [c.usage EXCEPT ![last] = used],
       page     |-> page,
       position |-> IF page = NoPage THEN NoPage ELSE c.position,
       live     |-> c.live \ {b}]

-----------------------------------------------------------------------------
(* heap.hpp *)

HeapInit == chunks = <<>> /\ mallocs = 0

\* The chunks are asked in order up to the first that serves the request;
\* each that refuses may lose its active page.
Asked(size) ==
  LET r == [i \in DOMAIN chunks |-> AllocateIn(chunks[i], size)]
      serve == {i \in DOMAIN chunks : r[i].ok}
  IN  [chunks |-> [i \in DOMAIN chunks |->
                     IF \E j \in serve : j < i THEN chunks[i] ELSE r[i].chunk],
       ok     |-> serve # {}]

ForHeap(size) == 2 * size <= ChunkBytes

\* A new chunk for a request that none of the others served.  It is kept even
\* if it does not serve it, as it never does for a request of nothing.
HeapAllocate(size) ==
  /\ ForHeap(size)
  /\ LET a == Asked(size)
         r == AllocateIn(NewChunk, size)
     IN  \/ /\ a.ok
            /\ chunks' = a.chunks /\ UNCHANGED mallocs
         \/ /\ ~a.ok /\ Len(chunks) < MaxHeapChunks
            /\ chunks' = Append(a.chunks, r.chunk)
            /\ mallocs' = IF r.ok THEN mallocs ELSE mallocs + 1

\* No memory for a chunk, or a request too large for one: malloc.
HeapMalloc(size) ==
  LET a == Asked(size)
  IN  /\ ForHeap(size) => ~a.ok
      /\ chunks' = IF ForHeap(size) THEN a.chunks ELSE chunks
      /\ mallocs' = mallocs + 1

\* The chunk is found by the address; any other pointer goes to free.
HeapDeallocate(i, b) ==
  /\ chunks' = [chunks EXCEPT ![i] = Release(@, b)]
  /\ UNCHANGED mallocs

HeapFree == mallocs > 0 /\ mallocs' = mallocs - 1 /\ UNCHANGED chunks

Out == mallocs + FoldLeft(LAMBDA n, c : n + Cardinality(c.live), 0, chunks)

HeapNext ==
  \/ \E size \in HeapSizes : Out < MaxLive /\ (HeapAllocate(size) \/ HeapMalloc(size))
  \/ \E i \in DOMAIN chunks : \E b \in chunks[i].live : HeapDeallocate(i, b)
  \/ HeapFree

-----------------------------------------------------------------------------
End(b) == b.at + NeedSize(b.size)
LastPage(b) == (End(b) - 1) \div PageSize
Charged(b) == IF NeedSize(b.size) > PageSize THEN LastPageUsage(NeedSize(b.size))
              ELSE NeedSize(b.size)

(* Whatever the order of allocations and releases: blocks with their       *)
(* headers never overlap and lie inside the chunk, no page of a block is   *)
(* marked free, the usage of a page is exactly what the blocks that end    *)
(* there hold of it, so a page is free again as soon as its last block is  *)
(* released (heap_allocator.hpp:345), and the active page is in use with   *)
(* nothing behind the active position.                                     *)
BlocksExact ==
  \A i \in DOMAIN chunks :
    LET c == chunks[i]
        On(p) == {b \in c.live : LastPage(b) = p}
    IN  /\ \A b \in c.live : End(b) <= ChunkBytes
        /\ \A a, b \in c.live : a = b \/ End(a) <= b.at \/ End(b) <= a.at
        /\ \A p \in Pages :
             /\ c.usage[p] = MapThenSumSet(Charged, On(p))
             /\ p \in c.free <=> \A b \in c.live : p \notin b.at \div PageSize .. LastPage(b)
        /\ c.page # NoPage => /\ c.page \notin c.free
                              /\ \A b \in On(c.page) : End(b) <= c.position

(* A request is refused by a chunk only if it has no run of free pages for *)
(* it, except that a run beginning inside a word may be missed behind one  *)
(* that was carried into that word and broke off there                     *)
(* (heap_allocator.hpp:188): never for a request of one page.              *)
RefusedOnlyWhenFull ==
  \A i \in DOMAIN chunks : \A n \in 1 .. NumPages :
    LET free == chunks[i].free
        Run(p) == p .. p + n - 1 \subseteq free
    IN  /\ GetBitScanStream(free, n) # NoPage => Run(GetBitScanStream(free, n))
        /\ GetBitScanStream(free, n) = NoPage =>
             \A p \in Pages : Run(p) =>
               \E q \in Pages : q < p /\ q \in free /\ q \div WordBits < p \div WordBits
                                /\ n > 1 /\ ((p \div WordBits) * WordBits) - 1 \in free

(* The heap hands out what is free, and all of it.                         *)
HeapExact == BlocksExact /\ RefusedOnlyWhenFull
=============================================================================
