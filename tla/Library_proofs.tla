--------------------------- MODULE Library_proofs ---------------------------
(***************************************************************************)
(* Proofs about the parts of MCLibrary, for any number of threads, keys,   *)
(* objects, records, chunks and nodes, any sizes of frames, words, pages   *)
(* and blocks, and any inputs of the compressor.                           *)
(***************************************************************************)
EXTENDS MCLibrary, FiniteSetTheorems, SequenceTheorems, TLAPS

WF == INSTANCE WellFoundedInduction

(* A step of the whole is a step of each part, or leaves it as it is.      *)
LEMMA LibraryStep ==
  [LibraryNext]_libraryVars =>
    /\ [MapNext]_mapVars /\ [KeeperNext]_keeperVars
    /\ [CacheNext]_cacheVars /\ [PortNext]_portVars
BY DEF LibraryNext, Rest, libraryVars

-----------------------------------------------------------------------------
(* The callbacks.                                                          *)

(* Where a callback can be, and what it has been called with.              *)
InMap(c) == \E k \in KeeperKeys : bound[k] = c
InHand(c) == \E t \in KeeperThreads : taken[t] = c
Call(how, k) == << <<how, k>> >>
Histories == {<<>>} \cup {Call(how, k) : how \in {"data", "null"}, k \in KeeperKeys}

KeeperTypes ==
  /\ binds \in 0 .. MaxBinds
  /\ bound \in [KeeperKeys -> (1 .. binds) \cup {NoCb}]
  /\ taken \in [KeeperThreads -> (1 .. binds) \cup {NoCb}]
  /\ kpc \in [KeeperThreads -> {"idle", "null", "data"}]
  /\ calls \in [Cbs -> Histories]
  /\ boundTo \in [Cbs -> KeeperKeys \cup {NoCb}]
  /\ \A c \in 1 .. binds : boundTo[c] \in KeeperKeys
  /\ \A t \in KeeperThreads : kpc[t] = "idle" => taken[t] = NoCb
  /\ keeper = "gone" => \A k \in KeeperKeys : bound[k] = NoCb

(* A callback is in one place, under its own key.                          *)
KeeperPlaces ==
  /\ \A k \in KeeperKeys : bound[k] # NoCb => boundTo[bound[k]] = k
  /\ \A t, u \in KeeperThreads : taken[t] # NoCb /\ taken[t] = taken[u] => t = u
  /\ \A k \in KeeperKeys, t \in KeeperThreads : bound[k] # NoCb => bound[k] # taken[t]

(* It is called when, and only when, it is in none.                        *)
CalledUnlessKept(c) ==
  \/ calls[c] = <<>> /\ (InMap(c) \/ InHand(c))
  \/ /\ \E how \in {"data", "null"} : calls[c] = Call(how, boundTo[c])
     /\ ~InMap(c) /\ ~InHand(c)

KeeperCalls ==
  /\ \A c \in 1 .. binds : CalledUnlessKept(c)
  /\ \A c \in Cbs : c > binds => calls[c] = <<>>

KeeperInv == KeeperTypes /\ KeeperPlaces /\ KeeperCalls

(* No callback is made when the keeper is.                                 *)
LEMMA KeeperInvInit == KeeperInit => KeeperInv
BY KeeperAssumption
DEF KeeperInit, KeeperInv, KeeperTypes, KeeperPlaces, KeeperCalls, CalledUnlessKept, Cbs, Histories

(* bind puts a new callback in the place of the old one, which the thread  *)
(* takes out to call it with nullptr.                                      *)
LEMMA BindKeeps ==
  ASSUME KeeperInv, NEW t \in KeeperThreads, NEW k \in KeeperKeys, Bind(t, k)
  PROVE  KeeperInv'
<1>. USE KeeperAssumption DEF KeeperInv, KeeperTypes, KeeperPlaces, Cbs
<1>1. KeeperTypes'
  BY DEF Bind
<1>2. KeeperPlaces'
  BY DEF Bind
<1>3. \A c \in 1 .. binds : (InMap(c) \/ InHand(c)) <=> (InMap(c)' \/ InHand(c)')
  BY DEF Bind, InMap, InHand
<1>4. PICK new \in Cbs : new = binds + 1
  BY DEF Bind
<1>5. InMap(new)' /\ calls'[new] = <<>>
  BY <1>4 DEF Bind, InMap, KeeperCalls
<1>6. KeeperCalls'
  BY <1>3, <1>4, <1>5 DEF Bind, KeeperCalls, CalledUnlessKept
<1>. QED BY <1>1, <1>2, <1>6

(* operator() takes the callback out of the map.                           *)
LEMMA ProcessKeeps ==
  ASSUME KeeperInv, NEW t \in KeeperThreads, NEW k \in KeeperKeys, Process(t, k)
  PROVE  KeeperInv'
<1>. USE KeeperAssumption DEF KeeperInv, KeeperTypes, KeeperPlaces, Cbs
<1>1. KeeperTypes'
  BY DEF Process, Left
<1>2. KeeperPlaces'
  BY DEF Process, Left
<1>3. \A c \in 1 .. binds : (InMap(c) \/ InHand(c)) <=> (InMap(c)' \/ InHand(c)')
  BY DEF Process, Left, InMap, InHand
<1>4. KeeperCalls'
  BY <1>3 DEF Process, KeeperCalls, CalledUnlessKept
<1>. QED BY <1>1, <1>2, <1>4

(* The call that is made after the lock is left.                           *)
LEMMA InvokeKeeps ==
  ASSUME KeeperInv, NEW t \in KeeperThreads, Invoke(t)
  PROVE  KeeperInv'
<1>. USE KeeperAssumption DEF KeeperInv, KeeperTypes, KeeperPlaces, Cbs
<1>1. KeeperPlaces'
  BY DEF Invoke
<1>2. CASE taken[t] = NoCb
  BY <1>1, <1>2 DEF Invoke, KeeperCalls, CalledUnlessKept, InMap, InHand
<1>3. CASE taken[t] # NoCb
  <2>1. PICK c \in 1 .. binds : c = taken[t] /\ c \in Cbs
    BY <1>3
  <2>2. InHand(c) /\ calls[c] = <<>> /\ kpc[t] \in {"data", "null"}
    BY <2>1, <1>3 DEF Invoke, InHand, KeeperCalls, CalledUnlessKept
  <2>3. calls' = [calls EXCEPT ![c] = Call(kpc[t], boundTo[c])]
    BY <1>3, <2>1, <2>2 DEF Invoke, Call
  <2>4. KeeperTypes'
    <3>1. c \in Cbs /\ Call(kpc[t], boundTo[c]) \in Histories
      BY <2>2 DEF Histories
    <3>2. calls' \in [Cbs -> Histories]
      BY <2>3, <3>1
    <3>. QED BY <3>2 DEF Invoke
  <2>5. ~InMap(c)' /\ ~InHand(c)'
    BY <1>3, <2>1 DEF Invoke, InMap, InHand
  <2>6. \A d \in 1 .. binds : d # c =>
          (InMap(d)' <=> InMap(d)) /\ (InHand(d)' <=> InHand(d))
    BY <2>1 DEF Invoke, InMap, InHand
  <2>7. /\ calls'[c] = Call(kpc[t], boundTo'[c])
        /\ \A d \in Cbs : d # c => calls'[d] = calls[d]
    BY <2>1, <2>3 DEF Invoke
  <2>8. CalledUnlessKept(c)'
    BY <2>2, <2>5, <2>7 DEF CalledUnlessKept
  <2>9. ASSUME NEW d \in 1 .. binds, d # c PROVE CalledUnlessKept(d)'
    <3>1. d \in Cbs /\ calls'[d] = calls[d] /\ boundTo'[d] = boundTo[d]
      BY <2>7, <2>9 DEF Invoke
    <3>2. CalledUnlessKept(d)
      BY DEF KeeperCalls
    <3>. QED BY <2>6, <2>9, <3>1, <3>2 DEF CalledUnlessKept
  <2>10. KeeperCalls'
    BY <2>7, <2>8, <2>9 DEF Invoke, KeeperCalls
  <2>. QED BY <1>1, <2>4, <2>10
<1>. QED BY <1>2, <1>3

(* The destructor calls what is left with nullptr.                         *)
LEMMA DestroyCallKeeps ==
  ASSUME KeeperInv, NEW k \in KeeperKeys, DestroyCall(k)
  PROVE  KeeperInv'
<1>. USE KeeperAssumption DEF KeeperInv, KeeperTypes, KeeperPlaces, Cbs
<1>1. KeeperPlaces'
  BY DEF DestroyCall, Left
<1>2. PICK c \in 1 .. binds : c = bound[k] /\ boundTo[c] = k /\ c \in Cbs
  BY DEF DestroyCall
<1>3. InMap(c) /\ calls[c] = <<>>
  BY <1>2 DEF InMap, KeeperCalls, CalledUnlessKept
<1>4. calls' = [calls EXCEPT ![c] = Call("null", boundTo[c])]
  BY <1>2, <1>3 DEF DestroyCall, Call
<1>5. KeeperTypes'
  <2>1. c \in Cbs /\ Call("null", boundTo[c]) \in Histories
    BY <1>2 DEF Histories
  <2>2. calls' \in [Cbs -> Histories]
    BY <1>4, <2>1
  <2>. QED BY <2>2 DEF DestroyCall, Left
<1>6. ~InMap(c)' /\ ~InHand(c)'
  BY <1>2 DEF DestroyCall, Left, InMap, InHand
<1>7. \A d \in 1 .. binds : d # c =>
        (InMap(d)' <=> InMap(d)) /\ (InHand(d)' <=> InHand(d))
  BY <1>2 DEF DestroyCall, Left, InMap, InHand
<1>8. /\ calls'[c] = Call("null", boundTo'[c])
      /\ \A d \in Cbs : d # c => calls'[d] = calls[d]
  BY <1>2, <1>4 DEF DestroyCall
<1>9. CalledUnlessKept(c)'
  BY <1>3, <1>6, <1>8 DEF CalledUnlessKept
<1>10. ASSUME NEW d \in 1 .. binds, d # c PROVE CalledUnlessKept(d)'
  <2>1. d \in Cbs /\ calls'[d] = calls[d] /\ boundTo'[d] = boundTo[d]
    BY <1>8, <1>10 DEF DestroyCall
  <2>2. CalledUnlessKept(d)
    BY DEF KeeperCalls
  <2>. QED BY <1>7, <1>10, <2>1, <2>2 DEF CalledUnlessKept
<1>11. KeeperCalls'
  BY <1>8, <1>9, <1>10 DEF DestroyCall, KeeperCalls
<1>. QED BY <1>1, <1>5, <1>11

(* Every step keeps the invariant.                                         *)
LEMMA KeeperInvStep == KeeperInv /\ [KeeperNext]_keeperVars => KeeperInv'
<1>. SUFFICES ASSUME KeeperInv, [KeeperNext]_keeperVars PROVE KeeperInv'
  OBVIOUS
<1>1. ASSUME DestroyBegin \/ DestroyEnd \/ (\E k \in KeeperKeys : DestroyRebind(k))
      PROVE  KeeperInv'
  BY <1>1 DEF DestroyBegin, DestroyEnd, DestroyRebind, KeeperInv, KeeperTypes,
              KeeperPlaces, KeeperCalls, CalledUnlessKept, InMap, InHand
<1>2. CASE UNCHANGED keeperVars
  BY <1>2 DEF keeperVars, KeeperInv, KeeperTypes, KeeperPlaces, KeeperCalls,
              CalledUnlessKept, InMap, InHand, Cbs
<1>. QED BY BindKeeps, ProcessKeeps, InvokeKeeps, DestroyCallKeeps, <1>1, <1>2
         DEF KeeperNext

(* The places of a callback are counted: none or one in the map, none or   *)
(* one in a thread's hand.                                                 *)
LEMMA KeeperCounts == KeeperInv => CalledOnce
<1>. SUFFICES ASSUME KeeperInv, NEW c \in 1 .. binds
              PROVE  /\ \A i \in DOMAIN calls[c] : calls[c][i][2] = boundTo[c]
                     /\ Len(calls[c]) + Cardinality({k \in KeeperKeys : bound[k] = c})
                          + Cardinality({t \in KeeperThreads : taken[t] = c}) = 1
                     /\ keeper = "gone" /\ (\A t \in KeeperThreads : kpc[t] = "idle")
                          => Len(calls[c]) = 1
  BY DEF CalledOnce
<1>. DEFINE B == {k \in KeeperKeys : bound[k] = c}
            T == {t \in KeeperThreads : taken[t] = c}
<1>. USE KeeperAssumption DEF KeeperInv, KeeperTypes, KeeperPlaces, Cbs
<1>0. c \in Cbs /\ c # NoCb
  OBVIOUS
<1>1. CASE InMap(c)
  <2>1. PICK k \in KeeperKeys : bound[k] = c
    BY <1>1 DEF InMap
  <2>2. B = {k} /\ T = {}
    BY <2>1, <1>0
  <2>3. calls[c] = <<>>
    BY <1>1 DEF KeeperCalls, CalledUnlessKept
  <2>4. Cardinality(B) = 1 /\ Cardinality(T) = 0
    BY <2>2, FS_EmptySet, FS_Singleton
  <2>5. keeper # "gone"
    BY <2>1, <1>0
  <2>6. Len(calls[c]) = 0 /\ DOMAIN calls[c] = {}
    BY <2>3
  <2>. QED BY <2>4, <2>5, <2>6
<1>2. CASE ~InMap(c) /\ InHand(c)
  <2>1. PICK t \in KeeperThreads : taken[t] = c
    BY <1>2 DEF InHand
  <2>2. B = {} /\ T = {t}
    BY <2>1, <1>2, <1>0 DEF InMap
  <2>3. calls[c] = <<>>
    BY <1>2 DEF KeeperCalls, CalledUnlessKept
  <2>4. Cardinality(B) = 0 /\ Cardinality(T) = 1
    BY <2>2, FS_EmptySet, FS_Singleton
  <2>5. kpc[t] # "idle"
    BY <2>1, <1>0
  <2>6. Len(calls[c]) = 0 /\ DOMAIN calls[c] = {}
    BY <2>3
  <2>. QED BY <2>4, <2>5, <2>6
<1>3. CASE ~InMap(c) /\ ~InHand(c)
  <2>1. B = {} /\ T = {}
    BY <1>3 DEF InMap, InHand
  <2>2. PICK how \in {"data", "null"} : calls[c] = Call(how, boundTo[c])
    BY <1>3 DEF KeeperCalls, CalledUnlessKept
  <2>3. Len(calls[c]) = 1 /\ DOMAIN calls[c] = {1} /\ calls[c][1][2] = boundTo[c]
    BY <2>2 DEF Call
  <2>4. Cardinality(B) = 0 /\ Cardinality(T) = 0
    BY <2>1, FS_EmptySet
  <2>. QED BY <2>3, <2>4
<1>. QED BY <1>1, <1>2, <1>3

(* However binds, calls and the destructor interleave, a bound callback is *)
(* called once and for its own key, unless it is still to be called        *)
(* (callback_keeper.hpp:30-60).                                            *)
THEOREM CallbackCalledOnce == LibrarySpec => []CalledOnce
<1>1. LibraryInit => KeeperInv
  BY KeeperInvInit DEF LibraryInit
<1>2. KeeperInv /\ [LibraryNext]_libraryVars => KeeperInv'
  BY LibraryStep, KeeperInvStep
<1>. QED BY <1>1, <1>2, KeeperCounts, PTL DEF LibrarySpec

-----------------------------------------------------------------------------
(* The cache of objects.                                                   *)

CacheInv ==
  /\ cache \in Seq(Objects)
  /\ place \in [Objects -> {"none", "cached", "raw", "shared", "freed"}]
  /\ OneOwner

(* The cache is made empty.                                                *)
LEMMA CacheInvInit == CacheInit => CacheInv
BY CacheAssumption DEF CacheInit, CacheInv, OneOwner, IsInjective

(* An object is put back in front of those in the cache, or freed.         *)
LEMMA BackKeeps ==
  ASSUME CacheInv, NEW o \in Objects, place[o] \in {"raw", "shared"}, Back(o),
         UNCHANGED <<cacheLives, intoDead>>
  PROVE  CacheInv'
<1>. USE CacheAssumption DEF CacheInv, OneOwner, IsInjective
<1>1. CASE Full
  BY <1>1 DEF Back
<1>2. CASE ~Full
  <2>1. /\ cache' = <<o>> \o cache
        /\ place' = [place EXCEPT ![o] = "cached"]
        /\ Len(cache) < MaxCached
    BY <1>2 DEF Back, Full
  <2>2. /\ cache' \in Seq(Objects) /\ Len(cache') = Len(cache) + 1
        /\ cache'[1] = o
        /\ \A i \in 2 .. Len(cache') : cache'[i] = cache[i - 1]
    BY <2>1
  <2>3. \A i \in DOMAIN cache : cache[i] # o
    OBVIOUS
  <2>4. ASSUME NEW i \in 2 .. Len(cache')
        PROVE  i - 1 \in DOMAIN cache /\ cache'[i] = cache[i - 1] /\ cache'[i] # o
    BY <2>2, <2>3
  <2>5. ASSUME NEW i \in DOMAIN cache', NEW j \in DOMAIN cache', cache'[i] = cache'[j]
        PROVE  i = j
    <3>1. CASE i = 1 \/ j = 1
      BY <2>2, <2>4, <2>5, <3>1
    <3>2. CASE i # 1 /\ j # 1
      <4>1. i \in 2 .. Len(cache') /\ j \in 2 .. Len(cache')
        BY <2>2, <3>2
      <4>2. cache[i - 1] = cache[j - 1] /\ i - 1 \in DOMAIN cache /\ j - 1 \in DOMAIN cache
        BY <2>4, <2>5, <4>1
      <4>3. i - 1 = j - 1
        BY <4>2
      <4>. QED BY <4>1, <4>3
    <3>. QED BY <3>1, <3>2
  <2>6. ASSUME NEW p \in Objects, p # o
        PROVE  place'[p] = "cached" <=> \E i \in DOMAIN cache' : cache'[i] = p
    <3>1. place'[p] = "cached" <=> \E i \in DOMAIN cache : cache[i] = p
      BY <2>1, <2>6
    <3>2. (\E i \in DOMAIN cache : cache[i] = p) => \E i \in DOMAIN cache' : cache'[i] = p
      <4>1. ASSUME NEW i \in DOMAIN cache, cache[i] = p
            PROVE  i + 1 \in DOMAIN cache' /\ cache'[i + 1] = p
        BY <4>1, <2>2
      <4>. QED BY <4>1
    <3>3. (\E i \in DOMAIN cache' : cache'[i] = p) => \E i \in DOMAIN cache : cache[i] = p
      <4>1. ASSUME NEW i \in DOMAIN cache', cache'[i] = p
            PROVE  i - 1 \in DOMAIN cache /\ cache[i - 1] = p
        BY <4>1, <2>2, <2>6
      <4>. QED BY <4>1
    <3>. QED BY <3>1, <3>2, <3>3
  <2>. QED BY SMTT(30), <2>1, <2>2, <2>5, <2>6
<1>. QED BY <1>1, <1>2

(* The object put in last is given out, or a new one.                      *)
LEMMA GetKeeps ==
  ASSUME CacheInv, NEW how \in {"raw", "shared"}, GetRawPtr(how)
  PROVE  CacheInv'
<1>. USE CacheAssumption DEF CacheInv, OneOwner, IsInjective
<1>1. CASE cache = <<>>
  <2>1. PICK o \in Objects : place[o] = "none" /\ place' = [place EXCEPT ![o] = how]
    BY <1>1 DEF GetRawPtr
  <2>2. cache' = cache
    BY <1>1 DEF GetRawPtr
  <2>. QED BY <2>1, <2>2 DEF GetRawPtr
<1>2. CASE cache # <<>>
  <2>1. PICK o \in Objects : o = cache[1]
    BY <1>2
  <2>2. cache' = Tail(cache) /\ place' = [place EXCEPT ![o] = how]
    BY <1>2, <2>1 DEF GetRawPtr
  <2>3. /\ cache' \in Seq(Objects) /\ Len(cache') = Len(cache) - 1
        /\ \A i \in 1 .. Len(cache') : cache'[i] = cache[i + 1]
    BY <1>2, <2>2
  <2>4. \A i \in 1 .. Len(cache') : cache'[i] # o
    BY SMTT(30), <2>1, <2>3
  <2>5. ASSUME NEW i \in DOMAIN cache', NEW j \in DOMAIN cache', cache'[i] = cache'[j]
        PROVE  i = j
    <3>1. i + 1 \in DOMAIN cache /\ j + 1 \in DOMAIN cache /\ cache[i + 1] = cache[j + 1]
      BY <2>3, <2>5
    <3>2. i + 1 = j + 1
      BY <3>1
    <3>. QED BY <2>3, <3>2
  <2>6. ASSUME NEW p \in Objects, p # o
        PROVE  place'[p] = "cached" <=> \E i \in DOMAIN cache' : cache'[i] = p
    <3>1. place'[p] = "cached" <=> \E i \in DOMAIN cache : cache[i] = p
      BY <2>2, <2>6
    <3>2. (\E i \in DOMAIN cache : cache[i] = p) => \E i \in DOMAIN cache' : cache'[i] = p
      <4>1. ASSUME NEW i \in DOMAIN cache, cache[i] = p
            PROVE  i - 1 \in DOMAIN cache' /\ cache'[i - 1] = p
        BY <4>1, <2>1, <2>3, <2>6
      <4>. QED BY <4>1
    <3>3. (\E i \in DOMAIN cache' : cache'[i] = p) => \E i \in DOMAIN cache : cache[i] = p
      <4>1. ASSUME NEW i \in DOMAIN cache', cache'[i] = p
            PROVE  i + 1 \in DOMAIN cache /\ cache[i + 1] = p
        BY <4>1, <2>3
      <4>. QED BY <4>1
    <3>. QED BY <3>1, <3>2, <3>3
  <2>. QED BY <2>2, <2>3, <2>4, <2>5, <2>6 DEF GetRawPtr
<1>. QED BY <1>1, <1>2

(* Every step keeps the invariant.                                         *)
LEMMA CacheInvStep == CacheInv /\ [CacheNext]_cacheVars => CacheInv'
<1>. SUFFICES ASSUME CacheInv, [CacheNext]_cacheVars PROVE CacheInv'
  OBVIOUS
<1>1. ASSUME NEW o \in Objects, SetCachedObject(o) PROVE CacheInv'
  BY <1>1, BackKeeps DEF SetCachedObject
<1>2. ASSUME NEW o \in Objects, Deleter(o) PROVE CacheInv'
  <2>1. CASE cacheLives
    BY <1>2, <2>1, BackKeeps DEF Deleter
  <2>2. CASE ~cacheLives
    BY <1>2, <2>2 DEF Deleter, CacheInv, OneOwner, IsInjective
  <2>. QED BY <2>1, <2>2
<1>3. CASE DestroyCache
  BY <1>3, CacheAssumption DEF DestroyCache, CacheInv, OneOwner, IsInjective
<1>4. CASE UNCHANGED cacheVars
  BY <1>4 DEF cacheVars, CacheInv, OneOwner, IsInjective
<1>. QED BY GetKeeps, <1>1, <1>2, <1>3, <1>4 DEF CacheNext

(* Whatever is taken, brought back by hand or by a deleter, and however    *)
(* full the cache is, no object is in the cache twice or while somebody    *)
(* has it (cache.hpp:25-90).                                               *)
THEOREM ObjectsHaveOneOwner == LibrarySpec => []OneOwner
<1>1. LibraryInit => CacheInv
  BY CacheInvInit DEF LibraryInit
<1>2. CacheInv /\ [LibraryNext]_libraryVars => CacheInv'
  BY LibraryStep, CacheInvStep
<1>3. CacheInv => OneOwner
  BY DEF CacheInv
<1>. QED BY <1>1, <1>2, <1>3, PTL DEF LibrarySpec

-----------------------------------------------------------------------------
(* The data port.                                                          *)

Octet == 0 .. 255
Bytes(d) == OnDisk(DataFormat(d))
Stuff == {Bytes(d)[k] : d \in PortData, k \in Nat}
Record == [addr : Nat \cup {NoPosition}, data : PortData, alone : BOOLEAN]

(* What add wrote is where its address says, or behind what ftell can say. *)
Stored(a) ==
  IF a.addr = NoPosition THEN Len(file) > MaxLong + Len(Bytes(a.data))
  ELSE /\ a.addr + Len(Bytes(a.data)) <= Len(file)
       /\ \A i \in 1 .. Len(Bytes(a.data)) : file[a.addr + i] = Bytes(a.data)[i]

(* A thread that has add for itself has the end of the file as its address.*)
PortInv ==
  /\ file \in Seq(Stuff)
  /\ adding \in [PortThreads -> Record \cup {NoAdd}]
  /\ added \in SUBSET Record
  /\ \A t \in PortThreads : adding[t] # NoAdd /\ adding[t].alone =>
       /\ adding[t].addr = EndPosition
       /\ \A u \in PortThreads : u # t => adding[u] = NoAdd
  /\ \A a \in added : a.alone => Stored(a)

(* A byte is written where it stands, or later by the line feeds up to it. *)
LEMMA PlaceIsLater ==
  ASSUME NEW buf, NEW i \in Nat
  PROVE  /\ PlaceOf(buf, i) \in Nat /\ PlaceOf(buf, i) >= i
         /\ (\A j \in 1 .. i : buf[j] # 10) => PlaceOf(buf, i) = i
<1>. DEFINE feeds == {j \in 1 .. i : buf[j] = 10}
<1>1. IsFiniteSet(feeds)
  <2>1. IsFiniteSet(1 .. i) BY FS_Interval
  <2>2. feeds \in SUBSET (1 .. i) OBVIOUS
  <2>. HIDE DEF feeds
  <2>. QED BY <2>1, <2>2, FS_Subset
<1>2. Cardinality(feeds) \in Nat BY <1>1, FS_CardinalityType
<1>3. (\A j \in 1 .. i : buf[j] # 10) => feeds = {} OBVIOUS
<1>4. feeds = {} => Cardinality(feeds) = 0 BY FS_EmptySet
<1>5. PlaceOf(buf, i) = i + Cardinality(feeds) BY DEF PlaceOf
<1>. HIDE DEF feeds
<1>. QED BY <1>2, <1>3, <1>4, <1>5

(* A formatted record begins with a header of zeros.                       *)
LEMMA Formatted ==
  ASSUME NEW d \in PortData
  PROVE  /\ DataFormat(d) \in Seq(Octet)
         /\ Len(DataFormat(d)) \in Nat /\ Len(DataFormat(d)) >= HeaderSize
         /\ \A i \in 1 .. HeaderSize : DataFormat(d)[i] = 0
<1>. DEFINE header == [i \in 1 .. HeaderSize |-> 0]
<1>1. d \in Seq(Octet) /\ HeaderSize \in Nat BY PortAssumption DEF Octet
<1>2. header \in Seq(Octet) /\ Len(header) = HeaderSize BY <1>1 DEF Octet
<1>3. \A i \in 1 .. HeaderSize : header[i] = 0 OBVIOUS
<1>4. DataFormat(d) = header \o d BY DEF DataFormat
<1>. HIDE DEF header
<1>. QED BY <1>1, <1>2, <1>3, <1>4

(* What is written of it does, too.                                        *)
LEMMA BytesOfRecord ==
  ASSUME NEW d \in PortData
  PROVE  /\ Bytes(d) \in Seq(Stuff)
         /\ Len(Bytes(d)) \in Nat /\ Len(Bytes(d)) >= HeaderSize
         /\ \A i \in 1 .. HeaderSize : Bytes(d)[i] = 0
<1>. DEFINE buf == DataFormat(d)
            n == PlaceOf(buf, Len(buf))
<1>1. /\ buf \in Seq(Octet) /\ Len(buf) \in Nat /\ Len(buf) >= HeaderSize
      /\ \A i \in 1 .. HeaderSize : buf[i] = 0
  BY Formatted
<1>2. HeaderSize \in Nat BY PortAssumption
<1>. HIDE DEF buf
<1>3. n \in Nat /\ n >= Len(buf) BY <1>1, PlaceIsLater
<1>4. Bytes(d) = OnDisk(buf) BY DEF Bytes, buf
<1>5. Bytes(d) =
        [k \in 1 .. n |->
           IF \E i \in DOMAIN buf : PlaceOf(buf, i) = k
           THEN buf[CHOOSE i \in DOMAIN buf : PlaceOf(buf, i) = k] ELSE 13]
  BY <1>4 DEF OnDisk
<1>. HIDE DEF n
<1>6. Len(Bytes(d)) = n /\ DOMAIN Bytes(d) = 1 .. n
  BY <1>3, <1>5
<1>7. \A k \in 1 .. n : Bytes(d)[k] \in Stuff
  <2>1. \A k \in 1 .. n : k \in Nat BY <1>3
  <2>. QED BY <2>1 DEF Stuff
<1>8. Bytes(d) \in Seq(Stuff)
  <2>1. Bytes(d) = [k \in 1 .. n |-> Bytes(d)[k]] BY <1>5
  <2>2. Bytes(d) \in [1 .. n -> Stuff] BY <1>7, <2>1
  <2>. QED BY <1>3, <2>2
<1>9. ASSUME NEW k \in 1 .. HeaderSize PROVE Bytes(d)[k] = 0
  <2>1. k \in DOMAIN buf /\ k \in 1 .. n /\ k \in Nat BY <1>1, <1>2, <1>3
  <2>2. \A i \in DOMAIN buf : i \in Nat /\ PlaceOf(buf, i) >= i
    BY <1>1, PlaceIsLater
  <2>3. \A i \in 1 .. HeaderSize : PlaceOf(buf, i) = i
    <3>. TAKE i \in 1 .. HeaderSize
    <3>1. i \in Nat /\ \A j \in 1 .. i : buf[j] # 10 BY <1>1, <1>2
    <3>. QED BY <3>1, PlaceIsLater
  <2>4. ASSUME NEW i \in DOMAIN buf, PlaceOf(buf, i) = k PROVE i = k
    <3>1. i \in 1 .. HeaderSize BY <1>1, <1>2, <2>2, <2>4
    <3>. QED BY <2>3, <2>4, <3>1
  <2>5. PlaceOf(buf, k) = k BY <2>3
  <2>6. (CHOOSE i \in DOMAIN buf : PlaceOf(buf, i) = k) = k
    BY <2>1, <2>4, <2>5
  <2>7. Bytes(d)[k] = buf[k] BY <1>5, <2>1, <2>5, <2>6
  <2>. QED BY <1>1, <2>7
<1>. QED BY <1>1, <1>2, <1>3, <1>6, <1>8, <1>9

(* The file is empty.                                                      *)
LEMMA PortInvInit == PortInit => PortInv
BY DEF PortInit, PortInv, NoAdd, Record

(* What a file gets at its end changes nothing that it holds.              *)
LEMMA GrownFile ==
  ASSUME NEW g \in Seq(Stuff), file \in Seq(Stuff), file' = file \o g
  PROVE  /\ file' \in Seq(Stuff)
         /\ Len(file) \in Nat /\ Len(g) \in Nat /\ Len(file') = Len(file) + Len(g)
         /\ \A i \in 1 .. Len(file) : file'[i] = file[i]
         /\ \A i \in 1 .. Len(g) : file'[Len(file) + i] = g[i]
OBVIOUS

(* Records that are in the file stay there when it grows.                  *)
LEMMA StoredStays ==
  ASSUME NEW g \in Seq(Stuff), file \in Seq(Stuff), file' = file \o g,
         NEW a \in Record, Stored(a)
  PROVE  Stored(a)'
<1>. DEFINE n == Len(Bytes(a.data))
<1>1. n \in Nat BY BytesOfRecord DEF Record
<1>2. /\ Len(file) \in Nat /\ Len(file') \in Nat /\ Len(file') >= Len(file)
      /\ \A i \in 1 .. Len(file) : file'[i] = file[i]
  BY GrownFile
<1>3. CASE a.addr = NoPosition
  <2>1. Len(file) > MaxLong + n BY <1>3 DEF Stored
  <2>2. MaxLong \in Nat BY PortAssumption
  <2>. HIDE DEF n
  <2>3. Len(file') > MaxLong + n BY <1>1, <1>2, <2>1, <2>2
  <2>. QED BY <1>3, <2>3 DEF Stored, n
<1>4. CASE a.addr # NoPosition
  <2>1. a.addr \in Nat BY <1>4 DEF Record
  <2>2. a.addr + n <= Len(file) /\ \A i \in 1 .. n : file[a.addr + i] = Bytes(a.data)[i]
    BY <1>4 DEF Stored
  <2>. HIDE DEF n
  <2>3. \A i \in 1 .. n : a.addr + i \in 1 .. Len(file)
    BY <1>1, <1>2, <2>1, <2>2
  <2>4. a.addr + n <= Len(file') BY <1>1, <1>2, <2>1, <2>2
  <2>5. \A i \in 1 .. n : file'[a.addr + i] = Bytes(a.data)[i]
    BY <1>2, <2>2, <2>3
  <2>. QED BY <1>4, <2>4, <2>5 DEF Stored, n
<1>. QED BY <1>3, <1>4

(* add looks for the end of the file.                                      *)
LEMMA AddBeginKeeps ==
  ASSUME PortInv, NEW t \in PortThreads, NEW d \in PortData, AddBegin(t, d)
  PROVE  PortInv'
<1>1. /\ adding[t] = NoAdd /\ UNCHANGED <<file, added>>
      /\ adding'[t] = [addr |-> EndPosition, data |-> d,
                       alone |-> \A r \in PortThreads : adding[r] = NoAdd]
      /\ \A u \in PortThreads : u # t =>
           adding'[u] = [adding[u] EXCEPT !.alone = (adding[u] = NoAdd)]
  BY DEF AddBegin
<1>2. adding'[t] \in Record
  <2>1. EndPosition \in Nat \cup {NoPosition} BY DEF PortInv, EndPosition
  <2>. QED BY <1>1, <2>1 DEF Record
<1>3. \A u \in PortThreads : u # t =>
        IF adding[u] = NoAdd THEN adding'[u] = NoAdd
        ELSE adding'[u] \in Record /\ ~adding'[u].alone
  <2>. SUFFICES ASSUME NEW u \in PortThreads, u # t
                PROVE  IF adding[u] = NoAdd THEN adding'[u] = NoAdd
                       ELSE adding'[u] \in Record /\ ~adding'[u].alone
    OBVIOUS
  <2>1. CASE adding[u] = NoAdd
    <3>1. \A x, y, z : [[addr |-> x, data |-> y, alone |-> z] EXCEPT !.alone = z]
                    = [addr |-> x, data |-> y, alone |-> z]
      OBVIOUS
    <3>2. [NoAdd EXCEPT !.alone = TRUE] = NoAdd
      BY <3>1 DEF NoAdd
    <3>. QED BY <1>1, <2>1, <3>2
  <2>2. CASE adding[u] # NoAdd
    <3>1. adding[u] \in Record
      BY <2>2 DEF PortInv
    <3>2. adding'[u] = [adding[u] EXCEPT !.alone = FALSE]
      BY <1>1, <2>2
    <3>. QED BY <2>2, <3>1, <3>2 DEF Record
  <2>. QED BY <2>1, <2>2
<1>4. adding' \in [PortThreads -> Record \cup {NoAdd}]
  BY <1>2, <1>3 DEF AddBegin
<1>5. ASSUME NEW u \in PortThreads, adding'[u] # NoAdd, adding'[u].alone
      PROVE  /\ adding'[u].addr = EndPosition'
             /\ \A v \in PortThreads : v # u => adding'[v] = NoAdd
  <2>1. u = t
    BY <1>3, <1>5
  <2>2. \A r \in PortThreads : adding[r] = NoAdd
    BY <1>1, <1>5, <2>1
  <2>3. EndPosition' = EndPosition BY <1>1 DEF EndPosition
  <2>. QED BY <1>1, <1>3, <2>1, <2>2, <2>3
<1>6. \A a \in added' : a.alone => Stored(a)'
  BY <1>1 DEF PortInv, Stored
<1>. QED BY <1>1, <1>4, <1>5, <1>6 DEF PortInv

(* The record, or what could be written of it, is appended.                *)
LEMMA AppendKeeps ==
  ASSUME PortInv, NEW t \in PortThreads, adding[t] # NoAdd,
         NEW g \in Seq(Stuff), file' = file \o g,
         adding' = [adding EXCEPT ![t] = NoAdd],
         \/ added' = added
         \/ g = Bytes(adding[t].data) /\ added' = added \cup {adding[t]}
  PROVE  PortInv'
<1>1. adding[t] \in Record
  BY DEF PortInv
<1>2. adding' \in [PortThreads -> Record \cup {NoAdd}] /\ added' \in SUBSET Record
  BY <1>1 DEF PortInv
<1>3. \A u \in PortThreads : u # t /\ adding[u] # NoAdd => ~adding[u].alone
  BY DEF PortInv
<1>4. \A u \in PortThreads : adding'[u] # NoAdd => ~adding'[u].alone
  BY <1>3 DEF PortInv
<1>5. ASSUME NEW a \in added, a.alone PROVE Stored(a)'
  BY <1>5, StoredStays DEF PortInv
<1>6. ASSUME g = Bytes(adding[t].data), adding[t].alone
      PROVE  \A a \in {adding[t]} : Stored(a)'
  <2>1. PICK a \in Record : a = adding[t]
    BY <1>1
  <2>2. g = Bytes(a.data) /\ a.addr = EndPosition
    BY <1>6, <2>1 DEF PortInv
  <2>3. /\ Len(file) \in Nat /\ Len(g) \in Nat /\ Len(file') = Len(file) + Len(g)
        /\ \A i \in 1 .. Len(g) : file'[Len(file) + i] = g[i]
    BY GrownFile DEF PortInv
  <2>4. ASSUME Len(file) <= MaxLong PROVE Stored(a)'
    <3>1. a.addr = Len(file) /\ a.addr # NoPosition
      BY <2>2, <2>3, <2>4 DEF EndPosition, NoPosition
    <3>2. a.addr + Len(Bytes(a.data)) <= Len(file') BY <2>2, <2>3, <3>1
    <3>3. \A i \in 1 .. Len(Bytes(a.data)) : file'[a.addr + i] = Bytes(a.data)[i]
      BY <2>2, <2>3, <3>1
    <3>. QED BY <3>1, <3>2, <3>3 DEF Stored
  <2>5. ASSUME ~(Len(file) <= MaxLong) PROVE Stored(a)'
    <3>1. a.addr = NoPosition BY <2>2, <2>5 DEF EndPosition
    <3>2. Len(file') > MaxLong + Len(Bytes(a.data))
      BY <2>2, <2>3, <2>5, PortAssumption
    <3>. QED BY <3>1, <3>2 DEF Stored
  <2>. QED BY <2>1, <2>4, <2>5
<1>7. ASSUME NEW a \in added', a.alone PROVE Stored(a)'
  BY <1>5, <1>6, <1>7
<1>8. file' \in Seq(Stuff)
  BY GrownFile DEF PortInv
<1>. QED BY <1>2, <1>4, <1>7, <1>8 DEF PortInv

(* Every step keeps the invariant.                                         *)
LEMMA PortInvStep == PortInv /\ [PortNext]_portVars => PortInv'
<1>. SUFFICES ASSUME PortInv, [PortNext]_portVars PROVE PortInv'
  OBVIOUS
<1>0. ASSUME NEW t \in PortThreads, adding[t] # NoAdd
      PROVE  Bytes(adding[t].data) \in Seq(Stuff)
  BY <1>0, BytesOfRecord DEF PortInv, Record
<1>1. ASSUME NEW t \in PortThreads, AddWrite(t) PROVE PortInv'
  BY <1>0, <1>1, AppendKeeps DEF AddWrite, Bytes
<1>2. ASSUME NEW t \in PortThreads, AddFails(t) PROVE PortInv'
  <2>1. PICK n \in PortCuts :
          /\ n < Len(Bytes(adding[t].data))
          /\ file' = file \o SubSeq(Bytes(adding[t].data), 1, n)
    BY <1>2 DEF AddFails, Bytes
  <2>2. Bytes(adding[t].data) \in Seq(Stuff) /\ n \in Nat
    BY <1>0, <1>2, PortAssumption DEF AddFails
  <2>3. SubSeq(Bytes(adding[t].data), 1, n) \in Seq(Stuff)
    BY <2>1, <2>2
  <2>. QED BY <1>2, <2>1, <2>3, AppendKeeps DEF AddFails
<1>3. ASSUME NEW addr, Get(addr) PROVE PortInv'
  BY <1>3 DEF Get, PortInv, Stored, EndPosition
<1>4. CASE UNCHANGED portVars
  BY <1>4 DEF portVars, PortInv, Stored, EndPosition
<1>. QED BY AddBeginKeeps, <1>1, <1>2, <1>3, <1>4 DEF PortNext

(* A stored record is where its address says, but get refuses it.          *)
LEMMA StoredIsRead == PortInv => AddressIsRecord
<1>. SUFFICES ASSUME PortInv, NEW a \in added, a.alone
              PROVE
       IF a.addr = NoPosition
       THEN /\ Len(file) > MaxLong + Len(Bytes(a.data))
            /\ GetResults(a.addr) = {"set_file_position_failed"}
       ELSE /\ a.addr + Len(Bytes(a.data)) <= Len(file)
            /\ SubSeq(file, a.addr + 1, a.addr + Len(Bytes(a.data))) = Bytes(a.data)
            /\ GetResults(a.addr) = IF a.addr = 0 THEN {"invalid_arg"}
                                    ELSE {"read_operation_failed"}
  BY DEF AddressIsRecord, Bytes
<1>1. PICK r : r = Bytes(a.data) OBVIOUS
<1>2. /\ r \in Seq(Stuff) /\ Len(r) \in Nat /\ Len(r) >= HeaderSize
      /\ \A i \in 1 .. HeaderSize : r[i] = 0
  BY <1>1, BytesOfRecord DEF PortInv, Record
<1>3. Stored(a) /\ a.addr \in Nat \cup {NoPosition} /\ file \in Seq(Stuff)
  BY DEF PortInv, Record
<1>4. HeaderSize \in Nat BY PortAssumption
<1>5. CASE a.addr = NoPosition
  BY <1>3, <1>5 DEF Stored, GetResults, NoPosition
<1>6. CASE a.addr # NoPosition
  <2>1. /\ a.addr \in Nat /\ a.addr + Len(r) <= Len(file)
        /\ \A i \in 1 .. Len(r) : file[a.addr + i] = r[i]
    BY <1>1, <1>3, <1>6 DEF Stored
  <2>2. SubSeq(file, a.addr + 1, a.addr + Len(r)) = r
    <3>. DEFINE q == SubSeq(file, a.addr + 1, a.addr + Len(r))
    <3>0. \A i \in a.addr + 1 .. a.addr + Len(r) : file[i] \in Stuff
      BY <1>2, <1>3, <2>1
    <3>1. q \in Seq(Stuff) /\ Len(q) = Len(r)
      BY SMTT(30), <1>2, <1>3, <2>1, <3>0, SubSeqProperties
    <3>2. ASSUME NEW i \in 1 .. Len(r) PROVE q[i] = r[i]
      <4>1. q[i] = file[a.addr + 1 + i - 1]
        BY SMTT(30), <1>2, <1>3, <2>1
      <4>2. a.addr + 1 + i - 1 = a.addr + i
        BY <2>1
      <4>. QED BY <2>1, <4>1, <4>2
    <3>. QED BY <1>2, <3>1, <3>2, SeqEqual
  <2>3. \A i \in 1 .. HeaderSize : file[a.addr + i] = 0
    BY <1>2, <1>4, <2>1
  <2>4. ~(a.addr + HeaderSize > Len(file))
    <3>1. Len(file) \in Nat BY <1>3
    <3>. QED BY <1>2, <1>4, <2>1, <3>1
  <2>5. GetResults(a.addr) = IF a.addr = 0 THEN {"invalid_arg"}
                             ELSE {"read_operation_failed"}
    BY <1>6, <2>1, <2>3, <2>4 DEF GetResults
  <2>. QED BY <1>1, <1>6, <2>1, <2>2, <2>5
<1>. QED BY <1>5, <1>6

(* Line feeds in other records, writes that fail part of the way and       *)
(* threads that wait do not separate a record from the address add has     *)
(* given for it, unless it is one that no record has, and get refuses every*)
(* one of them (dataport_direct.hpp:33-131).                               *)
THEOREM RecordsKeepTheirAddress == LibrarySpec => []AddressIsRecord
<1>1. LibraryInit => PortInv
  BY PortInvInit DEF LibraryInit
<1>2. PortInv /\ [LibraryNext]_libraryVars => PortInv'
  BY LibraryStep, PortInvStep
<1>. QED BY <1>1, <1>2, StoredIsRead, PTL DEF LibrarySpec

-----------------------------------------------------------------------------
(* The map.  The lemmas are about chunks d, free positions e and keys ks   *)
(* that need not be those of the present state.                            *)

Chunks == {NoMemory} \cup [1 .. ChunkSize -> Item]
Spots(d) == {pos \in Nat : Chunk(pos) \in DOMAIN d /\ d[Chunk(pos)] # NoMemory}
ItemAt(d, pos) == d[Chunk(pos)][ItemIx(pos)]
Put(d, pos, item) == [d EXCEPT ![Chunk(pos)][ItemIx(pos)] = item]

(* Every key has an active object of its own, and the free positions are   *)
(* inactive ones, each once.                                               *)
Sound(d, e, ks) ==
  /\ d \in Seq(Chunks)
  /\ e \in Seq(Spots(d))
  /\ ks \in [Keys -> Spots(d) \cup {Absent}]
  /\ \A k \in Keys : ks[k] # Absent => ItemAt(d, ks[k]).active
  /\ \A j, k \in Keys : ks[j] # Absent /\ ks[j] = ks[k] => j = k
  /\ \A i, j \in DOMAIN e : e[i] = e[j] => i = j
  /\ \A i \in DOMAIN e : ~ItemAt(d, e[i]).active

MapInv == Sound(data, empty_objs, keys)

(* A position is a chunk and a place in it.                                *)
LEMMA PositionIsPlace ==
  /\ \A pos \in Nat : Chunk(pos) \in Nat \ {0} /\ ItemIx(pos) \in 1 .. ChunkSize
  /\ \A p, q \in Nat : Chunk(p) = Chunk(q) /\ ItemIx(p) = ItemIx(q) => p = q
<1>1. ASSUME NEW pos \in Nat
      PROVE  Chunk(pos) \in Nat \ {0} /\ ItemIx(pos) \in 1 .. ChunkSize
  BY PoolAllocatorConstants DEF Chunk, ItemIx
<1>2. ASSUME NEW pos \in Nat
      PROVE  pos = ChunkSize * (pos \div ChunkSize) + (pos % ChunkSize)
  BY PoolAllocatorConstants
<1>3. ASSUME NEW p \in Nat, NEW q \in Nat, Chunk(p) = Chunk(q), ItemIx(p) = ItemIx(q)
      PROVE  p = q
  BY <1>2, <1>3, PoolAllocatorConstants DEF Chunk, ItemIx
<1>. QED BY <1>1, <1>3

(* The positions of the next chunk are in it, and different.               *)
LEMMA NewPositions ==
  ASSUME NEW n \in Nat
  PROVE  /\ Len(Positions(n + 1)) = ChunkSize
         /\ \A i \in 1 .. ChunkSize :
              Positions(n + 1)[i] \in Nat /\ Chunk(Positions(n + 1)[i]) = n + 1
         /\ \A i, j \in 1 .. ChunkSize :
              Positions(n + 1)[i] = Positions(n + 1)[j] => i = j
<1>1. ASSUME NEW i \in 1 .. ChunkSize
      PROVE  (n + 1) * ChunkSize - i \in Nat /\ Chunk((n + 1) * ChunkSize - i) = n + 1
  BY PoolAllocatorConstants DEF Chunk
<1>. QED BY <1>1, PoolAllocatorConstants DEF Positions

(* A chunk that has memory is not one that has none.                       *)
LEMMA MemoryIsThere ==
  ASSUME NEW c \in [1 .. ChunkSize -> Item]
  PROVE  c # NoMemory
<1>1. 1 \in DOMAIN c /\ DOMAIN NoMemory = {}
  BY PoolAllocatorConstants DEF NoMemory
<1>. QED BY <1>1

(* Writing an item changes that item only.                                 *)
LEMMA PutItem ==
  ASSUME NEW d \in Seq(Chunks), NEW pos \in Spots(d), NEW item \in Item
  PROVE  /\ Put(d, pos, item) \in Seq(Chunks)
         /\ Spots(Put(d, pos, item)) = Spots(d)
         /\ ItemAt(Put(d, pos, item), pos) = item
         /\ \A q \in Spots(d) : q # pos => ItemAt(Put(d, pos, item), q) = ItemAt(d, q)
<1>. DEFINE c == Chunk(pos)
            x == ItemIx(pos)
            d2 == Put(d, pos, item)
<1>1. /\ pos \in Nat /\ c \in 1 .. Len(d) /\ x \in 1 .. ChunkSize
      /\ d[c] \in [1 .. ChunkSize -> Item]
  <2>1. pos \in Nat /\ c \in DOMAIN d /\ d[c] # NoMemory
    BY DEF Spots
  <2>2. c \in 1 .. Len(d) /\ x \in 1 .. ChunkSize
    BY <2>1, PositionIsPlace, LenProperties
  <2>3. d[c] \in Chunks
    BY <2>2, ElementOfSeq
  <2>. QED BY <2>1, <2>2, <2>3 DEF Chunks
<1>2. d2 = [d EXCEPT ![c] = [d[c] EXCEPT ![x] = item]]
  BY DEF Put
<1>3. [d[c] EXCEPT ![x] = item] \in [1 .. ChunkSize -> Item]
  BY <1>1
<1>4. /\ d2 \in Seq(Chunks) /\ DOMAIN d2 = DOMAIN d
      /\ d2[c] = [d[c] EXCEPT ![x] = item]
      /\ \A b \in DOMAIN d : b # c => d2[b] = d[b]
  BY SMTT(30), <1>1, <1>2, <1>3 DEF Chunks
<1>5. d2[c] # NoMemory /\ d[c] # NoMemory
  BY <1>1, <1>3, <1>4, MemoryIsThere
<1>6. Spots(d2) = Spots(d)
  BY <1>4, <1>5 DEF Spots
<1>7. ItemAt(d2, pos) = item
  BY <1>1, <1>4 DEF ItemAt
<1>8. ASSUME NEW q \in Spots(d), q # pos PROVE ItemAt(d2, q) = ItemAt(d, q)
  <2>1. q \in Nat /\ Chunk(q) \in DOMAIN d
    BY DEF Spots
  <2>2. CASE Chunk(q) # c
    BY <1>4, <2>1, <2>2 DEF ItemAt
  <2>3. CASE Chunk(q) = c
    <3>1. ItemIx(q) # x /\ ItemIx(q) \in 1 .. ChunkSize
      BY <1>1, <1>8, <2>1, <2>3, PositionIsPlace
    <3>. QED BY <1>1, <1>4, <2>3, <3>1 DEF ItemAt
  <2>. QED BY <2>2, <2>3
<1>. HIDE DEF d2
<1>9. d2 = Put(d, pos, item)
  BY DEF d2
<1>. QED BY <1>4, <1>6, <1>7, <1>8, <1>9

(* What an item may be written with.                                       *)
LEMMA ItemsWritten ==
  ASSUME NEW d \in Seq(Chunks), NEW pos \in Spots(d)
  PROVE  /\ ItemAt(d, pos) \in Item
         /\ [active |-> TRUE, val |-> Default] \in Item
         /\ [ItemAt(d, pos) EXCEPT !.active = FALSE] \in Item
         /\ \A v \in Values : [ItemAt(d, pos) EXCEPT !.val = v] \in Item
<1>1. pos \in Nat /\ Chunk(pos) \in DOMAIN d /\ d[Chunk(pos)] # NoMemory
  BY DEF Spots
<1>2. Chunk(pos) \in 1 .. Len(d) /\ ItemIx(pos) \in 1 .. ChunkSize
  BY <1>1, PositionIsPlace, LenProperties
<1>3. d[Chunk(pos)] \in Chunks
  BY <1>2, ElementOfSeq
<1>4. ItemAt(d, pos) \in Item
  BY <1>1, <1>2, <1>3 DEF Chunks, ItemAt
<1>. QED BY <1>4, PoolAllocatorConstants DEF Item

(* allocate finds a free position, after one more chunk if need be; no     *)
(* item of a key is touched by that.                                       *)
LEMMA GrowKeeps ==
  ASSUME MapInv
  PROVE  /\ Sound(GrownData, GrownList, keys)
         /\ GrownList \in Seq(Spots(GrownData)) /\ Len(GrownList) > 0
         /\ \A k \in Keys : keys[k] # Absent =>
              ItemAt(GrownData, keys[k]) = ItemAt(data, keys[k])
<1>1. CASE empty_objs # <<>>
  BY <1>1 DEF MapInv, Sound, GrownData, GrownList
<1>2. CASE empty_objs = <<>>
  <2>. DEFINE n == Len(data)
              d == Append(data, Cleared)
              e == Positions(n + 1)
  <2>1. d = GrownData /\ e = GrownList
    BY <1>2 DEF GrownData, GrownList
  <2>2. data \in Seq(Chunks) /\ n \in Nat
    BY DEF MapInv, Sound
  <2>3. Cleared \in [1 .. ChunkSize -> Item] /\ Cleared # NoMemory
    <3>1. Cleared \in [1 .. ChunkSize -> Item]
      BY PoolAllocatorConstants DEF Cleared, EmptyItem, Item
    <3>. QED BY <3>1, MemoryIsThere
  <2>4. /\ d \in Seq(Chunks) /\ DOMAIN d = 1 .. n + 1 /\ d[n + 1] = Cleared
        /\ \A c \in 1 .. n : d[c] = data[c]
    BY <2>2, <2>3 DEF Chunks
  <2>5. ASSUME NEW q \in Spots(data)
        PROVE  q \in Spots(d) /\ ItemAt(d, q) = ItemAt(data, q) /\ Chunk(q) # n + 1
    <3>1. q \in Nat /\ Chunk(q) \in 1 .. n /\ data[Chunk(q)] # NoMemory
      BY <2>2 DEF Spots
    <3>. QED BY <2>2, <2>4, <3>1 DEF Spots, ItemAt
  <2>6. ASSUME NEW i \in 1 .. ChunkSize
        PROVE  e[i] \in Spots(d) /\ ~ItemAt(d, e[i]).active
    <3>1. e[i] \in Nat /\ Chunk(e[i]) = n + 1 /\ ItemIx(e[i]) \in 1 .. ChunkSize
      BY <2>2, NewPositions, PositionIsPlace
    <3>2. n + 1 \in 1 .. n + 1
      BY <2>2
    <3>3. e[i] \in Spots(d)
      BY <2>3, <2>4, <3>1, <3>2 DEF Spots
    <3>4. ItemAt(d, e[i]) = EmptyItem
      BY <2>4, <3>1 DEF ItemAt, Cleared
    <3>. QED BY <3>3, <3>4 DEF EmptyItem
  <2>7. e \in Seq(Spots(d)) /\ Len(e) = ChunkSize /\ DOMAIN e = 1 .. ChunkSize
    BY <2>6, PoolAllocatorConstants DEF Positions
  <2>8. \A i, j \in DOMAIN e : e[i] = e[j] => i = j
    BY <2>2, <2>7, NewPositions
  <2>9. keys \in [Keys -> Spots(d) \cup {Absent}]
    BY <2>5 DEF MapInv, Sound
  <2>. HIDE DEF d, e
  <2>10. \A k \in Keys : keys[k] # Absent => ItemAt(d, keys[k]) = ItemAt(data, keys[k])
    BY <2>5 DEF MapInv, Sound
  <2>11. Sound(d, e, keys)
    BY <2>4, <2>6, <2>7, <2>8, <2>9, <2>10 DEF MapInv, Sound
  <2>. QED BY <2>1, <2>7, <2>10, <2>11, PoolAllocatorConstants
<1>. QED BY <1>1, <1>2

(* The position on top of the free ones, and what using it makes of them.  *)
Top(e) == e[Len(e)]
Lower(e) == SubSeq(e, 1, Len(e) - 1)
Used(d, e) == Put(d, Top(e), [active |-> TRUE, val |-> Default])

(* The last free position is given to a key that had none, or lost.        *)
LEMMA GiveKeeps ==
  ASSUME NEW d, NEW e, NEW ks, Sound(d, e, ks), Len(e) > 0,
         NEW k \in Keys, ks[k] = Absent
  PROVE  /\ Sound(Used(d, e), Lower(e), ks)
         /\ Sound(Used(d, e), Lower(e), [ks EXCEPT ![k] = Top(e)])
         /\ Top(e) # Absent /\ ItemAt(Used(d, e), Top(e)).val = Default
         /\ \A j \in Keys : ks[j] # Absent =>
              ItemAt(Used(d, e), ks[j]) = ItemAt(d, ks[j])
<1>. DEFINE pos == Top(e)
            d2  == Used(d, e)
            e2  == Lower(e)
<1>. USE DEF Top, Used, Lower
<1>1. d \in Seq(Chunks) /\ e \in Seq(Spots(d)) /\ Len(e) \in Nat \ {0}
  BY DEF Sound
<1>2. pos \in Spots(d) /\ pos # Absent /\ Len(e) \in DOMAIN e
  BY <1>1, MapConstants DEF Spots
<1>3. /\ d2 \in Seq(Chunks) /\ Spots(d2) = Spots(d)
      /\ ItemAt(d2, pos) = [active |-> TRUE, val |-> Default]
      /\ \A q \in Spots(d) : q # pos => ItemAt(d2, q) = ItemAt(d, q)
  BY ZenonT(60), <1>1, <1>2, PutItem, ItemsWritten
<1>4. /\ e2 \in Seq(Spots(d)) /\ DOMAIN e2 = 1 .. Len(e) - 1
      /\ \A i \in DOMAIN e2 : e2[i] = e[i] /\ i \in DOMAIN e /\ e[i] # pos
  BY <1>1, <1>2 DEF Sound
<1>5. \A j \in Keys : ks[j] # Absent => ks[j] # pos /\ ks[j] \in Spots(d)
  BY <1>2 DEF Sound
<1>. HIDE DEF pos, d2, e2
<1>6. \A j \in Keys : ks[j] # Absent => ItemAt(d2, ks[j]) = ItemAt(d, ks[j])
  BY <1>3, <1>5
<1>7. \A i \in DOMAIN e2 : ~ItemAt(d2, e2[i]).active
  BY <1>1, <1>3, <1>4 DEF Sound
<1>8. Sound(d2, e2, ks)
  BY <1>3, <1>4, <1>6, <1>7 DEF Sound
<1>9. Sound(d2, e2, [ks EXCEPT ![k] = pos])
  <2>. DEFINE k2 == [ks EXCEPT ![k] = pos]
  <2>1. k2 \in [Keys -> Spots(d2) \cup {Absent}]
    BY <1>2, <1>3, <1>8 DEF Sound
  <2>2. k2[k] = pos /\ \A j \in Keys : j # k => k2[j] = ks[j]
    BY DEF Sound
  <2>. HIDE DEF k2
  <2>3. \A j \in Keys : k2[j] # Absent => ItemAt(d2, k2[j]).active
    BY SMTT(30), <1>3, <1>8, <2>2 DEF Sound
  <2>4. \A i, j \in Keys : k2[i] # Absent /\ k2[i] = k2[j] => i = j
    BY <1>5, <1>8, <2>2 DEF Sound
  <2>5. Sound(d2, e2, k2)
    BY <1>8, <2>1, <2>3, <2>4 DEF Sound
  <2>. QED BY <2>5 DEF k2
<1>10. ItemAt(d2, pos).val = Default
  BY <1>3
<1>. QED BY <1>2, <1>6, <1>8, <1>9, <1>10 DEF pos, d2, e2

(* The position of a key that is erased is free again.                     *)
LEMMA FreeKeeps ==
  ASSUME MapInv, NEW k \in Keys, Erase(k)
  PROVE  /\ MapInv'
         /\ keys'[k] = Absent
         /\ \A j \in Keys : j # k =>
              /\ keys'[j] = keys[j]
              /\ keys[j] # Absent => ItemAt(data', keys[j]) = ItemAt(data, keys[j])
<1>. DEFINE pos == keys[k]
            item == [ItemAt(data, pos) EXCEPT !.active = FALSE]
<1>1. /\ data \in Seq(Chunks) /\ empty_objs \in Seq(Spots(data))
      /\ pos \in Spots(data) /\ pos # Absent /\ item \in Item
      /\ ItemAt(data, pos) \in Item /\ ItemAt(data, pos).active
  BY ItemsWritten DEF MapInv, Sound, Erase
<1>2. data' = Put(data, pos, item) /\ ~item.active
  BY <1>1 DEF Erase, Deallocate, Put, ItemAt, Item
<1>. HIDE DEF item
<1>3. /\ data' \in Seq(Chunks) /\ Spots(data') = Spots(data)
      /\ ItemAt(data', pos) = item
      /\ \A q \in Spots(data) : q # pos => ItemAt(data', q) = ItemAt(data, q)
  BY <1>1, <1>2, PutItem
<1>4. keys' = [keys EXCEPT ![k] = Absent] /\ empty_objs' = Append(empty_objs, pos)
  BY DEF Erase, KeysAfterErase, Deallocate, FreeList
<1>5. \A i \in DOMAIN empty_objs : empty_objs[i] # pos /\ empty_objs[i] \in Spots(data)
  BY <1>1 DEF MapInv, Sound
<1>6. \A j \in Keys : j # k =>
        /\ keys'[j] = keys[j]
        /\ keys[j] # Absent => ItemAt(data', keys[j]) = ItemAt(data, keys[j])
  BY <1>1, <1>3, <1>4 DEF MapInv, Sound
<1>7. keys' \in [Keys -> Spots(data') \cup {Absent}] /\ keys'[k] = Absent
  BY <1>3, <1>4 DEF MapInv, Sound
<1>8. /\ empty_objs' \in Seq(Spots(data'))
      /\ DOMAIN empty_objs' = 1 .. Len(empty_objs) + 1
      /\ empty_objs'[Len(empty_objs) + 1] = pos
      /\ DOMAIN empty_objs = 1 .. Len(empty_objs) /\ Len(empty_objs) \in Nat
      /\ \A i \in DOMAIN empty_objs : empty_objs'[i] = empty_objs[i]
  BY <1>1, <1>3, <1>4
<1>. HIDE DEF pos
<1>9. \A i \in DOMAIN empty_objs' : ~ItemAt(data', empty_objs'[i]).active
  BY <1>1, <1>2, <1>3, <1>5, <1>8 DEF MapInv, Sound
<1>10. \A i, j \in DOMAIN empty_objs' : empty_objs'[i] = empty_objs'[j] => i = j
  BY <1>5, <1>8 DEF MapInv, Sound
<1>11. \A j \in Keys : keys'[j] # Absent => ItemAt(data', keys'[j]).active
  BY <1>6, <1>7 DEF MapInv, Sound
<1>12. \A i, j \in Keys : keys'[i] # Absent /\ keys'[i] = keys'[j] => i = j
  BY <1>6, <1>7 DEF MapInv, Sound
<1>13. MapInv'
  BY <1>3, <1>7, <1>8, <1>9, <1>10, <1>11, <1>12 DEF MapInv, Sound
<1>. QED BY <1>6, <1>7, <1>13

(* A write through a reference changes the object of its own key.          *)
LEMMA AssignKeeps ==
  ASSUME MapInv, NEW k \in Keys, NEW v \in Values, Assign(k, v)
  PROVE  /\ MapInv' /\ keys' = keys
         /\ ItemAt(data', keys[k]).val = v
         /\ \A j \in Keys : j # k /\ keys[j] # Absent =>
              ItemAt(data', keys[j]) = ItemAt(data, keys[j])
<1>. DEFINE pos == keys[k]
            item == [ItemAt(data, pos) EXCEPT !.val = v]
<1>1. /\ data \in Seq(Chunks) /\ empty_objs \in Seq(Spots(data))
      /\ pos \in Spots(data) /\ pos # Absent /\ item \in Item
      /\ ItemAt(data, pos) \in Item /\ ItemAt(data, pos).active
  BY ItemsWritten DEF MapInv, Sound, Assign
<1>2. data' = Put(data, pos, item) /\ item.active /\ item.val = v
  BY <1>1 DEF Assign, Store, Put, ItemAt, Item
<1>. HIDE DEF item
<1>3. /\ data' \in Seq(Chunks) /\ Spots(data') = Spots(data)
      /\ ItemAt(data', pos) = item
      /\ \A q \in Spots(data) : q # pos => ItemAt(data', q) = ItemAt(data, q)
  BY <1>1, <1>2, PutItem
<1>4. UNCHANGED <<keys, empty_objs>>
  BY DEF Assign, Store
<1>5. \A i \in DOMAIN empty_objs : ItemAt(data', empty_objs[i]) = ItemAt(data, empty_objs[i])
  BY <1>1, <1>3 DEF MapInv, Sound
<1>6. \A j \in Keys : keys[j] # Absent =>
        /\ ItemAt(data', keys[j]).active
        /\ j # k => ItemAt(data', keys[j]) = ItemAt(data, keys[j])
  BY <1>1, <1>2, <1>3 DEF MapInv, Sound
<1>7. MapInv'
  BY <1>3, <1>4, <1>5, <1>6 DEF MapInv, Sound
<1>. QED BY <1>2, <1>3, <1>4, <1>6, <1>7

(* What allocate does, in the words of the lemmas.                         *)
LEMMA AllocateGives ==
  ASSUME Allocate
  PROVE  /\ data' = Used(GrownData, GrownList)
         /\ empty_objs' = Lower(GrownList) /\ Target = Top(GrownList)
BY DEF Allocate, Popped, Target, Put, Used, Lower, Top

(* A chunk without memory adds no position.                                *)
LEMMA EmptyChunkKeeps ==
  ASSUME MapInv, AllocateThrowsInChunk, UNCHANGED keys
  PROVE  /\ MapInv'
         /\ \A k \in Keys : keys[k] # Absent =>
              ItemAt(data', keys[k]) = ItemAt(data, keys[k])
<1>1. /\ data \in Seq(Chunks) /\ data' = Append(data, NoMemory)
      /\ UNCHANGED <<empty_objs, keys>>
  BY DEF AllocateThrowsInChunk, MapInv, Sound
<1>2. /\ data' \in Seq(Chunks) /\ DOMAIN data' = 1 .. Len(data) + 1
      /\ DOMAIN data = 1 .. Len(data) /\ Len(data) \in Nat
      /\ data'[Len(data) + 1] = NoMemory
      /\ \A c \in DOMAIN data : data'[c] = data[c]
  BY <1>1 DEF Chunks
<1>3. Spots(data') = Spots(data)
  BY <1>2 DEF Spots
<1>4. \A q \in Spots(data) : ItemAt(data', q) = ItemAt(data, q)
  BY <1>2 DEF Spots, ItemAt
<1>5. \A k \in Keys : keys[k] # Absent => ItemAt(data', keys[k]) = ItemAt(data, keys[k])
  BY <1>4 DEF MapInv, Sound
<1>6. \A i \in DOMAIN empty_objs : ItemAt(data', empty_objs[i]) = ItemAt(data, empty_objs[i])
  BY <1>4 DEF MapInv, Sound
<1>7. MapInv'
  BY <1>1, <1>2, <1>3, <1>5, <1>6 DEF MapInv, Sound
<1>. QED BY <1>5, <1>7

(* The object a key sees.                                                  *)
Seen(k) == IF keys[k] = Absent THEN Absent ELSE At(keys[k]).val
SeenMap == [k \in Keys |-> Seen(k)]

(* An object is never the mark of a missing key.                           *)
LEMMA SeenIsObject == MapInv => \A k \in Keys : keys[k] # Absent => Seen(k) # Absent
<1>. SUFFICES ASSUME MapInv, NEW k \in Keys, keys[k] # Absent PROVE Seen(k) # Absent
  OBVIOUS
<1>1. data \in Seq(Chunks) /\ keys[k] \in Spots(data)
  BY DEF MapInv, Sound
<1>2. ItemAt(data, keys[k]) \in Item
  BY <1>1, ItemsWritten
<1>. QED BY <1>2, MapConstants DEF Seen, At, ItemAt, Item

(* What changes no object of a key shows nothing.                          *)
LEMMA QuietStep ==
  ASSUME keys' = keys,
         \A k \in Keys : keys[k] # Absent => ItemAt(data', keys[k]) = ItemAt(data, keys[k])
  PROVE  SeenMap' = SeenMap
BY DEF SeenMap, Seen, At, ItemAt

(* What changes the object of one key shows that.                          *)
LEMMA OneKeyStep ==
  ASSUME NEW k \in Keys, NEW v, v = Seen(k)',
         \A j \in Keys : j # k =>
           /\ keys'[j] = keys[j]
           /\ keys[j] # Absent => ItemAt(data', keys[j]) = ItemAt(data, keys[j])
  PROVE  SeenMap' = [SeenMap EXCEPT ![k] = v]
<1>1. \A j \in Keys : j # k => Seen(j)' = Seen(j)
  BY DEF Seen, At, ItemAt
<1>2. SeenMap' = [j \in Keys |-> Seen(j)']
  BY DEF SeenMap
<1>. QED BY <1>1, <1>2 DEF SeenMap

(* Each operation, and each failure of one, keeps the invariant and is a   *)
(* step of the map of objects or none.                                     *)
LEMMA InsertShows ==
  ASSUME MapInv, NEW k \in Keys, Insert(k)
  PROVE  MapInv' /\ Seen(k) = Absent /\ SeenMap' = [SeenMap EXCEPT ![k] = Default]
<1>1. Allocate /\ keys[k] = Absent /\ keys' = [keys EXCEPT ![k] = Target]
  BY DEF Insert
<1>2. /\ Sound(GrownData, GrownList, keys) /\ Len(GrownList) > 0
      /\ \A j \in Keys : keys[j] # Absent =>
           ItemAt(GrownData, keys[j]) = ItemAt(data, keys[j])
  BY GrowKeeps
<1>3. /\ Sound(data', empty_objs', [keys EXCEPT ![k] = Target])
      /\ Target # Absent /\ ItemAt(data', Target).val = Default
      /\ \A j \in Keys : keys[j] # Absent =>
           ItemAt(data', keys[j]) = ItemAt(GrownData, keys[j])
  <2>1. keys[k] = Absent /\ Sound(GrownData, GrownList, keys) /\ Len(GrownList) > 0
    BY <1>1, <1>2
  <2>2. Sound(Used(GrownData, GrownList), Lower(GrownList),
              [keys EXCEPT ![k] = Top(GrownList)])
    BY <2>1, GiveKeeps, ZenonT(60)
  <2>3. /\ Top(GrownList) # Absent
        /\ ItemAt(Used(GrownData, GrownList), Top(GrownList)).val = Default
    BY <2>1, GiveKeeps, ZenonT(60)
  <2>4. \A j \in Keys : keys[j] # Absent =>
          ItemAt(Used(GrownData, GrownList), keys[j]) = ItemAt(GrownData, keys[j])
    BY <2>1, GiveKeeps, ZenonT(60)
  <2>. QED BY <1>1, <2>2, <2>3, <2>4, AllocateGives
<1>4. MapInv'
  BY <1>1, <1>3 DEF MapInv
<1>5. keys'[k] = Target /\ \A j \in Keys : j # k => keys'[j] = keys[j]
  BY <1>1 DEF MapInv, Sound
<1>6. Seen(k)' = Default
  BY <1>3, <1>5 DEF Seen, At, ItemAt
<1>7. SeenMap' = [SeenMap EXCEPT ![k] = Default]
  BY <1>2, <1>3, <1>5, <1>6, OneKeyStep
<1>. QED BY <1>1, <1>4, <1>7 DEF Seen

(* An insertion that throws, in the chunk, the object or the key map, is   *)
(* not seen in the map.                                                    *)
LEMMA InsertFails ==
  ASSUME MapInv, NEW k \in Keys, InsertThrows(k) \/ InsertThrowsInKeys(k)
  PROVE  MapInv' /\ SeenMap' = SeenMap
<1>1. CASE InsertThrowsInKeys(k)
  <2>1. Allocate /\ keys[k] = Absent /\ keys' = keys
    BY <1>1 DEF InsertThrowsInKeys
  <2>2. /\ Sound(GrownData, GrownList, keys) /\ Len(GrownList) > 0
        /\ \A j \in Keys : keys[j] # Absent =>
             ItemAt(GrownData, keys[j]) = ItemAt(data, keys[j])
    BY GrowKeeps
  <2>3. /\ Sound(data', empty_objs', keys)
        /\ \A j \in Keys : keys[j] # Absent =>
             ItemAt(data', keys[j]) = ItemAt(GrownData, keys[j])
    <3>1. keys[k] = Absent /\ Sound(GrownData, GrownList, keys) /\ Len(GrownList) > 0
      BY <2>1, <2>2
    <3>2. Sound(Used(GrownData, GrownList), Lower(GrownList), keys)
      BY <3>1, GiveKeeps, ZenonT(60)
    <3>3. \A j \in Keys : keys[j] # Absent =>
            ItemAt(Used(GrownData, GrownList), keys[j]) = ItemAt(GrownData, keys[j])
      BY <3>1, GiveKeeps, ZenonT(60)
    <3>. QED BY <2>1, <3>2, <3>3, AllocateGives
  <2>4. MapInv'
    BY <2>1, <2>3 DEF MapInv
  <2>. QED BY <2>1, <2>2, <2>3, <2>4, QuietStep
<1>2. CASE InsertThrows(k) /\ AllocateThrowsInChunk
  BY <1>2, EmptyChunkKeeps, QuietStep DEF InsertThrows
<1>3. CASE InsertThrows(k) /\ AllocateThrowsInObject
  <2>1. data' = GrownData /\ empty_objs' = GrownList /\ keys' = keys
    BY <1>3 DEF InsertThrows, AllocateThrowsInObject
  <2>2. MapInv'
    BY <2>1, GrowKeeps DEF MapInv
  <2>. QED BY <2>1, <2>2, GrowKeeps, QuietStep
<1>. QED BY <1>1, <1>2, <1>3 DEF InsertThrows

(* erase takes the key away, and nothing else.                             *)
LEMMA EraseShows ==
  ASSUME MapInv, NEW k \in Keys, Erase(k)
  PROVE  MapInv' /\ SeenMap' = [SeenMap EXCEPT ![k] = Absent]
<1>1. Seen(k)' = Absent
  BY FreeKeeps DEF Seen
<1>. QED BY <1>1, FreeKeeps, OneKeyStep

(* A write through the reference operator[] returned changes that object   *)
(* only.                                                                   *)
LEMMA AssignShows ==
  ASSUME MapInv, NEW k \in Keys, NEW v \in Values, Assign(k, v)
  PROVE  MapInv' /\ Seen(k) # Absent /\ SeenMap' = [SeenMap EXCEPT ![k] = v]
<1>1. keys[k] # Absent /\ Seen(k) # Absent
  BY SeenIsObject DEF Assign
<1>2. Seen(k)' = v
  BY <1>1, AssignKeeps DEF Seen, At, ItemAt
<1>. QED BY <1>1, <1>2, AssignKeeps, OneKeyStep

(* The steps together.                                                     *)
LEMMA MapStep == MapInv /\ [MapNext]_mapVars => MapInv' /\ [Map!Next]_SeenMap
<1>. SUFFICES ASSUME MapInv, [MapNext]_mapVars
              PROVE  MapInv' /\ (Map!Next \/ SeenMap' = SeenMap)
  OBVIOUS
<1>1. ASSUME NEW k \in Keys, Insert(k) PROVE MapInv' /\ Map!Insert(k)
  BY <1>1, InsertShows DEF Map!Insert, SeenMap, Seen
<1>2. ASSUME NEW k \in Keys, Erase(k) PROVE MapInv' /\ Map!Erase(k)
  BY <1>2, EraseShows DEF Map!Erase, SeenMap, Seen
<1>3. ASSUME NEW k \in Keys, NEW v \in Values, Assign(k, v)
      PROVE  MapInv' /\ Map!Assign(k, v)
  BY <1>3, AssignShows DEF Map!Assign, SeenMap, Seen
<1>4. CASE UNCHANGED mapVars
  <2>1. UNCHANGED <<data, empty_objs, keys>>
    BY <1>4 DEF mapVars, poolVars
  <2>. QED BY <2>1 DEF MapInv, SeenMap, Seen, At
<1>. QED BY <1>1, <1>2, <1>3, <1>4, InsertFails DEF MapNext, Map!Next

(* The map begins empty.                                                   *)
LEMMA MapBegins == MapInit => MapInv /\ Map!Init
BY MapConstants DEF MapInit, PoolInit, MapInv, Sound, Spots, Map!Init

(* Whatever positions are reused and whatever insertions fail, in the      *)
(* object, the chunk or the key, the keys see the objects of a map         *)
(* (linear_hash_map.hpp:40-120, pool_allocator.hpp:150-184).               *)
THEOREM MapImplements == LibrarySpec => ImplementsMap
<1>1. LibraryInit => MapInv /\ Map!Init
  BY MapBegins DEF LibraryInit
<1>2. MapInv /\ [LibraryNext]_libraryVars => MapInv' /\ [Map!Next]_SeenMap
  BY LibraryStep, MapStep
<1>. QED BY <1>1, <1>2, PTL DEF LibrarySpec, ImplementsMap, Map!Spec, SeenMap, Seen

-----------------------------------------------------------------------------
(* Induction over the natural numbers, for sets.                           *)
LEMMA SetInduction ==
  ASSUME NEW S, 0 \in S, \A n \in Nat : n \in S => n + 1 \in S
  PROVE  Nat \subseteq S
<1>. DEFINE T == Nat \ S
            R == WF!OpToRel(<, Nat)
<1>1. SUFFICES ASSUME T # {} PROVE FALSE OBVIOUS
<1>2. WF!IsWellFoundedOn(R, Nat) BY WF!NatLessThanWellFounded
<1>3. PICK x \in T : \A y \in T : ~(<<y, x>> \in R)
  <2>. HIDE DEF T, R
  <2>1. T \subseteq Nat BY DEF T
  <2>. QED BY <1>1, <1>2, <2>1, WF!WFMin
<1>4. x \in Nat /\ x # 0 /\ x - 1 \in Nat OBVIOUS
<1>5. x - 1 \notin S BY <1>4
<1>6. <<x - 1, x>> \in R BY <1>4 DEF WF!OpToRel
<1>. QED BY <1>3, <1>4, <1>5, <1>6

-----------------------------------------------------------------------------
(* The frames.                                                             *)

(* What is the smaller of two numbers.                                     *)
LEMMA MinOfTwo ==
  ASSUME NEW a \in Int, NEW b \in Int
  PROVE  Min({a, b}) = IF a <= b THEN a ELSE b
<1>. DEFINE m == IF a <= b THEN a ELSE b
<1>1. m \in {a, b} /\ \A y \in {a, b} : m <= y
  OBVIOUS
<1>2. \A x \in {a, b} : (\A y \in {a, b} : x <= y) => x = m
  OBVIOUS
<1>. HIDE DEF m
<1>3. Min({a, b}) = m
  BY <1>1, <1>2, Zenon DEF Min
<1>. QED BY <1>3 DEF m

(* Remainders of numbers below twice the divisor.                          *)
LEMMA SmallRemainder ==
  ASSUME NEW n \in Nat, n > 0, NEW x \in Nat, x < 2 * n
  PROVE  x % n = IF x < n THEN x ELSE x - n
<1>. DEFINE q == x \div n
            r == x % n
<1>1. q \in Int /\ r \in Int /\ 0 <= r /\ r < n /\ x = n * q + r
  OBVIOUS
<1>. HIDE DEF q, r
<1>2. q >= 0
  <2>. SUFFICES ASSUME q <= -1 PROVE FALSE BY <1>1
  <2>1. n * q <= -n BY <1>1
  <2>. QED BY <1>1, <2>1
<1>3. q <= 1
  <2>. SUFFICES ASSUME q >= 2 PROVE FALSE BY <1>1
  <2>1. n * q >= 2 * n BY <1>1
  <2>. QED BY <1>1, <2>1
<1>4. q = 0 \/ q = 1
  BY <1>1, <1>2, <1>3
<1>5. CASE q = 0
  <2>1. n * q = 0 BY <1>5
  <2>. QED BY <1>1, <2>1 DEF r
<1>6. CASE q = 1
  <2>1. n * q = n BY <1>6
  <2>. QED BY <1>1, <2>1 DEF r
<1>. QED BY <1>4, <1>5, <1>6

(* A frame that fits its index type.                                       *)
Frame(V) == [data : Seq(V), it : Nat, size : Nat, sz : {n \in Nat : n > 0 /\ 2 * (n + 1) <= IndexMod}]

(* Where the iterator stands, and the slots around it.                     *)
LEMMA FrameSlots ==
  ASSUME NEW V, NEW f \in Frame(V), f.it <= f.sz
  PROVE  /\ \A k \in 0 .. f.sz :
              FromFirst(f, k) = IF k <= f.it THEN f.it - k ELSE f.it + f.sz + 1 - k
         /\ FirstSlot(f) = f.it
         /\ LastSlot(f) = FromFirst(f, f.sz - 1)
         /\ Forward(f).it = IF f.it < f.sz THEN f.it + 1 ELSE 0
         /\ Forward(f).size = IF f.size < f.sz THEN f.size + 1 ELSE f.sz
         /\ Forward(f) \in Frame(V) /\ Forward(f).data = f.data /\ Forward(f).sz = f.sz
<1>1. PICK s \in Nat, i \in Nat, m \in Nat, M \in Nat :
        s = f.sz /\ i = f.it /\ m = f.size /\ M = IndexMod /\ s > 0 /\ 2 * (s + 1) <= M /\ i <= s
  BY FramesAssumption DEF Frame
<1>2. ASSUME NEW x \in Nat, x < 2 * (s + 1)
      PROVE  (x % M) % (s + 1) = IF x < s + 1 THEN x ELSE x - (s + 1)
  <2>1. x % M = x
    BY <1>1, <1>2, SmallRemainder
  <2>. QED BY ONLY <1>2, <2>1, <1>1, s \in Nat, SmallRemainder
<1>3. ASSUME NEW k \in 0 .. f.sz
      PROVE  FromFirst(f, k) = IF k <= f.it THEN f.it - k ELSE f.it + f.sz + 1 - k
  <2>1. PICK x \in Nat : x = i + (s + 1) - k /\ x < 2 * (s + 1)
    BY <1>1
  <2>2. FromFirst(f, k) = (x % M) % (s + 1)
    BY <1>1, <2>1, Zenon DEF FromFirst, Slot, Slots
  <2>. QED BY <1>1, <1>2, <2>1, <2>2
<1>4. FirstSlot(f) = f.it
  <2>1. FirstSlot(f) = (i % M) % (s + 1)
    BY <1>1, Zenon DEF FirstSlot, Slot, Slots
  <2>. QED BY <1>1, <1>2, <2>1
<1>5. LastSlot(f) = FromFirst(f, f.sz - 1)
  <2>1. f.it + Slots(f) - f.sz + 1 = f.it + Slots(f) - (f.sz - 1)
    BY <1>1 DEF Slots
  <2>. QED BY <2>1, Zenon DEF LastSlot, FromFirst
<1>6. Forward(f).it = IF f.it < f.sz THEN f.it + 1 ELSE 0
  <2>1. Forward(f).it = ((i + 1) % M) % (s + 1)
    BY <1>1 DEF Forward, Slots, Frame
  <2>2. ((i + 1) % M) % (s + 1) = IF i + 1 < s + 1 THEN i + 1 ELSE (i + 1) - (s + 1)
    <3>1. i + 1 \in Nat /\ i + 1 < 2 * (s + 1)
      BY <1>1
    <3>. QED BY <1>2, <3>1
  <2>. QED BY <1>1, <2>1, <2>2
<1>7. Forward(f).size = IF f.size < f.sz THEN f.size + 1 ELSE f.sz
  <2>1. Forward(f).size = Min({m + 1, s})
    BY <1>1 DEF Forward, Frame
  <2>2. Min({m + 1, s}) = IF m + 1 <= s THEN m + 1 ELSE s
    BY <1>1, MinOfTwo
  <2>. QED BY <1>1, <2>1, <2>2
<1>8. Forward(f).data = f.data /\ Forward(f).sz = f.sz
  BY DEF Forward, Frame
<1>9. Forward(f) \in Frame(V)
  <2>1. Forward(f).it \in Nat /\ Forward(f).size \in Nat
    BY <1>1, <1>6, <1>7
  <2>2. PICK a, b : Forward(f) = [f EXCEPT !.it = a, !.size = b]
    BY Zenon DEF Forward
  <2>3. Forward(f).it = a /\ Forward(f).size = b
    BY ONLY <2>2, f \in Frame(V) DEF Frame
  <2>. QED BY ONLY <2>1, <2>2, <2>3, f \in Frame(V) DEF Frame
<1>. QED BY <1>3, <1>4, <1>5, <1>6, <1>7, <1>8, <1>9, Zenon

(* A write is seen where it was made, if it is inside the array.           *)
Wrote(V, f, i, v, g) ==
  /\ g \in Frame(V) /\ g.it = f.it /\ g.size = f.size /\ g.sz = f.sz
  /\ Len(g.data) = Len(f.data)
  /\ \A j \in Nat : Read(g, j) = IF j = i /\ i < Len(f.data) THEN v ELSE Read(f, j)

(* So does _data[i] = v.                                                   *)
LEMMA WriteReads ==
  ASSUME NEW V, NEW f \in Frame(V), NEW i \in Nat, NEW v \in V
  PROVE  Wrote(V, f, i, v, Write(f, i, v))
<1>1. f.data \in Seq(V) /\ Len(f.data) \in Nat
  BY DEF Frame
<1>2. CASE i < Len(f.data)
  <2>1. PICK d : d = [f.data EXCEPT ![i + 1] = v]
    OBVIOUS
  <2>2. d \in Seq(V) /\ Len(d) = Len(f.data) /\ DOMAIN d = 1 .. Len(f.data)
    BY <1>1, <1>2, <2>1
  <2>3. Write(f, i, v) = [data |-> d, it |-> f.it, size |-> f.size, sz |-> f.sz]
    BY <1>2, <2>1 DEF Write, Frame
  <2>4. ASSUME NEW j \in Nat
        PROVE  Read(Write(f, i, v), j) = IF j = i /\ i < Len(f.data) THEN v ELSE Read(f, j)
    <3>1. j < Len(f.data) => d[j + 1] = IF j = i THEN v ELSE f.data[j + 1]
      BY <1>1, <1>2, <2>1
    <3>. QED BY <1>2, <2>2, <2>3, <3>1 DEF Read
  <2>5. Write(f, i, v) \in Frame(V)
    BY <2>2, <2>3 DEF Frame
  <2>. QED BY <2>2, <2>3, <2>4, <2>5 DEF Wrote
<1>3. CASE ~(i < Len(f.data))
  BY <1>3 DEF Write, Wrote
<1>. QED BY <1>2, <1>3

(* move_fwd with what it is called for: the oldest value goes, the         *)
(* iterator moves, and the new value is written there.                     *)
Pushed(f, e, v) == Write(Write(Forward(f), LastSlot(f), e), FirstSlot(Forward(f)), v)

(* What is in the slots afterwards.                                        *)
PutAt(V, f, e, v, a, b, g) ==
  /\ g \in Frame(V) /\ g.sz = f.sz /\ Len(g.data) = Len(f.data)
  /\ g.it = Forward(f).it /\ g.size = Forward(f).size
  /\ \A j \in Nat : Read(g, j) = IF j = a THEN v ELSE IF j = b THEN e ELSE Read(f, j)

LEMMA PushReads ==
  ASSUME NEW V, NEW f \in Frame(V), NEW e \in V, NEW v \in V,
         Forward(f) \in Frame(V), Forward(f).data = f.data, Forward(f).sz = f.sz,
         NEW a \in Nat, a = FirstSlot(Forward(f)), a < Len(f.data),
         NEW b \in Nat, b = LastSlot(f), b < Len(f.data), a # b
  PROVE  PutAt(V, f, e, v, a, b, Pushed(f, e, v))
<1>1. PICK h : h = Write(Forward(f), b, e)
  OBVIOUS
<1>2. PICK g : g = Write(h, a, v)
  OBVIOUS
<1>3. g = Pushed(f, e, v)
  BY <1>1, <1>2, Zenon DEF Pushed
<1>4. Wrote(V, Forward(f), b, e, h)
  BY <1>1, WriteReads, Zenon
<1>5. Wrote(V, h, a, v, g)
  <2>1. h \in Frame(V)
    BY <1>4, Zenon DEF Wrote
  <2>. QED BY <1>2, <2>1, WriteReads, Zenon
<1>6. \A j \in Nat : Read(Forward(f), j) = Read(f, j)
  BY Zenon DEF Read
<1>7. /\ g \in Frame(V) /\ g.sz = f.sz /\ g.it = Forward(f).it /\ g.size = Forward(f).size
      /\ Len(g.data) = Len(f.data)
  BY <1>4, <1>5 DEF Wrote
<1>8. \A j \in Nat : Read(g, j) = IF j = a THEN v ELSE IF j = b THEN e ELSE Read(f, j)
  BY <1>4, <1>5, <1>6 DEF Wrote
<1>. QED BY <1>3, <1>7, <1>8, Zenon DEF PutAt

(* Every value is one further from the iterator than it was.               *)
MovedOn(V, f, e, v, g) ==
  /\ g \in Frame(V) /\ g.sz = f.sz /\ g.it <= g.sz
  /\ g.size = (IF f.size < f.sz THEN f.size + 1 ELSE f.sz)
  /\ Len(g.data) = Len(f.data)
  /\ Read(g, FromFirst(g, 0)) = v
  /\ \A k \in 0 .. f.sz - 2 : Read(g, FromFirst(g, k + 1)) = Read(f, FromFirst(f, k))
  /\ Read(g, FromFirst(g, f.sz)) = e

LEMMA PushMoves ==
  ASSUME NEW V, NEW f \in Frame(V), f.it <= f.sz, NEW e \in V, NEW v \in V,
         FirstSlot(Forward(f)) < Len(f.data), LastSlot(f) < Len(f.data)
  PROVE  MovedOn(V, f, e, v, Pushed(f, e, v))
<1>. DEFINE g == Pushed(f, e, v)
<1>1. PICK s \in Nat, i \in Nat, m \in Nat :
        s = f.sz /\ i = f.it /\ m = f.size /\ s > 0 /\ i <= s
  BY DEF Frame
<1>2. PICK a \in Nat : a = IF i < s THEN i + 1 ELSE 0
  BY <1>1
<1>3. /\ Forward(f).it = a /\ Forward(f) \in Frame(V) /\ Forward(f).data = f.data
      /\ Forward(f).sz = s /\ Forward(f).size = (IF f.size < f.sz THEN f.size + 1 ELSE f.sz)
  BY <1>1, <1>2, FrameSlots
<1>4. a <= s
  BY <1>1, <1>2
<1>5. a = FirstSlot(Forward(f))
  BY <1>3, <1>4, FrameSlots, Zenon
<1>6. PICK b \in Nat : b = IF s - 1 <= i THEN i - (s - 1) ELSE i + s + 1 - (s - 1)
  BY <1>1
<1>7. b = LastSlot(f) /\ b <= s /\ a # b
  <2>1. s - 1 \in 0 .. s
    BY <1>1
  <2>2. LastSlot(f) = IF s - 1 <= i THEN i - (s - 1) ELSE i + s + 1 - (s - 1)
    BY <1>1, <2>1, FrameSlots, Zenon
  <2>. QED BY <1>1, <1>2, <1>6, <2>2, SMTT(30)
<1>8. /\ g \in Frame(V) /\ g.sz = s /\ g.it = a /\ g.size = Forward(f).size
      /\ Len(g.data) = Len(f.data)
      /\ \A j \in Nat : Read(g, j) = IF j = a THEN v ELSE IF j = b THEN e ELSE Read(f, j)
  <2>1. a < Len(f.data) /\ b < Len(f.data) /\ Forward(f).sz = f.sz
    BY <1>1, <1>3, <1>5, <1>7, Zenon
  <2>2. PutAt(V, f, e, v, a, b, Pushed(f, e, v))
    BY <1>3, <1>5, <1>7, <2>1, PushReads, Zenon
  <2>. QED BY <1>1, <1>3, <2>2, Zenon DEF PutAt
<1>. HIDE DEF g
<1>9. \A k \in 0 .. s : FromFirst(g, k) = IF k <= a THEN a - k ELSE a + s + 1 - k
  BY <1>4, <1>8, FrameSlots, Zenon
<1>10. \A k \in 0 .. s : FromFirst(f, k) = IF k <= i THEN i - k ELSE i + s + 1 - k
  BY <1>1, FrameSlots, Zenon
<1>11. Read(g, FromFirst(g, 0)) = v
  <2>1. FromFirst(g, 0) = a
    BY <1>1, <1>4, <1>9
  <2>. QED BY <1>8, <2>1, Zenon
<1>12. Read(g, FromFirst(g, s)) = e
  <2>1. FromFirst(g, s) = IF s <= a THEN a - s ELSE a + s + 1 - s
    BY <1>1, <1>9
  <2>2. (IF s <= a THEN a - s ELSE a + s + 1 - s) = b
    BY ONLY <1>1, <1>2, <1>6, a \in Nat, b \in Nat
  <2>. QED BY <1>7, <1>8, <2>1, <2>2, Zenon
<1>13. ASSUME NEW k \in 0 .. f.sz - 2
       PROVE  Read(g, FromFirst(g, k + 1)) = Read(f, FromFirst(f, k))
  <2>1. k + 1 \in 0 .. s /\ k \in 0 .. s
    BY <1>1
  <2>2. PICK x \in Nat : x = IF k <= i THEN i - k ELSE i + s + 1 - k
    BY <1>1, <1>13
  <2>3. FromFirst(f, k) = x
    BY <1>10, <2>1, <2>2, Zenon
  <2>4. x # a /\ x # b /\ x = IF k + 1 <= a THEN a - (k + 1) ELSE a + s + 1 - (k + 1)
    BY ONLY <1>1, <1>13, <1>2, <1>6, <2>2, a \in Nat, b \in Nat
  <2>5. FromFirst(g, k + 1) = x
    BY <1>9, <2>1, <2>4, Zenon
  <2>. QED BY <1>8, <2>3, <2>4, <2>5, Zenon
<1>14. MovedOn(V, f, e, v, g)
  BY <1>1, <1>3, <1>4, <1>8, <1>11, <1>12, <1>13, Zenon DEF MovedOn
<1>. QED BY <1>14, Zenon DEF g

(* Different offsets are different slots.                                  *)
LEMMA OffsetsApart ==
  ASSUME NEW V, NEW f \in Frame(V), f.it <= f.sz, NEW k \in 0 .. f.sz, NEW l \in 0 .. f.sz
  PROVE  FromFirst(f, k) \in 0 .. f.sz /\ (FromFirst(f, k) = FromFirst(f, l) => k = l)
<1>1. PICK s \in Nat, i \in Nat : s = f.sz /\ i = f.it /\ i <= s
  BY DEF Frame
<1>2. /\ FromFirst(f, k) = IF k <= i THEN i - k ELSE i + s + 1 - k
      /\ FromFirst(f, l) = IF l <= i THEN i - l ELSE i + s + 1 - l
  BY <1>1, FrameSlots, Zenon
<1>. QED BY ONLY <1>1, <1>2, k \in 0 .. f.sz, l \in 0 .. f.sz

(* reserve on an empty frame leaves the iterator at the index before 0,    *)
(* from where it moves to 0.                                               *)
AtNothing(f) == f.it = IndexMod - 1 /\ f.size = 0 /\ \A i \in Nat : Read(f, i) = Junk

LEMMA FromNothing ==
  ASSUME NEW V, NEW f \in Frame(V), AtNothing(f)
  PROVE  /\ Forward(f) \in Frame(V) /\ Forward(f).data = f.data /\ Forward(f).sz = f.sz
         /\ Forward(f).it = 0 /\ Forward(f).size = 1
         /\ FirstSlot(Forward(f)) = 0 /\ LastSlot(f) = 1
<1>1. PICK s \in Nat, M \in Nat :
        s = f.sz /\ M = IndexMod /\ s > 0 /\ 2 * (s + 1) <= M /\ f.it = M - 1 /\ f.size = 0
  BY FramesAssumption DEF Frame, AtNothing
<1>2. Forward(f).it = 0
  <2>1. Forward(f).it = (((M - 1) + 1) % M) % (s + 1)
    BY <1>1 DEF Forward, Slots, Frame
  <2>2. ((M - 1) + 1) % M = 0
    <3>1. (M - 1) + 1 = M
      BY <1>1
    <3>2. M % M = 0
      BY <1>1, SmallRemainder
    <3>. QED BY <3>1, <3>2, Zenon
  <2>3. 0 % (s + 1) = 0
    BY <1>1, SmallRemainder
  <2>. QED BY <2>1, <2>2, <2>3
<1>3. Forward(f).size = 1
  <2>1. Forward(f).size = Min({1, s})
    BY <1>1 DEF Forward, Frame
  <2>. QED BY <1>1, <2>1, MinOfTwo
<1>4. Forward(f).data = f.data /\ Forward(f).sz = f.sz
  BY DEF Forward, Frame
<1>5. Forward(f) \in Frame(V)
  <2>1. PICK a, b : Forward(f) = [f EXCEPT !.it = a, !.size = b]
    BY Zenon DEF Forward
  <2>2. Forward(f).it = a /\ Forward(f).size = b
    BY ONLY <2>1, f \in Frame(V) DEF Frame
  <2>3. Forward(f).it \in Nat /\ Forward(f).size \in Nat
    BY <1>2, <1>3
  <2>. QED BY ONLY <2>1, <2>2, <2>3, f \in Frame(V) DEF Frame
<1>6. FirstSlot(Forward(f)) = 0
  <2>1. 0 <= Forward(f).sz
    BY <1>1, <1>4
  <2>. QED BY <1>2, <1>5, <2>1, FrameSlots
<1>7. LastSlot(f) = 1
  <2>1. LastSlot(f) = (((M - 1) + (s + 1) - s + 1) % M) % (s + 1)
    BY <1>1, Zenon DEF LastSlot, Slot, Slots
  <2>2. (M - 1) + (s + 1) - s + 1 = M + 1
    BY <1>1
  <2>3. (M + 1) % M = 1
    <3>1. M + 1 \in Nat /\ M + 1 < 2 * M /\ ~(M + 1 < M) /\ (M + 1) - M = 1 /\ M > 0
      BY <1>1
    <3>. QED BY <3>1, SmallRemainder, Zenon
  <2>4. 1 % (s + 1) = 1
    <3>1. s + 1 \in Nat /\ s + 1 > 0 /\ 1 < 2 * (s + 1) /\ 1 < s + 1
      BY <1>1
    <3>. QED BY <3>1, SmallRemainder
  <2>. QED BY <2>1, <2>2, <2>3, <2>4
<1>. QED BY <1>2, <1>3, <1>4, <1>5, <1>6, <1>7, Zenon

(* Where a step forward leads.                                             *)
LEMMA ForwardFrom ==
  ASSUME NEW V, NEW f \in Frame(V), f.it <= f.sz \/ AtNothing(f)
  PROVE  /\ Forward(f) \in Frame(V) /\ Forward(f).data = f.data /\ Forward(f).sz = f.sz
         /\ Forward(f).it <= f.sz
         /\ Forward(f).size = (IF f.size < f.sz THEN f.size + 1 ELSE f.sz)
         /\ FirstSlot(Forward(f)) \in 0 .. f.sz /\ LastSlot(f) \in 0 .. f.sz
         /\ FirstSlot(Forward(f)) # LastSlot(f)
<1>1. PICK s \in Nat, i \in Nat, m \in Nat :
        s = f.sz /\ i = f.it /\ m = f.size /\ s > 0
  BY DEF Frame
<1>2. CASE i <= s
  <2>1. /\ Forward(f).it = IF i < s THEN i + 1 ELSE 0
        /\ Forward(f) \in Frame(V) /\ Forward(f).data = f.data /\ Forward(f).sz = f.sz
        /\ Forward(f).size = (IF f.size < f.sz THEN f.size + 1 ELSE f.sz)
        /\ LastSlot(f) = FromFirst(f, s - 1)
    BY <1>1, <1>2, FrameSlots, Zenon
  <2>2. Forward(f).it <= s
    BY ONLY s \in Nat, i \in Nat, <1>2, <2>1
  <2>3. FirstSlot(Forward(f)) = Forward(f).it
    BY <1>1, <2>1, <2>2, FrameSlots, Zenon
  <2>4. s - 1 \in 0 .. s
    BY <1>1
  <2>5. FromFirst(f, s - 1) = IF s - 1 <= i THEN i - (s - 1) ELSE i + s + 1 - (s - 1)
    BY <1>1, <1>2, <2>4, FrameSlots, Zenon
  <2>6. /\ FirstSlot(Forward(f)) \in 0 .. s /\ LastSlot(f) \in 0 .. s
        /\ FirstSlot(Forward(f)) # LastSlot(f)
    <3>1. PICK a \in Nat : a = IF i < s THEN i + 1 ELSE 0
      OBVIOUS
    <3>2. PICK b \in Nat : b = IF s - 1 <= i THEN i - (s - 1) ELSE i + s + 1 - (s - 1)
      BY <1>1
    <3>3. a \in 0 .. s /\ b \in 0 .. s /\ a # b
      BY ONLY s \in Nat, i \in Nat, <1>1, <1>2, a \in Nat, b \in Nat, <3>1, <3>2
    <3>4. a = FirstSlot(Forward(f)) /\ b = LastSlot(f)
      BY <2>1, <2>3, <2>5, <3>1, <3>2, Zenon
    <3>. QED BY <3>3, <3>4, Zenon
  <2>. QED BY <1>1, <2>1, <2>2, <2>6, Zenon
<1>3. CASE AtNothing(f)
  <2>1. f.size = 0
    BY <1>3, Zenon DEF AtNothing
  <2>. QED BY <1>1, <1>3, <2>1, FromNothing
<1>. QED BY <1>1, <1>2, <1>3, Zenon

(* What a frame holds: no value twice, and none that was not pushed.       *)
Distinct(f, p) ==
  /\ \A i \in 0 .. f.sz : Read(f, i) \in 0 .. p
  /\ \A i, j \in 0 .. f.sz : Read(f, i) = Read(f, j) /\ Read(f, i) # Junk => i = j

(* What it counts as its size are the values of w, and none is e.          *)
Shows(f, w, e) ==
  \A k \in 0 .. f.size - 1 :
    /\ Read(f, FromFirst(f, k)) = w[k + 1]
    /\ w[k + 1] # Junk /\ w[k + 1] # e

FrameTypes ==
  /\ frame \in [static : BOOLEAN, f : Frame(Nat)]
  /\ frame.f.size <= frame.f.sz /\ Len(window) <= frame.f.sz
  /\ frame.f.it <= frame.f.sz \/ (AtNothing(frame.f) /\ window = <<>>)
  /\ frame.static => Len(frame.f.data) = frame.f.sz + 1
  /\ window \in Seq(Nat) /\ pushes \in Nat /\ back \in BOOLEAN /\ outside \in BOOLEAN

FrameInv ==
  /\ FrameTypes
  /\ frame.f.size <= Len(window) /\ (~back => frame.f.size = Len(window))
  /\ outside => ~frame.static
  /\ ~outside =>
       /\ Shows(frame.f, window, evicted)
       /\ Distinct(frame.f, pushes)

(* The newest value in front, and as many as fit.                          *)
Newest(u, w, v, n) ==
  /\ u \in Seq(Nat) /\ Len(u) = (IF Len(w) < n THEN Len(w) + 1 ELSE n)
  /\ u[1] = v /\ \A i \in 1 .. Len(u) - 1 : u[i + 1] = w[i]

LEMMA WindowMoves ==
  ASSUME NEW w \in Seq(Nat), NEW v \in Nat, NEW n \in Nat, n > 0, Len(w) <= n
  PROVE  Newest(SubSeq(<<v>> \o w, 1, Min({Len(w) + 1, n})), w, v, n)
<1>. DEFINE u == SubSeq(<<v>> \o w, 1, Min({Len(w) + 1, n}))
<1>1. PICK m \in Nat : m = Len(w)
  OBVIOUS
<1>2. PICK l \in Nat : l = (IF m < n THEN m + 1 ELSE n) /\ l = Min({m + 1, n})
  <2>1. m + 1 \in Int /\ n \in Int
    BY <1>1
  <2>2. Min({m + 1, n}) = IF m + 1 <= n THEN m + 1 ELSE n
    BY <2>1, MinOfTwo
  <2>. QED BY ONLY <2>2, m \in Nat, n \in Nat
<1>3. PICK x \in Seq(Nat) : x = <<v>> \o w
  <2>1. <<v>> \in Seq(Nat)
    OBVIOUS
  <2>. QED BY <2>1, ConcatProperties
<1>4. Len(x) = m + 1 /\ x[1] = v /\ \A i \in 1 .. m : x[i + 1] = w[i]
  BY <1>1, <1>3
<1>5. l \in 1 .. m + 1 /\ l - 1 <= m
  BY <1>1, <1>2
<1>6. u = SubSeq(x, 1, l)
  BY <1>1, <1>2, <1>3, Zenon
<1>. HIDE DEF u
<1>7. u \in Seq(Nat) /\ Len(u) = l /\ \A i \in 1 .. l : u[i] = x[i]
  BY ONLY <1>4, <1>5, <1>6, x \in Seq(Nat), l \in Nat, m \in Nat
<1>8. ASSUME NEW i \in 1 .. l - 1 PROVE u[i + 1] = w[i]
  <2>1. i \in 1 .. m /\ i + 1 \in 1 .. l
    BY <1>5, <1>8
  <2>. QED BY <1>4, <1>7, <2>1, Zenon
<1>9. u[1] = v
  <2>1. 1 \in 1 .. l
    BY <1>5
  <2>. QED BY <1>4, <1>7, <2>1, Zenon
<1>. QED BY <1>1, <1>2, <1>7, <1>8, <1>9, Zenon DEF Newest, u

(* A frame of n values in m slots, all of them v.                          *)
Unused(V, f, n, m, v) ==
  /\ f \in Frame(V) /\ f.it = 0 /\ f.size = 0 /\ f.sz = n /\ Len(f.data) = m
  /\ \A i \in Nat : i < m => Read(f, i) = v

LEMMA NewFrameIs ==
  ASSUME NEW n \in Nat, n > 0, 2 * (n + 1) <= IndexMod, NEW m \in Nat, NEW V, NEW v \in V
  PROVE  Unused(V, NewFrame(n, m, v), n, m, v)
<1>1. PICK d : d = [i \in 1 .. m |-> v]
  OBVIOUS
<1>2. d \in Seq(V) /\ Len(d) = m /\ \A i \in 1 .. m : d[i] = v
  BY <1>1
<1>3. NewFrame(n, m, v) = [data |-> d, it |-> 0, size |-> 0, sz |-> n]
  BY <1>1, Zenon DEF NewFrame
<1>. QED BY <1>2, <1>3 DEF Frame, Read, Unused

LEMMA FrameInvInit == FramesInit => FrameInv
<1>. SUFFICES ASSUME FramesInit PROVE FrameInv
  OBVIOUS
<1>1. PICK n \in FrameSizes, static \in BOOLEAN :
        frame = [static |-> static, f |-> NewFrame(n, IF static THEN n + 1 ELSE n, Junk)]
  BY DEF FramesInit
<1>2. n \in Nat /\ n > 0 /\ 2 * (n + 1) <= IndexMod
  BY FramesAssumption
<1>3. PICK m \in Nat : m = IF static THEN n + 1 ELSE n
  BY <1>2
<1>4. PICK f : f = NewFrame(n, m, Junk)
  OBVIOUS
<1>5. Junk \in Nat
  BY DEF Junk
<1>6. /\ f \in Frame(Nat) /\ f.it = 0 /\ f.size = 0 /\ f.sz = n /\ Len(f.data) = m
      /\ \A i \in Nat : i < m => Read(f, i) = Junk
  <2>1. Unused(Nat, f, n, m, Junk)
    BY <1>2, <1>4, <1>5, NewFrameIs, Zenon
  <2>. QED BY <2>1, Zenon DEF Unused
<1>7. \A i \in Nat : Read(f, i) = Junk
  BY <1>6 DEF Read
<1>8. frame.f = f /\ frame.static = static /\ frame \in [static : BOOLEAN, f : Frame(Nat)]
  BY <1>1, <1>3, <1>4, <1>6
<1>9. window = <<>> /\ back = FALSE /\ outside = FALSE /\ pushes = 0
  BY DEF FramesInit
<1>10. FrameTypes
  <2>1. f.it <= f.sz /\ f.size <= f.sz /\ Len(window) <= f.sz
    BY <1>2, <1>6, <1>9
  <2>2. static => Len(f.data) = f.sz + 1
    BY <1>3, <1>6
  <2>3. window \in Seq(Nat) /\ pushes \in Nat /\ back \in BOOLEAN /\ outside \in BOOLEAN
    <3>1. window \in Seq(Nat) /\ pushes \in Nat
      BY <1>9
    <3>. QED BY <1>9, <3>1, Zenon
  <2>. QED BY <1>8, <2>1, <2>2, <2>3, Zenon DEF FrameTypes
<1>11. Shows(f, window, evicted) /\ Distinct(f, pushes)
  BY <1>2, <1>6, <1>7, <1>9 DEF Shows, Distinct, Junk
<1>. QED BY <1>6, <1>8, <1>9, <1>10, <1>11 DEF FrameInv

(* move_fwd: the newest value is shown first, the others move on, and the  *)
(* one that goes was shown last or not at all.                             *)
LEMMA MoveFwdKeeps ==
  ASSUME FrameInv, MoveFwd
  PROVE  FrameInv'
<1>1. PICK f \in Frame(Nat) : f = frame.f
  BY DEF FrameInv, FrameTypes
<1>2. PICK s \in Nat, m \in Nat, p \in Nat, l \in Nat :
        /\ s = f.sz /\ m = f.size /\ p = pushes /\ l = Len(window)
        /\ s > 0 /\ m <= s /\ l <= s
  <2>1. Len(window) \in Nat /\ pushes \in Nat
    BY DEF FrameInv, FrameTypes
  <2>2. f.sz \in Nat /\ f.size \in Nat /\ f.sz > 0
    BY DEF Frame
  <2>3. f.size <= f.sz /\ Len(window) <= f.sz
    BY <1>1, Zenon DEF FrameInv, FrameTypes
  <2>. QED BY <2>1, <2>2, <2>3
<1>3. f.it <= f.sz \/ AtNothing(f)
  BY <1>1, Zenon DEF FrameInv, FrameTypes
<1>4. PICK a \in 0 .. s, b \in 0 .. s : a = FirstSlot(Forward(f)) /\ b = LastSlot(f) /\ a # b
  BY <1>2, <1>3, ForwardFrom, Zenon
<1>5. /\ Forward(f) \in Frame(Nat) /\ Forward(f).data = f.data /\ Forward(f).sz = f.sz
      /\ Forward(f).it <= s /\ Forward(f).size = (IF m < s THEN m + 1 ELSE s)
  BY <1>2, <1>3, ForwardFrom, Zenon
<1>6. PICK g : g = Pushed(f, Junk, p + 1)
  OBVIOUS
<1>7. /\ frame' = [frame EXCEPT !.f = g] /\ pushes' = p + 1 /\ back' = back
      /\ evicted' = Read(f, b)
      /\ outside' = (outside \/ {a, b} \cap Len(f.data) .. f.sz # {})
      /\ window' = SubSeq(<<p + 1>> \o window, 1, Min({Len(window) + 1, s}))
  BY <1>1, <1>2, <1>4, <1>6, Zenon DEF MoveFwd, Pushed
<1>8. frame'.f = g /\ frame'.static = frame.static
  BY <1>7 DEF FrameInv, FrameTypes
<1>9. a \in Nat /\ b \in Nat /\ Junk \in Nat /\ p + 1 \in Nat
  BY <1>2, <1>4 DEF Junk
<1>10. /\ g \in Frame(Nat) /\ g.sz = s /\ g.it <= s /\ Len(g.data) = Len(f.data)
       /\ g.size = (IF m < s THEN m + 1 ELSE s)
  <2>1. PICK h : h = Write(Forward(f), b, Junk)
    OBVIOUS
  <2>2. Wrote(Nat, Forward(f), b, Junk, h)
    BY <1>5, <1>9, <2>1, WriteReads, Zenon
  <2>3. h \in Frame(Nat)
    BY <2>2, Zenon DEF Wrote
  <2>4. g = Write(h, a, p + 1)
    BY <1>4, <1>6, <2>1, Zenon DEF Pushed
  <2>5. Wrote(Nat, h, a, p + 1, g)
    BY <1>9, <2>3, <2>4, WriteReads, Zenon
  <2>. QED BY <1>2, <1>5, <2>2, <2>5 DEF Wrote
<1>11. /\ window' \in Seq(Nat) /\ Len(window') = (IF l < s THEN l + 1 ELSE s)
       /\ window'[1] = p + 1 /\ \A i \in 1 .. Len(window') - 1 : window'[i + 1] = window[i]
  <2>1. window \in Seq(Nat)
    BY DEF FrameInv, FrameTypes
  <2>2. Len(window) <= s /\ s > 0
    BY <1>2, Zenon
  <2>3. Newest(window', window, p + 1, s)
    BY <1>7, <1>9, <2>1, <2>2, WindowMoves, Zenon
  <2>. QED BY <1>2, <2>3, Zenon DEF Newest
<1>12. FrameTypes'
  <2>1. frame' \in [static : BOOLEAN, f : Frame(Nat)]
    BY <1>7, <1>10 DEF FrameInv, FrameTypes
  <2>2. /\ g.size <= g.sz /\ Len(window') <= g.sz /\ g.it <= g.sz
        /\ frame.static => Len(g.data) = g.sz + 1
    <3>1. frame.static => Len(f.data) = f.sz + 1
      BY <1>1, Zenon DEF FrameInv, FrameTypes
    <3>. QED BY <1>2, <1>10, <1>11, <3>1, SMTT(30)
  <2>3. back' \in BOOLEAN /\ outside' \in BOOLEAN
    BY <1>7, Zenon DEF FrameInv, FrameTypes
  <2>. QED BY <1>7, <1>8, <1>9, <1>11, <2>1, <2>2, <2>3, Zenon DEF FrameTypes
<1>13. outside' => ~frame'.static
  <2>1. frame.static => Len(f.data) .. f.sz = {}
    BY <1>1, <1>2 DEF FrameInv, FrameTypes
  <2>2. frame.static => ~outside
    BY Zenon DEF FrameInv
  <2>. QED BY <1>7, <1>8, <2>1, <2>2
<1>16. m <= l /\ (~back => m = l)
  BY <1>1, <1>2, Zenon DEF FrameInv
<1>15. PICK z \in Nat, n \in Nat :
        /\ z = g.size /\ n = Len(window') /\ z <= n /\ z <= s /\ z <= m + 1
        /\ m = l => z = n
  <2>1. PICK z \in Nat : z = IF m < s THEN m + 1 ELSE s
    BY <1>2
  <2>2. PICK n \in Nat : n = IF l < s THEN l + 1 ELSE s
    BY <1>2
  <2>3. z <= n /\ z <= s /\ z <= m + 1 /\ (m = l => z = n)
    BY ONLY <2>1, <2>2, z \in Nat, n \in Nat, m \in Nat, l \in Nat, s \in Nat, <1>2, <1>16
  <2>. QED BY <1>10, <1>11, <2>1, <2>2, <2>3, Zenon
<1>14. ASSUME ~outside'
       PROVE  Shows(g, window', evicted') /\ Distinct(g, pushes')
  <2>1. ~outside /\ a < Len(f.data) /\ b < Len(f.data)
    <3>1. ~outside /\ {a, b} \cap Len(f.data) .. f.sz = {}
      BY <1>7, <1>14
    <3>2. Len(f.data) \in Nat
      BY DEF Frame
    <3>. QED BY <1>2, <1>4, <3>1, <3>2
  <2>2. Shows(f, window, evicted) /\ Distinct(f, p)
    BY <1>1, <1>2, <2>1, Zenon DEF FrameInv
  <2>10. PutAt(Nat, f, Junk, p + 1, a, b, g)
    BY <1>4, <1>5, <1>6, <1>9, <2>1, PushReads, Zenon
  <2>4. \A j \in Nat : Read(g, j) = IF j = a THEN p + 1 ELSE IF j = b THEN Junk ELSE Read(f, j)
    BY <2>10, Zenon DEF PutAt
  <2>5. \A j \in 0 .. s : Read(f, j) \in Nat /\ Read(f, j) <= p
    BY <1>2, <2>2 DEF Distinct
  <2>6. Distinct(g, pushes')
    <3>1. ASSUME NEW i \in 0 .. s PROVE Read(g, i) \in 0 .. p + 1
      <4>1. Read(g, i) = IF i = a THEN p + 1 ELSE IF i = b THEN Junk ELSE Read(f, i)
        BY <2>4
      <4>2. Read(f, i) \in 0 .. p + 1
        BY <1>2, <2>5
      <4>3. p + 1 \in 0 .. p + 1 /\ Junk \in 0 .. p + 1
        BY <1>2 DEF Junk
      <4>. QED BY <4>1, <4>2, <4>3, Zenon
    <3>2. ASSUME NEW i \in 0 .. s, NEW j \in 0 .. s, Read(g, i) = Read(g, j), Read(g, i) # Junk
          PROVE  i = j
      <4>1. i \in Nat /\ j \in Nat
        OBVIOUS
      <4>2. /\ Read(g, i) = IF i = a THEN p + 1 ELSE IF i = b THEN Junk ELSE Read(f, i)
            /\ Read(g, j) = IF j = a THEN p + 1 ELSE IF j = b THEN Junk ELSE Read(f, j)
        BY <2>4, <4>1, Zenon
      <4>3. Read(f, i) # p + 1 /\ Read(f, j) # p + 1
        BY <1>2, <2>5, SMTT(30)
      <4>4. Read(f, i) = Read(f, j) /\ Read(f, i) # Junk => i = j
        BY <1>2, <2>2, Zenon DEF Distinct
      <4>. QED BY <3>2, <4>2, <4>3, <4>4, Zenon
    <3>. QED BY <1>7, <1>10, <3>1, <3>2, Zenon DEF Distinct
  <2>7. Shows(g, window', evicted')
    <3>1. ASSUME NEW k \in 0 .. g.size - 1, k = 0
          PROVE  /\ Read(g, FromFirst(g, k)) = window'[k + 1]
                 /\ window'[k + 1] # Junk /\ window'[k + 1] # evicted'
      <4>1. FromFirst(g, 0) = a
        <5>1. 0 \in 0 .. g.sz /\ 0 <= g.it
          BY <1>2, <1>10 DEF Frame
        <5>2. FromFirst(g, 0) = g.it - 0
          BY <1>10, <5>1, FrameSlots
        <5>3. FirstSlot(Forward(f)) = Forward(f).it
          BY <1>2, <1>5, FrameSlots, Zenon
        <5>4. g.it = Forward(f).it
          BY <2>10, Zenon DEF PutAt
        <5>. QED BY <1>4, <1>9, <5>2, <5>3, <5>4
      <4>2. Read(g, a) = p + 1
        BY <1>9, <2>4
      <4>3. Read(f, b) # p + 1
        BY <1>2, <1>4, <2>5
      <4>. QED BY <1>2, <1>7, <1>11, <3>1, <4>1, <4>2, <4>3 DEF Junk
    <3>2. ASSUME NEW k \in 0 .. g.size - 1, k # 0
          PROVE  /\ Read(g, FromFirst(g, k)) = window'[k + 1]
                 /\ window'[k + 1] # Junk /\ window'[k + 1] # evicted'
      <4>1. PICK j \in Nat : k = j + 1 /\ j <= s - 2 /\ j < m
        <5>1. k - 1 \in Nat /\ k - 1 <= s - 2 /\ k - 1 < m /\ k = (k - 1) + 1
          BY <1>2, <1>10, <3>2, SMTT(30)
        <5>. QED BY <5>1
      <4>2. f.it <= f.sz
        BY <1>2, <1>3, <4>1 DEF AtNothing
      <4>3. Read(g, FromFirst(g, j + 1)) = Read(f, FromFirst(f, j))
        <5>1. j \in 0 .. f.sz - 2
          BY <1>2, <4>1
        <5>2. FirstSlot(Forward(f)) < Len(f.data) /\ LastSlot(f) < Len(f.data)
          BY <1>4, <2>1, Zenon
        <5>3. MovedOn(Nat, f, Junk, p + 1, g)
          BY <1>6, <1>9, <4>2, <5>2, PushMoves, Zenon
        <5>. QED BY <5>1, <5>3, Zenon DEF MovedOn
      <4>4. /\ Read(f, FromFirst(f, j)) = window[j + 1] /\ window[j + 1] # Junk
        <5>1. j \in 0 .. f.size - 1
          BY <1>2, <4>1
        <5>. QED BY <2>2, <5>1, Zenon DEF Shows
      <4>5. window'[k + 1] = window[j + 1]
        <5>1. j + 1 \in 1 .. Len(window') - 1
          BY <1>15, <3>2, <4>1
        <5>. QED BY <1>11, <4>1, <5>1, Zenon
      <4>6. Read(f, b) # window[j + 1]
        <5>1. j \in 0 .. f.sz /\ s - 1 \in 0 .. f.sz /\ j # s - 1
          BY <1>2, <4>1
        <5>2. b = FromFirst(f, s - 1)
          BY <1>2, <1>4, <4>2, FrameSlots, Zenon
        <5>3. b # FromFirst(f, j) /\ FromFirst(f, j) \in 0 .. f.sz
          BY <4>2, <5>1, <5>2, OffsetsApart, Zenon
        <5>. QED BY <1>2, <2>2, <4>4, <5>3, Zenon DEF Distinct
      <4>. QED BY <1>7, <4>1, <4>3, <4>4, <4>5, <4>6, Zenon
    <3>. QED BY <3>1, <3>2, Zenon DEF Shows
  <2>. QED BY <2>6, <2>7, Zenon
<1>. QED BY <1>2, <1>7, <1>8, <1>12, <1>13, <1>14, <1>15, <1>16, Zenon DEF FrameInv

(* What a frame shows before and after its window is cut to size or the    *)
(* iterator is moved: the slots are as they were.                          *)
LEMMA ReadKept ==
  ASSUME NEW f, NEW g, g.data = f.data
  PROVE  \A i : Read(g, i) = Read(f, i)
BY Zenon DEF Read

(* The frame and the numbers it is about.                                  *)
LEMMA FrameFacts ==
  ASSUME FrameInv
  PROVE  /\ frame.f \in Frame(Nat) /\ frame = [static |-> frame.static, f |-> frame.f]
         /\ frame.f.it \in Nat /\ frame.f.size \in Nat /\ frame.f.sz \in Nat
         /\ frame.f.sz > 0 /\ 2 * (frame.f.sz + 1) <= IndexMod
         /\ frame.f.size <= frame.f.sz
         /\ window \in Seq(Nat) /\ Len(window) \in Nat /\ Len(window) <= frame.f.sz
         /\ frame.f.size <= Len(window) /\ pushes \in Nat /\ IndexMod \in Nat
<1>1. frame \in [static : BOOLEAN, f : Frame(Nat)] /\ window \in Seq(Nat) /\ pushes \in Nat
  BY Zenon DEF FrameInv, FrameTypes
<1>2. frame.f \in Frame(Nat) /\ frame = [static |-> frame.static, f |-> frame.f]
  BY <1>1
<1>3. /\ frame.f.it \in Nat /\ frame.f.size \in Nat /\ frame.f.sz \in Nat
      /\ frame.f.sz > 0 /\ 2 * (frame.f.sz + 1) <= IndexMod
  BY <1>2 DEF Frame
<1>4. frame.f.size <= frame.f.sz /\ Len(window) <= frame.f.sz /\ frame.f.size <= Len(window)
  BY Zenon DEF FrameInv, FrameTypes
<1>5. Len(window) \in Nat
  BY <1>1, LenProperties, Zenon
<1>6. IndexMod \in Nat
  BY FramesAssumption
<1>. QED BY <1>1, <1>2, <1>3, <1>4, <1>5, <1>6, Zenon

(* A remainder is a natural number, and smaller than the divisor.          *)
LEMMA RemainderIs ==
  ASSUME NEW x \in Int, NEW n \in Nat, n > 0
  PROVE  x % n \in Nat /\ x % n < n /\ (x = -1 => x % n = n - 1)
<1>1. PICK q \in Int, r \in Int : r = x % n /\ 0 <= r /\ r < n /\ x = n * q + r
  OBVIOUS
<1>2. PICK y \in Int : y = n * q
  OBVIOUS
<1>3. x = y + r /\ 0 <= r /\ r < n
  BY <1>1, <1>2
<1>4. ASSUME x = -1 PROVE r = n - 1
  <2>1. q >= -1
    <3>. SUFFICES ASSUME q <= -2 PROVE FALSE
      OBVIOUS
    <3>1. y <= -(2 * n)
      BY <1>2
    <3>. QED BY ONLY <1>3, <1>4, <3>1, y \in Int, r \in Int, n \in Nat
  <2>2. q <= -1
    <3>. SUFFICES ASSUME q >= 0 PROVE FALSE
      OBVIOUS
    <3>1. y >= 0
      BY <1>2
    <3>. QED BY ONLY <1>3, <1>4, <3>1, y \in Int, r \in Int, n \in Nat
  <2>3. q = -1
    BY <2>1, <2>2
  <2>4. y = -n
    BY <1>2, <2>3
  <2>. QED BY <1>3, <1>4, <2>4
<1>. QED BY <1>1, <1>4

(* move_bck forgets the rest of the frame.                                 *)
LEMMA MoveBckKeeps ==
  ASSUME FrameInv, MoveBck
  PROVE  FrameInv'
<1>1. PICK f \in Frame(Nat) : f = frame.f
  BY FrameFacts, Zenon
<1>2. PICK s \in Nat : s = f.sz /\ s > 0 /\ Len(window) <= s
  BY <1>1, FrameFacts, Zenon
<1>3. f.it <= f.sz
  BY <1>1, Zenon DEF FrameInv, FrameTypes, MoveBck
<1>4. PICK a \in 0 .. s : a = FromFirst(f, 1)
  <2>1. 1 \in 0 .. f.sz
    BY <1>2
  <2>. QED BY <1>2, <1>3, <2>1, OffsetsApart, Zenon
<1>5. BackSize(f) = 0
  <2>1. PICK x \in Nat : x = (f.size - 1) % IndexMod
    <3>1. f.size - 1 \in Int /\ IndexMod \in Nat /\ IndexMod > 0
      BY FramesAssumption DEF Frame
    <3>. QED BY <3>1, RemainderIs
  <2>2. Min({x, 0}) = 0
    BY MinOfTwo
  <2>. QED BY <2>1, <2>2, Zenon DEF BackSize
<1>6. PICK g \in Frame(Nat) : g = [f EXCEPT !.it = a, !.size = 0]
  <2>1. a \in Nat
    BY <1>2
  <2>. QED BY <2>1 DEF Frame
<1>7. g.it = a /\ g.size = 0 /\ g.sz = s /\ g.data = f.data
  BY <1>2, <1>6 DEF Frame
<1>8. frame' = [frame EXCEPT !.f = g]
  <2>1. ((f.it + Slots(f) - 1) % IndexMod) % Slots(f) = a
    BY <1>4, Zenon DEF FromFirst, Slot
  <2>2. frame' = [frame EXCEPT !.f.it = ((@ + Slots(f) - 1) % IndexMod) % Slots(f),
                               !.f.size = BackSize(f)]
    BY <1>1, Zenon DEF MoveBck
  <2>3. frame' = [frame EXCEPT !.f = [f EXCEPT !.it = ((@ + Slots(f) - 1) % IndexMod) % Slots(f),
                                               !.size = BackSize(f)]]
    <3>. HIDE DEF Slots, BackSize
    <3>. QED BY <1>1, <2>2, FrameFacts DEF Frame
  <2>. QED BY <1>5, <1>6, <2>1, <2>3 DEF Frame
<1>9. frame'.f = g /\ frame'.static = frame.static /\ frame' \in [static : BOOLEAN, f : Frame(Nat)]
  BY <1>8 DEF FrameInv, FrameTypes
<1>10. window' = Tail(window) /\ back' = TRUE /\ UNCHANGED <<outside, evicted, pushes>>
  BY Zenon DEF MoveBck
<1>11. window' \in Seq(Nat) /\ Len(window') \in Nat /\ Len(window') <= s
  <2>1. window \in Seq(Nat) /\ window # <<>>
    BY Zenon DEF FrameInv, FrameTypes, MoveBck
  <2>. QED BY <1>2, <1>10, <2>1
<1>12. FrameTypes'
  <2>1. /\ g.size <= g.sz /\ Len(window') <= g.sz /\ g.it <= g.sz
        /\ frame.static => Len(g.data) = g.sz + 1
    <3>1. frame.static => Len(f.data) = f.sz + 1
      BY <1>1, Zenon DEF FrameInv, FrameTypes
    <3>. QED BY <1>2, <1>7, <1>11, <3>1
  <2>. QED BY <1>9, <1>10, <1>11, <2>1, Zenon DEF FrameTypes, FrameInv
<1>13. g.size <= Len(window')
  BY <1>7, <1>11
<1>14. ~outside => Shows(g, window', evicted) /\ Distinct(g, pushes)
  <2>1. Shows(g, window', evicted)
    BY <1>7 DEF Shows
  <2>2. ~outside => Distinct(f, pushes)
    BY <1>1, Zenon DEF FrameInv
  <2>3. \A i : Read(g, i) = Read(f, i)
    BY <1>7, ReadKept, Zenon
  <2>. QED BY <1>2, <1>7, <2>1, <2>2, <2>3, Zenon DEF Distinct
<1>. QED BY <1>9, <1>10, <1>12, <1>13, <1>14, Zenon DEF FrameInv

(* pop_back: the value that goes is not one of those that stay.            *)
LEMMA PopBackKeeps ==
  ASSUME FrameInv, PopBack
  PROVE  FrameInv'
<1>1. PICK f \in Frame(Nat) : f = frame.f
  BY FrameFacts, Zenon
<1>2. PICK s \in Nat, m \in Nat :
        s = f.sz /\ m = f.size /\ s > 0 /\ m > 0 /\ m <= s /\ m <= Len(window) /\ m - 1 \in Nat
  <2>1. f.size > 0
    BY <1>1, Zenon DEF PopBack
  <2>. QED BY <1>1, <2>1, FrameFacts
<1>3. f.it <= f.sz
  BY <1>1, <1>2 DEF FrameInv, FrameTypes, AtNothing
<1>4. PICK g \in Frame(Nat) : g = [f EXCEPT !.size = m - 1]
  BY <1>2 DEF Frame
<1>5. g.it = f.it /\ g.size = m - 1 /\ g.sz = s /\ g.data = f.data
  BY <1>2, <1>4 DEF Frame
<1>6. frame' = [frame EXCEPT !.f = g]
  <2>1. frame' = [frame EXCEPT !.f.size = @ - 1]
    BY Zenon DEF PopBack
  <2>. QED BY <1>1, <1>2, <1>4, <2>1, FrameFacts DEF Frame
<1>7. frame'.f = g /\ frame'.static = frame.static /\ frame' \in [static : BOOLEAN, f : Frame(Nat)]
  BY <1>6 DEF FrameInv, FrameTypes
<1>8. /\ window' = SubSeq(window, 1, m - 1) /\ UNCHANGED <<back, outside, pushes>>
      /\ evicted' = Read(f, FromFirst(f, m - 1)) /\ frame.static
  BY <1>1, <1>2, Zenon DEF PopBack
<1>9. /\ window' \in Seq(Nat) /\ Len(window') = m - 1
      /\ \A i \in 1 .. m - 1 : window'[i] = window[i]
  <2>1. window \in Seq(Nat) /\ Len(window) \in Nat
    BY FrameFacts, Zenon
  <2>. QED BY ONLY <1>2, <1>8, <2>1, m \in Nat
<1>10. FrameTypes'
  <2>1. /\ g.size <= g.sz /\ Len(window') <= g.sz /\ g.it <= g.sz
        /\ frame.static => Len(g.data) = g.sz + 1
    <3>1. frame.static => Len(f.data) = f.sz + 1
      BY <1>1, Zenon DEF FrameInv, FrameTypes
    <3>. QED BY <1>2, <1>3, <1>5, <1>9, <3>1
  <2>. QED BY <1>7, <1>8, <1>9, <2>1, Zenon DEF FrameTypes, FrameInv
<1>11. ~outside
  BY <1>8, Zenon DEF FrameInv
<1>12. Shows(f, window, evicted) /\ Distinct(f, pushes)
  BY <1>1, <1>11, Zenon DEF FrameInv
<1>13. \A i : Read(g, i) = Read(f, i)
  BY <1>5, ReadKept, Zenon
<1>14. Distinct(g, pushes)
  BY <1>2, <1>5, <1>12, <1>13, Zenon DEF Distinct
<1>15. ASSUME NEW k \in 0 .. g.size - 1
       PROVE  /\ Read(g, FromFirst(g, k)) = window'[k + 1]
              /\ window'[k + 1] # Junk /\ window'[k + 1] # evicted'
  <2>1. /\ k \in 0 .. f.size - 1 /\ m - 1 \in 0 .. f.size - 1 /\ k # m - 1
        /\ k \in 0 .. f.sz /\ m - 1 \in 0 .. f.sz /\ k + 1 \in 1 .. m - 1
    BY <1>2, <1>5
  <2>2. FromFirst(g, k) = FromFirst(f, k)
    BY <1>2, <1>5, Zenon DEF FromFirst, Slot, Slots
  <2>3. Read(f, FromFirst(f, k)) = window[k + 1] /\ window[k + 1] # Junk
    BY <1>12, <2>1, Zenon DEF Shows
  <2>4. /\ FromFirst(f, k) # FromFirst(f, m - 1)
        /\ FromFirst(f, k) \in 0 .. f.sz /\ FromFirst(f, m - 1) \in 0 .. f.sz
    BY <1>3, <2>1, OffsetsApart, Zenon
  <2>5. Read(f, FromFirst(f, k)) # Read(f, FromFirst(f, m - 1))
    BY <1>12, <2>3, <2>4, Zenon DEF Distinct
  <2>. QED BY <1>8, <1>9, <1>13, <2>1, <2>2, <2>3, <2>5, Zenon
<1>16. Shows(g, window', evicted')
  BY <1>15, Zenon DEF Shows
<1>17. g.size = Len(window') /\ g.size <= Len(window')
  BY <1>2, <1>5, <1>9
<1>. QED BY <1>7, <1>8, <1>10, <1>11, <1>14, <1>16, <1>17, Zenon DEF FrameInv

(* reserve copies what is shown, oldest first.                             *)
LEMMA ReserveKeeps ==
  ASSUME FrameInv, NEW n \in FrameSizes, Reserve(n)
  PROVE  FrameInv'
<1>1. PICK f \in Frame(Nat) : f = frame.f
  BY FrameFacts, Zenon
<1>2. PICK s \in Nat, m \in Nat, M \in Nat :
        /\ s = f.sz /\ m = f.size /\ M = IndexMod /\ s > 0 /\ m <= s
        /\ m <= Len(window) /\ 2 * (s + 1) <= M
  BY <1>1, FrameFacts
<1>3. n \in Nat /\ s < n /\ 2 * (n + 1) <= M /\ 0 < s /\ m <= s /\ 2 * (s + 1) <= M
  <2>1. n > s
    BY <1>1, <1>2, Zenon DEF Reserve
  <2>. QED BY <1>2, <2>1, FramesAssumption
<1>4. m > 0 => f.it <= f.sz
  BY <1>1, <1>2 DEF FrameInv, FrameTypes, AtNothing
<1>5. \A i \in Nat : Read(f, i) \in Nat
  <2>1. f.data \in Seq(Nat) /\ Junk \in Nat
    BY DEF Frame, Junk
  <2>2. \A i \in Nat : i < Len(f.data) => f.data[i + 1] \in Nat
    BY <2>1
  <2>. QED BY <2>1, <2>2, Zenon DEF Read
<1>6. \A k \in 0 .. m - 1 : FromFirst(f, k) \in 0 .. f.sz
  <2>1. ASSUME NEW k \in 0 .. m - 1 PROVE FromFirst(f, k) \in 0 .. f.sz
    <3>1. k \in 0 .. f.sz /\ f.it <= f.sz
      BY <1>2, <1>4
    <3>. QED BY <3>1, OffsetsApart, Zenon
  <2>. QED BY <2>1
<1>7. PICK d : d = [i \in 1 .. n + 1 |-> IF i <= m THEN Read(f, FromFirst(f, m - i)) ELSE Junk]
  OBVIOUS
<1>8. d \in Seq(Nat) /\ Len(d) = n + 1
  <2>1. ASSUME NEW i \in 1 .. n + 1
        PROVE  (IF i <= m THEN Read(f, FromFirst(f, m - i)) ELSE Junk) \in Nat
    <3>1. i <= m => m - i \in 0 .. m - 1
      BY <1>2
    <3>2. i <= m => FromFirst(f, m - i) \in Nat
      BY <1>2, <1>6, <3>1
    <3>3. Junk \in Nat
      BY DEF Junk
    <3>. QED BY <1>5, <3>2, <3>3, Zenon
  <2>2. n + 1 \in Nat
    BY <1>3
  <2>3. d \in [1 .. n + 1 -> Nat]
    BY <1>7, <2>1, Zenon
  <2>. QED BY <2>2, <2>3
<1>9. PICK b \in Nat : b = (m - 1) % M /\ (m > 0 => b = m - 1) /\ (m = 0 => b = M - 1)
  <2>1. CASE m > 0
    <3>1. m - 1 \in Nat /\ m - 1 < 2 * M /\ m - 1 < M /\ M > 0
      BY ONLY <1>3, <2>1, s \in Nat, m \in Nat, M \in Nat
    <3>2. (m - 1) % M = m - 1
      BY <3>1, SmallRemainder
    <3>. QED BY <2>1, <3>1, <3>2
  <2>2. CASE m = 0
    BY <1>2, <2>2, RemainderIs
  <2>. QED BY <2>1, <2>2
<1>10. PICK g \in Frame(Nat) : g = [data |-> d, it |-> b, size |-> m, sz |-> n]
  <2>1. n > 0 /\ 2 * (n + 1) <= IndexMod
    BY <1>2, <1>3
  <2>. QED BY <1>3, <1>8, <2>1 DEF Frame
<1>11. g.it = b /\ g.size = m /\ g.sz = n /\ g.data = d
  BY <1>10
<1>12. frame' = [frame EXCEPT !.f = g] /\ ~frame.static
  BY <1>1, <1>2, <1>7, <1>9, <1>10, Zenon DEF Reserve
<1>13. frame'.f = g /\ frame'.static = frame.static /\ frame' \in [static : BOOLEAN, f : Frame(Nat)]
  BY <1>12 DEF FrameInv, FrameTypes
<1>14. window' = SubSeq(window, 1, m) /\ UNCHANGED <<back, outside, evicted, pushes>>
  BY <1>1, <1>2, Zenon DEF Reserve
<1>15. /\ window' \in Seq(Nat) /\ Len(window') = m
       /\ \A i \in 1 .. m : window'[i] = window[i]
  <2>1. window \in Seq(Nat) /\ Len(window) \in Nat
    BY FrameFacts, Zenon
  <2>. QED BY ONLY <1>2, <1>14, <2>1, m \in Nat, SMTT(30)
<1>16. \A i \in Nat : Read(g, i) = IF i + 1 <= m THEN Read(f, FromFirst(f, m - (i + 1))) ELSE Junk
  <2>1. ASSUME NEW i \in Nat, i < n + 1
        PROVE  Read(g, i) = IF i + 1 <= m THEN Read(f, FromFirst(f, m - (i + 1))) ELSE Junk
    <3>1. i + 1 \in 1 .. n + 1
      BY <1>3, <2>1
    <3>2. Read(g, i) = d[i + 1]
      BY <1>8, <1>11, <2>1, Zenon DEF Read
    <3>. QED BY <1>7, <3>1, <3>2, Zenon
  <2>2. ASSUME NEW i \in Nat, ~(i < n + 1)
        PROVE  Read(g, i) = Junk /\ ~(i + 1 <= m)
    <3>1. ~(i + 1 <= m)
      BY ONLY <1>3, <2>2, i \in Nat, s \in Nat, m \in Nat, M \in Nat
    <3>. QED BY <1>8, <1>11, <2>2, <3>1, Zenon DEF Read
  <2>. QED BY <2>1, <2>2, Zenon
<1>17. FrameTypes'
  <2>1. g.size <= g.sz /\ Len(window') <= g.sz
    BY <1>2, <1>3, <1>11, <1>15
  <2>2. CASE m > 0
    <3>1. g.it <= g.sz
      <4>1. b <= n
        BY ONLY <1>3, <1>9, <2>2, b \in Nat, s \in Nat, m \in Nat, M \in Nat
      <4>. QED BY <1>11, <4>1, Zenon
    <3>. QED BY <1>12, <1>13, <1>14, <1>15, <2>1, <3>1, Zenon DEF FrameTypes, FrameInv
  <2>3. CASE m = 0
    <3>1. window' = <<>>
      BY <1>15, <2>3
    <3>2. \A i \in Nat : Read(g, i) = Junk
      BY <1>16, <2>3
    <3>3. AtNothing(g)
      BY <1>2, <1>9, <1>11, <2>3, <3>2, Zenon DEF AtNothing
    <3>. QED BY <1>12, <1>13, <1>14, <1>15, <2>1, <3>1, <3>3, Zenon DEF FrameTypes, FrameInv
  <2>. QED BY <2>2, <2>3
<1>18. ASSUME ~outside
       PROVE  Shows(g, window', evicted') /\ Distinct(g, pushes)
  <2>1. Shows(f, window, evicted) /\ Distinct(f, pushes)
    BY <1>1, <1>18, Zenon DEF FrameInv
  <2>2. ASSUME NEW k \in 0 .. g.size - 1
        PROVE  /\ Read(g, FromFirst(g, k)) = window'[k + 1]
               /\ window'[k + 1] # Junk /\ window'[k + 1] # evicted'
    <3>1. k \in Nat /\ k < m /\ k \in 0 .. f.size - 1 /\ k + 1 \in 1 .. m
      BY <1>2, <1>11, <2>2
    <3>2. FromFirst(g, k) = (m - 1) - k
      <4>1. k \in 0 .. g.sz /\ k <= g.it /\ g.it <= g.sz /\ g.it = m - 1
        <5>1. k \in 0 .. n /\ k <= b /\ b <= n /\ b = m - 1
          <6>1. k \in Nat /\ k < m
            BY <3>1
          <6>. QED BY ONLY <1>3, <1>9, <6>1, b \in Nat, s \in Nat, m \in Nat, M \in Nat
        <5>. QED BY <1>11, <5>1, Zenon
      <4>2. FromFirst(g, k) = g.it - k
        BY <4>1, FrameSlots, Zenon
      <4>. QED BY <4>1, <4>2
    <3>3. PICK i \in Nat : i = (m - 1) - k /\ i + 1 <= m /\ m - (i + 1) = k
      <4>1. k \in Nat /\ k < m
        BY <3>1
      <4>. QED BY ONLY <4>1, m \in Nat
    <3>4. Read(g, i) = Read(f, FromFirst(f, k))
      BY <1>16, <3>3, Zenon
    <3>5. /\ Read(f, FromFirst(f, k)) = window[k + 1]
          /\ window[k + 1] # Junk /\ window[k + 1] # evicted
      BY <2>1, <3>1, Zenon DEF Shows
    <3>. QED BY <1>14, <1>15, <3>1, <3>2, <3>3, <3>4, <3>5, Zenon
  <2>3. ASSUME NEW i \in 0 .. g.sz PROVE Read(g, i) \in 0 .. pushes
    <3>1. i \in Nat /\ (i + 1 <= m => m - (i + 1) \in 0 .. m - 1)
      BY <1>2, <1>3, <1>11, SMTT(30)
    <3>2. Junk \in 0 .. pushes
      BY FrameFacts DEF Junk
    <3>. QED BY <1>6, <1>16, <2>1, <3>1, <3>2, Zenon DEF Distinct
  <2>4. ASSUME NEW i \in 0 .. g.sz, NEW j \in 0 .. g.sz, Read(g, i) = Read(g, j), Read(g, i) # Junk
        PROVE  i = j
    <3>1. i \in Nat /\ j \in Nat
      BY <1>3, <1>11
    <3>2. i + 1 <= m /\ j + 1 <= m
      BY <1>16, <2>4, <3>1, Zenon
    <3>3. PICK k \in 0 .. m - 1, l \in 0 .. m - 1 : k = m - (i + 1) /\ l = m - (j + 1)
      BY ONLY <3>1, <3>2, m \in Nat
    <3>4. Read(g, i) = Read(f, FromFirst(f, k)) /\ Read(g, j) = Read(f, FromFirst(f, l))
      BY <1>16, <3>1, <3>2, <3>3, Zenon
    <3>5. FromFirst(f, k) = FromFirst(f, l)
      BY <1>6, <2>1, <2>4, <3>4, Zenon DEF Distinct
    <3>6. k \in 0 .. f.sz /\ l \in 0 .. f.sz /\ f.it <= f.sz
      BY <1>2, <1>4, SMTT(30)
    <3>7. k = l
      BY <3>5, <3>6, OffsetsApart, Zenon
    <3>. QED BY <1>2, <3>1, <3>3, <3>7
  <2>. QED BY <2>2, <2>3, <2>4, Zenon DEF Shows, Distinct
<1>19. g.size = Len(window') /\ g.size <= Len(window')
  BY <1>2, <1>11, <1>15
<1>. QED BY <1>12, <1>13, <1>14, <1>17, <1>18, <1>19, Zenon DEF FrameInv

(* A frame keeps its promise whatever is done to it, and while a spline is *)
(* filled.                                                                 *)
LEMMA FrameInvStep ==
  ASSUME FrameInv, FramesNext \/ SplineNext \/ UNCHANGED frameVars
  PROVE  FrameInv'
<1>1. CASE FramesNext
  BY <1>1, MoveFwdKeeps, MoveBckKeeps, PopBackKeeps, ReserveKeeps DEF FramesNext
<1>2. CASE SplineNext
  <2>1. UNCHANGED <<frame, window, back, outside, evicted>> /\ pushes' = pushes + 1
    BY <1>2, Zenon DEF SplineNext, AddPoint
  <2>2. pushes' \in Nat /\ pushes \in Nat
    BY <2>1, FrameFacts
  <2>3. FrameTypes'
    BY <2>1, <2>2, Zenon DEF FrameInv, FrameTypes
  <2>4. Distinct(frame.f, pushes) => Distinct(frame.f, pushes')
    <3>1. \A x \in 0 .. pushes : x \in 0 .. pushes'
      BY <2>1, <2>2
    <3>. QED BY <3>1, Zenon DEF Distinct
  <2>. QED BY <2>1, <2>3, <2>4, Zenon DEF FrameInv
<1>3. CASE UNCHANGED frameVars
  <2>1. UNCHANGED <<frame, window, back, outside, evicted, pushes>>
    BY <1>3, Zenon DEF frameVars
  <2>. QED BY <2>1, Zenon DEF FrameInv, FrameTypes
<1>. QED BY <1>1, <1>2, <1>3

(* So the invariant is what is promised.                                   *)
LEMMA FrameShows == FrameInv => FrameIsWindow
<1>. SUFFICES ASSUME FrameInv PROVE FrameIsWindow
  OBVIOUS
<1>1. ASSUME ~outside
      PROVE  /\ \A k \in 0 .. frame.f.size - 1 :
                  Read(frame.f, FromFirst(frame.f, k)) = window[k + 1]
             /\ \A i \in DOMAIN window : i <= frame.f.size => evicted # window[i]
  <2>1. Shows(frame.f, window, evicted)
    BY <1>1, Zenon DEF FrameInv
  <2>2. ASSUME NEW i \in DOMAIN window, i <= frame.f.size PROVE evicted # window[i]
    <3>1. i \in 1 .. Len(window)
      BY <2>2, FrameFacts
    <3>2. i - 1 \in 0 .. frame.f.size - 1 /\ (i - 1) + 1 = i
      BY <2>2, <3>1, FrameFacts, SMTT(30)
    <3>. QED BY <2>1, <3>2, Zenon DEF Shows
  <2>. QED BY <2>1, <2>2, Zenon DEF Shows
<1>. QED BY <1>1, Zenon DEF FrameInv, FrameIsWindow

-----------------------------------------------------------------------------
(* The spline.                                                             *)

(* A frame of z values with all its slots that n values, the k-th newest of them v[k], *)
(* were pushed to.                                                         *)
Holds(V, f, z, n, e, v) ==
  /\ f \in Frame(V) /\ f.sz = z /\ f.it <= f.sz /\ Len(f.data) = f.sz + 1
  /\ f.size = (IF n < f.sz THEN n ELSE f.sz)
  /\ \A k \in 0 .. f.sz :
       Read(f, FromFirst(f, k)) = IF k < f.size THEN v[k] ELSE e

(* The next value moves the others on.                                     *)
LEMMA HoldsNext ==
  ASSUME NEW V, NEW f, NEW z, NEW n \in Nat, NEW e \in V, NEW v, Holds(V, f, z, n, e, v),
         NEW x \in V, NEW u, u[0] = x, \A k \in Nat : u[k + 1] = v[k]
  PROVE  Holds(V, Pushed(f, e, x), z, n + 1, e, u)
<1>1. PICK g : g = Pushed(f, e, x)
  OBVIOUS
<1>2. f \in Frame(V) /\ f.it <= f.sz /\ Len(f.data) = f.sz + 1
  BY Zenon DEF Holds
<1>3. PICK s \in Nat : s = f.sz /\ s > 0 /\ s = z
  BY <1>2 DEF Frame, Holds
<1>4. PICK m \in Nat : m = IF n < s THEN n ELSE s
  BY <1>3
<1>5. f.size = m /\ \A k \in 0 .. s : Read(f, FromFirst(f, k)) = IF k < m THEN v[k] ELSE e
  BY <1>3, <1>4, Zenon DEF Holds
<1>6. MovedOn(V, f, e, x, g)
  <2>1. FirstSlot(Forward(f)) \in 0 .. f.sz /\ LastSlot(f) \in 0 .. f.sz
    BY <1>2, ForwardFrom, Zenon
  <2>2. FirstSlot(Forward(f)) < Len(f.data) /\ LastSlot(f) < Len(f.data)
    <3>1. \A i \in 0 .. s : i < s + 1
      BY <1>3
    <3>. QED BY <1>2, <1>3, <2>1, <3>1, Zenon
  <2>. QED BY <1>1, <1>2, <2>2, PushMoves, Zenon
<1>7. /\ g \in Frame(V) /\ g.sz = s /\ g.it <= g.sz /\ Len(g.data) = s + 1
      /\ g.size = (IF m < s THEN m + 1 ELSE s)
      /\ Read(g, FromFirst(g, 0)) = x /\ Read(g, FromFirst(g, s)) = e
      /\ \A k \in 0 .. s - 2 : Read(g, FromFirst(g, k + 1)) = Read(f, FromFirst(f, k))
  BY <1>2, <1>3, <1>5, <1>6, Zenon DEF MovedOn
<1>8. PICK l \in Nat : l = (IF n + 1 < s THEN n + 1 ELSE s) /\ g.size = l
  <2>1. PICK l \in Nat : l = IF m < s THEN m + 1 ELSE s
    OBVIOUS
  <2>2. l = IF n + 1 < s THEN n + 1 ELSE s
    BY ONLY <1>4, <2>1, l \in Nat, m \in Nat, n \in Nat, s \in Nat
  <2>. QED BY <1>7, <2>1, <2>2, Zenon
<1>9. ASSUME NEW k \in 0 .. s
      PROVE  Read(g, FromFirst(g, k)) = IF k < l THEN u[k] ELSE e
  <2>1. CASE k = 0
    <3>1. 0 < l
      BY ONLY <1>3, <1>8, l \in Nat, n \in Nat, s \in Nat
    <3>. QED BY <1>7, <2>1, <3>1
  <2>2. CASE k = s
    <3>1. ~(s < l)
      BY ONLY <1>8, l \in Nat, n \in Nat, s \in Nat
    <3>. QED BY <1>7, <2>2, <3>1, Zenon
  <2>3. CASE k # 0 /\ k # s
    <3>1. PICK j \in Nat : k = j + 1
      <4>1. k - 1 \in Nat /\ k = (k - 1) + 1
        BY <1>9, <2>3
      <4>. QED BY <4>1
    <3>2. j \in 0 .. s - 2 /\ j \in 0 .. s
      BY <1>9, <2>3, <3>1
    <3>3. j < m <=> k < l
      <4>1. j + 1 < s
        BY <1>9, <2>3, <3>1
      <4>. QED BY ONLY <1>4, <1>8, <3>1, <4>1, j \in Nat, l \in Nat, m \in Nat, n \in Nat, s \in Nat
    <3>4. Read(g, FromFirst(g, k)) = IF j < m THEN v[j] ELSE e
      <4>1. Read(g, FromFirst(g, j + 1)) = Read(f, FromFirst(f, j))
        BY <1>7, <3>2, Zenon
      <4>2. Read(f, FromFirst(f, j)) = IF j < m THEN v[j] ELSE e
        BY <1>5, <3>2, Zenon
      <4>. QED BY <3>1, <4>1, <4>2
    <3>. QED BY <3>1, <3>3, <3>4, Zenon
  <2>. QED BY <2>1, <2>2, <2>3, Zenon
<1>10. Holds(V, g, z, n + 1, e, u)
  BY <1>3, <1>7, <1>8, <1>9, Zenon DEF Holds
<1>. QED BY <1>1, <1>10, Zenon

(* The k-th newest of n points, and the segment that ends there.           *)
Point(n) == [k \in Nat |-> n - k]
Segment(n) == [k \in Nat |-> [i \in 1 .. 4 |-> n - k - 4 + i]]
SegmentSet == {NoSegment} \cup [1 .. 4 -> Int]
SegmentCount(n) == IF n < 3 THEN 0 ELSE n - 3

SplineHolds(n) ==
  /\ spline \in [points : Frame(Nat), segments : Frame(SegmentSet)]
  /\ Holds(Nat, spline.points, NumPts, n, Junk, Point(n))
  /\ Holds(SegmentSet, spline.segments, NumPts - 3, SegmentCount(n), NoSegment, Segment(n))

(* An unused frame with all its slots holds nothing.                       *)
LEMMA UnusedHolds ==
  ASSUME NEW V, NEW f, NEW n \in Nat, NEW e \in V, NEW v, Unused(V, f, n, n + 1, e)
  PROVE  Holds(V, f, n, 0, e, v)
<1>1. f \in Frame(V) /\ f.it = 0 /\ f.size = 0 /\ f.sz = n /\ Len(f.data) = n + 1
  BY Zenon DEF Unused
<1>2. f.it <= f.sz /\ f.size = (IF 0 < f.sz THEN 0 ELSE f.sz)
  BY <1>1
<1>3. ASSUME NEW k \in 0 .. f.sz
      PROVE  Read(f, FromFirst(f, k)) = IF k < f.size THEN v[k] ELSE e
  <2>1. FromFirst(f, k) \in 0 .. n
    BY <1>1, <1>2, OffsetsApart, Zenon
  <2>2. FromFirst(f, k) \in Nat /\ FromFirst(f, k) < n + 1
    BY <2>1
  <2>3. Read(f, FromFirst(f, k)) = e
    BY <2>2, Zenon DEF Unused
  <2>4. ~(k < f.size)
    BY <1>1
  <2>. QED BY <2>3, <2>4, Zenon
<1>. QED BY <1>1, <1>2, <1>3, Zenon DEF Holds

LEMMA SplineInit == FramesInit => SplineHolds(0)
<1>. SUFFICES ASSUME FramesInit PROVE SplineHolds(0)
  OBVIOUS
<1>1. PICK N \in Nat : N = NumPts /\ N > 4 /\ 2 * (N + 1) <= IndexMod
  BY FramesAssumption
<1>2. PICK p, s : p = NewFrame(N, N + 1, Junk) /\ s = NewFrame(N - 3, N - 2, NoSegment)
  OBVIOUS
<1>3. spline = [points |-> p, segments |-> s]
  BY <1>1, <1>2, Zenon DEF FramesInit
<1>4. Unused(Nat, p, N, N + 1, Junk)
  <2>1. N > 0 /\ N + 1 \in Nat /\ Junk \in Nat
    BY <1>1 DEF Junk
  <2>. QED BY <1>1, <1>2, <2>1, NewFrameIs, Zenon
<1>5. Unused(SegmentSet, s, N - 3, (N - 3) + 1, NoSegment)
  <2>1. N - 3 \in Nat /\ N - 3 > 0 /\ N - 2 \in Nat /\ N - 2 = (N - 3) + 1 /\ 2 * ((N - 3) + 1) <= IndexMod
    BY <1>1, FramesAssumption
  <2>2. NoSegment \in SegmentSet
    BY DEF SegmentSet
  <2>. QED BY <1>2, <2>1, <2>2, NewFrameIs, Zenon
<1>6. p \in Frame(Nat) /\ s \in Frame(SegmentSet) /\ p.sz = N /\ s.sz = N - 3
  BY <1>4, <1>5, Zenon DEF Unused
<1>7. Holds(Nat, p, N, 0, Junk, Point(0))
  <2>1. Junk \in Nat
    BY DEF Junk
  <2>. QED BY <1>4, <2>1, UnusedHolds, Zenon
<1>8. Holds(SegmentSet, s, N - 3, SegmentCount(0), NoSegment, Segment(0))
  <2>1. N - 3 \in Nat /\ NoSegment \in SegmentSet /\ SegmentCount(0) = 0
    BY <1>1 DEF SegmentSet, SegmentCount
  <2>. QED BY <1>5, <2>1, UnusedHolds, Zenon
<1>9. spline.points = p /\ spline.segments = s
  BY <1>3
<1>10. spline \in [points : Frame(Nat), segments : Frame(SegmentSet)]
  BY <1>3, <1>6
<1>. QED BY <1>1, <1>6, <1>7, <1>8, <1>9, <1>10, Zenon DEF SplineHolds

(* add_point: the new point, and the segment of the newest four as soon as *)
(* there are four.                                                         *)
LEMMA SplineStep ==
  ASSUME NEW n \in Nat, n = pushes, SplineHolds(n), AddPoint
  PROVE  pushes' = n + 1 /\ SplineHolds(n + 1)'
<1>1. PICK N \in Nat : N = NumPts /\ N > 4
  BY FramesAssumption
<1>2. PICK p, s : p = spline.points /\ s = spline.segments
  OBVIOUS
<1>3. /\ p \in Frame(Nat) /\ s \in Frame(SegmentSet) /\ p.sz = N /\ s.sz = N - 3
      /\ Holds(Nat, p, N, n, Junk, Point(n))
      /\ Holds(SegmentSet, s, N - 3, SegmentCount(n), NoSegment, Segment(n))
  BY <1>1, <1>2, Zenon DEF SplineHolds, Holds
<1>4. PICK q : q = Pushed(p, Junk, n + 1)
  OBVIOUS
<1>5. PICK four : four = [i \in 1 .. 4 |-> Read(q, FromFirst(q, 4 - i))]
  OBVIOUS
<1>6. PICK t : t = Pushed(s, NoSegment, four)
  OBVIOUS
<1>7. /\ pushes' = n + 1
      /\ spline' = [points |-> q, segments |-> IF \E i \in 1 .. 4 : four[i] = Junk THEN s ELSE t]
  BY <1>2, <1>4, <1>5, <1>6, Zenon DEF AddPoint, Pushed
<1>8. Holds(Nat, q, N, n + 1, Junk, Point(n + 1)) /\ q.sz = N
  <2>1. n + 1 \in Nat /\ Junk \in Nat
    BY DEF Junk
  <2>2. Point(n + 1)[0] = n + 1 /\ \A k \in Nat : Point(n + 1)[k + 1] = Point(n)[k]
    BY DEF Point
  <2>3. Holds(Nat, q, N, n + 1, Junk, Point(n + 1))
    BY <1>3, <1>4, <2>1, <2>2, HoldsNext, ZenonT(60)
  <2>. QED BY <2>3, Zenon DEF Holds
<1>9. PICK m \in Nat : m = IF n + 1 < N THEN n + 1 ELSE N
  BY <1>1
<1>10. q.size = m /\ \A k \in 0 .. N : Read(q, FromFirst(q, k)) = IF k < m THEN Point(n + 1)[k] ELSE Junk
  BY <1>8, <1>9, Zenon DEF Holds
<1>11. \A i \in 1 .. 4 : four[i] = IF 4 - i < m THEN (n + 1) - (4 - i) ELSE Junk
  <2>1. ASSUME NEW i \in 1 .. 4
        PROVE  four[i] = IF 4 - i < m THEN (n + 1) - (4 - i) ELSE Junk
    <3>1. 4 - i \in 0 .. N /\ 4 - i \in Nat
      BY <1>1
    <3>2. Point(n + 1)[4 - i] = (n + 1) - (4 - i)
      BY <3>1 DEF Point
    <3>3. four[i] = Read(q, FromFirst(q, 4 - i))
      BY <1>5
    <3>. QED BY <1>10, <3>1, <3>2, <3>3, Zenon
  <2>. QED BY <2>1
<1>12. q \in Frame(Nat)
  BY <1>8, Zenon DEF Holds
<1>13. CASE n + 1 < 4
  <2>1. four[1] = Junk
    <3>1. ~(4 - 1 < m) /\ 1 \in 1 .. 4
      BY <1>1, <1>9, <1>13
    <3>. QED BY <1>11, <3>1, Zenon
  <2>2. spline' = [points |-> q, segments |-> s]
    BY <1>7, <2>1
  <2>3. SegmentCount(n + 1) = 0 /\ SegmentCount(n) = 0
    BY <1>13 DEF SegmentCount
  <2>4. Holds(SegmentSet, s, N - 3, 0, NoSegment, Segment(n + 1))
    <3>1. Holds(SegmentSet, s, N - 3, 0, NoSegment, Segment(n))
      BY <1>3, <2>3, Zenon
    <3>2. 0 < s.sz
      BY <1>1, <1>3
    <3>3. s.size = 0
      BY <3>1, <3>2, Zenon DEF Holds
    <3>4. \A k \in 0 .. s.sz : ~(k < s.size)
      BY <3>3
    <3>. QED BY <3>1, <3>4, Zenon DEF Holds
  <2>5. spline' \in [points : Frame(Nat), segments : Frame(SegmentSet)]
    BY <1>3, <1>12, <2>2
  <2>6. spline'.points = q /\ spline'.segments = s
    BY <2>2
  <2>. QED BY <1>1, <1>3, <1>7, <1>8, <2>3, <2>4, <2>5, <2>6, Zenon DEF SplineHolds
<1>14. CASE ~(n + 1 < 4)
  <2>1. m >= 4
    BY ONLY <1>1, <1>9, <1>14, m \in Nat, n \in Nat, N \in Nat
  <2>2. \A i \in 1 .. 4 : four[i] = (n + 1) - 4 + i /\ four[i] # Junk
    <3>1. \A i \in 1 .. 4 : 4 - i < m /\ (n + 1) - (4 - i) = (n + 1) - 4 + i /\ (n + 1) - 4 + i > 0
      BY <1>14, <2>1
    <3>. QED BY <1>11, <3>1 DEF Junk
  <2>3. spline' = [points |-> q, segments |-> t]
    BY <1>7, <2>2
  <2>4. four = Segment(n + 1)[0]
    <3>1. Segment(n + 1)[0] = [i \in 1 .. 4 |-> (n + 1) - 0 - 4 + i]
      BY DEF Segment
    <3>2. \A i \in 1 .. 4 : (n + 1) - 0 - 4 + i = (n + 1) - 4 + i
      OBVIOUS
    <3>. QED BY <1>5, <2>2, <3>1, <3>2
  <2>5. four \in SegmentSet /\ NoSegment \in SegmentSet
    <3>1. Segment(n + 1)[0] \in [1 .. 4 -> Int]
      BY DEF Segment
    <3>. QED BY <2>4, <3>1, Zenon DEF SegmentSet
  <2>6. \A k \in Nat : Segment(n + 1)[k + 1] = Segment(n)[k]
    <3>1. ASSUME NEW k \in Nat PROVE Segment(n + 1)[k + 1] = Segment(n)[k]
      <4>1. k + 1 \in Nat
        OBVIOUS
      <4>2. /\ Segment(n + 1)[k + 1] = [i \in 1 .. 4 |-> (n + 1) - (k + 1) - 4 + i]
            /\ Segment(n)[k] = [i \in 1 .. 4 |-> n - k - 4 + i]
        BY <4>1, Zenon DEF Segment
      <4>3. \A i \in 1 .. 4 : (n + 1) - (k + 1) - 4 + i = n - k - 4 + i
        OBVIOUS
      <4>. QED BY <4>2, <4>3
    <3>. QED BY <3>1
  <2>7. PICK c \in Nat : c = SegmentCount(n) /\ c + 1 = SegmentCount(n + 1)
    BY <1>14 DEF SegmentCount
  <2>8. Holds(SegmentSet, t, N - 3, c + 1, NoSegment, Segment(n + 1))
    <3>1. Holds(SegmentSet, s, N - 3, c, NoSegment, Segment(n))
      BY <1>3, <2>7, Zenon
    <3>2. Segment(n + 1)[0] = four
      BY <2>4
    <3>. QED BY <1>6, <2>5, <2>6, <3>1, <3>2, HoldsNext, Zenon
  <2>9. t \in Frame(SegmentSet)
    BY <2>8, Zenon DEF Holds
  <2>10. spline' \in [points : Frame(Nat), segments : Frame(SegmentSet)]
    BY <1>12, <2>3, <2>9
  <2>11. spline'.points = q /\ spline'.segments = t
    BY <2>3
  <2>. QED BY <1>1, <1>3, <1>7, <1>8, <2>7, <2>8, <2>10, <2>11, Zenon DEF SplineHolds
<1>. QED BY <1>13, <1>14

(* What get_point finds.                                                   *)
LEMMA SplineShows ==
  ASSUME NEW n \in Nat, n = pushes \/ n = 0, SplineHolds(n)
  PROVE  SplineFollows
<1>1. PICK N \in Nat : N = NumPts /\ N > 4
  BY FramesAssumption
<1>2. PICK s : s = spline.segments
  OBVIOUS
<1>3. PICK m \in Nat : m = IF n < N THEN n ELSE N
  BY <1>1
<1>4. spline.points.size = m
  BY <1>1, <1>3, Zenon DEF SplineHolds, Holds
<1>5. PICK c \in Nat : c = (IF n < 3 THEN 0 ELSE n - 3) /\ c = SegmentCount(n)
  BY DEF SegmentCount
<1>6. PICK z \in Nat : z = IF c < N - 3 THEN c ELSE N - 3
  BY <1>1
<1>7. \A k \in 0 .. N - 3 : Read(s, FromFirst(s, k)) = IF k < z THEN Segment(n)[k] ELSE NoSegment
  BY <1>1, <1>2, <1>5, <1>6, Zenon DEF SplineHolds, Holds
<1>8. ASSUME NEW k \in 0 .. N - 4
      PROVE  /\ k \in 0 .. N - 3 /\ k \in Nat
             /\ Read(s, FromFirst(s, k)) # NoSegment <=> k < z
             /\ Segment(n)[k] = [i \in 1 .. 4 |-> n - k - 4 + i]
  <2>1. k \in 0 .. N - 3 /\ k \in Nat
    BY <1>1
  <2>2. Segment(n)[k] = [i \in 1 .. 4 |-> n - k - 4 + i]
    BY <2>1, Zenon DEF Segment
  <2>3. Segment(n)[k] # NoSegment
    <3>1. 1 \in DOMAIN Segment(n)[k]
      BY <2>2
    <3>2. 1 \notin DOMAIN NoSegment
      BY DEF NoSegment
    <3>. QED BY <3>1, <3>2, Zenon
  <2>. QED BY <1>7, <2>1, <2>2, <2>3, Zenon
<1>9. DOMAIN Segments = {k \in 0 .. N - 4 : k < z}
  <2>1. DOMAIN Segments = {k \in 0 .. N - 4 : \A j \in 0 .. k : Read(s, FromFirst(s, j)) # NoSegment}
    BY <1>1, <1>2, Zenon DEF Segments
  <2>2. ASSUME NEW k \in 0 .. N - 4
        PROVE  (\A j \in 0 .. k : Read(s, FromFirst(s, j)) # NoSegment) <=> k < z
    <3>1. k \in 0 .. k /\ k \in Nat
      BY <1>1
    <3>2. ASSUME k < z, NEW j \in 0 .. k PROVE j \in 0 .. N - 4 /\ j < z
      BY <1>1, <3>1, <3>2
    <3>. QED BY <1>8, <3>1, <3>2, Zenon
  <2>. QED BY <2>1, <2>2, Zenon
<1>10. ASSUME NEW k \in 0 .. NumPts - 4
       PROVE  /\ k \in DOMAIN Segments <=> spline.points.size >= 4 + k
              /\ k \in DOMAIN Segments => Segments[k] = [i \in 1 .. 4 |-> pushes - k - 4 + i]
  <2>1. k \in 0 .. N - 4
    BY <1>1
  <2>2. k < z <=> m >= 4 + k
    BY ONLY <1>1, <1>3, <1>5, <1>6, <2>1, k \in 0 .. NumPts - 4, n \in Nat, m \in Nat,
            c \in Nat, z \in Nat, N \in Nat
  <2>3. ASSUME k \in DOMAIN Segments
        PROVE  Segments[k] = [i \in 1 .. 4 |-> pushes - k - 4 + i]
    <3>1. k < z
      BY <1>9, <2>3, Zenon
    <3>2. n = pushes
      <4>1. n > 0
        <5>1. k \in Nat
          BY <1>1
        <5>. QED BY ONLY <1>5, <1>6, <3>1, <1>1, <5>1, n \in Nat, c \in Nat, z \in Nat, N \in Nat
      <4>. QED BY <4>1
    <3>3. Segments[k] = Read(s, FromFirst(s, k))
      BY <1>2, <2>3, Zenon DEF Segments
    <3>4. Read(s, FromFirst(s, k)) = Segment(n)[k]
      BY <1>7, <1>8, <2>1, <3>1, Zenon
    <3>. QED BY <1>8, <2>1, <3>2, <3>3, <3>4
  <2>. QED BY <1>4, <1>9, <2>1, <2>2, <2>3, Zenon
<1>. QED BY <1>10, Zenon DEF SplineFollows

-----------------------------------------------------------------------------
(* The rings.                                                              *)

(* One more step of every walk.                                            *)
Onward(h) == [t \in Nodes |-> nnext[h[t]]]
Stay == [t \in Nodes |-> t]
WalksTo(g, k) ==
  /\ g \in [0 .. k -> [Nodes -> Nodes]] /\ g[0] = Stay
  /\ \A j \in 1 .. k : g[j] = Onward(g[j - 1])

(* The recursion of walk is well-founded.                                  *)
LEMMA WalkIs ==
  ASSUME nnext \in [Nodes -> Nodes]
  PROVE  /\ walk \in [Nat -> [Nodes -> Nodes]] /\ walk[0] = Stay
         /\ \A k \in Nat : walk[k + 1] = Onward(walk[k])
<1>. DEFINE E == {k \in Nat : \E g : WalksTo(g, k)}
            U == {k \in Nat : \A i, j \in Nat : \A g, h :
                    k <= i /\ k <= j /\ WalksTo(g, i) /\ WalksTo(h, j) => g[k] = h[k]}
            G(k) == CHOOSE g : WalksTo(g, k)
            W == [k \in Nat |-> G(k)[k]]
<1>1. Stay \in [Nodes -> Nodes] /\ \A h \in [Nodes -> Nodes] : Onward(h) \in [Nodes -> Nodes]
  BY DEF Stay, Onward
<1>2. 0 \in E
  <2>1. PICK g : g = [j \in 0 .. 0 |-> Stay]
    OBVIOUS
  <2>2. g \in [0 .. 0 -> [Nodes -> Nodes]]
    BY <1>1, <2>1, Zenon
  <2>3. g[0] = Stay
    BY <2>1
  <2>4. 1 .. 0 = {}
    OBVIOUS
  <2>5. WalksTo(g, 0)
    BY <2>2, <2>3, <2>4, Zenon DEF WalksTo
  <2>. QED BY <2>5
<1>3. ASSUME NEW k \in Nat, k \in E PROVE k + 1 \in E
  <2>1. PICK g : WalksTo(g, k)
    BY <1>3
  <2>2. PICK x : x = Onward(g[k])
    OBVIOUS
  <2>3. g \in [0 .. k -> [Nodes -> Nodes]] /\ g[0] = Stay /\ \A j \in 1 .. k : g[j] = Onward(g[j - 1])
    BY <2>1, Zenon DEF WalksTo
  <2>4. k \in 0 .. k /\ x \in [Nodes -> Nodes]
    <3>1. k \in 0 .. k
      OBVIOUS
    <3>. QED BY <1>1, <2>2, <2>3, <3>1, Zenon
  <2>5. PICK h : h = [j \in 0 .. k + 1 |-> IF j = k + 1 THEN x ELSE g[j]]
    OBVIOUS
  <2>6. \A j \in 0 .. k + 1 : j # k + 1 => j \in 0 .. k
    OBVIOUS
  <2>7. h \in [0 .. k + 1 -> [Nodes -> Nodes]]
    BY <2>3, <2>4, <2>5, <2>6, Zenon
  <2>8. h[0] = Stay
    <3>1. 0 \in 0 .. k + 1 /\ 0 # k + 1
      OBVIOUS
    <3>. QED BY <2>3, <2>5, <3>1, Zenon
  <2>9. ASSUME NEW j \in 1 .. k + 1 PROVE h[j] = Onward(h[j - 1])
    <3>1. j \in 0 .. k + 1 /\ j - 1 \in 0 .. k + 1 /\ j - 1 # k + 1 /\ j - 1 \in 0 .. k
      OBVIOUS
    <3>2. h[j - 1] = g[j - 1]
      BY <2>5, <3>1, Zenon
    <3>3. CASE j = k + 1
      <4>1. j - 1 = k
        BY <3>3
      <4>2. h[j] = x
        BY <2>5, <3>1, <3>3, Zenon
      <4>. QED BY <2>2, <3>2, <4>1, <4>2
    <3>4. CASE j # k + 1
      <4>1. j \in 1 .. k
        BY <3>4
      <4>2. h[j] = g[j]
        BY <2>5, <3>1, <3>4, Zenon
      <4>. QED BY <2>3, <3>2, <4>1, <4>2
    <3>. QED BY <3>3, <3>4
  <2>10. WalksTo(h, k + 1)
    BY <2>7, <2>8, <2>9, Zenon DEF WalksTo
  <2>. QED BY <2>10
<1>4. \A k \in Nat : WalksTo(G(k), k)
  <2>1. Nat \subseteq E
    <3>. HIDE DEF E
    <3>. QED BY <1>2, <1>3, SetInduction
  <2>. QED BY <2>1, Zenon
<1>5. 0 \in U
  BY Zenon DEF WalksTo
<1>6. ASSUME NEW k \in Nat, k \in U PROVE k + 1 \in U
  <2>1. ASSUME NEW i \in Nat, NEW j \in Nat, NEW g, NEW h,
               k + 1 <= i, k + 1 <= j, WalksTo(g, i), WalksTo(h, j)
        PROVE  g[k + 1] = h[k + 1]
    <3>1. k <= i /\ k <= j /\ k + 1 \in 1 .. i /\ k + 1 \in 1 .. j /\ (k + 1) - 1 = k
      BY <2>1
    <3>2. g[k] = h[k]
      BY <1>6, <2>1, <3>1
    <3>3. g[k + 1] = Onward(g[(k + 1) - 1]) /\ h[k + 1] = Onward(h[(k + 1) - 1])
      BY <2>1, <3>1, Zenon DEF WalksTo
    <3>. QED BY <3>1, <3>2, <3>3
  <2>2. k + 1 \in Nat
    OBVIOUS
  <2>. QED BY <2>1, <2>2, Zenon
<1>7. Nat \subseteq U
  <2>. HIDE DEF U
  <2>. QED BY <1>5, <1>6, SetInduction
<1>8. W \in [Nat -> [Nodes -> Nodes]]
  <2>1. ASSUME NEW k \in Nat PROVE G(k)[k] \in [Nodes -> Nodes]
    <3>. HIDE DEF G
    <3>1. k \in 0 .. k
      OBVIOUS
    <3>. QED BY <1>4, <3>1, Zenon DEF WalksTo
  <2>. HIDE DEF G
  <2>. QED BY <2>1, Zenon
<1>9. W[0] = Stay
  <2>. HIDE DEF G
  <2>1. W[0] = G(0)[0]
    OBVIOUS
  <2>. QED BY <1>4, <2>1, Zenon DEF WalksTo
<1>10. ASSUME NEW k \in Nat PROVE W[k + 1] = Onward(W[k])
  <2>. HIDE DEF G
  <2>1. k + 1 \in Nat /\ k + 1 \in 1 .. k + 1 /\ (k + 1) - 1 = k /\ k <= k + 1 /\ k <= k
    OBVIOUS
  <2>2. WalksTo(G(k + 1), k + 1) /\ WalksTo(G(k), k)
    BY <1>4, <2>1, Zenon
  <2>3. G(k + 1)[k + 1] = Onward(G(k + 1)[k])
    <3>1. G(k + 1)[k + 1] = Onward(G(k + 1)[(k + 1) - 1])
      BY <2>1, <2>2, Zenon DEF WalksTo
    <3>. QED BY <2>1, <3>1
  <2>4. G(k + 1)[k] = G(k)[k]
    <3>1. k \in U
      BY <1>7, Zenon
    <3>. QED BY <2>1, <2>2, <3>1
  <2>5. W[k + 1] = G(k + 1)[k + 1] /\ W[k] = G(k)[k]
    BY <2>1, Zenon
  <2>. QED BY <2>3, <2>4, <2>5, Zenon
<1>. DEFINE B(g, k) == [t \in Nodes |-> IF k = 0 THEN t ELSE nnext[g[k - 1][t]]]
<1>. HIDE DEF W
<1>11. W = [k \in Nat |-> B(W, k)]
  <2>1. ASSUME NEW k \in Nat PROVE W[k] = B(W, k)
    <3>1. CASE k = 0
      BY <1>9, <3>1, Zenon DEF Stay
    <3>2. CASE k # 0
      <4>1. PICK j \in Nat : k = j + 1 /\ k - 1 = j
        <5>1. k - 1 \in Nat /\ k = (k - 1) + 1
          BY <3>2
        <5>. QED BY <5>1
      <4>2. W[k] = Onward(W[j])
        BY <1>10, <4>1
      <4>. QED BY <3>2, <4>1, <4>2 DEF Onward
    <3>. QED BY <3>1, <3>2
  <2>. HIDE DEF B
  <2>. QED BY <1>8, <2>1
<1>12. walk = CHOOSE g : g = [k \in Nat |-> B(g, k)]
  BY DEF walk
<1>13. walk = [k \in Nat |-> B(walk, k)]
  <2>. HIDE DEF B
  <2>. QED BY <1>11, <1>12, Zenon
<1>14. \A k \in Nat : walk[k] = B(walk, k)
  <2>. HIDE DEF B
  <2>. QED BY <1>13
<1>15. walk[0] = Stay
  BY <1>14 DEF Stay
<1>16. \A k \in Nat : walk[k + 1] = Onward(walk[k])
  BY <1>14 DEF Onward
<1>17. walk \in [Nat -> [Nodes -> Nodes]]
  <2>. DEFINE T == {k \in Nat : walk[k] \in [Nodes -> Nodes]}
  <2>1. 0 \in T
    BY <1>1, <1>15
  <2>2. ASSUME NEW k \in Nat, k \in T PROVE k + 1 \in T
    BY <1>1, <1>16, <2>2
  <2>3. Nat \subseteq T
    <3>. HIDE DEF T
    <3>. QED BY <2>1, <2>2, SetInduction
  <2>4. DOMAIN walk = Nat
    <3>. HIDE DEF B
    <3>. QED BY <1>13
  <2>5. walk = [k \in Nat |-> walk[k]]
    <3>. HIDE DEF B
    <3>. QED BY <1>13
  <2>. QED BY <2>3, <2>5
<1>. QED BY <1>15, <1>16, <1>17, Zenon

ListTypes ==
  /\ nnext \in [Nodes -> Nodes] /\ nprev \in [Nodes -> Nodes]
  /\ nstate \in [Nodes -> {"none", "ring", "removed", "freed"}] /\ spoiled \in BOOLEAN

(* Neighbours in a ring know each other.                                   *)
Linked ==
  \A n \in Nodes : nstate[n] = "ring" =>
    /\ nprev[nnext[n]] = n /\ nnext[nprev[n]] = n
    /\ nstate[nnext[n]] = "ring" /\ nstate[nprev[n]] = "ring"

LinkInv == ListTypes /\ (~spoiled => Linked)

(* A walk from a node of a ring stays in it, step by step.                 *)
LEMMA WalkInRing ==
  ASSUME ListTypes, Linked, NEW t \in Nodes, nstate[t] = "ring"
  PROVE  /\ walk[0][t] = t
         /\ \A k \in Nat : /\ walk[k][t] \in Nodes /\ nstate[walk[k][t]] = "ring"
                           /\ walk[k + 1][t] = nnext[walk[k][t]]
                           /\ nprev[walk[k + 1][t]] = walk[k][t]
<1>1. /\ walk \in [Nat -> [Nodes -> Nodes]] /\ walk[0] = Stay
      /\ \A k \in Nat : walk[k + 1] = Onward(walk[k])
  BY WalkIs, Zenon DEF ListTypes
<1>2. walk[0][t] = t
  BY <1>1 DEF Stay
<1>3. \A k \in Nat : walk[k][t] \in Nodes /\ walk[k + 1][t] = nnext[walk[k][t]]
  BY <1>1, Zenon DEF Onward
<1>. DEFINE T == {k \in Nat : nstate[walk[k][t]] = "ring"}
<1>4. 0 \in T
  BY <1>2
<1>5. ASSUME NEW k \in Nat, k \in T PROVE k + 1 \in T
  <2>1. nstate[nnext[walk[k][t]]] = "ring"
    BY <1>3, <1>5, Zenon DEF Linked
  <2>2. k + 1 \in Nat
    OBVIOUS
  <2>. QED BY <1>3, <2>1, <2>2, Zenon
<1>6. Nat \subseteq T
  <2>. HIDE DEF T
  <2>. QED BY <1>4, <1>5, SetInduction
<1>7. ASSUME NEW k \in Nat
      PROVE  nstate[walk[k][t]] = "ring" /\ nprev[walk[k + 1][t]] = walk[k][t]
  <2>1. nstate[walk[k][t]] = "ring"
    BY <1>6, Zenon
  <2>2. nprev[nnext[walk[k][t]]] = walk[k][t]
    BY <1>3, <2>1, Zenon DEF Linked
  <2>. QED BY <1>3, <2>1, <2>2, Zenon
<1>. QED BY <1>2, <1>3, <1>7, Zenon

(* It comes back after as many steps as there are nodes at most: it meets  *)
(* some node twice, and then, going backwards from there, its beginning.   *)
LEMMA WalkComesBack ==
  ASSUME ListTypes, Linked, NEW t \in Nodes, nstate[t] = "ring"
  PROVE  \E p \in 1 .. Cardinality(Nodes) : walk[p][t] = t
<1>1. PICK N \in Nat : N = Cardinality(Nodes)
  BY ListAssumption, FS_CardinalityType, Zenon
<1>. DEFINE w(k) == walk[k][t]
<1>2. /\ w(0) = t
      /\ \A k \in Nat : w(k) \in Nodes /\ nprev[w(k + 1)] = w(k)
  BY WalkInRing, Zenon
<1>. HIDE DEF w
<1>3. PICK x \in 0 .. N, y \in 0 .. N : x # y /\ w(x) = w(y)
  <2>1. PICK f : f = [k \in 0 .. N |-> w(k)]
    OBVIOUS
  <2>2. f \in [0 .. N -> Nodes]
    BY <1>2, <2>1
  <2>3. IsFiniteSet(0 .. N) /\ Cardinality(0 .. N) = N + 1
    <3>1. 0 \in Int /\ N \in Int /\ ~(0 > N) /\ N - 0 + 1 = N + 1
      OBVIOUS
    <3>2. IsFiniteSet(0 .. N) /\ Cardinality(0 .. N) = N - 0 + 1
      BY <3>1, FS_Interval
    <3>. QED BY <3>1, <3>2
  <2>4. Cardinality(Nodes) < Cardinality(0 .. N)
    BY <1>1, <2>3
  <2>5. \E x, y \in 0 .. N : x # y /\ f[x] = f[y]
    BY <2>2, <2>3, <2>4, ListAssumption, FS_PigeonHole, Zenon
  <2>. QED BY <2>1, <2>5
<1>4. PICK i \in Nat, p \in 1 .. N : w(i) = w(i + p)
  <2>1. CASE x < y
    <3>1. x \in Nat /\ y - x \in 1 .. N /\ x + (y - x) = y
      BY <2>1
    <3>. QED BY <1>3, <3>1
  <2>2. CASE y < x
    <3>1. y \in Nat /\ x - y \in 1 .. N /\ y + (x - y) = x
      BY <2>2
    <3>. QED BY <1>3, <3>1
  <2>. QED BY <1>3, <2>1, <2>2
<1>. DEFINE S == {j \in Nat : w(j) = w(j + p) => w(p) = t}
<1>5. 0 \in S
  <2>1. 0 + p = p
    OBVIOUS
  <2>. QED BY <1>2, <2>1
<1>6. ASSUME NEW j \in Nat, j \in S PROVE j + 1 \in S
  <2>1. j + 1 \in Nat /\ j + p \in Nat /\ (j + 1) + p = (j + p) + 1
    OBVIOUS
  <2>2. w(j + 1) = w((j + p) + 1) => w(j) = w(j + p)
    BY <1>2, <2>1, Zenon
  <2>. QED BY <1>6, <2>1, <2>2
<1>7. Nat \subseteq S
  <2>. HIDE DEF S
  <2>. QED BY <1>5, <1>6, SetInduction
<1>8. w(p) = t
  BY <1>4, <1>7, Zenon
<1>. QED BY <1>1, <1>8, Zenon DEF w

(* So what destroy_all comes to is closed in both directions.              *)
LEMMA RingClosed ==
  ASSUME ListTypes, Linked, NEW t \in Nodes, nstate[t] = "ring"
  PROVE  /\ t \in RingOf(t)
         /\ \A n \in RingOf(t) : /\ n \in Nodes /\ nstate[n] = "ring"
                                 /\ nnext[n] \in RingOf(t) /\ nprev[n] \in RingOf(t)
<1>1. PICK N \in Nat : N = Cardinality(Nodes)
  BY ListAssumption, FS_CardinalityType, Zenon
<1>. DEFINE w(k) == walk[k][t]
<1>2. /\ w(0) = t
      /\ \A k \in Nat : /\ w(k) \in Nodes /\ nstate[w(k)] = "ring"
                        /\ w(k + 1) = nnext[w(k)] /\ nprev[w(k + 1)] = w(k)
  BY WalkInRing, Zenon
<1>3. PICK p \in 1 .. N : w(p) = t
  BY <1>1, WalkComesBack, Zenon
<1>4. RingOf(t) = {w(k) : k \in 0 .. N}
  BY <1>1, Zenon DEF RingOf
<1>. HIDE DEF w
<1>. DEFINE S == {j \in Nat : w(j + p) = w(j)}
<1>5. 0 \in S
  <2>1. 0 + p = p
    OBVIOUS
  <2>. QED BY <1>2, <1>3, <2>1
<1>6. ASSUME NEW j \in Nat, j \in S PROVE j + 1 \in S
  <2>1. j + 1 \in Nat /\ j + p \in Nat /\ (j + 1) + p = (j + p) + 1
    OBVIOUS
  <2>2. w((j + p) + 1) = w(j + 1)
    BY <1>2, <1>6, <2>1
  <2>. QED BY <2>1, <2>2
<1>7. Nat \subseteq S
  <2>. HIDE DEF S
  <2>. QED BY <1>5, <1>6, SetInduction
<1>8. ASSUME NEW i \in 0 .. N PROVE nnext[w(i)] \in RingOf(t)
  <2>1. CASE i < N
    <3>1. i \in Nat /\ i + 1 \in 0 .. N
      BY <2>1
    <3>. QED BY <1>2, <1>4, <3>1, Zenon
  <2>2. CASE i = N
    <3>1. PICK j \in 0 .. N : j = (N + 1) - p
      OBVIOUS
    <3>2. j \in Nat /\ j + p = i + 1 /\ i \in Nat
      BY <2>2, <3>1
    <3>3. nnext[w(i)] = w(i + 1)
      BY <1>2, <3>2, Zenon
    <3>4. w(j + p) = w(j)
      BY <1>7, <3>2, Zenon
    <3>. QED BY <1>4, <3>2, <3>3, <3>4
  <2>. QED BY <2>1, <2>2
<1>9. ASSUME NEW i \in 0 .. N PROVE nprev[w(i)] \in RingOf(t)
  <2>1. CASE i # 0
    <3>1. PICK j \in 0 .. N : i = j + 1
      <4>1. i - 1 \in 0 .. N /\ i = (i - 1) + 1
        BY <2>1
      <4>. QED BY <4>1
    <3>2. j \in Nat
      OBVIOUS
    <3>. QED BY <1>2, <1>4, <3>1, <3>2
  <2>2. CASE i = 0
    <3>1. PICK j \in 0 .. N : p = j + 1
      <4>1. p - 1 \in 0 .. N /\ p = (p - 1) + 1
        OBVIOUS
      <4>. QED BY <4>1
    <3>2. j \in Nat
      OBVIOUS
    <3>3. nprev[w(p)] = w(j)
      BY <1>2, <3>1, <3>2
    <3>. QED BY <1>2, <1>3, <1>4, <2>2, <3>3
  <2>. QED BY <2>1, <2>2
<1>10. t \in RingOf(t)
  <2>1. 0 \in 0 .. N
    OBVIOUS
  <2>. QED BY <1>2, <1>4, <2>1
<1>11. \A i \in 0 .. N : w(i) \in Nodes /\ nstate[w(i)] = "ring"
  BY <1>2
<1>. QED BY <1>4, <1>8, <1>9, <1>10, <1>11, Zenon

(* Rings are as promised.                                                  *)
LEMMA RingsShow == LinkInv => RingsIntact
<1>. SUFFICES ASSUME LinkInv, ~spoiled, NEW n \in Nodes, nstate[n] = "ring"
              PROVE  /\ nprev[nnext[n]] = n /\ nnext[nprev[n]] = n
                     /\ nstate[nnext[n]] = "ring" /\ n \in RingOf(nnext[n])
  BY Zenon DEF RingsIntact
<1>1. ListTypes /\ Linked
  BY Zenon DEF LinkInv
<1>2. /\ nprev[nnext[n]] = n /\ nnext[nprev[n]] = n /\ nstate[nnext[n]] = "ring"
      /\ nnext[n] \in Nodes
  BY <1>1 DEF Linked, ListTypes
<1>3. PICK t \in Nodes : t = nnext[n]
  BY <1>2
<1>4. t \in RingOf(t) /\ \A m \in RingOf(t) : nprev[m] \in RingOf(t)
  BY <1>1, <1>2, <1>3, RingClosed, Zenon
<1>. QED BY <1>2, <1>3, <1>4

LEMMA LinkInvInit == ListInit => LinkInv
BY DEF ListInit, LinkInv, ListTypes, Linked

(* A node linked in behind l comes between l and its neighbour.            *)
LEMMA InsertKeeps ==
  ASSUME LinkInv, ~spoiled, NEW l \in Nodes, NEW t \in Nodes, InsertAfter(l, t)
  PROVE  LinkInv'
<1>1. ListTypes /\ Linked
  BY Zenon DEF LinkInv
<1>2. PICK r \in Nodes : r = nnext[l]
  BY <1>1 DEF ListTypes
<1>3. /\ nstate[l] = "ring" /\ l # t /\ nnext' = [nnext EXCEPT ![l] = t, ![t] = r]
      /\ nprev' = [nprev EXCEPT ![t] = l, ![r] = t]
      /\ nstate' = [nstate EXCEPT ![t] = "ring"] /\ spoiled' = spoiled
      /\ nstate[t] = "removed" \/ (nstate[t] = "ring" /\ nnext[t] = t)
  BY <1>2, Zenon DEF InsertAfter, Alone
<1>4. nstate[r] = "ring" /\ nprev[r] = l
  BY <1>1, <1>2, <1>3, Zenon DEF Linked
<1>5. r # t
  <2>1. nstate[t] = "ring" /\ nnext[t] = t => nprev[t] = t
    BY <1>1, Zenon DEF Linked
  <2>. QED BY <1>3, <1>4, <2>1
<1>6. ListTypes'
  BY <1>1, <1>3 DEF ListTypes
<1>7. ASSUME NEW n \in Nodes, nstate'[n] = "ring"
      PROVE  /\ nprev'[nnext'[n]] = n /\ nnext'[nprev'[n]] = n
             /\ nstate'[nnext'[n]] = "ring" /\ nstate'[nprev'[n]] = "ring"
  <2>1. /\ nnext'[l] = t /\ nnext'[t] = r /\ nprev'[t] = l /\ nprev'[r] = t
        /\ nstate'[t] = "ring" /\ nstate'[l] = "ring" /\ nstate'[r] = "ring"
    BY <1>1, <1>3, <1>4, <1>5 DEF ListTypes
  <2>2. \A m \in Nodes : /\ m # l /\ m # t => nnext'[m] = nnext[m]
                         /\ m # r /\ m # t => nprev'[m] = nprev[m]
                         /\ m # t => nstate'[m] = nstate[m]
    BY <1>1, <1>3 DEF ListTypes
  <2>3. CASE n = t
    BY <2>1, <2>3
  <2>4. CASE n # t
    <3>1. /\ nstate[n] = "ring" /\ nnext[n] \in Nodes /\ nprev[n] \in Nodes
          /\ nprev[nnext[n]] = n /\ nnext[nprev[n]] = n
          /\ nstate[nnext[n]] = "ring" /\ nstate[nprev[n]] = "ring"
      BY <1>1, <1>7, <2>2, <2>4 DEF Linked, ListTypes
    <3>2. nnext[n] # t /\ nprev[n] # t
      <4>1. nstate[t] = "ring" /\ nnext[t] = t => nprev[t] = t
        BY <1>1, Zenon DEF Linked
      <4>. QED BY <1>3, <2>4, <3>1, <4>1
    <3>3. n # l => nnext'[n] = nnext[n] /\ nprev'[nnext[n]] = n /\ nstate'[nnext[n]] = "ring"
      <4>1. n # l => nnext[n] # r
        BY <1>4, <3>1
      <4>. QED BY <2>2, <2>4, <3>1, <3>2, <4>1
    <3>4. n # r => nprev'[n] = nprev[n] /\ nnext'[nprev[n]] = n /\ nstate'[nprev[n]] = "ring"
      <4>1. n # r => nprev[n] # l
        BY <1>2, <3>1
      <4>. QED BY <2>2, <2>4, <3>1, <3>2, <4>1
    <3>. QED BY <2>1, <3>3, <3>4
  <2>. QED BY <2>3, <2>4
<1>. QED BY <1>3, <1>6, <1>7, Zenon DEF LinkInv, Linked

(* A node of a ring that is taken out, whatever becomes of it.             *)
LEMMA UnlinkKeeps ==
  ASSUME ListTypes, Linked, NEW t \in Nodes, nstate[t] = "ring", Unlink(t),
         NEW z \in {"removed", "freed"}, nstate' = [nstate EXCEPT ![t] = z], spoiled' \in BOOLEAN
  PROVE  ListTypes' /\ Linked'
<1>1. PICK p \in Nodes, r \in Nodes : p = nprev[t] /\ r = nnext[t]
  BY DEF ListTypes
<1>2. nnext' = [nnext EXCEPT ![p] = r] /\ nprev' = [nprev EXCEPT ![r] = p]
  BY <1>1, Zenon DEF Unlink
<1>3. nnext[p] = t /\ nprev[r] = t
  BY <1>1, Zenon DEF Linked
<1>4. ListTypes'
  BY <1>2 DEF ListTypes
<1>5. ASSUME NEW n \in Nodes, nstate'[n] = "ring"
      PROVE  /\ nprev'[nnext'[n]] = n /\ nnext'[nprev'[n]] = n
             /\ nstate'[nnext'[n]] = "ring" /\ nstate'[nprev'[n]] = "ring"
  <2>1. nnext'[p] = r /\ nprev'[r] = p
    BY <1>2 DEF ListTypes
  <2>2. \A m \in Nodes : /\ m # p => nnext'[m] = nnext[m]
                         /\ m # r => nprev'[m] = nprev[m]
                         /\ m # t => nstate'[m] = nstate[m]
    BY <1>2 DEF ListTypes
  <2>3. n # t
    BY <1>5 DEF ListTypes
  <2>4. /\ nstate[n] = "ring" /\ nnext[n] \in Nodes /\ nprev[n] \in Nodes
        /\ nprev[nnext[n]] = n /\ nnext[nprev[n]] = n
        /\ nstate[nnext[n]] = "ring" /\ nstate[nprev[n]] = "ring"
    BY <1>5, <2>2, <2>3 DEF Linked, ListTypes
  <2>5. nstate[p] = "ring" /\ nstate[r] = "ring"
    BY <1>1, Zenon DEF Linked
  <2>6. CASE n = p
    <3>1. r # t
      BY <1>1, <1>3, <2>3, <2>6
    <3>2. nnext'[n] = r /\ nprev'[r] = n /\ nstate'[r] = "ring"
      BY <2>1, <2>2, <2>5, <2>6, <3>1
    <3>3. nstate'[nprev'[n]] = "ring" /\ nnext'[nprev'[n]] = n
      <4>1. CASE n = r
        BY <2>1, <2>2, <2>5, <2>3, <2>6, <4>1
      <4>2. CASE n # r
        <5>1. nprev'[n] = nprev[n] /\ nprev[n] # t /\ nprev[n] # p
          BY <1>1, <1>3, <2>2, <2>3, <2>4, <2>6, <4>2
        <5>. QED BY <2>2, <2>4, <5>1
      <4>. QED BY <4>1, <4>2
    <3>. QED BY <3>2, <3>3
  <2>7. CASE n # p
    <3>1. nnext[n] # t /\ nnext[n] # r
      BY <1>1, <1>3, <2>3, <2>4, <2>7
    <3>2. nnext'[n] = nnext[n] /\ nprev'[nnext[n]] = n /\ nstate'[nnext[n]] = "ring"
      BY <2>2, <2>4, <2>7, <3>1
    <3>3. nstate'[nprev'[n]] = "ring" /\ nnext'[nprev'[n]] = n
      <4>1. CASE n = r
        <5>1. p # t
          BY <1>1, <1>3, <2>3, <4>1
        <5>. QED BY <2>1, <2>2, <2>5, <4>1, <5>1
      <4>2. CASE n # r
        <5>1. nprev'[n] = nprev[n] /\ nprev[n] # t /\ nprev[n] # p
          BY <1>1, <1>3, <2>2, <2>3, <2>4, <4>2
        <5>. QED BY <2>2, <2>4, <5>1
      <4>. QED BY <4>1, <4>2
    <3>. QED BY <3>2, <3>3
  <2>. QED BY <2>6, <2>7
<1>. QED BY <1>4, <1>5, Zenon DEF Linked

(* Removing, and destroying, a node; of one that was removed before only   *)
(* while its neighbours are as they were.                                  *)
LEMMA TakeOutKeeps ==
  ASSUME LinkInv, ~spoiled, NEW t \in Nodes, RemoveNode(t) \/ Destroy(t)
  PROVE  LinkInv'
<1>1. ListTypes /\ Linked
  BY Zenon DEF LinkInv
<1>2. CASE RemoveNode(t)
  <2>1. /\ nstate[t] = "ring" /\ Unlink(t) /\ nstate' = [nstate EXCEPT ![t] = "removed"]
        /\ spoiled' = spoiled
    BY <1>2, Zenon DEF RemoveNode
  <2>2. spoiled' \in BOOLEAN
    BY <1>1, <2>1, Zenon DEF ListTypes
  <2>3. ListTypes' /\ Linked'
    BY <1>1, <2>1, <2>2, UnlinkKeeps
  <2>. QED BY <2>3, Zenon DEF LinkInv
<1>3. CASE Destroy(t)
  <2>1. /\ nstate[t] \in {"ring", "removed"} /\ Unlink(t)
        /\ nstate' = [nstate EXCEPT ![t] = "freed"]
        /\ spoiled' = (nstate[t] = "removed" /\ ~Harmless(t))
    BY <1>3, Zenon DEF Destroy
  <2>2. spoiled' \in BOOLEAN
    BY <2>1, Zenon
  <2>3. CASE nstate[t] = "ring"
    <3>1. ListTypes' /\ Linked'
      BY <1>1, <2>1, <2>2, <2>3, UnlinkKeeps
    <3>. QED BY <3>1, Zenon DEF LinkInv
  <2>4. CASE nstate[t] = "removed"
    <3>1. ListTypes'
      <4>1. nnext' \in [Nodes -> Nodes] /\ nprev' \in [Nodes -> Nodes]
        BY <1>1, <2>1 DEF ListTypes, Unlink
      <4>2. nstate' \in [Nodes -> {"none", "ring", "removed", "freed"}]
        BY <1>1, <2>1 DEF ListTypes
      <4>. QED BY <2>2, <4>1, <4>2, Zenon DEF ListTypes
    <3>2. ASSUME ~spoiled' PROVE Linked'
      <4>1. nnext[nprev[t]] = nnext[t] /\ nprev[nnext[t]] = nprev[t]
        BY <2>1, <2>4, <3>2, Zenon DEF Harmless
      <4>2. nnext' = nnext /\ nprev' = nprev
        BY <1>1, <2>1, <4>1 DEF ListTypes, Unlink
      <4>3. \A n \in Nodes : nstate'[n] = "ring" <=> nstate[n] = "ring"
        BY <1>1, <2>1, <2>4 DEF ListTypes
      <4>4. \A n \in Nodes : nnext[n] \in Nodes /\ nprev[n] \in Nodes
        BY <1>1 DEF ListTypes
      <4>. QED BY <1>1, <4>2, <4>3, <4>4, Zenon DEF Linked
    <3>. QED BY <3>1, <3>2, Zenon DEF LinkInv
  <2>. QED BY <2>1, <2>3, <2>4, Zenon
<1>. QED BY <1>2, <1>3

(* destroy_all takes whole rings.                                          *)
LEMMA DestroyAllKeeps ==
  ASSUME LinkInv, ~spoiled, NEW t \in Nodes, DestroyAll(t)
  PROVE  LinkInv'
<1>1. ListTypes /\ Linked
  BY Zenon DEF LinkInv
<1>2. /\ nstate[t] = "ring" /\ UNCHANGED <<nprev, nnext, spoiled>>
      /\ nstate' = [n \in Nodes |-> IF n \in RingOf(t) THEN "freed" ELSE nstate[n]]
  BY Zenon DEF DestroyAll
<1>3. \A n \in RingOf(t) : n \in Nodes /\ nnext[n] \in RingOf(t) /\ nprev[n] \in RingOf(t)
  BY <1>1, <1>2, RingClosed, Zenon
<1>4. ListTypes'
  <2>1. \A n \in Nodes : nstate[n] \in {"none", "ring", "removed", "freed"}
    BY <1>1 DEF ListTypes
  <2>2. \A n \in Nodes : (IF n \in RingOf(t) THEN "freed" ELSE nstate[n]) \in {"none", "ring", "removed", "freed"}
    BY <2>1, Zenon
  <2>3. nstate' \in [Nodes -> {"none", "ring", "removed", "freed"}]
    BY <1>2, <2>2, Zenon
  <2>. QED BY <1>1, <1>2, <2>3, Zenon DEF ListTypes
<1>5. ASSUME NEW n \in Nodes, nstate'[n] = "ring"
      PROVE  /\ nprev[nnext[n]] = n /\ nnext[nprev[n]] = n
             /\ nstate'[nnext[n]] = "ring" /\ nstate'[nprev[n]] = "ring"
  <2>1. n \notin RingOf(t) /\ nstate[n] = "ring"
    BY <1>2, <1>5
  <2>2. /\ nprev[nnext[n]] = n /\ nnext[nprev[n]] = n /\ nnext[n] \in Nodes /\ nprev[n] \in Nodes
        /\ nstate[nnext[n]] = "ring" /\ nstate[nprev[n]] = "ring"
    BY <1>1, <2>1 DEF Linked, ListTypes
  <2>3. nnext[n] \notin RingOf(t) /\ nprev[n] \notin RingOf(t)
    BY <1>3, <2>1, <2>2
  <2>. QED BY <1>2, <2>2, <2>3
<1>. QED BY <1>2, <1>4, <1>5, Zenon DEF LinkInv, Linked

(* Rings stay rings, whatever is linked and taken out.                     *)
LEMMA LinkInvStep == LinkInv /\ [ListNext]_listVars => LinkInv'
<1>. SUFFICES ASSUME LinkInv, [ListNext]_listVars PROVE LinkInv'
  OBVIOUS
<1>1. CASE UNCHANGED listVars
  <2>1. UNCHANGED <<nprev, nnext, nstate, spoiled>>
    BY <1>1, Zenon DEF listVars
  <2>. QED BY <2>1, Zenon DEF LinkInv, ListTypes, Linked
<1>2. CASE ListNext
  <2>1. ~spoiled
    BY <1>2, Zenon DEF ListNext
  <2>2. ASSUME NEW n \in Nodes, Create(n) PROVE LinkInv'
    <3>1. /\ nstate[n] = "none" /\ nstate' = [nstate EXCEPT ![n] = "ring"] /\ spoiled' = spoiled
          /\ nprev' = [nprev EXCEPT ![n] = n] /\ nnext' = [nnext EXCEPT ![n] = n]
      BY <2>2, Zenon DEF Create
    <3>. QED BY <2>1, <3>1 DEF LinkInv, ListTypes, Linked
  <2>. QED BY <1>2, <2>1, <2>2, InsertKeeps, TakeOutKeeps, DestroyAllKeeps, Zenon DEF ListNext
<1>. QED BY <1>1, <1>2

-----------------------------------------------------------------------------
(* The spline's points are counted by pushes while it is the subject.      *)
StoresInv ==
  /\ FrameInv /\ LinkInv
  /\ subject = "spline" => SplineHolds(pushes)
  /\ subject # "spline" => SplineHolds(0)

LEMMA StoresStep ==
  ASSUME StoresInv, [LibraryNext]_libraryVars
  PROVE  StoresInv'
<1>1. /\ UNCHANGED subject
      /\ \/ subject = "frames" /\ FramesNext
         \/ subject = "spline" /\ SplineNext
         \/ UNCHANGED frameVars
  BY Zenon DEF LibraryNext, Rest, libraryVars
<1>2. [ListNext]_listVars
  BY Zenon DEF LibraryNext, Rest, libraryVars
<1>3. FrameInv' /\ LinkInv'
  BY <1>1, <1>2, FrameInvStep, LinkInvStep DEF StoresInv
<1>4. ASSUME UNCHANGED spline PROVE \A n : SplineHolds(n) => SplineHolds(n)'
  BY <1>4, Zenon DEF SplineHolds
<1>5. CASE subject = "frames" /\ FramesNext
  <2>1. UNCHANGED spline
    BY <1>5, Zenon DEF FramesNext, MoveFwd, MoveBck, PopBack, Reserve
  <2>2. subject # "spline"
    BY <1>5
  <2>. QED BY <1>1, <1>3, <1>4, <2>1, <2>2, Zenon DEF StoresInv
<1>6. CASE subject = "spline" /\ SplineNext
  <2>1. PICK n \in Nat : n = pushes
    BY FrameFacts DEF StoresInv
  <2>2. SplineHolds(n) /\ AddPoint
    BY <1>6, <2>1, Zenon DEF StoresInv, SplineNext
  <2>3. pushes' = n + 1 /\ SplineHolds(n + 1)'
    BY <2>1, <2>2, SplineStep
  <2>. QED BY <1>1, <1>3, <1>6, <2>3, Zenon DEF StoresInv
<1>7. CASE UNCHANGED frameVars
  <2>1. UNCHANGED spline /\ UNCHANGED pushes
    BY <1>7, Zenon DEF frameVars
  <2>. QED BY <1>1, <1>3, <1>4, <2>1, Zenon DEF StoresInv
<1>. QED BY <1>1, <1>5, <1>6, <1>7

LEMMA StoresShow == StoresInv => StoresExact
<1>. SUFFICES ASSUME StoresInv PROVE StoresExact
  OBVIOUS
<1>1. FrameIsWindow /\ RingsIntact
  BY FrameShows, RingsShow DEF StoresInv
<1>2. pushes \in Nat /\ 0 \in Nat
  BY FrameFacts DEF StoresInv
<1>3. SplineFollows
  <2>1. CASE subject = "spline"
    BY <1>2, <2>1, SplineShows, Zenon DEF StoresInv
  <2>2. CASE subject # "spline"
    BY <1>2, <2>2, SplineShows, Zenon DEF StoresInv
  <2>. QED BY <2>1, <2>2
<1>. QED BY <1>1, <1>3, Zenon DEF StoresExact, FramesExact

(* However frames are moved, popped and grown they show the newest values, *)
(* the spline on two of them the segments of its newest points, and rings  *)
(* of nodes stay rings of living nodes that a walk goes round              *)
(* (static_frame.hpp:54-110, b_spline.hpp:48, list.hpp:35-90).             *)
THEOREM StoresStayExact == LibrarySpec => []StoresExact
<1>1. LibraryInit => StoresInv
  <2>. SUFFICES ASSUME LibraryInit PROVE StoresInv
    OBVIOUS
  <2>1. FrameInv /\ LinkInv /\ SplineHolds(0)
    BY FrameInvInit, LinkInvInit, SplineInit DEF LibraryInit
  <2>2. pushes = 0
    BY DEF LibraryInit, FramesInit
  <2>. QED BY <2>1, <2>2 DEF StoresInv
<1>2. StoresInv /\ [LibraryNext]_libraryVars => StoresInv'
  BY StoresStep
<1>. QED BY <1>1, <1>2, StoresShow, PTL DEF LibrarySpec

-----------------------------------------------------------------------------
(* The heap.                                                               *)

(* What the blocks of a set hold of their last pages, taken one by one.    *)
Held(S) == MapThenSumSet(Charged, S)
OneOf(s) == CHOOSE x \in s : TRUE
HeldStep(g, s) == IF s = {} THEN 0 ELSE Charged(OneOf(s)) + g[s \ {OneOf(s)}]
Sums(g, D) == g = [s \in D |-> HeldStep(g, s)]
UpTo(S, n) == {s \in SUBSET S : Cardinality(s) <= n}

LEMMA HeldUnfolds ==
  ASSUME NEW S
  PROVE  Held(S) = (CHOOSE g : Sums(g, SUBSET S))[S]
BY DEF Held, MapThenSumSet, MapThenFoldSet, Sums, HeldStep, OneOf

LEMMA OneLess ==
  ASSUME NEW s, IsFiniteSet(s), s # {}
  PROVE  /\ OneOf(s) \in s /\ IsFiniteSet(s \ {OneOf(s)})
         /\ Cardinality(s) \in Nat /\ Cardinality(s) > 0
         /\ Cardinality(s \ {OneOf(s)}) = Cardinality(s) - 1
<1>1. OneOf(s) \in s
  BY Zenon DEF OneOf
<1>2. IsFiniteSet(s \ {OneOf(s)}) /\ Cardinality(s \ {OneOf(s)}) = Cardinality(s) - 1
  BY <1>1, FS_RemoveElement
<1>3. Cardinality(s) \in Nat /\ Cardinality(s) > 0
  BY FS_CardinalityType, FS_EmptySet
<1>. QED BY <1>1, <1>2, <1>3

(* Such sums exist, built for larger and larger sets.                      *)
LEMMA SumsExist ==
  ASSUME NEW S, IsFiniteSet(S)
  PROVE  \E g : Sums(g, SUBSET S)
<1>. DEFINE N == {n \in Nat : \E g : Sums(g, UpTo(S, n))}
<1>0. \A s \in SUBSET S : IsFiniteSet(s) /\ Cardinality(s) \in Nat /\ Cardinality(s) <= Cardinality(S)
  BY FS_Subset, FS_CardinalityType
<1>1. 0 \in N
  <2>1. PICK g : g = [s \in UpTo(S, 0) |-> 0]
    OBVIOUS
  <2>2. ASSUME NEW s \in UpTo(S, 0) PROVE s = {}
    BY <1>0, <2>2, FS_EmptySet DEF UpTo
  <2>3. Sums(g, UpTo(S, 0))
    BY <2>1, <2>2, Zenon DEF Sums, HeldStep
  <2>. QED BY <2>3
<1>2. ASSUME NEW n \in Nat, n \in N PROVE n + 1 \in N
  <2>1. PICK g : Sums(g, UpTo(S, n))
    BY <1>2
  <2>2. PICK h : h = [s \in UpTo(S, n + 1) |-> HeldStep(g, s)]
    OBVIOUS
  <2>3. \A s \in UpTo(S, n) : g[s] = HeldStep(g, s)
    BY <2>1, Zenon DEF Sums
  <2>4. \A s \in UpTo(S, n) : s \in UpTo(S, n + 1)
    BY <1>0 DEF UpTo
  <2>5. \A s \in UpTo(S, n) : h[s] = g[s]
    BY <2>2, <2>3, <2>4, Zenon
  <2>6. ASSUME NEW s \in UpTo(S, n + 1) PROVE HeldStep(h, s) = HeldStep(g, s)
    <3>1. CASE s = {}
      BY <3>1 DEF HeldStep
    <3>2. CASE s # {}
      <4>1. IsFiniteSet(s) /\ s \in SUBSET S /\ Cardinality(s) <= n + 1
        BY <1>0, <2>6 DEF UpTo
      <4>2. Cardinality(s \ {OneOf(s)}) <= n
        BY <3>2, <4>1, OneLess
      <4>3. s \ {OneOf(s)} \in UpTo(S, n)
        BY <4>1, <4>2, Zenon DEF UpTo
      <4>. QED BY <2>5, <4>3, Zenon DEF HeldStep
    <3>. QED BY <3>1, <3>2
  <2>7. Sums(h, UpTo(S, n + 1))
    <3>1. h = [s \in UpTo(S, n + 1) |-> HeldStep(h, s)]
      BY <2>2, <2>6, Zenon
    <3>. QED BY <3>1, Zenon DEF Sums
  <2>. QED BY <2>7
<1>3. Cardinality(S) \in N
  <2>. HIDE DEF N
  <2>1. Nat \subseteq N
    BY <1>1, <1>2, SetInduction
  <2>. QED BY <2>1, FS_CardinalityType
<1>4. UpTo(S, Cardinality(S)) = SUBSET S
  BY <1>0, Zenon DEF UpTo
<1>. QED BY <1>3, <1>4

(* There is one: two of them agree wherever both are defined.              *)
LEMMA SumsAgree ==
  ASSUME NEW S, NEW T, NEW g, NEW h, IsFiniteSet(T), T \subseteq S,
         Sums(g, SUBSET S), Sums(h, SUBSET T)
  PROVE  g[T] = h[T]
<1>. DEFINE N == {n \in Nat : \A s \in SUBSET T : Cardinality(s) = n => g[s] = h[s]}
<1>0. \A s \in SUBSET T : IsFiniteSet(s) /\ Cardinality(s) \in Nat
  BY FS_Subset, FS_CardinalityType
<1>1. \A s \in SUBSET T : g[s] = HeldStep(g, s) /\ h[s] = HeldStep(h, s)
  <2>1. \A s \in SUBSET T : s \in SUBSET S
    OBVIOUS
  <2>. QED BY <2>1, Zenon DEF Sums
<1>2. 0 \in N
  <2>1. ASSUME NEW s \in SUBSET T, Cardinality(s) = 0 PROVE g[s] = h[s]
    <3>1. s = {}
      BY <1>0, <2>1, FS_EmptySet
    <3>. QED BY <1>1, <3>1, Zenon DEF HeldStep
  <2>. QED BY <2>1
<1>3. ASSUME NEW n \in Nat, n \in N PROVE n + 1 \in N
  <2>1. ASSUME NEW s \in SUBSET T, Cardinality(s) = n + 1 PROVE g[s] = h[s]
    <3>1. s # {} /\ IsFiniteSet(s)
      BY <1>0, <2>1, FS_EmptySet
    <3>2. Cardinality(s \ {OneOf(s)}) = n /\ s \ {OneOf(s)} \in SUBSET T
      <4>1. Cardinality(s \ {OneOf(s)}) = Cardinality(s) - 1
        BY <3>1, OneLess
      <4>. QED BY <2>1, <4>1
    <3>3. g[s \ {OneOf(s)}] = h[s \ {OneOf(s)}]
      BY <1>3, <3>2
    <3>. QED BY <1>1, <3>1, <3>3, Zenon DEF HeldStep
  <2>. QED BY <2>1
<1>4. Cardinality(T) \in N
  <2>. HIDE DEF N
  <2>1. Nat \subseteq N
    BY <1>2, <1>3, SetInduction
  <2>. QED BY <2>1, FS_CardinalityType
<1>. QED BY <1>4

LEMMA HeldIs ==
  ASSUME NEW S, IsFiniteSet(S)
  PROVE  /\ S = {} => Held(S) = 0
         /\ S # {} => Held(S) = Charged(OneOf(S)) + Held(S \ {OneOf(S)})
<1>1. PICK g : Sums(g, SUBSET S) /\ Held(S) = g[S]
  BY SumsExist, HeldUnfolds, Zenon
<1>2. g[S] = HeldStep(g, S)
  <2>1. S \in SUBSET S
    OBVIOUS
  <2>. QED BY <1>1, <2>1, Zenon DEF Sums
<1>3. CASE S = {}
  BY <1>1, <1>2, <1>3, Zenon DEF HeldStep
<1>4. CASE S # {}
  <2>1. PICK T : T = S \ {OneOf(S)}
    OBVIOUS
  <2>2. IsFiniteSet(T) /\ T \subseteq S
    BY <1>4, <2>1, OneLess
  <2>3. PICK h : Sums(h, SUBSET T) /\ Held(T) = h[T]
    BY <2>2, SumsExist, HeldUnfolds, Zenon
  <2>4. g[T] = h[T]
    BY <1>1, <2>2, <2>3, SumsAgree
  <2>. QED BY <1>1, <1>2, <1>4, <2>1, <2>3, <2>4, Zenon DEF HeldStep
<1>. QED BY <1>3, <1>4

(* The sum does not depend on which block is taken first.                  *)
LEMMA HeldWithout ==
  ASSUME NEW S, IsFiniteSet(S), \A b \in S : Charged(b) \in Nat
  PROVE  Held(S) \in Nat /\ \A x \in S : Held(S) = Charged(x) + Held(S \ {x}) /\ Held(S \ {x}) \in Nat
<1>. DEFINE AnyOrder(T) == Held(T) \in Nat
                        /\ \A x \in T : Held(T) = Charged(x) + Held(T \ {x}) /\ Held(T \ {x}) \in Nat
            N == {n \in Nat : \A T \in SUBSET S : Cardinality(T) = n => AnyOrder(T)}
<1>0. \A T \in SUBSET S : IsFiniteSet(T) /\ Cardinality(T) \in Nat
  BY FS_Subset, FS_CardinalityType
<1>1. 0 \in N
  <2>1. ASSUME NEW T \in SUBSET S, Cardinality(T) = 0 PROVE AnyOrder(T)
    <3>1. T = {}
      BY <1>0, <2>1, FS_EmptySet
    <3>2. Held(T) = 0
      BY <1>0, <3>1, HeldIs
    <3>. QED BY <3>1, <3>2
  <2>. QED BY <2>1
<1>2. ASSUME NEW n \in Nat, n \in N PROVE n + 1 \in N
  <2>1. ASSUME NEW T \in SUBSET S, Cardinality(T) = n + 1 PROVE AnyOrder(T)
    <3>1. T # {} /\ IsFiniteSet(T)
      BY <1>0, <2>1, FS_EmptySet
    <3>2. PICK y \in T : y = OneOf(T)
      BY <3>1, OneLess
    <3>3. Held(T) = Charged(y) + Held(T \ {y})
      BY <3>1, <3>2, HeldIs
    <3>4. \A x \in T : T \ {x} \in SUBSET S /\ Cardinality(T \ {x}) = n
      <4>1. \A x \in T : Cardinality(T \ {x}) = Cardinality(T) - 1
        BY <3>1, FS_RemoveElement
      <4>. QED BY <2>1, <4>1
    <3>5. \A x \in T : AnyOrder(T \ {x})
      BY <1>2, <3>4
    <3>6. \A x \in T : Charged(x) \in Nat
      OBVIOUS
    <3>7. Held(T) \in Nat
      BY <3>2, <3>3, <3>5, <3>6
    <3>8. ASSUME NEW x \in T PROVE Held(T) = Charged(x) + Held(T \ {x}) /\ Held(T \ {x}) \in Nat
      <4>1. CASE x = y
        BY <3>3, <3>5, <4>1
      <4>2. CASE x # y
        <5>1. x \in T \ {y} /\ y \in T \ {x} /\ (T \ {y}) \ {x} = (T \ {x}) \ {y}
          BY <4>2
        <5>2. PICK r : r = Held((T \ {y}) \ {x})
          OBVIOUS
        <5>3. Held(T \ {y}) = Charged(x) + r /\ r \in Nat
          BY <3>5, <5>1, <5>2
        <5>4. Held(T \ {x}) = Charged(y) + r
          BY <3>5, <5>1, <5>2
        <5>. QED BY ONLY <3>3, <3>6, <5>3, <5>4
      <4>. QED BY <4>1, <4>2
    <3>. QED BY <3>7, <3>8
  <2>. QED BY <2>1
<1>3. Cardinality(S) \in N
  <2>. HIDE DEF N
  <2>1. Nat \subseteq N
    BY <1>1, <1>2, SetInduction
  <2>. QED BY <2>1, FS_CardinalityType
<1>. QED BY <1>3

(* The least of some numbers.                                              *)
LEMMA LeastOf ==
  ASSUME NEW S \in SUBSET Nat, S # {}
  PROVE  Min(S) \in S /\ \A y \in S : Min(S) <= y
<1>. DEFINE R == WF!OpToRel(<, Nat)
<1>1. WF!IsWellFoundedOn(R, Nat) BY WF!NatLessThanWellFounded
<1>2. PICK x \in S : \A y \in S : ~(<<y, x>> \in R)
  <2>. HIDE DEF R
  <2>. QED BY <1>1, WF!WFMin
<1>3. \A y \in S : x <= y
  <2>1. ASSUME NEW y \in S, y < x PROVE <<y, x>> \in R
    BY <2>1 DEF WF!OpToRel
  <2>2. \A y \in S : y < x \/ x <= y
    OBVIOUS
  <2>. HIDE DEF R
  <2>. QED BY <1>2, <2>1, <2>2, Zenon
<1>4. \E z \in S : \A y \in S : z <= y
  BY <1>3
<1>. QED BY <1>4, Zenon DEF Min

(* The scan word by word.                                                  *)
ScanStep(g, i, free, n) ==
  IF i = 0 THEN [start |-> NoPage, remains |-> n]
  ELSE ScanWord(g[i - 1], i - 1, Word(free, i - 1), n)
Scans(g, k, free, n) == g = [i \in 0 .. k |-> ScanStep(g, i, free, n)]

LEMMA ScanIs ==
  ASSUME NEW free, NEW n
  PROVE  Scans(ScanWords(free, n), NumBlocks, free, n)
<1>. DEFINE N == {k \in Nat : \E g : Scans(g, k, free, n)}
<1>1. 0 \in N
  <2>1. PICK g : g = [i \in 0 .. 0 |-> [start |-> NoPage, remains |-> n]]
    OBVIOUS
  <2>2. \A i \in 0 .. 0 : i = 0
    OBVIOUS
  <2>3. Scans(g, 0, free, n)
    BY <2>1, <2>2, Zenon DEF Scans, ScanStep
  <2>. QED BY <2>3
<1>2. ASSUME NEW k \in Nat, k \in N PROVE k + 1 \in N
  <2>1. PICK g : Scans(g, k, free, n)
    BY <1>2
  <2>2. PICK h : h = [i \in 0 .. k + 1 |-> ScanStep(g, i, free, n)]
    OBVIOUS
  <2>3. \A i \in 0 .. k : i \in 0 .. k + 1
    OBVIOUS
  <2>4. \A i \in 0 .. k : h[i] = g[i]
    BY <2>1, <2>2, <2>3, Zenon DEF Scans
  <2>5. \A i \in 0 .. k + 1 : i = 0 \/ i - 1 \in 0 .. k
    OBVIOUS
  <2>6. \A i \in 0 .. k + 1 : ScanStep(h, i, free, n) = ScanStep(g, i, free, n)
    BY <2>4, <2>5, Zenon DEF ScanStep
  <2>7. Scans(h, k + 1, free, n)
    <3>1. h = [i \in 0 .. k + 1 |-> ScanStep(h, i, free, n)]
      BY <2>2, <2>6, Zenon
    <3>. QED BY <3>1, Zenon DEF Scans
  <2>. QED BY <2>7
<1>3. NumBlocks \in N
  <2>. HIDE DEF N
  <2>1. Nat \subseteq N
    BY <1>1, <1>2, SetInduction
  <2>. QED BY <2>1, HeapAssumption
<1>4. PICK g : Scans(g, NumBlocks, free, n)
  BY <1>3
<1>5. ScanWords(free, n) = CHOOSE f : Scans(f, NumBlocks, free, n)
  BY DEF ScanWords, Scans, ScanStep
<1>. QED BY <1>4, <1>5, Zenon

(* What has been found in the words before page w: the run, the beginning  *)
(* of one that reaches to w, or nothing.                                   *)
Whole(free, n, p) == p .. p + n - 1 \subseteq free
Carried(free, n, a, r, w) ==
  a \in Nat /\ a < w /\ a .. w - 1 \subseteq free /\ r = n - (w - a)
Looked(free, n, a, r, w) ==
  /\ a \in Int /\ r \in Nat
  /\ r = 0 => a \in Nat /\ Whole(free, n, a)
  /\ r > 0 => (a = NoPage /\ r = n) \/ Carried(free, n, a, r, w)

(* A run that begins in a word is missed only behind a carried one.        *)
Missed(free, n, w) == n > 1 /\ w - 1 \in free
Covered(free, n, a, w, p) ==
  Whole(free, n, p) => (a \in Nat /\ a <= p) \/ Missed(free, n, w)

LEMMA RunBegins ==
  ASSUME NEW n \in Nat, n > 0, NEW bits \in SUBSET (0 .. WordBits - 1)
  PROVE  /\ FirstRun(bits, n) \in SUBSET Nat
         /\ \A r \in FirstRun(bits, n) :
              r < WordBits /\ \A x \in Nat : r <= x /\ x < r + n /\ x < WordBits => x \in bits
         /\ \A b \in bits : (\A x \in Nat : b <= x /\ x < b + n /\ x < WordBits => x \in bits)
              => \E r \in FirstRun(bits, n) : r <= b
<1>0. WordBits \in Nat /\ WordBits > 0
  BY HeapAssumption
<1>1. \A p \in Nat : Min({p + n, WordBits}) = IF p + n <= WordBits THEN p + n ELSE WordBits
  BY <1>0, MinOfTwo
<1>2. ASSUME NEW p \in bits
      PROVE  p .. Min({p + n, WordBits}) - 1 \subseteq bits
               <=> \A x \in Nat : p <= x /\ x < p + n /\ x < WordBits => x \in bits
  <2>1. PICK m : m = Min({p + n, WordBits})
    OBVIOUS
  <2>2. m = IF p + n <= WordBits THEN p + n ELSE WordBits
    BY <1>1, <2>1
  <2>3. m \in Nat /\ p \in Nat /\ \A x \in Nat : x < m <=> x < p + n /\ x < WordBits
    BY <1>0, <2>2
  <2>4. p .. m - 1 \subseteq bits <=> \A x \in Nat : p <= x /\ x < m => x \in bits
    BY <2>3
  <2>. QED BY <2>1, <2>3, <2>4
<1>3. FirstRun(bits, n) \in SUBSET Nat
  <2>1. FirstRun(bits, n) \subseteq bits
    BY Zenon DEF FirstRun
  <2>2. \A b \in bits : b \in Nat
    BY <1>0
  <2>. QED BY <2>1, <2>2, Zenon
<1>4. \A r \in FirstRun(bits, n) :
        r < WordBits /\ \A x \in Nat : r <= x /\ x < r + n /\ x < WordBits => x \in bits
  <2>1. ASSUME NEW r \in FirstRun(bits, n) PROVE r \in bits /\ r .. Min({r + n, WordBits}) - 1 \subseteq bits
    BY Zenon DEF FirstRun
  <2>2. \A r \in bits : r < WordBits
    BY <1>0
  <2>. QED BY <1>2, <2>1, <2>2
<1>5. ASSUME NEW b \in bits, \A x \in Nat : b <= x /\ x < b + n /\ x < WordBits => x \in bits
      PROVE  \E r \in FirstRun(bits, n) : r <= b
  <2>. DEFINE S == {x \in Nat : x <= b /\ \A y \in Nat : x <= y /\ y <= b => y \in bits}
  <2>1. b \in S /\ S \in SUBSET Nat
    OBVIOUS
  <2>2. PICK r \in S : \A y \in S : r <= y
    <3>. HIDE DEF S
    <3>. QED BY <2>1, LeastOf
  <2>3. r \in Nat /\ r <= b /\ r \in bits /\ \A y \in Nat : r <= y /\ y <= b => y \in bits
    BY <2>2
  <2>4. r - 1 \notin bits
    <3>1. SUFFICES ASSUME r - 1 \in bits PROVE FALSE
      OBVIOUS
    <3>2. r - 1 \in Nat
      BY <1>0, <3>1
    <3>3. \A y \in Nat : r - 1 <= y /\ y <= b => y = r - 1 \/ r <= y
      BY <2>3
    <3>4. r - 1 \in S
      BY <2>3, <3>1, <3>2, <3>3
    <3>. QED BY <2>2, <2>3, <3>4
  <2>5. \A x \in Nat : r <= x /\ x < r + n /\ x < WordBits => x \in bits
    <3>1. ASSUME NEW x \in Nat, r <= x, x < r + n, x < WordBits PROVE x <= b \/ x < b + n
      BY <2>3, <3>1
    <3>. QED BY <1>5, <2>3, <3>1
  <2>6. r \in FirstRun(bits, n)
    BY <1>2, <2>3, <2>4, <2>5 DEF FirstRun
  <2>. QED BY <2>3, <2>6
<1>. QED BY <1>3, <1>4, <1>5, Zenon

(* A fresh look at a word, or at what is left of it.                       *)
LEMMA FreshFinds ==
  ASSUME NEW free \in SUBSET Pages, NEW n \in Nat, n > 0, NEW ix \in Nat,
         NEW bits \in SUBSET Word(free, ix), NEW w \in Nat, w = ix * WordBits
  PROVE  \E a, r : /\ Fresh(ix, bits, n) = [start |-> a, remains |-> r]
                   /\ Looked(free, n, a, r, w + WordBits)
                   /\ r > 0 /\ bits = Word(free, ix) =>
                        \A b \in 0 .. WordBits - 1 : Whole(free, n, w + b) => a \in Nat /\ a <= w + b
<1>0. WordBits \in Nat /\ WordBits > 0
  BY HeapAssumption
<1>1. bits \in SUBSET (0 .. WordBits - 1) /\ \A b \in bits : w + b \in free
  BY Zenon DEF Word
<1>2. PICK runs : runs = FirstRun(bits, n)
  OBVIOUS
<1>3. /\ runs \in SUBSET Nat
      /\ \A r \in runs : r < WordBits /\ \A x \in Nat : r <= x /\ x < r + n /\ x < WordBits => x \in bits
      /\ \A b \in bits : (\A x \in Nat : b <= x /\ x < b + n /\ x < WordBits => x \in bits)
              => \E r \in runs : r <= b
  BY <1>1, <1>2, RunBegins
<1>4. ASSUME bits = Word(free, ix), NEW b \in 0 .. WordBits - 1, Whole(free, n, w + b)
      PROVE  \E r \in runs : r <= b
  <2>1. ASSUME NEW x \in Nat, b <= x, x < b + n, x < WordBits PROVE x \in bits
    <3>1. w + x \in w + b .. w + b + n - 1
      BY <1>0, <2>1
    <3>2. w + x \in free /\ x \in 0 .. WordBits - 1
      BY <1>0, <1>4, <2>1, <3>1 DEF Whole
    <3>. QED BY <1>4, <3>2, Zenon DEF Word
  <2>2. b \in bits
    BY <1>0, <2>1
  <2>. QED BY <1>3, <2>1, <2>2
<1>5. CASE runs = {}
  <2>1. Fresh(ix, bits, n) = [start |-> NoPage, remains |-> n]
    BY <1>2, <1>5 DEF Fresh
  <2>2. Looked(free, n, NoPage, n, w + WordBits)
    BY DEF Looked, NoPage
  <2>. QED BY <1>4, <1>5, <2>1, <2>2
<1>6. CASE runs # {}
  <2>1. PICK m \in runs : m = Min(runs) /\ \A y \in runs : m <= y
    BY <1>3, <1>6, LeastOf
  <2>2. m \in Nat /\ m < WordBits
    BY <1>3
  <2>3. PICK e \in Nat : e = IF m + n <= WordBits THEN m + n ELSE WordBits
    BY <1>0, <2>2
  <2>4. e = Min({m + n, WordBits})
    BY <1>0, <2>2, <2>3, MinOfTwo
  <2>5. PICK a \in Nat : a = w + m
    BY <2>2
  <2>6. PICK r \in Nat : r = n - (e - m)
    BY <1>0, <2>2, <2>3
  <2>7. Fresh(ix, bits, n) = [start |-> a, remains |-> r]
    <3>1. Fresh(ix, bits, n) = [start |-> ix * WordBits + m, remains |-> n - (e - m)]
      BY <1>2, <1>6, <2>1, <2>4, Zenon DEF Fresh
    <3>. QED BY <2>5, <2>6, <3>1
  <2>8. \A x \in Nat : m <= x /\ x < e => w + x \in free
    <3>1. \A x \in Nat : m <= x /\ x < m + n /\ x < WordBits => x \in bits
      BY <1>3, Zenon
    <3>2. \A x \in Nat : x < e => x < m + n /\ x < WordBits
      BY <1>0, <2>2, <2>3
    <3>. QED BY <1>1, <3>1, <3>2, Zenon
  <2>9. \A y \in Nat : a <= y /\ y < w + e => y \in free
    <3>1. ASSUME NEW y \in Nat, a <= y, y < w + e PROVE y \in free
      <4>1. y - w \in Nat /\ m <= y - w /\ y - w < e /\ w + (y - w) = y
        BY <2>2, <2>3, <2>5, <3>1
      <4>. QED BY <2>8, <4>1
    <3>. QED BY <3>1
  <2>10. Looked(free, n, a, r, w + WordBits)
    <3>1. CASE r = 0
      <4>1. w + e = a + n
        BY <2>2, <2>3, <2>5, <2>6, <3>1
      <4>2. Whole(free, n, a)
        BY <2>9, <4>1 DEF Whole
      <4>. QED BY <3>1, <4>2 DEF Looked
    <3>2. CASE r > 0
      <4>1. e = WordBits
        BY <1>0, <2>2, <2>3, <2>6, <3>2
      <4>2. a < w + WordBits /\ r = n - (w + WordBits - a)
        BY <1>0, <2>2, <2>5, <2>6, <4>1
      <4>3. a .. w + WordBits - 1 \subseteq free
        BY <1>0, <2>9, <4>1
      <4>4. Carried(free, n, a, r, w + WordBits)
        BY ONLY <1>0, <2>5, <4>2, <4>3, a \in Nat, w \in Nat DEF Carried
      <4>. QED BY <3>2, <4>4 DEF Looked
    <3>. QED BY <3>1, <3>2
  <2>11. ASSUME bits = Word(free, ix), NEW b \in 0 .. WordBits - 1, Whole(free, n, w + b)
         PROVE  a <= w + b
    <3>1. PICK k \in runs : k <= b
      BY <1>4, <2>11
    <3>2. m <= k /\ k \in Nat
      BY <1>3, <2>1, <3>1
    <3>. QED BY <1>0, <2>2, <2>5, <3>1, <3>2
  <2>. QED BY <2>7, <2>10, <2>11
<1>. QED BY <1>5, <1>6

(* What one word does to what was found before it.                         *)
Onwards(free, n, a, r, aa, rr, w) ==
  /\ Looked(free, n, aa, rr, w + WordBits)
  /\ rr > 0 =>
       /\ r > 0
       /\ \A p \in Nat : p < w /\ Whole(free, n, p) /\ a \in Nat /\ a <= p => aa \in Nat /\ aa <= p
       /\ \A b \in 0 .. WordBits - 1 : Covered(free, n, aa, w, w + b)

LEMMA WordLooks ==
  ASSUME NEW free \in SUBSET Pages, NEW n \in Nat, n > 0, NEW ix \in Nat,
         NEW w \in Nat, w = ix * WordBits, NEW a, NEW r, Looked(free, n, a, r, w)
  PROVE  \E aa, rr :
           /\ ScanWord([start |-> a, remains |-> r], ix, Word(free, ix), n)
                = [start |-> aa, remains |-> rr]
           /\ Onwards(free, n, a, r, aa, rr, w)
<1>0. WordBits \in Nat /\ WordBits > 0
  BY HeapAssumption
<1>1. PICK s : s = [start |-> a, remains |-> r]
  OBVIOUS
<1>2. s.start = a /\ s.remains = r /\ a \in Int /\ r \in Nat
  BY <1>1 DEF Looked
<1>3. PICK bits : bits = Word(free, ix)
  OBVIOUS
<1>4. \A b \in Nat : b \in bits <=> b < WordBits /\ w + b \in free
  <2>1. \A b \in 0 .. WordBits - 1 : b \in bits <=> w + b \in free
    BY <1>3, Zenon DEF Word
  <2>2. bits \subseteq 0 .. WordBits - 1
    BY <1>3, Zenon DEF Word
  <2>3. \A b \in Nat : b \in 0 .. WordBits - 1 <=> b < WordBits
    BY <1>0
  <2>. QED BY <2>1, <2>2, <2>3, Zenon
<1>5. \A p \in Nat : Whole(free, n, p) => \A x \in Nat : p <= x /\ x < p + n => x \in free
  BY DEF Whole
\* a run that goes on from before w covers what a carried one lacks
<1>6. ASSUME r > 0, a \in Nat, NEW p \in Nat, p < w, Whole(free, n, p), a <= p
      PROVE  Carried(free, n, a, r, w) /\ \A x \in Nat : x < r => w + x \in free
  <2>1. Carried(free, n, a, r, w)
    BY <1>6 DEF Looked, NoPage
  <2>2. r = n - (w - a)
    BY <2>1 DEF Carried
  <2>3. \A x \in Nat : x < r => p <= w + x /\ w + x < p + n /\ w + x \in Nat
    BY <1>2, <1>6, <2>2
  <2>. QED BY <1>5, <1>6, <2>1, <2>3
<1>7. CASE r = 0
  <2>1. ScanWord(s, ix, bits, n) = s
    BY <1>2, <1>7 DEF ScanWord
  <2>2. Onwards(free, n, a, r, a, r, w)
    BY <1>7 DEF Onwards, Looked
  <2>. QED BY <1>1, <1>3, <2>1, <2>2
<1>8. CASE r > 0 /\ bits = {}
  <2>1. ScanWord(s, ix, bits, n) = [start |-> NoPage, remains |-> n]
    BY <1>2, <1>8 DEF ScanWord
  <2>2. Looked(free, n, NoPage, n, w + WordBits)
    BY DEF Looked, NoPage
  <2>3. \A b \in Nat : b < WordBits => w + b \notin free
    BY <1>4, <1>8
  <2>4. ASSUME NEW p \in Nat, p < w, Whole(free, n, p), a \in Nat, a <= p PROVE FALSE
    <3>1. w + 0 \in free
      BY <1>6, <1>8, <2>4
    <3>. QED BY <1>0, <2>3, <3>1
  <2>5. ASSUME NEW b \in 0 .. WordBits - 1, Whole(free, n, w + b) PROVE FALSE
    <3>1. w + b \in free
      BY <1>5, <2>5
    <3>. QED BY <1>0, <2>3, <3>1
  <2>6. Onwards(free, n, a, r, NoPage, n, w)
    BY <1>8, <2>2, <2>4, <2>5, Zenon DEF Onwards, Covered
  <2>. QED BY <1>1, <1>3, <2>1, <2>6
<1>9. CASE r > 0 /\ bits # {} /\ a = NoPage
  <2>1. ScanWord(s, ix, bits, n) = Fresh(ix, bits, n)
    BY <1>2, <1>9 DEF ScanWord
  <2>2. PICK aa, rr : /\ Fresh(ix, bits, n) = [start |-> aa, remains |-> rr]
                      /\ Looked(free, n, aa, rr, w + WordBits)
                      /\ rr > 0 /\ bits = Word(free, ix) =>
                        \A b \in 0 .. WordBits - 1 : Whole(free, n, w + b) => aa \in Nat /\ aa <= w + b
    <3>1. bits \in SUBSET Word(free, ix)
      BY <1>3
    <3>. QED BY <3>1, FreshFinds
  <2>3. a \notin Nat
    BY <1>9 DEF NoPage
  <2>4. Onwards(free, n, a, r, aa, rr, w)
    BY <1>3, <1>9, <2>2, <2>3, Zenon DEF Onwards, Covered
  <2>. QED BY <1>1, <1>3, <2>1, <2>2, <2>4
<1>10. CASE r > 0 /\ bits # {} /\ a # NoPage
  <2>1. Carried(free, n, a, r, w)
    BY <1>10 DEF Looked
  <2>2. a \in Nat /\ a < w /\ r = n - (w - a) /\ \A y \in Nat : a <= y /\ y < w => y \in free
    BY <2>1 DEF Carried
  <2>3. PICK m \in Nat : m = IF r <= WordBits THEN r ELSE WordBits
    BY <1>0, <1>2
  <2>4. m = Min({r, WordBits})
    BY <1>0, <1>2, <2>3, MinOfTwo
  <2>5. GoesOn(bits, r) <=> \A x \in Nat : x < m => w + x \in free
    <3>1. GoesOn(bits, r) <=> 0 .. m - 1 \subseteq bits
      BY <2>4 DEF GoesOn
    <3>2. \A x \in Nat : x \in 0 .. m - 1 <=> x < m
      OBVIOUS
    <3>3. \A x \in 0 .. m - 1 : x \in Nat
      OBVIOUS
    <3>4. \A x \in Nat : x < m => x < WordBits
      BY <1>0, <2>3
    <3>. QED BY <1>4, <3>1, <3>2, <3>3, <3>4, Zenon
  <2>6. CASE GoesOn(bits, r)
    <3>1. PICK q \in Nat : q = r - m
      BY <1>0, <1>2, <2>3
    <3>2. ScanWord(s, ix, bits, n) = [start |-> a, remains |-> q]
      <4>1. ScanWord(s, ix, bits, n) = [s EXCEPT !.remains = r - m]
        BY <1>2, <1>10, <2>4, <2>6 DEF ScanWord
      <4>. QED BY <1>1, <3>1, <4>1
    <3>3. \A y \in Nat : a <= y /\ y < w + m => y \in free
      <4>1. ASSUME NEW y \in Nat, w <= y, y < w + m PROVE y \in free
        <5>1. y - w \in Nat /\ y - w < m /\ w + (y - w) = y
          BY <4>1
        <5>. QED BY <2>5, <2>6, <5>1
      <4>2. \A y \in Nat : y < w \/ w <= y
        OBVIOUS
      <4>. QED BY <2>2, <4>1, <4>2
    <3>4. Looked(free, n, a, q, w + WordBits)
      <4>1. CASE q = 0
        <5>1. w + m = a + n
          BY <1>2, <2>2, <2>3, <3>1, <4>1
        <5>2. Whole(free, n, a)
          BY <2>2, <3>3, <5>1 DEF Whole
        <5>. QED BY <2>2, <4>1, <5>2 DEF Looked
      <4>2. CASE q > 0
        <5>1. m = WordBits
          BY <1>0, <1>2, <2>3, <3>1, <4>2
        <5>2. a < w + WordBits /\ q = n - (w + WordBits - a)
          BY ONLY <1>0, <1>2, <2>2, <3>1, <5>1, w \in Nat, n \in Nat
        <5>3. a .. w + WordBits - 1 \subseteq free
          BY <1>0, <2>2, <3>3, <5>1
        <5>4. Carried(free, n, a, q, w + WordBits)
          BY ONLY <1>0, <2>2, <5>2, <5>3, w \in Nat DEF Carried
        <5>. QED BY <2>2, <4>2, <5>4 DEF Looked
      <4>. QED BY <4>1, <4>2
    <3>5. \A b \in 0 .. WordBits - 1 : a <= w + b
      BY <1>0, <2>2
    <3>6. Onwards(free, n, a, r, a, q, w)
      BY <1>10, <2>2, <3>4, <3>5, Zenon DEF Onwards, Covered
    <3>. QED BY <1>1, <1>3, <3>2, <3>6
  <2>7. CASE ~GoesOn(bits, r)
    <3>1. PICK left : left = bits \ LowestRun(bits)
      OBVIOUS
    <3>2. ScanWord(s, ix, bits, n) = Fresh(ix, left, n)
      BY <1>2, <1>10, <2>7, <3>1 DEF ScanWord
    <3>3. PICK aa, rr : /\ Fresh(ix, left, n) = [start |-> aa, remains |-> rr]
                        /\ Looked(free, n, aa, rr, w + WordBits)
      <4>1. left \in SUBSET Word(free, ix)
        BY <1>3, <3>1
      <4>. QED BY <4>1, FreshFinds
    <3>4. ASSUME NEW p \in Nat, p < w, Whole(free, n, p), a <= p PROVE FALSE
      <4>1. \A x \in Nat : x < r => w + x \in free
        BY <1>6, <1>10, <2>2, <3>4
      <4>2. \A x \in Nat : x < m => x < r
        BY <1>0, <1>2, <2>3
      <4>. QED BY <2>5, <2>7, <4>1, <4>2
    <3>5. Missed(free, n, w)
      <4>1. w - 1 \in Nat /\ a <= w - 1 /\ w - 1 < w /\ n > 1
        BY <1>2, <1>10, <2>2
      <4>. QED BY <2>2, <4>1 DEF Missed
    <3>6. Onwards(free, n, a, r, aa, rr, w)
      BY <1>10, <3>3, <3>4, <3>5, Zenon DEF Onwards, Covered
    <3>. QED BY <1>1, <1>3, <3>2, <3>3, <3>6
  <2>. QED BY <2>6, <2>7
<1>11. r = 0 \/ r > 0
  BY <1>2
<1>. QED BY <1>7, <1>8, <1>9, <1>10, <1>11, Zenon

(* After the words before a word: every run that began there is carried,   *)
(* or was missed.                                                          *)
ScanInv(free, n, a, r, ix) ==
  /\ Looked(free, n, a, r, ix * WordBits)
  /\ r > 0 => \A j \in Nat, b \in 0 .. WordBits - 1 :
                j < ix => Covered(free, n, a, j * WordBits, j * WordBits + b)

LEMMA ScanKeeps ==
  ASSUME NEW free \in SUBSET Pages, NEW n \in Nat, n > 0, NEW ix \in Nat,
         NEW a, NEW r, ScanInv(free, n, a, r, ix)
  PROVE  \E aa, rr :
           /\ ScanWord([start |-> a, remains |-> r], ix, Word(free, ix), n)
                = [start |-> aa, remains |-> rr]
           /\ ScanInv(free, n, aa, rr, ix + 1)
<1>0. WordBits \in Nat /\ WordBits > 0
  BY HeapAssumption
<1>1. PICK w \in Nat : w = ix * WordBits
  BY <1>0
<1>2. Looked(free, n, a, r, w)
  BY <1>1 DEF ScanInv
<1>3. PICK aa, rr :
           /\ ScanWord([start |-> a, remains |-> r], ix, Word(free, ix), n)
                = [start |-> aa, remains |-> rr]
           /\ Onwards(free, n, a, r, aa, rr, w)
  BY <1>1, <1>2, WordLooks
<1>4. (ix + 1) * WordBits = w + WordBits
  BY <1>0, <1>1
<1>5. Looked(free, n, aa, rr, (ix + 1) * WordBits)
  BY <1>3, <1>4 DEF Onwards
<1>6. ASSUME rr > 0, NEW j \in Nat, NEW b \in 0 .. WordBits - 1, j < ix + 1
      PROVE  Covered(free, n, aa, j * WordBits, j * WordBits + b)
  <2>1. CASE j = ix
    BY <1>1, <1>3, <1>6, <2>1 DEF Onwards
  <2>2. CASE j < ix
    <3>1. PICK v \in Nat : v = j * WordBits
      BY <1>0
    <3>2. v + WordBits <= w
      <4>1. PICK d \in Nat : ix = j + 1 + d
        <5>1. ix - (j + 1) \in Nat /\ ix = j + 1 + (ix - (j + 1))
          BY <2>2
        <5>. QED BY <5>1
      <4>2. PICK e \in Nat : e = d * WordBits
        BY <1>0
      <4>3. w = v + WordBits + e
        BY <1>0, <1>1, <3>1, <4>1, <4>2
      <4>. QED BY <1>0, <4>3
    <3>3. v + b \in Nat /\ v + b < w
      BY <1>0, <3>2
    <3>4. r > 0 /\ Covered(free, n, a, v, v + b)
      BY <1>3, <1>6, <2>2, <3>1 DEF Onwards, ScanInv
    <3>5. Covered(free, n, aa, v, v + b)
      BY <1>3, <1>6, <3>3, <3>4, Zenon DEF Onwards, Covered
    <3>. QED BY <3>1, <3>5
  <2>. QED BY <1>6, <2>1, <2>2
<1>7. ScanInv(free, n, aa, rr, ix + 1)
  BY <1>5, <1>6, Zenon DEF ScanInv
<1>. QED BY <1>3, <1>7

LEMMA ScanEnds ==
  ASSUME NEW free \in SUBSET Pages, NEW n \in Nat, n > 0
  PROVE  \E a, r : /\ ScanWords(free, n)[NumBlocks] = [start |-> a, remains |-> r]
                   /\ ScanInv(free, n, a, r, NumBlocks)
<1>0. WordBits \in Nat /\ WordBits > 0 /\ NumBlocks \in Nat
  BY HeapAssumption
<1>1. PICK g : g = ScanWords(free, n)
  OBVIOUS
<1>2. \A i \in 0 .. NumBlocks : g[i] = ScanStep(g, i, free, n)
  <2>1. Scans(g, NumBlocks, free, n)
    BY <1>1, ScanIs
  <2>2. PICK D : D = 0 .. NumBlocks
    OBVIOUS
  <2>3. g = [i \in D |-> ScanStep(g, i, free, n)]
    BY <2>1, <2>2, Zenon DEF Scans
  <2>. QED BY <2>2, <2>3, Zenon
<1>. DEFINE N == {i \in Nat : i <= NumBlocks =>
                   \E a, r : g[i] = [start |-> a, remains |-> r] /\ ScanInv(free, n, a, r, i)}
<1>3. 0 \in N
  <2>1. g[0] = [start |-> NoPage, remains |-> n]
    <3>1. 0 \in 0 .. NumBlocks
      BY <1>0
    <3>. QED BY <1>2, <3>1, Zenon DEF ScanStep
  <2>2. Looked(free, n, NoPage, n, 0 * WordBits)
    BY DEF Looked, NoPage
  <2>3. \A j \in Nat : ~(j < 0)
    OBVIOUS
  <2>4. ScanInv(free, n, NoPage, n, 0)
    BY <2>2, <2>3, Zenon DEF ScanInv
  <2>. QED BY <2>1, <2>4
<1>4. ASSUME NEW i \in Nat, i \in N PROVE i + 1 \in N
  <2>1. SUFFICES ASSUME i + 1 <= NumBlocks
                 PROVE  \E a, r : g[i + 1] = [start |-> a, remains |-> r] /\ ScanInv(free, n, a, r, i + 1)
    <3>1. i + 1 \in Nat
      OBVIOUS
    <3>. QED BY <3>1, Zenon
  <2>2. i <= NumBlocks /\ i + 1 \in 0 .. NumBlocks /\ i + 1 # 0 /\ (i + 1) - 1 = i
    BY <1>0, <2>1
  <2>3. PICK a, r : g[i] = [start |-> a, remains |-> r] /\ ScanInv(free, n, a, r, i)
    BY <1>4, <2>2
  <2>4. g[i + 1] = ScanWord(g[i], i, Word(free, i), n)
    BY <1>2, <2>2, Zenon DEF ScanStep
  <2>5. \E aa, rr : /\ ScanWord([start |-> a, remains |-> r], i, Word(free, i), n)
                         = [start |-> aa, remains |-> rr]
                    /\ ScanInv(free, n, aa, rr, i + 1)
    BY <2>3, ScanKeeps
  <2>. QED BY <2>3, <2>4, <2>5, Zenon
<1>5. NumBlocks \in N
  <2>. HIDE DEF N
  <2>1. Nat \subseteq N
    BY <1>3, <1>4, SetInduction
  <2>. QED BY <1>0, <2>1
<1>. QED BY <1>0, <1>1, <1>5

(* The word of a page.                                                     *)
LEMMA Divided ==
  ASSUME NEW x \in Nat, NEW d \in Nat, d > 0
  PROVE  /\ x \div d \in Nat /\ x % d \in 0 .. d - 1 /\ x = (x \div d) * d + (x % d)
         /\ x \div d <= x
<1>1. x \div d \in Int /\ x % d \in Int /\ 0 <= x % d /\ x % d < d /\ x = d * (x \div d) + (x % d)
  OBVIOUS
<1>2. PICK q \in Int, m \in Int : q = x \div d /\ m = x % d
  BY <1>1
<1>3. PICK y \in Int : y = d * q
  OBVIOUS
<1>4. x = y + m /\ 0 <= m /\ m < d
  BY <1>1, <1>2, <1>3
<1>5. q >= 0
  <2>1. SUFFICES ASSUME q <= -1 PROVE FALSE
    OBVIOUS
  <2>2. y <= -d
    BY <1>3, <2>1
  <2>. QED BY <1>4, <2>2
<1>6. q <= y
  BY <1>3, <1>5
<1>. QED BY <1>1, <1>2, <1>3, <1>4, <1>5, <1>6

(* A quotient is the only one that fits.                                   *)
LEMMA DividedIs ==
  ASSUME NEW x \in Nat, NEW d \in Nat, d > 0, NEW q \in Int, NEW m \in Int, 0 <= m, m < d, x = q * d + m
  PROVE  x \div d = q /\ x % d = m
<1>1. PICK k \in Nat, l \in Nat : k = x \div d /\ l = x % d /\ l < d /\ x = k * d + l
  BY Divided
<1>2. PICK t \in Int : t = k - q
  OBVIOUS
<1>3. t * d = m - l
  <2>1. k * d = q * d + t * d
    BY <1>1, <1>2
  <2>2. PICK u \in Int, v \in Int, z \in Int : u = k * d /\ v = q * d /\ z = t * d
    OBVIOUS
  <2>. QED BY <1>1, <2>1, <2>2
<1>4. t = 0
  <2>1. t * d < d /\ t * d > -d
    BY <1>1, <1>3
  <2>2. t >= 1 => t * d >= d
    BY <1>2
  <2>3. t <= -1 => t * d <= -d
    BY <1>2
  <2>. QED BY <1>2, <2>1, <2>2, <2>3
<1>. QED BY <1>1, <1>2, <1>3, <1>4

(* A run is refused only if there is none, or it begins behind the end of  *)
(* another in the word before it.                                          *)
LEMMA ScanFinds ==
  ASSUME NEW free \in SUBSET Pages, NEW n \in Nat, n > 0
  PROVE  /\ GetBitScanStream(free, n) # NoPage =>
              GetBitScanStream(free, n) \in Nat /\ Whole(free, n, GetBitScanStream(free, n))
         /\ GetBitScanStream(free, n) = NoPage =>
             \A p \in Pages : Whole(free, n, p) =>
               \E q \in Pages : q < p /\ q \in free /\ q \div WordBits < p \div WordBits
                                /\ n > 1 /\ ((p \div WordBits) * WordBits) - 1 \in free
<1>0. WordBits \in Nat /\ WordBits > 0 /\ NumBlocks \in Nat
  BY HeapAssumption
<1>1. PICK a, r : /\ ScanWords(free, n)[NumBlocks] = [start |-> a, remains |-> r]
                  /\ ScanInv(free, n, a, r, NumBlocks)
  BY ScanEnds
<1>2. GetBitScanStream(free, n) = IF r > 0 THEN NoPage ELSE a
  BY <1>1 DEF GetBitScanStream
<1>3. PICK w \in Nat : w = NumBlocks * WordBits
  BY <1>0
<1>4. Looked(free, n, a, r, w) /\ Pages = 0 .. w - 1
  BY <1>1, <1>3 DEF ScanInv, Pages, NumPages
<1>5. r \in Nat /\ a \in Int
  BY <1>4 DEF Looked
<1>6. CASE r = 0
  BY <1>2, <1>4, <1>6 DEF Looked, NoPage
<1>7. CASE r > 0
  <2>1. ASSUME NEW p \in Pages, Whole(free, n, p)
        PROVE \E q \in Pages : q < p /\ q \in free /\ q \div WordBits < p \div WordBits
                                /\ n > 1 /\ ((p \div WordBits) * WordBits) - 1 \in free
    <3>1. p \in Nat /\ p < w
      BY <1>4
    <3>2. PICK j \in Nat : j = p \div WordBits
      BY <1>0, <3>1, Divided
    <3>3. PICK b \in 0 .. WordBits - 1 : b = p % WordBits
      BY <1>0, <3>1, Divided
    <3>4. PICK v \in Nat : v = j * WordBits
      BY <1>0
    <3>5. p = v + b
      BY <1>0, <3>1, <3>2, <3>3, <3>4, Divided
    <3>6. j < NumBlocks
      <4>1. SUFFICES ASSUME j >= NumBlocks PROVE FALSE
        BY <1>0
      <4>2. v >= w
        BY <1>0, <1>3, <3>4, <4>1
      <4>. QED BY <3>1, <3>5, <4>2
    <3>7. Covered(free, n, a, v, p)
      BY <1>1, <1>7, <3>4, <3>5, <3>6 DEF ScanInv
    <3>8. ~(a \in Nat /\ a <= p)
      <4>1. SUFFICES ASSUME a \in Nat, a <= p PROVE FALSE
        OBVIOUS
      <4>2. Carried(free, n, a, r, w)
        BY <1>4, <1>7, <4>1 DEF Looked, NoPage
      <4>3. w \in p .. p + n - 1
        BY <1>5, <1>7, <3>1, <4>1, <4>2 DEF Carried
      <4>4. w \in Pages
        BY <2>1, <4>3 DEF Whole
      <4>. QED BY <1>4, <4>4
    <3>9. n > 1 /\ v - 1 \in free
      BY <2>1, <3>7, <3>8 DEF Covered, Missed
    <3>10. v - 1 \in Pages /\ v - 1 < p
      BY <3>5, <3>9
    <3>11. (v - 1) \div WordBits < j
      <4>1. v - 1 \in Nat
        BY <1>4, <3>10
      <4>2. PICK k \in Nat, l \in Nat : k = (v - 1) \div WordBits /\ v - 1 = k * WordBits + l
        BY <1>0, <4>1, Divided
      <4>3. SUFFICES ASSUME k >= j PROVE FALSE
        BY <4>2
      <4>4. k * WordBits >= v /\ k * WordBits \in Nat
        BY <1>0, <3>4, <4>3
      <4>. QED BY <4>1, <4>2, <4>4
    <3>. QED BY <3>2, <3>4, <3>9, <3>10, <3>11
  <2>. QED BY <1>2, <1>7, <2>1
<1>. QED BY <1>5, <1>6, <1>7

(* Where a page begins.                                                    *)
PageAt(p) == p * PageSize

LEMMA HeapSizesAre ==
  /\ PageSize \in Nat /\ PageSize > 0 /\ Alignment \in Nat /\ Alignment > 0
  /\ NumPages \in Nat /\ Pages = 0 .. NumPages - 1 /\ ChunkBytes = PageAt(NumPages)
BY HeapAssumption DEF NumPages, Pages, ChunkBytes, PageAt

LEMMA BytesGrow ==
  ASSUME NEW p \in Int, NEW q \in Int
  PROVE  /\ PageAt(p) \in Int
         /\ p <= q => PageAt(p) <= PageAt(q)
         /\ p < q => PageAt(p) + PageSize <= PageAt(q)
         /\ p >= 0 => PageAt(p) >= 0
<1>1. PageSize \in Nat /\ PageSize > 0
  BY HeapSizesAre
<1>2. PICK d \in Int : d = q - p
  OBVIOUS
<1>3. PICK x \in Int, y \in Int, z \in Int : x = p * PageSize /\ y = q * PageSize /\ z = d * PageSize
  BY <1>1
<1>4. y = x + z
  BY <1>1, <1>2, <1>3
<1>5. d >= 0 => z >= 0
  BY <1>1, <1>3
<1>6. d >= 1 => z >= PageSize
  BY <1>1, <1>3
<1>7. p >= 0 => x >= 0
  BY <1>1, <1>3
<1>. QED BY <1>1, <1>2, <1>3, <1>4, <1>5, <1>6, <1>7 DEF PageAt

(* The page a byte is on.                                                  *)
LEMMA OnPage ==
  ASSUME NEW x \in Nat, NEW p \in Int, PageAt(p) <= x, x < PageAt(p) + PageSize
  PROVE  x \div PageSize = p
<1>1. PageSize \in Nat /\ PageSize > 0
  BY HeapSizesAre
<1>2. PICK y \in Int : y = p * PageSize
  BY <1>1
<1>3. PICK m \in Int : m = x - y /\ 0 <= m /\ m < PageSize
  BY <1>1, <1>2 DEF PageAt
<1>4. x = p * PageSize + m
  BY <1>2, <1>3
<1>. QED BY <1>1, <1>3, <1>4, DividedIs

(* A block of whole pages and a rest.                                      *)
LEMMA PagesOf ==
  ASSUME NEW need \in Nat, need > 0
  PROVE  /\ FullPages(need) \in Nat /\ FullPages(need) >= 1
         /\ LastPageUsage(need) \in Nat /\ LastPageUsage(need) > 0 /\ LastPageUsage(need) <= PageSize
         /\ need = PageAt(FullPages(need) - 1) + LastPageUsage(need)
         /\ need <= PageSize <=> FullPages(need) = 1
<1>1. PageSize \in Nat /\ PageSize > 0
  BY HeapSizesAre
<1>2. PICK q \in Nat, m \in Nat : q = need \div PageSize /\ m = need % PageSize /\ m < PageSize
                                  /\ need = q * PageSize + m
  BY <1>1, Divided
<1>3. PICK x \in Nat : x = q * PageSize
  BY <1>1
<1>4. CASE m = 0
  <2>1. FullPages(need) = q /\ LastPageUsage(need) = PageSize
    BY <1>2, <1>4 DEF FullPages, LastPageUsage
  <2>2. q # 0
    <3>1. q = 0 => x = 0
      BY <1>1, <1>3
    <3>2. need = x + m
      BY <1>2, <1>3, Zenon
    <3>. QED BY ONLY <1>4, <3>1, <3>2, need > 0, x \in Nat, m \in Nat, q \in Nat
  <2>3. PageAt(q - 1) = x - PageSize
    BY <1>1, <1>3 DEF PageAt
  <2>4. q = 1 => x = PageSize
    BY <1>1, <1>3
  <2>5. q > 1 => x > PageSize
    <3>1. 1 \in Int /\ q \in Int /\ PageAt(1) = PageSize /\ PageAt(q) = x
      BY <1>1, <1>3 DEF PageAt
    <3>. QED BY <1>1, <3>1, BytesGrow
  <2>. QED BY <1>1, <1>2, <1>3, <1>4, <2>1, <2>2, <2>3, <2>4, <2>5
<1>5. CASE m # 0
  <2>1. FullPages(need) = q + 1 /\ LastPageUsage(need) = m
    BY <1>2, <1>5 DEF FullPages, LastPageUsage
  <2>2. PageAt((q + 1) - 1) = x
    BY <1>1, <1>3 DEF PageAt
  <2>3. q = 0 => x = 0
    BY <1>1, <1>3
  <2>4. q >= 1 => x >= PageSize
    BY <1>1, <1>3
  <2>. QED BY <1>1, <1>2, <1>3, <1>5, <2>1, <2>2, <2>3, <2>4
<1>. QED BY <1>4, <1>5

(* A block that is given out: on pages of its own, or inside one page.     *)
FirstPage(b) == b.at \div PageSize
BlockOk(b) ==
  /\ b \in [at : Nat, size : Nat] /\ End(b) <= ChunkBytes
  /\ \E f \in Pages : IF NeedSize(b.size) > PageSize THEN b.at = PageAt(f)
                      ELSE PageAt(f) <= b.at /\ End(b) <= PageAt(f) + PageSize

(* From which page to which it lies.                                       *)
Lies(b, f, l) ==
  /\ f \in Pages /\ l \in Pages /\ f <= l
  /\ PageAt(f) <= b.at /\ b.at < PageAt(f) + PageSize
  /\ PageAt(l) < End(b) /\ End(b) <= PageAt(l) + PageSize
  /\ f < l => b.at = PageAt(f)

LEMMA BlockLies ==
  ASSUME NEW b, BlockOk(b)
  PROVE  /\ Lies(b, FirstPage(b), LastPage(b))
         /\ b.at \in Nat /\ End(b) \in Nat /\ b.at < End(b) /\ NeedSize(b.size) \in Nat
         /\ Charged(b) \in Nat /\ Charged(b) > 0
         /\ LastPage(b) = IF NeedSize(b.size) > PageSize
                          THEN FirstPage(b) + FullPages(NeedSize(b.size)) - 1 ELSE FirstPage(b)
<1>0. PageSize \in Nat /\ PageSize > 0 /\ Alignment \in Nat /\ Alignment > 0 /\ NumPages \in Nat
       /\ Pages = 0 .. NumPages - 1 /\ ChunkBytes = PageAt(NumPages)
  BY HeapSizesAre
<1>1. b.at \in Nat /\ b.size \in Nat
  BY DEF BlockOk
<1>2. PICK at \in Nat, need \in Nat, e \in Nat : at = b.at /\ need = NeedSize(b.size) /\ need > 0
                                               /\ e = End(b) /\ e = at + need
  BY <1>0, <1>1 DEF NeedSize, End
<1>3. PICK f \in Pages : IF need > PageSize THEN at = PageAt(f) ELSE PageAt(f) <= at /\ e <= PageAt(f) + PageSize
  BY <1>2 DEF BlockOk
<1>4. PICK F \in Nat : F = PageAt(f)
  BY <1>0, BytesGrow
<1>5. PICK n \in Nat, u \in Nat : n = FullPages(need) /\ u = LastPageUsage(need) /\ n >= 1 /\ u > 0 /\ u <= PageSize
          /\ need = PageAt(n - 1) + u /\ (need <= PageSize <=> n = 1)
  BY <1>2, PagesOf
<1>10. /\ need > PageSize => at = F
       /\ ~(need > PageSize) => F <= at /\ e <= F + PageSize
       /\ e = at + need /\ need > 0
  BY <1>2, <1>3, <1>4, Zenon
<1>11. n >= 1 /\ u > 0 /\ u <= PageSize
  BY <1>5
<1>6. FirstPage(b) = f
  <2>1. PageAt(f) <= at /\ at < PageAt(f) + PageSize
    BY <1>0, <1>2, <1>3, <1>4
  <2>2. at \div PageSize = f
    BY <1>0, <2>1, OnPage
  <2>. QED BY <1>2, <2>2 DEF FirstPage
<1>7. e <= PageAt(NumPages)
  BY <1>0, <1>2 DEF BlockOk
<1>8. CASE need > PageSize
  <2>1. PICK l \in Nat : l = f + n - 1
    BY <1>0, <1>11
  <2>2. PageAt(l) = F + PageAt(n - 1)
    BY <1>0, <1>4, <2>1 DEF PageAt
  <2>3. PICK L \in Nat : L = PageAt(l)
    BY BytesGrow
  <2>4. e = L + u /\ at = F
    <3>1. PICK y \in Int : y = PageAt(n - 1)
      BY BytesGrow
    <3>2. need = y + u /\ L = F + y
      BY <1>5, <2>2, <2>3, <3>1, Zenon
    <3>. QED BY ONLY <1>8, <1>10, <3>1, <3>2, e \in Nat, at \in Nat, need \in Nat, L \in Nat, u \in Nat, F \in Nat, y \in Int
  <2>5. LastPage(b) = l
    <3>1. PageAt(l) <= e - 1 /\ e - 1 < PageAt(l) + PageSize /\ e - 1 \in Nat
      BY ONLY <1>0, <1>11, <2>3, <2>4, e \in Nat, L \in Nat, u \in Nat
    <3>2. (e - 1) \div PageSize = l
      BY <3>1, OnPage
    <3>. QED BY <1>2, <3>2 DEF LastPage
  <2>6. l < NumPages
    <3>1. SUFFICES ASSUME l >= NumPages PROVE FALSE
      BY <1>0
    <3>2. PageAt(NumPages) <= PageAt(l)
      BY <1>0, <3>1, BytesGrow
    <3>3. PICK z \in Int : z = PageAt(NumPages)
      BY <1>0, BytesGrow
    <3>. QED BY ONLY <1>11, <1>7, <2>3, <2>4, <3>2, <3>3, e \in Nat, L \in Nat, u \in Nat, z \in Int
  <2>7. Charged(b) = u
    BY <1>2, <1>5, <1>8 DEF Charged
  <2>8. Lies(b, f, l)
    <3>1. f \in Pages /\ l \in Pages /\ f <= l
      BY <1>0, <1>11, <2>1, <2>6
    <3>2. PageAt(f) <= b.at /\ b.at < PageAt(f) + PageSize /\ b.at = PageAt(f)
      BY <1>0, <1>2, <1>4, <2>4
    <3>3. PageAt(l) < End(b) /\ End(b) <= PageAt(l) + PageSize
      <4>1. L < e /\ e <= L + PageSize
        BY ONLY <1>0, <1>11, <2>4, e \in Nat, L \in Nat, u \in Nat
      <4>. QED BY <1>2, <2>3, <4>1, Zenon
    <3>. QED BY <3>1, <3>2, <3>3, Zenon DEF Lies
  <2>9. LastPage(b) = f + FullPages(need) - 1
    BY <1>5, <2>1, <2>5
  <2>10. at < e
    BY <1>2
  <2>. QED BY <1>2, <1>5, <1>6, <1>8, <2>5, <2>7, <2>8, <2>9, <2>10
<1>9. CASE ~(need > PageSize)
  <2>1. LastPage(b) = f
    <3>1. PageAt(f) <= e - 1 /\ e - 1 < PageAt(f) + PageSize /\ e - 1 \in Nat
      BY ONLY <1>0, <1>4, <1>9, <1>10, e \in Nat, at \in Nat, need \in Nat, F \in Nat
    <3>2. (e - 1) \div PageSize = f
      BY <1>0, <3>1, OnPage
    <3>. QED BY <1>2, <3>2 DEF LastPage
  <2>2. Charged(b) = need
    BY <1>2, <1>9 DEF Charged
  <2>3. Lies(b, f, f)
    <3>1. f \in Pages /\ f <= f /\ ~(f < f)
      BY <1>0
    <3>2. PageAt(f) <= b.at /\ b.at < PageAt(f) + PageSize
      BY <1>0, <1>2, <1>3, <1>4, <1>9
    <3>3. PageAt(f) < End(b) /\ End(b) <= PageAt(f) + PageSize
      BY <1>0, <1>2, <1>3, <1>4, <1>9
    <3>. QED BY <3>1, <3>2, <3>3, Zenon DEF Lies
  <2>4. at < e
    BY <1>2
  <2>. QED BY <1>2, <1>6, <1>9, <2>1, <2>2, <2>3, <2>4
<1>. QED BY <1>8, <1>9

(* Two blocks apart share at most the page on which both end.              *)
Apart(a, b) == a = b \/ End(a) <= b.at \/ End(b) <= a.at
Covers(b, p) == FirstPage(b) <= p /\ p <= LastPage(b)

LEMMA SharedPage ==
  ASSUME NEW a, NEW b, BlockOk(a), BlockOk(b), Apart(a, b), a # b, NEW p \in Pages, Covers(a, p), Covers(b, p)
  PROVE  LastPage(a) = p
<1>0. PageSize \in Nat /\ PageSize > 0 /\ p \in Nat
  BY HeapSizesAre
<1>1. PICK f \in Pages, l \in Pages : f = FirstPage(a) /\ l = LastPage(a) /\ Lies(a, f, l)
  BY BlockLies, Zenon DEF Lies
<1>2. PICK g \in Pages, m \in Pages : g = FirstPage(b) /\ m = LastPage(b) /\ Lies(b, g, m)
  BY BlockLies, Zenon DEF Lies
<1>3. f \in Nat /\ l \in Nat /\ g \in Nat /\ m \in Nat /\ f <= p /\ p <= l /\ g <= p /\ p <= m
  BY <1>1, <1>2, HeapSizesAre DEF Covers
<1>4. PICK x \in Nat, e \in Nat, y \in Nat, h \in Nat : x = a.at /\ e = End(a) /\ y = b.at /\ h = End(b)
  BY BlockLies
<1>5. SUFFICES ASSUME p < l PROVE FALSE
  BY <1>0, <1>1, <1>3
<1>6. PICK F \in Int, L \in Int, P \in Int, G \in Int, M \in Int :
         F = PageAt(f) /\ L = PageAt(l) /\ P = PageAt(p) /\ G = PageAt(g) /\ M = PageAt(m)
  BY <1>0, <1>3, BytesGrow
<1>7. F <= P /\ P + PageSize <= L /\ G <= P /\ P <= M
  BY <1>0, <1>3, <1>5, <1>6, BytesGrow
<1>8. x = F /\ L < e
  BY <1>1, <1>3, <1>4, <1>5, <1>6 DEF Lies
<1>9. y < G + PageSize /\ M < h
  BY <1>2, <1>4, <1>6 DEF Lies
<1>10. e <= y \/ h <= x
  BY <1>4 DEF Apart
<1>. QED BY ONLY <1>0, <1>7, <1>8, <1>9, <1>10, x \in Nat, e \in Nat, y \in Nat, h \in Nat,
            F \in Int, L \in Int, P \in Int, G \in Int, M \in Int

(* A chunk: its blocks, the pages marked free, the usage of the pages, and *)
(* the active page, on which a block ends.                                 *)
Ending(live, p) == {b \in live : LastPage(b) = p}
BlocksOk(live) ==
  IsFiniteSet(live) /\ (\A b \in live : BlockOk(b)) /\ \A a, b \in live : Apart(a, b)
FreeOk(free, live) ==
  free \in SUBSET Pages /\ \A p \in Pages : p \in free <=> \A b \in live : ~Covers(b, p)
UsageOk(usage, live) ==
  usage \in [Pages -> Nat] /\ \A p \in Pages : usage[p] = Held(Ending(live, p))
ActiveOk(page, position, live) ==
  /\ page \in Pages \cup {NoPage} /\ position \in Int
  /\ page # NoPage => /\ Ending(live, page) # {} /\ position <= PageAt(page) + PageSize
                      /\ \A b \in Ending(live, page) : End(b) <= position
ChunkIs(free, usage, page, position, live) ==
  BlocksOk(live) /\ FreeOk(free, live) /\ UsageOk(usage, live) /\ ActiveOk(page, position, live)
ChunkInv(c) ==
  \E free, usage, page, position, live :
    /\ c = [free |-> free, usage |-> usage, page |-> page, position |-> position, live |-> live]
    /\ ChunkIs(free, usage, page, position, live)

LEMMA EndingOk ==
  ASSUME NEW live, BlocksOk(live), NEW p
  PROVE  /\ IsFiniteSet(Ending(live, p)) /\ Held(Ending(live, p)) \in Nat
         /\ \A b \in Ending(live, p) : Charged(b) \in Nat
         /\ Ending(live, p) = {} => Held(Ending(live, p)) = 0
         /\ Ending(live, p) # {} => Held(Ending(live, p)) > 0
<1>1. PICK S : S = Ending(live, p)
  OBVIOUS
<1>2. S \subseteq live
  BY <1>1 DEF Ending
<1>3. IsFiniteSet(S)
  BY <1>2, FS_Subset DEF BlocksOk
<1>4. \A b \in S : Charged(b) \in Nat /\ Charged(b) > 0
  BY <1>2, BlockLies DEF BlocksOk
<1>5. Held(S) \in Nat /\ \A x \in S : Held(S) = Charged(x) + Held(S \ {x}) /\ Held(S \ {x}) \in Nat
  BY <1>3, <1>4, HeldWithout
<1>6. S = {} => Held(S) = 0
  BY <1>3, HeldIs
<1>7. ASSUME S # {} PROVE Held(S) > 0
  <2>1. PICK x \in S : TRUE
    BY <1>7
  <2>2. PICK k \in Nat, m \in Nat : k = Charged(x) /\ k > 0 /\ m = Held(S \ {x}) /\ Held(S) = k + m
    BY <1>4, <1>5
  <2>. QED BY <2>2
<1>. QED BY <1>1, <1>3, <1>4, <1>5, <1>6, <1>7

LEMMA CoversPages ==
  ASSUME NEW b, BlockOk(b)
  PROVE  LastPage(b) \in Pages /\ Covers(b, LastPage(b)) /\ FirstPage(b) \in Pages
<1>1. Lies(b, FirstPage(b), LastPage(b))
  BY BlockLies
<1>. QED BY <1>1, HeapSizesAre DEF Lies, Covers

(* One more block.                                                         *)
LEMMA BlockAdded ==
  ASSUME NEW live, BlocksOk(live), NEW b, BlockOk(b),
         \A a \in live : End(a) <= b.at \/ End(b) <= a.at
  PROVE  BlocksOk(live \cup {b}) /\ b \notin live
<1>1. b \notin live
  <2>1. b.at \in Nat /\ End(b) \in Nat /\ b.at < End(b)
    BY BlockLies
  <2>. QED BY <2>1
<1>2. IsFiniteSet(live \cup {b})
  BY FS_AddElement DEF BlocksOk
<1>3. \A a \in live \cup {b} : BlockOk(a)
  BY Zenon DEF BlocksOk
<1>4. \A a, d \in live \cup {b} : Apart(a, d)
  BY Zenon DEF BlocksOk, Apart
<1>. QED BY <1>1, <1>2, <1>3, <1>4, Zenon DEF BlocksOk

LEMMA UsageAdded ==
  ASSUME NEW live, BlocksOk(live), NEW b, BlockOk(b), b \notin live, BlocksOk(live \cup {b}),
         NEW usage, UsageOk(usage, live), NEW x, x = usage[LastPage(b)] + Charged(b)
  PROVE  UsageOk([usage EXCEPT ![LastPage(b)] = x], live \cup {b})
<1>1. PICK l \in Pages : l = LastPage(b)
  BY CoversPages
<1>2. PICK all : all = live \cup {b}
  OBVIOUS
<1>3. PICK u : u = [usage EXCEPT ![l] = x]
  OBVIOUS
<1>4. usage \in [Pages -> Nat] /\ \A p \in Pages : usage[p] = Held(Ending(live, p))
  BY Zenon DEF UsageOk
<1>5. Charged(b) \in Nat /\ Charged(b) > 0
  BY BlockLies
<1>6. usage[l] \in Nat
  BY <1>4
<1>7. x \in Nat
  BY <1>1, <1>5, <1>6
<1>8. u \in [Pages -> Nat] /\ u[l] = x /\ \A p \in Pages : p # l => u[p] = usage[p]
  BY <1>3, <1>4, <1>7
<1>9. ASSUME NEW p \in Pages PROVE u[p] = Held(Ending(all, p))
  <2>1. CASE p # l
    <3>1. Ending(all, p) = Ending(live, p)
      BY <1>1, <1>2, <2>1, Zenon DEF Ending
    <3>. QED BY <1>4, <1>8, <2>1, <3>1
  <2>2. CASE p = l
    <3>1. PICK S : S = Ending(all, l)
      OBVIOUS
    <3>2. b \in S /\ S \ {b} = Ending(live, l)
      BY <1>1, <1>2, <3>1, Zenon DEF Ending
    <3>3. IsFiniteSet(S) /\ \A d \in S : Charged(d) \in Nat
      BY <1>2, <3>1, EndingOk
    <3>4. Held(S) = Charged(b) + Held(S \ {b}) /\ Held(S \ {b}) \in Nat
      BY <3>2, <3>3, HeldWithout
    <3>5. usage[l] = Held(S \ {b})
      BY <1>4, <3>2, Zenon
    <3>6. x = usage[l] + Charged(b)
      BY <1>1, Zenon
    <3>. QED BY <1>5, <1>6, <1>8, <2>2, <3>1, <3>4, <3>5, <3>6
  <2>. QED BY <2>1, <2>2
<1>10. UsageOk(u, all)
  BY <1>8, <1>9, Zenon DEF UsageOk
<1>. QED BY <1>1, <1>2, <1>3, <1>10, Zenon

(* One block less.                                                         *)
LEMMA BlockRemoved ==
  ASSUME NEW live, BlocksOk(live), NEW b
  PROVE  BlocksOk(live \ {b})
<1>1. IsFiniteSet(live \ {b})
  BY FS_Subset DEF BlocksOk
<1>. QED BY <1>1, Zenon DEF BlocksOk

LEMMA UsageRemoved ==
  ASSUME NEW live, BlocksOk(live), NEW b \in live,
         NEW usage, UsageOk(usage, live), NEW x, x = usage[LastPage(b)] - Charged(b)
  PROVE  /\ UsageOk([usage EXCEPT ![LastPage(b)] = x], live \ {b})
         /\ x = 0 <=> Ending(live \ {b}, LastPage(b)) = {}
<1>0. BlockOk(b)
  BY DEF BlocksOk
<1>1. PICK l \in Pages : l = LastPage(b)
  BY <1>0, CoversPages
<1>2. PICK rest : rest = live \ {b}
  OBVIOUS
<1>3. PICK u : u = [usage EXCEPT ![l] = x]
  OBVIOUS
<1>4. usage \in [Pages -> Nat] /\ \A p \in Pages : usage[p] = Held(Ending(live, p))
  BY Zenon DEF UsageOk
<1>5. Charged(b) \in Nat
  BY <1>0, BlockLies
<1>6. PICK S : S = Ending(live, l)
  OBVIOUS
<1>7. b \in S /\ S \ {b} = Ending(rest, l)
  BY <1>1, <1>2, <1>6, Zenon DEF Ending
<1>8. IsFiniteSet(S) /\ \A d \in S : Charged(d) \in Nat
  BY <1>6, EndingOk
<1>9. Held(S) = Charged(b) + Held(S \ {b}) /\ Held(S \ {b}) \in Nat
  BY <1>7, <1>8, HeldWithout
<1>10. usage[l] = Held(S)
  BY <1>4, <1>6, Zenon
<1>11. x = Held(S \ {b})
  <2>1. x = usage[l] - Charged(b)
    BY <1>1, Zenon
  <2>. QED BY <1>5, <1>9, <1>10, <2>1
<1>12. u \in [Pages -> Nat] /\ u[l] = x /\ \A p \in Pages : p # l => u[p] = usage[p]
  BY <1>3, <1>4, <1>9, <1>11
<1>13. ASSUME NEW p \in Pages PROVE u[p] = Held(Ending(rest, p))
  <2>1. CASE p # l
    <3>1. Ending(rest, p) = Ending(live, p)
      BY <1>1, <1>2, <2>1, Zenon DEF Ending
    <3>. QED BY <1>4, <1>12, <2>1, <3>1
  <2>2. CASE p = l
    BY <1>7, <1>11, <1>12, <2>2, Zenon
  <2>. QED BY <2>1, <2>2
<1>14. UsageOk(u, rest)
  BY <1>12, <1>13, Zenon DEF UsageOk
<1>15. BlocksOk(rest)
  BY <1>2, BlockRemoved
<1>16. x = 0 <=> Ending(rest, l) = {}
  BY <1>7, <1>11, <1>15, EndingOk
<1>. QED BY <1>1, <1>2, <1>3, <1>14, <1>16, Zenon

(* Beside the last block of the active page: what covers that page ends on *)
(* it, before the position.                                                *)
LEMMA InPageKeeps ==
  ASSUME NEW c, ChunkInv(c), c.page # NoPage, NEW sz \in Nat, NeedSize(sz) < PageSize,
         PageRoom(c, NeedSize(sz))
  PROVE  ChunkInv(InPage(c, sz))
<1>0. /\ PageSize \in Nat /\ PageSize > 0 /\ Alignment \in Nat /\ Alignment > 0 /\ NumPages \in Nat
      /\ Pages = 0 .. NumPages - 1 /\ ChunkBytes = PageAt(NumPages)
  BY HeapSizesAre
<1>1. PICK free, usage, page, position, live :
    /\ c = [free |-> free, usage |-> usage, page |-> page, position |-> position, live |-> live]
    /\ ChunkIs(free, usage, page, position, live)
  BY Zenon DEF ChunkInv
<1>2. BlocksOk(live) /\ FreeOk(free, live) /\ UsageOk(usage, live) /\ ActiveOk(page, position, live)
  BY <1>1, Zenon DEF ChunkIs
<1>3. c.page = page /\ c.position = position /\ c.live = live /\ c.usage = usage /\ c.free = free
  BY <1>1
<1>4. page \in Pages /\ page \in Nat /\ page < NumPages /\ position \in Int
  BY <1>0, <1>2, <1>3 DEF ActiveOk
<1>5. /\ Ending(live, page) # {} /\ position <= PageAt(page) + PageSize
      /\ \A b \in Ending(live, page) : End(b) <= position
  BY <1>2, <1>3, Zenon DEF ActiveOk
<1>6. PICK need \in Nat : need = NeedSize(sz) /\ need > 0 /\ need < PageSize
  BY <1>0 DEF NeedSize
<1>7. PICK P \in Nat : P = PageAt(page)
  BY <1>4, BytesGrow
<1>8. PICK z \in live : LastPage(z) = page
  BY <1>5 DEF Ending
<1>9. P < position /\ position + need <= P + PageSize
  <2>1. End(z) <= position
    BY <1>5, <1>8 DEF Ending
  <2>2. PageAt(page) < End(z) /\ End(z) \in Nat
    BY <1>2, <1>8, BlockLies DEF BlocksOk, Lies
  <2>3. page * PageSize + PageSize - position >= need
    BY <1>3, <1>6 DEF PageRoom
  <2>4. P + PageSize - position >= need
    BY <1>7, <2>3, Zenon DEF PageAt
  <2>. QED BY <1>0, <1>4, <1>7, <2>1, <2>2, <2>4
<1>10. PICK b : b = BlockAt(position, sz)
  OBVIOUS
<1>11. b.at = position /\ b.size = sz /\ position \in Nat /\ End(b) = position + need
  BY <1>4, <1>6, <1>7, <1>9, <1>10 DEF BlockAt, End
<1>12. P + PageSize <= PageAt(NumPages) /\ PageAt(NumPages) \in Int
  BY <1>0, <1>4, <1>7, BytesGrow
<1>13. BlockOk(b)
  <2>1. b \in [at : Nat, size : Nat]
    BY <1>10, <1>11 DEF BlockAt
  <2>2. End(b) <= ChunkBytes
    BY <1>0, <1>9, <1>11, <1>12
  <2>3. ~(NeedSize(b.size) > PageSize)
    BY <1>0, <1>6, <1>11
  <2>4. PageAt(page) <= b.at /\ End(b) <= PageAt(page) + PageSize
    BY <1>0, <1>7, <1>9, <1>11
  <2>. QED BY <1>4, <2>1, <2>2, <2>3, <2>4, Zenon DEF BlockOk
<1>14. LastPage(b) = page /\ FirstPage(b) = page
  <2>1. PageAt(page) <= position + need - 1 /\ position + need - 1 < PageAt(page) + PageSize /\ position + need - 1 \in Nat
    BY <1>0, <1>6, <1>7, <1>9, <1>11
  <2>2. (position + need - 1) \div PageSize = page
    BY <1>4, <2>1, OnPage
  <2>3. PageAt(page) <= position /\ position < PageAt(page) + PageSize
    BY <1>0, <1>6, <1>7, <1>9, <1>11
  <2>4. position \div PageSize = page
    BY <1>4, <1>11, <2>3, OnPage
  <2>. QED BY <1>11, <2>2, <2>4 DEF LastPage, FirstPage
<1>15. ASSUME NEW a \in live PROVE End(a) <= b.at \/ End(b) <= a.at
  <2>0. BlockOk(a)
    BY <1>2 DEF BlocksOk
  <2>1. CASE Covers(a, page)
    <3>1. LastPage(a) = page
      <4>1. CASE a = z
        BY <1>8, <4>1
      <4>2. CASE a # z
        <5>1. BlockOk(z) /\ Apart(a, z)
          BY <1>2 DEF BlocksOk
        <5>2. Covers(z, page)
          BY <1>8, <5>1, CoversPages
        <5>. QED BY <1>4, <2>0, <2>1, <4>2, <5>1, <5>2, SharedPage
      <4>. QED BY <4>1, <4>2
    <3>. QED BY <1>5, <1>11, <3>1 DEF Ending
  <2>2. CASE ~Covers(a, page)
    <3>1. PICK f \in Nat, l \in Nat : f = FirstPage(a) /\ l = LastPage(a) /\ Lies(a, f, l)
      BY <1>0, <2>0, BlockLies DEF Lies
    <3>2. a.at \in Nat /\ End(a) \in Nat
      BY <2>0, BlockLies
    <3>3. page < f \/ l < page
      BY <1>4, <2>2, <3>1 DEF Covers
    <3>4. PICK F \in Int, L \in Int : F = PageAt(f) /\ L = PageAt(l)
      BY BytesGrow
    <3>5. F <= a.at /\ End(a) <= L + PageSize
      BY <3>1, <3>4, Zenon DEF Lies
    <3>6. page < f => P + PageSize <= F
      BY <1>4, <1>7, <3>4, BytesGrow
    <3>7. l < page => L + PageSize <= P
      BY <1>4, <1>7, <3>4, BytesGrow
    <3>8. PICK x \in Nat, e \in Nat : x = a.at /\ e = End(a)
      BY <3>2
    <3>9. e <= position \/ position + need <= x
      BY ONLY <1>0, <1>9, <1>11, <3>3, <3>5, <3>6, <3>7, <3>8, F \in Int, L \in Int, P \in Nat, x \in Nat, e \in Nat, need \in Nat
    <3>. QED BY <1>11, <3>8, <3>9, Zenon
  <2>. QED BY <2>1, <2>2
<1>16. BlocksOk(live \cup {b}) /\ b \notin live
  BY <1>2, <1>13, <1>15, BlockAdded
<1>17. PICK u : u = [usage EXCEPT ![page] = usage[page] + need]
  OBVIOUS
<1>18. UsageOk(u, live \cup {b})
  <2>1. Charged(b) = need
    BY <1>0, <1>6, <1>11 DEF Charged
  <2>2. PICK x : x = usage[LastPage(b)] + Charged(b)
    OBVIOUS
  <2>3. UsageOk([usage EXCEPT ![LastPage(b)] = x], live \cup {b})
    BY <1>2, <1>13, <1>16, <2>2, UsageAdded
  <2>. QED BY <1>14, <1>17, <2>1, <2>2, <2>3, Zenon
<1>19. FreeOk(free, live \cup {b})
  <2>1. \A p \in Pages : Covers(b, p) => p = page
    BY <1>0, <1>4, <1>14 DEF Covers
  <2>2. page \notin free
    <3>1. BlockOk(z)
      BY <1>2 DEF BlocksOk
    <3>2. Covers(z, page)
      BY <1>8, <3>1, CoversPages
    <3>. QED BY <1>2, <1>4, <3>2, Zenon DEF FreeOk
  <2>. QED BY <1>2, <2>1, <2>2, Zenon DEF FreeOk
<1>20. ActiveOk(page, position + need, live \cup {b})
  <2>1. Ending(live \cup {b}, page) # {}
    BY <1>14 DEF Ending
  <2>2. position + need <= PageAt(page) + PageSize
    BY <1>7, <1>9
  <2>3. ASSUME NEW a \in Ending(live \cup {b}, page) PROVE End(a) <= position + need
    <3>1. CASE a = b
      BY <1>11, <3>1
    <3>2. CASE a # b
      <4>1. a \in Ending(live, page)
        BY <2>3, <3>2 DEF Ending
      <4>2. End(a) <= position /\ End(a) \in Nat
        BY <1>2, <1>5, <4>1, BlockLies DEF Ending, BlocksOk
      <4>. QED BY <1>11, <4>2
    <3>. QED BY <3>1, <3>2
  <2>4. position + need \in Int
    BY <1>11
  <2>. QED BY <1>4, <2>1, <2>2, <2>3, <2>4, Zenon DEF ActiveOk
<1>21. ChunkIs(free, u, page, position + need, live \cup {b})
  BY <1>16, <1>18, <1>19, <1>20, Zenon DEF ChunkIs
<1>22. InPage(c, sz) = [free |-> free, usage |-> u, page |-> page, position |-> position + need, live |-> live \cup {b}]
  <2>1. InPage(c, sz) = [c EXCEPT !.usage[page] = @ + need, !.position = @ + need, !.live = @ \cup {b}]
    BY <1>3, <1>6, <1>10, Zenon DEF InPage
  <2>2. [c EXCEPT !.usage[page] = @ + need, !.position = @ + need, !.live = @ \cup {b}]
          = [c EXCEPT !.usage = u, !.position = position + need, !.live = live \cup {b}]
    BY <1>3, <1>17
  <2>. QED BY <1>1, <2>1, <2>2
<1>. QED BY <1>21, <1>22, Zenon DEF ChunkInv

(* On a run of free pages nothing lies.                                    *)
LEMMA OnPagesKeeps ==
  ASSUME NEW c, ChunkInv(c), NEW sz \in Nat, NEW at \in Nat,
         Whole(c.free, FullPages(NeedSize(sz)), at)
  PROVE  ChunkInv(OnPages(c, at, sz))
<1>0. /\ PageSize \in Nat /\ PageSize > 0 /\ Alignment \in Nat /\ Alignment > 0 /\ NumPages \in Nat
      /\ Pages = 0 .. NumPages - 1 /\ ChunkBytes = PageAt(NumPages)
  BY HeapSizesAre
<1>1. PICK free, usage, page, position, live :
    /\ c = [free |-> free, usage |-> usage, page |-> page, position |-> position, live |-> live]
    /\ ChunkIs(free, usage, page, position, live)
  BY Zenon DEF ChunkInv
<1>2. BlocksOk(live) /\ FreeOk(free, live) /\ UsageOk(usage, live) /\ ActiveOk(page, position, live)
  BY <1>1, Zenon DEF ChunkIs
<1>3. c.page = page /\ c.position = position /\ c.live = live /\ c.usage = usage /\ c.free = free
  BY <1>1
<1>4. PICK need \in Nat : need = NeedSize(sz) /\ need > 0
  BY <1>0 DEF NeedSize
<1>5. PICK n \in Nat, u \in Nat : n = FullPages(need) /\ u = LastPageUsage(need)
                                  /\ need = PageAt(n - 1) + u /\ (need <= PageSize <=> n = 1)
                                  /\ n >= 1 /\ u > 0 /\ u <= PageSize
  BY <1>4, PagesOf
<1>6. n >= 1 /\ u > 0 /\ u <= PageSize
  BY <1>5
<1>7. PICK last \in Nat : last = at + n - 1
  BY <1>6
<1>8. \A p \in Nat : at <= p /\ p <= last => p \in free
  <2>1. at .. at + n - 1 \subseteq free
    BY <1>3, <1>4, <1>5, Zenon DEF Whole
  <2>. QED BY <1>7, <2>1
<1>9. free \in SUBSET Pages
  BY <1>2 DEF FreeOk
<1>10. at \in Pages /\ last \in Pages /\ at <= last /\ last < NumPages
  <2>1. at <= last
    BY <1>6, <1>7
  <2>2. at \in free /\ last \in free
    BY <1>8, <2>1
  <2>. QED BY <1>0, <1>9, <2>1, <2>2
<1>11. PICK A \in Nat, L \in Nat : A = PageAt(at) /\ L = PageAt(last)
  BY BytesGrow
<1>12. A + need = L + u
  <2>1. PageAt(last) = PageAt(at) + PageAt(n - 1)
    BY <1>0, <1>6, <1>7 DEF PageAt
  <2>2. PICK y \in Int : y = PageAt(n - 1)
    BY BytesGrow
  <2>3. L = A + y /\ need = y + u
    BY <1>5, <1>11, <2>1, <2>2, Zenon
  <2>. QED BY <2>2, <2>3
<1>13. PICK b : b = BlockAt(A, sz)
  OBVIOUS
<1>14. b.at = A /\ b.size = sz /\ End(b) = L + u
  BY <1>4, <1>12, <1>13 DEF BlockAt, End
<1>15. L + PageSize <= PageAt(NumPages) /\ PageAt(NumPages) \in Int
  BY <1>0, <1>10, <1>11, BytesGrow
<1>16. BlockOk(b)
  <2>1. b \in [at : Nat, size : Nat]
    BY <1>11, <1>13 DEF BlockAt
  <2>2. End(b) <= ChunkBytes
    BY <1>0, <1>6, <1>14, <1>15
  <2>3. CASE need > PageSize
    <3>1. NeedSize(b.size) > PageSize /\ b.at = PageAt(at)
      BY <1>4, <1>11, <1>14, <2>3
    <3>. QED BY <1>10, <2>1, <2>2, <3>1, Zenon DEF BlockOk
  <2>4. CASE ~(need > PageSize)
    <3>1. ~(NeedSize(b.size) > PageSize)
      BY <1>4, <1>14, <2>4
    <3>2. PageAt(at) <= b.at /\ End(b) <= PageAt(at) + PageSize
      BY <1>0, <1>11, <1>12, <1>14, <2>4
    <3>. QED BY <1>10, <2>1, <2>2, <3>1, <3>2, Zenon DEF BlockOk
  <2>. QED BY <2>3, <2>4
<1>17. LastPage(b) = last /\ FirstPage(b) = at
  <2>1. PageAt(last) <= L + u - 1 /\ L + u - 1 < PageAt(last) + PageSize /\ L + u - 1 \in Nat
    BY <1>0, <1>6, <1>11
  <2>2. (L + u - 1) \div PageSize = last
    BY <2>1, OnPage
  <2>3. PageAt(at) <= A /\ A < PageAt(at) + PageSize
    BY <1>0, <1>11
  <2>4. A \div PageSize = at
    BY <1>11, <2>3, OnPage
  <2>. QED BY <1>14, <2>2, <2>4 DEF LastPage, FirstPage
<1>18. Charged(b) = u
  <2>1. CASE need > PageSize
    BY <1>4, <1>5, <1>14, <2>1 DEF Charged
  <2>2. CASE ~(need > PageSize)
    <3>1. n = 1
      BY <1>0, <1>5, <2>2
    <3>2. at = last
      BY <1>7, <3>1
    <3>3. need = u
      BY <1>11, <1>12, <3>2
    <3>. QED BY <1>4, <1>14, <2>2, <3>3 DEF Charged
  <2>. QED BY <2>1, <2>2
<1>19. ASSUME NEW a \in live PROVE End(a) <= b.at \/ End(b) <= a.at
  <2>0. BlockOk(a)
    BY <1>2 DEF BlocksOk
  <2>1. PICK f \in Nat, l \in Nat : f = FirstPage(a) /\ l = LastPage(a) /\ Lies(a, f, l)
    BY <1>0, <2>0, BlockLies DEF Lies
  <2>2. f <= l /\ f \in Pages /\ l \in Pages
    BY <2>1, Zenon DEF Lies
  <2>3. last < f \/ l < at
    <3>1. SUFFICES ASSUME f <= last, at <= l PROVE FALSE
      OBVIOUS
    <3>2. PICK p \in Nat : at <= p /\ p <= last /\ f <= p /\ p <= l
      <4>1. CASE at <= f
        BY <2>2, <3>1, <4>1
      <4>2. CASE f <= at
        BY <1>10, <3>1, <4>2
      <4>. QED BY <4>1, <4>2
    <3>3. p \in free /\ p \in Pages
      BY <1>8, <1>9, <3>2
    <3>4. Covers(a, p)
      BY <2>1, <3>2 DEF Covers
    <3>. QED BY <1>2, <3>3, <3>4 DEF FreeOk
  <2>4. PICK F \in Int, M \in Int : F = PageAt(f) /\ M = PageAt(l)
    BY BytesGrow
  <2>5. PICK x \in Nat, e \in Nat : x = a.at /\ e = End(a)
    BY <2>0, BlockLies
  <2>6. F <= x /\ e <= M + PageSize
    BY <2>1, <2>4, <2>5, Zenon DEF Lies
  <2>7. last < f => L + PageSize <= F
    BY <1>11, <2>4, BytesGrow
  <2>8. l < at => M + PageSize <= A
    BY <1>11, <2>4, BytesGrow
  <2>9. e <= A \/ L + u <= x
    BY ONLY <1>0, <1>6, <2>3, <2>6, <2>7, <2>8, F \in Int, M \in Int, A \in Nat, L \in Nat, u \in Nat, x \in Nat, e \in Nat
  <2>. QED BY <1>14, <2>5, <2>9, Zenon
<1>20. BlocksOk(live \cup {b}) /\ b \notin live
  BY <1>2, <1>16, <1>19, BlockAdded
<1>21. \A p \in Pages : at <= p /\ p <= last => Ending(live, p) = {}
  <2>1. ASSUME NEW p \in Pages, at <= p, p <= last, NEW a \in Ending(live, p) PROVE FALSE
    <3>1. p \in free
      BY <1>0, <1>8, <2>1
    <3>2. a \in live /\ LastPage(a) = p
      BY Zenon DEF Ending
    <3>3. Covers(a, p)
      BY <1>2, <3>2, CoversPages DEF BlocksOk
    <3>. QED BY <1>2, <3>1, <3>2, <3>3 DEF FreeOk
  <2>. QED BY <2>1, Zenon
<1>22. UsageOk([usage EXCEPT ![last] = u], live \cup {b})
  <2>1. Ending(live, last) = {}
    BY <1>0, <1>10, <1>21
  <2>2. usage[last] = 0
    BY <1>2, <1>10, <2>1, EndingOk DEF UsageOk
  <2>3. u = usage[LastPage(b)] + Charged(b)
    BY <1>17, <1>18, <2>2
  <2>4. UsageOk([usage EXCEPT ![LastPage(b)] = u], live \cup {b})
    BY <1>2, <1>16, <1>20, <2>3, UsageAdded
  <2>. QED BY <1>17, <2>4
<1>23. FreeOk(free \ (at .. last), live \cup {b})
  <2>1. \A p \in Pages : Covers(b, p) <=> p \in at .. last
    BY <1>0, <1>17 DEF Covers
  <2>2. ASSUME NEW p \in Pages
        PROVE  p \in free \ (at .. last) <=> \A a \in live \cup {b} : ~Covers(a, p)
    BY <1>2, <2>1, Zenon DEF FreeOk
  <2>. QED BY <1>9, <2>2, Zenon DEF FreeOk
<1>24. CASE page = NoPage
  <2>1. ActiveOk(last, L + u, live \cup {b})
    <3>1. Ending(live \cup {b}, last) = {b}
      <4>1. Ending(live, last) = {}
        BY <1>0, <1>10, <1>21
      <4>2. \A a \in live \cup {b} : LastPage(a) = last => a = b
        BY <4>1, Zenon DEF Ending
      <4>3. b \in live \cup {b}
        OBVIOUS
      <4>. QED BY <1>17, <4>2, <4>3, Zenon DEF Ending
    <3>2. L + u <= PageAt(last) + PageSize /\ L + u \in Int
      BY <1>0, <1>6, <1>11
    <3>3. \A a \in {b} : End(a) <= L + u
      BY <1>14
    <3>4. {b} # {}
      OBVIOUS
    <3>. QED BY <1>10, <3>1, <3>2, <3>3, <3>4, Zenon DEF ActiveOk
  <2>2. OnPages(c, at, sz) =
          [free |-> free \ (at .. last), usage |-> [usage EXCEPT ![last] = u],
           page |-> last, position |-> L + u, live |-> live \cup {b}]
    BY <1>3, <1>4, <1>5, <1>7, <1>11, <1>13, <1>24 DEF OnPages, PageAt
  <2>. QED BY <1>20, <1>22, <1>23, <2>1, <2>2, Zenon DEF ChunkInv, ChunkIs
<1>25. CASE page # NoPage
  <2>0. /\ page \in Pages /\ position \in Int
        /\ Ending(live, page) # {} /\ position <= PageAt(page) + PageSize
        /\ \A a \in Ending(live, page) : End(a) <= position
    BY <1>2, <1>25, Zenon DEF ActiveOk
  <2>1. page # last
    BY <1>0, <1>10, <1>21, <2>0
  <2>2. Ending(live \cup {b}, page) = Ending(live, page)
    BY <1>17, <2>1, Zenon DEF Ending
  <2>3. ActiveOk(page, position, live \cup {b})
    BY <2>0, <2>2, Zenon DEF ActiveOk
  <2>4. OnPages(c, at, sz) =
          [free |-> free \ (at .. last), usage |-> [usage EXCEPT ![last] = u],
           page |-> page, position |-> position, live |-> live \cup {b}]
    BY <1>3, <1>4, <1>5, <1>7, <1>11, <1>13, <1>25 DEF OnPages, PageAt
  <2>. QED BY <1>20, <1>22, <1>23, <2>3, <2>4, Zenon DEF ChunkInv, ChunkIs
<1>. QED BY <1>24, <1>25

(* A released block takes its inner pages with it, which no other covers,  *)
(* and the last one if no other ends there.                                *)
LEMMA ReleaseKeeps ==
  ASSUME NEW c, ChunkInv(c), NEW b \in c.live
  PROVE  ChunkInv(Release(c, b))
<1>0. PageSize \in Nat /\ PageSize > 0 /\ NumPages \in Nat /\ Pages = 0 .. NumPages - 1
  BY HeapSizesAre
<1>1. PICK free, usage, page, position, live :
    /\ c = [free |-> free, usage |-> usage, page |-> page, position |-> position, live |-> live]
    /\ ChunkIs(free, usage, page, position, live)
  BY Zenon DEF ChunkInv
<1>2. BlocksOk(live) /\ FreeOk(free, live) /\ UsageOk(usage, live) /\ ActiveOk(page, position, live)
  BY <1>1, Zenon DEF ChunkIs
<1>3. c.page = page /\ c.position = position /\ c.live = live /\ c.usage = usage /\ c.free = free /\ b \in live
  BY <1>1
<1>4. BlockOk(b)
  BY <1>2, <1>3 DEF BlocksOk
<1>5. PICK f \in Pages, l \in Pages : f = FirstPage(b) /\ l = LastPage(b) /\ f <= l
  BY <1>4, BlockLies, Zenon DEF Lies
<1>6. f \in Nat /\ l \in Nat
  BY <1>0
<1>7. PICK rest : rest = live \ {b}
  OBVIOUS
<1>8. PICK used : used = usage[l] - Charged(b)
  OBVIOUS
<1>9. BlocksOk(rest)
  BY <1>2, <1>7, BlockRemoved
<1>10. UsageOk([usage EXCEPT ![l] = used], rest) /\ (used = 0 <=> Ending(rest, l) = {})
  <2>1. used = usage[LastPage(b)] - Charged(b)
    BY <1>5, <1>8
  <2>. QED BY <1>2, <1>3, <1>5, <1>7, <2>1, UsageRemoved
\* who shares a page with b ends there, as b does
<1>11. ASSUME NEW a \in rest, NEW p \in Pages, Covers(a, p), Covers(b, p)
       PROVE  LastPage(a) = p /\ l = p
  <2>1. BlockOk(a) /\ Apart(a, b) /\ Apart(b, a) /\ a # b
    BY <1>2, <1>3, <1>7, <1>11 DEF BlocksOk
  <2>2. LastPage(a) = p
    BY <1>4, <1>11, <2>1, SharedPage
  <2>3. LastPage(b) = p
    BY <1>4, <1>11, <2>1, SharedPage
  <2>. QED BY <1>5, <2>2, <2>3
<1>12. Covers(b, l) /\ \A p \in Pages : Covers(b, p) <=> p = l \/ p \in f .. l - 1
  BY <1>0, <1>5, <1>6 DEF Covers
<1>13. PICK now : now = free \cup (f .. l - 1) \cup (IF used = 0 THEN {l} ELSE {})
  OBVIOUS
<1>14. \A a \in Ending(rest, l) : a \in rest /\ Covers(a, l)
  <2>1. ASSUME NEW a \in Ending(rest, l) PROVE a \in rest /\ Covers(a, l)
    <3>1. a \in rest /\ LastPage(a) = l
      BY Zenon DEF Ending
    <3>2. BlockOk(a)
      BY <1>9, <3>1 DEF BlocksOk
    <3>. QED BY <3>1, <3>2, CoversPages
  <2>. QED BY <2>1
<1>15. FreeOk(now, rest)
  <2>1. now \in SUBSET Pages
    <3>1. f .. l - 1 \subseteq Pages
      BY <1>0, <1>6
    <3>2. free \in SUBSET Pages
      BY <1>2 DEF FreeOk
    <3>. QED BY <1>5, <1>13, <3>1, <3>2
  <2>2. ASSUME NEW p \in Pages PROVE p \in now <=> \A a \in rest : ~Covers(a, p)
    <3>0. p \in free <=> \A a \in live : ~Covers(a, p)
      BY <1>2, Zenon DEF FreeOk
    <3>1. CASE ~Covers(b, p)
      <4>1. p \in now <=> p \in free
        BY <1>12, <1>13, <3>1, Zenon
      <4>. QED BY <1>3, <1>7, <3>0, <3>1, <4>1, Zenon
    <3>2. CASE Covers(b, p) /\ p # l
      <4>1. p \in now
        BY <1>12, <1>13, <3>2, Zenon
      <4>. QED BY <1>11, <3>2, <4>1
    <3>3. CASE p = l
      <4>1. p \notin free /\ p \notin f .. l - 1
        <5>1. p \notin free
          BY <1>3, <1>12, <3>0, <3>3, Zenon
        <5>. QED BY <1>6, <3>3, <5>1
      <4>2. p \in now <=> used = 0
        BY <1>13, <3>3, <4>1, Zenon
      <4>3. (\A a \in rest : ~Covers(a, l)) <=> Ending(rest, l) = {}
        <5>1. ASSUME NEW a \in rest, Covers(a, l) PROVE a \in Ending(rest, l)
          <6>1. LastPage(a) = l
            BY <1>11, <1>12, <5>1
          <6>. QED BY <6>1 DEF Ending
        <5>. QED BY <1>14, <5>1, Zenon
      <4>. QED BY <1>10, <3>3, <4>2, <4>3, Zenon
    <3>. QED BY <3>1, <3>2, <3>3
  <2>. QED BY <2>1, <2>2, Zenon DEF FreeOk
<1>16. PICK next : next = IF used = 0 /\ page = l THEN NoPage ELSE page
  OBVIOUS
<1>17. PICK pos : pos = IF next = NoPage THEN NoPage ELSE position
  OBVIOUS
<1>18. ActiveOk(next, pos, rest)
  <2>1. CASE next = NoPage
    <3>1. pos = NoPage /\ NoPage \in Int
      BY <1>17, <2>1 DEF NoPage
    <3>. QED BY <2>1, <3>1, Zenon DEF ActiveOk
  <2>2. CASE next # NoPage
    <3>1. next = page /\ pos = position /\ page # NoPage /\ ~(used = 0 /\ page = l)
      BY <1>16, <1>17, <2>2, Zenon
    <3>2. /\ page \in Pages \cup {NoPage} /\ position \in Int
          /\ Ending(live, page) # {} /\ position <= PageAt(page) + PageSize
          /\ \A a \in Ending(live, page) : End(a) <= position
      BY <1>2, <3>1, Zenon DEF ActiveOk
    <3>3. \A a \in Ending(rest, page) : a \in Ending(live, page)
      BY <1>7 DEF Ending
    <3>4. Ending(rest, page) # {}
      <4>1. CASE page = l
        BY <1>10, <3>1, <4>1
      <4>2. CASE page # l
        <5>1. Ending(rest, page) = Ending(live, page)
          BY <1>5, <1>7, <4>2, Zenon DEF Ending
        <5>. QED BY <3>2, <5>1
      <4>. QED BY <4>1, <4>2
    <3>. QED BY <3>1, <3>2, <3>3, <3>4, Zenon DEF ActiveOk
  <2>. QED BY <2>1, <2>2
<1>19. Release(c, b) = [free |-> now, usage |-> [usage EXCEPT ![l] = used], page |-> next,
                        position |-> pos, live |-> rest]
  <2>1. PICK need : need = NeedSize(b.size)
    OBVIOUS
  <2>2. b.at \div PageSize = f
    BY <1>5 DEF FirstPage
  <2>3. (IF need > PageSize THEN f + FullPages(need) - 1 ELSE f) = l
    BY <1>4, <1>5, <2>1, BlockLies
  <2>4. (IF need > PageSize THEN LastPageUsage(need) ELSE need) = Charged(b)
    BY <2>1, Zenon DEF Charged
  <2>5. (IF used = 0 THEN ActiveAfter(c, l) ELSE page) = next
    BY <1>3, <1>16, Zenon DEF ActiveAfter
  <2>6. Release(c, b) =
         [free |-> c.free \cup (f .. l - 1) \cup (IF used = 0 THEN {l} ELSE {}),
          usage |-> [c.usage EXCEPT ![l] = used], page |-> next,
          position |-> IF next = NoPage THEN NoPage ELSE c.position, live |-> c.live \ {b}]
    BY <1>3, <1>8, <2>1, <2>2, <2>3, <2>4, <2>5, Zenon DEF Release
  <2>. QED BY <1>3, <1>7, <1>13, <1>17, <2>6, Zenon
<1>20. ChunkIs(now, [usage EXCEPT ![l] = used], next, pos, rest)
  BY <1>9, <1>10, <1>15, <1>18, Zenon DEF ChunkIs
<1>. QED BY <1>19, <1>20, Zenon DEF ChunkInv

(* An active page that is too full is given up.                            *)
LEMMA DropKeeps ==
  ASSUME NEW c, ChunkInv(c)
  PROVE  ChunkInv([c EXCEPT !.page = NoPage, !.position = NoPage])
<1>1. PICK free, usage, page, position, live :
    /\ c = [free |-> free, usage |-> usage, page |-> page, position |-> position, live |-> live]
    /\ ChunkIs(free, usage, page, position, live)
  BY Zenon DEF ChunkInv
<1>2. [c EXCEPT !.page = NoPage, !.position = NoPage]
        = [free |-> free, usage |-> usage, page |-> NoPage, position |-> NoPage, live |-> live]
  <2>1. c = [free |-> free, usage |-> usage, page |-> page, position |-> position, live |-> live]
    BY <1>1
  <2>2. PICK none : none = NoPage
    OBVIOUS
  <2>3. [c EXCEPT !.page = none]
          = [free |-> free, usage |-> usage, page |-> none, position |-> position, live |-> live]
    BY <2>1
  <2>4. PICK d : d = [free |-> free, usage |-> usage, page |-> none, position |-> position, live |-> live]
    OBVIOUS
  <2>5. [d EXCEPT !.position = none]
          = [free |-> free, usage |-> usage, page |-> none, position |-> none, live |-> live]
    BY <2>4
  <2>6. [c EXCEPT !.page = none, !.position = none] = [d EXCEPT !.position = none]
    BY <2>3, <2>4, Zenon
  <2>. QED BY <2>2, <2>5, <2>6, Zenon
<1>3. NoPage \in Int
  BY DEF NoPage
<1>4. ChunkIs(free, usage, NoPage, NoPage, live)
  BY <1>1, <1>3, Zenon DEF ChunkIs, ActiveOk
<1>. QED BY <1>2, <1>4, Zenon DEF ChunkInv

LEMMA NewChunkIs == ChunkInv(NewChunk)
<1>1. BlocksOk({})
  BY FS_EmptySet DEF BlocksOk
<1>2. FreeOk(Pages, {})
  BY DEF FreeOk
<1>3. UsageOk([p \in Pages |-> 0], {})
  <2>1. \A p \in Pages : Held(Ending({}, p)) = 0
    <3>1. \A p \in Pages : Ending({}, p) = {}
      BY DEF Ending
    <3>. QED BY <1>1, <3>1, EndingOk
  <2>. QED BY <2>1 DEF UsageOk
<1>4. ActiveOk(NoPage, NoPage, {})
  BY DEF ActiveOk, NoPage
<1>5. ChunkIs(Pages, [p \in Pages |-> 0], NoPage, NoPage, {})
  BY <1>1, <1>2, <1>3, <1>4, Zenon DEF ChunkIs
<1>. QED BY <1>5, Zenon DEF NewChunk, ChunkInv

LEMMA RoundedIs == ASSUME NEW sz \in Nat PROVE Rounded(sz) \in Nat
<1>1. Alignment \in Nat /\ Alignment > 0
  BY HeapSizesAre
<1>2. PICK x \in Int : x = Alignment - (sz % Alignment)
  BY <1>1
<1>3. x >= 0
  <2>1. PICK m \in Int : m = sz % Alignment /\ m < Alignment
    BY <1>1
  <2>. QED BY <1>1, <1>2, <2>1
<1>4. x % Alignment \in Nat
  BY <1>1, <1>3, Divided
<1>. QED BY <1>2, <1>4 DEF Rounded

(* A request changes a chunk into one in order, whether it is served.      *)
LEMMA AllocateKeeps ==
  ASSUME NEW c, ChunkInv(c), NEW request \in Nat
  PROVE  ChunkInv(AllocateIn(c, request).chunk)
<1>0. PageSize \in Nat /\ Alignment \in Nat /\ Alignment > 0
  BY HeapSizesAre
<1>1. PICK sz \in Nat : sz = Rounded(request)
  BY RoundedIs
<1>2. PICK need \in Nat : need = NeedSize(sz) /\ need > 0
  BY <1>0 DEF NeedSize
<1>3. PICK packs \in BOOLEAN : packs = (Small(need) /\ c.page # NoPage)
  BY DEF Small
<1>4. PICK d : d = IF packs THEN [c EXCEPT !.page = NoPage, !.position = NoPage] ELSE c
  OBVIOUS
<1>5. ChunkInv(d)
  BY <1>4, DropKeeps, Zenon
<1>6. PICK at : at = GetBitScanStream(d.free, FullPages(need))
  OBVIOUS
<1>7. AllocateIn(c, request) =
        CASE sz = 0 -> [chunk |-> c, ok |-> FALSE]
          [] sz > 0 /\ packs /\ PageRoom(c, need) -> [chunk |-> InPage(c, sz), ok |-> TRUE]
          [] OTHER -> IF at = NoPage THEN [chunk |-> d, ok |-> FALSE]
                      ELSE [chunk |-> OnPages(d, at, sz), ok |-> TRUE]
  BY <1>1, <1>2, <1>3, <1>4, <1>6, Zenon DEF AllocateIn
<1>8. CASE sz = 0
  BY <1>7, <1>8
<1>9. CASE sz > 0 /\ packs /\ PageRoom(c, need)
  <2>1. NeedSize(sz) < PageSize /\ c.page # NoPage
    BY <1>2, <1>3, <1>9 DEF Small
  <2>2. ChunkInv(InPage(c, sz))
    BY <1>2, <1>9, <2>1, InPageKeeps
  <2>3. sz # 0
    BY <1>9
  <2>4. AllocateIn(c, request) = [chunk |-> InPage(c, sz), ok |-> TRUE]
    BY <1>7, <1>9, <2>3
  <2>. QED BY <2>2, <2>4
<1>10. CASE sz # 0 /\ ~(sz > 0 /\ packs /\ PageRoom(c, need))
  <2>1. AllocateIn(c, request) = IF at = NoPage THEN [chunk |-> d, ok |-> FALSE]
                                 ELSE [chunk |-> OnPages(d, at, sz), ok |-> TRUE]
    BY <1>7, <1>10
  <2>2. CASE at = NoPage
    BY <1>5, <2>1, <2>2
  <2>3. CASE at # NoPage
    <3>1. d.free \in SUBSET Pages
      <4>1. PICK free, usage, page, position, live :
          /\ d = [free |-> free, usage |-> usage, page |-> page, position |-> position, live |-> live]
          /\ ChunkIs(free, usage, page, position, live)
        BY <1>5, Zenon DEF ChunkInv
      <4>. QED BY <4>1 DEF ChunkIs, FreeOk
    <3>2. FullPages(need) \in Nat /\ FullPages(need) > 0
      BY <1>2, PagesOf
    <3>3. at \in Nat /\ Whole(d.free, FullPages(need), at)
      BY <1>6, <2>3, <3>1, <3>2, ScanFinds
    <3>4. ChunkInv(OnPages(d, at, sz))
      BY <1>2, <1>5, <3>3, OnPagesKeeps
    <3>. QED BY <2>1, <2>3, <3>4
  <2>. QED BY <2>2, <2>3
<1>. QED BY <1>8, <1>9, <1>10

(* Every chunk of the list is in order.                                    *)
AnyChunk ==
  [free : SUBSET Pages, usage : [Pages -> Nat], page : Pages \cup {NoPage},
   position : Int, live : SUBSET [at : Nat, size : Nat]]
HeapInv == chunks \in Seq(AnyChunk) /\ \A i \in DOMAIN chunks : ChunkInv(chunks[i])

LEMMA ChunkTyped == ASSUME NEW c, ChunkInv(c) PROVE c \in AnyChunk
<1>1. PICK free, usage, page, position, live :
    /\ c = [free |-> free, usage |-> usage, page |-> page, position |-> position, live |-> live]
    /\ ChunkIs(free, usage, page, position, live)
  BY Zenon DEF ChunkInv
<1>2. free \in SUBSET Pages /\ usage \in [Pages -> Nat] /\ page \in Pages \cup {NoPage} /\ position \in Int
  BY <1>1, Zenon DEF ChunkIs, FreeOk, UsageOk, ActiveOk
<1>3. live \in SUBSET [at : Nat, size : Nat]
  <2>1. \A b \in live : b \in [at : Nat, size : Nat]
    BY <1>1, Zenon DEF ChunkIs, BlocksOk, BlockOk
  <2>. QED BY <2>1, Zenon
<1>. QED BY <1>1, <1>2, <1>3, Zenon DEF AnyChunk

LEMMA AskedKeeps ==
  ASSUME HeapInv, NEW sz \in Nat
  PROVE  Asked(sz).chunks \in Seq(AnyChunk) /\ \A i \in DOMAIN Asked(sz).chunks : ChunkInv(Asked(sz).chunks[i])
<1>1. PICK r : r = [i \in DOMAIN chunks |-> AllocateIn(chunks[i], sz)]
  OBVIOUS
<1>2. PICK serve : serve = {i \in DOMAIN chunks : r[i].ok}
  OBVIOUS
<1>3. PICK new : new = [i \in DOMAIN chunks |->
                     IF \E j \in serve : j < i THEN chunks[i] ELSE r[i].chunk]
  OBVIOUS
<1>4. Asked(sz).chunks = new
  BY <1>1, <1>2, <1>3 DEF Asked
<1>5. ASSUME NEW i \in DOMAIN chunks PROVE ChunkInv(new[i])
  <2>1. ChunkInv(chunks[i])
    BY DEF HeapInv
  <2>2. ChunkInv(AllocateIn(chunks[i], sz).chunk)
    BY <2>1, AllocateKeeps
  <2>3. r[i] = AllocateIn(chunks[i], sz)
    BY <1>1, Zenon
  <2>4. new[i] = IF \E j \in serve : j < i THEN chunks[i] ELSE r[i].chunk
    BY <1>3, Zenon
  <2>. QED BY <2>1, <2>2, <2>3, <2>4, Zenon
<1>6. DOMAIN new = DOMAIN chunks
  BY <1>3, Zenon
<1>7. new \in Seq(AnyChunk)
  <2>1. DOMAIN chunks = 1 .. Len(chunks) /\ Len(chunks) \in Nat
    BY DEF HeapInv
  <2>2. \A i \in 1 .. Len(chunks) : new[i] \in AnyChunk
    BY <1>5, <2>1, ChunkTyped
  <2>3. new = [i \in 1 .. Len(chunks) |-> new[i]]
    BY <1>3, <2>1, Zenon
  <2>4. new \in [1 .. Len(chunks) -> AnyChunk]
    BY <2>2, <2>3, Zenon
  <2>5. PICK n \in Nat : n = Len(chunks)
    BY <2>1
  <2>6. new \in [1 .. n -> AnyChunk]
    BY <2>4, <2>5, Zenon
  <2>. QED BY <2>6, SeqDef
<1>. QED BY <1>4, <1>5, <1>6, <1>7, Zenon

LEMMA OneMoreKeeps ==
  ASSUME NEW s, s \in Seq(AnyChunk), \A i \in DOMAIN s : ChunkInv(s[i]), NEW c, ChunkInv(c)
  PROVE  Append(s, c) \in Seq(AnyChunk) /\ \A i \in DOMAIN Append(s, c) : ChunkInv(Append(s, c)[i])
<1>1. c \in AnyChunk
  BY ChunkTyped
<1>2. PICK n \in Nat : n = Len(s) /\ DOMAIN s = 1 .. n
  OBVIOUS
<1>3. PICK t : t = Append(s, c)
  OBVIOUS
<1>4. t \in Seq(AnyChunk) /\ Len(t) = n + 1 /\ (\A i \in 1 .. n : t[i] = s[i]) /\ t[n + 1] = c
  BY <1>1, <1>2, <1>3, AppendProperties
<1>5. DOMAIN t = 1 .. n + 1
  BY <1>2, <1>4
<1>6. \A i \in 1 .. n + 1 : i = n + 1 \/ i \in 1 .. n
  OBVIOUS
<1>. QED BY <1>2, <1>3, <1>4, <1>5, <1>6, Zenon

LEMMA HeapInvInit == HeapInit => HeapInv
BY DEF HeapInit, HeapInv

LEMMA HeapInvStep == HeapInv /\ [HeapNext]_heapVars => HeapInv'
<1>. SUFFICES ASSUME HeapInv, [HeapNext]_heapVars PROVE HeapInv'
  OBVIOUS
<1>1. ASSUME NEW sz \in HeapSizes, HeapAllocate(sz) \/ HeapMalloc(sz) PROVE HeapInv'
  <2>0. sz \in Nat
    BY HeapAssumption
  <2>1. PICK a : a = Asked(sz)
    OBVIOUS
  <2>2. a.chunks \in Seq(AnyChunk) /\ \A i \in DOMAIN a.chunks : ChunkInv(a.chunks[i])
    BY <2>0, <2>1, AskedKeeps
  <2>3. PICK c : c = AllocateIn(NewChunk, sz).chunk
    OBVIOUS
  <2>4. ChunkInv(c)
    BY <2>0, <2>3, NewChunkIs, AllocateKeeps
  <2>5. \/ chunks' = chunks \/ chunks' = a.chunks \/ chunks' = Append(a.chunks, c)
    BY <1>1, <2>1, <2>3, Zenon DEF HeapAllocate, HeapMalloc
  <2>6. CASE chunks' = chunks
    BY <2>6, Zenon DEF HeapInv
  <2>7. CASE chunks' = a.chunks
    BY <2>2, <2>7, Zenon DEF HeapInv
  <2>8. CASE chunks' = Append(a.chunks, c)
    <3>1. PICK s : s = a.chunks
      OBVIOUS
    <3>2. Append(s, c) \in Seq(AnyChunk) /\ \A i \in DOMAIN Append(s, c) : ChunkInv(Append(s, c)[i])
      BY <2>2, <2>4, <3>1, OneMoreKeeps
    <3>. QED BY <2>8, <3>1, <3>2, Zenon DEF HeapInv
  <2>. QED BY <2>5, <2>6, <2>7, <2>8
<1>2. ASSUME NEW i \in DOMAIN chunks, NEW b \in chunks[i].live, HeapDeallocate(i, b) PROVE HeapInv'
  <2>1. PICK c : c = Release(chunks[i], b)
    OBVIOUS
  <2>2. ChunkInv(c)
    BY <2>1, ReleaseKeeps DEF HeapInv
  <2>3. c \in AnyChunk
    BY <2>2, ChunkTyped
  <2>4. chunks' = [chunks EXCEPT ![i] = c]
    BY <1>2, <2>1 DEF HeapDeallocate
  <2>5. chunks' \in Seq(AnyChunk) /\ DOMAIN chunks' = DOMAIN chunks
    BY <2>3, <2>4, ExceptSeq DEF HeapInv
  <2>6. \A j \in DOMAIN chunks : chunks'[j] = IF j = i THEN c ELSE chunks[j]
    BY <2>4, Zenon
  <2>. QED BY <2>2, <2>5, <2>6, Zenon DEF HeapInv
<1>3. CASE UNCHANGED chunks
  BY <1>3, Zenon DEF HeapInv
<1>. QED BY <1>1, <1>2, <1>3, Zenon DEF HeapNext, HeapFree, heapVars

LEMMA HeapShows == HeapInv => HeapExact
<1>. SUFFICES ASSUME HeapInv PROVE HeapExact
  OBVIOUS
<1>1. ASSUME NEW i \in DOMAIN chunks
      PROVE  \E free, usage, page, position, live :
               /\ chunks[i] = [free |-> free, usage |-> usage, page |-> page, position |-> position, live |-> live]
               /\ BlocksOk(live) /\ FreeOk(free, live) /\ UsageOk(usage, live) /\ ActiveOk(page, position, live)
  BY Zenon DEF HeapInv, ChunkInv, ChunkIs
<1>2. BlocksExact
  <2>1. SUFFICES ASSUME NEW i \in DOMAIN chunks
                 PROVE  LET c == chunks[i]
                            On(p) == {b \in c.live : LastPage(b) = p}
                        IN  /\ \A b \in c.live : End(b) <= ChunkBytes
                            /\ \A a, b \in c.live : a = b \/ End(a) <= b.at \/ End(b) <= a.at
                            /\ \A p \in Pages :
                                 /\ c.usage[p] = MapThenSumSet(Charged, On(p))
                                 /\ p \in c.free <=> \A b \in c.live : p \notin b.at \div PageSize .. LastPage(b)
                            /\ c.page # NoPage => /\ c.page \notin c.free
                                                  /\ \A b \in On(c.page) : End(b) <= c.position
    BY Zenon DEF BlocksExact
  <2>2. PICK free, usage, page, position, live :
               /\ chunks[i] = [free |-> free, usage |-> usage, page |-> page, position |-> position, live |-> live]
               /\ BlocksOk(live) /\ FreeOk(free, live) /\ UsageOk(usage, live) /\ ActiveOk(page, position, live)
    BY <1>1
  <2>3. /\ chunks[i].free = free /\ chunks[i].usage = usage /\ chunks[i].page = page
        /\ chunks[i].position = position /\ chunks[i].live = live
    BY <2>2
  <2>4. \A b \in live : BlockOk(b) /\ End(b) <= ChunkBytes
    BY <2>2, Zenon DEF BlocksOk, BlockOk
  <2>5. \A a, b \in live : a = b \/ End(a) <= b.at \/ End(b) <= a.at
    BY <2>2, Zenon DEF BlocksOk, Apart
  <2>6. \A p \in Pages : usage[p] = MapThenSumSet(Charged, {b \in live : LastPage(b) = p})
    BY <2>2, Zenon DEF UsageOk, Held, Ending
  <2>7. ASSUME NEW p \in Pages, NEW b \in live
        PROVE  p \notin b.at \div PageSize .. LastPage(b) <=> ~Covers(b, p)
    <3>1. FirstPage(b) \in Nat /\ LastPage(b) \in Nat /\ p \in Nat
      BY <2>4, CoversPages, HeapSizesAre
    <3>. QED BY <3>1 DEF Covers, FirstPage
  <2>8. \A p \in Pages : p \in free <=> \A b \in live : p \notin b.at \div PageSize .. LastPage(b)
    BY <2>2, <2>7, Zenon DEF FreeOk
  <2>9. ASSUME page # NoPage
        PROVE  page \notin free /\ \A b \in {b \in live : LastPage(b) = page} : End(b) <= position
    <3>1. page \in Pages /\ Ending(live, page) # {} /\ \A b \in Ending(live, page) : End(b) <= position
      BY <2>2, <2>9, Zenon DEF ActiveOk
    <3>2. PICK z \in live : LastPage(z) = page
      BY <3>1 DEF Ending
    <3>3. Covers(z, page)
      BY <2>4, <3>2, CoversPages
    <3>. QED BY <2>2, <3>1, <3>2, <3>3, Zenon DEF FreeOk, Ending
  <2>. QED BY <2>3, <2>4, <2>5, <2>6, <2>8, <2>9, Zenon
<1>3. RefusedOnlyWhenFull
  <2>1. ASSUME NEW i \in DOMAIN chunks, NEW n \in 1 .. NumPages
        PROVE  LET free == chunks[i].free
                   Run(p) == p .. p + n - 1 \subseteq free
               IN  /\ GetBitScanStream(free, n) # NoPage => Run(GetBitScanStream(free, n))
                   /\ GetBitScanStream(free, n) = NoPage =>
                        \A p \in Pages : Run(p) =>
                          \E q \in Pages : q < p /\ q \in free /\ q \div WordBits < p \div WordBits
                                           /\ n > 1 /\ ((p \div WordBits) * WordBits) - 1 \in free
    <3>1. PICK free : free = chunks[i].free
      OBVIOUS
    <3>2. free \in SUBSET Pages
      <4>1. PICK fr, usage, page, position, live :
               /\ chunks[i] = [free |-> fr, usage |-> usage, page |-> page, position |-> position, live |-> live]
               /\ BlocksOk(live) /\ FreeOk(fr, live) /\ UsageOk(usage, live) /\ ActiveOk(page, position, live)
        BY <1>1
      <4>. QED BY <3>1, <4>1 DEF FreeOk
    <3>3. n \in Nat /\ n > 0
      BY HeapSizesAre
    <3>4. /\ GetBitScanStream(free, n) # NoPage => Whole(free, n, GetBitScanStream(free, n))
          /\ GetBitScanStream(free, n) = NoPage =>
             \A p \in Pages : Whole(free, n, p) =>
               \E q \in Pages : q < p /\ q \in free /\ q \div WordBits < p \div WordBits
                                /\ n > 1 /\ ((p \div WordBits) * WordBits) - 1 \in free
      BY <3>2, <3>3, ScanFinds
    <3>. QED BY <3>1, <3>4, Zenon DEF Whole
  <2>. QED BY <2>1, Zenon DEF RefusedOnlyWhenFull
<1>. QED BY <1>2, <1>3 DEF HeapExact

(* Whatever is requested and released, in every chunk of the heap: blocks  *)
(* do not overlap, no page of a block is marked free and every other is,   *)
(* the usage of a page is what the blocks that end on it hold of it, and   *)
(* the scan for free pages gives a run of free pages, or refuses only if   *)
(* there is none or one hides behind another that broke off                *)
(* (heap_allocator.hpp:120-345, heap.hpp:60-110).                          *)
THEOREM HeapStaysExact == LibrarySpec => []HeapExact
<1>1. LibraryInit => HeapInv
  BY HeapInvInit DEF LibraryInit
<1>2. [LibraryNext]_libraryVars => [HeapNext]_heapVars
  BY Zenon DEF LibraryNext, Rest, libraryVars
<1>3. HeapInv /\ [LibraryNext]_libraryVars => HeapInv'
  BY <1>2, HeapInvStep
<1>. QED BY <1>1, <1>3, HeapShows, PTL DEF LibrarySpec

(* x is what stands in s behind place c.                                   *)
Stands(s, c, x) == c + Len(x) <= Len(s) /\ \A i \in 1 .. Len(x) : s[c + i] = x[i]

(* A long length: as many zeros as 255 goes into it, leaving some.         *)
LEMMA LongLengthIs ==
  ASSUME NEW n \in Nat, n > 0
  PROVE  \E z \in Nat, r \in 1 .. 255 :
           /\ n = 255 * z + r
           /\ LongLength(n) \in Seq(Nat) /\ Len(LongLength(n)) = z + 1
           /\ LongLength(n)[z + 1] = r
           /\ \A i \in 1 .. z : LongLength(n)[i] = 0
<1>1. PICK z \in Nat, m \in Nat : z = (n - 1) \div 255 /\ m < 255 /\ n - 1 = z * 255 + m
  <2>1. n - 1 \in Nat
    OBVIOUS
  <2>. QED BY <2>1, Divided
<1>2. PICK r \in 1 .. 255 : r = m + 1
  BY <1>1
<1>3. n = 255 * z + r
  BY <1>1, <1>2
<1>4. LongLength(n) = [i \in 1 .. z |-> 0] \o <<r>>
  BY <1>1, <1>3 DEF LongLength
<1>5. PICK e \in Seq(Nat) : e = [i \in 1 .. z |-> 0] /\ Len(e) = z /\ \A i \in 1 .. z : e[i] = 0
  <2>1. [i \in 1 .. z |-> 0] \in Seq(Nat)
    OBVIOUS
  <2>2. Len([i \in 1 .. z |-> 0]) = z
    OBVIOUS
  <2>. QED BY <2>1, <2>2
<1>6. <<r>> \in Seq(Nat) /\ Len(<<r>>) = 1 /\ <<r>>[1] = r
  OBVIOUS
<1>7. /\ e \o <<r>> \in Seq(Nat) /\ Len(e \o <<r>>) = z + 1
      /\ \A i \in 1 .. z + 1 : (e \o <<r>>)[i] = IF i <= z THEN e[i] ELSE <<r>>[i - z]
  BY <1>5, <1>6, ConcatProperties
<1>8. (e \o <<r>>)[z + 1] = r
  BY <1>6, <1>7
<1>9. \A i \in 1 .. z : (e \o <<r>>)[i] = 0
  BY <1>5, <1>7
<1>. QED BY <1>3, <1>4, <1>5, <1>7, <1>8, <1>9

(* It is read as the length that was written, from its first byte to its   *)
(* last.                                                                   *)
LEMMA LongRead ==
  ASSUME lin \in Seq(Nat), NEW ip \in Nat, NEW n \in Nat, n > 0, NEW base \in Int,
         Stands(lin, ip, LongLength(n))
  PROVE  Long(ip, base) = [t |-> n + base, ip |-> ip + Len(LongLength(n)), cut |-> FALSE]
<1>1. PICK z \in Nat, r \in 1 .. 255 :
        /\ n = 255 * z + r
        /\ LongLength(n) \in Seq(Nat) /\ Len(LongLength(n)) = z + 1
        /\ LongLength(n)[z + 1] = r
        /\ \A i \in 1 .. z : LongLength(n)[i] = 0
  BY LongLengthIs
<1>2. ip + z + 1 <= Len(lin) /\ \A i \in 1 .. z + 1 : lin[ip + i] = LongLength(n)[i]
  BY <1>1 DEF Stands
<1>3. Byte(ip + z) = r
  <2>1. ip + z < Len(lin) /\ ip + z + 1 = ip + (z + 1) /\ z + 1 \in 1 .. z + 1
    BY <1>2
  <2>2. lin[ip + (z + 1)] = r
    BY <1>1, <1>2, <2>1, Zenon
  <2>. QED BY <2>1, <2>2, Zenon DEF Byte
<1>4. ASSUME NEW k \in 0 .. z - 1 PROVE Byte(ip + k) = 0 /\ ip + k < Len(lin)
  <2>1. k + 1 \in 1 .. z + 1 /\ k + 1 \in 1 .. z
    BY <1>1
  <2>2. lin[ip + (k + 1)] = 0
    BY <1>1, <1>2, <2>1, ZenonT(60)
  <2>. QED BY <1>2, <2>2 DEF Byte
<1>5. PICK K : K = {k \in 0 .. Len(lin) : ip + k >= Len(lin) \/ Byte(ip + k) # 0}
  OBVIOUS
<1>6. K \in SUBSET Nat /\ z \in K
  <2>1. Len(lin) \in Nat /\ ip + z + 1 <= Len(lin)
    BY <1>2
  <2>2. z \in 0 .. Len(lin)
    BY ONLY <2>1, z \in Nat, ip \in Nat
  <2>3. Byte(ip + z) # 0
    BY ONLY <1>3, r \in 1 .. 255
  <2>4. 0 .. Len(lin) \subseteq Nat
    BY ONLY <2>1
  <2>. QED BY <1>5, <2>2, <2>3, <2>4, Zenon
<1>7. \A k \in K : z <= k
  BY <1>4, <1>5
<1>8. Min(K) = z
  <2>1. Min(K) \in K /\ \A y \in K : Min(K) <= y
    <3>1. K # {}
      BY <1>6
    <3>. QED BY <1>6, <3>1, LeastOf, Zenon
  <2>2. PICK m : m = Min(K)
    OBVIOUS
  <2>3. m \in Nat /\ m <= z /\ z <= m
    BY <1>6, <1>7, <2>1, <2>2
  <2>. QED BY <2>2, <2>3
<1>9. Zeros(ip) = z
  BY <1>5, <1>8 DEF Zeros
<1>10. NeedIp(ip + z, 1)
  BY <1>2 DEF NeedIp
<1>11. 255 * Zeros(ip) + base + Byte(ip + Zeros(ip)) = n + base
  BY <1>1, <1>3, <1>9
<1>12. ip + Zeros(ip) + 1 = ip + Len(LongLength(n))
  BY <1>1, <1>9
<1>13. (Zeros(ip) > 0 /\ ~NeedIp(ip + Zeros(ip), 1)) = FALSE
  BY <1>9, <1>10
<1>. QED BY <1>11, <1>12, <1>13 DEF Long

(* The parts of a byte.                                                    *)
LEMMA ShortParts ==
  ASSUME NEW l \in 2 .. 7, NEW a \in 0 .. 7, NEW e \in 0 .. 3, NEW t \in Nat, t = l * 32 + a * 4 + e
  PROVE  t >= 64 /\ (t \div 4) % 8 = a /\ t \div 32 = l
<1>1. t \in Nat /\ t >= 64
  OBVIOUS
<1>2. t \div 4 = l * 8 + a
  OBVIOUS
<1>3. (l * 8 + a) % 8 = a
  OBVIOUS
<1>4. t \div 32 = l
  OBVIOUS
<1>. QED BY <1>1, <1>2, <1>3, <1>4

LEMMA LowParts ==
  ASSUME NEW o \in Nat, NEW e \in 0 .. 3
  PROVE  /\ (o * 4) % 256 \in Nat /\ ((o * 4) % 256) % 4 = 0
         /\ (((o * 4) % 256) + e) \div 4 = o % 64
         /\ o = (o % 64) + 64 * (o \div 64) /\ o \div 64 \in Nat /\ o % 64 \in Nat
<1>1. PICK q \in Nat, m \in 0 .. 63 : q = o \div 64 /\ m = o % 64 /\ o = q * 64 + m
  BY Divided
<1>2. o * 4 = q * 256 + m * 4 /\ m * 4 \in Nat /\ m * 4 < 256
  BY <1>1
<1>3. (o * 4) % 256 = m * 4
  BY <1>1, <1>2, DividedIs
<1>4. (m * 4) % 4 = 0 /\ (m * 4 + e) \div 4 = m
  BY <1>1
<1>. QED BY <1>1, <1>3, <1>4

LEMMA FarParts ==
  ASSUME NEW o \in Nat, o > 0, o < 32768
  PROVE  /\ (o \div 16384) % 2 \in 0 .. 1
         /\ o = ((o \div 16384) % 2) * 16384 + (o % 64) + 64 * ((o \div 64) % 256)
<1>0. o \in Nat
  OBVIOUS
<1>1. PICK q \in Nat, m \in 0 .. 63 : q = o \div 64 /\ m = o % 64 /\ o = q * 64 + m
  BY <1>0, Divided
<1>2. PICK h \in Nat, k \in 0 .. 255 : h = q \div 256 /\ k = q % 256 /\ q = h * 256 + k
  BY Divided
<1>3. h \in 0 .. 1
  BY <1>1, <1>2
<1>4. o \div 16384 = h
  <2>1. PICK l \in Nat : l = k * 64 + m /\ l < 16384
    BY <1>1, <1>2
  <2>2. o = h * 16384 + l
    BY <1>1, <1>2, <2>1
  <2>. QED BY <2>1, <2>2, DividedIs
<1>5. h % 2 = h
  BY <1>3
<1>6. o = h * 16384 + m + 64 * k
  BY <1>1, <1>2
<1>. QED BY <1>1, <1>2, <1>3, <1>4, <1>5, <1>6

(* A length in the first byte, or behind it.                               *)
IsLength(e, len, max, marker) ==
  /\ e \in Seq(Nat) /\ Len(e) > 0
  /\ e[1] = IF len <= max THEN marker + len - 2 ELSE marker
  /\ len <= max => Len(e) = 1
  /\ len > max => Len(e) = 1 + Len(LongLength(len - max)) /\ Stands(e, 1, LongLength(len - max))

LEMMA MatchLengthIs ==
  ASSUME NEW len \in Nat, len > 2, NEW max \in Nat, NEW marker \in Nat
  PROVE  IsLength(MatchLength(len, max, marker), len, max, marker)
<1>1. CASE len <= max
  <2>1. MatchLength(len, max, marker) = <<marker + len - 2>> /\ marker + len - 2 \in Nat
    BY <1>1 DEF MatchLength
  <2>2. PICK b \in Nat : b = marker + len - 2
    BY <2>1
  <2>3. <<b>> \in Seq(Nat) /\ Len(<<b>>) = 1 /\ <<b>>[1] = b
    OBVIOUS
  <2>. QED BY <1>1, <2>1, <2>2, <2>3 DEF IsLength
<1>2. CASE len > max
  <2>1. PICK n \in Nat : n = len - max /\ n > 0
    BY <1>2
  <2>2. MatchLength(len, max, marker) = <<marker>> \o LongLength(n)
    BY <1>2, <2>1 DEF MatchLength
  <2>3. PICK l \in Seq(Nat) : l = LongLength(n)
    BY <2>1, LongLengthIs
  <2>4. <<marker>> \in Seq(Nat) /\ Len(<<marker>>) = 1 /\ <<marker>>[1] = marker
    OBVIOUS
  <2>5. PICK e \in Seq(Nat) : e = <<marker>> \o l /\ Len(e) = 1 + Len(l)
          /\ \A i \in 1 .. 1 + Len(l) : e[i] = IF i <= 1 THEN <<marker>>[i] ELSE l[i - 1]
    <3>1. /\ <<marker>> \o l \in Seq(Nat) /\ Len(<<marker>> \o l) = Len(<<marker>>) + Len(l)
          /\ \A i \in 1 .. Len(<<marker>>) + Len(l) :
               (<<marker>> \o l)[i] = IF i <= Len(<<marker>>) THEN <<marker>>[i] ELSE l[i - Len(<<marker>>)]
      BY <2>4, ConcatProperties
    <3>. QED BY <2>4, <3>1
  <2>6. Len(l) \in Nat
    BY <2>3
  <2>7. e[1] = marker
    BY <2>4, <2>5, <2>6
  <2>8. \A i \in 1 .. Len(l) : e[1 + i] = l[i]
    BY <2>5, <2>6
  <2>. QED BY <1>2, <2>1, <2>2, <2>3, <2>5, <2>6, <2>7, <2>8 DEF Stands, IsLength
<1>. QED BY <1>1, <1>2

(* The code of a match: for near ones of few bytes, and for the others     *)
(* with a marker that says how far they reach.                             *)
NearCode(len, off) == <<(len - 1) * 32 + ((off - 1) % 8) * 4, (off - 1) \div 8>>
Low(o) == (o * 4) % 256
LongCode(len, max, marker, o, k) == MatchLength(len, max, marker) \o <<Low(o), k>>

Made(e, l, x, y) ==
  /\ e \in Seq(Nat) /\ Len(e) = Len(l) + 2 /\ Len(l) \in Nat /\ Len(l) > 0
  /\ \A i \in 1 .. Len(l) : e[i] = l[i]
  /\ e[Len(l) + 1] = x /\ e[Len(l) + 2] = y

LEMMA LongCodeIs ==
  ASSUME NEW len \in Nat, len > 2, NEW max \in Nat, NEW marker \in Nat, NEW o \in Nat, NEW k \in Nat
  PROVE  Made(LongCode(len, max, marker, o, k), MatchLength(len, max, marker), Low(o), k)
<1>1. PICK l \in Seq(Nat) : l = MatchLength(len, max, marker) /\ Len(l) > 0
  BY MatchLengthIs DEF IsLength
<1>2. PICK x \in Nat : x = Low(o)
  BY LowParts DEF Low
<1>3. <<x, k>> \in Seq(Nat) /\ Len(<<x, k>>) = 2 /\ <<x, k>>[1] = x /\ <<x, k>>[2] = k
  OBVIOUS
<1>4. PICK e \in Seq(Nat) : e = l \o <<x, k>> /\ Len(e) = Len(l) + 2
        /\ \A i \in 1 .. Len(l) + 2 : e[i] = IF i <= Len(l) THEN l[i] ELSE <<x, k>>[i - Len(l)]
  <2>1. /\ l \o <<x, k>> \in Seq(Nat) /\ Len(l \o <<x, k>>) = Len(l) + Len(<<x, k>>)
        /\ \A i \in 1 .. Len(l) + Len(<<x, k>>) :
             (l \o <<x, k>>)[i] = IF i <= Len(l) THEN l[i] ELSE <<x, k>>[i - Len(l)]
    BY <1>3, ConcatProperties
  <2>. QED BY <1>3, <2>1
<1>5. Len(l) \in Nat
  BY <1>1
<1>6. e[Len(l) + 1] = x /\ e[Len(l) + 2] = k
  BY <1>3, <1>4, <1>5
<1>7. \A i \in 1 .. Len(l) : e[i] = l[i]
  BY <1>4, <1>5
<1>. QED BY <1>1, <1>2, <1>4, <1>5, <1>6, <1>7 DEF LongCode, Made

Reaches(off) == off > 0 /\ off < 49152
IsNear(len, off) == len <= M2_MAX_LEN /\ off <= M2_MAX_OFFSET
Far(off) == off - M3_MAX_OFFSET
FarMarker(off) == M4_MARKER + ((Far(off) \div 16384) % 2) * 8
MiddleCode(len, off) == LongCode(len, M3_MAX_LEN, M3_MARKER, off - 1, (off - 1) \div 64)
FarCode(len, off) == LongCode(len, M4_MAX_LEN, FarMarker(off), Far(off), (Far(off) \div 64) % 256)

LEMMA CodeForms ==
  ASSUME NEW len \in Nat, len > 2, NEW off \in Nat, Reaches(off)
  PROVE  \/ IsNear(len, off) /\ EncodeMatch(len, off) = NearCode(len, off)
         \/ off <= M3_MAX_OFFSET /\ EncodeMatch(len, off) = MiddleCode(len, off)
         \/ ~(off <= M3_MAX_OFFSET) /\ EncodeMatch(len, off) = FarCode(len, off)
<1>1. CASE IsNear(len, off)
  BY <1>1, SMT DEF IsNear, EncodeMatch, NearCode
<1>2. CASE ~IsNear(len, off) /\ off <= M3_MAX_OFFSET
  <2>1. EncodeMatch(len, off) = MiddleCode(len, off)
    BY <1>2, SMTT(30) DEF IsNear, EncodeMatch, MiddleCode, LongCode, Low
  <2>. QED BY <1>2, <2>1
<1>3. CASE ~IsNear(len, off) /\ ~(off <= M3_MAX_OFFSET)
  <2>1. EncodeMatch(len, off) = FarCode(len, off)
    BY <1>3, SMTT(30) DEF IsNear, EncodeMatch, FarCode, LongCode, Low, Far, FarMarker
  <2>. QED BY <1>3, <2>1
<1>. QED BY <1>1, <1>2, <1>3

(* The last byte but one has room for a number of literals, and the first  *)
(* is not one that could begin a run.                                      *)
IsCode(e) ==
  /\ e \in Seq(Nat) /\ Len(e) > 1 /\ e[Len(e) - 1] % 4 = 0
  /\ e[1] > 15

LEMMA FarNumbers ==
  ASSUME NEW off \in Nat, ~(off <= M3_MAX_OFFSET), Reaches(off)
  PROVE  /\ Far(off) \in Nat /\ Far(off) > 0 /\ Far(off) < 32768
         /\ FarMarker(off) \in Nat /\ FarMarker(off) \in {16, 24}
         /\ (Far(off) \div 64) % 256 \in Nat
<1>1. PICK o \in Nat : o = Far(off) /\ o > 0 /\ o < 32768
  BY DEF Reaches, Far, M3_MAX_OFFSET
<1>2. PICK h \in 0 .. 1 : h = (o \div 16384) % 2
  BY <1>1, FarParts
<1>3. FarMarker(off) = 16 + h * 8
  BY <1>1, <1>2 DEF FarMarker, M4_MARKER
<1>4. o \div 64 \in Nat
  BY Divided
<1>5. (o \div 64) % 256 \in Nat
  BY <1>4, Divided
<1>. QED BY <1>1, <1>2, <1>3, <1>5

LEMMA CodeIs ==
  ASSUME NEW len \in Nat, len > 2, NEW off \in Nat, Reaches(off)
  PROVE  IsCode(EncodeMatch(len, off))
<1>0. off > 0
  BY DEF Reaches
<1>1. CASE IsNear(len, off) /\ EncodeMatch(len, off) = NearCode(len, off)
  <2>1. PICK a \in 0 .. 7, k \in Nat : a = (off - 1) % 8 /\ k = (off - 1) \div 8
    <3>1. off - 1 \in Nat
      BY <1>0
    <3>. QED BY <3>1, Divided
  <2>2. PICK t \in Nat : t = (len - 1) * 32 + a * 4 /\ t > 15 /\ t % 4 = 0
    BY <1>1 DEF IsNear, M2_MAX_LEN
  <2>3. NearCode(len, off) = <<t, k>>
    BY <2>1, <2>2 DEF NearCode
  <2>4. <<t, k>> \in Seq(Nat) /\ Len(<<t, k>>) = 2 /\ <<t, k>>[1] = t
    OBVIOUS
  <2>5. <<t, k>>[Len(<<t, k>>) - 1] = t
    OBVIOUS
  <2>. QED BY <1>1, <2>2, <2>3, <2>4, <2>5 DEF IsCode
<1>2. ASSUME NEW max \in Nat, NEW marker \in Nat, marker > 15, NEW o \in Nat, NEW k \in Nat
      PROVE  IsCode(LongCode(len, max, marker, o, k))
  <2>1. PICK l : l = MatchLength(len, max, marker) /\ Len(l) \in Nat /\ Len(l) > 0
                 /\ (l[1] = marker + len - 2 \/ l[1] = marker)
    <3>1. Len(MatchLength(len, max, marker)) \in Nat
      BY LongCodeIs DEF Made
    <3>2. IsLength(MatchLength(len, max, marker), len, max, marker)
      BY MatchLengthIs
    <3>3. PICK x : x = MatchLength(len, max, marker) /\ IsLength(x, len, max, marker)
      BY <3>2
    <3>4. Len(x) > 0 /\ (x[1] = marker + len - 2 \/ x[1] = marker)
      BY <3>3 DEF IsLength
    <3>. QED BY <3>1, <3>3, <3>4
  <2>2. PICK e : e = LongCode(len, max, marker, o, k) /\ Made(e, l, Low(o), k)
    BY <2>1, LongCodeIs
  <2>3. Low(o) % 4 = 0
    BY LowParts DEF Low
  <2>4. e[1] > 15
    <3>1. e[1] = l[1]
      BY <2>1, <2>2, SMTT(30) DEF Made
    <3>2. l[1] > 15
      <4>1. PICK f : f = l[1] /\ (f = marker + len - 2 \/ f = marker)
        BY <2>1, Zenon
      <4>2. f > 15
        BY ONLY <1>2, <4>1, len \in Nat, len > 2, marker \in Nat
      <4>. QED BY <4>1, <4>2, Zenon
    <3>. QED BY <3>1, <3>2
  <2>5. e[Len(e) - 1] % 4 = 0
    BY <2>1, <2>2, <2>3 DEF Made
  <2>. QED BY <2>1, <2>2, <2>4, <2>5 DEF IsCode, Made
<1>3. CASE off <= M3_MAX_OFFSET /\ EncodeMatch(len, off) = MiddleCode(len, off)
  <2>1. PICK o \in Nat : o = off - 1
    BY <1>0
  <2>2. o \div 64 \in Nat
    BY Divided
  <2>3. IsCode(LongCode(len, M3_MAX_LEN, M3_MARKER, o, o \div 64))
    BY <1>2, <2>2 DEF M3_MAX_LEN, M3_MARKER
  <2>. QED BY <1>3, <2>1, <2>3 DEF MiddleCode
<1>4. CASE ~(off <= M3_MAX_OFFSET) /\ EncodeMatch(len, off) = FarCode(len, off)
  <2>1. FarMarker(off) \in Nat /\ FarMarker(off) > 15 /\ Far(off) \in Nat /\ (Far(off) \div 64) % 256 \in Nat
    BY <1>4, FarNumbers
  <2>2. M4_MAX_LEN \in Nat
    BY DEF M4_MAX_LEN
  <2>. QED BY <1>2, <1>4, <2>1, <2>2 DEF FarCode
<1>. QED BY <1>1, <1>3, <1>4, CodeForms

(* The code x stands behind place b; its last byte but one may count       *)
(* literals.                                                               *)
Coded(s, b, x) ==
  /\ b + Len(x) <= Len(s)
  /\ \A i \in 1 .. Len(x) : i # Len(x) - 1 => s[b + i] = x[i]
  /\ s[b + (Len(x) - 1)] \in x[Len(x) - 1] .. x[Len(x) - 1] + 3

ReadAs(b, e, len, max, marker, m, x) ==
  \E ip \in Nat :
    /\ ip + 2 = b + Len(e) /\ ip + 2 <= Len(lin)
    /\ LengthOf(Byte(b) % m, b + 1, max - 2) = [t |-> len - 2, ip |-> ip, cut |-> FALSE]
    /\ Byte(b) = IF len <= max THEN marker + len - 2 ELSE marker
    /\ Offset(ip) = x

(* The length of a match and the bytes of its offset are read again.       *)
LEMMA LongCodeRead ==
  ASSUME lin \in Seq(Nat), NEW b \in Nat, NEW len \in Nat, len > 2, NEW max \in Nat, max > 2,
         NEW marker \in Nat, NEW o \in Nat, NEW k \in Nat, NEW m \in Nat, m > max - 2,
         \A x \in 0 .. m - 1 : (marker + x) % m = x,
         Coded(lin, b, LongCode(len, max, marker, o, k))
  PROVE  ReadAs(b, LongCode(len, max, marker, o, k), len, max, marker, m, (o % 64) + k * 64)
<1>1. PICK l : l = MatchLength(len, max, marker) /\ IsLength(l, len, max, marker)
  BY MatchLengthIs
<1>2. PICK e : e = LongCode(len, max, marker, o, k) /\ Made(e, l, Low(o), k)
  BY <1>1, LongCodeIs
<1>0. Coded(lin, b, e)
  BY <1>2
<1>3. PICK n \in Nat : n = Len(l) /\ n > 0 /\ Len(e) = n + 2 /\ b + n + 2 <= Len(lin)
  BY <1>0, <1>1, <1>2, SMTT(30) DEF Made, Coded
<1>4. ASSUME NEW i \in 1 .. n PROVE lin[b + i] = l[i]
  <2>1. e[i] = l[i]
    BY <1>2, <1>3 DEF Made
  <2>2. i \in 1 .. Len(e) /\ i # Len(e) - 1
    BY <1>3, SMTT(30)
  <2>. QED BY <1>0, <2>1, <2>2 DEF Coded
<1>5. lin[b + (n + 1)] \in Low(o) .. Low(o) + 3
  <2>1. Len(e) - 1 = n + 1 /\ e[n + 1] = Low(o)
    BY <1>2, <1>3 DEF Made
  <2>. QED BY <1>0, <2>1 DEF Coded
<1>6. lin[b + (n + 2)] = k
  <2>1. e[n + 2] = k
    BY <1>2, <1>3 DEF Made
  <2>2. n + 2 \in 1 .. Len(e) /\ n + 2 # Len(e) - 1
    BY <1>3
  <2>. QED BY <1>0, <2>1, <2>2 DEF Coded
<1>7. PICK ip \in Nat : ip = b + n
  OBVIOUS
<1>8. Byte(ip + 1) = k
  BY <1>3, <1>6, <1>7 DEF Byte
<1>9. PICK x \in 0 .. 3 : Byte(ip) = Low(o) + x
  <2>1. PICK y \in Nat : y = Low(o)
    BY LowParts DEF Low
  <2>2. lin[b + (n + 1)] \in y .. y + 3
    BY <1>5, <2>1
  <2>3. ip < Len(lin) /\ ip + 1 = b + (n + 1)
    BY <1>3, <1>7
  <2>4. Byte(ip) = lin[b + (n + 1)]
    BY <2>3 DEF Byte
  <2>5. PICK z \in Int : y <= z /\ z <= y + 3 /\ z = lin[b + (n + 1)]
    BY <2>2
  <2>6. z - y \in 0 .. 3 /\ z = y + (z - y)
    BY ONLY <2>5, y \in Nat, z \in Int
  <2>. QED BY <2>1, <2>4, <2>5, <2>6
<1>10. Offset(ip) = (o % 64) + k * 64
  <2>1. (Low(o) + x) \div 4 = o % 64
    BY LowParts DEF Low
  <2>. QED BY <1>8, <1>9, <2>1 DEF Offset
<1>11. Byte(b) = l[1]
  BY <1>3, <1>4 DEF Byte
<1>12. LengthOf(Byte(b) % m, b + 1, max - 2) = [t |-> len - 2, ip |-> ip, cut |-> FALSE]
  <2>1. CASE len <= max
    <3>1. Byte(b) = marker + (len - 2) /\ n = 1
      BY <1>1, <1>3, <1>11, <2>1 DEF IsLength
    <3>2. Byte(b) % m = len - 2 /\ len - 2 # 0
      BY <2>1, <3>1
    <3>. QED BY <1>7, <3>1, <3>2 DEF LengthOf
  <2>2. CASE len > max
    <3>1. PICK c \in Nat : c = len - max /\ c > 0
      BY <2>2
    <3>2. Byte(b) = marker + 0 /\ n = 1 + Len(LongLength(c)) /\ Stands(l, 1, LongLength(c))
      BY <1>1, <1>3, <1>11, <2>2, <3>1 DEF IsLength
    <3>3. Byte(b) % m = 0
      BY <3>2
    <3>4. PICK y \in Seq(Nat) : y = LongLength(c)
      BY <3>1, LongLengthIs
    <3>5. Stands(lin, b + 1, y)
      <4>1. ASSUME NEW i \in 1 .. Len(y) PROVE lin[b + 1 + i] = y[i]
        <5>1. l[1 + i] = y[i] /\ 1 + i \in 1 .. n
          BY <3>2, <3>4 DEF Stands
        <5>2. lin[b + (1 + i)] = l[1 + i]
          BY <1>4, <5>1
        <5>3. b + 1 + i = b + (1 + i)
          OBVIOUS
        <5>. QED BY <5>1, <5>2, <5>3
      <4>2. n = 1 + Len(y) /\ Len(y) \in Nat
        BY <3>2, <3>4
      <4>3. b + 1 + Len(y) <= Len(lin)
        BY <1>3, <4>2
      <4>. QED BY <4>1, <4>3 DEF Stands
    <3>6. Long(b + 1, max - 2) = [t |-> c + (max - 2), ip |-> b + 1 + Len(y), cut |-> FALSE]
      <4>1. b + 1 \in Nat /\ max - 2 \in Int /\ Stands(lin, b + 1, LongLength(c))
        BY <3>4, <3>5
      <4>2. Long(b + 1, max - 2) = [t |-> c + (max - 2), ip |-> b + 1 + Len(LongLength(c)), cut |-> FALSE]
        BY <3>1, <4>1, LongRead
      <4>. QED BY <3>4, <4>2
    <3>7. c + (max - 2) = len - 2 /\ b + 1 + Len(y) = ip
      BY <1>7, <3>1, <3>2, <3>4
    <3>8. NeedIp(ip, 2)
      BY <1>3, <1>7 DEF NeedIp
    <3>9. Long(b + 1, max - 2) = [t |-> len - 2, ip |-> ip, cut |-> FALSE]
      BY <3>6, <3>7
    <3>10. PICK r : r = Long(b + 1, max - 2) /\ r.ip = ip /\ r.cut = FALSE
                    /\ r = [t |-> len - 2, ip |-> ip, cut |-> FALSE]
      BY <3>9
    <3>11. (r.cut \/ ~NeedIp(r.ip, 2)) = FALSE
      BY <3>8, <3>10
    <3>12. [r EXCEPT !.cut = FALSE] = r
      BY <3>10
    <3>13. LengthOf(0, b + 1, max - 2) = [r EXCEPT !.cut = r.cut \/ ~NeedIp(r.ip, 2)]
      BY <3>10 DEF LengthOf
    <3>. QED BY <3>3, <3>10, <3>11, <3>12, <3>13
  <2>. QED BY <2>1, <2>2
<1>13. Byte(b) = IF len <= max THEN marker + len - 2 ELSE marker
  BY <1>1, <1>11 DEF IsLength
<1>14. ip + 2 = b + Len(e) /\ ip + 2 <= Len(lin)
  BY <1>3, <1>7
<1>. QED BY <1>2, <1>10, <1>12, <1>13, <1>14 DEF ReadAs

Decoded(off, n, ip) == [off |-> off, n |-> n, ip |-> ip, end |-> "no"]

LEMMA NearCodeRead ==
  ASSUME lin \in Seq(Nat), NEW b \in Nat, NEW len \in Nat, len > 2,
         NEW off \in Nat, off > 0, IsNear(len, off), Coded(lin, b, NearCode(len, off))
  PROVE  /\ b + Len(NearCode(len, off)) = b + 2 /\ b + 2 <= Len(lin) /\ Byte(b) > 15
         /\ DecodeMatch(Byte(b), b + 1) = Decoded(off, len, b + 2)
<1>1. PICK a \in 0 .. 7, k \in Nat : a = (off - 1) % 8 /\ k = (off - 1) \div 8 /\ off - 1 = k * 8 + a
  <2>1. PICK p \in Nat : p = off - 1
    OBVIOUS
  <2>2. p \div 8 \in Nat /\ p % 8 \in 0 .. 7 /\ p = (p \div 8) * 8 + (p % 8)
    BY Divided
  <2>. QED BY <2>1, <2>2
<1>2. PICK t \in Nat : t = (len - 1) * 32 + a * 4
  OBVIOUS
<1>3. NearCode(len, off) = <<t, k>>
  BY <1>1, <1>2 DEF NearCode
<1>4. b + 2 <= Len(lin) /\ lin[b + 1] \in t .. t + 3 /\ lin[b + 2] = k
  BY <1>3 DEF Coded
<1>5. PICK e \in 0 .. 3 : lin[b + 1] = t + e
  <2>1. PICK z \in Int : t <= z /\ z <= t + 3 /\ z = lin[b + 1]
    BY <1>4
  <2>2. z - t \in 0 .. 3 /\ z = t + (z - t)
    BY ONLY <2>1, t \in Nat, z \in Int
  <2>. QED BY <2>1, <2>2
<1>6. Byte(b) = t + e /\ Byte(b + 1) = k
  BY <1>4, <1>5 DEF Byte
<1>7. PICK l \in 2 .. 7, y \in Nat : l = len - 1 /\ y = t + e /\ y = l * 32 + a * 4 + e
  BY <1>2 DEF IsNear, M2_MAX_LEN
<1>8. y >= 64 /\ (y \div 4) % 8 = a /\ y \div 32 = l
  <2>1. y = l * 32 + a * 4 + e
    BY <1>7
  <2>. QED BY <2>1, ShortParts
<1>13. y >= 64 /\ y \notin 32 .. 63 /\ y \notin 16 .. 31
  BY <1>7, <1>8
<1>9. DecodeMatch(y, b + 1) = [off |-> 1 + ((y \div 4) % 8) + Byte(b + 1) * 8, n |-> y \div 32 + 1,
                               ip |-> b + 1 + 1, end |-> "no"]
  BY <1>13, Zenon DEF DecodeMatch
<1>10. 1 + ((y \div 4) % 8) + Byte(b + 1) * 8 = off /\ y \div 32 + 1 = len /\ b + 1 + 1 = b + 2
  BY <1>1, <1>6, <1>7, <1>8
<1>11. Len(<<t, k>>) = 2
  OBVIOUS
<1>12. Byte(b) > 15 /\ Byte(b) = y
  BY <1>6, <1>7, <1>8
<1>. QED BY <1>3, <1>4, <1>9, <1>10, <1>11, <1>12 DEF Decoded

LEMMA MiddleCodeRead ==
  ASSUME lin \in Seq(Nat), NEW b \in Nat, NEW len \in Nat, len > 2, NEW off \in Nat, off > 0,
         Coded(lin, b, MiddleCode(len, off))
  PROVE  /\ b + Len(MiddleCode(len, off)) <= Len(lin) /\ Byte(b) > 15
         /\ DecodeMatch(Byte(b), b + 1) = Decoded(off, len, b + Len(MiddleCode(len, off)))
<1>0. PICK x : x = MiddleCode(len, off) /\ Coded(lin, b, x)
  OBVIOUS
<1>1. PICK o \in Nat, k \in Nat : o = off - 1 /\ k = o \div 64 /\ o = (o % 64) + 64 * k
  <2>1. PICK p \in Nat : p = off - 1
    OBVIOUS
  <2>2. p = (p % 64) + 64 * (p \div 64) /\ p \div 64 \in Nat
    BY LowParts
  <2>. QED BY <2>1, <2>2
<1>4. PICK max \in Nat, m \in Nat : max = 33 /\ m = 32
  OBVIOUS
<1>2. Coded(lin, b, LongCode(len, max, m, o, k)) /\ x = LongCode(len, max, m, o, k)
  BY <1>0, <1>1, <1>4 DEF MiddleCode, M3_MAX_LEN, M3_MARKER
<1>3. \A z \in 0 .. 32 - 1 : (32 + z) % 32 = z
  OBVIOUS
<1>11. PICK v : v = (o % 64) + k * 64
  OBVIOUS
<1>12. ReadAs(b, x, len, max, m, m, v)
  <2>1. max > 2 /\ m > max - 2 /\ \A z \in 0 .. m - 1 : (m + z) % m = z
    BY <1>3, <1>4
  <2>2. ReadAs(b, LongCode(len, max, m, o, k), len, max, m, m, (o % 64) + k * 64)
    BY <1>2, <2>1, LongCodeRead
  <2>. QED BY <1>2, <1>11, <2>2
<1>13. PICK ip \in Nat :
        /\ ip + 2 = b + Len(x) /\ ip + 2 <= Len(lin)
        /\ LengthOf(Byte(b) % m, b + 1, max - 2) = [t |-> len - 2, ip |-> ip, cut |-> FALSE]
        /\ Byte(b) = IF len <= max THEN m + len - 2 ELSE m
        /\ Offset(ip) = v
  BY <1>12, Zenon DEF ReadAs
<1>5. Byte(b) \in 32 .. 63 /\ ~(Byte(b) >= 64) /\ Byte(b) \notin 16 .. 31
  <2>1. PICK y \in 32 .. 63 : Byte(b) = y
    BY <1>4, <1>13
  <2>2. ~(y >= 64) /\ y \notin 16 .. 31
    OBVIOUS
  <2>. QED BY <2>1, <2>2
<1>6. PICK r : r = LengthOf(Byte(b) % 32, b + 1, 31) /\ r.t = len - 2 /\ r.ip = ip /\ r.cut = FALSE
  <2>1. max - 2 = 31 /\ m = 32
    BY <1>4
  <2>2. LengthOf(Byte(b) % 32, b + 1, 31) = [t |-> len - 2, ip |-> ip, cut |-> FALSE]
    BY <1>13, <2>1
  <2>. QED BY <2>2
<1>7. DecodeMatch(Byte(b), b + 1) = [off |-> 1 + Offset(r.ip), n |-> r.t + 2, ip |-> r.ip + 2,
                                    end |-> IF r.cut THEN "cut" ELSE "no"]
  BY <1>5, <1>6, SMT DEF DecodeMatch
<1>8. 1 + Offset(r.ip) = off /\ r.t + 2 = len /\ r.ip + 2 = b + Len(x)
  <2>1. 1 + Offset(r.ip) = off
    <3>1. Offset(r.ip) = v
      BY <1>6, <1>13
    <3>2. v = o
      BY <1>1, <1>11
    <3>. QED BY <1>1, <3>1, <3>2
  <2>2. r.t + 2 = len
    BY <1>6
  <2>. QED BY <1>6, <1>13, <2>1, <2>2
<1>9. DecodeMatch(Byte(b), b + 1) = [off |-> off, n |-> len, ip |-> b + Len(x), end |-> "no"]
  BY <1>6, <1>7, <1>8
<1>. QED BY <1>0, <1>5, <1>9, <1>13 DEF Decoded

LEMMA FarCodeRead ==
  ASSUME lin \in Seq(Nat), NEW b \in Nat, NEW len \in Nat, len > 2, NEW off \in Nat, Reaches(off),
         ~(off <= M3_MAX_OFFSET), Coded(lin, b, FarCode(len, off))
  PROVE  /\ b + Len(FarCode(len, off)) <= Len(lin) /\ Byte(b) > 15
         /\ DecodeMatch(Byte(b), b + 1) = Decoded(off, len, b + Len(FarCode(len, off)))
<1>0. PICK x : x = FarCode(len, off) /\ Coded(lin, b, x)
  OBVIOUS
<1>1. PICK o \in Nat, k \in Nat, mk \in {16, 24} :
        o = Far(off) /\ o > 0 /\ o < 32768 /\ k = (o \div 64) % 256 /\ mk = FarMarker(off)
  <2>1. /\ Far(off) \in Nat /\ Far(off) > 0 /\ Far(off) < 32768
        /\ FarMarker(off) \in {16, 24}
        /\ (Far(off) \div 64) % 256 \in Nat
    BY FarNumbers
  <2>2. PICK o \in Nat : o = Far(off) /\ o > 0 /\ o < 32768
    BY <2>1
  <2>3. PICK k \in Nat : k = (o \div 64) % 256
    BY <2>1, <2>2
  <2>4. PICK mk \in {16, 24} : mk = FarMarker(off)
    BY <2>1
  <2>. QED BY <2>2, <2>3, <2>4
<1>2. PICK h \in 0 .. 1, lo \in Nat : /\ h = (o \div 16384) % 2 /\ lo = o % 64
                                      /\ o = h * 16384 + lo + 64 * k /\ mk = 16 + h * 8
  <2>1. (o \div 16384) % 2 \in 0 .. 1 /\ o = ((o \div 16384) % 2) * 16384 + (o % 64) + 64 * ((o \div 64) % 256)
    <3>1. o > 0 /\ o < 32768
      BY <1>1
    <3>. QED BY <3>1, FarParts
  <2>2. PICK h \in 0 .. 1 : h = (o \div 16384) % 2
    BY <2>1
  <2>3. mk = 16 + h * 8
    BY <1>1, <2>2 DEF FarMarker, M4_MARKER
  <2>4. o % 64 \in Nat
    BY LowParts
  <2>5. o = h * 16384 + (o % 64) + 64 * k
    BY <1>1, <2>1, <2>2
  <2>. QED BY <2>2, <2>3, <2>4, <2>5
<1>4. PICK max \in Nat, m \in Nat : max = 9 /\ m = 8
  OBVIOUS
<1>5. Coded(lin, b, LongCode(len, max, mk, o, k)) /\ x = LongCode(len, max, mk, o, k)
  BY <1>0, <1>1, <1>4 DEF FarCode, M4_MAX_LEN
<1>6. \A z \in 0 .. 8 - 1 : (16 + z) % 8 = z /\ (24 + z) % 8 = z
  OBVIOUS
<1>7. PICK v : v = (o % 64) + k * 64
  OBVIOUS
<1>8. ReadAs(b, x, len, max, mk, m, v)
  <2>1. max > 2 /\ m > max - 2 /\ \A z \in 0 .. m - 1 : (mk + z) % m = z
    <3>1. max > 2 /\ m > max - 2 /\ m = 8
      BY <1>4
    <3>2. CASE mk = 16
      BY <1>6, <3>1, <3>2
    <3>3. CASE mk = 24
      BY <1>6, <3>1, <3>3
    <3>. QED BY <3>2, <3>3
  <2>2. ReadAs(b, LongCode(len, max, mk, o, k), len, max, mk, m, (o % 64) + k * 64)
    <3>1. mk \in Nat
      OBVIOUS
    <3>. QED BY <1>5, <2>1, <3>1, LongCodeRead
  <2>. QED BY <1>5, <1>7, <2>2
<1>9. PICK ip \in Nat :
        /\ ip + 2 = b + Len(x) /\ ip + 2 <= Len(lin)
        /\ LengthOf(Byte(b) % m, b + 1, max - 2) = [t |-> len - 2, ip |-> ip, cut |-> FALSE]
        /\ Byte(b) = IF len <= max THEN mk + len - 2 ELSE mk
        /\ Offset(ip) = v
  BY <1>8, Zenon DEF ReadAs
<1>10. PICK y \in 16 .. 31 : Byte(b) = y /\ y \div 8 = 2 + h
  <2>1. PICK z \in 0 .. 7 : Byte(b) = 16 + h * 8 + z
    <3>1. CASE len <= max
      <4>1. len - 2 \in 0 .. 7 /\ Byte(b) = 16 + h * 8 + (len - 2)
        BY <1>2, <1>4, <1>9, <3>1
      <4>. QED BY <4>1
    <3>2. CASE ~(len <= max)
      <4>1. Byte(b) = 16 + h * 8 + 0
        BY <1>2, <1>9, <3>2
      <4>. QED BY <4>1
    <3>. QED BY <3>1, <3>2
  <2>2. (16 + h * 8 + z) \div 8 = 2 + h /\ 16 + h * 8 + z \in 16 .. 31
    OBVIOUS
  <2>. QED BY <2>1, <2>2
<1>11. y \notin 32 .. 63 /\ ~(y >= 64) /\ y > 15
  OBVIOUS
<1>12. PICK r : r = LengthOf(y % 8, b + 1, 7) /\ r.t = len - 2 /\ r.ip = ip /\ r.cut = FALSE
  <2>1. max - 2 = 7 /\ m = 8
    BY <1>4
  <2>2. LengthOf(y % 8, b + 1, 7) = [t |-> len - 2, ip |-> ip, cut |-> FALSE]
    BY <1>9, <1>10, <2>1
  <2>. QED BY <2>2
<1>13. PICK far : far = (y \div 8 % 2) * M3_MAX_OFFSET + Offset(r.ip)
  OBVIOUS
<1>14. far = o
  <2>1. y \div 8 % 2 = h
    BY <1>10
  <2>2. Offset(r.ip) = lo + k * 64
    BY <1>2, <1>7, <1>9, <1>12
  <2>3. far = h * 16384 + (lo + k * 64)
    BY <1>13, <2>1, <2>2 DEF M3_MAX_OFFSET
  <2>. QED BY <1>2, <2>3
<1>15. DecodeMatch(y, b + 1) = [off |-> M3_MAX_OFFSET + far, n |-> r.t + 2, ip |-> r.ip + 2,
                                end |-> IF r.cut THEN "cut" ELSE IF far = 0 THEN "eof" ELSE "no"]
  BY <1>11, <1>12, <1>13, Zenon DEF DecodeMatch
<1>16. M3_MAX_OFFSET + far = off
  BY <1>1, <1>14 DEF Far, M3_MAX_OFFSET
<1>17. r.t + 2 = len /\ r.ip + 2 = b + Len(x)
  <2>1. r.t + 2 = len
    BY <1>12
  <2>. QED BY <1>9, <1>12, <2>1
<1>18. DecodeMatch(y, b + 1) = [off |-> off, n |-> len, ip |-> b + Len(x), end |-> "no"]
  <2>1. far # 0
    BY <1>1, <1>14
  <2>. QED BY <1>12, <1>15, <1>16, <1>17, <2>1, Zenon
<1>19. b + Len(x) <= Len(lin)
  BY <1>9
<1>. QED BY <1>0, <1>10, <1>11, <1>18, <1>19 DEF Decoded

(* Every code is read back as the length and the offset it was made from.  *)
LEMMA CodeRead ==
  ASSUME lin \in Seq(Nat), NEW b \in Nat, NEW len \in Nat, len > 2, NEW off \in Nat, Reaches(off),
         Coded(lin, b, EncodeMatch(len, off))
  PROVE  /\ b + Len(EncodeMatch(len, off)) <= Len(lin) /\ Byte(b) > 15
         /\ DecodeMatch(Byte(b), b + 1) = Decoded(off, len, b + Len(EncodeMatch(len, off)))
<1>1. PICK x : x = EncodeMatch(len, off) /\ Coded(lin, b, x)
  OBVIOUS
<1>2. off > 0
  BY DEF Reaches
<1>3. CASE IsNear(len, off) /\ x = NearCode(len, off)
  <2>1. /\ b + Len(NearCode(len, off)) = b + 2 /\ b + 2 <= Len(lin) /\ Byte(b) > 15
        /\ DecodeMatch(Byte(b), b + 1) = Decoded(off, len, b + 2)
    BY <1>1, <1>2, <1>3, NearCodeRead
  <2>. QED BY <1>1, <1>3, <2>1
<1>4. CASE off <= M3_MAX_OFFSET /\ x = MiddleCode(len, off)
  <2>1. /\ b + Len(MiddleCode(len, off)) <= Len(lin) /\ Byte(b) > 15
        /\ DecodeMatch(Byte(b), b + 1) = Decoded(off, len, b + Len(MiddleCode(len, off)))
    BY <1>1, <1>2, <1>4, MiddleCodeRead
  <2>. QED BY <1>1, <1>4, <2>1
<1>5. CASE ~(off <= M3_MAX_OFFSET) /\ x = FarCode(len, off)
  <2>1. /\ b + Len(FarCode(len, off)) <= Len(lin) /\ Byte(b) > 15
        /\ DecodeMatch(Byte(b), b + 1) = Decoded(off, len, b + Len(FarCode(len, off)))
    BY <1>1, <1>5, FarCodeRead
  <2>. QED BY <1>1, <1>5, <2>1
<1>. QED BY <1>1, <1>3, <1>4, <1>5, CodeForms

-----------------------------------------------------------------------------
(* What compressed data consists of.  A point is a place behind a match    *)
(* and how much of the input stands before it; runs of literals and        *)
(* matches lead from point to point, and the last run to the end marker.   *)

\* What is read of the input.
HasRead(w, s, q) == s \in Seq(Nat) /\ Len(s) = q /\ q <= Len(w) /\ \A i \in 1 .. q : s[i] = w[i]

\* t literals of the input behind p stand behind c.
Lits(w, o, c, p, t) == p + t <= Len(w) /\ c + t <= Len(o) /\ \A i \in 1 .. t : o[c + i] = w[p + i]

\* n bytes of the input that repeat what is off bytes before them.
Repeats(w, q, n, off) == off <= q /\ q + n <= Len(w) /\ \A i \in 1 .. n : w[q + i] = w[q + i - off]

\* How the length t of a run at place c is written, in h bytes.
UnmarkedAt(o, c) == c = 0 \/ o[c - 1] % 4 = 0
TinyHead(o, c, h, t) == h = 0 /\ t \in 0 .. 3 /\ IF c = 0 THEN t = 0 ELSE o[c - 1] % 4 = t
ShortHead(o, c, h, t) == h = 1 /\ t \in 4 .. 18 /\ UnmarkedAt(o, c) /\ o[c + 1] = t - 3
LongHead(o, c, h, t) ==
  /\ t > 18 /\ h = 1 + Len(LongLength(t - 18)) /\ UnmarkedAt(o, c)
  /\ o[c + 1] = 0 /\ Stands(o, c + 1, LongLength(t - 18))
FirstHead(o, c, h, t) == c = 0 /\ h = 1 /\ t > 0 /\ o[1] = 17 + t
RunHead(o, c, h, t) ==
  TinyHead(o, c, h, t) \/ ShortHead(o, c, h, t) \/ LongHead(o, c, h, t) \/ FirstHead(o, c, h, t)

\* A match behind place b that leads to the point d, or the end marker.
MatchTo(w, o, b, q, d) ==
  \E n, off \in Nat :
    /\ n > 2 /\ Reaches(off) /\ Repeats(w, q, n, off)
    /\ Coded(o, b, EncodeMatch(n, off)) /\ d = <<b + Len(EncodeMatch(n, off)), q + n>>
EndAt(w, o, b, q) == q = Len(w) /\ Len(o) = b + 3 /\ Stands(o, b, <<17, 0, 0>>)

Leads(w, o, x, d) ==
  \E h, t \in Nat :
    /\ RunHead(o, x[1], h, t) /\ (x[1] = 0 => t > 3)
    /\ Lits(w, o, x[1] + h, x[2], t) /\ MatchTo(w, o, x[1] + h + t, x[2] + t, d)
Ends(w, o, x) ==
  \E h, t \in Nat :
    /\ RunHead(o, x[1], h, t)
    /\ Lits(w, o, x[1] + h, x[2], t) /\ EndAt(w, o, x[1] + h + t, x[2] + t)

Points(S) == S \subseteq Nat \X Nat /\ <<0, 0>> \in S /\ \A x \in S : x[1] # 1

\* The data up to the last match.
Chain(w, o, S, p) ==
  /\ Points(S) /\ <<Len(o), p>> \in S
  /\ \A x \in S : x[1] <= Len(o)
  /\ \A x \in S : x # <<Len(o), p>> => x[1] + 2 <= Len(o) /\ \E d \in S : Leads(w, o, x, d)

\* All of it.
Stream(w, o, S) ==
  /\ Points(S)
  /\ \A x \in S : x[1] + 3 <= Len(o) /\ (Ends(w, o, x) \/ \E d \in S : Leads(w, o, x, d))

(* A match that reaches into what it writes repeats its first bytes.       *)
LEMMA RepeatedBytes ==
  ASSUME NEW w \in Seq(Nat), NEW q \in Nat, NEW n \in Nat, NEW off \in Nat, off > 0, Repeats(w, q, n, off)
  PROVE  \A i \in 1 .. n : w[q + i] = w[q - off + 1 + ((i - 1) % off)]
<1>. DEFINE Good(i) == i <= n => w[q + i] = w[q - off + 1 + ((i - 1) % off)]
            T == {k \in Nat : \A i \in 1 .. k : Good(i)}
<1>1. 0 \in T
  OBVIOUS
<1>2. ASSUME NEW k \in Nat, k \in T PROVE k + 1 \in T
  <2>1. SUFFICES ASSUME k + 1 <= n PROVE Good(k + 1)
    <3>1. \A i \in 1 .. k + 1 : i \in 1 .. k \/ i = k + 1
      OBVIOUS
    <3>. HIDE DEF Good
    <3>2. \A i \in 1 .. k : Good(i)
      BY <1>2
    <3>3. Good(k + 1)
      BY <2>1 DEF Good
    <3>. QED BY <3>1, <3>2, <3>3
  <2>2. w[q + (k + 1)] = w[q + (k + 1) - off]
    <3>1. k + 1 \in 1 .. n
      BY <2>1
    <3>2. \A i \in 1 .. n : w[q + i] = w[q + i - off]
      BY DEF Repeats
    <3>. QED BY <3>1, <3>2
  <2>3. PICK m \in Nat : m = k % off /\ m < off
    BY Divided
  <2>4. CASE k < off
    <3>1. k % off = k
      <4>1. k = 0 * off + k
        OBVIOUS
      <4>2. 0 \in Int /\ k \in Int /\ 0 <= k
        OBVIOUS
      <4>. QED BY <2>4, <4>1, <4>2, DividedIs
    <3>2. q + (k + 1) - off = q - off + 1 + k
      OBVIOUS
    <3>. QED BY <2>2, <3>1, <3>2
  <2>5. CASE k >= off
    <3>1. PICK j \in Nat : j = k - off
      BY <2>5
    <3>2. j + 1 \in 1 .. k /\ j + 1 <= n /\ off <= q
      BY <2>1, <3>1 DEF Repeats
    <3>3. Good(j + 1)
      BY <1>2, <3>2
    <3>4. w[q + (j + 1)] = w[q - off + 1 + (j % off)]
      BY <3>2, <3>3
    <3>5. j % off = k % off
      <4>1. PICK y \in Nat : y = j \div off /\ j = y * off + (j % off) /\ j % off \in 0 .. off - 1
        BY Divided
      <4>2. PICK r \in Nat : r = j % off /\ r < off
        BY <4>1
      <4>3. (y + 1) * off = y * off + off
        OBVIOUS
      <4>4. k = (y + 1) * off + r
        BY <3>1, <4>1, <4>2, <4>3
      <4>. QED BY <4>2, <4>4, DividedIs
    <3>6. q + (k + 1) - off = q + (j + 1)
      BY <3>1
    <3>. QED BY <2>2, <3>4, <3>5, <3>6, SMTT(30)
  <2>. QED BY <2>4, <2>5
<1>. HIDE DEF T
<1>3. Nat \subseteq T
  BY <1>1, <1>2, SetInduction
<1>4. \A i \in 1 .. n : Good(i)
  BY <1>3 DEF T
<1>. QED BY <1>4

(* More of the input is read behind what was.                              *)
LEMMA ReadMore ==
  ASSUME NEW w, Len(w) \in Nat, NEW s, NEW q \in Nat, HasRead(w, s, q), NEW n \in Nat, q + n <= Len(w), NEW e \in Seq(Nat),
         Len(e) = n, \A i \in 1 .. n : e[i] = w[q + i]
  PROVE  HasRead(w, s \o e, q + n)
<1>1. s \in Seq(Nat) /\ Len(s) = q /\ \A i \in 1 .. q : s[i] = w[i]
  BY DEF HasRead
<1>2. /\ s \o e \in Seq(Nat) /\ Len(s \o e) = Len(s) + Len(e)
      /\ \A i \in 1 .. Len(s) + Len(e) : (s \o e)[i] = IF i <= Len(s) THEN s[i] ELSE e[i - Len(s)]
  BY <1>1, ConcatProperties
<1>3. ASSUME NEW i \in 1 .. q + n PROVE (s \o e)[i] = w[i]
  <2>1. CASE i <= q
    BY <1>1, <1>2, <2>1
  <2>2. CASE ~(i <= q)
    <3>1. i - q \in 1 .. n /\ q + (i - q) = i
      BY <2>2
    <3>2. e[i - q] = w[i]
      BY <3>1
    <3>3. (s \o e)[i] = e[i - q]
      BY <1>1, <1>2, <2>2
    <3>. QED BY <3>2, <3>3
  <2>. QED BY <2>1, <2>2
<1>. QED BY <1>1, <1>2, <1>3 DEF HasRead

IsDec == dec = [pc |-> dec.pc, ip |-> dec.ip, t |-> dec.t, out |-> dec.out, safe |-> dec.safe]

(* A match is copied.                                                      *)
LEMMA MatchCopied ==
  ASSUME IsDec, lcap = Len(plain), plain \in Seq(Nat), NEW q \in Nat, HasRead(plain, dec.out, q), NEW n \in Nat,
         NEW off \in Nat, off > 0, Repeats(plain, q, n, off), NEW ip \in Nat, CopyMatch(off, n, ip)
  PROVE  IsDec' /\ dec'.pc = "done" /\ dec'.ip = ip /\ HasRead(plain, dec'.out, q + n)
<1>1. PICK s \in Seq(Nat) : s = dec.out /\ Len(s) = q /\ \A i \in 1 .. q : s[i] = plain[i]
  BY DEF HasRead
<1>2. off <= q /\ q + n <= Len(plain) /\ Len(plain) \in Nat
  BY DEF Repeats
<1>3. off \in 1 .. Len(dec.out) /\ NeedOp(n)
  BY <1>1, <1>2 DEF NeedOp
<1>4. PICK e : e = [i \in 1 .. n |-> s[Len(s) - off + 1 + ((i - 1) % off)]]
  OBVIOUS
<1>5. dec' = [dec EXCEPT !.pc = "done", !.ip = ip, !.out = s \o e]
  BY <1>1, <1>3, <1>4 DEF CopyMatch
<1>6. dec' = [pc |-> "done", ip |-> ip, t |-> dec.t, out |-> s \o e, safe |-> dec.safe]
  BY <1>5 DEF IsDec
<1>10. \A i \in 1 .. n : plain[q + i] = plain[q - off + 1 + ((i - 1) % off)]
  <2>1. plain \in Seq(Nat) /\ Repeats(plain, q, n, off) /\ off > 0
    OBVIOUS
  <2>. QED BY ONLY <2>1, q \in Nat, n \in Nat, off \in Nat, RepeatedBytes
<1>7. ASSUME NEW i \in 1 .. n PROVE e[i] = plain[q + i] /\ e[i] \in Nat
  <2>1. PICK m \in Nat : m = (i - 1) % off /\ m < off
    <3>1. i - 1 \in Nat
      OBVIOUS
    <3>. QED BY <3>1, Divided
  <2>2. e[i] = s[q - off + 1 + m]
    BY <1>1, <1>4, <2>1
  <2>3. q - off + 1 + m \in 1 .. q
    BY <1>2, <2>1
  <2>4. e[i] = plain[q - off + 1 + m] /\ e[i] \in Nat
    <3>1. PICK y \in 1 .. q : y = q - off + 1 + m
      BY <2>3
    <3>2. s[y] = plain[y] /\ s[y] \in Nat
      BY <1>1
    <3>. QED BY <2>2, <3>1, <3>2
  <2>5. plain[q + i] = plain[q - off + 1 + ((i - 1) % off)]
    BY <1>10
  <2>. QED BY <2>1, <2>4, <2>5
<1>8. e \in Seq(Nat) /\ Len(e) = n
  <2>1. \A i \in 1 .. n : s[Len(s) - off + 1 + ((i - 1) % off)] \in Nat
    BY <1>4, <1>7
  <2>. QED BY <1>4, <2>1
<1>9. HasRead(plain, s \o e, q + n)
  BY <1>1, <1>2, <1>7, <1>8, ReadMore
<1>. QED BY <1>6, <1>9 DEF IsDec

(* Literals are copied.                                                    *)
LEMMA LiteralsCopied ==
  ASSUME IsDec, lcap = Len(plain), plain \in Seq(Nat), lin \in Seq(Nat), NEW q \in Nat, HasRead(plain, dec.out, q),
         NEW n \in Nat, NEW ip \in Nat, Lits(plain, lin, ip, q, n), ip + n + 3 <= Len(lin),
         NEW pc \in {"first", "code"}, CopyLiterals(ip, n, 3, 0, pc)
  PROVE  IsDec' /\ dec'.pc = pc /\ dec'.ip = ip + n /\ HasRead(plain, dec'.out, q + n)
<1>1. PICK s \in Seq(Nat) : s = dec.out /\ Len(s) = q
  BY DEF HasRead
<1>2. q + n <= Len(plain) /\ ip + n <= Len(lin) /\ Len(lin) \in Nat /\ Len(plain) \in Nat
  BY DEF Lits
<1>3. NeedOp(n) /\ NeedIp(ip, n + 3)
  BY <1>1, <1>2 DEF NeedOp, NeedIp
<1>4. PICK e : e = [i \in 1 .. n |-> Byte(ip + i - 1)]
  OBVIOUS
<1>5. dec' = [dec EXCEPT !.pc = pc, !.ip = ip + n, !.t = 0, !.out = s \o e]
  BY <1>1, <1>3, <1>4 DEF CopyLiterals
<1>6. dec' = [pc |-> pc, ip |-> ip + n, t |-> 0, out |-> s \o e, safe |-> dec.safe]
  BY <1>5 DEF IsDec
<1>7. ASSUME NEW i \in 1 .. n PROVE e[i] = plain[q + i] /\ e[i] \in Nat
  <2>1. e[i] = Byte(ip + i - 1)
    BY <1>4
  <2>2. ip + i - 1 < Len(lin) /\ ip + i - 1 + 1 = ip + i
    BY <1>2
  <2>3. Byte(ip + i - 1) = lin[ip + i]
    BY <2>2 DEF Byte
  <2>4. lin[ip + i] \in Nat /\ lin[ip + i] = plain[q + i]
    <3>1. ip + i \in 1 .. Len(lin)
      BY <1>2
    <3>2. lin[ip + i] \in Nat
      BY <3>1, ElementOfSeq
    <3>3. lin[ip + i] = plain[q + i]
      BY DEF Lits
    <3>. QED BY <3>2, <3>3
  <2>. QED BY <2>1, <2>3, <2>4
<1>8. e \in Seq(Nat) /\ Len(e) = n
  <2>1. \A i \in 1 .. n : Byte(ip + i - 1) \in Nat
    BY <1>4, <1>7
  <2>. QED BY <1>4, <2>1
<1>9. HasRead(plain, s \o e, q + n)
  BY <1>1, <1>2, <1>7, <1>8, ReadMore
<1>. QED BY <1>6, <1>9 DEF IsDec

(* Where the decompressor stands in data that came whole.                  *)
AtCode(w, o, S, b, q) == EndAt(w, o, b, q) \/ \E d \in S : MatchTo(w, o, b, q, d)

ReadsAt(S, q) ==
  \/ dec.pc = "start" /\ dec.ip = 0 /\ q = 0
  \/ dec.pc = "run" /\ <<dec.ip, q>> \in S /\ UnmarkedAt(lin, dec.ip) /\ (dec.ip = 0 => lin[1] < 18)
  \/ dec.pc = "done" /\ <<dec.ip, q>> \in S /\ dec.ip # 0
  \/ dec.pc = "next" /\ dec.t \in 1 .. 3 /\ Lits(plain, lin, dec.ip, q, dec.t) /\ AtCode(plain, lin, S, dec.ip + dec.t, q + dec.t)
  \/ dec.pc \in {"first", "code"} /\ AtCode(plain, lin, S, dec.ip, q)
  \/ dec.pc = "match" /\ dec.ip > 0 /\ dec.t = Byte(dec.ip - 1) /\ AtCode(plain, lin, S, dec.ip - 1, q)
  \/ dec.pc = "ok" /\ dec.out = plain

ReadInv(S, q) ==
  /\ IsDec /\ lcap = Len(plain) /\ plain \in Seq(Nat) /\ lin \in Seq(Nat)
  /\ Stream(plain, lin, S) /\ q \in Nat /\ dec.ip \in Nat /\ HasRead(plain, dec.out, q)
  /\ ReadsAt(S, q)

(* At a code there are three bytes, and the first does not begin a run.    *)
LEMMA CodeHere ==
  ASSUME NEW w, NEW S, Stream(w, lin, S), lin \in Seq(Nat), NEW b \in Nat, NEW q \in Nat, AtCode(w, lin, S, b, q)
  PROVE  b + 3 <= Len(lin) /\ Byte(b) > 15
<1>1. CASE EndAt(w, lin, b, q)
  <2>1. Len(lin) = b + 3 /\ Stands(lin, b, <<17, 0, 0>>)
    BY <1>1 DEF EndAt
  <2>2. lin[b + 1] = 17
    BY <2>1 DEF Stands
  <2>. QED BY <2>1, <2>2 DEF Byte
<1>2. CASE \E d \in S : MatchTo(w, lin, b, q, d)
  <2>1. PICK d \in S : MatchTo(w, lin, b, q, d)
    BY <1>2
  <2>2. PICK n \in Nat, off \in Nat : /\ n > 2 /\ Reaches(off) /\ Coded(lin, b, EncodeMatch(n, off))
                                      /\ d = <<b + Len(EncodeMatch(n, off)), q + n>>
    BY <2>1 DEF MatchTo
  <2>3. Byte(b) > 15
    BY <2>2, CodeRead
  <2>4. Len(EncodeMatch(n, off)) \in Nat /\ Len(EncodeMatch(n, off)) > 0
    <3>1. IsCode(EncodeMatch(n, off))
      BY <2>2, CodeIs
    <3>. QED BY <3>1 DEF IsCode
  <2>5. d[1] + 3 <= Len(lin) /\ d[1] = b + Len(EncodeMatch(n, off))
    BY <2>2 DEF Stream
  <2>. QED BY <2>3, <2>4, <2>5
<1>. QED BY <1>1, <1>2 DEF AtCode

(* From every point a run leads to a code; from the first, one of less     *)
(* than four literals leads to the end.                                    *)
LEMMA RunHere ==
  ASSUME NEW w, NEW S, Stream(w, lin, S), NEW c \in Nat, NEW p \in Nat, <<c, p>> \in S
  PROVE  \E h, t \in Nat :
           /\ RunHead(lin, c, h, t) /\ Lits(w, lin, c + h, p, t) /\ AtCode(w, lin, S, c + h + t, p + t)
           /\ c = 0 /\ t < 4 => EndAt(w, lin, c + h + t, p + t)
<1>1. PICK x \in S : x = <<c, p>> /\ x[1] = c /\ x[2] = p
  OBVIOUS
<1>2. CASE Ends(w, lin, x)
  BY <1>1, <1>2, Zenon DEF Ends, AtCode
<1>3. CASE \E d \in S : Leads(w, lin, x, d)
  <2>1. PICK d \in S : Leads(w, lin, x, d)
    BY <1>3
  <2>2. PICK h \in Nat, t \in Nat :
          /\ RunHead(lin, c, h, t) /\ (c = 0 => t > 3)
          /\ Lits(w, lin, c + h, p, t) /\ MatchTo(w, lin, c + h + t, p + t, d)
    BY <1>1, <2>1, Zenon DEF Leads
  <2>3. AtCode(w, lin, S, c + h + t, p + t)
    BY <2>2 DEF AtCode
  <2>4. ~(c = 0 /\ t < 4)
    BY <2>2
  <2>. QED BY <2>2, <2>3, <2>4
<1>. QED BY <1>1, <1>2, <1>3 DEF Stream

(* One step of reading, when what it does is known.                        *)
LEMMA ReadOn ==
  ASSUME NEW S, NEW q \in Nat, ReadInv(S, q), UNCHANGED <<plain, lin, lcap>>, NEW r \in Nat,
         IsDec', dec'.ip \in Nat, HasRead(plain, dec'.out, r), ReadsAt(S, r)'
  PROVE  ReadInv(S, r)'
BY DEF ReadInv

(* The first code.                                                         *)
LEMMA FirstCodeReads ==
  ASSUME NEW S, NEW q \in Nat, ReadInv(S, q), FirstCode
  PROVE  \E r \in Nat : ReadInv(S, r)'
<1>. USE DEF ReadInv
<1>1. dec.pc = "start" /\ UNCHANGED <<plain, lin, lcap>>
  BY DEF FirstCode
<1>2. dec.ip = 0 /\ q = 0
  BY <1>1 DEF ReadsAt
<1>3. <<0, 0>> \in S /\ 0 + 3 <= Len(lin)
  <2>1. PICK x \in S : x = <<0, 0>>
    BY DEF Stream, Points
  <2>2. x[1] = 0
    BY <2>1
  <2>3. x[1] + 3 <= Len(lin)
    BY DEF Stream
  <2>. QED BY <2>1, <2>2, <2>3
<1>4. PICK h \in Nat, t \in Nat :
        /\ RunHead(lin, 0, h, t) /\ Lits(plain, lin, 0 + h, 0, t) /\ AtCode(plain, lin, S, 0 + h + t, 0 + t)
        /\ 0 = 0 /\ t < 4 => EndAt(plain, lin, 0 + h + t, 0 + t)
  BY <1>3, RunHere
<1>5. NeedIp(0, 1)
  BY <1>3 DEF NeedIp
<1>6. Byte(0) = lin[1]
  BY <1>3 DEF Byte
<1>7. CASE FirstHead(lin, 0, h, t)
  <2>1. h = 1 /\ t > 0 /\ Byte(0) = 17 + t /\ Byte(0) - 17 = t
    BY <1>6, <1>7 DEF FirstHead
  <2>2. Lits(plain, lin, 1, 0, t) /\ AtCode(plain, lin, S, 1 + t, t)
    BY <1>4, <2>1
  <2>3. CASE t \in 1 .. 3
    <3>1. dec' = [dec EXCEPT !.pc = "next", !.ip = 1, !.t = t]
      <4>1. Byte(0) - 17 \in 1 .. 3 /\ ~(Byte(0) - 17 > 3)
        BY <2>1, <2>3
      <4>2. dec' = [dec EXCEPT !.pc = "next", !.ip = 1, !.t = Byte(0) - 17]
        BY <1>1, <1>5, <4>1 DEF FirstCode
      <4>. QED BY <2>1, <4>2
    <3>2. dec' = [pc |-> "next", ip |-> 1, t |-> t, out |-> dec.out, safe |-> dec.safe]
      BY <3>1 DEF IsDec
    <3>3. IsDec' /\ dec'.ip = 1 /\ dec'.out = dec.out /\ dec'.pc = "next" /\ dec'.t = t
      BY <3>2 DEF IsDec
    <3>4. ReadsAt(S, 0)'
      BY <1>1, <2>2, <2>3, <3>3 DEF ReadsAt
    <3>. QED BY <1>1, <1>2, <3>3, <3>4, ReadOn
  <2>4. CASE t > 3
    <3>1. CopyLiterals(1, t, 3, 0, "first")
      BY <1>1, <1>5, <2>1, <2>4 DEF FirstCode
    <3>2. 1 + t + 3 <= Len(lin)
      BY <2>2, CodeHere
    <3>3. IsDec' /\ dec'.pc = "first" /\ dec'.ip = 1 + t /\ HasRead(plain, dec'.out, 0 + t)
      <4>1. HasRead(plain, dec.out, 0)
        BY <1>2
      <4>2. 0 \in Nat /\ 1 \in Nat /\ "first" \in {"first", "code"}
        OBVIOUS
      <4>. QED BY <2>2, <3>1, <3>2, <4>1, <4>2, LiteralsCopied
    <3>4. ReadsAt(S, t)'
      BY <1>1, <2>2, <3>3 DEF ReadsAt
    <3>5. HasRead(plain, dec'.out, t) /\ dec'.ip \in Nat
      <4>1. 0 + t = t /\ 1 + t \in Nat
        OBVIOUS
      <4>. QED BY <3>3, <4>1, Zenon
    <3>6. ReadInv(S, t)'
      <4>. HIDE DEF ReadInv
      <4>. QED BY <1>1, <3>3, <3>4, <3>5, ReadOn, Zenon
    <3>. HIDE DEF ReadInv
    <3>. QED BY <3>6, Zenon
  <2>. QED BY <2>1, <2>3, <2>4
<1>8. CASE ~FirstHead(lin, 0, h, t)
  <2>1. lin[1] < 18 /\ lin[1] \in Nat
    <3>1. CASE TinyHead(lin, 0, h, t)
      <4>1. h = 0 /\ t = 0
        BY <3>1 DEF TinyHead
      <4>2. Stands(lin, 0, <<17, 0, 0>>)
        BY <1>4, <4>1 DEF EndAt
      <4>. QED BY <4>2 DEF Stands
    <3>2. CASE ShortHead(lin, 0, h, t)
      BY <3>2 DEF ShortHead
    <3>3. CASE LongHead(lin, 0, h, t)
      BY <3>3 DEF LongHead
    <3>. QED BY <1>4, <1>8, <3>1, <3>2, <3>3 DEF RunHead
  <2>2. Byte(0) - 17 \notin 1 .. 3 /\ ~(Byte(0) - 17 > 3)
    BY <1>6, <2>1
  <2>3. dec' = [dec EXCEPT !.pc = "run"]
    BY <1>1, <1>5, <2>2 DEF FirstCode
  <2>4. dec' = [pc |-> "run", ip |-> dec.ip, t |-> dec.t, out |-> dec.out, safe |-> dec.safe]
    BY <2>3 DEF IsDec
  <2>5. IsDec' /\ dec'.pc = "run" /\ dec'.ip = 0 /\ dec'.out = dec.out
    BY <1>2, <2>4 DEF IsDec
  <2>6. ReadsAt(S, 0)'
    BY <1>1, <1>3, <2>1, <2>5 DEF ReadsAt, UnmarkedAt
  <2>. QED BY <1>1, <1>2, <2>5, <2>6, ReadOn
<1>. QED BY <1>7, <1>8

(* A run, or none.                                                         *)
LEMMA ReadRunReads ==
  ASSUME NEW S, NEW q \in Nat, ReadInv(S, q), ReadRun
  PROVE  \E r \in Nat : ReadInv(S, r)'
<1>. USE DEF ReadInv
<1>1. dec.pc = "run" /\ UNCHANGED <<plain, lin, lcap>>
  BY DEF ReadRun
<1>2. PICK c \in Nat : c = dec.ip /\ <<c, q>> \in S /\ UnmarkedAt(lin, c) /\ (c = 0 => lin[1] < 18)
  BY <1>1 DEF ReadsAt
<1>3. c + 3 <= Len(lin)
  <2>1. PICK x \in S : x = <<c, q>> /\ x[1] = c
    BY <1>2
  <2>2. x[1] + 3 <= Len(lin)
    BY DEF Stream
  <2>. QED BY <2>1, <2>2
<1>4. PICK h \in Nat, t \in Nat :
        RunHead(lin, c, h, t) /\ Lits(plain, lin, c + h, q, t) /\ AtCode(plain, lin, S, c + h + t, q + t)
  BY <1>2, RunHere
<1>5. NeedIp(dec.ip, 3)
  BY <1>2, <1>3 DEF NeedIp
<1>6. Byte(dec.ip) = lin[c + 1]
  BY <1>2, <1>3 DEF Byte
<1>7. c + h + t + 3 <= Len(lin)
  BY <1>4, CodeHere
<1>8. ASSUME CopyLiterals(c + h, t, 3, 0, "first") PROVE \E r \in Nat : ReadInv(S, r)'
  <2>1. c + h \in Nat /\ "first" \in {"first", "code"}
    OBVIOUS
  <2>2. IsDec' /\ dec'.pc = "first" /\ dec'.ip = c + h + t /\ HasRead(plain, dec'.out, q + t)
    BY <1>4, <1>7, <1>8, <2>1, LiteralsCopied
  <2>3. ReadsAt(S, q + t)'
    BY <1>1, <1>4, <2>2 DEF ReadsAt
  <2>. QED BY <1>1, <2>2, <2>3, ReadOn
<1>9. CASE TinyHead(lin, c, h, t)
  <2>1. h = 0 /\ t = 0
    BY <1>2, <1>9 DEF TinyHead, UnmarkedAt
  <2>2. AtCode(plain, lin, S, c, q)
    BY <1>4, <2>1
  <2>3. Byte(dec.ip) > 15 /\ Byte(dec.ip) \in Nat
    <3>1. Byte(c) > 15
      BY <2>2, CodeHere
    <3>2. lin[c + 1] \in Nat
      BY <1>3
    <3>. QED BY <1>2, <1>6, <3>1, <3>2
  <2>4. Byte(dec.ip) >= 16 /\ Byte(dec.ip) \notin 1 .. 15
    BY <2>3, SMTT(30)
  <2>5. dec' = [dec EXCEPT !.pc = "match", !.ip = dec.ip + 1, !.t = Byte(dec.ip)]
    BY <1>1, <1>5, <2>4 DEF ReadRun
  <2>6. dec' = [pc |-> "match", ip |-> c + 1, t |-> Byte(c), out |-> dec.out, safe |-> dec.safe]
    BY <1>2, <2>5 DEF IsDec
  <2>7. IsDec' /\ dec'.pc = "match" /\ dec'.ip = c + 1 /\ dec'.t = Byte(c) /\ dec'.out = dec.out
    BY <2>6 DEF IsDec
  <2>8. Byte(c)' = Byte(c)
    BY <1>1 DEF Byte
  <2>9. c + 1 - 1 = c /\ c + 1 > 0
    OBVIOUS
  <2>10. ReadsAt(S, q)'
    BY <1>1, <2>2, <2>7, <2>8, <2>9 DEF ReadsAt
  <2>. QED BY <1>1, <2>7, <2>10, ReadOn
<1>10. CASE ShortHead(lin, c, h, t)
  <2>1. h = 1 /\ Byte(dec.ip) = t - 3 /\ t - 3 \in 1 .. 15 /\ t - 3 + 3 = t
    BY <1>6, <1>10 DEF ShortHead
  <2>2. ~(Byte(dec.ip) >= 16)
    BY <2>1
  <2>3. CopyLiterals(dec.ip + 1, Byte(dec.ip) + 3, 3, 0, "first")
    BY <1>1, <1>5, <2>1, <2>2 DEF ReadRun
  <2>4. CopyLiterals(c + h, t, 3, 0, "first")
    BY <1>2, <2>1, <2>3
  <2>. QED BY <1>8, <2>4
<1>11. CASE LongHead(lin, c, h, t)
  <2>1. PICK n \in Nat : n = t - 18 /\ n > 0
    BY <1>11 DEF LongHead
  <2>2. Byte(dec.ip) = 0 /\ h = 1 + Len(LongLength(n)) /\ Stands(lin, c + 1, LongLength(n))
    BY <1>6, <1>11, <2>1 DEF LongHead
  <2>3. Long(c + 1, 15) = [t |-> n + 15, ip |-> c + 1 + Len(LongLength(n)), cut |-> FALSE]
    <3>1. PICK j \in Nat, base \in Int : j = c + 1 /\ base = 15
      OBVIOUS
    <3>2. lin \in Seq(Nat) /\ Stands(lin, j, LongLength(n))
      BY <2>2, <3>1
    <3>3. Long(j, base) = [t |-> n + base, ip |-> j + Len(LongLength(n)), cut |-> FALSE]
      BY <2>1, <3>2, LongRead
    <3>. QED BY <3>1, <3>3
  <2>4. PICK r : r = Long(dec.ip + 1, 15) /\ r.t = n + 15 /\ r.ip = c + 1 + Len(LongLength(n)) /\ r.cut = FALSE
    BY <1>2, <2>3
  <2>5. ~(Byte(dec.ip) >= 16) /\ Byte(dec.ip) \notin 1 .. 15
    BY <2>2
  <2>6. CopyLiterals(r.ip, r.t + 3, 3, 0, "first")
    BY <1>1, <1>5, <2>4, <2>5 DEF ReadRun
  <2>7. r.ip = c + h /\ r.t + 3 = t
    <3>1. Len(LongLength(n)) \in Nat
      BY <2>1, LongLengthIs
    <3>. QED BY <2>1, <2>2, <2>4, <3>1
  <2>. QED BY <1>8, <2>6, <2>7
<1>12. CASE FirstHead(lin, c, h, t)
  <2>1. c = 0 /\ lin[1] = 17 + t /\ t > 0
    BY <1>12 DEF FirstHead
  <2>. QED BY <1>2, <2>1
<1>. QED BY <1>4, <1>9, <1>10, <1>11, <1>12 DEF RunHead

(* Behind a run there is a code of a match.                                *)
LEMMA AfterRunReads ==
  ASSUME NEW S, NEW q \in Nat, ReadInv(S, q), AfterRun \/ NextCode
  PROVE  \E r \in Nat : ReadInv(S, r)'
<1>. USE DEF ReadInv
<1>1. dec.pc \in {"first", "code"} /\ UNCHANGED <<plain, lin, lcap>>
  BY DEF AfterRun, NextCode
<1>2. PICK c \in Nat : c = dec.ip /\ AtCode(plain, lin, S, c, q)
  BY <1>1 DEF ReadsAt
<1>3. c + 3 <= Len(lin) /\ Byte(c) > 15
  BY <1>2, CodeHere
<1>4. Byte(dec.ip) >= 16
  <2>1. lin[c + 1] \in Nat /\ Byte(c) = lin[c + 1]
    BY <1>3 DEF Byte
  <2>. QED BY <1>2, <1>3, <2>1
<1>5. dec' = [dec EXCEPT !.pc = "match", !.ip = dec.ip + 1, !.t = Byte(dec.ip)]
  BY <1>4 DEF AfterRun, NextCode
<1>6. dec' = [pc |-> "match", ip |-> c + 1, t |-> Byte(c), out |-> dec.out, safe |-> dec.safe]
  BY <1>2, <1>5 DEF IsDec
<1>7. IsDec' /\ dec'.pc = "match" /\ dec'.ip = c + 1 /\ dec'.t = Byte(c) /\ dec'.out = dec.out
  BY <1>6 DEF IsDec
<1>8. Byte(c)' = Byte(c)
  BY <1>1 DEF Byte
<1>9. c + 1 - 1 = c /\ c + 1 > 0
  OBVIOUS
<1>10. ReadsAt(S, q)'
  <2>1. dec'.ip > 0 /\ dec'.ip - 1 = c
    <3>1. PICK to : to = dec'.ip
      OBVIOUS
    <3>2. to = c + 1
      BY <1>7, <3>1, Zenon
    <3>3. to > 0 /\ to - 1 = c
      BY ONLY <3>2, c \in Nat
    <3>. QED BY <3>1, <3>3, Zenon
  <2>2. dec'.t = Byte(dec.ip - 1)'
    BY <1>1, <1>7, <2>1, Zenon DEF Byte
  <2>3. AtCode(plain, lin, S, dec.ip - 1, q)'
    BY <1>1, <1>2, <2>1, Zenon
  <2>. QED BY <1>7, <2>1, <2>2, <2>3, Zenon DEF ReadsAt
<1>. QED BY <1>1, <1>7, <1>10, ReadOn

(* The match itself, or the end marker.                                    *)
LEMMA ReadMatchReads ==
  ASSUME NEW S, NEW q \in Nat, ReadInv(S, q), ReadMatch
  PROVE  \E r \in Nat : ReadInv(S, r)'
<1>. USE DEF ReadInv
<1>1. dec.pc = "match" /\ UNCHANGED <<plain, lin, lcap>>
  BY DEF ReadMatch
<1>2. PICK c \in Nat : c + 1 = dec.ip /\ dec.t = Byte(c) /\ AtCode(plain, lin, S, c, q)
  BY <1>1 DEF ReadsAt
<1>3. CASE EndAt(plain, lin, c, q)
  <2>1. q = Len(plain) /\ Len(lin) = c + 3 /\ lin[c + 1] = 17 /\ lin[c + 2] = 0 /\ lin[c + 3] = 0
    BY <1>3 DEF EndAt, Stands
  <2>2. Byte(c) = 17 /\ Byte(c + 1) = 0 /\ Byte(c + 2) = 0
    BY <2>1 DEF Byte
  <2>3. LengthOf(17 % 8, c + 1, 7) = [t |-> 1, ip |-> c + 1, cut |-> FALSE]
    BY DEF LengthOf
  <2>4. PICK r : r = LengthOf(17 % 8, c + 1, 7) /\ r.ip = c + 1 /\ r.cut = FALSE
    BY <2>3
  <2>5. PICK far : far = ((17 \div 8) % 2) * M3_MAX_OFFSET + Offset(r.ip)
    OBVIOUS
  <2>6. far = 0
    <3>1. Offset(c + 1) = 0
      BY <2>2 DEF Offset
    <3>2. (17 \div 8) % 2 = 0
      OBVIOUS
    <3>. QED BY <2>4, <2>5, <3>1, <3>2 DEF M3_MAX_OFFSET
  <2>7. PICK m : m = DecodeMatch(17, c + 1) /\ m.ip = c + 3 /\ m.end = "eof"
    <3>1. 17 \notin 32 .. 63 /\ ~(17 >= 64) /\ 17 \in 16 .. 31
      OBVIOUS
    <3>2. DecodeMatch(17, c + 1) =
            [off |-> M3_MAX_OFFSET + far, n |-> r.t + 2, ip |-> r.ip + 2,
             end |-> IF r.cut THEN "cut" ELSE IF far = 0 THEN "eof" ELSE "no"]
      BY <2>4, <2>5, <3>1 DEF DecodeMatch
    <3>. QED BY <2>4, <2>6, <3>2
  <2>8. m = DecodeMatch(dec.t, dec.ip)
    BY <1>2, <2>2, <2>7
  <2>9. dec' = [dec EXCEPT !.pc = Result(c + 3), !.ip = c + 3]
    BY <2>7, <2>8 DEF ReadMatch
  <2>10. Result(c + 3) = "ok"
    BY <2>1 DEF Result
  <2>11. dec' = [pc |-> "ok", ip |-> c + 3, t |-> dec.t, out |-> dec.out, safe |-> dec.safe]
    BY <2>9, <2>10 DEF IsDec
  <2>12. IsDec' /\ dec'.pc = "ok" /\ dec'.ip = c + 3 /\ dec'.out = dec.out
    BY <2>11 DEF IsDec
  <2>13. dec.out = plain
    BY <2>1, SeqEqual DEF HasRead
  <2>14. ReadsAt(S, q)'
    BY <1>1, <2>12, <2>13 DEF ReadsAt
  <2>. QED BY <1>1, <2>12, <2>14, ReadOn
<1>4. CASE \E d \in S : MatchTo(plain, lin, c, q, d)
  <2>1. PICK d \in S : MatchTo(plain, lin, c, q, d)
    BY <1>4
  <2>2. PICK n \in Nat, off \in Nat :
          /\ n > 2 /\ Reaches(off) /\ Repeats(plain, q, n, off) /\ Coded(lin, c, EncodeMatch(n, off))
          /\ d = <<c + Len(EncodeMatch(n, off)), q + n>>
    BY <2>1 DEF MatchTo
  <2>3. PICK k \in Nat : k = Len(EncodeMatch(n, off)) /\ k > 0
    <3>1. IsCode(EncodeMatch(n, off))
      BY <2>2, CodeIs
    <3>. QED BY <3>1 DEF IsCode
  <2>4. DecodeMatch(dec.t, dec.ip) = Decoded(off, n, c + k)
    BY <1>2, <2>2, <2>3, CodeRead
  <2>5. PICK m : m = DecodeMatch(dec.t, dec.ip) /\ m.off = off /\ m.n = n /\ m.ip = c + k /\ m.end = "no"
    BY <2>4 DEF Decoded
  <2>6. CopyMatch(off, n, c + k)
    BY <2>5 DEF ReadMatch
  <2>7. off > 0 /\ c + k \in Nat
    BY <2>2 DEF Reaches
  <2>8. IsDec' /\ dec'.pc = "done" /\ dec'.ip = c + k /\ HasRead(plain, dec'.out, q + n)
    BY <2>2, <2>6, <2>7, MatchCopied
  <2>9. <<c + k, q + n>> \in S /\ c + k # 0
    BY <2>2, <2>3
  <2>10. ReadsAt(S, q + n)'
    BY <1>1, <2>8, <2>9 DEF ReadsAt
  <2>11. PICK r \in Nat : r = q + n
    OBVIOUS
  <2>12. dec'.ip \in Nat
    BY <2>7, <2>8
  <2>13. ReadInv(S, r)'
    BY <1>1, <2>8, <2>10, <2>11, <2>12, ReadOn
  <2>. QED BY <2>13
<1>. QED BY <1>2, <1>3, <1>4 DEF AtCode

(* The literals the match counts, or a run.                                *)
LEMMA MatchDoneReads ==
  ASSUME NEW S, NEW q \in Nat, ReadInv(S, q), MatchDone
  PROVE  \E r \in Nat : ReadInv(S, r)'
<1>. USE DEF ReadInv
<1>1. dec.pc = "done" /\ UNCHANGED <<plain, lin, lcap>>
  BY DEF MatchDone
<1>2. PICK c \in Nat : c = dec.ip /\ <<c, q>> \in S /\ c # 0
  BY <1>1 DEF ReadsAt
<1>3. c + 3 <= Len(lin) /\ c > 1
  <2>1. PICK x \in S : x = <<c, q>> /\ x[1] = c
    BY <1>2
  <2>2. x[1] + 3 <= Len(lin) /\ x[1] # 1
    BY DEF Stream, Points
  <2>3. c + 3 <= Len(lin) /\ c # 1
    BY <2>1, <2>2
  <2>. QED BY <1>2, <2>3, SMTT(30)
<1>4. PICK h \in Nat, t \in Nat :
        RunHead(lin, c, h, t) /\ Lits(plain, lin, c + h, q, t) /\ AtCode(plain, lin, S, c + h + t, q + t)
  BY <1>2, RunHere
<1>5. PICK m \in 0 .. 3 : m = lin[c - 1] % 4 /\ Byte(dec.ip - 2) % 4 = m
  <2>1. c - 1 \in 1 .. Len(lin)
    BY <1>3
  <2>2. lin[c - 1] \in Nat
    BY <2>1, ElementOfSeq
  <2>3. c - 2 < Len(lin) /\ c - 2 + 1 = c - 1
    BY <1>3
  <2>4. Byte(c - 2) = lin[c - 1]
    BY <2>3 DEF Byte
  <2>5. PICK v \in Nat : v = lin[c - 1]
    BY <2>2
  <2>6. v % 4 \in 0 .. 3
    OBVIOUS
  <2>. QED BY <1>2, <2>4, <2>5, <2>6
<1>6. dec' = [dec EXCEPT !.t = m, !.pc = IF m = 0 THEN "run" ELSE "next"]
  BY <1>5 DEF MatchDone
<1>7. CASE m = 0
  <2>1. dec' = [pc |-> "run", ip |-> c, t |-> 0, out |-> dec.out, safe |-> dec.safe]
    BY <1>2, <1>6, <1>7 DEF IsDec
  <2>2. IsDec' /\ dec'.pc = "run" /\ dec'.ip = c /\ dec'.out = dec.out
    BY <2>1 DEF IsDec
  <2>3. UnmarkedAt(lin, c)
    BY <1>5, <1>7 DEF UnmarkedAt
  <2>4. ReadsAt(S, q)'
    BY <1>1, <1>2, <2>2, <2>3 DEF ReadsAt
  <2>. QED BY <1>1, <2>2, <2>4, ReadOn
<1>8. CASE m # 0
  <2>1. dec' = [pc |-> "next", ip |-> c, t |-> m, out |-> dec.out, safe |-> dec.safe]
    BY <1>2, <1>6, <1>8 DEF IsDec
  <2>2. IsDec' /\ dec'.pc = "next" /\ dec'.ip = c /\ dec'.t = m /\ dec'.out = dec.out
    BY <2>1 DEF IsDec
  <2>3. h = 0 /\ t = m
    BY <1>2, <1>4, <1>5, <1>8 DEF RunHead, TinyHead, ShortHead, LongHead, FirstHead, UnmarkedAt
  <2>4. Lits(plain, lin, c, q, m) /\ AtCode(plain, lin, S, c + m, q + m) /\ m \in 1 .. 3
    <3>1. c + h = c /\ c + h + t = c + m
      BY <2>3
    <3>2. m \in 1 .. 3
      BY <1>8
    <3>. QED BY <1>4, <2>3, <3>1, <3>2
  <2>5. ReadsAt(S, q)'
    BY <1>1, <2>2, <2>4 DEF ReadsAt
  <2>. QED BY <1>1, <2>2, <2>5, ReadOn
<1>. QED BY <1>7, <1>8

LEMMA MatchNextReads ==
  ASSUME NEW S, NEW q \in Nat, ReadInv(S, q), MatchNext
  PROVE  \E r \in Nat : ReadInv(S, r)'
<1>. USE DEF ReadInv
<1>1. dec.pc = "next" /\ UNCHANGED <<plain, lin, lcap>>
  BY DEF MatchNext
<1>2. PICK c \in Nat, t \in 1 .. 3 :
        c = dec.ip /\ t = dec.t /\ Lits(plain, lin, c, q, t) /\ AtCode(plain, lin, S, c + t, q + t)
  BY <1>1 DEF ReadsAt
<1>3. t \in Nat /\ "code" \in {"first", "code"}
  OBVIOUS
<1>4. c + t + 3 <= Len(lin)
  BY <1>2, <1>3, CodeHere
<1>5. CopyLiterals(c, t, 3, 0, "code")
  BY <1>2 DEF MatchNext
<1>6. IsDec' /\ dec'.pc = "code" /\ dec'.ip = c + t /\ HasRead(plain, dec'.out, q + t)
  BY <1>2, <1>3, <1>4, <1>5, LiteralsCopied
<1>7. ReadsAt(S, q + t)'
  BY <1>1, <1>2, <1>6 DEF ReadsAt
<1>. QED BY <1>1, <1>6, <1>7, ReadOn

(* Whole data is read to its end, and what comes out is the input.         *)
LEMMA DecompressReads ==
  ASSUME NEW S, NEW q \in Nat, ReadInv(S, q), Decompress
  PROVE  \E r \in Nat : ReadInv(S, r)'
BY FirstCodeReads, ReadRunReads, AfterRunReads, ReadMatchReads, MatchDoneReads, MatchNextReads, Zenon
DEF Decompress, Matching, Following

-----------------------------------------------------------------------------
(* The decompressor with checks, on any data.                              *)

BytesAhead ==
  /\ dec.pc = "start" => dec.ip = 0
  /\ dec.pc \in {"next", "done"} => dec.ip <= Len(lin)
  /\ dec.pc = "done" => dec.ip > 1
  /\ dec.pc \in {"first", "code"} => dec.ip + 3 <= Len(lin)
  /\ dec.pc = "match" => dec.ip > 0 /\ dec.ip + 2 <= Len(lin)

BoundInv ==
  /\ IsDec /\ lin \in Seq(Nat) /\ lcap \in Nat /\ dec.safe = TRUE /\ overread = FALSE
  /\ dec.ip \in Nat /\ dec.t \in Nat /\ dec.out \in Seq(Nat) /\ Len(dec.out) <= lcap
  /\ BytesAhead

LEMMA ByteIs ==
  ASSUME lin \in Seq(Nat), NEW i \in Nat
  PROVE  Byte(i) \in Nat
<1>1. CASE i < Len(lin)
  <2>1. i + 1 \in 1 .. Len(lin)
    BY <1>1
  <2>2. lin[i + 1] \in Nat
    BY <2>1, ElementOfSeq
  <2>. QED BY <1>1, <2>2 DEF Byte
<1>2. CASE ~(i < Len(lin))
  BY <1>2 DEF Byte
<1>. QED BY <1>1, <1>2

(* A long length ends in the data, or is cut.                              *)
LEMMA LongIs ==
  ASSUME lin \in Seq(Nat), NEW ip \in Nat, NEW base \in Nat, dec.safe = TRUE, ip < Len(lin)
  PROVE  \E n \in Nat, j \in Nat, c \in BOOLEAN :
           Long(ip, base) = [t |-> n, ip |-> j, cut |-> c] /\ j > ip /\ (c \/ j <= Len(lin))
<1>1. PICK K : K = {k \in 0 .. Len(lin) : ip + k >= Len(lin) \/ Byte(ip + k) # 0}
  OBVIOUS
<1>2. K \in SUBSET Nat /\ Len(lin) \in K
  BY <1>1
<1>3. Min(K) \in K
  <2>1. K # {}
    BY <1>2
  <2>. QED BY <1>2, <2>1, LeastOf, Zenon
<1>4. PICK z \in Nat : z = Zeros(ip)
  BY <1>1, <1>2, <1>3 DEF Zeros
<1>5. PICK b \in Nat : b = Byte(ip + z)
  <2>1. ip + z \in Nat
    OBVIOUS
  <2>. QED BY <2>1, ByteIs
<1>6. PICK n \in Nat : n = 255 * z + base + b
  OBVIOUS
<1>7. PICK c \in BOOLEAN : c = (z > 0 /\ ~NeedIp(ip + z, 1))
  OBVIOUS
<1>8. Long(ip, base) = [t |-> n, ip |-> ip + z + 1, cut |-> c]
  BY <1>4, <1>5, <1>6, <1>7 DEF Long
<1>9. c \/ ip + z + 1 <= Len(lin)
  <2>1. CASE z = 0
    BY <2>1
  <2>2. CASE z > 0 /\ ip + z + 1 > Len(lin)
    <3>1. ~(Len(lin) - (ip + z) >= 1)
      BY <2>2
    <3>2. ~NeedIp(ip + z, 1)
      BY <3>1, Zenon DEF NeedIp
    <3>. QED BY <1>7, <2>2, <3>2, Zenon
  <2>. QED BY <2>1, <2>2
<1>10. ip + z + 1 \in Nat /\ ip + z + 1 > ip
  OBVIOUS
<1>. QED BY <1>8, <1>9, <1>10

Refusals == {"input overrun", "output overrun", "lookbehind overrun", "not consumed", "ok"}

(* It stops, having read no more than there is.                            *)
LEMMA StopBound ==
  ASSUME BoundInv, UNCHANGED <<lin, lcap>>, NEW ip \in Nat, ip <= Len(lin),
         NEW result \in Refusals, Stop(result),
         ReadTo(ip) \/ overread' = overread
  PROVE  BoundInv'
<1>. USE DEF BoundInv
<1>1. dec' = [pc |-> result, ip |-> dec.ip, t |-> dec.t, out |-> dec.out, safe |-> dec.safe]
  BY DEF Stop, IsDec
<1>2. /\ IsDec' /\ dec'.pc = result /\ dec'.ip = dec.ip /\ dec'.t = dec.t /\ dec'.out = dec.out
      /\ dec'.safe = dec.safe
  BY <1>1 DEF IsDec
<1>3. overread' = FALSE
  <2>1. ~(ip > Len(lin))
    OBVIOUS
  <2>. QED BY <2>1, Zenon DEF ReadTo
<1>4. BytesAhead'
  <2>1. result \notin {"start", "next", "done", "first", "code", "match"}
    BY Zenon DEF Refusals
  <2>. QED BY <1>2, <2>1, Zenon DEF BytesAhead
<1>. QED BY <1>2, <1>3, <1>4

(* Literals are copied from the data into the buffer.                      *)
LEMMA LiteralsBound ==
  ASSUME BoundInv, UNCHANGED <<lin, lcap>>, NEW ip \in Nat, ip <= Len(lin), NEW n \in Nat,
         NEW pc \in {"first", "code"}, CopyLiterals(ip, n, 3, 0, pc)
  PROVE  BoundInv'
<1>. USE DEF BoundInv
<1>1. CASE ~NeedOp(n)
  <2>1. Stop("output overrun") /\ ReadTo(ip)
    BY <1>1 DEF CopyLiterals
  <2>2. "output overrun" \in Refusals
    BY Zenon DEF Refusals
  <2>. QED BY <2>1, <2>2, StopBound, Zenon
<1>2. CASE NeedOp(n) /\ ~NeedIp(ip, n + 3)
  <2>1. Stop("input overrun") /\ ReadTo(ip)
    BY <1>2 DEF CopyLiterals
  <2>2. "input overrun" \in Refusals
    BY Zenon DEF Refusals
  <2>. QED BY <2>1, <2>2, StopBound, Zenon
<1>3. CASE NeedOp(n) /\ NeedIp(ip, n + 3)
  <2>1. PICK s \in Seq(Nat) : s = dec.out
    OBVIOUS
  <2>2. PICK e : e = [i \in 1 .. n |-> Byte(ip + i - 1)]
    OBVIOUS
  <2>3. dec' = [dec EXCEPT !.pc = pc, !.ip = ip + n, !.t = 0, !.out = s \o e] /\ ReadTo(ip + n)
    BY <1>3, <2>1, <2>2 DEF CopyLiterals
  <2>4. dec' = [pc |-> pc, ip |-> ip + n, t |-> 0, out |-> s \o e, safe |-> dec.safe]
    BY <2>3 DEF IsDec
  <2>5. e \in Seq(Nat) /\ Len(e) = n
    <3>1. \A i \in 1 .. n : ip + i - 1 \in Nat
      OBVIOUS
    <3>2. \A i \in 1 .. n : Byte(ip + i - 1) \in Nat
      BY <3>1, ByteIs
    <3>. QED BY <2>2, <3>2
  <2>6. s \o e \in Seq(Nat) /\ Len(s \o e) = Len(s) + n
    BY <2>5, ConcatProperties
  <2>7. Len(s) + n <= lcap /\ ip + n + 3 <= Len(lin)
    BY <1>3, <2>1 DEF NeedOp, NeedIp
  <2>8. /\ IsDec' /\ dec'.pc = pc /\ dec'.ip = ip + n /\ dec'.t = 0 /\ dec'.out = s \o e
        /\ dec'.safe = dec.safe
    BY <2>4 DEF IsDec
  <2>9. overread' = FALSE
    <3>1. ~(ip + n > Len(lin))
      BY <2>7
    <3>. QED BY <2>3, <3>1, Zenon DEF ReadTo
  <2>10. BytesAhead'
    BY <2>7, <2>8 DEF BytesAhead
  <2>11. /\ dec'.ip \in Nat /\ dec'.t \in Nat /\ dec'.out \in Seq(Nat) /\ Len(dec'.out) <= lcap
    <3>1. ip + n \in Nat /\ 0 \in Nat
      OBVIOUS
    <3>. QED BY <2>6, <2>7, <2>8, <3>1, Zenon
  <2>. QED BY <2>8, <2>9, <2>10, <2>11, Zenon
<1>. QED BY <1>1, <1>2, <1>3

(* A match is copied from what was written.                                *)
LEMMA MatchBound ==
  ASSUME BoundInv, UNCHANGED <<lin, lcap>>, NEW ip \in Nat, ip > 1, ip <= Len(lin), NEW n \in Nat,
         NEW off \in Int, CopyMatch(off, n, ip)
  PROVE  BoundInv'
<1>. USE DEF BoundInv
<1>0. ReadTo(ip)
  BY DEF CopyMatch
<1>1. CASE off \notin 1 .. Len(dec.out)
  <2>1. Stop("lookbehind overrun")
    BY <1>1 DEF CopyMatch
  <2>2. "lookbehind overrun" \in Refusals
    BY Zenon DEF Refusals
  <2>. QED BY <1>0, <2>1, <2>2, StopBound, Zenon
<1>2. CASE off \in 1 .. Len(dec.out) /\ ~NeedOp(n)
  <2>1. Stop("output overrun")
    BY <1>2 DEF CopyMatch
  <2>2. "output overrun" \in Refusals
    BY Zenon DEF Refusals
  <2>. QED BY <1>0, <2>1, <2>2, StopBound, Zenon
<1>3. CASE off \in 1 .. Len(dec.out) /\ NeedOp(n)
  <2>1. PICK s \in Seq(Nat) : s = dec.out
    OBVIOUS
  <2>2. PICK e : e = [i \in 1 .. n |-> s[Len(s) - off + 1 + ((i - 1) % off)]]
    OBVIOUS
  <2>3. dec' = [dec EXCEPT !.pc = "done", !.ip = ip, !.out = s \o e]
    BY <1>3, <2>1, <2>2 DEF CopyMatch
  <2>4. dec' = [pc |-> "done", ip |-> ip, t |-> dec.t, out |-> s \o e, safe |-> dec.safe]
    BY <2>3 DEF IsDec
  <2>5. e \in Seq(Nat) /\ Len(e) = n
    <3>1. ASSUME NEW i \in 1 .. n PROVE s[Len(s) - off + 1 + ((i - 1) % off)] \in Nat
      <4>1. PICK d \in Nat : d = off /\ d > 0 /\ d <= Len(s)
        BY <1>3, <2>1
      <4>2. PICK j \in Nat : j = i - 1
        OBVIOUS
      <4>3. PICK m \in Nat : m = j % d /\ m < d
        BY <4>1, Divided
      <4>4. Len(s) - d + 1 + m \in 1 .. Len(s)
        BY <4>1, <4>3
      <4>. QED BY <4>1, <4>2, <4>3, <4>4, ElementOfSeq
    <3>. QED BY <2>2, <3>1
  <2>6. s \o e \in Seq(Nat) /\ Len(s \o e) = Len(s) + n
    BY <2>5, ConcatProperties
  <2>7. Len(s) + n <= lcap
    BY <1>3, <2>1 DEF NeedOp
  <2>8. /\ IsDec' /\ dec'.pc = "done" /\ dec'.ip = ip /\ dec'.t = dec.t /\ dec'.out = s \o e
        /\ dec'.safe = dec.safe
    BY <2>4 DEF IsDec
  <2>9. overread' = FALSE
    <3>1. ~(ip > Len(lin))
      OBVIOUS
    <3>. QED BY <1>0, <3>1, Zenon DEF ReadTo
  <2>10. BytesAhead'
    BY <2>8 DEF BytesAhead
  <2>. QED BY <2>6, <2>7, <2>8, <2>9, <2>10
<1>. QED BY <1>1, <1>2, <1>3

LEMMA FirstCodeBound ==
  ASSUME BoundInv, FirstCode
  PROVE  BoundInv'
<1>. USE DEF BoundInv
<1>1. dec.pc = "start" /\ UNCHANGED <<lin, lcap>> /\ dec.ip = 0
  BY DEF FirstCode, BytesAhead
<1>2. CASE ~NeedIp(0, 1)
  <2>1. Stop("input overrun") /\ overread' = overread
    BY <1>1, <1>2, Zenon DEF FirstCode
  <2>2. "input overrun" \in Refusals
    BY Zenon DEF Refusals
  <2>3. 0 \in Nat /\ 0 <= Len(lin)
    OBVIOUS
  <2>. QED BY <1>1, <2>1, <2>2, <2>3, StopBound, Zenon
<1>3. CASE NeedIp(0, 1)
  <2>1. 1 <= Len(lin) /\ 1 \in Nat /\ ~(1 > Len(lin))
    BY <1>3 DEF NeedIp
  <2>2. PICK t \in Int : t = Byte(0) - 17
    BY ByteIs
  <2>3. CASE t \in 1 .. 3
    <3>1. dec' = [dec EXCEPT !.pc = "next", !.ip = 1, !.t = t] /\ ReadTo(1)
      <4>1. ~(t > 3)
        BY <2>3
      <4>. QED BY <1>3, <2>2, <2>3, <4>1, Zenon DEF FirstCode
    <3>2. dec' = [pc |-> "next", ip |-> 1, t |-> t, out |-> dec.out, safe |-> dec.safe]
      BY <3>1 DEF IsDec
    <3>3. /\ IsDec' /\ dec'.pc = "next" /\ dec'.ip = 1 /\ dec'.t = t /\ dec'.out = dec.out
          /\ dec'.safe = dec.safe
      BY <3>2 DEF IsDec
    <3>4. overread' = FALSE
      BY <2>1, <3>1, Zenon DEF ReadTo
    <3>5. BytesAhead'
      BY <1>1, <2>1, <3>3 DEF BytesAhead
    <3>6. t \in Nat
      BY <2>3
    <3>. QED BY <1>1, <3>3, <3>4, <3>5, <3>6
  <2>4. CASE t > 3
    <3>1. t \in Nat /\ t \notin 1 .. 3 /\ "first" \in {"first", "code"}
      BY <2>4
    <3>2. CopyLiterals(1, t, 3, 0, "first")
      BY <1>3, <2>2, <2>4, <3>1, Zenon DEF FirstCode
    <3>. QED BY <1>1, <2>1, <3>1, <3>2, LiteralsBound
  <2>5. CASE t \notin 1 .. 3 /\ ~(t > 3)
    <3>1. dec' = [dec EXCEPT !.pc = "run"] /\ ReadTo(1)
      BY <1>3, <2>2, <2>5, Zenon DEF FirstCode
    <3>2. dec' = [pc |-> "run", ip |-> dec.ip, t |-> dec.t, out |-> dec.out, safe |-> dec.safe]
      BY <3>1 DEF IsDec
    <3>3. /\ IsDec' /\ dec'.pc = "run" /\ dec'.ip = dec.ip /\ dec'.t = dec.t /\ dec'.out = dec.out
          /\ dec'.safe = dec.safe
      BY <3>2 DEF IsDec
    <3>4. overread' = FALSE
      BY <2>1, <3>1, Zenon DEF ReadTo
    <3>5. BytesAhead'
      BY <3>3 DEF BytesAhead
    <3>. QED BY <1>1, <3>3, <3>4, <3>5
  <2>. QED BY <2>3, <2>4, <2>5
<1>. QED BY <1>2, <1>3

(* A code is taken to be a match.                                          *)
Taken(ip, t) == dec' = [dec EXCEPT !.pc = "match", !.ip = ip + 1, !.t = t] /\ ReadTo(ip + 1)

LEMMA CodeBound ==
  ASSUME BoundInv, UNCHANGED <<lin, lcap>>, NEW ip \in Nat, ip + 3 <= Len(lin), NEW t \in Nat, Taken(ip, t)
  PROVE  BoundInv'
<1>. USE DEF BoundInv
<1>2. dec' = [pc |-> "match", ip |-> ip + 1, t |-> t, out |-> dec.out, safe |-> dec.safe]
  BY DEF IsDec, Taken
<1>3. /\ IsDec' /\ dec'.pc = "match" /\ dec'.ip = ip + 1 /\ dec'.t = t /\ dec'.out = dec.out
      /\ dec'.safe = dec.safe
  BY <1>2 DEF IsDec
<1>4. overread' = FALSE
  <2>1. ~(ip + 1 > Len(lin))
    OBVIOUS
  <2>. QED BY <2>1, Zenon DEF ReadTo, Taken
<1>5. BytesAhead'
  <2>1. lin' = lin /\ ip + 1 > 0 /\ ip + 1 + 2 <= Len(lin)
    OBVIOUS
  <2>. QED BY ONLY <1>3, <2>1 DEF BytesAhead
<1>. QED BY <1>3, <1>4, <1>5

LEMMA ReadRunBound ==
  ASSUME BoundInv, ReadRun
  PROVE  BoundInv'
<1>. USE DEF BoundInv
<1>1. dec.pc = "run" /\ UNCHANGED <<lin, lcap>>
  BY Zenon DEF ReadRun
<1>2. PICK ip \in Nat, t \in Nat : ip = dec.ip /\ t = Byte(ip)
  BY ByteIs
<1>3. "input overrun" \in Refusals
  BY Zenon DEF Refusals
<1>4. CASE ~NeedIp(ip, 3)
  <2>1. Stop("input overrun") /\ overread' = overread
    BY <1>1, <1>2, <1>4, Zenon DEF ReadRun
  <2>2. 0 \in Nat /\ 0 <= Len(lin)
    OBVIOUS
  <2>. QED BY <1>1, <1>3, <2>1, <2>2, StopBound, Zenon
<1>5. CASE NeedIp(ip, 3)
  <2>1. ip + 3 <= Len(lin)
    BY <1>5 DEF NeedIp
  <2>2. CASE t >= 16
    <3>1. dec' = [dec EXCEPT !.pc = "match", !.ip = dec.ip + 1, !.t = t] /\ ReadTo(dec.ip + 1)
      <4>1. t \notin 1 .. 15
        BY <2>2
      <4>2. t >= 16 /\ NeedIp(dec.ip, 3) /\ t = Byte(dec.ip) /\ ReadRun
        BY <1>2, <1>5, <2>2, Zenon
      <4>. QED BY ONLY <4>1, <4>2, Zenon DEF ReadRun
    <3>2. Taken(ip, t)
      BY <1>2, <3>1, Zenon DEF Taken
    <3>. QED BY <1>1, <2>1, <3>2, CodeBound
  <2>3. CASE t \in 1 .. 15
    <3>1. ~(t >= 16) /\ ip + 1 \in Nat /\ t + 3 \in Nat /\ ip + 1 <= Len(lin) /\ "first" \in {"first", "code"}
      BY <2>1, <2>3
    <3>2. CopyLiterals(ip + 1, t + 3, 3, 0, "first")
      BY <1>1, <1>2, <1>5, <2>3, <3>1, Zenon DEF ReadRun
    <3>. QED BY <1>1, <3>1, <3>2, LiteralsBound
  <2>4. CASE ~(t >= 16) /\ t \notin 1 .. 15
    <3>1. PICK n \in Nat, j \in Nat, c \in BOOLEAN :
            Long(ip + 1, 15) = [t |-> n, ip |-> j, cut |-> c] /\ j > ip + 1 /\ (c \/ j <= Len(lin))
      <4>1. PICK i \in Nat, b \in Nat : i = ip + 1 /\ b = 15
        OBVIOUS
      <4>2. i < Len(lin)
        BY <2>1, <4>1
      <4>3. \E n \in Nat, j \in Nat, c \in BOOLEAN :
              Long(i, b) = [t |-> n, ip |-> j, cut |-> c] /\ j > i /\ (c \/ j <= Len(lin))
        BY <4>2, LongIs
      <4>. QED BY <4>1, <4>3
    <3>2. PICK r : r = Long(ip + 1, 15)
      OBVIOUS
    <3>3. r.t = n /\ r.ip = j /\ r.cut = c
      BY <3>1, <3>2
    <3>4. IF r.cut THEN Stop("input overrun") /\ UNCHANGED overread
          ELSE CopyLiterals(r.ip, r.t + 3, 3, 0, "first")
      BY <1>1, <1>2, <1>5, <2>4, <3>2, Zenon DEF ReadRun
    <3>5. CASE c
      <4>1. Stop("input overrun") /\ overread' = overread
        BY <3>3, <3>4, <3>5, Zenon
      <4>2. 0 \in Nat /\ 0 <= Len(lin)
        OBVIOUS
      <4>. QED BY <1>1, <1>3, <4>1, <4>2, StopBound, Zenon
    <3>6. CASE ~c
      <4>1. CopyLiterals(j, n + 3, 3, 0, "first")
        BY <3>3, <3>4, <3>6, Zenon
      <4>2. j <= Len(lin) /\ n + 3 \in Nat /\ "first" \in {"first", "code"}
        BY <3>1, <3>6
      <4>. QED BY <1>1, <4>1, <4>2, LiteralsBound
    <3>. QED BY <3>5, <3>6
  <2>. QED BY <2>2, <2>3, <2>4
<1>. QED BY <1>4, <1>5

LEMMA AfterRunBound ==
  ASSUME BoundInv, AfterRun \/ NextCode
  PROVE  BoundInv'
<1>. USE DEF BoundInv
<1>1. dec.pc \in {"first", "code"} /\ UNCHANGED <<lin, lcap>>
  BY DEF AfterRun, NextCode
<1>2. PICK ip \in Nat, t \in Nat : ip = dec.ip /\ t = Byte(ip)
  BY ByteIs
<1>3. ip + 3 <= Len(lin)
  BY <1>1, <1>2 DEF BytesAhead
<1>4. CASE NextCode \/ t >= 16
  <2>1. dec' = [dec EXCEPT !.pc = "match", !.ip = dec.ip + 1, !.t = t] /\ ReadTo(dec.ip + 1)
    BY <1>2, <1>4, Zenon DEF AfterRun, NextCode
  <2>2. Taken(ip, t)
    BY <1>2, <2>1, Zenon DEF Taken
  <2>. QED BY <1>1, <1>3, <2>2, CodeBound
<1>5. CASE AfterRun /\ ~(t >= 16)
  <2>1. CopyMatch(1 + M2_MAX_OFFSET + t \div 4 + Byte(ip + 1) * 4, 3, ip + 2)
    BY <1>2, <1>5, Zenon DEF AfterRun
  <2>2. PICK off \in Int : off = 1 + M2_MAX_OFFSET + t \div 4 + Byte(ip + 1) * 4
    <3>1. ip + 1 \in Nat
      OBVIOUS
    <3>2. Byte(ip + 1) \in Nat
      BY <3>1, ByteIs
    <3>3. t \div 4 \in Int
      OBVIOUS
    <3>. QED BY <3>2, <3>3 DEF M2_MAX_OFFSET
  <2>3. PICK j \in Nat, n \in Nat : j = ip + 2 /\ n = 3
    OBVIOUS
  <2>4. CopyMatch(off, n, j) /\ j > 1 /\ j <= Len(lin)
    BY <1>3, <2>1, <2>2, <2>3
  <2>. QED BY <1>1, <2>4, MatchBound
<1>. QED BY <1>4, <1>5

(* A length and the two bytes behind it are in the data, or it is cut.     *)
LengthAt(r, ip, len) ==
  \E n \in Nat, j \in Nat, c \in BOOLEAN :
    r = [t |-> n, ip |-> j, cut |-> c] /\ j >= ip /\ (c \/ j + 2 <= len)

LEMMA LengthOfIs ==
  ASSUME lin \in Seq(Nat), NEW t \in Nat, NEW ip \in Nat, NEW base \in Nat, dec.safe = TRUE, ip + 2 <= Len(lin)
  PROVE  LengthAt(LengthOf(t, ip, base), ip, Len(lin))
<1>1. CASE t # 0
  <2>1. LengthOf(t, ip, base) = [t |-> t, ip |-> ip, cut |-> FALSE]
    BY <1>1 DEF LengthOf
  <2>2. FALSE \in BOOLEAN /\ ip >= ip
    OBVIOUS
  <2>. QED BY <2>1, <2>2 DEF LengthAt
<1>2. CASE t = 0
  <2>1. PICK n \in Nat, j \in Nat, c \in BOOLEAN :
          Long(ip, base) = [t |-> n, ip |-> j, cut |-> c] /\ j > ip /\ (c \/ j <= Len(lin))
    <3>1. ip < Len(lin)
      OBVIOUS
    <3>. QED BY <3>1, LongIs
  <2>2. PICK d \in BOOLEAN : d = (c \/ ~NeedIp(j, 2))
    OBVIOUS
  <2>3. PICK r : r = Long(ip, base)
    OBVIOUS
  <2>4. LengthOf(t, ip, base) = [r EXCEPT !.cut = @ \/ ~NeedIp(r.ip, 2)]
    BY <1>2, <2>3 DEF LengthOf
  <2>5. LengthOf(t, ip, base) = [t |-> n, ip |-> j, cut |-> d]
    <3>1. r = [t |-> n, ip |-> j, cut |-> c] /\ r.ip = j /\ r.cut = c
      BY <2>1, <2>3
    <3>2. LengthOf(t, ip, base) = [t |-> n, ip |-> j, cut |-> (c \/ ~NeedIp(j, 2))]
      BY <2>4, <3>1
    <3>. QED BY <2>2, <3>2
  <2>6. d \/ j + 2 <= Len(lin)
    <3>1. CASE NeedIp(j, 2)
      BY <3>1 DEF NeedIp
    <3>2. CASE ~NeedIp(j, 2)
      BY <2>2, <3>2, Zenon
    <3>. QED BY <3>1, <3>2
  <2>7. j >= ip
    BY <2>1
  <2>. QED BY <2>5, <2>6, <2>7, Zenon DEF LengthAt
<1>. QED BY <1>1, <1>2

LEMMA OffsetIs ==
  ASSUME lin \in Seq(Nat), NEW ip \in Nat
  PROVE  Offset(ip) \in Nat
<1>1. PICK x \in Nat, y \in Nat : x = Byte(ip) /\ y = Byte(ip + 1)
  <2>1. ip + 1 \in Nat
    OBVIOUS
  <2>. QED BY <2>1, ByteIs
<1>2. PICK z \in Nat : z = x \div 4
  <2>1. 4 \in Nat /\ 4 > 0
    OBVIOUS
  <2>. QED BY <2>1, Divided
<1>3. Offset(ip) = z + y * 64
  BY <1>1, <1>2 DEF Offset
<1>. QED BY <1>3

IsMatch(m, len) ==
  m.off \in Int /\ m.n \in Nat /\ m.ip \in Nat /\ m.ip > 1 /\ (m.end = "cut" \/ m.ip <= len)

\* A match code, whatever it says, is in the data, or it is cut.
LEMMA MatchIs ==
  ASSUME lin \in Seq(Nat), NEW t \in Nat, NEW ip \in Nat, dec.safe = TRUE, ip > 0, ip + 2 <= Len(lin)
  PROVE  IsMatch(DecodeMatch(t, ip), Len(lin))
<1>1. PICK b \in Nat : b = Byte(ip)
  BY ByteIs
<1>2. PICK t4 \in Int, t8 \in Int, t2 \in Nat, tn \in Nat, tm \in Nat :
        t4 = (t \div 4) % 8 /\ t8 = t \div 8 % 2 /\ t2 = t \div 32 /\ tn = t % 32 /\ tm = t % 8
  OBVIOUS
<1>3. PICK q4 \in Int : q4 = t \div 4
  OBVIOUS
<1>4. CASE t >= 64
  <2>1. ~(t \in 32 .. 63) /\ ~(t \in 16 .. 31)
    BY <1>4
  <2>2. DecodeMatch(t, ip) = [off |-> 1 + t4 + b * 8, n |-> t2 + 1, ip |-> ip + 1, end |-> "no"]
    BY <1>1, <1>2, <1>4, <2>1 DEF DecodeMatch
  <2>. QED BY <2>2 DEF IsMatch
<1>5. CASE t \in 32 .. 63
  <2>1. PICK n \in Nat, j \in Nat, c \in BOOLEAN :
          LengthOf(tn, ip, 31) = [t |-> n, ip |-> j, cut |-> c] /\ j >= ip /\ (c \/ j + 2 <= Len(lin))
    <3>1. PICK base \in Nat : base = 31
      OBVIOUS
    <3>2. LengthAt(LengthOf(tn, ip, base), ip, Len(lin))
      BY LengthOfIs
    <3>. QED BY <3>1, <3>2 DEF LengthAt
  <2>2. PICK o \in Nat : o = Offset(j)
    BY OffsetIs
  <2>3. PICK r3 : r3 = LengthOf(t % 32, ip, 31)
    OBVIOUS
  <2>4. r3.t = n /\ r3.ip = j /\ r3.cut = c
    BY <1>2, <2>1, <2>3
  <2>5. DecodeMatch(t, ip) = [off |-> 1 + Offset(r3.ip), n |-> r3.t + 2, ip |-> r3.ip + 2,
                              end |-> IF r3.cut THEN "cut" ELSE "no"]
    <3>1. ~(t >= 64) /\ ~(t \in 16 .. 31)
      BY <1>5
    <3>. QED BY <1>5, <2>3, <3>1, Zenon DEF DecodeMatch
  <2>6. DecodeMatch(t, ip) = [off |-> 1 + o, n |-> n + 2, ip |-> j + 2, end |-> IF c THEN "cut" ELSE "no"]
    BY <2>2, <2>4, <2>5
  <2>7. c => DecodeMatch(t, ip).end = "cut"
    BY <2>6
  <2>. QED BY <2>1, <2>6, <2>7 DEF IsMatch
<1>6. CASE t \in 16 .. 31
  <2>1. PICK n \in Nat, j \in Nat, c \in BOOLEAN :
          LengthOf(tm, ip, 7) = [t |-> n, ip |-> j, cut |-> c] /\ j >= ip /\ (c \/ j + 2 <= Len(lin))
    <3>1. PICK base \in Nat : base = 7
      OBVIOUS
    <3>2. LengthAt(LengthOf(tm, ip, base), ip, Len(lin))
      BY LengthOfIs
    <3>. QED BY <3>1, <3>2 DEF LengthAt
  <2>2. PICK o \in Int : o = t8 * M3_MAX_OFFSET + Offset(j)
    <3>1. Offset(j) \in Nat
      BY OffsetIs
    <3>2. M3_MAX_OFFSET \in Nat
      BY DEF M3_MAX_OFFSET
    <3>. QED BY <3>1, <3>2
  <2>3. PICK r4 : r4 = LengthOf(t % 8, ip, 7)
    OBVIOUS
  <2>4. r4.t = n /\ r4.ip = j /\ r4.cut = c
    BY <1>2, <2>1, <2>3
  <2>5. DecodeMatch(t, ip) =
          [off |-> M3_MAX_OFFSET + ((t \div 8 % 2) * M3_MAX_OFFSET + Offset(r4.ip)), n |-> r4.t + 2, ip |-> r4.ip + 2,
           end |-> IF r4.cut THEN "cut" ELSE IF (t \div 8 % 2) * M3_MAX_OFFSET + Offset(r4.ip) = 0 THEN "eof" ELSE "no"]
    <3>1. ~(t >= 64) /\ ~(t \in 32 .. 63)
      BY <1>6
    <3>. QED BY <1>6, <2>3, <3>1, Zenon DEF DecodeMatch
  <2>6. PICK y \in Int : y = M3_MAX_OFFSET + o
    BY DEF M3_MAX_OFFSET
  <2>7. DecodeMatch(t, ip) = [off |-> y, n |-> n + 2, ip |-> j + 2,
                              end |-> IF c THEN "cut" ELSE IF o = 0 THEN "eof" ELSE "no"]
    BY <1>2, <2>2, <2>4, <2>5, <2>6
  <2>8. c => DecodeMatch(t, ip).end = "cut"
    BY <2>7
  <2>. QED BY <2>1, <2>7, <2>8 DEF IsMatch
<1>7. CASE t < 16
  <2>1. ~(t >= 64) /\ ~(t \in 32 .. 63) /\ ~(t \in 16 .. 31)
    BY <1>7
  <2>2. DecodeMatch(t, ip) = [off |-> 1 + t \div 4 + Byte(ip) * 4, n |-> 2, ip |-> ip + 1, end |-> "no"]
    BY <2>1, Zenon DEF DecodeMatch
  <2>3. PICK o \in Int : o = 1 + q4 + b * 4
    OBVIOUS
  <2>4. DecodeMatch(t, ip) = [off |-> o, n |-> 2, ip |-> ip + 1, end |-> "no"]
    BY <1>1, <1>3, <2>2, <2>3
  <2>. QED BY <2>4 DEF IsMatch
<1>. QED BY <1>4, <1>5, <1>6, <1>7

LEMMA ReadMatchBound ==
  ASSUME BoundInv, ReadMatch
  PROVE  BoundInv'
<1>. USE DEF BoundInv
<1>1. dec.pc = "match" /\ UNCHANGED <<lin, lcap>>
  BY Zenon DEF ReadMatch
<1>2. PICK m : m = DecodeMatch(dec.t, dec.ip)
  OBVIOUS
<1>3. IsMatch(m, Len(lin))
  <2>1. dec.ip > 0 /\ dec.ip + 2 <= Len(lin)
    BY <1>1 DEF BytesAhead
  <2>. QED BY <1>2, <2>1, MatchIs
<1>4. PICK off \in Int, n \in Nat, ip \in Nat : off = m.off /\ n = m.n /\ ip = m.ip /\ ip > 1
  BY <1>3 DEF IsMatch
<1>5. CASE m.end = "cut"
  <2>1. Stop("input overrun") /\ overread' = overread
    BY <1>2, <1>5, Zenon DEF ReadMatch
  <2>2. "input overrun" \in Refusals
    BY Zenon DEF Refusals
  <2>3. 0 \in Nat /\ 0 <= Len(lin)
    OBVIOUS
  <2>. QED BY <1>1, <2>1, <2>2, <2>3, StopBound, Zenon
<1>6. CASE m.end # "cut" /\ m.end = "eof"
  <2>1. dec' = [dec EXCEPT !.pc = Result(ip), !.ip = ip] /\ ReadTo(ip)
    BY <1>2, <1>4, <1>6, Zenon DEF ReadMatch
  <2>2. ip <= Len(lin)
    BY <1>3, <1>4, <1>6 DEF IsMatch
  <2>3. PICK pc \in Refusals : pc = Result(ip)
    <3>1. Result(ip) \in {"ok", "not consumed"}
      <4>1. ip = Len(lin) \/ ip < Len(lin)
        BY <2>2
      <4>. QED BY <4>1, Zenon DEF Result
    <3>. QED BY <3>1, Zenon DEF Refusals
  <2>4. dec' = [pc |-> pc, ip |-> ip, t |-> dec.t, out |-> dec.out, safe |-> dec.safe]
    BY <2>1, <2>3 DEF IsDec
  <2>5. /\ IsDec' /\ dec'.pc = pc /\ dec'.ip = ip /\ dec'.t = dec.t /\ dec'.out = dec.out
        /\ dec'.safe = dec.safe
    BY <2>4 DEF IsDec
  <2>6. overread' = FALSE
    <3>1. ~(ip > Len(lin))
      BY <2>2
    <3>. QED BY <2>1, <3>1, Zenon DEF ReadTo
  <2>7. BytesAhead'
    <3>1. pc \notin {"start", "next", "done", "first", "code", "match"}
      BY Zenon DEF Refusals
    <3>. QED BY <2>5, <3>1, Zenon DEF BytesAhead
  <2>. QED BY <1>1, <2>5, <2>6, <2>7
<1>7. CASE m.end # "cut" /\ m.end # "eof"
  <2>1. CopyMatch(off, n, ip)
    BY <1>2, <1>4, <1>7, Zenon DEF ReadMatch
  <2>2. ip <= Len(lin)
    BY <1>3, <1>4, <1>7 DEF IsMatch
  <2>. QED BY <1>1, <1>4, <2>1, <2>2, MatchBound
<1>. QED BY <1>5, <1>6, <1>7

LEMMA MatchDoneBound ==
  ASSUME BoundInv, MatchDone
  PROVE  BoundInv'
<1>. USE DEF BoundInv
<1>1. dec.pc = "done" /\ UNCHANGED <<lin, lcap, overread>>
  BY Zenon DEF MatchDone
<1>2. PICK b \in Nat : b = Byte(dec.ip - 2)
  <2>1. dec.ip - 2 \in Nat
    BY <1>1 DEF BytesAhead
  <2>. QED BY <2>1, ByteIs
<1>3. PICK t \in Nat : t = b % 4
  OBVIOUS
<1>8. PICK pc \in {"run", "next"} : pc = IF t = 0 THEN "run" ELSE "next"
  OBVIOUS
<1>4. dec' = [dec EXCEPT !.t = t, !.pc = pc]
  BY <1>2, <1>3, <1>8 DEF MatchDone
<1>5. dec' = [pc |-> pc, ip |-> dec.ip, t |-> t, out |-> dec.out, safe |-> dec.safe]
  BY <1>4 DEF IsDec
<1>6. /\ IsDec' /\ dec'.pc = pc /\ dec'.ip = dec.ip /\ dec'.t = t /\ dec'.out = dec.out
      /\ dec'.safe = dec.safe
  BY <1>5 DEF IsDec
<1>7. BytesAhead'
  BY <1>1, <1>6, <1>8 DEF BytesAhead
<1>. QED BY <1>1, <1>6, <1>7

LEMMA MatchNextBound ==
  ASSUME BoundInv, MatchNext
  PROVE  BoundInv'
<1>. USE DEF BoundInv
<1>1. dec.pc = "next" /\ UNCHANGED <<lin, lcap>> /\ CopyLiterals(dec.ip, dec.t, 3, 0, "code")
  BY Zenon DEF MatchNext
<1>2. dec.ip <= Len(lin) /\ "code" \in {"first", "code"}
  BY <1>1 DEF BytesAhead
<1>. QED BY <1>1, <1>2, LiteralsBound

LEMMA DecompressBound ==
  ASSUME BoundInv, Decompress
  PROVE  BoundInv'
BY FirstCodeBound, ReadRunBound, AfterRunBound, ReadMatchBound, MatchDoneBound, MatchNextBound, Zenon
DEF Decompress, Matching, Following

-----------------------------------------------------------------------------
(* Writing.  What is written stays, but that the last byte but one comes   *)
(* to count the literals that follow.                                      *)

Kept(o, s) ==
  /\ s \in Seq(Nat) /\ Len(o) <= Len(s)
  /\ \A i \in 1 .. Len(o) : i # Len(o) - 1 => s[i] = o[i]
  /\ Len(o) > 1 => s[Len(o) - 1] \in o[Len(o) - 1] .. o[Len(o) - 1] + 3

LEMMA HeadKept ==
  ASSUME NEW r \in Seq(Nat), NEW s \in Seq(Nat), NEW c \in Nat, NEW h \in Nat, NEW t \in Nat, c # 1,
         RunHead(r, c, h, t), c + h <= Len(s), \A i \in 1 .. c + h : s[i] = r[i]
  PROVE  RunHead(s, c, h, t)
<1>1. c # 0 => s[c - 1] = r[c - 1]
  <2>1. c # 0 => c - 1 \in 1 .. c + h
    OBVIOUS
  <2>. QED BY <2>1
<1>2. h > 0 => s[c + 1] = r[c + 1]
  <2>1. h > 0 => c + 1 \in 1 .. c + h
    OBVIOUS
  <2>. QED BY <2>1
<1>3. CASE TinyHead(r, c, h, t)
  <2>1. TinyHead(s, c, h, t)
    BY <1>1, <1>3 DEF TinyHead
  <2>. QED BY <2>1 DEF RunHead
<1>4. CASE ShortHead(r, c, h, t)
  <2>1. ShortHead(s, c, h, t)
    BY <1>1, <1>2, <1>4 DEF ShortHead, UnmarkedAt
  <2>. QED BY <2>1 DEF RunHead
<1>5. CASE LongHead(r, c, h, t)
  <2>1. PICK l \in Seq(Nat) : l = LongLength(t - 18)
    <3>1. t - 18 \in Nat /\ t - 18 > 0
      BY <1>5 DEF LongHead
    <3>. QED BY <3>1, LongLengthIs
  <2>2. h = 1 + Len(l) /\ Len(l) \in Nat /\ \A i \in 1 .. Len(l) : r[c + 1 + i] = l[i]
    BY <1>5, <2>1 DEF LongHead, Stands
  <2>3. ASSUME NEW i \in 1 .. Len(l) PROVE s[c + 1 + i] = l[i]
    <3>3. h = 1 + Len(l) /\ Len(l) \in Nat
      BY <2>2
    <3>1. c + 1 + i \in 1 .. c + h
      BY ONLY <3>3, c \in Nat, h \in Nat, i \in 1 .. Len(l)
    <3>2. s[c + 1 + i] = r[c + 1 + i]
      BY <3>1
    <3>. QED BY <2>2, <3>2
  <2>4. Stands(s, c + 1, l)
    BY <2>2, <2>3 DEF Stands
  <2>5. LongHead(s, c, h, t)
    BY <1>1, <1>2, <1>5, <2>1, <2>2, <2>4, SMTT(30) DEF LongHead, UnmarkedAt
  <2>. QED BY <2>5 DEF RunHead
<1>6. CASE FirstHead(r, c, h, t)
  <2>1. FirstHead(s, c, h, t)
    BY <1>2, <1>6 DEF FirstHead
  <2>. QED BY <2>1 DEF RunHead
<1>. QED BY <1>3, <1>4, <1>5, <1>6 DEF RunHead

LEMMA CodedKept ==
  ASSUME NEW o \in Seq(Nat), NEW s, Kept(o, s), UnmarkedAt(o, Len(o)), NEW b \in Nat, NEW e, IsCode(e), Coded(o, b, e),
         b + Len(e) = Len(o) \/ b + Len(e) + 2 <= Len(o)
  PROVE  Coded(s, b, e)
<1>. USE DEF Kept, IsCode, Coded
<1>1. PICK k \in Nat : k = Len(e) /\ k > 1
  OBVIOUS
<1>2. PICK n \in Nat : n = Len(o) /\ n > 1
  BY <1>1
<1>0. b + k = n \/ b + k + 2 <= n
  BY <1>1, <1>2
<1>3. ASSUME NEW i \in 1 .. k, i # k - 1 PROVE s[b + i] = e[i]
  <2>1. b + i \in 1 .. n /\ b + i # n - 1
    BY ONLY <1>0, <1>1, <1>3, b \in Nat, n \in Nat, k \in Nat, i \in 1 .. k
  <2>2. s[b + i] = o[b + i]
    BY <1>2, <2>1
  <2>. QED BY <1>1, <1>3, <2>2
<1>4. s[b + (k - 1)] \in e[k - 1] .. e[k - 1] + 3
  <2>1. k - 1 \in 1 .. k /\ b + (k - 1) \in 1 .. n
    BY ONLY <1>0, <1>1, b \in Nat, n \in Nat, k \in Nat
  <2>2. PICK x \in Nat, y \in Nat : x = e[k - 1] /\ y = o[b + (k - 1)] /\ x % 4 = 0 /\ y \in x .. x + 3
    <3>1. e[k - 1] \in Nat /\ o[b + (k - 1)] \in Nat
      BY <1>1, <1>2, <2>1, ElementOfSeq
    <3>. QED BY <1>1, <3>1
  <2>3. CASE b + k = n
    <3>1. b + (k - 1) = n - 1
      BY <2>3
    <3>2. y % 4 = 0
      <4>1. n # 0 /\ o[n - 1] = y
        <5>1. n # 0
          BY ONLY <1>2, n \in Nat
        <5>2. o[n - 1] = y
          BY <2>2, <3>1, Zenon
        <5>. QED BY <5>1, <5>2
      <4>. QED BY <1>2, <4>1, Zenon DEF UnmarkedAt
    <3>3. y = x
      <4>1. x % 4 = 0 /\ y >= x /\ y <= x + 3
        BY ONLY <2>2, x \in Nat, y \in Nat
      <4>2. PICK u \in Int, v \in Int : x = 4 * u /\ y = 4 * v
        BY ONLY <3>2, <4>1, x \in Nat, y \in Nat
      <4>. QED BY ONLY <4>1, <4>2, u \in Int, v \in Int
    <3>. QED BY <1>2, <2>2, <3>1, <3>3
  <2>4. CASE b + k + 2 <= n
    <3>1. b + (k - 1) # n - 1
      BY <2>4
    <3>2. s[b + (k - 1)] = y
      BY <1>2, <2>1, <2>2, <3>1
    <3>. QED BY <2>2, <3>2
  <2>. QED BY <1>1, <1>2, <2>3, <2>4
<1>. QED BY <1>1, <1>2, <1>3, <1>4

(* The runs and matches already written are still there.                   *)
LEMMA LeadsKept ==
  ASSUME NEW w, NEW o \in Seq(Nat), NEW s, Kept(o, s), UnmarkedAt(o, Len(o)), NEW x \in Nat \X Nat, x[1] # 1,
         NEW d, Leads(w, o, x, d), d[1] = Len(o) \/ d[1] + 2 <= Len(o)
  PROVE  Leads(w, s, x, d)
<1>1. PICK c \in Nat, p \in Nat : c = x[1] /\ p = x[2] /\ c # 1
  OBVIOUS
<1>2. PICK h \in Nat, t \in Nat :
        /\ RunHead(o, c, h, t) /\ (c = 0 => t > 3)
        /\ Lits(w, o, c + h, p, t) /\ MatchTo(w, o, c + h + t, p + t, d)
  BY <1>1, Zenon DEF Leads
<1>3. PICK n \in Nat, off \in Nat :
        /\ n > 2 /\ Reaches(off) /\ Repeats(w, p + t, n, off)
        /\ Coded(o, c + h + t, EncodeMatch(n, off))
        /\ d = <<c + h + t + Len(EncodeMatch(n, off)), p + t + n>>
  BY <1>2, Zenon DEF MatchTo
<1>4. PICK e : e = EncodeMatch(n, off) /\ IsCode(e)
  BY <1>3, CodeIs
<1>5. PICK k \in Nat : k = Len(e) /\ k > 1
  BY <1>4 DEF IsCode
<1>13. PICK l \in Nat : l = Len(o)
  OBVIOUS
<1>6. c + h + t + k = l \/ c + h + t + k + 2 <= l
  BY <1>3, <1>4, <1>5, <1>13
<1>7. Coded(s, c + h + t, e)
  <2>1. PICK b \in Nat : b = c + h + t
    OBVIOUS
  <2>2. Coded(s, b, e)
    BY <1>3, <1>4, <1>5, <1>6, <1>13, <2>1, CodedKept
  <2>. QED BY <2>1, <2>2
<1>8. MatchTo(w, s, c + h + t, p + t, d)
  BY <1>3, <1>4, <1>7, Zenon DEF MatchTo
<1>9. \A i \in 1 .. c + h + t : s[i] = o[i]
  <2>1. ASSUME NEW i \in 1 .. c + h + t PROVE i \in 1 .. l /\ i # l - 1
    BY ONLY <1>5, <1>6, i \in 1 .. c + h + t, c \in Nat, h \in Nat, t \in Nat, k \in Nat, l \in Nat
  <2>. QED BY <1>13, <2>1 DEF Kept
<1>10. Len(s) \in Nat /\ s \in Seq(Nat) /\ c + h + t <= Len(s)
  <2>1. PICK m \in Nat : m = Len(s) /\ l <= m /\ s \in Seq(Nat)
    BY <1>13 DEF Kept
  <2>2. c + h + t <= m
    BY ONLY <1>5, <1>6, <2>1, c \in Nat, h \in Nat, t \in Nat, k \in Nat, l \in Nat, m \in Nat
  <2>. QED BY <2>1, <2>2
<1>11. RunHead(s, c, h, t)
  <2>1. c + h <= Len(s) /\ \A i \in 1 .. c + h : s[i] = o[i]
    BY ONLY <1>9, <1>10, c \in Nat, h \in Nat, t \in Nat
  <2>. QED BY <1>1, <1>2, <1>10, <2>1, HeadKept
<1>12. Lits(w, s, c + h, p, t)
  <2>1. ASSUME NEW i \in 1 .. t PROVE s[c + h + i] = o[c + h + i]
    <3>1. c + h + i \in 1 .. c + h + t
      OBVIOUS
    <3>. QED BY <1>9, <3>1
  <2>. QED BY <1>2, <1>10, <2>1 DEF Lits
<1>. QED BY <1>1, <1>2, <1>8, <1>11, <1>12, Zenon DEF Leads

Joins(r, a, b) ==
  /\ r \in Seq(Nat) /\ Len(r) = Len(a) + Len(b)
  /\ \A i \in 1 .. Len(a) : r[i] = a[i]
  /\ \A i \in 1 .. Len(b) : r[Len(a) + i] = b[i]

LEMMA JoinsIs ==
  ASSUME NEW a \in Seq(Nat), NEW b \in Seq(Nat)
  PROVE  Joins(a \o b, a, b)
<1>1. PICK m \in Nat, n \in Nat : m = Len(a) /\ n = Len(b)
  OBVIOUS
<1>2. /\ a \o b \in Seq(Nat) /\ Len(a \o b) = m + n
      /\ \A i \in 1 .. m + n : (a \o b)[i] = IF i <= m THEN a[i] ELSE b[i - m]
  BY <1>1, ConcatProperties
<1>3. ASSUME NEW i \in 1 .. m PROVE (a \o b)[i] = a[i]
  BY <1>2
<1>4. ASSUME NEW i \in 1 .. n PROVE (a \o b)[m + i] = b[i]
  <2>1. m + i \in 1 .. m + n /\ ~(m + i <= m) /\ (m + i) - m = i
    OBVIOUS
  <2>. QED BY <1>2, <2>1
<1>. QED BY <1>1, <1>2, <1>3, <1>4 DEF Joins

(* A run of t literals x behind o, whose length is written in h bytes.     *)
Written(o, r, x, h, t) ==
  /\ Kept(o, r) /\ RunHead(r, Len(o), h, t) /\ Len(r) = Len(o) + h + t
  /\ \A i \in 1 .. t : r[Len(o) + h + i] = x[i]

IsHead(y, c, t) ==
  \/ t \in 4 .. 18 /\ y = <<t - 3>>
  \/ t > 18 /\ y = <<0>> \o LongLength(t - 18)
  \/ c = 0 /\ t > 0 /\ y = <<17 + t>>

LEMMA HeadWritten ==
  ASSUME NEW o \in Seq(Nat), UnmarkedAt(o, Len(o)), Len(o) # 1, NEW t \in Nat, NEW x \in Seq(Nat), Len(x) = t,
         NEW y \in Seq(Nat), IsHead(y, Len(o), t)
  PROVE  Written(o, (o \o y) \o x, x, Len(y), t)
<1>1. PICK c \in Nat, h \in Nat : c = Len(o) /\ h = Len(y) /\ c # 1
  <2>1. Len(o) \in Nat /\ Len(y) \in Nat
    OBVIOUS
  <2>. QED BY <2>1, Zenon
<1>2. PICK s \in Seq(Nat) : s = o \o y /\ Joins(s, o, y)
  <2>1. Joins(o \o y, o, y)
    BY JoinsIs
  <2>2. o \o y \in Seq(Nat)
    BY <2>1 DEF Joins
  <2>. QED BY <2>1, <2>2, Zenon
<1>3. PICK r \in Seq(Nat) : r = s \o x /\ Joins(r, s, x)
  <2>1. Joins(s \o x, s, x)
    BY JoinsIs
  <2>2. s \o x \in Seq(Nat)
    BY <2>1 DEF Joins
  <2>. QED BY <2>1, <2>2, Zenon
<1>4. Len(s) = c + h /\ Len(r) = c + h + t
  BY <1>1, <1>2, <1>3 DEF Joins
<1>5. ASSUME NEW i \in 1 .. c PROVE r[i] = o[i]
  <2>1. i \in 1 .. c + h
    BY <1>1
  <2>. QED BY <1>1, <1>2, <1>3, <1>4, <2>1 DEF Joins
<1>6. ASSUME NEW i \in 1 .. h PROVE r[c + i] = y[i]
  <2>1. c + i \in 1 .. c + h
    BY <1>1
  <2>. QED BY <1>1, <1>2, <1>3, <1>4, <2>1 DEF Joins
<1>7. \A i \in 1 .. t : r[c + h + i] = x[i]
  BY <1>3, <1>4 DEF Joins
<1>8. UnmarkedAt(r, c)
  <2>1. c # 0 => c - 1 \in 1 .. c
    BY <1>1
  <2>. QED BY <1>1, <1>5, <2>1 DEF UnmarkedAt
<1>9. RunHead(r, c, h, t)
  <2>1. CASE t \in 4 .. 18 /\ y = <<t - 3>>
    <3>1. h = 1 /\ r[c + 1] = t - 3
      BY <1>1, <1>6, <2>1
    <3>. QED BY <1>8, <2>1, <3>1 DEF RunHead, ShortHead
  <2>2. CASE t > 18 /\ y = <<0>> \o LongLength(t - 18)
    <3>1. PICK l \in Seq(Nat) : l = LongLength(t - 18)
      <4>1. t - 18 \in Nat /\ t - 18 > 0
        BY <2>2
      <4>. QED BY <4>1, LongLengthIs
    <3>2. PICK z \in Seq(Nat) : z = <<0>> /\ Len(z) = 1 /\ z[1] = 0
      <4>1. <<0>> \in Seq(Nat) /\ Len(<<0>>) = 1 /\ <<0>>[1] = 0
        BY ONLY TRUE
      <4>. QED BY <4>1, Zenon
    <3>3. Joins(y, z, l)
      BY <2>2, <3>1, <3>2, JoinsIs
    <3>4. h = 1 + Len(l) /\ y[1] = 0 /\ \A i \in 1 .. Len(l) : y[1 + i] = l[i]
      BY <1>1, <3>2, <3>3 DEF Joins
    <3>5. PICK k \in Nat : k = Len(l)
      OBVIOUS
    <3>6. r[c + 1] = 0
      <4>1. 1 \in 1 .. h
        BY <3>4, <3>5
      <4>. QED BY <1>6, <3>4, <4>1
    <3>7. ASSUME NEW i \in 1 .. k PROVE r[c + 1 + i] = l[i]
      <4>1. 1 + i \in 1 .. h /\ c + (1 + i) = c + 1 + i
        BY <3>4, <3>5
      <4>. QED BY <1>6, <3>4, <3>5, <4>1
    <3>8. Stands(r, c + 1, l)
      BY <1>4, <3>4, <3>5, <3>7 DEF Stands
    <3>. QED BY <1>8, <2>2, <3>1, <3>4, <3>6, <3>8 DEF RunHead, LongHead
  <2>3. CASE Len(o) = 0 /\ t > 0 /\ y = <<17 + t>>
    <3>1. h = 1 /\ c = 0 /\ r[c + 1] = 17 + t
      BY <1>1, <1>6, <2>3
    <3>2. r[1] = 17 + t
      BY <3>1
    <3>. QED BY <2>3, <3>1, <3>2 DEF RunHead, FirstHead
  <2>. QED BY <2>1, <2>2, <2>3 DEF IsHead
<1>10. Kept(o, r)
  <2>1. c > 1 => r[c - 1] \in o[c - 1] .. o[c - 1] + 3
    <3>1. c > 1 => c - 1 \in 1 .. c
      OBVIOUS
    <3>2. c > 1 => o[c - 1] \in Nat
      BY <1>1, <3>1, ElementOfSeq
    <3>3. c > 1 => r[c - 1] = o[c - 1]
      BY <1>5, <3>1, Zenon
    <3>. QED BY ONLY <3>2, <3>3, c \in Nat
  <2>2. c <= Len(r) /\ \A i \in 1 .. c : i # c - 1 => r[i] = o[i]
    BY <1>4, <1>5
  <2>. QED BY <1>1, <2>1, <2>2, Zenon DEF Kept
<1>. QED BY <1>1, <1>2, <1>3, <1>4, <1>7, <1>9, <1>10 DEF Written

LEMMA Regrouped ==
  ASSUME NEW a \in Seq(Nat), NEW b \in Seq(Nat), NEW c \in Seq(Nat)
  PROVE  (a \o b) \o c = a \o (b \o c)
BY ConcatAssociative

(* Literals behind what was written before.                                *)
LEMMA LiteralsWritten ==
  ASSUME NEW o \in Seq(Nat), UnmarkedAt(o, Len(o)), Len(o) # 1, NEW t \in Nat, NEW x \in Seq(Nat), Len(x) = t,
         Len(o) = 0 => t = 0 \/ t > 3
  PROVE  \E h \in Nat : Written(o, Literals(o, t, x), x, h, t)
<1>1. CASE t = 0
  <2>1. Literals(o, t, x) = o
    BY <1>1 DEF Literals
  <2>2. Kept(o, o)
    <3>1. Len(o) > 1 => o[Len(o) - 1] \in Nat
      OBVIOUS
    <3>. QED BY <3>1 DEF Kept
  <2>3. RunHead(o, Len(o), 0, t)
    BY <1>1 DEF RunHead, TinyHead, UnmarkedAt
  <2>4. Written(o, o, x, 0, t)
    BY <1>1, <2>2, <2>3 DEF Written
  <2>. QED BY <2>1, <2>4
<1>2. CASE t \in 1 .. 3
  <2>12. PICK c \in Nat : c = Len(o) /\ c # 1 /\ (c = 0 => t = 0 \/ t > 3)
    <3>1. Len(o) \in Nat
      OBVIOUS
    <3>. QED BY <3>1, Zenon
  <2>1. c > 1 /\ c - 1 \in 1 .. c /\ c # 0
    BY ONLY <1>2, <2>12, c \in Nat, t \in Nat
  <2>2. PICK y \in Nat : y = o[c - 1] /\ y % 4 = 0
    <3>1. o[c - 1] \in Nat
      BY <2>1, <2>12, ElementOfSeq
    <3>2. o[c - 1] % 4 = 0
      BY <2>1, <2>12, Zenon DEF UnmarkedAt
    <3>. QED BY <3>1, <3>2, Zenon
  <2>3. PICK m \in Seq(Nat) : m = [o EXCEPT ![c - 1] = y + t] /\ Len(m) = c /\ m[c - 1] = y + t
                              /\ \A i \in 1 .. c : i # c - 1 => m[i] = o[i]
    <3>1. PICK m : m = [o EXCEPT ![c - 1] = y + t]
      OBVIOUS
    <3>2. y + t \in Nat
      OBVIOUS
    <3>3. m \in Seq(Nat) /\ Len(m) = c /\ m[c - 1] = y + t /\ \A i \in 1 .. c : i # c - 1 => m[i] = o[i]
      BY ONLY <2>1, <2>12, <3>1, <3>2, o \in Seq(Nat), ExceptSeq
    <3>. QED BY <3>1, <3>3
  <2>5. PICK r \in Seq(Nat) : r = m \o x /\ Joins(r, m, x)
    <3>1. Joins(m \o x, m, x)
      BY JoinsIs
    <3>2. m \o x \in Seq(Nat)
      BY <3>1 DEF Joins
    <3>. QED BY <3>1, <3>2, Zenon
  <2>6. Literals(o, t, x) = r
    <3>1. t # 0 /\ t \notin 4 .. 18
      BY ONLY <1>2, t \in Nat
    <3>2. Literals(o, t, x) = [o EXCEPT ![Len(o) - 1] = o[Len(o) - 1] + t] \o x
      BY <1>2, <3>1, Zenon DEF Literals
    <3>. QED BY <2>2, <2>3, <2>5, <2>12, <3>2, Zenon
  <2>7. Len(r) = c + t /\ r[c - 1] = y + t /\ \A i \in 1 .. c : i # c - 1 => r[i] = o[i]
    BY <2>1, <2>3, <2>5 DEF Joins
  <2>8. Kept(o, r)
    <3>1. y + t \in y .. y + 3 /\ c <= Len(r)
      BY ONLY <1>2, <2>7, y \in Nat, t \in Nat, c \in Nat
    <3>. QED BY <2>2, <2>7, <2>12, <3>1, Zenon DEF Kept
  <2>9. RunHead(r, c, 0, t)
    <3>1. (y + t) % 4 = t
      <4>1. PICK d \in Nat : d = 4
        OBVIOUS
      <4>2. PICK u \in Nat : y = u * d + 0
        <5>1. y \div d \in Nat /\ y = (y \div d) * d + (y % d)
          BY <4>1, Divided
        <5>2. y % d = 0
          BY <2>2, <4>1, Zenon
        <5>. QED BY <5>1, <5>2, Zenon
      <4>3. PICK z \in Nat : z = y + t /\ z = u * d + t
        BY ONLY <4>1, <4>2, y \in Nat, t \in Nat, u \in Nat
      <4>4. z % d = t
        <5>1. 0 <= t /\ t < d /\ d > 0 /\ u \in Int /\ t \in Int
          BY <1>2, <4>1
        <5>. QED BY <4>3, <5>1, DividedIs
      <4>. QED BY <4>1, <4>3, <4>4
    <3>3. t \in 0 .. 3
      BY <1>2
    <3>2. TinyHead(r, c, 0, t)
      BY <2>1, <2>7, <3>1, <3>3, Zenon DEF TinyHead
    <3>. QED BY <3>2 DEF RunHead
  <2>10. \A i \in 1 .. t : r[c + i] = x[i]
    BY <2>3, <2>5 DEF Joins
  <2>11. Written(o, r, x, 0, t)
    <3>1. Len(r) = c + 0 + t /\ \A i \in 1 .. t : r[c + 0 + i] = x[i]
      BY <2>7, <2>10
    <3>. QED BY <2>8, <2>9, <2>12, <3>1, Zenon DEF Written
  <2>. QED BY <2>6, <2>11
<1>3. CASE t \in 4 .. 18
  <2>1. PICK y \in Seq(Nat) : y = <<t - 3>>
    <3>1. t - 3 \in Nat
      BY <1>3
    <3>2. <<t - 3>> \in Seq(Nat)
      BY ONLY <3>1
    <3>. QED BY <3>2
  <2>2. Written(o, (o \o y) \o x, x, Len(y), t)
    BY <1>3, <2>1, HeadWritten, Zenon DEF IsHead
  <2>4. Len(y) \in Nat
    OBVIOUS
  <2>3. Literals(o, t, x) = (o \o y) \o x
    <3>1. t # 0 /\ t \notin 1 .. 3
      BY <1>3
    <3>. QED BY <1>3, <2>1, <3>1, Zenon DEF Literals
  <2>. QED BY <2>2, <2>3, <2>4, Zenon
<1>4. CASE t > 18
  <2>1. PICK l \in Seq(Nat) : l = LongLength(t - 18)
    <3>1. t - 18 \in Nat /\ t - 18 > 0
      BY <1>4
    <3>. QED BY <3>1, LongLengthIs
  <2>2. PICK z \in Seq(Nat) : z = <<0>>
    <3>1. <<0>> \in Seq(Nat)
      BY ONLY TRUE
    <3>. QED BY <3>1
  <2>3. PICK y \in Seq(Nat) : y = z \o l
    <3>1. z \o l \in Seq(Nat)
      BY ONLY z \in Seq(Nat), l \in Seq(Nat)
    <3>. QED BY <3>1
  <2>4. Written(o, (o \o y) \o x, x, Len(y), t)
    BY <1>4, <2>1, <2>2, <2>3, HeadWritten, Zenon DEF IsHead
  <2>7. Len(y) \in Nat
    OBVIOUS
  <2>5. Literals(o, t, x) = ((o \o z) \o l) \o x
    <3>1. t # 0 /\ t \notin 1 .. 3 /\ t \notin 4 .. 18
      BY ONLY <1>4, t \in Nat
    <3>. QED BY <1>4, <2>1, <2>2, <3>1, Zenon DEF Literals
  <2>6. (o \o z) \o l = o \o y
    <3>1. (o \o z) \o l = o \o (z \o l)
      BY ONLY Regrouped, o \in Seq(Nat), z \in Seq(Nat), l \in Seq(Nat), SMTT(30)
    <3>. QED BY <2>3, <3>1, Zenon
  <2>. QED BY <2>4, <2>5, <2>6, <2>7, Zenon
<1>. QED BY <1>1, <1>2, <1>3, <1>4

(* What then stands behind o, when y is written too.                       *)
RunThen(w, o, s, y, h, t, p) ==
  /\ Kept(o, s) /\ RunHead(s, Len(o), h, t) /\ Len(s) = Len(o) + h + t + Len(y)
  /\ Lits(w, s, Len(o) + h, p, t) /\ \A i \in 1 .. Len(y) : s[Len(o) + h + t + i] = y[i]

LEMMA RunStands ==
  ASSUME NEW o \in Seq(Nat), Len(o) # 1, NEW r, NEW x, NEW h \in Nat, NEW t \in Nat, Written(o, r, x, h, t),
         NEW y \in Seq(Nat), NEW w, NEW p \in Nat, p + t <= Len(w), Len(w) \in Nat, \A i \in 1 .. t : x[i] = w[p + i]
  PROVE  RunThen(w, o, r \o y, y, h, t, p)
<1>1. PICK c \in Nat, n \in Nat : c = Len(o) /\ n = Len(y) /\ c # 1
  <2>1. Len(o) \in Nat /\ Len(y) \in Nat
    OBVIOUS
  <2>. QED BY <2>1, Zenon
<1>2. /\ r \in Seq(Nat) /\ RunHead(r, c, h, t) /\ Len(r) = c + h + t /\ Kept(o, r)
      /\ \A i \in 1 .. t : r[c + h + i] = x[i]
  BY <1>1, Zenon DEF Written, Kept
<1>3. PICK s \in Seq(Nat) : s = r \o y /\ Joins(s, r, y)
  <2>1. Joins(r \o y, r, y)
    BY <1>2, JoinsIs
  <2>2. r \o y \in Seq(Nat)
    BY <2>1 DEF Joins
  <2>. QED BY <2>1, <2>2, Zenon
<1>4. PICK m \in Nat : m = c + h + t
  OBVIOUS
<1>5. Len(s) = m + n /\ \A i \in 1 .. m : s[i] = r[i]
  BY <1>1, <1>2, <1>3, <1>4, Zenon DEF Joins
<1>6. \A i \in 1 .. n : s[m + i] = y[i]
  BY <1>1, <1>2, <1>3, <1>4, Zenon DEF Joins
<1>7. RunHead(s, c, h, t)
  <2>1. c + h <= Len(s) /\ \A i \in 1 .. c + h : s[i] = r[i]
    <3>1. c + h <= m + n /\ \A i \in 1 .. c + h : i \in 1 .. m
      BY ONLY <1>4, c \in Nat, h \in Nat, t \in Nat, m \in Nat, n \in Nat
    <3>. QED BY <1>5, <3>1, Zenon
  <2>. QED BY <1>1, <1>2, <2>1, HeadKept
<1>8. Kept(o, s)
  <2>1. \A i \in 1 .. c : s[i] = r[i]
    <3>1. \A i \in 1 .. c : i \in 1 .. m
      BY ONLY <1>4, c \in Nat, h \in Nat, t \in Nat, m \in Nat
    <3>. QED BY <1>5, <3>1, Zenon
  <2>2. c <= Len(s)
    BY <1>4, <1>5
  <2>3. c > 1 => c - 1 \in 1 .. c
    OBVIOUS
  <2>4. c > 1 => s[c - 1] = r[c - 1]
    BY <2>1, <2>3, Zenon
  <2>5. \A i \in 1 .. c : i # c - 1 => r[i] = o[i]
    BY <1>1, <1>2, Zenon DEF Kept
  <2>6. \A i \in 1 .. c : i # c - 1 => s[i] = o[i]
    BY <2>1, <2>5, Zenon
  <2>7. c > 1 => s[c - 1] \in o[c - 1] .. o[c - 1] + 3
    BY <1>1, <1>2, <2>4, Zenon DEF Kept
  <2>. QED BY <1>1, <2>2, <2>6, <2>7, Zenon DEF Kept
<1>9. Lits(w, s, c + h, p, t)
  <2>1. ASSUME NEW i \in 1 .. t PROVE s[c + h + i] = w[p + i]
    <3>1. c + h + i \in 1 .. m
      BY <1>4
    <3>2. s[c + h + i] = r[c + h + i] /\ r[c + h + i] = x[i]
      BY <1>2, <1>5, <3>1, Zenon
    <3>. QED BY <3>2
  <2>2. c + h + t <= Len(s)
    BY <1>4, <1>5
  <2>. QED BY <2>1, <2>2, Zenon DEF Lits
<1>. QED BY <1>1, <1>3, <1>4, <1>5, <1>6, <1>7, <1>8, <1>9, Zenon DEF RunThen

LEMMA OldLead ==
  ASSUME NEW w, NEW o \in Seq(Nat), NEW s, Kept(o, s), UnmarkedAt(o, Len(o)), NEW S, NEW p \in Nat, Chain(w, o, S, p),
         NEW x \in S, x # <<Len(o), p>>
  PROVE  x[1] + 2 <= Len(o) /\ \E d \in S : Leads(w, s, x, d)
<1>1. x \in Nat \X Nat /\ x[1] # 1
  BY DEF Chain, Points
<1>2. PICK d \in S : x[1] + 2 <= Len(o) /\ Leads(w, o, x, d)
  BY Zenon DEF Chain
<1>3. d[1] = Len(o) \/ d[1] + 2 <= Len(o)
  <2>1. CASE d = <<Len(o), p>>
    BY <2>1
  <2>2. CASE d # <<Len(o), p>>
    BY <2>2, Zenon DEF Chain
  <2>. QED BY <2>1, <2>2
<1>4. Leads(w, s, x, d)
  BY <1>1, <1>2, <1>3, LeadsKept, Zenon
<1>. QED BY <1>2, <1>4

\* The data up to the last match leads to place p of the input.
ChainedTo(w, o, p) == UnmarkedAt(o, Len(o)) /\ \E S : Chain(w, o, S, p)

Grown(w, s, q) == s \in Seq(Nat) /\ Len(s) > 1 /\ ChainedTo(w, s, q)

(* A run and a match are one more point.                                   *)
LEMMA ChainGrows ==
  ASSUME NEW w, Len(w) \in Nat, NEW o \in Seq(Nat), NEW p \in Nat, ChainedTo(w, o, p),
         NEW t \in Nat, NEW x \in Seq(Nat), Len(x) = t, Len(o) = 0 => t > 3, \A i \in 1 .. t : x[i] = w[p + i],
         NEW n \in Nat, n > 2, NEW off \in Nat, Reaches(off), Repeats(w, p + t, n, off)
  PROVE  Grown(w, Literals(o, t, x) \o EncodeMatch(n, off), p + t + n)
<1>14. PICK S, s : UnmarkedAt(o, Len(o)) /\ Chain(w, o, S, p) /\ s = Literals(o, t, x) \o EncodeMatch(n, off)
  BY Zenon DEF ChainedTo
<1>1. PICK e \in Seq(Nat), k \in Nat : e = EncodeMatch(n, off) /\ IsCode(e) /\ k = Len(e) /\ k > 1 /\ e[k - 1] % 4 = 0
  <2>1. IsCode(EncodeMatch(n, off))
    BY CodeIs
  <2>2. Len(EncodeMatch(n, off)) \in Nat
    BY <2>1 DEF IsCode
  <2>. QED BY <2>1, <2>2, Zenon DEF IsCode
<1>2. PICK c \in Nat : c = Len(o) /\ c # 1
  <2>1. Len(o) \in Nat /\ <<Len(o), p>>[1] = Len(o)
    OBVIOUS
  <2>2. Len(o) # 1
    BY <1>14, <2>1, Zenon DEF Chain, Points
  <2>. QED BY <2>1, <2>2, Zenon
<1>3. p + t <= Len(w)
  <2>1. p + t + n <= Len(w)
    BY Zenon DEF Repeats
  <2>. QED BY <2>1
<1>12. PICK r : r = Literals(o, t, x) /\ s = r \o EncodeMatch(n, off)
  BY <1>14, Zenon
<1>4. PICK h \in Nat : Written(o, r, x, h, t)
  <2>1. Len(o) = 0 => t = 0 \/ t > 3
    OBVIOUS
  <2>2. Len(o) # 1
    BY <1>2
  <2>3. \E h \in Nat : Written(o, Literals(o, t, x), x, h, t)
    BY <1>14, <2>1, <2>2, LiteralsWritten, Zenon
  <2>. QED BY <1>12, <2>3, Zenon
<1>5. /\ Kept(o, s) /\ RunHead(s, c, h, t) /\ Len(s) = c + h + t + k
      /\ Lits(w, s, c + h, p, t) /\ \A i \in 1 .. k : s[c + h + t + i] = e[i]
  <2>1. s = r \o e /\ Len(o) # 1
    BY <1>1, <1>2, <1>12, Zenon
  <2>2. RunThen(w, o, r \o e, e, h, t, p)
    BY <1>3, <1>4, <2>1, RunStands, Zenon
  <2>. QED BY <1>1, <1>2, <2>1, <2>2, Zenon DEF RunThen
<1>13. PICK m \in Nat : m = Len(s) /\ m = c + h + t + k
  BY <1>5
<1>6. s \in Seq(Nat) /\ Len(s) > 1 /\ UnmarkedAt(s, Len(s))
  <2>1. s \in Seq(Nat)
    BY <1>5, Zenon DEF Kept
  <2>4. m > 1 /\ m # 0 /\ m - 1 = c + h + t + (k - 1) /\ k - 1 \in 1 .. k
    BY ONLY <1>1, <1>13, c \in Nat, h \in Nat, t \in Nat, k \in Nat, m \in Nat
  <2>2. Len(s) > 1 /\ Len(s) # 0 /\ Len(s) - 1 = c + h + t + (k - 1) /\ k - 1 \in 1 .. k
    BY <1>13, <2>4, Zenon
  <2>3. s[Len(s) - 1] % 4 = 0
    BY <1>1, <1>5, <2>2, Zenon
  <2>. QED BY <2>1, <2>2, <2>3 DEF UnmarkedAt
<1>7. PICK d \in Nat \X Nat : d = <<Len(s), p + t + n>> /\ d[1] = Len(s) /\ d[2] = p + t + n
  <2>1. PICK u \in Nat, v \in Nat : u = Len(s) /\ v = p + t + n
    <3>1. Len(s) \in Nat
      BY <1>6
    <3>2. p + t + n \in Nat
      BY ONLY p \in Nat, t \in Nat, n \in Nat
    <3>. QED BY <3>1, <3>2, Zenon
  <2>2. <<u, v>> \in Nat \X Nat /\ <<u, v>>[1] = u /\ <<u, v>>[2] = v
    BY ONLY u \in Nat, v \in Nat
  <2>. QED BY <2>1, <2>2, Zenon
<1>8. PICK l : l = <<c, p>> /\ l \in S /\ l[1] = c /\ l[2] = p
  BY <1>2, <1>14 DEF Chain
<1>9. Leads(w, s, l, d)
  <2>1. Coded(s, c + h + t, e)
    <3>1. k - 1 \in 1 .. k /\ c + h + t + k <= Len(s)
      <4>1. c + h + t + k <= Len(s)
        BY ONLY <1>13, m \in Nat, c \in Nat, h \in Nat, t \in Nat, k \in Nat
      <4>2. k - 1 \in 1 .. k
        BY ONLY <1>1, k \in Nat
      <4>. QED BY <4>1, <4>2
    <3>4. e[k - 1] \in Nat
      BY ONLY <1>1, <3>1, e \in Seq(Nat), k \in Nat, ElementOfSeq
    <3>2. s[c + h + t + (k - 1)] = e[k - 1]
      BY <1>5, <3>1, Zenon
    <3>3. e[k - 1] \in e[k - 1] .. e[k - 1] + 3
      BY ONLY <3>4
    <3>. QED BY <1>1, <1>5, <3>1, <3>2, <3>3, Zenon DEF Coded
  <2>2. MatchTo(w, s, c + h + t, p + t, d)
    BY <1>1, <1>5, <1>7, <2>1, Zenon DEF MatchTo
  <2>3. c = 0 => t > 3
    BY <1>2
  <2>. QED BY <1>5, <1>8, <2>2, <2>3, Zenon DEF Leads
<1>10. c + 2 <= Len(s)
  <2>1. c + 2 <= m
    BY ONLY <1>1, <1>13, c \in Nat, h \in Nat, t \in Nat, k \in Nat, m \in Nat
  <2>. QED BY <1>13, <2>1, Zenon
<1>11. Chain(w, s, S \cup {d}, p + t + n)
  <2>1. Points(S \cup {d})
    <3>1. d[1] # 1
      <4>1. m # 1
        BY ONLY <1>1, <1>13, c \in Nat, h \in Nat, t \in Nat, k \in Nat, m \in Nat
      <4>. QED BY <1>7, <1>13, <4>1, Zenon
    <3>2. Points(S)
      BY <1>14, Zenon DEF Chain
    <3>. QED BY <3>1, <3>2 DEF Points
  <2>2. ASSUME NEW y \in S \cup {d} PROVE y[1] <= Len(s)
    <3>1. CASE y = d
      BY <1>6, <1>7, <3>1
    <3>2. CASE y \in S
      <4>1. y[1] <= c /\ y \in Nat \X Nat
        BY <1>2, <1>14, <3>2, Zenon DEF Chain, Points
      <4>2. Len(s) \in Nat
        BY <1>6
      <4>. QED BY <1>10, <4>1, <4>2
    <3>. QED BY <3>1, <3>2
  <2>3. ASSUME NEW y \in S \cup {d}, y # <<Len(s), p + t + n>>
        PROVE  y[1] + 2 <= Len(s) /\ \E z \in S \cup {d} : Leads(w, s, y, z)
    <3>1. y \in S
      BY <1>7, <2>3
    <3>2. CASE y = l
      BY <1>8, <1>9, <1>10, <3>2
    <3>3. CASE y # l
      <4>1. y[1] + 2 <= c /\ \E z \in S : Leads(w, s, y, z)
        BY <1>2, <1>5, <1>8, <1>14, <3>1, <3>3, OldLead, Zenon
      <4>2. y \in Nat \X Nat /\ Len(s) \in Nat
        BY <1>6, <1>14, <3>1 DEF Chain, Points
      <4>3. y[1] + 2 <= Len(s)
        BY <1>10, <4>1, <4>2, SMTT(30)
      <4>. QED BY <4>1, <4>3
    <3>. QED BY <3>2, <3>3
  <2>4. <<Len(s), p + t + n>> \in S \cup {d}
    BY <1>7
  <2>. QED BY <2>1, <2>2, <2>3, <2>4, Zenon DEF Chain
<1>. QED BY <1>6, <1>11, <1>14, Zenon DEF Grown, ChainedTo

(* The last literals, and the end marker behind them.                      *)
LEMMA TailWritten ==
  ASSUME NEW o \in Seq(Nat), UnmarkedAt(o, Len(o)), Len(o) # 1, NEW t \in Nat, NEW x \in Seq(Nat), Len(x) = t,
         NEW r, r = IF t > 0 /\ o = <<>> /\ t <= 238 THEN <<17 + t>> \o x ELSE Literals(o, t, x)
  PROVE  \E h \in Nat : Written(o, r, x, h, t)
<1>1. CASE t > 0 /\ o = <<>>
  <2>1. CASE t <= 238
    <3>1. r = <<17 + t>> \o x
      BY <1>1, <2>1, Zenon
    <3>2. PICK y \in Seq(Nat) : y = <<17 + t>>
      <4>1. 17 + t \in Nat
        BY ONLY t \in Nat
      <4>2. <<17 + t>> \in Seq(Nat)
        BY ONLY <4>1
      <4>. QED BY <4>2, Zenon
    <3>3. o \o y = y
      BY ONLY <1>1, y \in Seq(Nat)
    <3>4. Len(o) = 0
      BY ONLY <1>1
    <3>5. IsHead(y, Len(o), t)
      BY <1>1, <3>2, <3>4, Zenon DEF IsHead
    <3>6. Written(o, (o \o y) \o x, x, Len(y), t)
      BY <3>5, HeadWritten, Zenon
    <3>7. Len(y) \in Nat
      BY ONLY y \in Seq(Nat)
    <3>. QED BY <3>1, <3>2, <3>3, <3>6, <3>7, Zenon
  <2>2. CASE ~(t <= 238)
    <3>1. r = Literals(o, t, x)
      BY <2>2, Zenon
    <3>2. t = 0 \/ t > 3
      BY ONLY <2>2, t \in Nat
    <3>. QED BY <3>1, <3>2, LiteralsWritten, Zenon
  <2>. QED BY <2>1, <2>2
<1>2. CASE ~(t > 0 /\ o = <<>>)
  <2>1. r = Literals(o, t, x)
    BY <1>2, Zenon
  <2>2. Len(o) = 0 => t = 0 \/ t > 3
    <3>1. t > 0 \/ t = 0
      BY ONLY t \in Nat
    <3>2. Len(o) = 0 => o = <<>>
      BY ONLY o \in Seq(Nat), EmptySeq
    <3>. QED BY <1>2, <3>1, <3>2, Zenon
  <2>. QED BY <2>1, <2>2, LiteralsWritten, Zenon
<1>. QED BY <1>1, <1>2

LEMMA StreamEnds ==
  ASSUME NEW w, Len(w) \in Nat, NEW o \in Seq(Nat), UnmarkedAt(o, Len(o)), NEW S, NEW p \in Nat, Chain(w, o, S, p),
         NEW t \in Nat, NEW x, \A i \in 1 .. t : x[i] = w[p + i], p + t = Len(w),
         NEW r, NEW h \in Nat, Written(o, r, x, h, t), NEW s, s = r \o <<17, 0, 0>>
  PROVE  s \in Seq(Nat) /\ Stream(w, s, S)
<1>1. PICK e \in Seq(Nat) : e = <<17, 0, 0>> /\ Len(e) = 3 /\ \A i \in 1 .. 3 : e[i] = <<17, 0, 0>>[i]
  <2>1. <<17, 0, 0>> \in Seq(Nat) /\ Len(<<17, 0, 0>>) = 3
    BY ONLY TRUE
  <2>. QED BY <2>1, Zenon
<1>2. PICK c \in Nat : c = Len(o) /\ c # 1
  <2>1. Len(o) \in Nat /\ <<Len(o), p>>[1] = Len(o)
    OBVIOUS
  <2>2. Len(o) # 1
    BY <2>1, Zenon DEF Chain, Points
  <2>. QED BY <2>1, <2>2, Zenon
<1>3. RunThen(w, o, s, e, h, t, p)
  <2>1. p + t <= Len(w)
    OBVIOUS
  <2>2. s = r \o e /\ Len(o) # 1
    BY <1>1, <1>2, Zenon
  <2>3. RunThen(w, o, r \o e, e, h, t, p)
    BY <2>1, <2>2, RunStands, Zenon
  <2>. QED BY <2>2, <2>3, Zenon
<1>4. /\ Kept(o, s) /\ RunHead(s, c, h, t) /\ Len(s) = c + h + t + 3
      /\ Lits(w, s, c + h, p, t) /\ \A i \in 1 .. 3 : s[c + h + t + i] = e[i]
  BY <1>1, <1>2, <1>3, Zenon DEF RunThen
<1>5. s \in Seq(Nat)
  BY <1>4, Zenon DEF Kept
<1>6. PICK l : l = <<c, p>> /\ l \in S /\ l[1] = c /\ l[2] = p
  BY <1>2 DEF Chain
<1>7. Ends(w, s, l)
  <2>1. Stands(s, c + h + t, <<17, 0, 0>>)
    <3>1. c + h + t + 3 <= Len(s)
      BY ONLY <1>4, c \in Nat, h \in Nat, t \in Nat
    <3>. QED BY <1>1, <1>4, <3>1, Zenon DEF Stands
  <2>2. EndAt(w, s, c + h + t, p + t)
    BY <1>4, <2>1, Zenon DEF EndAt
  <2>. QED BY <1>4, <1>6, <2>2, Zenon DEF Ends
<1>8. PICK m \in Nat : m = Len(s) /\ c + 3 <= m
  <2>1. c + h + t + 3 \in Nat /\ c + 3 <= c + h + t + 3
    BY ONLY c \in Nat, h \in Nat, t \in Nat
  <2>. QED BY <1>4, <2>1, Zenon
<1>9. Points(S)
  BY Zenon DEF Chain
<1>10. ASSUME NEW y \in S PROVE y[1] + 3 <= Len(s) /\ (Ends(w, s, y) \/ \E d \in S : Leads(w, s, y, d))
  <2>1. CASE y = l
    BY <1>6, <1>7, <1>8, <2>1
  <2>2. CASE y # l
    <3>1. y[1] + 2 <= c /\ \E d \in S : Leads(w, s, y, d)
      BY <1>2, <1>4, <1>6, <2>2, OldLead, Zenon
    <3>2. y \in Nat \X Nat
      BY <1>9, Zenon DEF Points
    <3>3. y[1] + 3 <= m
      BY ONLY <1>8, <3>1, <3>2, c \in Nat, m \in Nat
    <3>. QED BY <1>8, <3>1, <3>3, Zenon
  <2>. QED BY <2>1, <2>2
<1>. QED BY <1>5, <1>9, <1>10, Zenon DEF Stream

(* Nothing yet.                                                            *)
LEMMA ChainBegins ==
  ASSUME NEW w
  PROVE  Chain(w, <<>>, {<<0, 0>>}, 0) /\ UnmarkedAt(<<>>, Len(<<>>))
<1>1. Len(<<>>) = 0 /\ <<0, 0>> \in Nat \X Nat /\ <<0, 0>>[1] = 0
  BY ONLY TRUE
<1>2. Points({<<0, 0>>})
  BY <1>1 DEF Points
<1>. QED BY <1>1, <1>2 DEF Chain, UnmarkedAt

-----------------------------------------------------------------------------
(* The compressor.                                                         *)

(* The greatest of some numbers.                                           *)
LEMMA GreatestOf ==
  ASSUME NEW S \in SUBSET Nat, S # {}, NEW n \in Nat, \A y \in S : y <= n
  PROVE  Max(S) \in S
<1>. DEFINE T == {n - y : y \in S}
<1>1. T \in SUBSET Nat /\ T # {}
  <2>1. \A y \in S : n - y \in Nat
    OBVIOUS
  <2>2. T # {}
    OBVIOUS
  <2>. QED BY <2>1, <2>2
<1>2. PICK m \in T : \A z \in T : m <= z
  <2>. HIDE DEF T
  <2>. QED BY <1>1, LeastOf
<1>3. PICK x \in S : m = n - x
  OBVIOUS
<1>4. ASSUME NEW y \in S PROVE x >= y
  <2>1. n - y \in T
    OBVIOUS
  <2>2. n - x <= n - y
    <3>. HIDE DEF T
    <3>. QED BY <1>2, <1>3, <2>1
  <2>3. x \in Nat /\ y \in Nat
    OBVIOUS
  <2>. QED BY <2>2, <2>3
<1>5. \E z \in S : \A y \in S : z >= y
  BY <1>4
<1>. QED BY <1>5, Zenon DEF Max

(* What agrees.                                                            *)
Equal(w, a, b, n) == \A i \in 1 .. n : w[a + i] = w[b + i]

LEMMA AgreeIs ==
  ASSUME plain \in Seq(Nat), NEW a \in Nat, NEW b \in Nat, NEW n \in Nat
  PROVE  Agree(a, b, n) => a + n > Len(plain) \/ b + n > Len(plain) \/ Equal(plain, a, b, n)
<1>. SUFFICES ASSUME Agree(a, b, n), a + n <= Len(plain), b + n <= Len(plain) PROVE Equal(plain, a, b, n)
  OBVIOUS
<1>1. SubSeq(plain, a + 1, a + n) = SubSeq(plain, b + 1, b + n)
  BY DEF Agree
<1>2. ASSUME NEW c \in Nat, c + n <= Len(plain), NEW i \in 1 .. n PROVE SubSeq(plain, c + 1, c + n)[i] = plain[c + i]
  <2>1. \A j \in c + 1 .. c + n : plain[j] \in Nat
    <3>1. \A j \in c + 1 .. c + n : j \in 1 .. Len(plain)
      BY <1>2
    <3>. QED BY <3>1, ElementOfSeq
  <2>2. PICK u \in Int, v \in Int : u = c + 1 /\ v = c + n
    OBVIOUS
  <2>3. \A j \in 1 .. v - u + 1 : SubSeq(plain, u, v)[j] = plain[u + j - 1]
    BY <2>1, <2>2, SubSeqProperties
  <2>4. i \in 1 .. v - u + 1 /\ u + i - 1 = c + i
    BY <2>2
  <2>. QED BY <2>2, <2>3, <2>4
<1>3. ASSUME NEW i \in 1 .. n PROVE plain[a + i] = plain[b + i]
  BY <1>1, <1>2
<1>. QED BY <1>3 DEF Equal

(* A match agrees as far as it says, and ends before its block.            *)
LEMMA MatchLenIs ==
  ASSUME plain \in Seq(Nat), NEW ip \in Nat, NEW m \in Nat, m < ip, NEW ipEnd \in Nat, ip < ipEnd,
         ipEnd + 20 <= Len(plain), Agree(ip, m, 4)
  PROVE  \E n \in Nat : n = MatchLen(ip, m, ipEnd) /\ n > 3 /\ ip + n < ipEnd + 20 /\ Equal(plain, ip, m, n)
<1>1. PICK len \in Nat : len = Len(plain)
  OBVIOUS
<1>2. PICK K : K = {k \in 0 .. len : (k < 2 \/ ip + 8 * k - 4 < ipEnd) /\ Agree(ip + 4, m + 4, 8 * k)}
  OBVIOUS
<1>3. K \in SUBSET Nat /\ \A k \in K : k <= len
  BY <1>2
<1>4. 0 \in K
  <2>1. SubSeq(plain, ip + 4 + 1, ip + 4 + 8 * 0) = <<>> /\ SubSeq(plain, m + 4 + 1, m + 4 + 8 * 0) = <<>>
    BY SubSeqEmpty
  <2>2. Agree(ip + 4, m + 4, 8 * 0)
    BY <2>1 DEF Agree
  <2>. QED BY <1>2, <2>2
<1>5. PICK g \in Nat : g = Max(K) /\ g \in K
  BY <1>3, <1>4, GreatestOf, Zenon
<1>6. (g < 2 \/ ip + 8 * g - 4 < ipEnd) /\ Agree(ip + 4, m + 4, 8 * g)
  BY <1>2, <1>5
<1>7. PICK J : J = {j \in 0 .. 8 : Agree(ip + 4 + 8 * g, m + 4 + 8 * g, j)}
  OBVIOUS
<1>8. J \in SUBSET Nat /\ \A j \in J : j <= 8
  BY <1>7, SMTT(30)
<1>9. 0 \in J
  <2>1. SubSeq(plain, ip + 4 + 8 * g + 1, ip + 4 + 8 * g + 0) = <<>> /\ SubSeq(plain, m + 4 + 8 * g + 1, m + 4 + 8 * g + 0) = <<>>
    BY SubSeqEmpty
  <2>2. Agree(ip + 4 + 8 * g, m + 4 + 8 * g, 0)
    BY <2>1 DEF Agree
  <2>. QED BY <1>7, <2>2
<1>10. PICK r \in Nat : r = Max(J) /\ r \in J
  BY <1>8, <1>9, GreatestOf, Zenon
<1>11. r <= 8 /\ Agree(ip + 4 + 8 * g, m + 4 + 8 * g, r)
  <2>1. r <= 8
    BY <1>8, <1>10
  <2>. QED BY <1>7, <1>10, <2>1, Zenon
<1>12. PICK cut \in BOOLEAN : cut = (g > 0 /\ ip + 4 + 8 * g >= ipEnd)
  OBVIOUS
<1>13. MatchLen(ip, m, ipEnd) = 4 + 8 * g + (IF cut THEN 0 ELSE r)
  BY <1>1, <1>2, <1>5, <1>7, <1>10, <1>12, Zenon DEF MatchLen
<1>14. PICK n \in Nat : n = 4 + 8 * g + (IF cut THEN 0 ELSE r)
  OBVIOUS
<1>15. n >= 4 + 8 * g /\ n <= 4 + 8 * g + r
  BY <1>14
<1>16. ip + 4 + 8 * g + r < ipEnd + 20
  <2>1. CASE g < 2
    BY <1>11, <2>1
  <2>2. CASE ip + 8 * g - 4 < ipEnd
    BY <1>11, <2>2
  <2>. QED BY <1>6, <2>1, <2>2
<1>17. ip + n < ipEnd + 20
  BY <1>15, <1>16
<1>18. PICK d \in Nat : d = 8 * g
  OBVIOUS
<1>19. Equal(plain, ip, m, 4) /\ Equal(plain, ip + 4, m + 4, d) /\ Equal(plain, ip + 4 + d, m + 4 + d, r)
  <2>1. /\ ~(ip + 4 > Len(plain)) /\ ~(m + 4 > Len(plain))
        /\ ~(ip + 4 + d > Len(plain)) /\ ~(m + 4 + d > Len(plain))
        /\ ~(ip + 4 + d + r > Len(plain)) /\ ~(m + 4 + d + r > Len(plain))
    BY <1>16, <1>18
  <2>2. PICK a \in Nat, b \in Nat, c \in Nat, e \in Nat, f \in Nat :
          a = ip + 4 /\ b = m + 4 /\ c = ip + 4 + d /\ e = m + 4 + d /\ f = 4
    OBVIOUS
  <2>3. Equal(plain, ip, m, f)
    BY <2>1, <2>2, AgreeIs
  <2>4. Equal(plain, a, b, d)
    BY <1>6, <1>18, <2>1, <2>2, AgreeIs
  <2>5. Equal(plain, c, e, r)
    BY <1>11, <1>18, <2>1, <2>2, AgreeIs
  <2>. QED BY <2>2, <2>3, <2>4, <2>5
<1>20. ASSUME NEW i \in 1 .. n PROVE plain[ip + i] = plain[m + i]
  <2>1. CASE i <= 4
    <3>1. i \in 1 .. 4
      BY ONLY <2>1, i \in 1 .. n, n \in Nat
    <3>. QED BY <1>19, <3>1, Zenon DEF Equal
  <2>2. CASE i > 4 /\ i <= 4 + d
    <3>1. PICK j \in 1 .. d : i = 4 + j
      <4>1. i - 4 \in 1 .. d /\ i = 4 + (i - 4)
        BY <2>2
      <4>. QED BY <4>1
    <3>2. plain[ip + 4 + j] = plain[m + 4 + j]
      BY <1>19 DEF Equal
    <3>3. ip + i = ip + 4 + j /\ m + i = m + 4 + j
      BY <3>1
    <3>. QED BY <3>2, <3>3, Zenon
  <2>3. CASE i > 4 + d
    <3>1. PICK j \in 1 .. r : i = 4 + d + j
      <4>1. i - 4 - d \in 1 .. r /\ i = 4 + d + (i - 4 - d)
        BY <1>15, <1>18, <2>3
      <4>. QED BY <4>1
    <3>2. plain[ip + 4 + d + j] = plain[m + 4 + d + j]
      BY <1>19 DEF Equal
    <3>3. ip + i = ip + 4 + d + j /\ m + i = m + 4 + d + j
      BY <3>1
    <3>. QED BY <3>2, <3>3, Zenon
  <2>4. i <= 4 \/ (i > 4 /\ i <= 4 + d) \/ i > 4 + d
    OBVIOUS
  <2>. QED BY <2>1, <2>2, <2>3, <2>4
<1>21. n = MatchLen(ip, m, ipEnd) /\ n > 3
  BY <1>13, <1>14, <1>15
<1>. QED BY <1>17, <1>20, <1>21 DEF Equal

IsEnc == enc = [pc |-> enc.pc, from |-> enc.from, ll |-> enc.ll, ip |-> enc.ip, ii |-> enc.ii, t |-> enc.t,
                dict |-> enc.dict, out |-> enc.out]

EncInv ==
  /\ plain \in Seq(Nat) /\ IsEnc /\ enc.pc \in {"block", "scan", "done"} /\ enc.out \in Seq(Nat)
  /\ enc.from \in Nat /\ enc.ll \in Nat /\ enc.ip \in Nat /\ enc.ii \in Nat /\ enc.t \in Nat
  /\ enc.dict \in [0 .. DictSize - 1 -> Nat]
  /\ enc.pc = "block" =>
       enc.t <= enc.from /\ enc.from <= Len(plain) /\ ChainedTo(plain, enc.out, enc.from - enc.t)
  /\ enc.pc = "scan" =>
       /\ enc.from <= enc.ii /\ enc.ii <= enc.ip /\ enc.from < enc.ip /\ enc.t <= enc.ii
       /\ enc.ii <= enc.from + enc.ll /\ enc.from + enc.ll <= Len(plain) /\ enc.ll > 20 /\ enc.ll <= BlockMax
       /\ \A i \in 0 .. DictSize - 1 : enc.from + enc.dict[i] < enc.ip
       /\ Len(enc.out) = 0 => enc.ip - enc.ii + enc.t > 3
       /\ ChainedTo(plain, enc.out, enc.ii - enc.t)
  /\ enc.pc = "done" => \E S : Stream(plain, enc.out, S)

LEMMA BlockIs ==
  /\ BlockMax \in Nat /\ BlockMax > 20 /\ DictSize \in Nat /\ DictSize > 0
  /\ \A off \in Nat : off > 0 /\ off + 20 < BlockMax => Reaches(off)
BY LzoAssumption DEF Reaches

LEMMA SkipIs ==
  ASSUME NEW ip \in Nat, NEW ii \in Nat, ii <= ip
  PROVE  Skip(ip, ii) \in Nat /\ Skip(ip, ii) > ip
<1>1. PICK d \in Nat : d = ip - ii
  OBVIOUS
<1>2. PICK n \in Nat : n = 32 /\ n > 0
  OBVIOUS
<1>3. d \div n \in Nat
  BY <1>2, Divided
<1>4. PICK k \in Nat : k = (ip - ii) \div 32
  BY <1>1, <1>2, <1>3
<1>5. Skip(ip, ii) = ip + 1 + k
  BY <1>4 DEF Skip
<1>. QED BY <1>5

\* The next block.
LEMMA BlockBegins ==
  ASSUME EncInv, BlockBegin
  PROVE  EncInv'
<1>. USE DEF EncInv
<1>1. enc.pc = "block" /\ More /\ plain' = plain
  BY Zenon DEF BlockBegin
<1>2. PICK from \in Nat, t \in Nat, w \in Seq(Nat) :
        from = enc.from /\ t = enc.t /\ w = plain /\ t <= from /\ from <= Len(w)
  BY <1>1
<1>3. PICK l \in Nat : l = Min({Remaining, BlockMax}) /\ l > 20 /\ l <= BlockMax /\ from + l <= Len(w)
  <2>1. PICK n \in Nat : n = Remaining /\ n > 20 /\ n = Len(w) - from
    BY <1>1, <1>2 DEF Remaining, More
  <2>2. PICK m \in Nat : m = BlockMax /\ m > 20
    BY BlockIs, Zenon
  <2>3. Min({n, m}) = IF n <= m THEN n ELSE m
    <3>1. n \in Int /\ m \in Int
      OBVIOUS
    <3>. QED BY ONLY <3>1, MinOfTwo
  <2>4. PICK l \in Nat : l = Min({n, m}) /\ l > 20 /\ l <= m /\ l <= n
    BY ONLY <2>1, <2>2, <2>3, n \in Nat, m \in Nat
  <2>5. Len(w) \in Nat
    OBVIOUS
  <2>6. from + l <= Len(w)
    BY ONLY <2>1, <2>4, <2>5, from \in Nat, n \in Nat, l \in Nat
  <2>. QED BY <2>1, <2>2, <2>4, <2>6, Zenon
<1>4. PICK ip0 \in Nat : ip0 = from + (IF t < 4 THEN 4 - t ELSE 0) /\ ip0 - from + t > 3 /\ ip0 >= from
  <2>1. PICK d \in Nat : d = (IF t < 4 THEN 4 - t ELSE 0)
    <3>1. (IF t < 4 THEN 4 - t ELSE 0) \in Nat
      BY ONLY t \in Nat
    <3>. QED BY <3>1, Zenon
  <2>2. from + d - from + t > 3 /\ from + d >= from /\ from + d \in Nat
    BY ONLY <2>1, from \in Nat, t \in Nat, d \in Nat
  <2>3. PICK ip0 \in Nat : ip0 = from + d
    BY <2>2
  <2>4. ip0 = from + (IF t < 4 THEN 4 - t ELSE 0)
    BY <2>1, <2>3, Zenon
  <2>5. ip0 - from + t > 3 /\ ip0 >= from
    BY ONLY <2>2, <2>3, ip0 \in Nat, from \in Nat, t \in Nat, d \in Nat
  <2>. QED BY <2>4, <2>5, Zenon
<1>5. PICK ip \in Nat : ip = Skip(ip0, from) /\ ip > ip0
  BY <1>4, SkipIs
<1>6. PICK e : e = enc
  OBVIOUS
<1>7. enc' = [e EXCEPT !.pc = "scan", !.ll = l, !.ii = from, !.ip = ip, !.dict = NoDict]
  BY <1>2, <1>3, <1>4, <1>5, <1>6, Zenon DEF BlockBegin
<1>8. enc' = [pc |-> "scan", from |-> from, ll |-> l, ip |-> ip, ii |-> from, t |-> t, dict |-> NoDict, out |-> enc.out]
  BY <1>2, <1>6, <1>7 DEF IsEnc
<1>9. /\ IsEnc' /\ enc'.pc = "scan" /\ enc'.from = from /\ enc'.ll = l /\ enc'.ip = ip /\ enc'.ii = from
      /\ enc'.t = t /\ enc'.dict = NoDict /\ enc'.out = enc.out
  BY <1>8 DEF IsEnc
<1>10. /\ NoDict \in [0 .. DictSize - 1 -> Nat]
       /\ \A i \in 0 .. DictSize - 1 : from + NoDict[i] < ip
  BY <1>4, <1>5 DEF NoDict
<1>11. ChainedTo(w, enc.out, from - t)
  BY <1>1, <1>2
<1>12. from <= ip /\ from < ip /\ ip - from + t > 3 /\ from <= from /\ from <= from + l
  BY <1>4, <1>5
<1>. QED BY <1>1, <1>2, <1>3, <1>9, <1>10, <1>11, <1>12

\* A block behind.
LEMMA BlockEnds ==
  ASSUME EncInv, BlockEnd
  PROVE  EncInv'
<1>. USE DEF EncInv
<1>1. enc.pc = "scan" /\ plain' = plain
  BY Zenon DEF BlockEnd
<1>2. PICK from \in Nat, ll \in Nat, ii \in Nat, t \in Nat, w \in Seq(Nat) :
        /\ from = enc.from /\ ll = enc.ll /\ ii = enc.ii /\ t = enc.t /\ w = plain
        /\ from + ll <= Len(w) /\ ii <= from + ll /\ t <= ii /\ ChainedTo(w, enc.out, ii - t)
  BY <1>1
<1>3. PICK k \in Nat, f \in Nat : k = from + ll - ii + t /\ f = from + ll /\ k <= f /\ f - k = ii - t
  <2>1. ii <= from + ll /\ t <= ii
    BY <1>2
  <2>. QED BY ONLY <2>1, from \in Nat, ll \in Nat, ii \in Nat, t \in Nat
<1>4. PICK e : e = enc
  OBVIOUS
<1>5. enc' = [e EXCEPT !.pc = "block", !.t = k, !.from = f]
  BY <1>2, <1>3, <1>4 DEF BlockEnd
<1>6. enc' = [pc |-> "block", from |-> f, ll |-> enc.ll, ip |-> enc.ip, ii |-> enc.ii, t |-> k, dict |-> enc.dict,
              out |-> enc.out]
  BY <1>4, <1>5 DEF IsEnc
<1>7. /\ IsEnc' /\ enc'.pc = "block" /\ enc'.from = f /\ enc'.ll = enc.ll /\ enc'.ip = enc.ip /\ enc'.ii = enc.ii
      /\ enc'.t = k /\ enc'.dict = enc.dict /\ enc'.out = enc.out
  BY <1>6 DEF IsEnc
<1>8. ChainedTo(w, enc.out, f - k)
  BY <1>2, <1>3
<1>. QED BY <1>1, <1>2, <1>3, <1>7, <1>8

(* What the dictionary names lies in the block, before here.               *)
LEMMA FoundIs ==
  ASSUME EncInv, enc.pc = "scan", enc.ip < IpEnd
  PROVE  /\ Found.m \in Nat /\ enc.from <= Found.m /\ Found.m < enc.ip
         /\ Updated \in [0 .. DictSize - 1 -> Nat]
         /\ \A i \in 0 .. DictSize - 1 : enc.from + Updated[i] <= enc.ip
<1>. USE DEF EncInv
<1>1. PICK ip \in Nat, from \in Nat, ll \in Nat, w \in Seq(Nat) :
        /\ ip = enc.ip /\ from = enc.from /\ ll = enc.ll /\ w = plain
        /\ from < ip /\ from + ll <= Len(w) /\ ip < from + ll - 20
  BY DEF IpEnd
<1>2. PICK dv : dv = SubSeq(w, ip + 1, ip + 4)
  OBVIOUS
<1>3. PICK d1 \in Nat, d2 \in Nat, d3 \in Nat, d4 \in Nat : d1 = dv[1] /\ d2 = dv[2] /\ d3 = dv[3] /\ d4 = dv[4]
  <2>1. \A j \in ip + 1 .. ip + 4 : w[j] \in Nat
    <3>1. \A j \in ip + 1 .. ip + 4 : j \in 1 .. Len(w)
      <4>1. PICK n \in Nat : n = Len(w)
        OBVIOUS
      <4>2. from + ll <= n /\ ip < from + ll - 20
        BY <1>1, <4>1, Zenon
      <4>3. \A j \in ip + 1 .. ip + 4 : j \in 1 .. n
        BY ONLY <4>2, ip \in Nat, from \in Nat, ll \in Nat, n \in Nat
      <4>. QED BY <4>1, <4>3, Zenon
    <3>. QED BY <3>1, ElementOfSeq
  <2>2. PICK u \in Int, v \in Int : u = ip + 1 /\ v = ip + 4
    OBVIOUS
  <2>3. SubSeq(w, u, v) \in Seq(Nat) /\ Len(SubSeq(w, u, v)) = IF u <= v THEN v - u + 1 ELSE 0
    BY <2>1, <2>2, SubSeqProperties
  <2>6. u <= v /\ v - u + 1 = 4
    BY ONLY <2>2, ip \in Nat
  <2>4. dv \in Seq(Nat) /\ Len(dv) = 4
    BY <1>2, <2>2, <2>3, <2>6, Zenon
  <2>5. dv[1] \in Nat /\ dv[2] \in Nat /\ dv[3] \in Nat /\ dv[4] \in Nat
    <3>1. 1 \in 1 .. 4 /\ 2 \in 1 .. 4 /\ 3 \in 1 .. 4 /\ 4 \in 1 .. 4
      OBVIOUS
    <3>2. \A i \in 1 .. 4 : dv[i] \in Nat
      BY ONLY <2>4, ElementOfSeq
    <3>. QED BY <3>1, <3>2, Zenon
  <2>. QED BY <2>5, Zenon
<1>4. PICK at \in 0 .. DictSize - 1 : at = Dindex(dv)
  <2>1. PICK x \in Nat : x = d1 + 2 * d2 + 3 * d3 + 5 * d4
    OBVIOUS
  <2>2. PICK n \in Nat : n = DictSize /\ n > 0
    BY BlockIs, Zenon
  <2>3. x % n \in 0 .. n - 1
    BY <2>2, Divided
  <2>4. Dindex(dv) = x % n
    BY <1>3, <2>1, <2>2, Zenon DEF Dindex
  <2>. QED BY <2>2, <2>3, <2>4
<1>5. PICK m \in Nat : m = from + enc.dict[at] /\ from <= m /\ m < ip
  <2>1. PICK k \in Nat : k = enc.dict[at] /\ from + k < ip
    BY <1>1
  <2>2. PICK m \in Nat : m = from + k
    OBVIOUS
  <2>3. from <= m /\ m < ip
    BY ONLY <2>1, <2>2, from \in Nat, k \in Nat, m \in Nat
  <2>. QED BY <2>1, <2>2, <2>3, Zenon
<1>6. Found = [at |-> at, m |-> m]
  BY <1>1, <1>2, <1>4, <1>5, Zenon DEF Found
<1>7. Found.at = at /\ Found.m = m
  BY <1>6
<1>8. PICK g \in [0 .. DictSize - 1 -> Nat] : g = enc.dict
  OBVIOUS
<1>9. PICK k \in Nat : k = ip - from
  <2>2. from < ip
    BY <1>1
  <2>1. ip - from \in Nat
    BY ONLY <2>2, ip \in Nat, from \in Nat
  <2>. QED BY <2>1
<1>10. Updated = [g EXCEPT ![at] = k]
  BY <1>1, <1>7, <1>8, <1>9, Zenon DEF Updated
<1>11. ASSUME NEW i \in 0 .. DictSize - 1 PROVE from + Updated[i] <= ip
  <2>1. CASE i = at
    BY <1>9, <1>10, <2>1
  <2>2. CASE i # at
    <3>1. Updated[i] = g[i] /\ g[i] \in Nat
      BY <1>10, <2>2
    <3>2. from + g[i] < ip
      BY <1>1, <1>8
    <3>. QED BY <3>1, <3>2
  <2>. QED BY <2>1, <2>2
<1>12. Updated \in [0 .. DictSize - 1 -> Nat]
  BY <1>10
<1>. QED BY <1>1, <1>5, <1>7, <1>11, <1>12

\* A byte is passed over.
LEMMA LiteralPasses ==
  ASSUME EncInv, Literal
  PROVE  EncInv'
<1>. USE DEF EncInv
<1>1. enc.pc = "scan" /\ enc.ip < IpEnd /\ plain' = plain
  BY Zenon DEF Literal, Scan
<1>2. PICK g \in [0 .. DictSize - 1 -> Nat] :
        g = Updated /\ \A i \in 0 .. DictSize - 1 : enc.from + g[i] <= enc.ip
  BY <1>1, FoundIs, Zenon
<1>3. PICK from \in Nat, ip \in Nat, ii \in Nat, ll \in Nat, t \in Nat, n \in Nat :
        /\ from = enc.from /\ ip = enc.ip /\ ii = enc.ii /\ ll = enc.ll /\ t = enc.t /\ n = Len(enc.out)
  <2>1. Len(enc.out) \in Nat
    OBVIOUS
  <2>. QED BY <2>1, Zenon
<1>4. PICK j \in Nat : j = Skip(ip, ii) /\ j > ip
  BY <1>1, <1>3, SkipIs
<1>5. PICK e : e = enc
  OBVIOUS
<1>6. enc' = [e EXCEPT !.dict = g, !.ip = j]
  BY <1>2, <1>3, <1>4, <1>5, Zenon DEF Literal
<1>7. enc' = [pc |-> "scan", from |-> from, ll |-> ll, ip |-> j, ii |-> ii, t |-> t, dict |-> g, out |-> enc.out]
  BY <1>1, <1>3, <1>5, <1>6 DEF IsEnc
<1>8. /\ IsEnc' /\ enc'.pc = "scan" /\ enc'.from = from /\ enc'.ll = ll /\ enc'.ip = j /\ enc'.ii = ii
      /\ enc'.t = t /\ enc'.dict = g /\ enc'.out = enc.out
  BY <1>7 DEF IsEnc
<1>9. ii <= ip /\ from < ip /\ (n = 0 => ip - ii + t > 3)
  BY <1>1, <1>3
<1>10. ii <= j /\ from < j /\ (n = 0 => j - ii + t > 3)
  BY ONLY <1>4, <1>9, from \in Nat, ip \in Nat, ii \in Nat, t \in Nat, n \in Nat, j \in Nat
<1>11. \A i \in 0 .. DictSize - 1 : from + g[i] < j
  <2>1. ASSUME NEW i \in 0 .. DictSize - 1 PROVE from + g[i] < j
    <3>1. g[i] \in Nat /\ from + g[i] <= ip
      BY <1>2, <1>3
    <3>. QED BY <1>4, <3>1
  <2>. QED BY <2>1
<1>12. ChainedTo(plain, enc.out, ii - t) /\ from <= ii /\ t <= ii /\ ii <= from + ll /\ from + ll <= Len(plain) /\ ll > 20 /\ ll <= BlockMax
  BY <1>1, <1>3, Zenon
<1>. QED BY <1>1, <1>3, <1>8, <1>10, <1>11, <1>12

\* The literals before place b of the input, as the code takes them.
IsBefore(w, b, t, x) == x \in Seq(Nat) /\ Len(x) = t /\ \A i \in 1 .. t : x[i] = w[b - t + i]

LEMMA BeforeIs ==
  ASSUME NEW w \in Seq(Nat), NEW b \in Nat, NEW t \in Nat, t <= b, b <= Len(w)
  PROVE  IsBefore(w, b, t, SubSeq(w, b - t + 1, b))
<1>1. PICK u \in Int, v \in Int : u = b - t + 1 /\ v = b /\ v - u + 1 = t
  OBVIOUS
<1>2. \A j \in u .. v : w[j] \in Nat
  <2>1. \A j \in u .. v : j \in 1 .. Len(w)
    BY <1>1
  <2>. QED BY <2>1, ElementOfSeq
<1>3. PICK s : s = SubSeq(w, u, v)
  OBVIOUS
<1>4. s \in Seq(Nat) /\ Len(s) = (IF u <= v THEN v - u + 1 ELSE 0) /\ \A i \in 1 .. v - u + 1 : s[i] = w[u + i - 1]
  BY <1>2, <1>3, SubSeqProperties
<1>5. Len(s) = t
  BY <1>1, <1>4
<1>6. ASSUME NEW i \in 1 .. t PROVE s[i] = w[b - t + i]
  <2>1. i \in 1 .. v - u + 1 /\ u + i - 1 = b - t + i
    BY <1>1
  <2>. QED BY <1>4, <2>1
<1>. QED BY <1>1, <1>3, <1>4, <1>5, <1>6, Zenon DEF IsBefore

\* A match is written, with the literals before it.
LEMMA MatchWritten ==
  ASSUME EncInv, WriteMatch
  PROVE  EncInv'
<1>. USE DEF EncInv
<1>1. enc.pc = "scan" /\ enc.ip < IpEnd /\ plain' = plain /\ Agree(enc.ip, Found.m, 4) = TRUE
  BY Zenon DEF WriteMatch, Scan
<1>2. PICK g \in [0 .. DictSize - 1 -> Nat], m \in Nat :
        /\ g = Updated /\ \A i \in 0 .. DictSize - 1 : enc.from + g[i] <= enc.ip
        /\ m = Found.m /\ enc.from <= m /\ m < enc.ip
  BY <1>1, FoundIs, Zenon
<1>3. PICK from \in Nat, ip \in Nat, ii \in Nat, ll \in Nat, t \in Nat, w \in Seq(Nat), o \in Seq(Nat) :
        /\ from = enc.from /\ ip = enc.ip /\ ii = enc.ii /\ ll = enc.ll /\ t = enc.t /\ w = plain /\ o = enc.out
  BY Zenon
<1>4. PICK l \in Nat, c \in Nat : l = Len(w) /\ c = Len(o)
  OBVIOUS
<1>5. /\ from <= ii /\ ii <= ip /\ from < ip /\ t <= ii /\ ii <= from + ll /\ from + ll <= l /\ ll > 20 /\ ll <= BlockMax
      /\ (c = 0 => ip - ii + t > 3) /\ ChainedTo(w, o, ii - t) /\ from <= m /\ m < ip
  BY <1>1, <1>2, <1>3, <1>4, Zenon
<1>6. PICK end \in Nat : end = IpEnd /\ end = from + ll - 20
  <2>1. from + ll - 20 \in Nat
    BY ONLY <1>5, from \in Nat, ll \in Nat
  <2>. QED BY <1>3, <2>1, Zenon DEF IpEnd
<1>7. ip < end /\ end + 20 = from + ll /\ end + 20 <= l
  <2>1. ip < end
    BY <1>1, <1>3, <1>6, Zenon
  <2>. QED BY ONLY <1>5, <1>6, <2>1, from \in Nat, ll \in Nat, l \in Nat, end \in Nat
<1>8. PICK n \in Nat : n = MatchLen(ip, m, end) /\ n > 3 /\ ip + n < end + 20 /\ Equal(w, ip, m, n)
  <2>1. Agree(ip, m, 4) /\ end + 20 <= Len(plain)
    BY <1>1, <1>2, <1>3, <1>4, <1>7, Zenon
  <2>2. \E n \in Nat : n = MatchLen(ip, m, end) /\ n > 3 /\ ip + n < end + 20 /\ Equal(plain, ip, m, n)
    BY <1>5, <1>7, <2>1, MatchLenIs
  <2>. QED BY <1>3, <2>2
<1>9. PICK off \in Nat, p \in Nat, k \in Nat : off = ip - m /\ p = ii - t /\ k = ip - ii + t
  BY ONLY <1>5, ip \in Nat, m \in Nat, ii \in Nat, t \in Nat
<1>10. Reaches(off)
  <2>1. PICK b \in Nat : b = BlockMax
    BY BlockIs, Zenon
  <2>2. off > 0 /\ off + 20 < b
    <3>1. ll <= b
      BY <1>5, <2>1, Zenon
    <3>. QED BY ONLY <1>5, <1>6, <1>7, <1>9, <3>1, off \in Nat, ip \in Nat, m \in Nat, from \in Nat, ll \in Nat, b \in Nat, end \in Nat
  <2>. QED BY <2>1, <2>2, BlockIs, Zenon
<1>11. p + k = ip /\ off <= ip /\ ip + n <= l /\ ip + n <= from + ll /\ n > 2 /\ k = Pending
  <2>1. p + k = ip /\ off <= ip /\ ip + n <= l /\ ip + n <= from + ll /\ n > 2
    BY ONLY <1>5, <1>7, <1>8, <1>9, off \in Nat, ip \in Nat, m \in Nat, from \in Nat, ll \in Nat, l \in Nat, end \in Nat,
            n \in Nat, ii \in Nat, t \in Nat, p \in Nat, k \in Nat
  <2>2. k = Pending
    BY <1>3, <1>9, Zenon DEF Pending
  <2>. QED BY <2>1, <2>2
<1>12. Repeats(w, p + k, n, off)
  <2>1. ASSUME NEW i \in 1 .. n PROVE w[ip + i] = w[ip + i - off]
    <3>1. ip + i - off = m + i
      BY ONLY <1>9, <1>5, ip \in Nat, m \in Nat, off \in Nat, i \in 1 .. n, n \in Nat
    <3>. QED BY <1>8, <3>1, Zenon DEF Equal
  <2>. QED BY <1>4, <1>11, <2>1, Zenon DEF Repeats
<1>13. PICK x \in Seq(Nat) : x = SubSeq(w, ip - k + 1, ip) /\ Len(x) = k /\ \A i \in 1 .. k : x[i] = w[p + i]
  <2>1. ip <= Len(w)
    BY ONLY <1>4, <1>5, <1>7, ip \in Nat, l \in Nat, end \in Nat
  <2>2. k <= ip /\ ip - k = p
    BY ONLY <1>11, ip \in Nat, k \in Nat, p \in Nat
  <2>3. IsBefore(w, ip, k, SubSeq(w, ip - k + 1, ip))
    <3>1. k <= ip
      BY <2>2
    <3>. QED BY <2>1, <3>1, BeforeIs, Zenon
  <2>. QED BY <2>2, <2>3, Zenon DEF IsBefore
<1>14. PICK s : s = Literals(o, k, x) \o EncodeMatch(n, off)
  OBVIOUS
<1>15. s \in Seq(Nat) /\ Len(s) > 1 /\ ChainedTo(w, s, ip + n)
  <2>1. ChainedTo(w, o, p)
    BY <1>5, <1>9, Zenon
  <2>2. Len(w) \in Nat /\ (Len(o) = 0 => k > 3)
    <3>1. c = 0 => k > 3
      BY ONLY <1>5, <1>9
    <3>. QED BY <1>4, <3>1, Zenon
  <2>3. Grown(w, Literals(o, k, x) \o EncodeMatch(n, off), p + k + n)
    BY <1>10, <1>11, <1>12, <1>13, <2>1, <2>2, ChainGrows, Zenon
  <2>4. p + k + n = ip + n
    BY <1>11
  <2>. QED BY <1>14, <2>3, <2>4, Zenon DEF Grown
<1>16. PICK j \in Nat : j = ip + n
  OBVIOUS
<1>17. PICK e : e = enc
  OBVIOUS
<1>18. enc' = [e EXCEPT !.dict = g, !.ip = j, !.ii = j, !.t = 0, !.out = s]
  <2>1. enc' = [enc EXCEPT !.dict = Updated, !.ip = enc.ip + n, !.ii = enc.ip + n, !.t = 0,
                           !.out = Literals(enc.out, Pending, SubSeq(plain, enc.ip - Pending + 1, enc.ip))
                                     \o EncodeMatch(n, enc.ip - Found.m)]
    BY <1>2, <1>3, <1>6, <1>8, Zenon DEF WriteMatch
  <2>. QED BY <1>2, <1>3, <1>9, <1>11, <1>13, <1>14, <1>16, <1>17, <2>1, Zenon
<1>19. enc' = [pc |-> "scan", from |-> from, ll |-> ll, ip |-> j, ii |-> j, t |-> 0, dict |-> g, out |-> s]
  BY <1>1, <1>3, <1>17, <1>18 DEF IsEnc
<1>20. /\ IsEnc' /\ enc'.pc = "scan" /\ enc'.from = from /\ enc'.ll = ll /\ enc'.ip = j /\ enc'.ii = j
       /\ enc'.t = 0 /\ enc'.dict = g /\ enc'.out = s
  BY <1>19 DEF IsEnc
<1>21. from <= j /\ j <= j /\ from < j /\ 0 <= j /\ j <= from + ll /\ j - 0 = j /\ ip < j
  BY ONLY <1>5, <1>8, <1>11, <1>16, from \in Nat, ip \in Nat, j \in Nat, n \in Nat, ll \in Nat, SMTT(30)
<1>22. \A i \in 0 .. DictSize - 1 : from + g[i] < j
  <2>1. ASSUME NEW i \in 0 .. DictSize - 1 PROVE from + g[i] < j
    <3>1. g[i] \in Nat /\ from + g[i] <= ip
      BY <1>2, <1>3
    <3>. QED BY <1>21, <3>1
  <2>. QED BY <2>1
<1>23. ChainedTo(plain', s, j - 0) /\ from + ll <= Len(plain') /\ plain' \in Seq(Nat)
  BY <1>1, <1>3, <1>4, <1>5, <1>15, <1>16, <1>21, Zenon
<1>24. ~(Len(s) = 0) /\ ll > 20 /\ ll <= BlockMax
  BY <1>5, <1>15
<1>25. 0 \in Nat /\ s \in Seq(Nat)
  BY <1>15
<1>. QED BY <1>20, <1>21, <1>22, <1>23, <1>24, <1>25

\* The end.
LEMMA FinishEnds ==
  ASSUME EncInv, Finish
  PROVE  EncInv'
<1>. USE DEF EncInv
<1>1. enc.pc = "block" /\ plain' = plain
  BY Zenon DEF Finish
<1>2. PICK from \in Nat, t0 \in Nat, w \in Seq(Nat), o \in Seq(Nat) :
        from = enc.from /\ t0 = enc.t /\ w = plain /\ o = enc.out
  BY Zenon
<1>3. PICK l \in Nat : l = Len(w)
  OBVIOUS
<1>4. t0 <= from /\ from <= l /\ ChainedTo(w, o, from - t0)
  BY <1>1, <1>2, <1>3, Zenon
<1>5. PICK p \in Nat, t \in Nat : p = from - t0 /\ t = t0 + (l - from) /\ p + t = l
  <2>1. from - t0 \in Nat /\ t0 + (l - from) \in Nat /\ from - t0 + (t0 + (l - from)) = l
    BY ONLY <1>4, from \in Nat, t0 \in Nat, l \in Nat
  <2>. QED BY <2>1, Zenon
<1>6. PICK x \in Seq(Nat) : x = SubSeq(w, l - t + 1, l) /\ Len(x) = t /\ \A i \in 1 .. t : x[i] = w[p + i]
  <2>1. t <= l /\ l <= Len(w) /\ l - t = p
    BY ONLY <1>3, <1>5, l \in Nat, t \in Nat, p \in Nat
  <2>2. IsBefore(w, l, t, SubSeq(w, l - t + 1, l))
    <3>1. t <= l /\ l <= Len(w)
      BY <2>1
    <3>. QED BY <3>1, BeforeIs, Zenon
  <2>. QED BY <2>1, <2>2, Zenon DEF IsBefore
<1>7. PICK r : r = IF t > 0 /\ o = <<>> /\ t <= 238 THEN <<17 + t>> \o x ELSE Literals(o, t, x)
  OBVIOUS
<1>8. PICK S : UnmarkedAt(o, Len(o)) /\ Chain(w, o, S, p)
  BY <1>4, <1>5, Zenon DEF ChainedTo
<1>9. Len(o) # 1
  <2>1. <<Len(o), p>>[1] = Len(o)
    OBVIOUS
  <2>. QED BY <1>8, <2>1, Zenon DEF Chain, Points
<1>10. PICK h \in Nat : Written(o, r, x, h, t)
  BY <1>6, <1>7, <1>8, <1>9, TailWritten, Zenon
<1>11. PICK s : s = r \o <<17, 0, 0>>
  OBVIOUS
<1>12. s \in Seq(Nat) /\ Stream(w, s, S)
  <2>1. Len(w) \in Nat /\ p + t = Len(w)
    BY <1>3, <1>5
  <2>. QED BY <1>6, <1>8, <1>10, <1>11, <2>1, StreamEnds, Zenon
<1>13. PICK e : e = enc
  OBVIOUS
<1>14. enc' = [e EXCEPT !.pc = "done", !.out = s]
  <2>1. M4_MARKER + 1 = 17
    BY DEF M4_MARKER
  <2>2. enc.t + Remaining = t
    BY <1>2, <1>3, <1>5, Zenon DEF Remaining
  <2>3. Len(plain) = l
    BY <1>2, <1>3, Zenon
  <2>4. enc' = [enc EXCEPT !.pc = "done",
                  !.out = (IF t > 0 /\ enc.out = <<>> /\ t <= 238
                             THEN <<17 + t>> \o SubSeq(plain, l - t + 1, l)
                             ELSE Literals(enc.out, t, SubSeq(plain, l - t + 1, l))) \o <<M4_MARKER + 1, 0, 0>>]
    BY <2>2, <2>3, Zenon DEF Finish
  <2>. QED BY <1>2, <1>6, <1>7, <1>11, <1>13, <2>1, <2>4, Zenon
<1>15. enc' = [pc |-> "done", from |-> from, ll |-> enc.ll, ip |-> enc.ip, ii |-> enc.ii, t |-> t0, dict |-> enc.dict,
               out |-> s]
  BY <1>2, <1>13, <1>14 DEF IsEnc
<1>16. /\ IsEnc' /\ enc'.pc = "done" /\ enc'.from = from /\ enc'.ll = enc.ll /\ enc'.ip = enc.ip /\ enc'.ii = enc.ii
       /\ enc'.t = t0 /\ enc'.dict = enc.dict /\ enc'.out = s
  BY <1>15 DEF IsEnc
<1>17. \E T : Stream(plain', enc'.out, T)
  BY <1>1, <1>2, <1>12, <1>16, Zenon
<1>. QED BY <1>1, <1>2, <1>12, <1>16, <1>17, Zenon

LEMMA CompressWrites ==
  ASSUME EncInv, Compress
  PROVE  EncInv'
BY BlockBegins, LiteralPasses, MatchWritten, BlockEnds, FinishEnds, Zenon DEF Compress

\* A new compressor.
LEMMA NewWrites ==
  ASSUME plain \in Seq(Nat), enc = NewCompressor
  PROVE  EncInv
<1>1. enc = [pc |-> "block", from |-> 0, ll |-> 0, ip |-> 0, ii |-> 0, t |-> 0, dict |-> NoDict, out |-> <<>>]
  BY Zenon DEF NewCompressor
<1>2. /\ IsEnc /\ enc.pc = "block" /\ enc.from = 0 /\ enc.ll = 0 /\ enc.ip = 0 /\ enc.ii = 0 /\ enc.t = 0
      /\ enc.dict = NoDict /\ enc.out = <<>>
  BY <1>1 DEF IsEnc
<1>3. NoDict \in [0 .. DictSize - 1 -> Nat]
  BY DEF NoDict
<1>4. ChainedTo(plain, <<>>, 0)
  BY ChainBegins, Zenon DEF ChainedTo
<1>5. <<>> \in Seq(Nat) /\ 0 <= Len(plain) /\ 0 - 0 = 0 /\ 0 <= 0 /\ 0 \in Nat
  OBVIOUS
<1>6. ChainedTo(plain, enc.out, enc.from - enc.t) /\ enc.t <= enc.from /\ enc.from <= Len(plain)
  BY <1>2, <1>4, <1>5, Zenon
<1>. QED BY <1>2, <1>3, <1>5, <1>6 DEF EncInv

-----------------------------------------------------------------------------
(* The whole: nothing was received, or the decompressor reads.             *)

Waiting == dec = Idle /\ intact = TRUE /\ overread = FALSE
Reading ==
  /\ intact = TRUE => \E S : \E q \in Nat : ReadInv(S, q)
  /\ dec.safe = TRUE => BoundInv
  /\ intact = TRUE \/ dec.safe = TRUE
OneMatch ==
  /\ enc.pc = "none" /\ Waiting
  /\ \E m \in Matches : lin = EncodeMatch(m[1], m[2])

LzoInv == OneMatch \/ (EncInv /\ (Waiting \/ (enc.pc = "done" /\ Reading)))

(* The data arrives.                                                       *)
LEMMA StartBound ==
  ASSUME NEW given \in Seq(Nat), NEW cap \in Nat, NEW whole, overread = FALSE, Start(given, cap, TRUE, whole)
  PROVE  BoundInv' /\ dec'.safe = TRUE
<1>1. lin' = given /\ lcap' = cap /\ overread' = FALSE
  BY DEF Start
<1>2. dec' = [pc |-> "start", ip |-> 0, t |-> 0, out |-> <<>>, safe |-> TRUE]
  BY DEF Start
<1>3. IsDec' /\ dec'.pc = "start" /\ dec'.ip = 0 /\ dec'.t = 0 /\ dec'.out = <<>> /\ dec'.safe = TRUE
  BY <1>2 DEF IsDec
<1>4. <<>> \in Seq(Nat) /\ Len(<<>>) = 0 /\ 0 <= cap
  OBVIOUS
<1>5. BytesAhead'
  BY <1>3 DEF BytesAhead
<1>. QED BY <1>1, <1>3, <1>4, <1>5 DEF BoundInv

LEMMA StartRead ==
  ASSUME EncInv, enc.pc = "done", NEW safe, Start(enc.out, Len(plain), safe, TRUE)
  PROVE  \E S : \E q \in Nat : ReadInv(S, q)'
<1>. USE DEF EncInv
<1>1. /\ lin' = enc.out /\ lcap' = Len(plain') /\ plain' = plain
      /\ dec' = [pc |-> "start", ip |-> 0, t |-> 0, out |-> <<>>, safe |-> safe]
  BY DEF Start
<1>2. PICK S : Stream(plain, enc.out, S)
  OBVIOUS
<1>3. IsDec' /\ dec'.pc = "start" /\ dec'.ip = 0 /\ dec'.out = <<>>
  BY <1>1 DEF IsDec
<1>4. HasRead(plain', <<>>, 0)
  <2>1. <<>> \in Seq(Nat) /\ Len(<<>>) = 0 /\ 0 <= Len(plain)
    OBVIOUS
  <2>. QED BY <1>1, <2>1 DEF HasRead
<1>5. ReadsAt(S, 0)'
  BY <1>3 DEF ReadsAt
<1>6. ReadInv(S, 0)'
  BY <1>1, <1>2, <1>3, <1>4, <1>5 DEF ReadInv
<1>7. 0 \in Nat
  OBVIOUS
<1>. QED BY <1>6, <1>7

LEMMA ReceiveReads ==
  ASSUME EncInv, overread = FALSE, Receive
  PROVE  EncInv' /\ enc'.pc = "done" /\ Reading'
<1>1. enc.pc = "done" /\ UNCHANGED <<plain, enc>>
  BY Zenon DEF Receive, Start
<1>2. EncInv' /\ enc'.pc = "done"
  BY <1>1 DEF EncInv, IsEnc, ChainedTo
<1>3. PICK o \in Seq(Nat), n \in Nat : o = enc.out /\ n = Len(plain)
  <2>1. enc.out \in Seq(Nat) /\ Len(plain) \in Nat
    BY DEF EncInv
  <2>. QED BY <2>1
<1>4. ASSUME NEW safe \in BOOLEAN, Start(enc.out, Len(plain), safe, TRUE) PROVE Reading'
  <2>1. \E S : \E q \in Nat : ReadInv(S, q)'
    BY <1>1, <1>4, StartRead
  <2>2. dec'.safe = safe /\ intact' = TRUE
    BY <1>4 DEF Start
  <2>3. safe = TRUE => BoundInv'
    BY <1>3, <1>4, StartBound
  <2>. QED BY <2>1, <2>2, <2>3, Zenon DEF Reading
<1>5. ASSUME NEW given \in Seq(Nat), NEW cap \in Nat, Start(given, cap, TRUE, FALSE) PROVE Reading'
  <2>1. BoundInv' /\ dec'.safe = TRUE
    BY <1>5, StartBound
  <2>2. intact' = FALSE
    BY <1>5 DEF Start
  <2>. QED BY <2>1, <2>2, Zenon DEF Reading
<1>6. ASSUME \E safe \in BOOLEAN : Start(enc.out, Len(plain), safe, TRUE)
      PROVE  Reading'
  <2>1. PICK safe \in BOOLEAN : Start(enc.out, Len(plain), safe, TRUE)
    BY <1>6, Zenon
  <2>. QED BY <1>4, <2>1, Zenon
<1>7. ASSUME plain # <<>> /\ Start(enc.out, Len(plain) - 1, TRUE, FALSE)
      PROVE  Reading'
  <2>1. Len(plain) - 1 \in Nat
    <3>1. plain \in Seq(Nat)
      BY DEF EncInv
    <3>2. Len(plain) # 0
      BY <1>7, <3>1, EmptySeq
    <3>. QED BY <1>3, <3>2
  <2>2. PICK cap \in Nat : cap = Len(plain) - 1
    BY <2>1
  <2>3. Start(o, cap, TRUE, FALSE)
    BY <1>3, <1>7, <2>2, Zenon
  <2>. QED BY <1>5, <2>3
<1>8. ASSUME \E k \in 0 .. Len(enc.out) - 1 : Start(SubSeq(enc.out, 1, k), Len(plain), TRUE, FALSE)
      PROVE  Reading'
  <2>1. PICK k \in 0 .. Len(o) - 1 : Start(SubSeq(o, 1, k), n, TRUE, FALSE)
    BY <1>3, <1>8
  <2>2. SubSeq(o, 1, k) \in Seq(Nat)
    <3>1. \A i \in 1 .. k : o[i] \in Nat
      <4>1. \A i \in 1 .. k : i \in 1 .. Len(o)
        OBVIOUS
      <4>. QED BY <4>1, ElementOfSeq
    <3>2. PICK u \in Int, v \in Int : u = 1 /\ v = k
      OBVIOUS
    <3>3. SubSeq(o, u, v) \in Seq(Nat)
      BY <3>1, <3>2, SubSeqProperties
    <3>. QED BY <3>2, <3>3
  <2>3. PICK given \in Seq(Nat) : given = SubSeq(o, 1, k)
    BY <2>2, Zenon
  <2>4. Start(given, n, TRUE, FALSE)
    BY <2>1, <2>3, Zenon
  <2>. QED BY <1>5, <2>4
<1>9. ASSUME \E i \in DOMAIN enc.out, b \in Damage : Start([enc.out EXCEPT ![i] = b], Len(plain), TRUE, FALSE)
      PROVE  Reading'
  <2>1. PICK i \in DOMAIN o, b \in Damage : Start([o EXCEPT ![i] = b], n, TRUE, FALSE)
    BY <1>3, <1>9
  <2>2. b \in Nat
    BY LzoAssumption
  <2>3. [o EXCEPT ![i] = b] \in Seq(Nat)
    BY <2>2
  <2>4. PICK given \in Seq(Nat) : given = [o EXCEPT ![i] = b]
    BY <2>3, Zenon
  <2>5. Start(given, n, TRUE, FALSE)
    BY <2>1, <2>4, Zenon
  <2>. QED BY <1>5, <2>5
<1>10. Reading'
  BY <1>6, <1>7, <1>8, <1>9, Zenon DEF Receive
<1>. QED BY <1>2, <1>10

\* Whether the decompressor checks is not changed while it reads.
LEMMA SafeStays ==
  ASSUME IsDec, Decompress
  PROVE  dec'.safe = dec.safe
<1>1. ASSUME NEW r, Stop(r) PROVE dec'.safe = dec.safe
  <2>1. dec' = [pc |-> r, ip |-> dec.ip, t |-> dec.t, out |-> dec.out, safe |-> dec.safe]
    BY <1>1 DEF Stop, IsDec
  <2>. QED BY <2>1
<1>2. ASSUME NEW pc, NEW ip, NEW t, NEW out, dec' = [dec EXCEPT !.pc = pc, !.ip = ip, !.t = t, !.out = out]
      PROVE dec'.safe = dec.safe
  <2>1. dec' = [pc |-> pc, ip |-> ip, t |-> t, out |-> out, safe |-> dec.safe]
    BY <1>2 DEF IsDec
  <2>. QED BY <2>1
<1>3. ASSUME NEW pc, NEW ip, NEW out, dec' = [dec EXCEPT !.pc = pc, !.ip = ip, !.out = out]
      PROVE dec'.safe = dec.safe
  <2>1. dec' = [pc |-> pc, ip |-> ip, t |-> dec.t, out |-> out, safe |-> dec.safe]
    BY <1>3 DEF IsDec
  <2>. QED BY <2>1
<1>4. ASSUME NEW pc, NEW ip, NEW t, dec' = [dec EXCEPT !.pc = pc, !.ip = ip, !.t = t]
      PROVE dec'.safe = dec.safe
  <2>1. dec' = [pc |-> pc, ip |-> ip, t |-> t, out |-> dec.out, safe |-> dec.safe]
    BY <1>4 DEF IsDec
  <2>. QED BY <2>1
<1>5. ASSUME NEW pc, NEW ip, dec' = [dec EXCEPT !.pc = pc, !.ip = ip] PROVE dec'.safe = dec.safe
  <2>1. dec' = [pc |-> pc, ip |-> ip, t |-> dec.t, out |-> dec.out, safe |-> dec.safe]
    BY <1>5 DEF IsDec
  <2>. QED BY <2>1
<1>6. ASSUME NEW t, NEW pc, dec' = [dec EXCEPT !.t = t, !.pc = pc] PROVE dec'.safe = dec.safe
  <2>1. dec' = [pc |-> pc, ip |-> dec.ip, t |-> t, out |-> dec.out, safe |-> dec.safe]
    BY <1>6 DEF IsDec
  <2>. QED BY <2>1
<1>7. ASSUME NEW ip, NEW n, NEW more, NEW t, NEW pc, CopyLiterals(ip, n, more, t, pc) PROVE dec'.safe = dec.safe
  <2>1. CASE ~NeedOp(n)
    BY <1>1, <1>7, <2>1, Zenon DEF CopyLiterals
  <2>2. CASE NeedOp(n) /\ ~NeedIp(ip, n + more)
    BY <1>1, <1>7, <2>2, Zenon DEF CopyLiterals
  <2>3. CASE NeedOp(n) /\ NeedIp(ip, n + more)
    <3>1. PICK out, to : out = dec.out \o [i \in 1 .. n |-> Byte(ip + i - 1)] /\ to = ip + n
      OBVIOUS
    <3>2. dec' = [dec EXCEPT !.pc = pc, !.ip = ip + n, !.t = t, !.out = @ \o [i \in 1 .. n |-> Byte(ip + i - 1)]]
      BY <1>7, <2>3, Zenon DEF CopyLiterals
    <3>3. dec' = [dec EXCEPT !.pc = pc, !.ip = to, !.t = t, !.out = out]
      BY <3>1, <3>2, Zenon
    <3>. QED BY <1>2, <3>3
  <2>. QED BY <2>1, <2>2, <2>3, Zenon
<1>8. ASSUME NEW off, NEW n, NEW ip, CopyMatch(off, n, ip) PROVE dec'.safe = dec.safe
  <2>1. CASE dec.safe /\ off \notin 1 .. Len(dec.out)
    BY <1>1, <1>8, <2>1, Zenon DEF CopyMatch
  <2>2. CASE ~(dec.safe /\ off \notin 1 .. Len(dec.out)) /\ ~NeedOp(n)
    BY <1>1, <1>8, <2>2, Zenon DEF CopyMatch
  <2>3. CASE ~(dec.safe /\ off \notin 1 .. Len(dec.out)) /\ NeedOp(n)
    BY <1>3, <1>8, <2>3, Zenon DEF CopyMatch
  <2>. QED BY <2>1, <2>2, <2>3, Zenon
<1>9. FirstCode => dec'.safe = dec.safe
  BY <1>1, <1>4, <1>7, Zenon DEF FirstCode, Stop
<1>10. ReadRun => dec'.safe = dec.safe
  BY <1>1, <1>4, <1>7, Zenon DEF ReadRun, Stop
<1>11. AfterRun => dec'.safe = dec.safe
  BY <1>4, <1>8, Zenon DEF AfterRun
<1>12. ReadMatch => dec'.safe = dec.safe
  BY <1>1, <1>5, <1>8, Zenon DEF ReadMatch
<1>13. MatchDone => dec'.safe = dec.safe
  BY <1>6, Zenon DEF MatchDone
<1>14. MatchNext => dec'.safe = dec.safe
  BY <1>7, Zenon DEF MatchNext
<1>15. NextCode => dec'.safe = dec.safe
  BY <1>4, Zenon DEF NextCode
<1>. QED BY <1>9, <1>10, <1>11, <1>12, <1>13, <1>14, <1>15, Zenon DEF Decompress, Matching, Following

LEMMA MatchesAre ==
  ASSUME NEW m \in Matches
  PROVE  m \in Nat \X Nat /\ m[1] > 2 /\ Reaches(m[2])
BY LzoAssumption DEF Reaches

LEMMA BytesAre ==
  ASSUME NEW x \in Plain
  PROVE  x \in Seq(Nat)
<1>1. x \in Seq(0 .. 255)
  BY LzoAssumption
<1>2. \A i \in 1 .. Len(x) : x[i] \in Nat
  <2>1. ASSUME NEW i \in 1 .. Len(x) PROVE x[i] \in 0 .. 255
    BY <1>1, ElementOfSeq
  <2>2. 0 .. 255 \subseteq Nat
    OBVIOUS
  <2>. QED BY <2>1, <2>2, Zenon
<1>3. x = [i \in 1 .. Len(x) |-> x[i]] /\ Len(x) \in Nat
  BY <1>1
<1>. QED BY <1>2, <1>3

\* The code of one match is read back.
LEMMA OneMatchRead ==
  ASSUME OneMatch
  PROVE  LET m == DecodeMatch(lin[1], 1) IN <<m.n, m.off>> \in Matches /\ m.ip = Len(lin)
                                            /\ lin = EncodeMatch(m.n, m.off)
<1>1. PICK m \in Matches : lin = EncodeMatch(m[1], m[2])
  BY Zenon DEF OneMatch
<1>2. m \in Nat \X Nat /\ m[1] > 2 /\ Reaches(m[2])
  BY MatchesAre
<1>3. PICK len \in Nat, off \in Nat : m = <<len, off>> /\ m[1] = len /\ m[2] = off
  BY <1>2, SMT
<1>4. len > 2 /\ Reaches(off) /\ lin = EncodeMatch(len, off) /\ <<len, off>> \in Matches
  BY <1>1, <1>2, <1>3, Zenon
<1>5. IsCode(lin)
  BY <1>4, CodeIs
<1>6. lin \in Seq(Nat) /\ Len(lin) \in Nat /\ Len(lin) > 1
  BY <1>5 DEF IsCode
<1>7. Coded(lin, 0, lin)
  <2>1. lin[Len(lin) - 1] \in Nat
    BY <1>6, ElementOfSeq
  <2>2. \A i \in 1 .. Len(lin) : 0 + i = i
    OBVIOUS
  <2>3. 0 + (Len(lin) - 1) = Len(lin) - 1 /\ 0 + Len(lin) <= Len(lin)
    BY <1>6
  <2>4. lin[Len(lin) - 1] \in lin[Len(lin) - 1] .. lin[Len(lin) - 1] + 3
    BY <2>1
  <2>. QED BY <2>2, <2>3, <2>4, Zenon DEF Coded
<1>8. 0 \in Nat /\ 0 + Len(lin) = Len(lin) /\ 0 + 1 = 1
  BY <1>6
<1>9. DecodeMatch(Byte(0), 0 + 1) = Decoded(off, len, 0 + Len(EncodeMatch(len, off)))
  BY <1>4, <1>6, <1>7, <1>8, CodeRead
<1>10. Byte(0) = lin[1]
  BY <1>6 DEF Byte
<1>11. DecodeMatch(lin[1], 1) = Decoded(off, len, Len(lin))
  BY <1>4, <1>8, <1>9, <1>10, Zenon
<1>12. /\ Decoded(off, len, Len(lin)).n = len /\ Decoded(off, len, Len(lin)).off = off
       /\ Decoded(off, len, Len(lin)).ip = Len(lin)
  BY DEF Decoded
<1>. QED BY <1>4, <1>11, <1>12, Zenon

LEMMA LzoInvInit ==
  ASSUME LzoInit
  PROVE  LzoInv
<1>1. Waiting
  BY Zenon DEF LzoInit, Waiting
<1>2. CASE plain \in Plain /\ enc = NewCompressor
  <2>1. plain \in Seq(Nat)
    BY <1>2, BytesAre, Zenon
  <2>. QED BY <1>1, <1>2, <2>1, NewWrites, Zenon DEF LzoInv
<1>3. CASE /\ enc = [NewCompressor EXCEPT !.pc = "none"]
           /\ \E m \in Matches : lin = EncodeMatch(m[1], m[2])
  <2>1. enc.pc = "none"
    BY <1>3 DEF NewCompressor
  <2>. QED BY <1>1, <1>3, <2>1, Zenon DEF LzoInv, OneMatch
<1>. QED BY <1>2, <1>3, Zenon DEF LzoInit

LEMMA LzoShows ==
  ASSUME LzoInv
  PROVE  LzoExact
<1>1. /\ Idle.pc = "idle"
  BY DEF Idle
<1>2. CASE OneMatch
  <2>1. dec.pc = "idle"
    BY <1>1, <1>2, Zenon DEF OneMatch, Waiting
  <2>. QED BY <1>2, <2>1, OneMatchRead DEF LzoExact, LzoRoundTrip, LzoInBounds
<1>3. CASE EncInv /\ Waiting
  <2>1. dec.pc = "idle" /\ enc.pc # "none"
    BY <1>1, <1>3 DEF EncInv, Waiting
  <2>. QED BY <2>1 DEF LzoExact, LzoRoundTrip, LzoInBounds
<1>4. CASE EncInv /\ Reading
  <2>1. enc.pc # "none"
    BY <1>4 DEF EncInv
  <2>2. ASSUME intact, dec.pc \notin {"idle", "start", "run", "first", "match", "done", "next", "code"}
        PROVE  dec.pc = "ok" /\ dec.out = plain
    <3>1. intact = TRUE
      BY <1>4, <2>2, Zenon DEF Reading
    <3>2. PICK S, q : ReadsAt(S, q)
      BY <1>4, <3>1, Zenon DEF Reading, ReadInv
    <3>. QED BY <2>2, <3>2 DEF ReadsAt
  <2>3. ASSUME dec.safe PROVE ~overread /\ Len(dec.out) <= lcap
    <3>1. BoundInv
      BY <1>4, <2>3, Zenon DEF Reading
    <3>. QED BY <3>1, Zenon DEF BoundInv
  <2>. QED BY <2>1, <2>2, <2>3, Zenon DEF LzoExact, LzoRoundTrip, LzoInBounds
<1>. QED BY <1>2, <1>3, <1>4, Zenon DEF LzoInv

LEMMA LzoInvStep ==
  ASSUME LzoInv, [LzoNext]_lzoVars
  PROVE  LzoInv'
<1>1. CASE UNCHANGED lzoVars
  <2>1. /\ plain' = plain /\ enc' = enc /\ lin' = lin /\ lcap' = lcap /\ dec' = dec /\ intact' = intact
        /\ overread' = overread
    BY <1>1, Zenon DEF lzoVars
  <2>2. EncInv => EncInv'
    BY <2>1 DEF EncInv, IsEnc, ChainedTo
  <2>3. BoundInv => BoundInv'
    BY <2>1 DEF BoundInv, IsDec, BytesAhead, Byte
  <2>4. ASSUME NEW S, NEW q, ReadInv(S, q) PROVE ReadInv(S, q)'
    BY <2>1, <2>4 DEF ReadInv, ReadsAt, IsDec, Byte
  <2>5. Reading => Reading'
    BY <2>1, <2>3, <2>4, Zenon DEF Reading
  <2>6. (Waiting => Waiting') /\ (OneMatch => OneMatch')
    BY <2>1, Zenon DEF Waiting, OneMatch
  <2>. QED BY <2>1, <2>2, <2>5, <2>6, Zenon DEF LzoInv
<1>2. CASE Compress
  <2>1. /\ lin' = lin /\ lcap' = lcap /\ dec' = dec /\ intact' = intact /\ overread' = overread
    BY <1>2, Zenon DEF Compress, BlockBegin, Literal, WriteMatch, BlockEnd, Finish
  <2>2. enc.pc = "block" \/ enc.pc = "scan"
    BY <1>2, Zenon DEF Compress, BlockBegin, Literal, WriteMatch, BlockEnd, Finish, Scan
  <2>3. enc.pc # "none" /\ enc.pc # "done"
    BY <2>2
  <2>4. EncInv /\ Waiting
    BY <2>3, Zenon DEF LzoInv, OneMatch
  <2>5. Waiting'
    BY <2>1, <2>4, Zenon DEF Waiting
  <2>6. EncInv'
    BY <1>2, <2>4, CompressWrites, Zenon
  <2>. QED BY <2>5, <2>6, Zenon DEF LzoInv
<1>3. CASE Receive
  <2>1. enc.pc = "done" /\ dec.pc = "idle"
    BY <1>3, Zenon DEF Receive
  <2>2. EncInv /\ (Waiting \/ Reading)
    <3>1. enc.pc # "none"
      BY <2>1
    <3>. QED BY <3>1, Zenon DEF LzoInv, OneMatch
  <2>3. ASSUME Reading, intact = TRUE PROVE FALSE
    <3>1. PICK S, q : ReadsAt(S, q)
      BY <2>3, Zenon DEF Reading, ReadInv
    <3>. QED BY <2>1, <3>1 DEF ReadsAt
  <2>4. overread = FALSE
    BY <2>2, <2>3, Zenon DEF Waiting, Reading, BoundInv
  <2>. QED BY <1>3, <2>2, <2>4, ReceiveReads, Zenon DEF LzoInv
<1>4. CASE Decompress
  <2>1. /\ plain' = plain /\ enc' = enc /\ lin' = lin /\ lcap' = lcap /\ intact' = intact
    BY <1>4, Zenon DEF Decompress, Matching, Following, FirstCode, ReadRun, AfterRun, ReadMatch, MatchDone,
                       MatchNext, NextCode
  <2>2. dec.pc \in {"start", "run", "first", "match", "done", "next", "code"}
    BY <1>4 DEF Decompress, Matching, Following, FirstCode, ReadRun, AfterRun, ReadMatch, MatchDone,
                MatchNext, NextCode
  <2>3. ~Waiting
    BY <2>2 DEF Waiting, Idle
  <2>4. EncInv /\ enc.pc = "done" /\ Reading
    BY <2>3, Zenon DEF LzoInv, OneMatch
  <2>5. EncInv' /\ enc'.pc = "done"
    BY <2>1, <2>4 DEF EncInv, IsEnc, ChainedTo
  <2>6. dec'.safe = dec.safe
    <3>1. IsDec
      BY <2>4, Zenon DEF Reading, ReadInv, BoundInv
    <3>. QED BY <1>4, <3>1, SafeStays
  <2>7. ASSUME intact = TRUE PROVE \E S : \E q \in Nat : ReadInv(S, q)'
    <3>1. PICK S, q : q \in Nat /\ ReadInv(S, q)
      BY <2>4, <2>7, Zenon DEF Reading
    <3>. QED BY <1>4, <3>1, DecompressReads
  <2>8. ASSUME dec.safe = TRUE PROVE BoundInv'
    <3>1. BoundInv
      BY <2>4, <2>8, Zenon DEF Reading
    <3>. QED BY <1>4, <3>1, DecompressBound
  <2>9. Reading'
    BY <2>1, <2>4, <2>6, <2>7, <2>8, Zenon DEF Reading
  <2>. QED BY <2>5, <2>9, Zenon DEF LzoInv
<1>. QED BY <1>1, <1>2, <1>3, <1>4, Zenon DEF LzoNext

(* Whatever was compressed comes out again, from either decompressor, into *)
(* a buffer of just its size; the code of every match of more than two     *)
(* bytes from at most 49151 bytes back is read as its length and offset;   *)
(* and the decompressor with checks, given any data that was cut off or    *)
(* has a byte changed, reads none behind it and writes none behind its     *)
(* buffer (minilzo.c:4925-5275 and 5935-6361).                             *)
THEOREM LzoStaysExact == LibrarySpec => []LzoExact
<1>1. LibraryInit => LzoInv
  BY LzoInvInit DEF LibraryInit
<1>2. [LibraryNext]_libraryVars => [LzoNext]_lzoVars
  BY Zenon DEF LibraryNext, Rest, libraryVars
<1>3. LzoInv /\ [LibraryNext]_libraryVars => LzoInv'
  BY <1>2, LzoInvStep
<1>. QED BY <1>1, <1>3, LzoShows, PTL DEF LibrarySpec
=============================================================================
