---------------------------- MODULE ObjectsCache ----------------------------
(***************************************************************************)
(* objects_cache of tools/cache.hpp: a stack of free objects behind a spin *)
(* lock, given out raw or behind a shared_ptr whose deleter brings them    *)
(* back.  Each call holds the lock once, so a call is one step.            *)
(***************************************************************************)
EXTENDS Integers, Sequences, Functions

CONSTANTS Objects, MaxCached   \* objects there is memory for, kMaxObjectsCount

ASSUME CacheAssumption == MaxCached \in Nat

VARIABLES
  cache,      \* _cache, front first
  place,      \* object -> "none", "cached", "raw", "shared", "freed"
  cacheLives, \* the destructor has not run
  intoDead    \* a deleter used the destroyed cache

cacheVars == <<cache, place, cacheLives, intoDead>>

CacheInit ==
  /\ cache = <<>> /\ place = [o \in Objects |-> "none"]
  /\ cacheLives = TRUE /\ intoDead = FALSE

\* _get_raw_ptr: the object put in last, or a new one; allocate may fail, and
\* the pointer is null then, raw or shared.
GetRawPtr(how) ==
  /\ cacheLives
  /\ IF cache # <<>>
       THEN /\ place' = [place EXCEPT ![Head(cache)] = how]
            /\ cache' = Tail(cache)
       ELSE \E o \in Objects : /\ place[o] = "none"
                               /\ place' = [place EXCEPT ![o] = how]
                               /\ UNCHANGED cache
  /\ UNCHANGED <<cacheLives, intoDead>>

\* As a bug: an object too many is kept all the same.
Full_never == FALSE
Full == Len(cache) >= MaxCached

Back(o) ==
  IF Full
    THEN place' = [place EXCEPT ![o] = "freed"] /\ UNCHANGED cache
    ELSE place' = [place EXCEPT ![o] = "cached"] /\ cache' = <<o>> \o cache

SetCachedObject(o) ==
  /\ cacheLives /\ place[o] = "raw" /\ Back(o)
  /\ UNCHANGED <<cacheLives, intoDead>>

\* The last shared_ptr goes, perhaps after the cache.
Deleter(o) ==
  /\ place[o] = "shared"
  /\ IF cacheLives THEN Back(o) /\ UNCHANGED intoDead
     ELSE /\ intoDead' = TRUE
          /\ place' = [place EXCEPT ![o] = "freed"] /\ UNCHANGED cache
  /\ UNCHANGED cacheLives

DestroyCache ==
  /\ cacheLives /\ cacheLives' = FALSE
  /\ place' = [o \in Objects |-> IF place[o] = "cached" THEN "freed" ELSE place[o]]
  /\ cache' = <<>>
  /\ UNCHANGED intoDead

CacheNext ==
  \/ GetRawPtr("raw") \/ GetRawPtr("shared") \/ DestroyCache
  \/ \E o \in Objects : SetCachedObject(o) \/ Deleter(o)

(* An object has one owner at a time: nobody is given an object that       *)
(* somebody else still has, or one that was freed; the cache holds each    *)
(* of its objects once and never more than it may.  A deleter runs into a  *)
(* destroyed cache only for a shared_ptr that outlived it (cache.hpp:67).  *)
OneOwner ==
  /\ Len(cache) <= MaxCached /\ IsInjective(cache)
  /\ \A o \in Objects : place[o] = "cached" <=> \E i \in DOMAIN cache : cache[i] = o
  /\ intoDead => ~cacheLives
=============================================================================
