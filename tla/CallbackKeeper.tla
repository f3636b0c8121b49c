--------------------------- MODULE CallbackKeeper ---------------------------
(***************************************************************************)
(* callback_keeper of tools/callback_keeper.hpp: callbacks bound to keys,  *)
(* taken out under a spin lock and called without it, except by the        *)
(* destructor, which calls what is left under the lock.                    *)
(***************************************************************************)
EXTENDS Integers, FiniteSets, Sequences

CONSTANTS KeeperThreads, KeeperKeys, MaxBinds, NoCb

ASSUME KeeperAssumption == MaxBinds \in Nat /\ NoCb \notin 1 .. MaxBinds

Cbs == 1 .. MaxBinds

VARIABLES
  bound,      \* _callbacks: key -> callback or NoCb
  kpc,        \* thread -> "idle", or how it will call `taken`
  taken,      \* thread -> the callback it has swapped out
  calls,      \* callback -> the calls it got: "data", "null"
  boundTo,    \* callback -> the key it was bound to
  keeper,     \* "alive", "dying", "gone", or "stuck": waiting for its own lock
  binds

keeperVars == <<bound, kpc, taken, calls, boundTo, keeper, binds>>

KeeperInit ==
  /\ bound = [k \in KeeperKeys |-> NoCb]
  /\ kpc = [t \in KeeperThreads |-> "idle"] /\ taken = [t \in KeeperThreads |-> NoCb]
  /\ calls = [c \in Cbs |-> <<>>] /\ boundTo = [c \in Cbs |-> NoCb]
  /\ keeper = "alive" /\ binds = 0

\* As a bug: the callback is copied, not swapped, out of the map.
Left_bound(k) == bound
Left(k) == [bound EXCEPT ![k] = NoCb]

Bind(t, k) ==
  /\ keeper = "alive" /\ kpc[t] = "idle" /\ binds < MaxBinds
  /\ binds' = binds + 1
  /\ taken' = [taken EXCEPT ![t] = bound[k]]
  /\ bound' = [bound EXCEPT ![k] = binds + 1]
  /\ boundTo' = [boundTo EXCEPT ![binds + 1] = k]
  /\ kpc' = [kpc EXCEPT ![t] = "null"]
  /\ UNCHANGED <<calls, keeper>>

Process(t, k) ==
  /\ keeper = "alive" /\ kpc[t] = "idle"
  /\ taken' = [taken EXCEPT ![t] = bound[k]]
  /\ bound' = Left(k)
  /\ kpc' = [kpc EXCEPT ![t] = "data"]
  /\ UNCHANGED <<calls, boundTo, keeper, binds>>

\* Behind the lock: nothing was taken, or the callback is called.
Invoke(t) ==
  /\ kpc[t] # "idle"
  /\ calls' = IF taken[t] = NoCb THEN calls
              ELSE [calls EXCEPT ![taken[t]] = Append(@, <<kpc[t], boundTo[taken[t]]>>)]
  /\ taken' = [taken EXCEPT ![t] = NoCb]
  /\ kpc' = [kpc EXCEPT ![t] = "idle"]
  /\ UNCHANGED <<bound, boundTo, keeper, binds>>

\* The owner destroys the keeper when no thread uses it any more; calls that
\* have left the lock may still be under way.
DestroyBegin ==
  /\ keeper = "alive" /\ keeper' = "dying"
  /\ UNCHANGED <<bound, kpc, taken, calls, boundTo, binds>>

\* One callback of the destructor's loop.  It may bind again, and then waits
\* for the lock its own thread holds.
DestroyCall(k) ==
  /\ keeper = "dying" /\ bound[k] # NoCb
  /\ calls' = [calls EXCEPT ![bound[k]] = Append(@, <<"null", k>>)]
  /\ bound' = Left(k)
  /\ UNCHANGED <<kpc, taken, boundTo, keeper, binds>>

DestroyRebind(k) ==
  /\ keeper = "dying" /\ bound[k] # NoCb /\ keeper' = "stuck"
  /\ UNCHANGED <<bound, kpc, taken, calls, boundTo, binds>>

DestroyEnd ==
  /\ keeper = "dying" /\ \A k \in KeeperKeys : bound[k] = NoCb
  /\ keeper' = "gone"
  /\ UNCHANGED <<bound, kpc, taken, calls, boundTo, binds>>

KeeperNext ==
  \/ \E t \in KeeperThreads : Invoke(t) \/ \E k \in KeeperKeys : Bind(t, k) \/ Process(t, k)
  \/ DestroyBegin \/ DestroyEnd \/ \E k \in KeeperKeys : DestroyCall(k) \/ DestroyRebind(k)

(* A callback is called at most once, for its own key; it is in exactly    *)
(* one place, in the map, taken by one thread, or called, so none is lost  *)
(* between the map and the call that is made without the lock; and when    *)
(* the destructor has returned and no call is under way each was called.   *)
CalledOnce ==
  \A c \in 1 .. binds :
    /\ \A i \in DOMAIN calls[c] : calls[c][i][2] = boundTo[c]
    /\ Len(calls[c]) + Cardinality({k \in KeeperKeys : bound[k] = c})
         + Cardinality({t \in KeeperThreads : taken[t] = c}) = 1
    /\ keeper = "gone" /\ (\A t \in KeeperThreads : kpc[t] = "idle") => Len(calls[c]) = 1
=============================================================================
