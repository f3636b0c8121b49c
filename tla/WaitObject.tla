----------------------------- MODULE WaitObject -----------------------------
(***************************************************************************)
(* threading::wait_for_single_object (tools/wait_for_single_object.hpp): a *)
(* condition variable, its mutex and an atomic_flag that is clear while    *)
(* the object is signalled.  wait tests the flag under the mutex; set      *)
(* clears it and notifies without the mutex, so that a notification may    *)
(* fall between a waiter's test and its blocking.                          *)
(*                                                                         *)
(* The standard library's wait_for(lock, duration, predicate) is modelled  *)
(* from its contract: test; block until notified, woken for no reason or   *)
(* late; test again; when late, return what the last test says.            *)
(***************************************************************************)
EXTENDS Integers, FiniteSets

CONSTANTS
  Waiters,      \* threads that call wait, one after the other
  Setters,      \* threads that call set
  Bits,         \* width of timestamp (64 in the code)
  Timeouts,     \* wait_timeout_ms values that callers pass
  MaxSets,      \* bound: calls of set in a behaviour
  NoWaiter         \* the mutex is free

ASSUME WaitConstants ==
  /\ Bits \in Nat \ {0}
  /\ Timeouts \subseteq 0 .. 2 ^ Bits - 1
  /\ MaxSets \in Nat
  /\ NoWaiter \notin Waiters

VARIABLES
  flag,         \* _wait_lock: TRUE when set, i.e. not signalled
  mutex,        \* _wait_m: its holder or NoWaiter
  waiterPc,          \* where each waiter is in wait
  timeout,      \* wait_timeout_ms of each waiter's call
  late,         \* the deadline of the call has passed
  setterPc,          \* where each setter is in set
  sets          \* times the flag was cleared

waitVars == <<flag, mutex, waiterPc, timeout, late, setterPc, sets>>

WaitInit ==
  /\ flag = TRUE
  /\ mutex = NoWaiter
  /\ waiterPc = [w \in Waiters |-> "out"]
  /\ timeout = [w \in Waiters |-> 0]
  /\ late = [w \in Waiters |-> FALSE]
  /\ setterPc = [s \in Setters |-> "out"]
  /\ sets = 0

-----------------------------------------------------------------------------
(* wait, lines 18-23                                                       *)

(* std::chrono::milliseconds counts in a signed integer of the same width: *)
(* k_timeout_infinite, all ones, becomes -1 ms.                            *)
Milliseconds(t) == IF t >= 2 ^ (Bits - 1) THEN t - 2 ^ Bits ELSE t

(* The caller asks for the mutex; a duration that is not positive is over  *)
(* at once.                                                                *)
Enter(w, t) ==
  /\ waiterPc[w] = "out"
  /\ waiterPc' = [waiterPc EXCEPT ![w] = "lock"]
  /\ timeout' = [timeout EXCEPT ![w] = t]
  /\ late' = [late EXCEPT ![w] = Milliseconds(t) <= 0]
  /\ UNCHANGED <<flag, mutex, setterPc, sets>>

(* The mutex is taken, on entry, after a wake-up, or after the timeout     *)
(* ("relock").                                                             *)
Lock(w) ==
  /\ waiterPc[w] \in {"lock", "relock"}
  /\ mutex = NoWaiter
  /\ mutex' = w
  /\ waiterPc' = [waiterPc EXCEPT ![w] = IF @ = "lock" THEN "test" ELSE "last"]
  /\ UNCHANGED <<flag, timeout, late, setterPc, sets>>

(* wait returns and unlocks.                                               *)
Return(w) ==
  /\ mutex' = NoWaiter
  /\ waiterPc' = [waiterPc EXCEPT ![w] = "out"]

(* What test_and_set leaves behind.                                        *)
FlagAfterTest_kept == FALSE
FlagAfterTest == TRUE

(* The predicate found the flag clear: wait returns true.                  *)
TestTrue(w) ==
  /\ waiterPc[w] \in {"test", "last"}
  /\ ~flag
  /\ flag' = FlagAfterTest
  /\ Return(w)
  /\ UNCHANGED <<timeout, late, setterPc, sets>>

(* It was set: the caller will block.                                      *)
TestFalse(w) ==
  /\ waiterPc[w] = "test"
  /\ flag
  /\ waiterPc' = [waiterPc EXCEPT ![w] = "tested"]
  /\ UNCHANGED <<flag, mutex, timeout, late, setterPc, sets>>

(* It was set after the timeout: wait returns false.                       *)
LastFalse(w) ==
  /\ waiterPc[w] = "last"
  /\ flag
  /\ Return(w)
  /\ UNCHANGED <<flag, timeout, late, setterPc, sets>>

(* The condition variable releases the mutex and blocks in one step.       *)
BlockWaiter(w) ==
  /\ waiterPc[w] = "tested"
  /\ mutex' = NoWaiter
  /\ waiterPc' = [waiterPc EXCEPT ![w] = "blocked"]
  /\ UNCHANGED <<flag, timeout, late, setterPc, sets>>

(* The milliseconds of a positive duration pass, wherever the call is.     *)
Expire(w) ==
  /\ waiterPc[w] # "out"
  /\ ~late[w]
  /\ late' = [late EXCEPT ![w] = TRUE]
  /\ UNCHANGED <<flag, mutex, waiterPc, timeout, setterPc, sets>>

(* The blocking ends for no reason, or because it is late.                 *)
WakeSpuriously(w) ==
  /\ waiterPc[w] = "blocked"
  /\ waiterPc' = [waiterPc EXCEPT ![w] = "lock"]
  /\ UNCHANGED <<flag, mutex, timeout, late, setterPc, sets>>

WakeLate(w) ==
  /\ waiterPc[w] = "blocked"
  /\ late[w]
  /\ waiterPc' = [waiterPc EXCEPT ![w] = "relock"]
  /\ UNCHANGED <<flag, mutex, timeout, late, setterPc, sets>>

-----------------------------------------------------------------------------
(* set, lines 25-28                                                        *)

Clear(s) ==
  /\ setterPc[s] = "out"
  /\ sets < MaxSets
  /\ flag' = FALSE
  /\ sets' = sets + 1
  /\ setterPc' = [setterPc EXCEPT ![s] = "notify"]
  /\ UNCHANGED <<mutex, waiterPc, timeout, late>>

(* notify_one wakes a waiter that is blocked at this moment, if any.       *)
NotifyOne(s) ==
  /\ setterPc[s] = "notify"
  /\ setterPc' = [setterPc EXCEPT ![s] = "out"]
  /\ \/ \E w \in Waiters :
          /\ waiterPc[w] = "blocked"
          /\ waiterPc' = [waiterPc EXCEPT ![w] = "lock"]
     \/ /\ \A w \in Waiters : waiterPc[w] # "blocked"
        /\ UNCHANGED waiterPc
  /\ UNCHANGED <<flag, mutex, timeout, late, sets>>

-----------------------------------------------------------------------------

WaitStep(w) ==
  TestTrue(w) \/ TestFalse(w) \/ LastFalse(w) \/ BlockWaiter(w) \/ WakeLate(w)

WaitNext ==
  \/ \E w \in Waiters :
       \/ \E t \in Timeouts : Enter(w, t)
       \/ Lock(w) \/ WaitStep(w) \/ Expire(w) \/ WakeSpuriously(w)
  \/ \E s \in Setters : Clear(s) \/ NotifyOne(s)

WaitSpec == WaitInit /\ [][WaitNext]_waitVars

-----------------------------------------------------------------------------
(* Properties                                                              *)

InWait(w) == waiterPc[w] # "out"

(* Types; the mutex is held by the waiter that is at its test and by no    *)
(* other, so a blocked waiter never keeps it.                              *)
WaitTypeOK ==
  /\ flag \in BOOLEAN
  /\ mutex \in Waiters \cup {NoWaiter}
  /\ waiterPc \in [Waiters ->
               {"out", "lock", "test", "tested", "blocked", "relock", "last"}]
  /\ \A w \in Waiters : mutex = w <=> waiterPc[w] \in {"test", "tested", "last"}
  /\ timeout \in [Waiters -> Timeouts \cup {0}]
  /\ late \in [Waiters -> BOOLEAN]
  /\ setterPc \in [Setters -> {"out", "notify"}]
  /\ sets \in 0 .. MaxSets

(* wait always comes back, with any timeout.                               *)
WaitReturns == \A w \in Waiters : InWait(w) ~> ~InWait(w)

(* A signal is taken in the end, although notify_one may find nobody       *)
(* blocked while a waiter is between its test and its blocking.            *)
SignalTaken == ~flag ~> flag

AutoReset == INSTANCE Event WITH
  signalled <- ~flag,
  waiting <- [w \in Waiters |-> InWait(w)]

(* What the users of the object rely on.                                   *)
ImplementsEvent == AutoReset!Spec

=============================================================================
