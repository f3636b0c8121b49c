-------------------------- MODULE ThreadedHandler --------------------------
(***************************************************************************)
(* threading::threaded_handler (tools/threaded_handler.hpp): messages are  *)
(* pushed into a ring buffer by any thread and handled by one worker       *)
(* thread, which the first push starts and stop joins.                     *)
(*                                                                         *)
(* The ring buffer is the FIFO of MsgQueue, which RingBuffer implements,   *)
(* with the write lock a waiting allocate keeps; the event is the one of   *)
(* Event, which WaitObject implements.  _push takes _state_block to look   *)
(* at the thread, stop does not.                                           *)
(***************************************************************************)
EXTENDS Integers, Sequences, FiniteSets

CONSTANTS
  Producers,     \* threads that push
  Capacity,      \* messages that fit into _rb
  MaxMsgs,       \* bound: pushes in a behaviour
  MaxThreads,    \* bound: workers started in a behaviour
  NoOne          \* a free spin lock

ASSUME HandlerConstants ==
  /\ Capacity \in Nat \ {0}
  /\ MaxMsgs \in Nat /\ MaxThreads \in Nat
  /\ NoOne \notin Producers

VARIABLES
  queue, held, out,   \* _rb: see MsgQueue
  rlock,              \* _rb's _write_blocker
  f,                  \* _f holds a function
  s,                  \* _s: the number of the thread it owns, 0 for nullptr
  state_block,        \* _state_block
  work_status,        \* _work_status
  event,              \* _have_event is signalled
  ppc, pmsg, ticket,  \* _push of each producer: place, message, its number
                      \* among the reserved blocks
  wpc,                \* proc of each worker thread
  spc,                \* stop
  issued, reserved,   \* pushes begun; history: messages in reserve order
  called,             \* history: messages _f was called with
  overlapped          \* history: a stop and a push have overlapped

rbVars == <<queue, held, out>>
pushVars == <<rlock, state_block, ppc, pmsg, ticket, issued, reserved>>
histVars == <<called, overlapped>>
vars == <<rbVars, pushVars, f, s, work_status, event, wpc, spc, histVars>>

Msg == 1 .. MaxMsgs
Threads == 1 .. MaxThreads
Status == {"exit", "work"}        \* k_exit, k_work

Rb == INSTANCE MsgQueue WITH Msgs <- Msg

(* The constructors leave _work_status uninitialized, with or without a    *)
(* callback.                                                               *)
Init ==
  /\ Rb!Init
  /\ rlock = NoOne
  /\ f \in BOOLEAN
  /\ s = 0
  /\ state_block = NoOne
  /\ work_status \in Status
  /\ event = FALSE
  /\ ppc = [p \in Producers |-> "idle"]
  /\ pmsg = [p \in Producers |-> 0]
  /\ ticket = [p \in Producers |-> 0]
  /\ wpc = [t \in Threads |-> "unborn"]
  /\ spc = "idle"
  /\ issued = 0 /\ reserved = <<>>
  /\ called = <<>>
  /\ overlapped = FALSE

-----------------------------------------------------------------------------
(* _push, lines 64-88.  kind is "wait" for push, "nowait" for push_no_wait.*)

GoTo(p, place) == ppc' = [ppc EXCEPT ![p] = place]

(* Lines 66-67: under _state_block, is there a thread?                     *)
PushBegin(p) ==
  /\ ppc[p] = "idle"
  /\ issued < MaxMsgs
  /\ state_block = NoOne
  /\ issued' = issued + 1
  /\ pmsg' = [pmsg EXCEPT ![p] = issued + 1]
  /\ IF s # 0
     THEN GoTo(p, "lock") /\ UNCHANGED state_block
     ELSE GoTo(p, "status") /\ state_block' = p
  /\ overlapped' = (overlapped \/ spc # "idle")
  /\ UNCHANGED <<rbVars, rlock, ticket, reserved, f, s, work_status, event, wpc,
                 spc, called>>

(* Line 68.                                                                *)
StartStatus_kept == work_status
StartStatus == "work"

PushStatus(p) ==
  /\ ppc[p] = "status"
  /\ work_status' = StartStatus
  /\ GoTo(p, "spawn")
  /\ UNCHANGED <<rbVars, rlock, state_block, pmsg, ticket, issued, reserved, f,
                 s, event, wpc, spc, histVars>>

(* Lines 69-71: start the worker and leave the lock.                       *)
PushSpawn(p) ==
  /\ ppc[p] = "spawn"
  /\ \E t \in Threads :
       /\ wpc[t] = "unborn"
       /\ \A u \in 1 .. t - 1 : wpc[u] # "unborn"
       /\ s' = t
       /\ wpc' = [wpc EXCEPT ![t] = "top"]
  /\ state_block' = NoOne
  /\ GoTo(p, "lock")
  /\ UNCHANGED <<rbVars, rlock, pmsg, ticket, issued, reserved, f, work_status,
                 event, spc, histVars>>

(* ring_buffer::allocate takes the write lock.                             *)
PushLock(p) ==
  /\ ppc[p] = "lock"
  /\ rlock = NoOne
  /\ rlock' = p
  /\ GoTo(p, "reserve")
  /\ UNCHANGED <<rbVars, state_block, pmsg, ticket, issued, reserved, f, s,
                 work_status, event, wpc, spc, histVars>>

Room == Len(queue) < Capacity

(* Line 76: there is room.  push keeps the write lock until there is.      *)
PushReserve(p) ==
  /\ ppc[p] = "reserve"
  /\ Room
  /\ Rb!Reserve
  /\ reserved' = Append(reserved, pmsg[p])
  /\ ticket' = [ticket EXCEPT ![p] = Len(reserved) + 1]
  /\ rlock' = NoOne
  /\ GoTo(p, "write")
  /\ UNCHANGED <<state_block, pmsg, issued, f, s, work_status, event, wpc, spc,
                 histVars>>

(* push_no_wait gives up on a full buffer and returns false.               *)
PushFull(p) ==
  /\ ppc[p] = "reserve"
  /\ ~Room
  /\ rlock' = NoOne
  /\ pmsg' = [pmsg EXCEPT ![p] = 0]
  /\ GoTo(p, "idle")
  /\ UNCHANGED <<rbVars, state_block, ticket, issued, reserved, f, s,
                 work_status, event, wpc, spc, histVars>>

(* Line 79: the message is constructed in its block.                       *)
Block(p) == ticket[p] - Len(out)
PushWrite(p) ==
  /\ ppc[p] = "write"
  /\ Rb!Write(Block(p), pmsg[p])
  /\ GoTo(p, "commit")
  /\ UNCHANGED <<rlock, state_block, pmsg, ticket, issued, reserved, f, s,
                 work_status, event, wpc, spc, histVars>>

(* Line 81: buffer_auto_commit commits it.                                 *)
PushCommit(p) ==
  /\ ppc[p] = "commit"
  /\ Rb!Resolve(Block(p), "commited")
  /\ GoTo(p, "signal")
  /\ UNCHANGED <<rlock, state_block, pmsg, ticket, issued, reserved, f, s,
                 work_status, event, wpc, spc, histVars>>

(* Lines 83-87.                                                            *)
PushSignal(p) ==
  /\ ppc[p] = "signal"
  /\ event' = TRUE
  /\ pmsg' = [pmsg EXCEPT ![p] = 0]
  /\ ticket' = [ticket EXCEPT ![p] = 0]
  /\ GoTo(p, "idle")
  /\ UNCHANGED <<rbVars, rlock, state_block, issued, reserved, f, s,
                 work_status, wpc, spc, histVars>>

(* setCallbackFunc, lines 111-114.                                         *)
SetCallback ==
  /\ state_block = NoOne
  /\ f' \in BOOLEAN
  /\ UNCHANGED <<rbVars, pushVars, s, work_status, event, wpc, spc, histVars>>

-----------------------------------------------------------------------------
(* proc, lines 34-62                                                       *)

Goes(t, place) == wpc' = [wpc EXCEPT ![t] = place]

(* Line 44.                                                                *)
WorkTop(t) ==
  /\ wpc[t] = "top"
  /\ Goes(t, IF work_status = "exit" THEN "exit" ELSE "wait")
  /\ UNCHANGED <<rbVars, pushVars, f, s, work_status, event, spc, histVars>>

(* Line 45: the event, or the timeout; the infinite one is over at once.   *)
WorkWait(t) ==
  /\ wpc[t] = "wait"
  /\ \/ event /\ event' = FALSE
     \/ ~event /\ UNCHANGED event
  /\ Goes(t, "peek")
  /\ UNCHANGED <<rbVars, pushVars, f, s, work_status, spc, histVars>>

(* Line 49: peek finds the first committed message, or waits for the busy  *)
(* one before it, or there is none.                                        *)
WorkPeek(t) ==
  /\ wpc[t] = "peek"
  /\ \E i \in DOMAIN queue : Rb!Peek(i)
  /\ Goes(t, "call")
  /\ UNCHANGED <<pushVars, f, s, work_status, event, spc, histVars>>

WorkNothing(t) ==
  /\ wpc[t] = "peek"
  /\ queue = <<>>
  /\ Goes(t, "top")
  /\ UNCHANGED <<rbVars, pushVars, f, s, work_status, event, spc, histVars>>

(* Lines 51-56: the callback, if there is one; what it throws is dropped.  *)
WorkCall(t) ==
  /\ wpc[t] = "call"
  /\ called' = IF f THEN Append(called, held) ELSE called
  /\ Goes(t, "free")
  /\ UNCHANGED <<rbVars, pushVars, f, s, work_status, event, spc, overlapped>>

(* Lines 37-42: destroy the message and free its block.                    *)
WorkFree(t) ==
  /\ wpc[t] = "free"
  /\ \E i \in DOMAIN queue : Rb!Free(i)
  /\ Goes(t, "peek")
  /\ UNCHANGED <<pushVars, f, s, work_status, event, spc, histVars>>

-----------------------------------------------------------------------------
(* stop, lines 101-109, called by one thread at a time.                    *)

StopStatus == "exit"

StopBegin ==
  /\ spc = "idle"
  /\ work_status' = StopStatus
  /\ spc' = "signal"
  /\ overlapped' = (overlapped \/ \E p \in Producers : ppc[p] # "idle")
  /\ UNCHANGED <<rbVars, pushVars, f, s, event, wpc, called>>

StopSignal ==
  /\ spc = "signal"
  /\ event' = TRUE
  /\ spc' = "check"
  /\ UNCHANGED <<rbVars, pushVars, f, s, work_status, wpc, histVars>>

StopCheck ==
  /\ spc = "check"
  /\ spc' = IF s # 0 THEN "join" ELSE "idle"
  /\ UNCHANGED <<rbVars, pushVars, f, s, work_status, event, wpc, histVars>>

(* join returns when the thread has exited.                                *)
Joinable_always(t) == TRUE
Joinable(t) == wpc[t] = "exit"

StopJoin ==
  /\ spc = "join"
  /\ Joinable(s)
  /\ spc' = "reset"
  /\ UNCHANGED <<rbVars, pushVars, f, s, work_status, event, wpc, histVars>>

StopReset ==
  /\ spc = "reset"
  /\ s' = 0
  /\ spc' = "idle"
  /\ UNCHANGED <<rbVars, pushVars, f, work_status, event, wpc, histVars>>

-----------------------------------------------------------------------------

PushStep(p) ==
  \/ PushStatus(p) \/ PushSpawn(p) \/ PushLock(p) \/ PushReserve(p)
  \/ PushWrite(p) \/ PushCommit(p) \/ PushSignal(p)

Work(t) ==
  \/ WorkTop(t) \/ WorkWait(t) \/ WorkPeek(t) \/ WorkNothing(t)
  \/ WorkCall(t) \/ WorkFree(t)

StopStep == StopSignal \/ StopCheck \/ StopJoin \/ StopReset

Next ==
  \/ \E p \in Producers : PushBegin(p) \/ PushStep(p) \/ PushFull(p)
  \/ \E t \in Threads : Work(t)
  \/ SetCallback
  \/ StopBegin \/ StopStep

Spec == Init /\ [][Next]_vars

-----------------------------------------------------------------------------
(* Properties                                                              *)

Handled(m) == \E i \in DOMAIN out : out[i] = m
Alive(t) == wpc[t] \notin {"unborn", "exit"}

(* Types; _rb never holds more than fits into it.                          *)
TypeOK ==
  /\ queue \in Seq(Rb!Entry) /\ Len(queue) <= Capacity
  /\ held \in Msg \cup {0} /\ out \in Seq(Msg)
  /\ rlock \in Producers \cup {NoOne}
  /\ f \in BOOLEAN
  /\ s \in Threads \cup {0}
  /\ state_block \in Producers \cup {NoOne}
  /\ work_status \in Status
  /\ event \in BOOLEAN
  /\ ppc \in [Producers -> {"idle", "status", "spawn", "lock", "reserve",
                            "write", "commit", "signal"}]
  /\ pmsg \in [Producers -> Msg \cup {0}]
  /\ ticket \in [Producers -> 0 .. MaxMsgs]
  /\ wpc \in [Threads ->
               {"unborn", "top", "wait", "peek", "call", "free", "exit"}]
  /\ spc \in {"idle", "signal", "check", "join", "reset"}
  /\ issued \in 0 .. MaxMsgs
  /\ reserved \in Seq(Msg)
  /\ called \in Seq(Msg)
  /\ overlapped \in BOOLEAN

(* The ring buffer allows one consumer: however push and stop interleave,  *)
(* a new worker starts only when the previous one has exited (line 69).    *)
SingleConsumer ==
  \A t, u \in Threads : Alive(t) /\ Alive(u) => t = u

(* The inductive invariant behind it: _s owns the only living thread, stop *)
(* joins the thread _s owns and resets _s only once it has exited, and a   *)
(* producer that is about to start a thread holds _state_block and has     *)
(* seen no other.                                                          *)
ThreadInv ==
  /\ \A t \in Threads : Alive(t) => s = t
  /\ spc \in {"join", "reset"} => s # 0
  /\ spc = "reset" => ~Alive(s)
  /\ \A p \in Producers :
       ppc[p] \in {"status", "spawn"} => state_block = p /\ s = 0

(* Messages are handled once each, in the order their blocks were          *)
(* reserved, also by the next worker when stop left some in the buffer,    *)
(* and _f sees them in that order.                                         *)
HandledInOrder ==
  /\ Len(out) <= Len(reserved)
  /\ \A i \in DOMAIN out : out[i] = reserved[i]
  /\ held # 0 => Len(out) < Len(reserved) /\ reserved[Len(out) + 1] = held
  /\ \A i \in DOMAIN called :
       /\ Handled(called[i]) \/ called[i] = held
       /\ i > 1 => \E j, k \in DOMAIN reserved :
            j < k /\ reserved[j] = called[i - 1] /\ reserved[k] = called[i]

(* The ring buffer checks nothing of what its callers do: each call comes  *)
(* when the buffer promises something for it (MsgQueue).  A producer       *)
(* writes and commits a block that is still in the buffer, busy and        *)
(* written by nobody else, whatever was freed before it meanwhile; a       *)
(* worker peeks while no message is out, and the message it calls _f with  *)
(* and frees is the first committed one (threaded_handler.hpp:37, 49, 79). *)
BufferUsed ==
  /\ \A p \in Producers : ppc[p] \in {"write", "commit"} =>
       /\ Block(p) \in DOMAIN queue
       /\ queue[Block(p)] = [st |-> "busy",
                             msg |-> IF ppc[p] = "write" THEN 0 ELSE pmsg[p]]
  /\ \A t \in Threads :
       /\ wpc[t] = "peek" => held = 0
       /\ wpc[t] \in {"call", "free"} =>
            \E i \in DOMAIN queue : Rb!IsFirst(i) /\ queue[i].msg = held

(* A message is only lost to a stop: once pushed it is handled, unless     *)
(* stop is called.                                                         *)
PushedHandled ==
  \A m \in Msg :
    (\E p \in Producers : ppc[p] = "signal" /\ pmsg[p] = m)
      ~> (Handled(m) \/ spc # "idle" \/ overlapped)

(* push returns, on a full buffer too, when it does not race with stop.    *)
PushReturns ==
  \A p \in Producers :
    ppc[p] = "reserve" ~> (ppc[p] # "reserve" \/ overlapped)

(* stop returns with the thread joined, when it does not race with push.   *)
StopReturns == spc # "idle" ~> ((spc = "idle" /\ s = 0) \/ overlapped)

=============================================================================
