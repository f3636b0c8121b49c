------------------------------ MODULE MCThreads ------------------------------
(***************************************************************************)
(* The event, the handler thread and the Linux server in one model: they   *)
(* do not interact, so a behaviour is one of a single part, its subject,   *)
(* and the others stay as they were made.                                  *)
(***************************************************************************)
EXTENDS WaitObject, ThreadedHandler, ServerLinux

VARIABLE subject

ThreadsInit ==
  /\ subject \in {"event", "handler", "linux"}
  /\ WaitInit /\ Init /\ LinuxInit
  /\ subject # "handler" => ~f /\ work_status = "exit"

ThreadsNext ==
  /\ UNCHANGED subject
  /\ \/ subject = "event" /\ WaitNext /\ UNCHANGED <<vars, linuxVars>>
     \/ subject = "handler" /\ Next /\ UNCHANGED <<waitVars, linuxVars>>
     \/ subject = "linux" /\ LinuxNext /\ UNCHANGED <<waitVars, vars>>

threadsVars == <<subject, waitVars, vars, linuxVars>>

(* The event: time passes, a late thread wakes, a mutex that is free again *)
(* and again is obtained, set returns; its users wait in a loop.           *)
EventFair ==
  /\ \A w \in Waiters :
       /\ WF_waitVars(subject = "event" /\ \E t \in Timeouts : Enter(w, t))
       /\ WF_waitVars(subject = "event" /\ Expire(w))
       /\ WF_waitVars(subject = "event" /\
            (TestTrue(w) \/ TestFalse(w) \/ LastFalse(w) \/ BlockWaiter(w)))
       /\ SF_waitVars(subject = "event" /\ WakeLate(w))
       /\ SF_waitVars(subject = "event" /\ Lock(w))
  /\ \A t \in Setters : WF_waitVars(subject = "event" /\ NotifyOne(t))

(* The handler: threads run, waits end and callbacks return.  push_no_wait *)
(* need not give up.                                                       *)
HandlerFair ==
  /\ \A p \in Producers : WF_vars(subject = "handler" /\ PushStep(p))
  /\ \A t \in Threads : WF_vars(subject = "handler" /\ Work(t))
  /\ WF_vars(subject = "handler" /\ StopStep)

ThreadsSpec ==
  ThreadsInit /\ [][ThreadsNext]_threadsVars /\ EventFair /\ HandlerFair

-----------------------------------------------------------------------------
(* The mutex and the condition variable behave as an auto-reset event: a   *)
(* signal lets one wait through and is not lost, a second one before it is *)
(* taken counts as one, a wait that times out takes nothing; and a signal  *)
(* is taken in the end, although notify_one may find nobody blocked while  *)
(* a waiter is between its test and its blocking                           *)
(* (wait_for_single_object.hpp:20).                                        *)
EventServes == ImplementsEvent /\ SignalTaken

(* A pushed message is handled unless stop is called, push returns on a    *)
(* full buffer too, and stop returns with the thread joined: as long as    *)
(* push and stop do not race (threaded_handler.hpp:101).                    *)
HandlerProgress == PushedHandled /\ PushReturns /\ StopReturns

(* A request finds its worker (server_linux.hpp:91) and the socket it came *)
(* by is open while its worker runs, but for the windows of storing and    *)
(* joining and the failed workers that the two parts name.                 *)
LinuxServed == RequestFindsWorker /\ SocketServed
=============================================================================
