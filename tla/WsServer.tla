------------------------------ MODULE WsServer ------------------------------
(***************************************************************************)
(* The websocket server (server_ws_win.hpp) and the life of its users      *)
(* (user_t of server_ws_user_win.hpp, callback_unit of                     *)
(* tools/callback_keeper.hpp).  Each worker runs a libevent loop; a        *)
(* callback of a user's bufferevent runs on that loop with the             *)
(* bufferevent's recursive lock held (BEV_OPT_THREADSAFE).  Application    *)
(* threads that were given a user by on_request call send and disconnect,  *)
(* which take the user's spin lock first and the bufferevent's lock inside *)
(* the call of libevent.  What the frames contain is WsConnection's.       *)
(*                                                                         *)
(* pending_list_cs is held for one access of the list and never around     *)
(* another lock: an access is one step.                                    *)
(***************************************************************************)
EXTENDS Integers, FiniteSets

CONSTANTS
  Workers,     \* the loops, __num_threads of them
  Users,       \* connections that may be accepted
  Apps,        \* threads of the application
  NoOne,       \* the holder of a free lock
  MaxRuns      \* bound: calls of run

ASSUME SetsAssumption ==
  /\ NoOne \notin Workers \cup Users \cup Apps
  /\ "main" \notin Workers
  /\ MaxRuns \in Nat

VARIABLES
  loop,        \* worker -> "none", "starting", "loop", "gone"
  watchdog,    \* worker -> wc.watchdog: "null", "live", "active", or "dead",
               \*   an event whose loop was freed
  wpc, wuser,  \* worker -> the callback it is in, and of which user
  home,        \* user -> the worker that accepted it, or NoOne
  pending,     \* pending_list
  bev,         \* user -> _wscon->bev: "null", "live", or "orphan", one
               \*   whose loop was freed
  ev,          \* user -> directions libevent still serves
  sent,        \* users something was written to
  destroyed,   \* users whose user_t was destroyed
  ub,          \* "none", or what was used of a loop that was freed: its
               \*   "watchdog" or a "bufferevent"; nothing is specified then
  spin,        \* user -> the thread that holds _wscon_cs
  bevLock,     \* user -> the worker whose callback holds the lock of bev
  handles,     \* app -> users it holds a shared_ptr of
  apc, auser,  \* app -> where it is in which call on which user
  mpc,         \* the thread that owns the server
  toSignal,    \* workers the loop at line 356 has still to look at
  owners,      \* threads that hold a shared_ptr of the server
  runs         \* how often run was called

vars == <<loop, watchdog, wpc, wuser, home, pending, bev, ev, sent, destroyed, ub,
          spin, bevLock, handles, apc, auser, mpc, toSignal, owners, runs>>

loopVars == <<loop, watchdog>>
userVars == <<home, pending, bev, ev, sent, destroyed, ub>>
lockVars == <<spin, bevLock>>
appVars  == <<handles, apc, auser>>
mainVars == <<mpc, toSignal, runs>>

Main == "main"

TypeOK ==
  /\ loop \in [Workers -> {"none", "starting", "loop", "gone"}]
  /\ watchdog \in [Workers -> {"null", "live", "active", "dead"}]
  /\ wpc \in [Workers -> {"idle", "frame", "noServer", "unlisted",
                          "request", "spin", "return", "tail", "close", "closed"}]
  /\ wuser \in [Workers -> Users \cup {NoOne}]
  /\ home \in [Users -> Workers \cup {NoOne}]
  /\ pending \subseteq Users /\ sent \subseteq Users /\ destroyed \subseteq Users
  /\ bev \in [Users -> {"null", "live", "orphan"}]
  /\ ub \in {"none", "watchdog", "bufferevent"}
  /\ ev \in [Users -> SUBSET {"read", "write"}]
  /\ spin \in [Users -> Workers \cup Apps \cup {NoOne}]
  /\ bevLock \in [Users -> Workers \cup {NoOne}]
  /\ handles \in [Apps -> SUBSET Users]
  /\ apc \in [Apps -> {"idle", "send", "disconnect", "sending", "disconnecting"}]
  /\ auser \in [Apps -> Users \cup {NoOne}]
  /\ mpc \in {"idle", "signal", "join", "destroyed", "crashed"}
  /\ toSignal \subseteq Workers /\ owners \subseteq Workers \cup {Main}
  /\ runs \in 0 .. MaxRuns

Init ==
  /\ loop = [w \in Workers |-> "none"]
  /\ watchdog = [w \in Workers |-> "null"]
  /\ wpc = [w \in Workers |-> "idle"] /\ wuser = [w \in Workers |-> NoOne]
  /\ home = [u \in Users |-> NoOne]
  /\ pending = {} /\ sent = {} /\ destroyed = {} /\ ub = "none"
  /\ bev = [u \in Users |-> "null"] /\ ev = [u \in Users |-> {}]
  /\ spin = [u \in Users |-> NoOne] /\ bevLock = [u \in Users |-> NoOne]
  /\ handles = [a \in Apps |-> {}]
  /\ apc = [a \in Apps |-> "idle"] /\ auser = [a \in Apps |-> NoOne]
  /\ mpc = "idle" /\ toSignal = {} /\ owners = {Main} /\ runs = 0

\* The program has not been ended by a join of a thread with itself, nor has
\* it used what was freed.
Up == mpc # "crashed" /\ ub = "none"

\* A call of libevent on the bufferevent of u, or on the watchdog of w.
UsesBev(u) == ub' = IF bev[u] = "orphan" THEN "bufferevent" ELSE ub
UsesWatchdog(w) == ub' = IF watchdog[w] = "dead" THEN "watchdog" ELSE ub

-----------------------------------------------------------------------------
(* Who holds a shared_ptr of a user: pending_list, an application thread,  *)
(* and the frame callback between lines 38 and 104.                        *)

\* As a bug: application threads keep a plain pointer.
Held_rawPointer(u, list, hs, pcs) == u \in list

Held(u, list, hs, pcs) ==
  \/ u \in list
  \/ \E a \in Apps : u \in hs[a]
  \/ \E w \in Workers : wuser[w] = u /\ pcs[w] \in {"request", "spin", "return"}

\* ~user_t, when the last shared_ptr goes: ws_conn_free frees the
\* bufferevent, also one whose loop is gone.
Destroy(us) ==
  /\ destroyed' = destroyed \cup us
  /\ bev' = [u \in Users |-> IF u \in us THEN "null" ELSE bev[u]]
  /\ ub' = IF \E u \in us : bev[u] = "orphan" THEN "bufferevent" ELSE ub

-----------------------------------------------------------------------------
(* The worker's thread: on_worker and _worker_proc. *)

\* Every return before line 250: nothing is left.
SetupFails(w) ==
  /\ Up /\ loop[w] = "starting"
  /\ loop' = [loop EXCEPT ![w] = "gone"]
  /\ UNCHANGED <<watchdog, wpc, wuser, userVars, lockVars, appVars, mainVars,
                 owners>>

\* event_add fails: the base goes, its event stays in wc.watchdog.  Line 250
\* has freed the event of the run before.
SetupFailsLate(w) ==
  /\ Up /\ loop[w] = "starting"
  /\ loop' = [loop EXCEPT ![w] = "gone"]
  /\ watchdog' = [watchdog EXCEPT ![w] = "dead"]
  /\ UsesWatchdog(w)
  /\ UNCHANGED <<wpc, wuser, home, pending, bev, ev, sent, destroyed, lockVars, appVars, mainVars, owners>>

\* Lines 250 to 256, which free a dead event of the run before.
Dispatch(w) ==
  /\ Up /\ loop[w] = "starting"
  /\ loop' = [loop EXCEPT ![w] = "loop"]
  /\ watchdog' = [watchdog EXCEPT ![w] = "live"]
  /\ UsesWatchdog(w)
  /\ UNCHANGED <<wpc, wuser, home, pending, bev, ev, sent, destroyed, lockVars, appVars, mainVars, owners>>

\* Lines 258 to 266.  The bufferevents of the loop's users are not freed
\* with it.
LoopGoes(w) ==
  /\ Up /\ loop[w] = "loop" /\ wpc[w] = "idle"
  /\ loop' = [loop EXCEPT ![w] = "gone"]
  /\ watchdog' = [watchdog EXCEPT ![w] = "null"]
  /\ bev' = [u \in Users |-> IF home[u] = w /\ bev[u] = "live"
                             THEN "orphan" ELSE bev[u]]
  /\ UNCHANGED <<wpc, wuser, home, pending, ev, sent, destroyed, ub, lockVars,
                 appVars, mainVars, owners>>

\* _exit_ev_callback breaks the loop.
LoopExit(w) == watchdog[w] = "active" /\ LoopGoes(w)

\* event_base_dispatch fails, which nobody looks at (line 256).
DispatchFails(w) == LoopGoes(w)

\* listencb and _listencb.
Accept(w, u) ==
  /\ Up /\ loop[w] = "loop" /\ wpc[w] = "idle" /\ home[u] = NoOne
  /\ owners # {}             \* shared_from_this throws in a dying server
  /\ home' = [home EXCEPT ![u] = w]
  /\ pending' = pending \cup {u}
  /\ bev' = [bev EXCEPT ![u] = "live"]
  /\ ev' = [ev EXCEPT ![u] = {"read", "write"}]
  /\ UNCHANGED <<loopVars, wpc, wuser, sent, destroyed, ub, lockVars, appVars,
                 mainVars, owners>>

-----------------------------------------------------------------------------
(* Callbacks.  libevent takes the lock of the bufferevent around them.     *)

CanCall(w, u) ==
  /\ Up /\ loop[w] = "loop" /\ wpc[w] = "idle"
  /\ home[u] = w /\ bev[u] = "live" /\ bevLock[u] = NoOne

Enter(w, u, pc) ==
  /\ wpc' = [wpc EXCEPT ![w] = pc]
  /\ wuser' = [wuser EXCEPT ![w] = u]
  /\ bevLock' = [bevLock EXCEPT ![u] = w]
  /\ UNCHANGED <<loopVars, home, pending, bev, sent, destroyed, ub, spin, appVars,
                 mainVars>>

\* weak_ptr::lock
LockServer(w) == owners' = IF owners # {} THEN owners \cup {w} ELSE {}

\* frame_read_cb comes to a whole message: on_frame_recv, lines 24 to 27.
FrameBegin(w, u) ==
  /\ CanCall(w, u) /\ "read" \in ev[u]
  /\ LockServer(w)
  /\ Enter(w, u, IF owners # {} THEN "frame" ELSE "noServer")
  /\ UNCHANGED ev

To(w, pc) ==
  /\ wpc' = [wpc EXCEPT ![w] = pc]
  /\ UNCHANGED <<loopVars, wuser, lockVars, apc, auser, mainVars, owners>>

\* Lines 34 to 38.
FrameFind(w) ==
  /\ Up /\ wpc[w] = "frame"
  /\ To(w, IF wuser[w] \in pending THEN "request" ELSE "unlisted")
  /\ UNCHANGED <<userVars, handles>>

\* The handler keeps the user for an application thread, or does nothing.
RequestKeep(w, a) ==
  /\ Up /\ wpc[w] = "request" /\ To(w, "return")
  /\ handles' = [handles EXCEPT ![a] = @ \cup {wuser[w]}]
  /\ UNCHANGED userVars

RequestDone(w) ==
  /\ Up /\ wpc[w] = "request" /\ To(w, "return")
  /\ UNCHANGED <<userVars, handles>>

\* The data is no JSON or the handler throws, and the server disconnects;
\* or the handler itself sends or disconnects.
RequestCalls(w) ==
  /\ Up /\ wpc[w] = "request" /\ To(w, "spin")
  /\ UNCHANGED <<userVars, handles>>

\* disconnect or send on the loop: the spin lock, inside the lock of bev.
LoopDisconnect(w) ==
  /\ Up /\ wpc[w] = "spin" /\ spin[wuser[w]] = NoOne /\ To(w, "return")
  /\ UsesBev(wuser[w])
  /\ bev' = [bev EXCEPT ![wuser[w]] = "null"]
  /\ UNCHANGED <<home, pending, ev, sent, destroyed, handles>>

LoopSend(w) ==
  /\ Up /\ wpc[w] = "spin" /\ spin[wuser[w]] = NoOne /\ To(w, "return")
  /\ UsesBev(wuser[w])
  /\ sent' = sent \cup {wuser[w]}
  /\ UNCHANGED <<home, pending, bev, ev, destroyed, handles>>

\* Line 104: ws_user_ptr goes, and with the last reference the user.
FrameEnd(w) ==
  LET u == wuser[w]
      gone == {u} \cap {x \in Users : ~Held(x, pending, handles,
                                            [wpc EXCEPT ![w] = "tail"])}
  IN  /\ Up /\ wpc[w] = "return" /\ To(w, "tail")
      /\ Destroy(gone)
      /\ UNCHANGED <<home, pending, ev, sent, handles>>

\* close_cb: end of file, an error of reading, or of writing.  libevent
\* stops serving that direction only.
CloseBegin(w, u, d) ==
  /\ CanCall(w, u) /\ d \in ev[u] /\ (d = "write" => u \in sent)
  /\ LockServer(w)
  /\ Enter(w, u, "close")
  /\ ev' = [ev EXCEPT ![u] = @ \ {d}]

\* on_disconnect erases the user.  If that was the last shared_ptr, the
\* user goes while its callback_unit is locked for this very call.
CloseErase(w) ==
  LET list == IF w \in owners THEN pending \ {wuser[w]} ELSE pending
      gone == {u \in pending \ list : ~Held(u, list, handles, wpc)}
  IN  /\ Up /\ wpc[w] = "close" /\ To(w, "closed")
      /\ pending' = list
      /\ Destroy(gone)
      /\ UNCHANGED <<home, ev, sent, handles>>

\* The callback ends.  Whoever drops the last shared_ptr of the server runs
\* ~server_ws: a worker would join itself there, which ends the program.
CallbackEnd(w) ==
  /\ Up /\ wpc[w] \in {"tail", "closed", "noServer", "unlisted"}
  /\ wpc' = [wpc EXCEPT ![w] = "idle"]
  /\ wuser' = [wuser EXCEPT ![w] = NoOne]
  /\ bevLock' = [bevLock EXCEPT ![wuser[w]] = NoOne]
  /\ owners' = owners \ {w}
  /\ mpc' = IF owners = {w} THEN "crashed" ELSE mpc
  /\ UNCHANGED <<loopVars, userVars, spin, appVars, toSignal, runs>>

-----------------------------------------------------------------------------
(* An application thread that holds a user: send, disconnect, let go.      *)

Call(a, u, what) ==
  /\ Up /\ apc[a] = "idle" /\ u \in handles[a]
  /\ apc' = [apc EXCEPT ![a] = what]
  /\ auser' = [auser EXCEPT ![a] = u]
  /\ UNCHANGED <<loopVars, wpc, wuser, userVars, lockVars, handles, mainVars,
                 owners>>

Locked(what) == IF what = "send" THEN "sending" ELSE "disconnecting"

AppLock(a) ==
  LET u == auser[a]
  IN  /\ Up /\ apc[a] \in {"send", "disconnect"} /\ spin[u] = NoOne
      /\ spin' = [spin EXCEPT ![u] = a]
      /\ apc' = [apc EXCEPT ![a] = Locked(@)]
      /\ UNCHANGED <<loopVars, wpc, wuser, userVars, bevLock, handles, auser,
                     mainVars, owners>>

\* As a bug: the lock is not released.
AppReturn_locked(a) ==
  /\ apc' = [apc EXCEPT ![a] = "idle"]
  /\ auser' = [auser EXCEPT ![a] = NoOne]
  /\ UNCHANGED <<loopVars, wpc, wuser, home, pending, ev, destroyed, lockVars,
                 handles, mainVars, owners>>

AppReturn(a) ==
  /\ spin' = [spin EXCEPT ![auser[a]] = NoOne]
  /\ apc' = [apc EXCEPT ![a] = "idle"]
  /\ auser' = [auser EXCEPT ![a] = NoOne]
  /\ UNCHANGED <<loopVars, wpc, wuser, home, pending, ev, destroyed, bevLock,
                 handles, mainVars, owners>>

\* send_a_frame: a null bev is an error, else libevent's lock is taken.
AppSend(a) ==
  LET u == auser[a]
  IN  /\ Up /\ apc[a] = "sending"
      /\ bev[u] # "null" => bevLock[u] = NoOne
      /\ UsesBev(u)
      /\ sent' = IF bev[u] = "null" THEN sent ELSE sent \cup {u}
      /\ UNCHANGED bev
      /\ AppReturn(a)

AppDisconnect(a) ==
  LET u == auser[a]
  IN  /\ Up /\ apc[a] = "disconnecting"
      /\ bev[u] # "null" => bevLock[u] = NoOne
      /\ UsesBev(u)
      /\ bev' = [bev EXCEPT ![u] = "null"]
      /\ UNCHANGED sent
      /\ AppReturn(a)

\* The last handle: ~user_t waits for the callback of a live bufferevent.
Drop(a, u) ==
  LET hs == [handles EXCEPT ![a] = @ \ {u}]
      gone == {u} \cap {x \in Users : ~Held(x, pending, hs, wpc)}
  IN  /\ Up /\ apc[a] = "idle" /\ u \in handles[a]
      /\ gone # {} /\ bev[u] # "null" => bevLock[u] = NoOne
      /\ handles' = hs
      /\ Destroy(gone)
      /\ UNCHANGED <<loopVars, wpc, wuser, home, pending, ev, sent, lockVars,
                     apc, auser, mainVars, owners>>

-----------------------------------------------------------------------------
(* The owner: run, stop and the end of the server. *)

Run ==
  /\ Up /\ mpc = "idle" /\ Main \in owners /\ runs < MaxRuns
  /\ \A w \in Workers : loop[w] = "none"      \* else "Stop first."
  /\ loop' = [w \in Workers |-> "starting"]
  /\ runs' = runs + 1
  /\ UNCHANGED <<watchdog, wpc, wuser, userVars, lockVars, appVars, mpc,
                 toSignal, owners>>

Stop ==
  /\ Up /\ mpc = "idle" /\ Main \in owners
  /\ mpc' = "signal" /\ toSignal' = Workers
  /\ UNCHANGED <<loopVars, wpc, wuser, userVars, lockVars, appVars, runs,
                 owners>>

\* The owner lets the server go; if no callback holds it, ~server_ws runs
\* here and calls stop.
LetGo ==
  /\ Up /\ mpc = "idle" /\ Main \in owners
  /\ owners' = owners \ {Main}
  /\ IF owners = {Main} THEN mpc' = "signal" /\ toSignal' = Workers
                        ELSE mpc' = "destroyed" /\ UNCHANGED toSignal
  /\ UNCHANGED <<loopVars, wpc, wuser, userVars, lockVars, appVars, runs>>

\* Lines 356 to 361, for one worker: event_active, on a dead event too.
Signal(w) ==
  /\ Up /\ mpc = "signal" /\ w \in toSignal
  /\ toSignal' = toSignal \ {w}
  /\ watchdog' = [watchdog EXCEPT ![w] = IF @ = "live" THEN "active" ELSE @]
  /\ UsesWatchdog(w)
  /\ mpc' = IF toSignal' = {} THEN "join" ELSE mpc
  /\ UNCHANGED <<loop, wpc, wuser, home, pending, bev, ev, sent, destroyed,
                 lockVars, appVars, runs, owners>>

\* Lines 369 to 375; in the destructor pending_list goes afterwards.
Join ==
  /\ Up /\ mpc = "join"
  /\ \A w \in Workers : loop[w] \in {"gone", "none"}
  /\ loop' = [w \in Workers |-> "none"]
  /\ IF Main \in owners
       THEN /\ mpc' = "idle"
            /\ UNCHANGED <<pending, destroyed, bev, ub>>
       ELSE /\ mpc' = "destroyed"
            /\ pending' = {}
            /\ Destroy({u \in pending : ~Held(u, {}, handles, wpc)})
  /\ UNCHANGED <<watchdog, wpc, wuser, home, ev, sent, lockVars, appVars,
                 toSignal, runs, owners>>

-----------------------------------------------------------------------------
InCallback(w) ==
  \/ FrameFind(w) \/ RequestDone(w) \/ RequestCalls(w)
  \/ LoopDisconnect(w) \/ LoopSend(w)
  \/ FrameEnd(w) \/ CloseErase(w) \/ CallbackEnd(w)
  \/ \E a \in Apps : RequestKeep(w, a)

Worker(w) ==
  \/ Dispatch(w) \/ SetupFails(w) \/ SetupFailsLate(w) \/ LoopExit(w)
  \/ InCallback(w)

InCall(a) == AppLock(a) \/ AppSend(a) \/ AppDisconnect(a)

Next ==
  \/ \E w \in Workers : Worker(w)
  \/ \E w \in Workers, u \in Users : Accept(w, u) \/ FrameBegin(w, u)
  \/ \E w \in Workers, u \in Users, d \in {"read", "write"} : CloseBegin(w, u, d)
  \/ \E a \in Apps : InCall(a)
  \/ \E a \in Apps, u \in Users : Drop(a, u) \/ Call(a, u, "send") \/ Call(a, u, "disconnect")
  \/ Run \/ Stop \/ LetGo \/ Join
  \/ \E w \in Workers : Signal(w) \/ DispatchFails(w)

Spec == Init /\ [][Next]_vars

\* The loops, the threads in a call and the owner in stop are scheduled.  An
\* active watchdog is served in the loop's next round whatever else is; a
\* thread that waits for a lock that is released again and again gets it.
FairSpec ==
  /\ Spec
  /\ \A w \in Workers : WF_vars(Worker(w)) /\ SF_vars(LoopExit(w))
  /\ \A w \in Workers : SF_vars(LoopDisconnect(w) \/ LoopSend(w))
  /\ \A a \in Apps : SF_vars(InCall(a))
  /\ WF_vars(Join \/ \E w \in Workers : Signal(w))

-----------------------------------------------------------------------------
\* A loop in a callback waits for the spin lock of its user, whose holder
\* waits for the lock the callback holds (server_ws_win.hpp:58,
\* server_ws_user_win.hpp:452 and 503).  Nothing ends this.
Crossed ==
  \E w \in Workers, a \in Apps :
    /\ wpc[w] = "spin" /\ spin[wuser[w]] = a
    /\ apc[a] \in {"sending", "disconnecting"} /\ bev[wuser[w]] # "null"

\* stop looked for the watchdog of a worker that had not made it yet.
Missed ==
  \E w \in Workers : /\ mpc \in {"signal", "join"} /\ w \notin toSignal
                    /\ loop[w] \in {"starting", "loop"} /\ watchdog[w] # "active"

(* No thread works on a user after its destructor, whoever dropped the     *)
(* last reference: an application thread inside send or disconnect, a loop *)
(* inside a frame, or libevent through a bufferevent that still has its    *)
(* callbacks.  The one exception is the close of a user that nobody else   *)
(* holds, whose callback_unit unlocks itself in freed memory               *)
(* (callback_keeper.hpp:25).                                               *)
UsersAlive ==
  /\ TypeOK
  /\ \A a \in Apps : apc[a] # "idle" => auser[a] \notin destroyed
  /\ \A w \in Workers : wpc[w] # "idle" /\ wuser[w] \in destroyed
                          => wpc[w] = "closed" /\ ev[wuser[w]] # {"read", "write"}
  /\ \A u \in destroyed : bev[u] = "null" /\ u \notin pending

(* While the server lives every accepted user whose connection has not     *)
(* been reported closed is in pending_list, those that disconnect has cut  *)
(* off included: nothing takes them out any more                           *)
(* (server_ws_user_win.hpp:510).  A user that a frame arrives from is not  *)
(* in the list only after an error of writing (server_ws_win.hpp:36).      *)
ListExact ==
  /\ mpc # "destroyed" =>
       \A u \in Users : home[u] # NoOne /\ ev[u] = {"read", "write"} => u \in pending
  /\ \A w \in Workers : wpc[w] = "unlisted" => "write" \notin ev[wuser[w]]

(* A loop that ends leaves the bufferevents of its users behind, and a     *)
(* set-up that fails at event_add its watchdog.  A live bufferevent has its*)
(* loop, so that no callback comes to one that has none; libevent is asked *)
(* to work on freed memory only through a connection that outlived its     *)
(* loop (server_ws_win.hpp:258), or through such a watchdog (lines 250 and *)
(* 358), and not while every loop of the first run is served.              *)
LoopsAlive ==
  /\ \A u \in Users : bev[u] = "live" => home[u] # NoOne /\ loop[home[u]] = "loop"
  /\ \A w \in Workers : wpc[w] # "idle" => bev[wuser[w]] # "orphan"
  /\ ub = "bufferevent" => runs > 1 \/ \E w \in Workers : loop[w] \in {"gone", "none"}
  /\ ub = "watchdog" => mpc = "signal" \/ mpc = "join" \/ runs > 1

(* Users live while anybody works on them, their bufferevents while their  *)
(* loops do, and pending_list holds those whose close was not reported     *)
(* (server_ws_win.hpp:12, 32, 128 and 258).                                *)
UsersExact == UsersAlive /\ LoopsAlive /\ ListExact

(* send and disconnect of an application thread return, unless the thread  *)
(* and the user's loop hold the two locks crosswise or the program ends.   *)
CallsReturn ==
  \A a \in Apps : apc[a] # "idle" ~> apc[a] = "idle" \/ Crossed \/ ~Up

(* stop returns, and so does the destructor, unless a worker had not made  *)
(* its watchdog when stop looked for it, or a loop is held up crosswise, or*)
(* the memory of a loop was used after its end.                            *)
StopReturns ==
  mpc \in {"signal", "join"} ~>
    mpc \in {"idle", "destroyed"} \/ Missed \/ Crossed \/ ~Up

(* SDK_CP_ASSERT(!!server) at server_ws_win.hpp:26: a frame finds the      *)
(* server alive.                                                           *)
FrameHasServer == \A w \in Workers : wpc[w] # "noServer"

(* Calls of the application return, and so does stop.                      *)
ServerProgress == CallsReturn /\ StopReturns
=============================================================================
