-------------------------- MODULE WsServer_proofs --------------------------
(***************************************************************************)
(* The users of the websocket server live while anybody works on them, and *)
(* pending_list holds those whose close was not reported: for any number   *)
(* of loops, connections, threads of the application and runs.             *)
(***************************************************************************)
EXTENDS WsServer, TLAPS

Full == {"read", "write"}

(* A callback runs on the loop that accepted its user, with the lock of    *)
(* the bufferevent.  Up to the first thing that may free the bufferevent   *)
(* it is live; from the search of the list on the user is in the list; and *)
(* a close has taken a direction away.                                     *)
Callbacks ==
  \A w \in Workers : wpc[w] # "idle" =>
    /\ loop[w] = "loop" /\ wuser[w] \in Users
    /\ home[wuser[w]] = w /\ bevLock[wuser[w]] = w
    /\ wpc[w] \in {"frame", "noServer", "unlisted", "close"} =>
         bev[wuser[w]] = "live"
    /\ bev[wuser[w]] # "orphan"
    /\ wpc[w] \in {"request", "spin", "return", "tail"} => wuser[w] \in pending
    /\ wpc[w] \in {"close", "closed"} => ev[wuser[w]] # Full
    /\ wpc[w] = "frame" => w \in owners /\ "read" \in ev[wuser[w]]
    /\ wpc[w] = "unlisted" => "write" \notin ev[wuser[w]]

(* The server is held by its owner and by callbacks.                       *)
Owning == \A w \in Workers : w \in owners => wpc[w] # "idle"

(* A thread that calls a user holds it.                                    *)
Calling == \A a \in Apps : apc[a] # "idle" => auser[a] \in handles[a]

(* Nobody holds a user that is destroyed, and who is held was accepted.    *)
Gone ==
  \A u \in destroyed :
    /\ bev[u] = "null" /\ u \notin pending /\ home[u] # NoOne
    /\ \A a \in Apps : u \notin handles[a]

Known ==
  \A u \in Users : u \in pending \/ (\E a \in Apps : u \in handles[a]) =>
    home[u] # NoOne

(* The list is complete as long as somebody holds the server, too.         *)
Complete ==
  mpc # "destroyed" \/ owners # {} =>
    \A u \in Users : home[u] # NoOne /\ ev[u] = Full => u \in pending

(* A bufferevent is live as long as its loop is; what outlives a loop is   *)
(* there only when one has ended, and used only then.                      *)
Over(w) == runs > 1 \/ loop[w] \in {"gone", "none"}
Ended ==
  /\ \A u \in Users : bev[u] = "live" => home[u] # NoOne /\ loop[home[u]] = "loop"
  /\ \A u \in Users : bev[u] = "orphan" => home[u] # NoOne /\ Over(home[u])
  /\ \A w \in Workers : watchdog[w] = "dead" => Over(w)
  /\ \A w \in Workers : loop[w] # "none" \/ watchdog[w] = "dead" => runs # 0
  /\ \A u \in Users : home[u] # NoOne => runs # 0
  /\ ub = "bufferevent" => runs > 1 \/ \E w \in Workers : Over(w)
  /\ ub = "watchdog" => mpc \in {"signal", "join"} \/ runs > 1

WsInv ==
  TypeOK /\ Callbacks /\ Owning /\ Calling /\ Gone /\ Known /\ Complete /\ Ended

(* Destroying users that nobody holds any more.                            *)
LEMMA DestroyKeepsGone ==
  ASSUME TypeOK, Gone, NEW us \in SUBSET Users, Destroy(us), UNCHANGED home,
         pending' \subseteq pending,
         \A a \in Apps : handles'[a] \subseteq handles[a],
         \A u \in us : /\ u \notin pending' /\ home[u] # NoOne
                       /\ \A a \in Apps : u \notin handles'[a]
  PROVE  Gone'
<1>1. destroyed' = destroyed \cup us BY DEF Destroy
<1>2. \A u \in us : bev'[u] = "null" BY DEF Destroy
<1>3. \A u \in Users : u \notin us => bev'[u] = bev[u] BY DEF Destroy
<1>. QED BY <1>1, <1>2, <1>3 DEF Gone, TypeOK

(* Every step keeps the types.                                             *)
LEMMA WsTypeStep ==
  WsInv /\ [Next]_vars => TypeOK'
<1>. SUFFICES ASSUME WsInv, [Next]_vars PROVE TypeOK'
  OBVIOUS
<1>. USE DEF WsInv, TypeOK, loopVars, userVars, lockVars, appVars, mainVars,
             UsesBev, UsesWatchdog
<1>1. ASSUME NEW w \in Workers, SetupFails(w) PROVE TypeOK'
  BY <1>1 DEF SetupFails
<1>2. ASSUME NEW w \in Workers, SetupFailsLate(w) PROVE TypeOK'
  BY <1>2 DEF SetupFailsLate
<1>3. ASSUME NEW w \in Workers, Dispatch(w) PROVE TypeOK'
  BY <1>3 DEF Dispatch
<1>4. ASSUME NEW w \in Workers, LoopExit(w) \/ DispatchFails(w) PROVE TypeOK'
  BY <1>4 DEF LoopExit, DispatchFails, LoopGoes
<1>5. ASSUME NEW w \in Workers, NEW u \in Users, Accept(w, u)
       PROVE TypeOK'
  BY <1>5 DEF Accept
<1>6. ASSUME NEW w \in Workers, NEW u \in Users, FrameBegin(w, u)
       PROVE TypeOK'
  BY <1>6 DEF FrameBegin, CanCall, Enter, LockServer
<1>7. ASSUME NEW w \in Workers, FrameFind(w) PROVE TypeOK'
  BY <1>7 DEF FrameFind, To
<1>8. ASSUME NEW w \in Workers, NEW a \in Apps, RequestKeep(w, a)
       PROVE TypeOK'
  BY <1>8 DEF RequestKeep, To, Callbacks
<1>9. ASSUME NEW w \in Workers, RequestDone(w) PROVE TypeOK'
  BY <1>9 DEF RequestDone, To
<1>10. ASSUME NEW w \in Workers, RequestCalls(w) PROVE TypeOK'
  BY <1>10 DEF RequestCalls, To
<1>11. ASSUME NEW w \in Workers, LoopDisconnect(w) PROVE TypeOK'
  BY <1>11 DEF LoopDisconnect, To
<1>12. ASSUME NEW w \in Workers, LoopSend(w) PROVE TypeOK'
  BY <1>12 DEF LoopSend, To, Callbacks
<1>13. ASSUME NEW w \in Workers, FrameEnd(w) PROVE TypeOK'
  BY <1>13 DEF FrameEnd, To, Destroy
<1>14. ASSUME NEW w \in Workers, NEW u \in Users,
         NEW d \in {"read", "write"}, CloseBegin(w, u, d) PROVE TypeOK'
  BY <1>14 DEF CloseBegin, CanCall, Enter, LockServer
<1>15. ASSUME NEW w \in Workers, CloseErase(w) PROVE TypeOK'
  BY <1>15 DEF CloseErase, To, Destroy
<1>16. ASSUME NEW w \in Workers, CallbackEnd(w) PROVE TypeOK'
  BY <1>16 DEF CallbackEnd
<1>17. ASSUME NEW a \in Apps, NEW u \in Users,
         NEW q \in {"send", "disconnect"}, Call(a, u, q) PROVE TypeOK'
  BY <1>17 DEF Call
<1>18. ASSUME NEW a \in Apps, AppLock(a) PROVE TypeOK'
  BY <1>18 DEF AppLock, Locked
<1>19. ASSUME NEW a \in Apps, AppSend(a) PROVE TypeOK'
  <2>1. auser[a] \in Users BY <1>19 DEF AppSend, Calling
  <2>2. sent' \subseteq Users BY <1>19, <2>1 DEF AppSend
  <2>. QED BY <1>19, <2>2 DEF AppSend, AppReturn
<1>20. ASSUME NEW a \in Apps, AppDisconnect(a) PROVE TypeOK'
  BY <1>20 DEF AppDisconnect, AppReturn
<1>21. ASSUME NEW a \in Apps, NEW u \in Users, Drop(a, u) PROVE TypeOK'
  BY <1>21 DEF Drop, Destroy
<1>22. CASE Run
  <2>1. runs' \in 0 .. MaxRuns BY <1>22, SetsAssumption DEF Run
  <2>. QED BY <1>22, <2>1 DEF Run
<1>23. CASE Stop
  BY <1>23 DEF Stop
<1>24. CASE LetGo
  BY <1>24 DEF LetGo
<1>25. ASSUME NEW w \in Workers, Signal(w) PROVE TypeOK'
  BY <1>25 DEF Signal
<1>26. CASE Join
  BY <1>26 DEF Join, Destroy
<1>27. CASE UNCHANGED vars
  BY <1>27 DEF vars
<1>. QED
  BY SMTT(30), <1>1, <1>2, <1>3, <1>4, <1>5, <1>6, <1>7, <1>8, <1>9, <1>10, <1>11,
     <1>12, <1>13, <1>14, <1>15, <1>16, <1>17, <1>18, <1>19, <1>20, <1>21,
     <1>22, <1>23, <1>24, <1>25, <1>26, <1>27
     DEF Next, Worker, InCallback, InCall

(* A callback lets the server go when it ends.                             *)
LEMMA OwningStep ==
  WsInv /\ [Next]_vars => Owning'
<1>. SUFFICES ASSUME WsInv, [Next]_vars PROVE Owning'
  OBVIOUS
<1>. USE DEF WsInv, TypeOK, loopVars, userVars, lockVars, appVars, mainVars,
             UsesBev, UsesWatchdog
<1>1. ASSUME NEW w \in Workers, SetupFails(w) PROVE Owning'
  BY <1>1 DEF SetupFails, Owning
<1>2. ASSUME NEW w \in Workers, SetupFailsLate(w) PROVE Owning'
  BY <1>2 DEF SetupFailsLate, Owning
<1>3. ASSUME NEW w \in Workers, Dispatch(w) PROVE Owning'
  BY <1>3 DEF Dispatch, Owning
<1>4. ASSUME NEW w \in Workers, LoopExit(w) \/ DispatchFails(w) PROVE Owning'
  BY <1>4 DEF LoopExit, DispatchFails, LoopGoes, Owning
<1>5. ASSUME NEW w \in Workers, NEW u \in Users, Accept(w, u)
       PROVE Owning'
  BY <1>5 DEF Accept, Owning
<1>6. ASSUME NEW w \in Workers, NEW u \in Users, FrameBegin(w, u)
       PROVE Owning'
  BY <1>6 DEF FrameBegin, CanCall, Enter, LockServer, Owning
<1>7. ASSUME NEW w \in Workers, FrameFind(w) PROVE Owning'
  BY <1>7 DEF FrameFind, To, Owning
<1>8. ASSUME NEW w \in Workers, NEW a \in Apps, RequestKeep(w, a)
       PROVE Owning'
  BY <1>8 DEF RequestKeep, To, Owning
<1>9. ASSUME NEW w \in Workers, RequestDone(w) PROVE Owning'
  BY <1>9 DEF RequestDone, To, Owning
<1>10. ASSUME NEW w \in Workers, RequestCalls(w) PROVE Owning'
  BY <1>10 DEF RequestCalls, To, Owning
<1>11. ASSUME NEW w \in Workers, LoopDisconnect(w) PROVE Owning'
  BY <1>11 DEF LoopDisconnect, To, Owning
<1>12. ASSUME NEW w \in Workers, LoopSend(w) PROVE Owning'
  BY <1>12 DEF LoopSend, To, Owning
<1>13. ASSUME NEW w \in Workers, FrameEnd(w) PROVE Owning'
  BY <1>13 DEF FrameEnd, To, Destroy, Owning
<1>14. ASSUME NEW w \in Workers, NEW u \in Users,
         NEW d \in {"read", "write"}, CloseBegin(w, u, d) PROVE Owning'
  BY <1>14 DEF CloseBegin, CanCall, Enter, LockServer, Owning
<1>15. ASSUME NEW w \in Workers, CloseErase(w) PROVE Owning'
  BY <1>15 DEF CloseErase, To, Destroy, Owning
<1>16. ASSUME NEW w \in Workers, CallbackEnd(w) PROVE Owning'
  BY <1>16 DEF CallbackEnd, Owning
<1>17. ASSUME NEW a \in Apps, NEW u \in Users,
         NEW q \in {"send", "disconnect"}, Call(a, u, q) PROVE Owning'
  BY <1>17 DEF Call, Owning
<1>18. ASSUME NEW a \in Apps, AppLock(a) PROVE Owning'
  BY <1>18 DEF AppLock, Locked, Owning
<1>19. ASSUME NEW a \in Apps, AppSend(a) PROVE Owning'
  BY <1>19 DEF AppSend, AppReturn, Owning
<1>20. ASSUME NEW a \in Apps, AppDisconnect(a) PROVE Owning'
  BY <1>20 DEF AppDisconnect, AppReturn, Owning
<1>21. ASSUME NEW a \in Apps, NEW u \in Users, Drop(a, u) PROVE Owning'
  BY <1>21 DEF Drop, Destroy, Owning
<1>22. CASE Run
  BY <1>22 DEF Run, Owning
<1>23. CASE Stop
  BY <1>23 DEF Stop, Owning
<1>24. CASE LetGo
  BY <1>24 DEF LetGo, Owning
<1>25. ASSUME NEW w \in Workers, Signal(w) PROVE Owning'
  BY <1>25 DEF Signal, Owning
<1>26. CASE Join
  BY <1>26 DEF Join, Destroy, Owning
<1>27. CASE UNCHANGED vars
  BY <1>27 DEF vars, Owning
<1>. QED
  BY <1>1, <1>2, <1>3, <1>4, <1>5, <1>6, <1>7, <1>8, <1>9, <1>10, <1>11,
     <1>12, <1>13, <1>14, <1>15, <1>16, <1>17, <1>18, <1>19, <1>20, <1>21,
     <1>22, <1>23, <1>24, <1>25, <1>26, <1>27
     DEF Next, Worker, InCallback, InCall

(* A thread lets a user go only between calls.                             *)
LEMMA CallingStep ==
  WsInv /\ [Next]_vars => Calling'
<1>. SUFFICES ASSUME WsInv, [Next]_vars PROVE Calling'
  OBVIOUS
<1>. USE DEF WsInv, TypeOK, loopVars, userVars, lockVars, appVars, mainVars,
             UsesBev, UsesWatchdog
<1>1. ASSUME NEW w \in Workers, SetupFails(w) PROVE Calling'
  BY <1>1 DEF SetupFails, Calling
<1>2. ASSUME NEW w \in Workers, SetupFailsLate(w) PROVE Calling'
  BY <1>2 DEF SetupFailsLate, Calling
<1>3. ASSUME NEW w \in Workers, Dispatch(w) PROVE Calling'
  BY <1>3 DEF Dispatch, Calling
<1>4. ASSUME NEW w \in Workers, LoopExit(w) \/ DispatchFails(w) PROVE Calling'
  BY <1>4 DEF LoopExit, DispatchFails, LoopGoes, Calling
<1>5. ASSUME NEW w \in Workers, NEW u \in Users, Accept(w, u)
       PROVE Calling'
  BY <1>5 DEF Accept, Calling
<1>6. ASSUME NEW w \in Workers, NEW u \in Users, FrameBegin(w, u)
       PROVE Calling'
  BY <1>6 DEF FrameBegin, CanCall, Enter, LockServer, Calling
<1>7. ASSUME NEW w \in Workers, FrameFind(w) PROVE Calling'
  BY <1>7 DEF FrameFind, To, Calling
<1>8. ASSUME NEW w \in Workers, NEW a \in Apps, RequestKeep(w, a)
       PROVE Calling'
  BY <1>8 DEF RequestKeep, To, Calling
<1>9. ASSUME NEW w \in Workers, RequestDone(w) PROVE Calling'
  BY <1>9 DEF RequestDone, To, Calling
<1>10. ASSUME NEW w \in Workers, RequestCalls(w) PROVE Calling'
  BY <1>10 DEF RequestCalls, To, Calling
<1>11. ASSUME NEW w \in Workers, LoopDisconnect(w) PROVE Calling'
  BY <1>11 DEF LoopDisconnect, To, Calling
<1>12. ASSUME NEW w \in Workers, LoopSend(w) PROVE Calling'
  BY <1>12 DEF LoopSend, To, Calling
<1>13. ASSUME NEW w \in Workers, FrameEnd(w) PROVE Calling'
  BY <1>13 DEF FrameEnd, To, Destroy, Calling
<1>14. ASSUME NEW w \in Workers, NEW u \in Users,
         NEW d \in {"read", "write"}, CloseBegin(w, u, d) PROVE Calling'
  BY <1>14 DEF CloseBegin, CanCall, Enter, LockServer, Calling
<1>15. ASSUME NEW w \in Workers, CloseErase(w) PROVE Calling'
  BY <1>15 DEF CloseErase, To, Destroy, Calling
<1>16. ASSUME NEW w \in Workers, CallbackEnd(w) PROVE Calling'
  BY <1>16 DEF CallbackEnd, Calling
<1>17. ASSUME NEW a \in Apps, NEW u \in Users,
         NEW q \in {"send", "disconnect"}, Call(a, u, q) PROVE Calling'
  BY <1>17 DEF Call, Calling
<1>18. ASSUME NEW a \in Apps, AppLock(a) PROVE Calling'
  BY <1>18 DEF AppLock, Locked, Calling
<1>19. ASSUME NEW a \in Apps, AppSend(a) PROVE Calling'
  BY <1>19 DEF AppSend, AppReturn, Calling
<1>20. ASSUME NEW a \in Apps, AppDisconnect(a) PROVE Calling'
  BY <1>20 DEF AppDisconnect, AppReturn, Calling
<1>21. ASSUME NEW a \in Apps, NEW u \in Users, Drop(a, u) PROVE Calling'
  BY <1>21 DEF Drop, Destroy, Calling
<1>22. CASE Run
  BY <1>22 DEF Run, Calling
<1>23. CASE Stop
  BY <1>23 DEF Stop, Calling
<1>24. CASE LetGo
  BY <1>24 DEF LetGo, Calling
<1>25. ASSUME NEW w \in Workers, Signal(w) PROVE Calling'
  BY <1>25 DEF Signal, Calling
<1>26. CASE Join
  BY <1>26 DEF Join, Destroy, Calling
<1>27. CASE UNCHANGED vars
  BY <1>27 DEF vars, Calling
<1>. QED
  BY <1>1, <1>2, <1>3, <1>4, <1>5, <1>6, <1>7, <1>8, <1>9, <1>10, <1>11,
     <1>12, <1>13, <1>14, <1>15, <1>16, <1>17, <1>18, <1>19, <1>20, <1>21,
     <1>22, <1>23, <1>24, <1>25, <1>26, <1>27
     DEF Next, Worker, InCallback, InCall

(* Users are handed out from the list.                                     *)
LEMMA KnownStep ==
  WsInv /\ [Next]_vars => Known'
<1>. SUFFICES ASSUME WsInv, [Next]_vars PROVE Known'
  OBVIOUS
<1>. USE DEF WsInv, TypeOK, loopVars, userVars, lockVars, appVars, mainVars,
             UsesBev, UsesWatchdog
<1>1. ASSUME NEW w \in Workers, SetupFails(w) PROVE Known'
  BY <1>1 DEF SetupFails, Known, Callbacks
<1>2. ASSUME NEW w \in Workers, SetupFailsLate(w) PROVE Known'
  BY <1>2 DEF SetupFailsLate, Known, Callbacks
<1>3. ASSUME NEW w \in Workers, Dispatch(w) PROVE Known'
  BY <1>3 DEF Dispatch, Known, Callbacks
<1>4. ASSUME NEW w \in Workers, LoopExit(w) \/ DispatchFails(w) PROVE Known'
  BY <1>4 DEF LoopExit, DispatchFails, LoopGoes, Known, Callbacks
<1>5. ASSUME NEW w \in Workers, NEW u \in Users, Accept(w, u)
       PROVE Known'
  BY <1>5, SetsAssumption DEF Accept, Known
<1>6. ASSUME NEW w \in Workers, NEW u \in Users, FrameBegin(w, u)
       PROVE Known'
  BY <1>6 DEF FrameBegin, CanCall, Enter, LockServer, Known, Callbacks
<1>7. ASSUME NEW w \in Workers, FrameFind(w) PROVE Known'
  BY <1>7 DEF FrameFind, To, Known, Callbacks
<1>8. ASSUME NEW w \in Workers, NEW a \in Apps, RequestKeep(w, a)
       PROVE Known'
  BY <1>8 DEF RequestKeep, To, Known, Callbacks
<1>9. ASSUME NEW w \in Workers, RequestDone(w) PROVE Known'
  BY <1>9 DEF RequestDone, To, Known, Callbacks
<1>10. ASSUME NEW w \in Workers, RequestCalls(w) PROVE Known'
  BY <1>10 DEF RequestCalls, To, Known, Callbacks
<1>11. ASSUME NEW w \in Workers, LoopDisconnect(w) PROVE Known'
  BY <1>11 DEF LoopDisconnect, To, Known, Callbacks
<1>12. ASSUME NEW w \in Workers, LoopSend(w) PROVE Known'
  BY <1>12 DEF LoopSend, To, Known, Callbacks
<1>13. ASSUME NEW w \in Workers, FrameEnd(w) PROVE Known'
  BY <1>13 DEF FrameEnd, To, Destroy, Known, Callbacks
<1>14. ASSUME NEW w \in Workers, NEW u \in Users,
         NEW d \in {"read", "write"}, CloseBegin(w, u, d) PROVE Known'
  BY <1>14 DEF CloseBegin, CanCall, Enter, LockServer, Known, Callbacks
<1>15. ASSUME NEW w \in Workers, CloseErase(w) PROVE Known'
  BY <1>15 DEF CloseErase, To, Destroy, Known, Callbacks
<1>16. ASSUME NEW w \in Workers, CallbackEnd(w) PROVE Known'
  BY <1>16 DEF CallbackEnd, Known, Callbacks
<1>17. ASSUME NEW a \in Apps, NEW u \in Users,
         NEW q \in {"send", "disconnect"}, Call(a, u, q) PROVE Known'
  BY <1>17 DEF Call, Known, Callbacks
<1>18. ASSUME NEW a \in Apps, AppLock(a) PROVE Known'
  BY <1>18 DEF AppLock, Locked, Known, Callbacks
<1>19. ASSUME NEW a \in Apps, AppSend(a) PROVE Known'
  BY <1>19 DEF AppSend, AppReturn, Known, Callbacks
<1>20. ASSUME NEW a \in Apps, AppDisconnect(a) PROVE Known'
  BY <1>20 DEF AppDisconnect, AppReturn, Known, Callbacks
<1>21. ASSUME NEW a \in Apps, NEW u \in Users, Drop(a, u) PROVE Known'
  BY <1>21 DEF Drop, Destroy, Known, Callbacks
<1>22. CASE Run
  BY <1>22 DEF Run, Known, Callbacks
<1>23. CASE Stop
  BY <1>23 DEF Stop, Known, Callbacks
<1>24. CASE LetGo
  BY <1>24 DEF LetGo, Known, Callbacks
<1>25. ASSUME NEW w \in Workers, Signal(w) PROVE Known'
  BY <1>25 DEF Signal, Known, Callbacks
<1>26. CASE Join
  BY <1>26 DEF Join, Destroy, Known, Callbacks
<1>27. CASE UNCHANGED vars
  BY <1>27 DEF vars, Known, Callbacks
<1>. QED
  BY <1>1, <1>2, <1>3, <1>4, <1>5, <1>6, <1>7, <1>8, <1>9, <1>10, <1>11,
     <1>12, <1>13, <1>14, <1>15, <1>16, <1>17, <1>18, <1>19, <1>20, <1>21,
     <1>22, <1>23, <1>24, <1>25, <1>26, <1>27
     DEF Next, Worker, InCallback, InCall

(* A callback keeps what it found.                                         *)
LEMMA CallbacksStep ==
  WsInv /\ [Next]_vars => Callbacks'
<1>. SUFFICES ASSUME WsInv, [Next]_vars PROVE Callbacks'
  OBVIOUS
<1>. USE DEF WsInv, TypeOK, loopVars, userVars, lockVars, appVars, mainVars,
             UsesBev, UsesWatchdog
<1>1. ASSUME NEW w \in Workers, SetupFails(w) PROVE Callbacks'
  BY <1>1 DEF SetupFails, Callbacks, Full
<1>2. ASSUME NEW w \in Workers, SetupFailsLate(w) PROVE Callbacks'
  BY <1>2 DEF SetupFailsLate, Callbacks, Full
<1>3. ASSUME NEW w \in Workers, Dispatch(w) PROVE Callbacks'
  BY <1>3 DEF Dispatch, Callbacks, Full
<1>4. ASSUME NEW w \in Workers, LoopExit(w) \/ DispatchFails(w) PROVE Callbacks'
  BY <1>4 DEF LoopExit, DispatchFails, LoopGoes, Callbacks, Full
<1>5. ASSUME NEW w \in Workers, NEW u \in Users, Accept(w, u)
       PROVE Callbacks'
  BY <1>5, SetsAssumption DEF Accept, Callbacks, Full
<1>6. ASSUME NEW w \in Workers, NEW u \in Users, FrameBegin(w, u)
       PROVE Callbacks'
  BY <1>6 DEF FrameBegin, CanCall, Enter, LockServer, Callbacks, Full
<1>7. ASSUME NEW w \in Workers, FrameFind(w) PROVE Callbacks'
  <2>1. PICK u \in Users : u = wuser[w] BY <1>7 DEF FrameFind, Callbacks
  <2>2. home[u] = w /\ w \in owners /\ "read" \in ev[u]
    BY <1>7, <2>1 DEF FrameFind, Callbacks
  <2>3. u \in pending \/ ev[u] # Full BY <2>2, SetsAssumption DEF Complete
  <2>4. u \in pending \/ "write" \notin ev[u]
    <3>1. ev[u] \subseteq Full BY DEF Full
    <3>. QED BY <2>2, <2>3, <3>1 DEF Full
  <2>5. /\ wpc' = [wpc EXCEPT ![w] = IF u \in pending THEN "request" ELSE "unlisted"]
        /\ UNCHANGED <<loop, wuser, home, bevLock, bev, pending, ev, owners>>
    BY <1>7, <2>1 DEF FrameFind, To
  <2>6. wpc[w] = "frame" BY <1>7 DEF FrameFind
  <2>. QED BY <2>1, <2>4, <2>5, <2>6 DEF Callbacks
<1>8. ASSUME NEW w \in Workers, NEW a \in Apps, RequestKeep(w, a)
       PROVE Callbacks'
  BY <1>8 DEF RequestKeep, To, Callbacks, Full
<1>9. ASSUME NEW w \in Workers, RequestDone(w) PROVE Callbacks'
  BY <1>9 DEF RequestDone, To, Callbacks, Full
<1>10. ASSUME NEW w \in Workers, RequestCalls(w) PROVE Callbacks'
  BY <1>10 DEF RequestCalls, To, Callbacks, Full
<1>11. ASSUME NEW w \in Workers, LoopDisconnect(w) PROVE Callbacks'
  BY <1>11 DEF LoopDisconnect, To, Callbacks, Full
<1>12. ASSUME NEW w \in Workers, LoopSend(w) PROVE Callbacks'
  BY <1>12 DEF LoopSend, To, Callbacks, Full
<1>13. ASSUME NEW w \in Workers, FrameEnd(w) PROVE Callbacks'
  BY <1>13 DEF FrameEnd, To, Destroy, Callbacks, Full
<1>14. ASSUME NEW w \in Workers, NEW u \in Users,
         NEW d \in {"read", "write"}, CloseBegin(w, u, d)
       PROVE Callbacks'
  BY <1>14 DEF CloseBegin, CanCall, Enter, LockServer, Callbacks, Full
<1>15. ASSUME NEW w \in Workers, CloseErase(w) PROVE Callbacks'
  BY <1>15 DEF CloseErase, To, Destroy, Callbacks, Full
<1>16. ASSUME NEW w \in Workers, CallbackEnd(w) PROVE Callbacks'
  BY <1>16 DEF CallbackEnd, Callbacks, Full
<1>17. ASSUME NEW a \in Apps, NEW u \in Users,
         NEW q \in {"send", "disconnect"}, Call(a, u, q) PROVE Callbacks'
  BY <1>17 DEF Call, Callbacks, Full
<1>18. ASSUME NEW a \in Apps, AppLock(a) PROVE Callbacks'
  BY <1>18 DEF AppLock, Locked, Callbacks, Full
<1>19. ASSUME NEW a \in Apps, AppSend(a) PROVE Callbacks'
  BY <1>19 DEF AppSend, AppReturn, Callbacks, Full
<1>20. ASSUME NEW a \in Apps, AppDisconnect(a) PROVE Callbacks'
  <2>1. PICK u \in Users : u = auser[a] BY <1>20 DEF AppDisconnect, Calling
  <2>2. bev[u] # "null" => bevLock[u] = NoOne BY <1>20, <2>1 DEF AppDisconnect
  <2>3. \A v \in Workers : wpc[v] # "idle" /\ bev[wuser[v]] = "live" => wuser[v] # u
    BY <2>2, SetsAssumption DEF Callbacks
  <2>4. \A q \in Users : q # u => bev'[q] = bev[q] BY <1>20, <2>1 DEF AppDisconnect
  <2>5. UNCHANGED <<loop, wpc, wuser, home, bevLock, pending, ev, owners>>
    BY <1>20 DEF AppDisconnect, AppReturn
  <2>6. bev'[u] = "null" BY <1>20, <2>1 DEF AppDisconnect
  <2>. QED BY <2>3, <2>4, <2>5, <2>6 DEF Callbacks
<1>21. ASSUME NEW a \in Apps, NEW u \in Users, Drop(a, u)
       PROVE Callbacks'
  <2>. DEFINE hs == [handles EXCEPT ![a] = @ \ {u}]
  <2>1. PICK us : us = {u} \cap {x \in Users : ~Held(x, pending, hs, wpc)} OBVIOUS
  <2>2. Destroy(us) /\ (us # {} /\ bev[u] # "null" => bevLock[u] = NoOne)
    BY <1>21, <2>1 DEF Drop
  <2>3. UNCHANGED <<loop, wpc, wuser, home, bevLock, pending, ev, owners>>
    BY <1>21 DEF Drop
  <2>4. \A q \in Users : q \notin us => bev'[q] = bev[q] BY <2>2 DEF Destroy
  <2>5. \A v \in Workers : wpc[v] # "idle" /\ bev[wuser[v]] = "live" => wuser[v] \notin us
    <3>. SUFFICES ASSUME NEW v \in Workers, wpc[v] # "idle", bev[wuser[v]] = "live",
                         wuser[v] \in us
                  PROVE  FALSE
      OBVIOUS
    <3>1. wuser[v] = u /\ us # {} BY <2>1
    <3>2. bevLock[u] = v /\ bevLock[u] = NoOne BY <2>2, <3>1 DEF Callbacks
    <3>. QED BY <3>2, SetsAssumption
  <2>6. \A q \in us : bev'[q] = "null" BY <2>1, <2>2 DEF Destroy
  <2>. QED BY <2>3, <2>4, <2>5, <2>6 DEF Callbacks
<1>22. CASE Run
  BY <1>22 DEF Run, Callbacks, Full
<1>23. CASE Stop
  BY <1>23 DEF Stop, Callbacks, Full
<1>24. CASE LetGo
  BY <1>24, SetsAssumption DEF LetGo, Main, Callbacks
<1>25. ASSUME NEW w \in Workers, Signal(w) PROVE Callbacks'
  BY <1>25 DEF Signal, Callbacks, Full
<1>26. CASE Join
  BY <1>26 DEF Join, Destroy, Callbacks, Full
<1>27. CASE UNCHANGED vars
  BY <1>27 DEF vars, Callbacks, Full
<1>. QED
  BY <1>1, <1>2, <1>3, <1>4, <1>5, <1>6, <1>7, <1>8, <1>9, <1>10, <1>11,
     <1>12, <1>13, <1>14, <1>15, <1>16, <1>17, <1>18, <1>19, <1>20, <1>21,
     <1>22, <1>23, <1>24, <1>25, <1>26, <1>27
     DEF Next, Worker, InCallback, InCall

(* What is destroyed stays so.                                             *)
LEMMA GoneStep ==
  WsInv /\ [Next]_vars => Gone'
<1>. SUFFICES ASSUME WsInv, [Next]_vars PROVE Gone'
  OBVIOUS
<1>. USE DEF WsInv, TypeOK, loopVars, userVars, lockVars, appVars, mainVars,
             UsesBev, UsesWatchdog
<1>1. ASSUME NEW w \in Workers, SetupFails(w) PROVE Gone'
  BY <1>1 DEF SetupFails, Gone, Callbacks, Known
<1>2. ASSUME NEW w \in Workers, SetupFailsLate(w) PROVE Gone'
  BY <1>2 DEF SetupFailsLate, Gone, Callbacks, Known
<1>3. ASSUME NEW w \in Workers, Dispatch(w) PROVE Gone'
  BY <1>3 DEF Dispatch, Gone, Callbacks, Known
<1>4. ASSUME NEW w \in Workers, LoopExit(w) \/ DispatchFails(w) PROVE Gone'
  BY <1>4 DEF LoopExit, DispatchFails, LoopGoes, Gone, Callbacks, Known
<1>5. ASSUME NEW w \in Workers, NEW u \in Users, Accept(w, u) PROVE Gone'
  BY <1>5 DEF Accept, Gone, Callbacks, Known
<1>6. ASSUME NEW w \in Workers, NEW u \in Users, FrameBegin(w, u)
       PROVE Gone'
  BY <1>6 DEF FrameBegin, CanCall, Enter, LockServer, Gone, Callbacks, Known
<1>7. ASSUME NEW w \in Workers, FrameFind(w) PROVE Gone'
  BY <1>7 DEF FrameFind, To, Gone, Callbacks, Known
<1>8. ASSUME NEW w \in Workers, NEW a \in Apps, RequestKeep(w, a)
       PROVE Gone'
  BY <1>8 DEF RequestKeep, To, Gone, Callbacks, Known
<1>9. ASSUME NEW w \in Workers, RequestDone(w) PROVE Gone'
  BY <1>9 DEF RequestDone, To, Gone, Callbacks, Known
<1>10. ASSUME NEW w \in Workers, RequestCalls(w) PROVE Gone'
  BY <1>10 DEF RequestCalls, To, Gone, Callbacks, Known
<1>11. ASSUME NEW w \in Workers, LoopDisconnect(w) PROVE Gone'
  BY <1>11 DEF LoopDisconnect, To, Gone, Callbacks, Known
<1>12. ASSUME NEW w \in Workers, LoopSend(w) PROVE Gone'
  BY <1>12 DEF LoopSend, To, Gone, Callbacks, Known
<1>13. ASSUME NEW w \in Workers, FrameEnd(w) PROVE Gone'
  <2>1. wuser[w] \in pending BY <1>13 DEF FrameEnd, Callbacks
  <2>2. Destroy({}) BY ZenonT(60), <1>13, <2>1 DEF FrameEnd, Held
  <2>3. UNCHANGED <<home, pending, handles>> BY <1>13 DEF FrameEnd
  <2>. QED BY <2>2, <2>3, DestroyKeepsGone
<1>14. ASSUME NEW w \in Workers, NEW u \in Users,
         NEW d \in {"read", "write"}, CloseBegin(w, u, d) PROVE Gone'
  BY <1>14 DEF CloseBegin, CanCall, Enter, LockServer, Gone, Callbacks,
     Known
<1>15. ASSUME NEW w \in Workers, CloseErase(w) PROVE Gone'
  <2>. DEFINE list == IF w \in owners THEN pending \ {wuser[w]} ELSE pending
  <2>1. PICK us : us = {u \in pending \ list : ~Held(u, list, handles, wpc)} OBVIOUS
  <2>2. /\ Destroy(us) /\ pending' = list /\ UNCHANGED <<home, handles>>
    BY <1>15, <2>1 DEF CloseErase
  <2>3. \A u \in us : /\ u \notin list /\ home[u] # NoOne
                      /\ \A a \in Apps : u \notin handles[a]
    BY <2>1 DEF Held, Known
  <2>. QED BY <2>1, <2>2, <2>3, DestroyKeepsGone
<1>16. ASSUME NEW w \in Workers, CallbackEnd(w) PROVE Gone'
  BY <1>16 DEF CallbackEnd, Gone, Callbacks, Known
<1>17. ASSUME NEW a \in Apps, NEW u \in Users,
         NEW q \in {"send", "disconnect"}, Call(a, u, q) PROVE Gone'
  BY <1>17 DEF Call, Gone, Callbacks, Known
<1>18. ASSUME NEW a \in Apps, AppLock(a) PROVE Gone'
  BY <1>18 DEF AppLock, Locked, Gone, Callbacks, Known
<1>19. ASSUME NEW a \in Apps, AppSend(a) PROVE Gone'
  BY <1>19 DEF AppSend, AppReturn, Gone, Callbacks, Known
<1>20. ASSUME NEW a \in Apps, AppDisconnect(a) PROVE Gone'
  BY <1>20 DEF AppDisconnect, AppReturn, Gone, Callbacks, Known
<1>21. ASSUME NEW a \in Apps, NEW u \in Users, Drop(a, u) PROVE Gone'
  <2>. DEFINE hs == [handles EXCEPT ![a] = @ \ {u}]
  <2>1. PICK us : us = {u} \cap {x \in Users : ~Held(x, pending, hs, wpc)} OBVIOUS
  <2>2. /\ Destroy(us) /\ handles' = hs /\ UNCHANGED <<home, pending>>
        /\ u \in handles[a]
    BY <1>21, <2>1 DEF Drop
  <2>3. \A q \in us : /\ q \notin pending /\ home[q] # NoOne
                      /\ \A b \in Apps : q \notin hs[b]
    BY <2>1, <2>2 DEF Held, Known
  <2>4. \A b \in Apps : hs[b] \subseteq handles[b] OBVIOUS
  <2>. QED BY <2>1, <2>2, <2>3, <2>4, DestroyKeepsGone
<1>22. CASE Run
  BY <1>22 DEF Run, Gone, Callbacks, Known
<1>23. CASE Stop
  BY <1>23 DEF Stop, Gone, Callbacks, Known
<1>24. CASE LetGo
  BY <1>24 DEF LetGo, Gone, Callbacks, Known
<1>25. ASSUME NEW w \in Workers, Signal(w) PROVE Gone'
  BY <1>25 DEF Signal, Gone, Callbacks, Known
<1>26. CASE Join
  <2>1. UNCHANGED <<home, handles>> BY <1>26 DEF Join
  <2>2. CASE Main \in owners BY <1>26, <2>2 DEF Join, Gone
  <2>3. CASE Main \notin owners
    <3>1. PICK us : us = {u \in pending : ~Held(u, {}, handles, wpc)} OBVIOUS
    <3>2. Destroy(us) /\ pending' = {} BY <1>26, <2>3, <3>1 DEF Join
    <3>3. \A u \in us : home[u] # NoOne /\ \A a \in Apps : u \notin handles[a]
      BY <3>1 DEF Held, Known
    <3>. QED BY <2>1, <3>1, <3>2, <3>3, DestroyKeepsGone
  <2>. QED BY <2>2, <2>3
<1>27. CASE UNCHANGED vars
  BY <1>27 DEF vars, Gone, Callbacks, Known
<1>. QED
  BY <1>1, <1>2, <1>3, <1>4, <1>5, <1>6, <1>7, <1>8, <1>9, <1>10, <1>11,
     <1>12, <1>13, <1>14, <1>15, <1>16, <1>17, <1>18, <1>19, <1>20, <1>21,
     <1>22, <1>23, <1>24, <1>25, <1>26, <1>27
     DEF Next, Worker, InCallback, InCall

(* A user is listed until it closes.                                       *)
LEMMA CompleteStep ==
  WsInv /\ [Next]_vars => Complete'
<1>. SUFFICES ASSUME WsInv, [Next]_vars PROVE Complete'
  OBVIOUS
<1>. USE DEF WsInv, TypeOK, loopVars, userVars, lockVars, appVars, mainVars,
             UsesBev, UsesWatchdog
<1>1. ASSUME NEW w \in Workers, SetupFails(w) PROVE Complete'
  BY <1>1 DEF SetupFails, Complete, Callbacks, Full
<1>2. ASSUME NEW w \in Workers, SetupFailsLate(w) PROVE Complete'
  BY <1>2 DEF SetupFailsLate, Complete, Callbacks, Full
<1>3. ASSUME NEW w \in Workers, Dispatch(w) PROVE Complete'
  BY <1>3 DEF Dispatch, Complete, Callbacks, Full
<1>4. ASSUME NEW w \in Workers, LoopExit(w) \/ DispatchFails(w) PROVE Complete'
  BY <1>4 DEF LoopExit, DispatchFails, LoopGoes, Complete, Callbacks, Full
<1>5. ASSUME NEW w \in Workers, NEW u \in Users, Accept(w, u)
       PROVE Complete'
  BY <1>5 DEF Accept, Complete, Callbacks, Full
<1>6. ASSUME NEW w \in Workers, NEW u \in Users, FrameBegin(w, u)
       PROVE Complete'
  BY <1>6 DEF FrameBegin, CanCall, Enter, LockServer, Complete, Callbacks,
     Full
<1>7. ASSUME NEW w \in Workers, FrameFind(w) PROVE Complete'
  BY <1>7 DEF FrameFind, To, Complete, Callbacks, Full
<1>8. ASSUME NEW w \in Workers, NEW a \in Apps, RequestKeep(w, a)
       PROVE Complete'
  BY <1>8 DEF RequestKeep, To, Complete, Callbacks, Full
<1>9. ASSUME NEW w \in Workers, RequestDone(w) PROVE Complete'
  BY <1>9 DEF RequestDone, To, Complete, Callbacks, Full
<1>10. ASSUME NEW w \in Workers, RequestCalls(w) PROVE Complete'
  BY <1>10 DEF RequestCalls, To, Complete, Callbacks, Full
<1>11. ASSUME NEW w \in Workers, LoopDisconnect(w) PROVE Complete'
  BY <1>11 DEF LoopDisconnect, To, Complete, Callbacks, Full
<1>12. ASSUME NEW w \in Workers, LoopSend(w) PROVE Complete'
  BY <1>12 DEF LoopSend, To, Complete, Callbacks, Full
<1>13. ASSUME NEW w \in Workers, FrameEnd(w) PROVE Complete'
  BY <1>13 DEF FrameEnd, To, Destroy, Complete, Callbacks, Full
<1>14. ASSUME NEW w \in Workers, NEW u \in Users,
         NEW d \in {"read", "write"}, CloseBegin(w, u, d) PROVE Complete'
  BY <1>14 DEF CloseBegin, CanCall, Enter, LockServer, Complete, Callbacks,
     Full
<1>15. ASSUME NEW w \in Workers, CloseErase(w) PROVE Complete'
  BY <1>15 DEF CloseErase, To, Destroy, Complete, Callbacks, Full
<1>16. ASSUME NEW w \in Workers, CallbackEnd(w) PROVE Complete'
  BY <1>16 DEF CallbackEnd, Complete, Callbacks, Full
<1>17. ASSUME NEW a \in Apps, NEW u \in Users,
         NEW q \in {"send", "disconnect"}, Call(a, u, q) PROVE Complete'
  BY <1>17 DEF Call, Complete, Callbacks, Full
<1>18. ASSUME NEW a \in Apps, AppLock(a) PROVE Complete'
  BY <1>18 DEF AppLock, Locked, Complete, Callbacks, Full
<1>19. ASSUME NEW a \in Apps, AppSend(a) PROVE Complete'
  BY <1>19 DEF AppSend, AppReturn, Complete, Callbacks, Full
<1>20. ASSUME NEW a \in Apps, AppDisconnect(a) PROVE Complete'
  BY <1>20 DEF AppDisconnect, AppReturn, Complete, Callbacks, Full
<1>21. ASSUME NEW a \in Apps, NEW u \in Users, Drop(a, u) PROVE Complete'
  BY <1>21 DEF Drop, Destroy, Complete, Callbacks, Full
<1>22. CASE Run
  BY <1>22 DEF Run, Complete, Callbacks, Full
<1>23. CASE Stop
  BY <1>23 DEF Stop, Complete, Callbacks, Full
<1>24. CASE LetGo
  BY <1>24 DEF LetGo, Complete, Callbacks, Full
<1>25. ASSUME NEW w \in Workers, Signal(w) PROVE Complete'
  BY <1>25 DEF Signal, Complete, Callbacks, Full
<1>26. CASE Join
  <2>1. mpc = "join" /\ UNCHANGED <<home, ev, owners>> BY <1>26 DEF Join
  <2>2. CASE Main \in owners BY <1>26, <2>1, <2>2 DEF Join, Complete
  <2>3. CASE Main \notin owners
    <3>1. \A w \in Workers : w \notin owners
      BY <1>26 DEF Join, Owning, Callbacks
    <3>2. owners = {} BY <2>3, <3>1
    <3>3. mpc' = "destroyed" BY <1>26, <2>3 DEF Join
    <3>. QED BY <2>1, <3>2, <3>3 DEF Complete
  <2>. QED BY <2>2, <2>3
<1>27. CASE UNCHANGED vars
  BY <1>27 DEF vars, Complete, Callbacks, Full
<1>. QED
  BY <1>1, <1>2, <1>3, <1>4, <1>5, <1>6, <1>7, <1>8, <1>9, <1>10, <1>11,
     <1>12, <1>13, <1>14, <1>15, <1>16, <1>17, <1>18, <1>19, <1>20, <1>21,
     <1>22, <1>23, <1>24, <1>25, <1>26, <1>27
     DEF Next, Worker, InCallback, InCall

(* What a loop leaves behind stays what it is.                             *)
LEMMA EndedStep ==
  WsInv /\ [Next]_vars => Ended'
<1>. SUFFICES ASSUME WsInv, [Next]_vars PROVE Ended'
  OBVIOUS
<1>. USE DEF WsInv, TypeOK, loopVars, userVars, lockVars, appVars, mainVars,
             UsesBev, UsesWatchdog
<1>1. ASSUME NEW w \in Workers, SetupFails(w) PROVE Ended'
  BY <1>1 DEF SetupFails, Ended, Over
<1>2. ASSUME NEW w \in Workers, SetupFailsLate(w) PROVE Ended'
  BY <1>2 DEF SetupFailsLate, Ended, Over
<1>3. ASSUME NEW w \in Workers, Dispatch(w) PROVE Ended'
  BY <1>3 DEF Dispatch, Ended, Over
<1>4. ASSUME NEW w \in Workers, LoopExit(w) \/ DispatchFails(w) PROVE Ended'
  BY <1>4 DEF LoopExit, DispatchFails, LoopGoes, Ended, Over
<1>5. ASSUME NEW w \in Workers, NEW u \in Users, Accept(w, u)
       PROVE Ended'
  <2>1. /\ loop[w] = "loop" /\ home[u] = NoOne /\ home' = [home EXCEPT ![u] = w]
        /\ bev' = [bev EXCEPT ![u] = "live"]
        /\ UNCHANGED <<loop, watchdog, runs, mpc, ub>>
    BY <1>5 DEF Accept
  <2>2. \A q \in Users : q # u => home'[q] = home[q] /\ bev'[q] = bev[q]
    BY <2>1
  <2>3. home'[u] = w /\ bev'[u] = "live" /\ w # NoOne
    BY <2>1, SetsAssumption
  <2>. QED BY <2>1, <2>2, <2>3 DEF Ended, Over
<1>6. ASSUME NEW w \in Workers, NEW u \in Users, FrameBegin(w, u)
       PROVE Ended'
  BY <1>6 DEF FrameBegin, CanCall, Enter, LockServer, Ended, Over,
     Callbacks
<1>7. ASSUME NEW w \in Workers, FrameFind(w) PROVE Ended'
  BY <1>7 DEF FrameFind, To, Ended, Over
<1>8. ASSUME NEW w \in Workers, NEW a \in Apps, RequestKeep(w, a)
       PROVE Ended'
  BY <1>8 DEF RequestKeep, To, Ended, Over
<1>9. ASSUME NEW w \in Workers, RequestDone(w) PROVE Ended'
  BY <1>9 DEF RequestDone, To, Ended, Over
<1>10. ASSUME NEW w \in Workers, RequestCalls(w) PROVE Ended'
  BY <1>10 DEF RequestCalls, To, Ended, Over
<1>11. ASSUME NEW w \in Workers, LoopDisconnect(w) PROVE Ended'
  BY <1>11 DEF LoopDisconnect, To, Callbacks, Ended, Over
<1>12. ASSUME NEW w \in Workers, LoopSend(w) PROVE Ended'
  BY <1>12 DEF LoopSend, To, Callbacks, Ended, Over
<1>13. ASSUME NEW w \in Workers, FrameEnd(w) PROVE Ended'
  BY <1>13 DEF FrameEnd, To, Destroy, Ended, Over
<1>14. ASSUME NEW w \in Workers, NEW u \in Users,
         NEW d \in {"read", "write"}, CloseBegin(w, u, d) PROVE Ended'
  BY <1>14 DEF CloseBegin, CanCall, Enter, LockServer, Ended, Over,
     Callbacks
<1>15. ASSUME NEW w \in Workers, CloseErase(w) PROVE Ended'
  BY <1>15 DEF CloseErase, To, Destroy, Ended, Over
<1>16. ASSUME NEW w \in Workers, CallbackEnd(w) PROVE Ended'
  <2>1. ub = "none" /\ UNCHANGED <<loop, watchdog, home, bev, runs, ub>>
    BY <1>16 DEF CallbackEnd, Up
  <2>. QED BY <2>1 DEF Ended, Over
<1>17. ASSUME NEW a \in Apps, NEW u \in Users,
         NEW q \in {"send", "disconnect"}, Call(a, u, q) PROVE Ended'
  BY <1>17 DEF Call, Ended, Over
<1>18. ASSUME NEW a \in Apps, AppLock(a) PROVE Ended'
  BY <1>18 DEF AppLock, Locked, Ended, Over
<1>19. ASSUME NEW a \in Apps, AppSend(a) PROVE Ended'
  <2>1. /\ auser[a] \in Users /\ UNCHANGED <<loop, watchdog, home, bev, runs, mpc>>
        /\ ub' = IF bev[auser[a]] = "orphan" THEN "bufferevent" ELSE ub
    BY <1>19 DEF AppSend, AppReturn, Calling
  <2>. QED BY <2>1 DEF Ended, Over
<1>20. ASSUME NEW a \in Apps, AppDisconnect(a) PROVE Ended'
  <2>1. /\ auser[a] \in Users /\ UNCHANGED <<loop, watchdog, home, runs, mpc>>
        /\ ub' = IF bev[auser[a]] = "orphan" THEN "bufferevent" ELSE ub
        /\ bev' = [bev EXCEPT ![auser[a]] = "null"]
    BY <1>20 DEF AppDisconnect, AppReturn, Calling
  <2>. QED BY <2>1 DEF Ended, Over
<1>21. ASSUME NEW a \in Apps, NEW u \in Users, Drop(a, u) PROVE Ended'
  BY <1>21 DEF Drop, Destroy, Ended, Over
<1>22. CASE Run
  <2>1. /\ ub = "none" /\ \A w \in Workers : loop[w] = "none" /\ loop'[w] = "starting"
        /\ runs' = runs + 1 /\ UNCHANGED <<watchdog, home, bev, ub, mpc>>
    BY <1>22 DEF Run, Up
  <2>2. runs \in Nat BY SetsAssumption
  <2>3. \A u \in Users : bev[u] # "live" BY <2>1 DEF Ended
  <2>4. runs' # 0 /\ (runs # 0 => runs' > 1) BY <2>1, <2>2
  <2>. QED BY <2>1, <2>3, <2>4 DEF Ended, Over
<1>23. CASE Stop
  BY <1>23 DEF Stop, Ended, Over
<1>24. CASE LetGo
  BY <1>24 DEF LetGo, Ended, Over
<1>25. ASSUME NEW w \in Workers, Signal(w) PROVE Ended'
  BY <1>25 DEF Signal, Ended, Over
<1>26. CASE Join
  <2>1. /\ ub = "none" /\ UNCHANGED <<watchdog, home, runs>>
        /\ \A w \in Workers : loop[w] \in {"gone", "none"} /\ loop'[w] = "none"
        /\ ub' \in {"none", "bufferevent"} /\ (ub' = "bufferevent" => pending # {})
    BY <1>26 DEF Join, Destroy, Up
  <2>2. \A u \in Users : bev'[u] = bev[u] \/ bev'[u] = "null"
    BY <1>26 DEF Join, Destroy
  <2>3. ub' = "bufferevent" => \E u \in Users : bev[u] = "orphan"
    BY <1>26, <2>1 DEF Join, Destroy
  <2>4. (\E u \in Users : bev[u] = "orphan") => \E w \in Workers : TRUE
    BY DEF Ended
  <2>5. \A w \in Workers : loop[w] = "none" => loop'[w] = loop[w] BY <2>1
  <2>. QED BY <2>1, <2>2, <2>3, <2>4, <2>5 DEF Ended, Over
<1>27. CASE UNCHANGED vars
  BY <1>27 DEF vars, Ended, Over
<1>. QED
  BY <1>1, <1>2, <1>3, <1>4, <1>5, <1>6, <1>7, <1>8, <1>9, <1>10, <1>11,
     <1>12, <1>13, <1>14, <1>15, <1>16, <1>17, <1>18, <1>19, <1>20, <1>21,
     <1>22, <1>23, <1>24, <1>25, <1>26, <1>27
     DEF Next, Worker, InCallback, InCall

(* The server is made without users and loops.                             *)
LEMMA WsInvInit == Init => WsInv
  BY SetsAssumption
  DEF Init, WsInv, TypeOK, Callbacks, Owning, Calling, Gone, Known, Complete, Ended,
      Over, Main

(* Every step keeps every part of the invariant.                           *)
LEMMA WsInvStep == WsInv /\ [Next]_vars => WsInv'
  BY WsTypeStep, CallbacksStep, OwningStep, CallingStep, GoneStep, KnownStep,
     CompleteStep, EndedStep
  DEF WsInv

(* What the run checks follows.                                            *)
LEMMA WsInvExact == WsInv => UsersExact
<1>. SUFFICES ASSUME WsInv PROVE UsersExact
  OBVIOUS
<1>1. TypeOK BY DEF WsInv
<1>2. \A a \in Apps : apc[a] # "idle" => auser[a] \notin destroyed
  BY DEF WsInv, Calling, Gone
<1>3. \A w \in Workers : wpc[w] # "idle" /\ wuser[w] \in destroyed
                           => wpc[w] = "closed" /\ ev[wuser[w]] # {"read", "write"}
  BY DEF WsInv, TypeOK, Callbacks, Gone, Full
<1>4. \A u \in destroyed : bev[u] = "null" /\ u \notin pending
  BY DEF WsInv, Gone
<1>5. ListExact BY DEF WsInv, Callbacks, Complete, Full, ListExact
<1>6. LoopsAlive BY DEF WsInv, Callbacks, Ended, Over, LoopsAlive
<1>. QED BY <1>1, <1>2, <1>3, <1>4, <1>5, <1>6 DEF UsersExact, UsersAlive

(* No thread works on a user after its destructor, but for the close of    *)
(* the last reference (callback_keeper.hpp:25), and pending_list holds     *)
(* every user whose close was not reported (server_ws_win.hpp:12, 128).    *)
THEOREM UsersLive == Spec => []UsersExact
  BY WsInvInit, WsInvStep, WsInvExact, PTL DEF Spec
=============================================================================
