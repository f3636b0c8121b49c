----------------------------- MODULE WebServer -----------------------------
(***************************************************************************)
(* server::server (web_server/server_win.hpp): worker threads, each with   *)
(* its own libevent loop, that answer HTTP requests or hold them for       *)
(* register_uploader; a controller that calls run and stop.  A worker is   *)
(* reached from other threads through two events of its loop: event_upload *)
(* and the watchdog.                                                       *)
(*                                                                         *)
(* libevent is external: it runs the events that were activated in their   *)
(* order, one at a time, and requests between them; activating an active   *)
(* event changes nothing; the events die with their loop.  The variable ub *)
(* records the use of something dead, after which nothing is specified.    *)
(***************************************************************************)
EXTENDS Integers, Sequences, FiniteSets

CONSTANTS
  NumThreads,   \* __num_threads
  Clients,      \* threads that call register_uploader
  Requests,     \* the requests of a behaviour
  MaxRuns,      \* bound: calls of run that start the workers
  NoWorker      \* the request has not arrived

ASSUME ServerConstants ==
  /\ NumThreads \in Nat \ {0}
  /\ MaxRuns \in Nat
  /\ NoWorker \notin 1 .. NumThreads

VARIABLES
  thread,       \* worker_thread is not null
  wpc,          \* where each worker is in _worker_proc or in a callback
  sock,         \* fd is open
  event_upload, watchdog,  \* "null", "live" or "dead" (its loop is gone)
  active,       \* the activated events of each loop, in order
  uploaders,    \* the requests of wc.uploaders
  uix,          \* the element _event_handler is at
  request,      \* what became of each request
  home,         \* the worker that received it
  cpc, creq,    \* client: its place in register_uploader and its request
  kpc, kix,     \* controller: its place in run or stop and its index
  starts,       \* calls of run that started the workers
  ub,           \* what dead thing was used, if any
  failed,       \* history: workers whose setup failed
  aborted,      \* history: _event_handler returned before its end
  late,         \* history: register_uploader overlapped stop or the failure
                \*   of a loop, or came after
  missed        \* history: stop found no watchdog of a running worker

loopVars == <<sock, event_upload, watchdog, active>>
uploadVars == <<uploaders, uix>>
requestVars == <<request, home>>
clientVars == <<cpc, creq, late>>
controlVars == <<thread, kpc, kix, starts, missed>>
vars == <<wpc, loopVars, uploadVars, requestVars, clientVars, controlVars, ub,
          failed, aborted>>

Worker == 1 .. NumThreads

Init ==
  /\ thread = [w \in Worker |-> FALSE]
  /\ wpc = [w \in Worker |-> "exit"]
  /\ sock = [w \in Worker |-> FALSE]
  /\ event_upload = [w \in Worker |-> "null"]
  /\ watchdog = [w \in Worker |-> "null"]
  /\ active = [w \in Worker |-> <<>>]
  /\ uploaders = [w \in Worker |-> <<>>]
  /\ uix = [w \in Worker |-> 1]
  /\ request = [r \in Requests |-> "new"]
  /\ home = [r \in Requests |-> NoWorker]
  /\ cpc = [c \in Clients |-> "idle"]
  /\ creq = [c \in Clients |-> CHOOSE r \in Requests : TRUE]
  /\ kpc = "idle" /\ kix = 1
  /\ starts = 0
  /\ ub = "none"
  /\ failed = {}
  /\ aborted = FALSE /\ late = FALSE /\ missed = FALSE

GoTo(w, place) == wpc' = [wpc EXCEPT ![w] = place]

(* event_active of event e of worker w, which is in the given state.       *)
Activated(w, e) ==
  IF \E i \in DOMAIN active[w] : active[w][i] = e
  THEN active ELSE [active EXCEPT ![w] = Append(@, e)]
EventActive(w, e, state) ==
  IF state = "live"
  THEN active' = Activated(w, e) /\ UNCHANGED ub
  ELSE ub' = "dead event" /\ UNCHANGED active

-----------------------------------------------------------------------------
(* _worker_proc, lines 229-405                                             *)

(* Lines 230-359: one of the steps up to the TLS context fails; a socket   *)
(* that is open stays open.                                                *)
SetupFails(w) ==
  /\ wpc[w] = "setup"
  /\ \E open \in BOOLEAN : sock' = [sock EXCEPT ![w] = open]
  /\ failed' = failed \cup {w}
  /\ GoTo(w, "exit")
  /\ UNCHANGED <<event_upload, watchdog, active, uploadVars, requestVars,
                 clientVars, controlVars, ub, aborted>>

(* A new event takes the place of one left by an earlier run, which is     *)
(* freed.                                                                  *)
Replaces(state) == ub' = IF state = "dead" THEN "dead event" ELSE ub

(* Lines 369-370, after everything before has succeeded.                   *)
MakeUpload(w) ==
  /\ wpc[w] = "setup"
  /\ sock' = [sock EXCEPT ![w] = TRUE]
  /\ event_upload' = [event_upload EXCEPT ![w] = "live"]
  /\ Replaces(event_upload[w])
  /\ GoTo(w, "accept")
  /\ UNCHANGED <<watchdog, active, uploadVars, requestVars, clientVars,
                 controlVars, failed, aborted>>

(* Lines 376-379: accept fails; the loop dies, its event stays in wc.      *)
AcceptFails(w) ==
  /\ wpc[w] = "accept"
  /\ event_upload' = [event_upload EXCEPT ![w] = "dead"]
  /\ active' = [active EXCEPT ![w] = <<>>]
  /\ failed' = failed \cup {w}
  /\ GoTo(w, "exit")
  /\ UNCHANGED <<sock, watchdog, uploadVars, requestVars, clientVars,
                 controlVars, ub, aborted>>

(* Lines 381-383.                                                          *)
MakeWatchdog(w) ==
  /\ wpc[w] = "accept"
  /\ watchdog' = [watchdog EXCEPT ![w] = "live"]
  /\ Replaces(watchdog[w])
  /\ GoTo(w, "add")
  /\ UNCHANGED <<sock, event_upload, active, uploadVars, requestVars,
                 clientVars, controlVars, failed, aborted>>

(* Lines 384-387: the watchdog cannot be added.                            *)
AddFails(w) ==
  /\ wpc[w] = "add"
  /\ event_upload' = [event_upload EXCEPT ![w] = "dead"]
  /\ watchdog' = [watchdog EXCEPT ![w] = "dead"]
  /\ active' = [active EXCEPT ![w] = <<>>]
  /\ failed' = failed \cup {w}
  /\ GoTo(w, "exit")
  /\ UNCHANGED <<sock, uploadVars, requestVars, clientVars, controlVars, ub,
                 aborted>>

(* Line 389.                                                               *)
Dispatch(w) ==
  /\ wpc[w] = "add"
  /\ GoTo(w, "loop")
  /\ UNCHANGED <<loopVars, uploadVars, requestVars, clientVars, controlVars,
                 ub, failed, aborted>>

(* The requests a dying loop takes with it.                                *)
Dropped(w) ==
  [r \in Requests |->
     IF home[r] = w /\ request[r] # "answered" THEN "gone" ELSE request[r]]

(* What reset leaves of an event, lines 393-394.                           *)
AfterReset_forgotten == "dead"
AfterReset == "null"

(* Lines 393-404: the loop is taken down.  wc.uploaders is left as it is.  *)
LoopGoes(w) ==
  /\ wpc[w] = "loop"
  /\ active' = [active EXCEPT ![w] = <<>>]
  /\ event_upload' = [event_upload EXCEPT ![w] = AfterReset]
  /\ watchdog' = [watchdog EXCEPT ![w] = AfterReset]
  /\ sock' = [sock EXCEPT ![w] = FALSE]
  /\ request' = Dropped(w)
  /\ GoTo(w, "exit")
  /\ UNCHANGED <<uploadVars, home, cpc, creq, controlVars, ub, failed, aborted>>

(* The watchdog's callback, lines 224-227, breaks the loop.                *)
LoopBreak(w) ==
  /\ active[w] # <<>> /\ Head(active[w]) = "watchdog"
  /\ LoopGoes(w)
  /\ UNCHANGED late

(* What was registered with worker w and is not answered.                  *)
Pending(w) ==
  uploaders[w] # <<>> \/ \E c \in Clients : cpc[c] = "activate" /\ home[creq[c]] = w

(* Lines 389-391: event_base_dispatch fails and the worker goes on below   *)
(* as if the loop had been broken; no stop is under way.                   *)
DispatchFails(w) ==
  /\ LoopGoes(w)
  /\ late' = (late \/ Pending(w))

-----------------------------------------------------------------------------
(* _process_request, lines 407-567                                         *)

(* Every way out but hold sends one answer: OPTIONS and empty requests     *)
(* (419, 428), unsupported compression and all compressed data (446, 482,  *)
(* 488), data that is not JSON, a handler that refuses or throws (504-525),*)
(* a failed compression (543, 555), and the replies of 561 and 566.        *)
Respond(w, r) ==
  /\ wpc[w] = "loop"
  /\ request[r] = "new"
  /\ request' = [request EXCEPT ![r] = "answered"]
  /\ home' = [home EXCEPT ![r] = w]
  /\ UNCHANGED <<wpc, loopVars, uploadVars, clientVars, controlVars, ub,
                 failed, aborted>>

(* Lines 508-517: on_request asks to hold the request; from here on other  *)
(* threads may register an uploader for it.                                *)
Hold(w, r) ==
  /\ wpc[w] = "loop"
  /\ request[r] = "new"
  /\ request' = [request EXCEPT ![r] = "held"]
  /\ home' = [home EXCEPT ![r] = w]
  /\ GoTo(w, "own")
  /\ UNCHANGED <<loopVars, uploadVars, clientVars, controlVars, ub, failed, aborted>>

(* Lines 529-533: evhttp_request_own.                                      *)
Own(w) ==
  /\ wpc[w] = "own"
  /\ request' = [r \in Requests |->
                   IF home[r] = w /\ request[r] = "held" THEN "owned" ELSE request[r]]
  /\ GoTo(w, "loop")
  /\ UNCHANGED <<loopVars, uploadVars, home, clientVars, controlVars, ub,
                 failed, aborted>>

-----------------------------------------------------------------------------
(* _event_handler, lines 144-201: under uploaders_cs from here to its end  *)

UploadBegin(w) ==
  /\ wpc[w] = "loop"
  /\ active[w] # <<>> /\ Head(active[w]) = "upload"
  /\ active' = [active EXCEPT ![w] = Tail(@)]
  /\ uix' = [uix EXCEPT ![w] = 1]
  /\ GoTo(w, "upload")
  /\ UNCHANGED <<sock, event_upload, watchdog, uploaders, requestVars,
                 clientVars, controlVars, ub, failed, aborted>>

(* An answer to request r, which is dead unless it is owned.               *)
Answer(r) ==
  IF request[r] = "owned"
  THEN request' = [request EXCEPT ![r] = "answered"] /\ UNCHANGED ub
  ELSE ub' = "dead request" /\ UNCHANGED request

(* Lines 153-197: the uploader prepared an answer and it is sent.          *)
UploadOne(w) ==
  /\ wpc[w] = "upload"
  /\ uix[w] <= Len(uploaders[w])
  /\ Answer(uploaders[w][uix[w]])
  /\ uix' = [uix EXCEPT ![w] = @ + 1]
  /\ UNCHANGED <<wpc, loopVars, uploaders, home, clientVars, controlVars,
                 failed, aborted>>

(* Lines 160-164, 173-176, 185-188 and 191-194: the uploader fails, the    *)
(* answer cannot be compressed or is empty; it is answered as well, and    *)
(* the handler returns with the list as it is.                             *)
UploadReturns(w) ==
  /\ wpc[w] = "upload"
  /\ uix[w] <= Len(uploaders[w])
  /\ Answer(uploaders[w][uix[w]])
  /\ aborted' = TRUE
  /\ GoTo(w, "loop")
  /\ UNCHANGED <<loopVars, uploadVars, home, clientVars, controlVars, failed>>

(* Line 199.                                                               *)
Cleared_kept(w) == uploaders
Cleared(w) == [uploaders EXCEPT ![w] = <<>>]

UploadEnd(w) ==
  /\ wpc[w] = "upload"
  /\ uix[w] > Len(uploaders[w])
  /\ uploaders' = Cleared(w)
  /\ GoTo(w, "loop")
  /\ UNCHANGED <<loopVars, uix, requestVars, clientVars, controlVars, ub,
                 failed, aborted>>

-----------------------------------------------------------------------------
(* register_uploader, lines 666-673                                        *)

InLoop(w) == wpc[w] \in {"loop", "own", "upload"}

(* stop is under way, or the worker of the request has ended.              *)
TooLate(r) == kpc # "idle" \/ ~InLoop(home[r]) \/ request[r] = "gone"

Registered(r) ==
  \/ \E w \in Worker : \E i \in DOMAIN uploaders[w] : uploaders[w][i] = r
  \/ \E c \in Clients : cpc[c] = "activate" /\ creq[c] = r

(* A client that has the context of a held request; it registers once.     *)
RegisterPush(c, r) ==
  /\ cpc[c] = "idle"
  /\ request[r] \in {"held", "owned", "gone"}
  /\ home[r] # NoWorker
  /\ ~Registered(r)
  /\ wpc[home[r]] # "upload"
  /\ uploaders' = [uploaders EXCEPT ![home[r]] = Append(@, r)]
  /\ late' = (late \/ TooLate(r))
  /\ creq' = [creq EXCEPT ![c] = r]
  /\ cpc' = [cpc EXCEPT ![c] = "activate"]
  /\ UNCHANGED <<wpc, loopVars, uix, requestVars, controlVars, ub, failed, aborted>>

RegisterActivate_forgotten(c) ==
  /\ cpc[c] = "activate"
  /\ cpc' = [cpc EXCEPT ![c] = "idle"]
  /\ UNCHANGED <<wpc, loopVars, uploadVars, requestVars, creq, late,
                 controlVars, ub, failed, aborted>>
RegisterActivate(c) ==
  /\ cpc[c] = "activate"
  /\ EventActive(home[creq[c]], "upload", event_upload[home[creq[c]]])
  /\ cpc' = [cpc EXCEPT ![c] = "idle"]
  /\ UNCHANGED <<wpc, sock, event_upload, watchdog, uploadVars, requestVars,
                 creq, late, controlVars, failed, aborted>>

-----------------------------------------------------------------------------
(* run, lines 639-664, and stop, lines 675-689                             *)

NextIx(next, done) ==
  IF kix = NumThreads THEN kpc' = done /\ kix' = 1 ELSE kpc' = next /\ kix' = kix + 1

(* Lines 647-658: nothing is started while there is a thread.              *)
RunBegin ==
  /\ kpc = "idle"
  /\ \A w \in Worker : ~thread[w]
  /\ starts < MaxRuns
  /\ starts' = starts + 1
  /\ kpc' = "spawn" /\ kix' = 1
  /\ UNCHANGED <<wpc, loopVars, uploadVars, requestVars, clientVars, thread,
                 missed, ub, failed, aborted>>

(* Lines 660-663 of one index.                                             *)
RunSpawn ==
  /\ kpc = "spawn"
  /\ thread' = [thread EXCEPT ![kix] = TRUE]
  /\ GoTo(kix, "setup")
  /\ NextIx("spawn", "idle")
  /\ UNCHANGED <<loopVars, uploadVars, requestVars, clientVars, starts,
                 missed, ub, failed, aborted>>

StopBegin ==
  /\ kpc = "idle"
  /\ kpc' = "signal" /\ kix' = 1
  /\ late' = (late \/ \E c \in Clients : cpc[c] = "activate")
  /\ UNCHANGED <<wpc, loopVars, uploadVars, requestVars, cpc, creq, thread,
                 starts, missed, ub, failed, aborted>>

(* Lines 676-681 of one index.                                             *)
StopSignal ==
  /\ kpc = "signal"
  /\ IF watchdog[kix] = "null"
     THEN UNCHANGED <<active, ub>>
     ELSE EventActive(kix, "watchdog", watchdog[kix])
  /\ missed' = (missed \/ (watchdog[kix] = "null" /\ wpc[kix] # "exit"))
  /\ NextIx("signal", "join")
  /\ UNCHANGED <<wpc, sock, event_upload, watchdog, uploadVars, requestVars,
                 clientVars, thread, starts, failed, aborted>>

(* Lines 682-688 of one index.                                             *)
Joined_always(w) == TRUE
Joined(w) == thread[w] => wpc[w] = "exit"

StopJoin ==
  /\ kpc = "join"
  /\ Joined(kix)
  /\ thread' = [thread EXCEPT ![kix] = FALSE]
  /\ NextIx("join", "idle")
  /\ UNCHANGED <<wpc, loopVars, uploadVars, requestVars, clientVars, starts,
                 missed, ub, failed, aborted>>

-----------------------------------------------------------------------------

Setup(w) ==
  \/ SetupFails(w) \/ MakeUpload(w) \/ AcceptFails(w) \/ MakeWatchdog(w)
  \/ AddFails(w) \/ Dispatch(w)

Loop(w) ==
  \/ LoopBreak(w) \/ Own(w)
  \/ UploadBegin(w) \/ UploadOne(w) \/ UploadReturns(w) \/ UploadEnd(w)

Control == RunSpawn \/ StopSignal \/ StopJoin

Next ==
  /\ ub = "none"
  /\ \/ \E w \in Worker : Setup(w) \/ Loop(w)
     \/ \E w \in Worker, r \in Requests : Respond(w, r) \/ Hold(w, r)
     \/ \E w \in Worker : DispatchFails(w)
     \/ \E c \in Clients : RegisterActivate(c)
     \/ \E c \in Clients, r \in Requests : RegisterPush(c, r)
     \/ RunBegin \/ StopBegin \/ Control

Spec == Init /\ [][Next]_vars

(* Threads run, callbacks and uploaders return; nobody has to call run,    *)
(* stop or register_uploader, no request has to arrive and no loop to fail.*)
FairSpec ==
  /\ Spec
  /\ \A w \in Worker :
       /\ WF_vars(ub = "none" /\ Setup(w))
       /\ WF_vars(ub = "none" /\ Loop(w))
  /\ \A c \in Clients : WF_vars(ub = "none" /\ RegisterActivate(c))
  /\ WF_vars(ub = "none" /\ Control)

-----------------------------------------------------------------------------
(* Properties                                                              *)

(* Types; what is activated belongs to a loop that is there, and a request *)
(* that waits has a worker in its loop.                                    *)
TypeOK ==
  /\ thread \in [Worker -> BOOLEAN]
  /\ wpc \in [Worker ->
               {"exit", "setup", "accept", "add", "loop", "own", "upload"}]
  /\ sock \in [Worker -> BOOLEAN]
  /\ event_upload \in [Worker -> {"null", "live", "dead"}]
  /\ watchdog \in [Worker -> {"null", "live", "dead"}]
  /\ active \in [Worker -> Seq({"upload", "watchdog"})]
  /\ \A w \in Worker : active[w] # <<>> => wpc[w] \in {"accept", "add"} \/ InLoop(w)
  /\ uploaders \in [Worker -> Seq(Requests)]
  /\ request \in [Requests -> {"new", "held", "owned", "answered", "gone"}]
  /\ \A r \in Requests : request[r] \in {"held", "owned"} => InLoop(home[r])
  /\ cpc \in [Clients -> {"idle", "activate"}]
  /\ creq \in [Clients -> Requests]
  /\ kpc \in {"idle", "spawn", "signal", "join"}
  /\ kix \in Worker

(* No request is answered twice or after its connection is gone, although  *)
(* it may be registered before it is owned, unless _event_handler once     *)
(* returned early, which leaves answered requests in the list, or          *)
(* register_uploader overlapped stop or a dispatch that fails              *)
(* (server_win.hpp:389), which leave them to the next run.                 *)
AnsweredOnce == ub = "dead request" => aborted \/ late

(* Nobody activates or frees an event after its loop is gone, over any     *)
(* number of runs, stops and loops that fail, unless a worker's setup      *)
(* failed half way or register_uploader came too late.                     *)
EventsLive == ub = "dead event" => failed # {} \/ late

(* When stop has returned nothing is left of a worker that came up: its    *)
(* thread has ended, its socket is closed and its events are gone.         *)
DownClean ==
  kpc = "idle" /\ (\A w \in Worker : ~thread[w]) =>
    \A w \in Worker :
      /\ wpc[w] = "exit"
      /\ w \notin failed =>
           ~sock[w] /\ event_upload[w] = "null" /\ watchdog[w] = "null"

Broken == ub # "none"

(* A registered uploader answers its request, also when stop is called     *)
(* before the loop gets to it; a loop that fails leaves it.                *)
UploadsAnswered ==
  \A r \in Requests :
    Registered(r) ~> (request[r] = "answered" \/ aborted \/ late \/ Broken)

(* stop returns, if it found the watchdog of every worker that runs.       *)
StopReturns == kpc = "signal" ~> (kpc = "idle" \/ missed \/ Broken)

(* Uploaders answer, and stop returns.                                     *)
WebProgress == UploadsAnswered /\ StopReturns
=============================================================================
