-------------------------- MODULE WebServer_proofs --------------------------
(***************************************************************************)
(* No request of the web server is answered twice and no event is used     *)
(* after its loop, but in the cases the two properties name, for any       *)
(* number of workers, clients, requests and runs.                          *)
(***************************************************************************)
EXTENDS WebServer, SequenceTheorems, TLAPS

Event == {"upload", "watchdog"}

WebTypes ==
  /\ thread \in [Worker -> BOOLEAN]
  /\ wpc \in [Worker ->
               {"exit", "setup", "accept", "add", "loop", "own", "upload"}]
  /\ event_upload \in [Worker -> {"null", "live", "dead"}]
  /\ watchdog \in [Worker -> {"null", "live", "dead"}]
  /\ active \in [Worker -> Seq(Event)]
  /\ uploaders \in [Worker -> Seq(Requests)]
  /\ uix \in [Worker -> Nat \ {0}]
  /\ request \in [Requests -> {"new", "held", "owned", "answered", "gone"}]
  /\ home \in [Requests -> Worker \cup {NoWorker}]
  /\ cpc \in [Clients -> {"idle", "activate"}]
  /\ creq \in [Clients -> Requests \cup {CHOOSE r \in Requests : TRUE}]
  /\ kpc \in {"idle", "spawn", "signal", "join"} /\ kix \in Worker
  /\ late \in BOOLEAN /\ aborted \in BOOLEAN

(* Without a thread a worker is at its end; run starts and stop joins them *)
(* in order; the watchdog is activated by stop only.                       *)
WebPlaces ==
  /\ \A w \in Worker : ~thread[w] => wpc[w] = "exit"
  /\ kpc = "spawn" => \A w \in Worker : w >= kix => ~thread[w]
  /\ kpc = "join" => \A w \in Worker : w < kix => ~thread[w]
  /\ \A w \in Worker : active[w] # <<>> => wpc[w] \notin {"exit", "setup"}
  /\ \A w \in Worker : \A i \in DOMAIN active[w] :
       active[w][i] = "watchdog" => kpc \in {"signal", "join"}

(* A loop has its events; one that is dead was left by a failed setup.     *)
WebEvents ==
  \A w \in Worker :
    /\ event_upload[w] = "live" <=> wpc[w] \in {"accept", "add"} \/ InLoop(w)
    /\ watchdog[w] = "live" <=> wpc[w] = "add" \/ InLoop(w)
    /\ event_upload[w] = "dead" \/ watchdog[w] = "dead" => failed # {}

(* A request that arrived has a worker, and one that is held and not yet   *)
(* owned is the worker's present one.                                      *)
WebRequests ==
  \A r \in Requests :
    /\ request[r] # "new" => home[r] \in Worker
    /\ request[r] = "held" => wpc[home[r]] = "own"

(* Between its two steps a client in time meets a loop that nobody stops.  *)
WebClients ==
  \A c \in Clients : cpc[c] = "activate" =>
    /\ creq[c] \in Requests /\ request[creq[c]] # "new"
    /\ ~late => kpc \in {"idle", "spawn"} /\ InLoop(home[creq[c]])

(* The list of a worker: its own requests, each once, that wait for their  *)
(* answer from where the handler is.                                       *)
Waits(w, i) == wpc[w] = "upload" => i >= uix[w]

Listed(w) ==
  /\ \A i \in DOMAIN uploaders[w] :
       /\ home[uploaders[w][i]] = w
       /\ Waits(w, i) => request[uploaders[w][i]] \in {"held", "owned"}
       /\ request[uploaders[w][i]] # "new"
  /\ \A i, j \in DOMAIN uploaders[w] : uploaders[w][i] = uploaders[w][j] => i = j

(* A list that is not empty is looked at before the loop can be broken.    *)
Attended(w) ==
  InLoop(w) /\ (\/ wpc[w] = "upload"
                \/ \E c \in Clients : cpc[c] = "activate" /\ home[creq[c]] = w
                \/ active[w] # <<>> /\ active[w][1] = "upload")

Served(w) == Listed(w) /\ (uploaders[w] # <<>> => Attended(w))

WebUploads == ~late /\ ~aborted => \A w \in Worker : Served(w)

WebInv ==
  /\ WebTypes /\ WebPlaces /\ WebEvents /\ WebRequests /\ WebClients
  /\ WebUploads
  /\ AnsweredOnce /\ EventsLive

(* The workers are the numbers up to NumThreads.                           *)
LEMMA WorkerIx ==
  /\ 1 \in Worker /\ NumThreads \in Worker
  /\ \A w \in Worker : w \in Int /\ 1 <= w /\ w <= NumThreads
  /\ \A w \in Worker : w # NumThreads => w + 1 \in Worker
  BY ServerConstants DEF Worker

(* The loops of run and stop go to the next worker, or end behind the last.*)
LEMMA NextIxGoes ==
  ASSUME kix \in Worker, NEW next, NEW done, NextIx(next, done)
  PROVE  /\ kix' \in Worker
         /\ \/ kix = NumThreads /\ kpc' = done
            \/ kpc' = next /\ kix' = kix + 1
  BY WorkerIx DEF NextIx

(* Activating an event appends it to those of its loop, if it is not there.*)
LEMMA ActivatedAppends ==
  ASSUME active \in [Worker -> Seq(Event)], NEW w \in Worker, NEW e \in Event
  PROVE  /\ Activated(w, e) \in [Worker -> Seq(Event)]
         /\ \A v \in Worker : v # w => Activated(w, e)[v] = active[v]
         /\ \A i \in DOMAIN Activated(w, e)[w] :
              \/ Activated(w, e)[w][i] = e
              \/ i \in DOMAIN active[w] /\ Activated(w, e)[w][i] = active[w][i]
         /\ Activated(w, e)[w] # <<>>
         /\ \A v \in Worker : active[v] # <<>> =>
              Activated(w, e)[v] # <<>> /\ Activated(w, e)[v][1] = active[v][1]
<1>. DEFINE s == active[w]
            t == Append(s, e)
<1>0. s \in Seq(Event) OBVIOUS
<1>1. CASE \E i \in DOMAIN s : s[i] = e
  <2>1. Activated(w, e) = active BY <1>1 DEF Activated
  <2>2. s # <<>> BY <1>0, <1>1
  <2>. QED BY <2>1, <2>2
<1>2. CASE ~ \E i \in DOMAIN s : s[i] = e
  <2>1. Activated(w, e) = [active EXCEPT ![w] = t] BY <1>2 DEF Activated
  <2>2. /\ t \in Seq(Event) /\ t # <<>>
        /\ \A i \in DOMAIN t : t[i] = e \/ (i \in DOMAIN s /\ t[i] = s[i])
        /\ s # <<>> => t[1] = s[1]
    BY <1>0, AppendProperties, EmptySeq
  <2>. HIDE DEF t
  <2>3. Activated(w, e)[w] = t /\ \A v \in Worker : v # w => Activated(w, e)[v] = active[v]
    BY <2>1
  <2>. QED BY <2>1, <2>2, <2>3
<1>. QED BY <1>1, <1>2

(* The same of event_active: nothing is activated but e, behind the rest.  *)
Activates(w, e) ==
  /\ active' \in [Worker -> Seq(Event)]
  /\ \A v \in Worker : v # w => active'[v] = active[v]
  /\ \A i \in DOMAIN active'[w] :
       active'[w][i] = e \/ (i \in DOMAIN active[w] /\ active'[w][i] = active[w][i])
  /\ \A v \in Worker : active[v] # <<>> =>
       active'[v] # <<>> /\ active'[v][1] = active[v][1]

(* event_active appends to a live loop, and on a dead event it is          *)
(* undefined.                                                              *)
LEMMA EventActivates ==
  ASSUME active \in [Worker -> Seq(Event)], NEW w \in Worker, NEW e \in Event,
         NEW state, EventActive(w, e, state)
  PROVE  /\ Activates(w, e)
         /\ state = "live" => active'[w] # <<>> /\ UNCHANGED ub
         /\ state # "live" => UNCHANGED active /\ ub' = "dead event"
<1>1. CASE state = "live"
  <2>1. active' = Activated(w, e) /\ UNCHANGED ub BY <1>1 DEF EventActive
  <2>2. active' \in [Worker -> Seq(Event)] BY <2>1, ActivatedAppends
  <2>3. \A v \in Worker : v # w => active'[v] = active[v] BY <2>1, ActivatedAppends
  <2>4. \A i \in DOMAIN active'[w] :
         active'[w][i] = e \/ (i \in DOMAIN active[w] /\ active'[w][i] = active[w][i])
    BY <2>1, ActivatedAppends
  <2>5. \A v \in Worker : active[v] # <<>> =>
         active'[v] # <<>> /\ active'[v][1] = active[v][1]
    <3>1. \A v \in Worker : active[v] # <<>> =>
           Activated(w, e)[v] # <<>> /\ Activated(w, e)[v][1] = active[v][1]
      BY ActivatedAppends
    <3>. QED BY <2>1, <3>1
  <2>6. active'[w] # <<>> BY <2>1, ActivatedAppends
  <2>. QED BY <1>1, <2>1, <2>2, <2>3, <2>4, <2>5, <2>6 DEF Activates
<1>2. CASE state # "live"
  BY <1>2 DEF EventActive, Activates
<1>. QED BY <1>1, <1>2

(* An answer changes its request only, and only one that is owned.         *)
LEMMA AnswerSets ==
  ASSUME WebTypes, NEW r \in Requests, Answer(r)
  PROVE  /\ request' \in [Requests -> {"new", "held", "owned", "answered", "gone"}]
         /\ \A q \in Requests :
              \/ request'[q] = request[q]
              \/ q = r /\ request[q] = "owned" /\ request'[q] = "answered"
         /\ request[r] = "owned" => UNCHANGED ub
         /\ request[r] # "owned" => ub' = "dead request"
  BY DEF WebTypes, Answer

(* A client's worker, and the element the handler is at.                   *)
LEMMA ClientHome ==
  ASSUME WebInv, NEW c \in Clients, cpc[c] = "activate"
  PROVE  home[creq[c]] \in Worker
  BY DEF WebInv, WebClients, WebRequests

(* The element the handler is at is a request of its list.                 *)
LEMMA Element ==
  ASSUME WebTypes, NEW w \in Worker, uix[w] <= Len(uploaders[w])
  PROVE  uix[w] \in DOMAIN uploaders[w] /\ uploaders[w][uix[w]] \in Requests
<1>1. uploaders[w] \in Seq(Requests) /\ uix[w] \in Nat \ {0} BY DEF WebTypes
<1>2. uix[w] \in 1 .. Len(uploaders[w]) BY <1>1
<1>. QED BY <1>1, <1>2, ElementOfSeq

(* Every step keeps the types.                                             *)
LEMMA WebTypesStep ==
  WebInv /\ [Next]_vars => WebTypes'
<1>. SUFFICES ASSUME WebInv, [Next]_vars PROVE WebTypes'
  OBVIOUS
<1>. USE DEF WebInv, WebTypes, loopVars, uploadVars, requestVars,
     clientVars, controlVars, GoTo
<1>1. ASSUME NEW w \in Worker, SetupFails(w) PROVE WebTypes'
  BY <1>1 DEF SetupFails
<1>2. ASSUME NEW w \in Worker, MakeUpload(w) PROVE WebTypes'
  BY <1>2 DEF MakeUpload, Replaces
<1>3. ASSUME NEW w \in Worker, AcceptFails(w) PROVE WebTypes'
  BY <1>3 DEF AcceptFails
<1>4. ASSUME NEW w \in Worker, MakeWatchdog(w) PROVE WebTypes'
  BY <1>4 DEF MakeWatchdog, Replaces
<1>5. ASSUME NEW w \in Worker, AddFails(w) PROVE WebTypes'
  BY <1>5 DEF AddFails
<1>6. ASSUME NEW w \in Worker, Dispatch(w) PROVE WebTypes'
  BY <1>6 DEF Dispatch
<1>7. ASSUME NEW w \in Worker, LoopBreak(w) \/ DispatchFails(w)
      PROVE  WebTypes'
  <2>1. LoopGoes(w) BY <1>7 DEF LoopBreak, DispatchFails
  <2>2. late' \in BOOLEAN
    <3>1. late' = late \/ late' = (late \/ Pending(w))
      BY <1>7 DEF LoopBreak, DispatchFails
    <3>. QED BY <3>1
  <2>. QED BY <2>1, <2>2 DEF LoopGoes, Dropped, AfterReset
<1>8. ASSUME NEW w \in Worker, Own(w) PROVE WebTypes'
  BY <1>8 DEF Own
<1>9. ASSUME NEW w \in Worker, UploadBegin(w) PROVE WebTypes'
  BY <1>9 DEF UploadBegin
<1>10. ASSUME NEW w \in Worker, UploadOne(w) PROVE WebTypes'
  <2>1. PICK r \in Requests : r = uploaders[w][uix[w]] BY <1>10, Element DEF UploadOne
  <2>2. Answer(r) BY <1>10, <2>1 DEF UploadOne
  <2>3. uix' \in [Worker -> Nat \ {0}] BY <1>10 DEF UploadOne
  <2>. QED BY <1>10, <2>2, <2>3, AnswerSets DEF UploadOne
<1>11. ASSUME NEW w \in Worker, UploadReturns(w) PROVE WebTypes'
  BY ZenonT(60), <1>11 DEF UploadReturns, Answer
<1>12. ASSUME NEW w \in Worker, UploadEnd(w) PROVE WebTypes'
  BY <1>12 DEF UploadEnd, Cleared
<1>13. ASSUME NEW w \in Worker, NEW r \in Requests, Respond(w, r) PROVE WebTypes'
  BY <1>13 DEF Respond
<1>14. ASSUME NEW w \in Worker, NEW r \in Requests, Hold(w, r) PROVE WebTypes'
  BY <1>14 DEF Hold
<1>15. ASSUME NEW c \in Clients, RegisterActivate(c) PROVE WebTypes'
  <2>1. PICK w \in Worker : w = home[creq[c]] BY <1>15, ClientHome DEF RegisterActivate
  <2>2. EventActive(w, "upload", event_upload[w]) BY <1>15, <2>1 DEF RegisterActivate
  <2>3. Activates(w, "upload") BY <2>2, EventActivates DEF Event
  <2>. QED BY <1>15, <2>3 DEF RegisterActivate, Activates
<1>16. ASSUME NEW c \in Clients, NEW r \in Requests, RegisterPush(c, r) PROVE WebTypes'
  BY <1>16 DEF RegisterPush
<1>17. CASE RunBegin
  BY <1>17, WorkerIx DEF RunBegin
<1>18. CASE RunSpawn
  <2>1. kix' \in Worker /\ kpc' \in {"idle", "spawn"}
    BY <1>18, NextIxGoes DEF RunSpawn
  <2>. QED BY <1>18, <2>1 DEF RunSpawn
<1>19. CASE StopBegin
  BY <1>19, WorkerIx DEF StopBegin
<1>20. CASE StopSignal
  <2>1. PICK w \in Worker : w = kix OBVIOUS
  <2>2. UNCHANGED active \/ EventActive(w, "watchdog", watchdog[w])
    BY <1>20, <2>1 DEF StopSignal
  <2>3. UNCHANGED active \/ Activates(w, "watchdog")
    BY <2>2, EventActivates DEF Event
  <2>4. kix' \in Worker /\ kpc' \in {"signal", "join"}
    BY <1>20, NextIxGoes DEF StopSignal
  <2>. QED BY <1>20, <2>3, <2>4 DEF StopSignal, Activates
<1>21. CASE StopJoin
  <2>1. kix' \in Worker /\ kpc' \in {"idle", "join"}
    BY <1>21, NextIxGoes DEF StopJoin
  <2>. QED BY <1>21, <2>1 DEF StopJoin
<1>22. CASE UNCHANGED vars
  BY <1>22 DEF vars
<1>. QED
  BY <1>1, <1>2, <1>3, <1>4, <1>5, <1>6, <1>7, <1>8, <1>9, <1>10, <1>11,
     <1>12, <1>13, <1>14, <1>15, <1>16, <1>17, <1>18, <1>19, <1>20, <1>21,
     <1>22
     DEF Next, Setup, Loop, Control

(* Events live and die with their loop.                                    *)
LEMMA WebEventsStep ==
  WebInv /\ [Next]_vars => WebEvents'
<1>. SUFFICES ASSUME WebInv, [Next]_vars PROVE WebEvents'
  OBVIOUS
<1>. USE DEF WebInv, WebTypes, loopVars, uploadVars, requestVars,
     clientVars, controlVars, GoTo
<1>1. ASSUME NEW w \in Worker, SetupFails(w) PROVE WebEvents'
  BY <1>1 DEF SetupFails, WebEvents, WebPlaces, InLoop
<1>2. ASSUME NEW w \in Worker, MakeUpload(w) PROVE WebEvents'
  BY ZenonT(60), <1>2 DEF MakeUpload, Replaces, WebEvents, WebPlaces, InLoop
<1>3. ASSUME NEW w \in Worker, AcceptFails(w) PROVE WebEvents'
  BY <1>3 DEF AcceptFails, WebEvents, WebPlaces, InLoop
<1>4. ASSUME NEW w \in Worker, MakeWatchdog(w) PROVE WebEvents'
  BY ZenonT(60), <1>4 DEF MakeWatchdog, Replaces, WebEvents, WebPlaces, InLoop
<1>5. ASSUME NEW w \in Worker, AddFails(w) PROVE WebEvents'
  BY <1>5 DEF AddFails, WebEvents, WebPlaces, InLoop
<1>6. ASSUME NEW w \in Worker, Dispatch(w) PROVE WebEvents'
  BY <1>6 DEF Dispatch, WebEvents, WebPlaces, InLoop
<1>7. ASSUME NEW w \in Worker, LoopBreak(w) \/ DispatchFails(w)
      PROVE  WebEvents'
  <2>1. LoopGoes(w) BY <1>7 DEF LoopBreak, DispatchFails
  <2>. QED BY <2>1 DEF LoopGoes, Dropped, AfterReset, WebEvents, WebPlaces, InLoop
<1>8. ASSUME NEW w \in Worker, Own(w) PROVE WebEvents'
  BY <1>8 DEF Own, WebEvents, WebPlaces, InLoop
<1>9. ASSUME NEW w \in Worker, UploadBegin(w) PROVE WebEvents'
  BY <1>9 DEF UploadBegin, WebEvents, WebPlaces, InLoop
<1>10. ASSUME NEW w \in Worker, UploadOne(w) PROVE WebEvents'
  BY <1>10 DEF UploadOne, Answer, WebEvents, WebPlaces, InLoop
<1>11. ASSUME NEW w \in Worker, UploadReturns(w) PROVE WebEvents'
  BY ZenonT(60), <1>11 DEF UploadReturns, Answer, WebEvents, WebPlaces, InLoop
<1>12. ASSUME NEW w \in Worker, UploadEnd(w) PROVE WebEvents'
  BY <1>12 DEF UploadEnd, Cleared, WebEvents, WebPlaces, InLoop
<1>13. ASSUME NEW w \in Worker, NEW r \in Requests, Respond(w, r) PROVE WebEvents'
  BY <1>13 DEF Respond, WebEvents, WebPlaces, InLoop
<1>14. ASSUME NEW w \in Worker, NEW r \in Requests, Hold(w, r) PROVE WebEvents'
  BY <1>14 DEF Hold, WebEvents, WebPlaces, InLoop
<1>15. ASSUME NEW c \in Clients, RegisterActivate(c) PROVE WebEvents'
  BY <1>15 DEF RegisterActivate, EventActive, Activated, WebEvents,
     WebPlaces, InLoop
<1>16. ASSUME NEW c \in Clients, NEW r \in Requests, RegisterPush(c, r) PROVE WebEvents'
  BY <1>16 DEF RegisterPush, WebEvents, WebPlaces, InLoop
<1>17. CASE RunBegin
  BY <1>17 DEF RunBegin, WebEvents, WebPlaces, InLoop
<1>18. CASE RunSpawn
  <2>1. wpc[kix] = "exit" BY <1>18, WorkerIx DEF RunSpawn, WebPlaces
  <2>. QED BY <1>18, <2>1 DEF RunSpawn, WebEvents, InLoop
<1>19. CASE StopBegin
  BY <1>19 DEF StopBegin, WebEvents, WebPlaces, InLoop
<1>20. CASE StopSignal
  BY <1>20 DEF StopSignal, EventActive, Activated, NextIx, WebEvents,
     WebPlaces, InLoop
<1>21. CASE StopJoin
  BY <1>21 DEF StopJoin, NextIx, Joined, WebEvents, WebPlaces, InLoop
<1>22. CASE UNCHANGED vars
  BY <1>22 DEF vars, WebEvents, WebPlaces, InLoop
<1>. QED
  BY <1>1, <1>2, <1>3, <1>4, <1>5, <1>6, <1>7, <1>8, <1>9, <1>10, <1>11,
     <1>12, <1>13, <1>14, <1>15, <1>16, <1>17, <1>18, <1>19, <1>20, <1>21,
     <1>22
     DEF Next, Setup, Loop, Control

(* A request stays with its worker.                                        *)
LEMMA WebRequestsStep ==
  WebInv /\ [Next]_vars => WebRequests'
<1>. SUFFICES ASSUME WebInv, [Next]_vars PROVE WebRequests'
  OBVIOUS
<1>. USE DEF WebInv, WebTypes, loopVars, uploadVars, requestVars,
     clientVars, controlVars, GoTo
<1>1. ASSUME NEW w \in Worker, SetupFails(w) PROVE WebRequests'
  BY <1>1 DEF SetupFails, WebRequests, WebPlaces
<1>2. ASSUME NEW w \in Worker, MakeUpload(w) PROVE WebRequests'
  BY <1>2 DEF MakeUpload, Replaces, WebRequests, WebPlaces
<1>3. ASSUME NEW w \in Worker, AcceptFails(w) PROVE WebRequests'
  BY <1>3 DEF AcceptFails, WebRequests, WebPlaces
<1>4. ASSUME NEW w \in Worker, MakeWatchdog(w) PROVE WebRequests'
  BY <1>4 DEF MakeWatchdog, Replaces, WebRequests, WebPlaces
<1>5. ASSUME NEW w \in Worker, AddFails(w) PROVE WebRequests'
  BY <1>5 DEF AddFails, WebRequests, WebPlaces
<1>6. ASSUME NEW w \in Worker, Dispatch(w) PROVE WebRequests'
  BY <1>6 DEF Dispatch, WebRequests, WebPlaces
<1>7. ASSUME NEW w \in Worker, LoopBreak(w) \/ DispatchFails(w)
      PROVE  WebRequests'
  <2>1. LoopGoes(w) BY <1>7 DEF LoopBreak, DispatchFails
  <2>. QED BY <2>1 DEF LoopGoes, Dropped, AfterReset, WebRequests, WebPlaces
<1>8. ASSUME NEW w \in Worker, Own(w) PROVE WebRequests'
  BY <1>8 DEF Own, WebRequests, WebPlaces
<1>9. ASSUME NEW w \in Worker, UploadBegin(w) PROVE WebRequests'
  BY <1>9 DEF UploadBegin, WebRequests, WebPlaces
<1>10. ASSUME NEW w \in Worker, UploadOne(w) PROVE WebRequests'
  <2>1. PICK r \in Requests : r = uploaders[w][uix[w]] BY <1>10, Element DEF UploadOne
  <2>2. Answer(r) BY <1>10, <2>1 DEF UploadOne
  <2>3. /\ UNCHANGED home
        /\ \A v \in Worker : wpc[v] = "own" => wpc'[v] = "own"
    BY <1>10 DEF UploadOne
  <2>. HIDE DEF WebTypes
  <2>4. \A q \in Requests :
         request'[q] = request[q] \/ (request[q] = "owned" /\ request'[q] = "answered")
    BY <2>2, AnswerSets
  <2>. QED BY <2>3, <2>4 DEF WebRequests
<1>11. ASSUME NEW w \in Worker, UploadReturns(w) PROVE WebRequests'
  <2>1. PICK r \in Requests : r = uploaders[w][uix[w]] BY <1>11, Element DEF UploadReturns
  <2>2. Answer(r) BY <1>11, <2>1 DEF UploadReturns
  <2>3. /\ UNCHANGED home
        /\ \A v \in Worker : wpc[v] = "own" => wpc'[v] = "own"
    BY <1>11 DEF UploadReturns
  <2>. HIDE DEF WebTypes
  <2>4. \A q \in Requests :
         request'[q] = request[q] \/ (request[q] = "owned" /\ request'[q] = "answered")
    BY <2>2, AnswerSets
  <2>. QED BY <2>3, <2>4 DEF WebRequests
<1>12. ASSUME NEW w \in Worker, UploadEnd(w) PROVE WebRequests'
  BY <1>12 DEF UploadEnd, Cleared, WebRequests, WebPlaces
<1>13. ASSUME NEW w \in Worker, NEW r \in Requests, Respond(w, r) PROVE WebRequests'
  BY <1>13 DEF Respond, WebRequests, WebPlaces
<1>14. ASSUME NEW w \in Worker, NEW r \in Requests, Hold(w, r) PROVE WebRequests'
  BY <1>14 DEF Hold, WebRequests, WebPlaces
<1>15. ASSUME NEW c \in Clients, RegisterActivate(c) PROVE WebRequests'
  BY <1>15 DEF RegisterActivate, EventActive, Activated, WebRequests,
     WebPlaces
<1>16. ASSUME NEW c \in Clients, NEW r \in Requests, RegisterPush(c, r) PROVE WebRequests'
  BY <1>16 DEF RegisterPush, WebRequests, WebPlaces
<1>17. CASE RunBegin
  BY <1>17 DEF RunBegin, WebRequests, WebPlaces
<1>18. CASE RunSpawn
  <2>1. wpc[kix] = "exit" BY <1>18, WorkerIx DEF RunSpawn, WebPlaces
  <2>. QED BY <1>18, <2>1 DEF RunSpawn, WebRequests
<1>19. CASE StopBegin
  BY <1>19 DEF StopBegin, WebRequests, WebPlaces
<1>20. CASE StopSignal
  BY <1>20 DEF StopSignal, EventActive, Activated, NextIx, WebRequests,
     WebPlaces
<1>21. CASE StopJoin
  BY <1>21 DEF StopJoin, NextIx, Joined, WebRequests, WebPlaces
<1>22. CASE UNCHANGED vars
  BY <1>22 DEF vars, WebRequests, WebPlaces
<1>. QED
  BY <1>1, <1>2, <1>3, <1>4, <1>5, <1>6, <1>7, <1>8, <1>9, <1>10, <1>11,
     <1>12, <1>13, <1>14, <1>15, <1>16, <1>17, <1>18, <1>19, <1>20, <1>21,
     <1>22
     DEF Next, Setup, Loop, Control

(* Threads are started and joined in order.                                *)
LEMMA WebPlacesStep ==
  WebInv /\ [Next]_vars => WebPlaces'
<1>. SUFFICES ASSUME WebInv, [Next]_vars PROVE WebPlaces'
  OBVIOUS
<1>. USE DEF WebInv, WebTypes, loopVars, uploadVars, requestVars,
     clientVars, controlVars, GoTo
<1>1. ASSUME NEW w \in Worker, SetupFails(w) PROVE WebPlaces'
  BY <1>1 DEF SetupFails, WebPlaces
<1>2. ASSUME NEW w \in Worker, MakeUpload(w) PROVE WebPlaces'
  BY ZenonT(60), <1>2 DEF MakeUpload, Replaces, WebPlaces
<1>3. ASSUME NEW w \in Worker, AcceptFails(w) PROVE WebPlaces'
  BY <1>3 DEF AcceptFails, WebPlaces
<1>4. ASSUME NEW w \in Worker, MakeWatchdog(w) PROVE WebPlaces'
  BY ZenonT(60), <1>4 DEF MakeWatchdog, Replaces, WebPlaces
<1>5. ASSUME NEW w \in Worker, AddFails(w) PROVE WebPlaces'
  BY <1>5 DEF AddFails, WebPlaces
<1>6. ASSUME NEW w \in Worker, Dispatch(w) PROVE WebPlaces'
  BY <1>6 DEF Dispatch, WebPlaces
<1>7. ASSUME NEW w \in Worker, LoopBreak(w) \/ DispatchFails(w)
      PROVE  WebPlaces'
  <2>1. LoopGoes(w) BY <1>7 DEF LoopBreak, DispatchFails
  <2>. QED BY <2>1 DEF LoopGoes, Dropped, AfterReset, WebPlaces
<1>8. ASSUME NEW w \in Worker, Own(w) PROVE WebPlaces'
  BY <1>8 DEF Own, WebPlaces
<1>9. ASSUME NEW w \in Worker, UploadBegin(w) PROVE WebPlaces'
  BY <1>9 DEF UploadBegin, WebPlaces
<1>10. ASSUME NEW w \in Worker, UploadOne(w) PROVE WebPlaces'
  BY <1>10 DEF UploadOne, Answer, WebPlaces
<1>11. ASSUME NEW w \in Worker, UploadReturns(w) PROVE WebPlaces'
  BY ZenonT(60), <1>11 DEF UploadReturns, Answer, WebPlaces
<1>12. ASSUME NEW w \in Worker, UploadEnd(w) PROVE WebPlaces'
  BY <1>12 DEF UploadEnd, Cleared, WebPlaces
<1>13. ASSUME NEW w \in Worker, NEW r \in Requests, Respond(w, r) PROVE WebPlaces'
  BY <1>13 DEF Respond, WebPlaces
<1>14. ASSUME NEW w \in Worker, NEW r \in Requests, Hold(w, r) PROVE WebPlaces'
  BY <1>14 DEF Hold, WebPlaces
<1>15. ASSUME NEW c \in Clients, RegisterActivate(c) PROVE WebPlaces'
  <2>1. PICK w \in Worker : w = home[creq[c]] BY <1>15, ClientHome DEF RegisterActivate
  <2>2. EventActive(w, "upload", event_upload[w]) BY <1>15, <2>1 DEF RegisterActivate
  <2>3. Activates(w, "upload") BY <2>2, EventActivates DEF Event
  <2>4. UNCHANGED <<thread, wpc, kpc, kix>> BY <1>15 DEF RegisterActivate
  <2>5. active' # active => wpc[w] \notin {"exit", "setup"}
    BY <2>2, EventActivates DEF Event, WebEvents, InLoop
  <2>6. \A v \in Worker : active'[v] # <<>> => wpc'[v] \notin {"exit", "setup"}
    BY <2>3, <2>4, <2>5 DEF Activates, WebPlaces
  <2>7. \A v \in Worker : \A i \in DOMAIN active'[v] :
          active'[v][i] = "watchdog" => kpc \in {"signal", "join"}
    <3>. HIDE DEF WebTypes
    <3>1. \A i \in DOMAIN active'[w] : active'[w][i] = "watchdog" =>
            i \in DOMAIN active[w] /\ active[w][i] = "watchdog"
      BY <2>3 DEF Activates
    <3>2. \A v \in Worker : v # w => active'[v] = active[v] BY <2>3 DEF Activates
    <3>. QED BY <3>1, <3>2 DEF WebPlaces
  <2>. QED BY <2>4, <2>6, <2>7 DEF WebPlaces
<1>16. ASSUME NEW c \in Clients, NEW r \in Requests, RegisterPush(c, r) PROVE WebPlaces'
  BY <1>16 DEF RegisterPush, WebPlaces
<1>17. CASE RunBegin
  BY <1>17 DEF RunBegin, WebPlaces
<1>18. CASE RunSpawn
  <2>1. PICK w \in Worker : w = kix OBVIOUS
  <2>2. /\ kpc = "spawn" /\ thread' = [thread EXCEPT ![w] = TRUE]
        /\ wpc' = [wpc EXCEPT ![w] = "setup"] /\ UNCHANGED active
    BY <1>18, <2>1 DEF RunSpawn
  <2>3. \/ kpc' = "idle"
        \/ kpc' = "spawn" /\ kix' = w + 1
    BY <1>18, <2>1, NextIxGoes DEF RunSpawn
  <2>4. \A v \in Worker : v >= w => ~thread[v] BY <2>1, <2>2 DEF WebPlaces
  <2>5. ~thread[w] BY <2>4, WorkerIx
  <2>6. active[w] = <<>> BY <2>5 DEF WebPlaces
  <2>7. kpc' = "spawn" => \A v \in Worker : v >= kix' => ~thread'[v]
    <3>1. \A v \in Worker : v # w => thread'[v] = thread[v] BY <2>2
    <3>. HIDE DEF WebTypes
    <3>2. \A v \in Worker : v >= w + 1 => v >= w /\ v # w BY WorkerIx
    <3>. QED BY <2>3, <2>4, <3>1, <3>2
  <2>8. \A v \in Worker : ~thread'[v] => wpc'[v] = "exit"
    BY <2>2 DEF WebPlaces
  <2>9. \A v \in Worker : active'[v] # <<>> => wpc'[v] \notin {"exit", "setup"}
    BY <2>2, <2>6 DEF WebPlaces
  <2>10. \A v \in Worker : \A i \in DOMAIN active'[v] : active'[v][i] # "watchdog"
    BY <2>2 DEF WebPlaces
  <2>. QED BY <2>3, <2>7, <2>8, <2>9, <2>10 DEF WebPlaces
<1>19. CASE StopBegin
  BY <1>19 DEF StopBegin, WebPlaces
<1>20. CASE StopSignal
  <2>1. PICK w \in Worker : w = kix OBVIOUS
  <2>2. UNCHANGED active \/ EventActive(w, "watchdog", watchdog[w])
    BY <1>20, <2>1 DEF StopSignal
  <2>3. UNCHANGED active \/ Activates(w, "watchdog")
    BY <2>2, EventActivates DEF Event
  <2>4. UNCHANGED <<thread, wpc>> /\ kpc = "signal" BY <1>20 DEF StopSignal
  <2>5. kpc' \in {"signal", "join"} /\ (kpc' = "join" => kix' = 1)
    BY <1>20 DEF StopSignal, NextIx
  <2>6. active' # active => watchdog[w] = "live" BY <1>20, <2>1 DEF StopSignal, EventActive
  <2>7. active' # active => wpc[w] \notin {"exit", "setup"}
    BY <2>6 DEF WebEvents, InLoop
  <2>8. \A v \in Worker : active'[v] # <<>> => wpc'[v] \notin {"exit", "setup"}
    BY <2>3, <2>4, <2>7 DEF Activates, WebPlaces
  <2>9. kpc' = "join" => \A v \in Worker : v < kix' => ~thread'[v]
    BY SMTT(30), <2>5, WorkerIx
  <2>. QED BY <2>4, <2>5, <2>8, <2>9 DEF WebPlaces
<1>21. CASE StopJoin
  <2>1. PICK w \in Worker : w = kix OBVIOUS
  <2>2. /\ kpc = "join" /\ thread' = [thread EXCEPT ![w] = FALSE]
        /\ UNCHANGED <<wpc, active>> /\ (thread[w] => wpc[w] = "exit")
    BY <1>21, <2>1 DEF StopJoin, Joined
  <2>3. \/ w = NumThreads /\ kpc' = "idle"
        \/ kpc' = "join" /\ kix' = w + 1
    BY <1>21, <2>1, NextIxGoes DEF StopJoin
  <2>4. \A v \in Worker : v < w => ~thread[v] BY <2>1, <2>2 DEF WebPlaces
  <2>5. \A v \in Worker : v <= w => ~thread'[v]
    <3>1. ~thread'[w] /\ \A v \in Worker : v # w => thread'[v] = thread[v] BY <2>2
    <3>. HIDE DEF WebTypes
    <3>2. \A v \in Worker : v <= w => v < w \/ v = w BY WorkerIx
    <3>. QED BY <2>4, <3>1, <3>2
  <2>6. \A v \in Worker : ~thread'[v] => wpc'[v] = "exit"
    BY <2>2 DEF WebPlaces
  <2>7. kpc' = "join" => \A v \in Worker : v < kix' => ~thread'[v]
    <3>. HIDE DEF WebTypes
    <3>1. \A v \in Worker : v < w + 1 => v <= w BY WorkerIx
    <3>. QED BY <2>3, <2>5, <3>1
  <2>8. kpc' = "idle" => \A v \in Worker : active[v] = <<>>
    <3>1. kpc' = "idle" => \A v \in Worker : v <= w BY <2>3, WorkerIx
    <3>. QED BY <2>2, <2>5, <2>6, <3>1 DEF WebPlaces
  <2>9. \A v \in Worker : \A i \in DOMAIN active'[v] :
          active'[v][i] = "watchdog" => kpc' \in {"signal", "join"}
    BY <2>2, <2>3, <2>8 DEF WebPlaces
  <2>10. \A v \in Worker : active'[v] # <<>> => wpc'[v] \notin {"exit", "setup"}
    BY <2>2 DEF WebPlaces
  <2>. QED BY <2>3, <2>6, <2>7, <2>9, <2>10 DEF WebPlaces
<1>22. CASE UNCHANGED vars
  BY <1>22 DEF vars, WebPlaces
<1>. QED
  BY <1>1, <1>2, <1>3, <1>4, <1>5, <1>6, <1>7, <1>8, <1>9, <1>10, <1>11,
     <1>12, <1>13, <1>14, <1>15, <1>16, <1>17, <1>18, <1>19, <1>20, <1>21,
     <1>22
     DEF Next, Setup, Loop, Control

(* A client in time is before any stop.                                    *)
LEMMA WebClientsStep ==
  WebInv /\ [Next]_vars => WebClients'
<1>. SUFFICES ASSUME WebInv, [Next]_vars PROVE WebClients'
  OBVIOUS
<1>. USE DEF WebInv, WebTypes, loopVars, uploadVars, requestVars,
     clientVars, controlVars, GoTo
<1>1. ASSUME NEW w \in Worker, SetupFails(w) PROVE WebClients'
  BY <1>1 DEF SetupFails, WebClients, WebRequests, WebPlaces, InLoop
<1>2. ASSUME NEW w \in Worker, MakeUpload(w) PROVE WebClients'
  BY <1>2 DEF MakeUpload, Replaces, WebClients, WebRequests, WebPlaces,
     InLoop
<1>3. ASSUME NEW w \in Worker, AcceptFails(w) PROVE WebClients'
  BY <1>3 DEF AcceptFails, WebClients, WebRequests, WebPlaces, InLoop
<1>4. ASSUME NEW w \in Worker, MakeWatchdog(w) PROVE WebClients'
  BY <1>4 DEF MakeWatchdog, Replaces, WebClients, WebRequests, WebPlaces,
     InLoop
<1>5. ASSUME NEW w \in Worker, AddFails(w) PROVE WebClients'
  BY <1>5 DEF AddFails, WebClients, WebRequests, WebPlaces, InLoop
<1>6. ASSUME NEW w \in Worker, Dispatch(w) PROVE WebClients'
  BY <1>6 DEF Dispatch, WebClients, WebRequests, WebPlaces, InLoop
<1>7. ASSUME NEW w \in Worker, LoopBreak(w) \/ DispatchFails(w)
      PROVE  WebClients'
  BY <1>7 DEF LoopBreak, DispatchFails, Pending, LoopGoes, Dropped,
     AfterReset, WebClients, WebRequests, WebPlaces, InLoop
<1>8. ASSUME NEW w \in Worker, Own(w) PROVE WebClients'
  BY <1>8 DEF Own, WebClients, WebRequests, WebPlaces, InLoop
<1>9. ASSUME NEW w \in Worker, UploadBegin(w) PROVE WebClients'
  BY <1>9 DEF UploadBegin, WebClients, WebRequests, WebPlaces, InLoop
<1>10. ASSUME NEW w \in Worker, UploadOne(w) PROVE WebClients'
  <2>1. PICK r \in Requests : r = uploaders[w][uix[w]] BY <1>10, Element DEF UploadOne
  <2>2. Answer(r) BY <1>10, <2>1 DEF UploadOne
  <2>3. /\ UNCHANGED <<home, cpc, creq, late, kpc>>
        /\ \A v \in Worker : InLoop(v) => InLoop(v)'
    BY <1>10 DEF UploadOne, InLoop
  <2>4. \A q \in Requests : request[q] # "new" => request'[q] # "new"
    BY <2>2, AnswerSets
  <2>. QED BY <2>3, <2>4 DEF WebClients, WebRequests, InLoop
<1>11. ASSUME NEW w \in Worker, UploadReturns(w) PROVE WebClients'
  <2>1. PICK r \in Requests : r = uploaders[w][uix[w]] BY <1>11, Element DEF UploadReturns
  <2>2. Answer(r) BY <1>11, <2>1 DEF UploadReturns
  <2>3. /\ UNCHANGED <<home, cpc, creq, late, kpc>>
        /\ \A v \in Worker : InLoop(v) => InLoop(v)'
    BY <1>11 DEF UploadReturns, InLoop
  <2>4. \A q \in Requests : request[q] # "new" => request'[q] # "new"
    BY <2>2, AnswerSets
  <2>. QED BY <2>3, <2>4 DEF WebClients, WebRequests, InLoop
<1>12. ASSUME NEW w \in Worker, UploadEnd(w) PROVE WebClients'
  BY <1>12 DEF UploadEnd, Cleared, WebClients, WebRequests, WebPlaces,
     InLoop
<1>13. ASSUME NEW w \in Worker, NEW r \in Requests, Respond(w, r) PROVE WebClients'
  BY <1>13 DEF Respond, WebClients, WebRequests, WebPlaces, InLoop
<1>14. ASSUME NEW w \in Worker, NEW r \in Requests, Hold(w, r) PROVE WebClients'
  BY <1>14 DEF Hold, WebClients, WebRequests, WebPlaces, InLoop
<1>15. ASSUME NEW c \in Clients, RegisterActivate(c) PROVE WebClients'
  <2>1. /\ UNCHANGED <<creq, request, late, kpc, home, wpc>>
        /\ \A d \in Clients : cpc'[d] = "activate" => cpc[d] = "activate"
    BY <1>15 DEF RegisterActivate
  <2>. QED BY <2>1 DEF WebClients, InLoop
<1>16. ASSUME NEW c \in Clients, NEW r \in Requests, RegisterPush(c, r) PROVE WebClients'
  <2>1. /\ UNCHANGED <<request, kpc, home, wpc>>
        /\ late' = (late \/ TooLate(r)) /\ creq'[c] = r /\ request[r] # "new"
    BY <1>16 DEF RegisterPush
  <2>2. \A d \in Clients : d # c => cpc'[d] = cpc[d] /\ creq'[d] = creq[d]
    BY <1>16 DEF RegisterPush
  <2>3. ~late' => ~late /\ kpc = "idle" /\ InLoop(home[r])
    BY <2>1 DEF TooLate
  <2>. QED BY ZenonT(60), <2>1, <2>2, <2>3 DEF WebClients, InLoop
<1>17. CASE RunBegin
  BY <1>17 DEF RunBegin, WebClients, WebRequests, WebPlaces, InLoop
<1>18. CASE RunSpawn
  <2>1. wpc[kix] = "exit" BY <1>18, WorkerIx DEF RunSpawn, WebPlaces
  <2>2. \A w \in Worker : InLoop(w) => wpc'[w] = wpc[w]
    BY <1>18, <2>1 DEF RunSpawn, InLoop
  <2>3. kpc' \in {"idle", "spawn"} BY <1>18, NextIxGoes DEF RunSpawn
  <2>. QED BY <1>18, <2>2, <2>3 DEF RunSpawn, WebClients, WebRequests, InLoop
<1>19. CASE StopBegin
  BY <1>19 DEF StopBegin, WebClients, WebRequests, WebPlaces, InLoop
<1>20. CASE StopSignal
  BY <1>20 DEF StopSignal, EventActive, Activated, NextIx, WebClients,
     WebRequests, WebPlaces, InLoop
<1>21. CASE StopJoin
  BY <1>21 DEF StopJoin, NextIx, Joined, WebClients, WebRequests, WebPlaces,
     InLoop
<1>22. CASE UNCHANGED vars
  BY <1>22 DEF vars, WebClients, WebRequests, WebPlaces, InLoop
<1>. QED
  BY <1>1, <1>2, <1>3, <1>4, <1>5, <1>6, <1>7, <1>8, <1>9, <1>10, <1>11,
     <1>12, <1>13, <1>14, <1>15, <1>16, <1>17, <1>18, <1>19, <1>20, <1>21,
     <1>22
     DEF Next, Setup, Loop, Control

-----------------------------------------------------------------------------
(* The lists. *)

(* A step that leaves the list of v alone, or only makes it more attended. *)
Leaves(v) ==
  /\ uploaders'[v] = uploaders[v] /\ uix'[v] = uix[v]
  /\ wpc'[v] = wpc[v] \/ (wpc[v] = "loop" /\ wpc'[v] = "own")
  /\ active[v] # <<>> => active'[v] # <<>> /\ active'[v][1] = active[v][1]
  /\ \A q \in Requests : request[q] # "new" =>
       home'[q] = home[q] /\ (home[q] = v => request'[q] = request[q])
  /\ \A d \in Clients : cpc[d] = "activate" =>
       cpc'[d] = "activate" /\ creq'[d] = creq[d]

(* A list that a step leaves alone stays attended.                         *)
LEMMA LeavesServed ==
  ASSUME WebTypes, WebClients, NEW v \in Worker, Served(v), Leaves(v)
  PROVE  Served(v)'
<1>1. \A i \in DOMAIN uploaders[v] : uploaders[v][i] \in Requests
  BY ElementOfSeq DEF WebTypes
<1>2. Listed(v)'
  BY <1>1 DEF Served, Listed, Waits, Leaves
<1>3. ASSUME uploaders'[v] # <<>> PROVE Attended(v)'
  BY <1>3 DEF Served, Attended, InLoop, Leaves, WebClients
<1>. QED BY <1>2, <1>3 DEF Served

(* An empty list needs nobody.                                             *)
LEMMA EmptyServed ==
  ASSUME NEW v \in Worker, uploaders'[v] = <<>>
  PROVE  Served(v)'
  BY EmptySeq DEF Served, Listed

(* What was late or aborted stays so.                                      *)
LEMMA HistoryKept ==
  ASSUME WebTypes, [Next]_vars
  PROVE  (late => late') /\ (aborted => aborted')
  BY DEF WebTypes, Next, Setup, Loop, Control, vars, loopVars, uploadVars,
     requestVars, clientVars, controlVars, SetupFails, MakeUpload, AcceptFails,
     MakeWatchdog, AddFails, Dispatch, LoopBreak, DispatchFails, LoopGoes, Own, UploadBegin, UploadOne,
     UploadReturns, UploadEnd, Respond, Hold, RegisterActivate, RegisterPush,
     RunBegin, RunSpawn, StopBegin, StopSignal, StopJoin

(* A worker that is not in its loop has an empty list.                     *)
LEMMA OutsideEmpty ==
  ASSUME WebTypes, NEW w \in Worker, Served(w), ~InLoop(w)
  PROVE  uploaders[w] = <<>>
  BY DEF Served, Attended

(* A worker's list is served whatever step is taken in time.               *)
LEMMA WebUploadsStep ==
  WebInv /\ [Next]_vars => WebUploads'
<1>. SUFFICES ASSUME WebInv, [Next]_vars, ~late', ~aborted', NEW v \in Worker
              PROVE  Served(v)'
  BY DEF WebUploads
<1>. USE DEF loopVars, uploadVars, requestVars, clientVars, controlVars, GoTo
<1>a. ~late /\ ~aborted /\ WebTypes /\ WebClients BY HistoryKept DEF WebInv
<1>b. \A w \in Worker : Served(w) BY <1>a DEF WebInv, WebUploads
<1>c. SUFFICES \/ Leaves(v) \/ uploaders'[v] = <<>>
               \/ Served(v)'
  BY <1>a, <1>b, LeavesServed, EmptyServed
<1>1. ASSUME NEW w \in Worker, Setup(w)
      PROVE  Leaves(v) \/ uploaders'[v] = <<>>
  <2>1. ~InLoop(w) /\ UNCHANGED <<uploaders, uix, request, home, cpc, creq>>
    BY <1>1 DEF Setup, SetupFails, MakeUpload, AcceptFails, MakeWatchdog, AddFails,
                Dispatch, InLoop
  <2>2. \A u \in Worker : u # w => wpc'[u] = wpc[u] /\ active'[u] = active[u]
    BY <1>a, <1>1 DEF WebTypes, Setup, SetupFails, MakeUpload, AcceptFails,
                      MakeWatchdog, AddFails, Dispatch
  <2>3. CASE v = w BY <1>a, <1>b, <2>1, <2>3, OutsideEmpty
  <2>4. CASE v # w BY <2>1, <2>2, <2>4 DEF Leaves
  <2>. QED BY <2>3, <2>4
<1>2. ASSUME NEW w \in Worker, LoopBreak(w) \/ DispatchFails(w)
      PROVE  Leaves(v) \/ uploaders'[v] = <<>>
  <2>0. LoopGoes(w) BY <1>2 DEF LoopBreak, DispatchFails
  <2>1. UNCHANGED <<uploaders, uix, home, cpc, creq>> /\ wpc[w] = "loop"
    BY <2>0 DEF LoopGoes
  <2>2. \A u \in Worker : u # w => wpc'[u] = wpc[u] /\ active'[u] = active[u]
    BY <1>a, <2>0 DEF WebTypes, LoopGoes
  <2>3. \A q \in Requests : home[q] # w => request'[q] = request[q]
    BY <1>a, <2>0 DEF WebTypes, LoopGoes, Dropped
  <2>4. ASSUME LoopBreak(w) PROVE uploaders[w] = <<>>
    <3>0. active[w] # <<>> /\ active[w][1] = "watchdog" BY <2>4 DEF LoopBreak
    <3>1. active[w] \in Seq(Event) BY <1>a DEF WebTypes
    <3>2. 1 \in DOMAIN active[w] BY <3>0, <3>1
    <3>3. kpc \in {"signal", "join"} BY <3>0, <3>2 DEF WebInv, WebPlaces
    <3>4. ~Attended(w) BY <1>a, <2>1, <3>0, <3>3 DEF Attended, WebClients
    <3>. QED BY <1>b, <3>4 DEF Served
  <2>5. ASSUME DispatchFails(w) PROVE uploaders[w] = <<>>
    BY <2>5 DEF DispatchFails, Pending
  <2>6. CASE v = w BY <2>1, <2>4, <2>5, <2>6, <1>2
  <2>7. CASE v # w BY <2>1, <2>2, <2>3, <2>7 DEF Leaves
  <2>. QED BY <2>6, <2>7
<1>3. ASSUME NEW w \in Worker, Own(w) PROVE Leaves(v) \/ Served(v)'
  <2>1. /\ UNCHANGED <<uploaders, uix, home, cpc, creq, active>>
        /\ wpc[w] = "own"
    BY <1>3 DEF Own
  <2>2. wpc'[w] = "loop" /\ \A u \in Worker : u # w => wpc'[u] = wpc[u]
    BY <1>a, <1>3 DEF WebTypes, Own
  <2>3. \A q \in Requests :
          request'[q] = request[q] \/ (home[q] = w /\ request[q] = "held" /\ request'[q] = "owned")
    BY <1>a, <1>3 DEF WebTypes, Own
  <2>4. CASE v = w
    <3>1. \A i \in DOMAIN uploaders[v] : uploaders[v][i] \in Requests
      BY <1>a, ElementOfSeq DEF WebTypes
    <3>2. Listed(v)'
      BY <1>b, <2>1, <2>2, <2>3, <2>4, <3>1 DEF Served, Listed, Waits
    <3>3. Attended(v) => Attended(v)'
      BY <2>1, <2>2, <2>4 DEF Attended, InLoop
    <3>. QED BY <1>b, <2>1, <3>2, <3>3 DEF Served
  <2>5. CASE v # w BY <2>1, <2>2, <2>3, <2>5 DEF Leaves
  <2>. QED BY <2>4, <2>5
<1>4. ASSUME NEW w \in Worker, UploadBegin(w) PROVE Leaves(v) \/ Served(v)'
  <2>1. /\ UNCHANGED <<uploaders, request, home, cpc, creq>> /\ wpc[w] = "loop"
    BY <1>4 DEF UploadBegin
  <2>2. /\ wpc'[w] = "upload"
        /\ \A u \in Worker : u # w =>
             wpc'[u] = wpc[u] /\ active'[u] = active[u] /\ uix'[u] = uix[u]
    BY <1>a, <1>4 DEF WebTypes, UploadBegin
  <2>3. CASE v = w
    <3>1. Listed(v)' BY <1>b, <2>1, <2>2, <2>3 DEF Served, Listed, Waits
    <3>2. Attended(v)' BY <2>2, <2>3 DEF Attended, InLoop
    <3>. QED BY <3>1, <3>2 DEF Served
  <2>4. CASE v # w BY <2>1, <2>2, <2>4 DEF Leaves
  <2>. QED BY <2>3, <2>4
<1>5. ASSUME NEW w \in Worker, UploadOne(w) PROVE Leaves(v) \/ Served(v)'
  <2>1. /\ UNCHANGED <<uploaders, wpc, active, home, cpc, creq>>
        /\ wpc[w] = "upload" /\ uix[w] <= Len(uploaders[w])
    BY <1>5 DEF UploadOne
  <2>2. PICK k : k = uix[w] OBVIOUS
  <2>3. PICK r \in Requests : r = uploaders[w][k] BY <1>a, <2>1, <2>2, Element
  <2>4. k \in DOMAIN uploaders[w] /\ home[r] = w
    BY <1>a, <1>b, <2>1, <2>2, <2>3, Element DEF Served, Listed
  <2>5. Answer(r) BY <1>5, <2>2, <2>3 DEF UploadOne
  <2>6. \A q \in Requests : q # r => request'[q] = request[q]
    BY <1>a, <2>5, AnswerSets
  <2>7. request'[r] = request[r] \/ request'[r] = "answered"
    BY <1>a, <2>5, AnswerSets
  <2>8. uix'[w] = k + 1 /\ \A u \in Worker : u # w => uix'[u] = uix[u]
    BY <1>a, <1>5, <2>2 DEF UploadOne, WebTypes
  <2>9. CASE v = w
    <3>1. \A i \in DOMAIN uploaders[v] : uploaders[v][i] \in Requests
      BY <1>a, ElementOfSeq DEF WebTypes
    <3>2. \A i \in DOMAIN uploaders[v] : i >= k + 1 => i >= k /\ i # k
      <4>1. k \in Nat /\ uploaders[v] \in Seq(Requests) BY <1>a, <2>2 DEF WebTypes
      <4>. HIDE DEF Leaves
      <4>. QED BY <4>1
    <3>3. \A i \in DOMAIN uploaders[v] : i # k => uploaders[v][i] # r
      BY <1>b, <2>3, <2>4, <2>9 DEF Served, Listed
    <3>4. \A i \in DOMAIN uploaders[v] :
            /\ home[uploaders[v][i]] = v /\ request[uploaders[v][i]] # "new"
            /\ i >= k => request[uploaders[v][i]] \in {"held", "owned"}
      BY <1>b, <2>1, <2>2, <2>9 DEF Served, Listed, Waits
    <3>5. \A i \in DOMAIN uploaders[v] :
            /\ request'[uploaders[v][i]] # "new"
            /\ i >= k + 1 => request'[uploaders[v][i]] \in {"held", "owned"}
      BY <2>6, <2>7, <3>1, <3>2, <3>3, <3>4
    <3>6. Listed(v)'
      BY <1>b, <2>1, <2>8, <2>9, <3>4, <3>5 DEF Served, Listed, Waits
    <3>7. Attended(v)' BY <2>1, <2>9 DEF Attended, InLoop
    <3>. QED BY <3>6, <3>7 DEF Served
  <2>10. CASE v # w BY <2>1, <2>4, <2>6, <2>8, <2>10 DEF Leaves
  <2>. QED BY <2>9, <2>10
<1>6. ASSUME NEW w \in Worker, UploadReturns(w) PROVE FALSE
  BY <1>6 DEF UploadReturns
<1>7. ASSUME NEW w \in Worker, UploadEnd(w)
      PROVE  Leaves(v) \/ uploaders'[v] = <<>>
  BY <1>a, <1>7 DEF UploadEnd, Cleared, WebTypes, Leaves
<1>8. ASSUME NEW w \in Worker, NEW r \in Requests, Respond(w, r) \/ Hold(w, r)
      PROVE  Leaves(v)
  BY <1>a, <1>8 DEF Respond, Hold, WebTypes, Leaves
<1>9. ASSUME NEW c \in Clients, RegisterActivate(c) PROVE Leaves(v) \/ Served(v)'
  <2>1. cpc[c] = "activate" /\ UNCHANGED <<wpc, uploaders, uix, request, home, creq>>
    BY <1>9 DEF RegisterActivate
  <2>2. PICK w \in Worker : w = home[creq[c]] BY <2>1, ClientHome
  <2>3. EventActive(w, "upload", event_upload[w]) BY <1>9, <2>2 DEF RegisterActivate
  <2>4. kpc \in {"idle", "spawn"} /\ InLoop(w)
    BY <1>a, <2>1, <2>2 DEF WebClients
  <2>5. event_upload[w] = "live" BY <2>4 DEF WebInv, WebEvents
  <2>6. Activates(w, "upload") /\ active'[w] # <<>>
    BY <1>a, <2>3, <2>5, EventActivates DEF Event, WebTypes
  <2>7. cpc' = [cpc EXCEPT ![c] = "idle"] BY <1>9 DEF RegisterActivate
  <2>8. CASE v = w
    <3>1. active'[w] \in Seq(Event) BY <2>6 DEF Activates
    <3>2. 1 \in DOMAIN active'[w] BY <2>6, <3>1
    <3>3. active'[w][1] = "upload"
      BY <2>4, <2>6, <3>1, <3>2, ElementOfSeq DEF Activates, WebInv, WebPlaces, Event
    <3>4. Attended(v)' BY <2>1, <2>4, <2>6, <2>8, <3>3 DEF Attended, InLoop
    <3>5. Listed(v)' BY <1>b, <2>1 DEF Served, Listed, Waits
    <3>. QED BY <3>4, <3>5 DEF Served
  <2>9. CASE v # w
    <3>1. active'[v] = active[v] BY <2>6, <2>9 DEF Activates
    <3>2. \A d \in Clients : cpc[d] = "activate" /\ home[creq[d]] = v => cpc'[d] = "activate"
      BY <1>a, <2>2, <2>7, <2>9 DEF WebTypes
    <3>3. Attended(v) => Attended(v)'
      BY <2>1, <3>1, <3>2 DEF Attended, InLoop
    <3>4. Listed(v)' BY <1>b, <2>1 DEF Served, Listed, Waits
    <3>. QED BY <1>b, <2>1, <3>3, <3>4 DEF Served
  <2>. QED BY <2>8, <2>9
<1>10. ASSUME NEW c \in Clients, NEW r \in Requests, RegisterPush(c, r)
       PROVE  Leaves(v) \/ Served(v)'
  <2>1. /\ cpc[c] = "idle" /\ UNCHANGED <<wpc, active, uix, request, home>>
        /\ home[r] # NoWorker /\ wpc[home[r]] # "upload" /\ ~Registered(r)
        /\ ~TooLate(r) /\ request[r] \in {"held", "owned", "gone"}
    BY <1>10 DEF RegisterPush
  <2>2. PICK w \in Worker : w = home[r] BY <1>a, <2>1 DEF WebTypes
  <2>3. InLoop(w) /\ request[r] \in {"held", "owned"} BY <2>1, <2>2 DEF TooLate
  <2>4. /\ cpc'[c] = "activate" /\ creq'[c] = r
        /\ \A d \in Clients : d # c => cpc'[d] = cpc[d] /\ creq'[d] = creq[d]
    BY <1>a, <1>10 DEF RegisterPush, WebTypes
  <2>5. /\ uploaders'[w] = Append(uploaders[w], r)
        /\ \A u \in Worker : u # w => uploaders'[u] = uploaders[u]
    BY <1>a, <1>10, <2>2 DEF RegisterPush, WebTypes
  <2>6. CASE v = w
    <3>. DEFINE s == uploaders[v]
                t == uploaders'[v]
    <3>1. s \in Seq(Requests) BY <1>a DEF WebTypes
    <3>2. /\ DOMAIN t = DOMAIN s \cup {Len(s) + 1} /\ t[Len(s) + 1] = r
          /\ \A i \in DOMAIN s : t[i] = s[i] /\ s[i] # r
      <4>1. t = Append(s, r) BY <2>5, <2>6
      <4>2. \A i \in DOMAIN s : s[i] # r BY <2>1 DEF Registered
      <4>. QED BY <3>1, <4>1, <4>2, AppendProperties
    <3>3. Listed(v) /\ home[r] = v /\ wpc[v] # "upload" BY <1>b, <2>1, <2>2, <2>6 DEF Served
    <3>4. Listed(v)'
      <4>1. \A i \in DOMAIN t :
              /\ home[t[i]] = v
              /\ request[t[i]] \in {"held", "owned"}
        BY <2>3, <3>2, <3>3 DEF Listed, Waits
      <4>2. \A i, j \in DOMAIN t : t[i] = t[j] => i = j
        BY <3>2, <3>3 DEF Listed
      <4>. HIDE DEF s
      <4>. QED BY <2>1, <4>1, <4>2 DEF Listed, Waits
    <3>5. Attended(v)' BY <2>1, <2>2, <2>3, <2>4, <2>6 DEF Attended, InLoop
    <3>. QED BY <3>4, <3>5 DEF Served
  <2>7. CASE v # w
    BY <2>1, <2>4, <2>5, <2>7 DEF Leaves
  <2>. QED BY <2>6, <2>7
<1>11. CASE RunSpawn
  <2>1. wpc[kix] = "exit" /\ kix \in Worker
    <3>1. kpc = "spawn" /\ kix \in Worker BY <1>a, <1>11 DEF RunSpawn, WebTypes
    <3>. QED BY <3>1, WorkerIx DEF WebInv, WebPlaces
  <2>2. UNCHANGED <<uploaders, uix, request, home, cpc, creq, active>>
    BY <1>11 DEF RunSpawn
  <2>3. CASE v = kix BY <1>a, <1>b, <2>1, <2>2, <2>3, OutsideEmpty DEF InLoop
  <2>4. CASE v # kix BY <1>a, <1>11, <2>2, <2>4 DEF Leaves, RunSpawn, WebTypes
  <2>. QED BY <2>3, <2>4
<1>12. CASE StopSignal
  <2>1. UNCHANGED <<uploaders, uix, wpc, request, home, cpc, creq>>
    BY <1>12 DEF StopSignal
  <2>2. PICK w \in Worker : w = kix BY <1>a DEF WebTypes
  <2>3. UNCHANGED active \/ EventActive(w, "watchdog", watchdog[w])
    BY <1>12, <2>2 DEF StopSignal
  <2>4. UNCHANGED active \/ Activates(w, "watchdog")
    BY <1>a, <2>3, EventActivates DEF Event, WebTypes
  <2>. QED BY <2>1, <2>4 DEF Leaves, Activates
<1>13. CASE RunBegin \/ StopBegin \/ StopJoin \/ UNCHANGED vars
  BY <1>13 DEF RunBegin, StopBegin, StopJoin, vars, Leaves
<1>. QED
  BY <1>1, <1>2, <1>3, <1>4, <1>5, <1>6, <1>7, <1>8, <1>9, <1>10, <1>11, <1>12,
     <1>13 DEF Next, Loop, Control

-----------------------------------------------------------------------------
(* The two properties. *)

(* The element the handler answers is owned, if nothing was late.          *)
LEMMA AnswersOwned ==
  ASSUME WebInv, ~late, ~aborted, NEW w \in Worker, UploadOne(w)
  PROVE  UNCHANGED ub
<1>1. wpc[w] = "upload" /\ uix[w] <= Len(uploaders[w]) BY DEF UploadOne
<1>2. PICK k : k = uix[w] OBVIOUS
<1>3. k \in DOMAIN uploaders[w] /\ uploaders[w][k] \in Requests
  BY <1>1, <1>2, Element DEF WebInv
<1>4. PICK r \in Requests : r = uploaders[w][k] BY <1>3
<1>5. k >= uix[w]
  <2>1. uix[w] \in Nat BY DEF WebInv, WebTypes
  <2>. QED BY <1>2, <2>1
<1>6. Listed(w) BY DEF WebInv, WebUploads, Served
<1>7. home[r] = w /\ request[r] \in {"held", "owned"}
  BY <1>3, <1>4, <1>5, <1>6 DEF Listed, Waits
<1>8. request[r] = "owned" BY <1>1, <1>7 DEF WebInv, WebRequests
<1>9. Answer(r) BY <1>2, <1>4 DEF UploadOne
<1>. QED BY <1>8, <1>9 DEF Answer

(* A step uses a dead request only where AnsweredOnce says so.             *)
LEMMA AnsweredOnceStep ==
  WebInv /\ [Next]_vars => AnsweredOnce'
<1>. SUFFICES ASSUME WebInv, [Next]_vars, ub' = "dead request"
              PROVE  aborted' \/ late'
  BY DEF AnsweredOnce
<1>. USE DEF loopVars, uploadVars, requestVars, clientVars, controlVars
<1>1. CASE UNCHANGED vars
  BY <1>1 DEF vars, WebInv, AnsweredOnce
<1>2. CASE Next
  <2>1. PICK w \in Worker : UploadOne(w) \/ UploadReturns(w)
    BY <1>2 DEF Next, Setup, Loop, Control, SetupFails, MakeUpload, AcceptFails,
       MakeWatchdog, AddFails, Dispatch, LoopBreak, DispatchFails, LoopGoes, Own,
       UploadBegin, UploadEnd,
       Respond, Hold, RegisterActivate, RegisterPush, RunBegin, RunSpawn,
       StopBegin, StopSignal, StopJoin, EventActive, Replaces
  <2>2. CASE UploadOne(w)
    <3>1. ub = "none" BY <1>2 DEF Next
    <3>2. late \/ aborted BY <2>2, <3>1, AnswersOwned
    <3>. QED BY <3>2, HistoryKept DEF WebInv, WebTypes
  <2>3. CASE UploadReturns(w) BY <2>3 DEF UploadReturns
  <2>. QED BY <2>1, <2>2, <2>3
<1>. QED BY <1>1, <1>2

(* A step uses a dead event only where EventsLive says so.                 *)
LEMMA EventsLiveStep ==
  WebInv /\ [Next]_vars => EventsLive'
<1>. SUFFICES ASSUME WebInv, [Next]_vars, ub' = "dead event"
              PROVE  failed' # {} \/ late'
  BY DEF EventsLive
<1>. USE DEF loopVars, uploadVars, requestVars, clientVars, controlVars
<1>1. CASE UNCHANGED vars
  BY <1>1 DEF vars, WebInv, EventsLive
<1>2. CASE Next
  <2>0. ub = "none" BY <1>2 DEF Next
  <2>1. \/ \E w \in Worker : MakeUpload(w) \/ MakeWatchdog(w)
        \/ \E c \in Clients : RegisterActivate(c)
        \/ StopSignal
    BY <1>2, <2>0 DEF Next, Setup, Loop, Control, SetupFails, AcceptFails,
       AddFails, Dispatch, LoopBreak, DispatchFails, LoopGoes, Own, UploadBegin,
       UploadOne, UploadReturns,
       UploadEnd, Respond, Hold, RegisterPush, RunBegin, RunSpawn, StopBegin,
       StopJoin, Answer
  <2>2. ASSUME NEW w \in Worker, MakeUpload(w) \/ MakeWatchdog(w)
        PROVE  failed' # {}
    BY <2>0, <2>2 DEF MakeUpload, MakeWatchdog, Replaces, WebInv, WebEvents
  <2>3. ASSUME NEW c \in Clients, RegisterActivate(c) PROVE late'
    <3>1. cpc[c] = "activate" BY <2>3 DEF RegisterActivate
    <3>2. event_upload[home[creq[c]]] # "live"
      BY <2>0, <2>3 DEF RegisterActivate, EventActive
    <3>3. home[creq[c]] \in Worker BY <3>1, ClientHome
    <3>4. late BY <3>1, <3>2, <3>3 DEF WebInv, WebEvents, WebClients
    <3>. QED BY <2>3, <3>4 DEF RegisterActivate
  <2>4. CASE StopSignal
    <3>1. kix \in Worker /\ watchdog[kix] = "dead"
      BY <2>0, <2>4 DEF StopSignal, EventActive, WebInv, WebTypes
    <3>. QED BY <2>4, <3>1 DEF StopSignal, WebInv, WebEvents
  <2>. QED BY <2>1, <2>2, <2>3, <2>4
<1>. QED BY <1>1, <1>2

(* Nothing runs at first.                                                  *)
LEMMA WebInvInit == Init => WebInv
<1>. SUFFICES ASSUME Init PROVE WebInv
  OBVIOUS
<1>. USE DEF Init
<1>0. 1 \in Worker /\ <<>> \in Seq(Event) /\ <<>> \in Seq(Requests)
  BY WorkerIx, EmptySeq
<1>1. WebTypes
  <2>1. creq \in [Clients -> Requests \cup {CHOOSE r \in Requests : TRUE}]
    OBVIOUS
  <2>2. uix \in [Worker -> Nat \ {0}] OBVIOUS
  <2>3. active \in [Worker -> Seq(Event)] /\ uploaders \in [Worker -> Seq(Requests)]
    BY <1>0
  <2>. QED BY <1>0, <2>1, <2>2, <2>3 DEF WebTypes
<1>2. WebPlaces BY EmptySeq DEF WebPlaces
<1>3. WebEvents BY DEF WebEvents, InLoop
<1>4. WebRequests BY DEF WebRequests
<1>5. WebClients BY DEF WebClients
<1>6. WebUploads BY EmptySeq DEF WebUploads, Served, Listed
<1>7. AnsweredOnce /\ EventsLive BY DEF AnsweredOnce, EventsLive
<1>. QED BY <1>1, <1>2, <1>3, <1>4, <1>5, <1>6, <1>7 DEF WebInv

(* Every step keeps every part of the invariant.                           *)
LEMMA WebInvStep == WebInv /\ [Next]_vars => WebInv'
  BY WebTypesStep, WebPlacesStep, WebEventsStep, WebRequestsStep, WebClientsStep,
     WebUploadsStep, AnsweredOnceStep, EventsLiveStep DEF WebInv

(* No request is answered twice, or after its connection is gone, unless   *)
(* _event_handler returned early (server_win.hpp:160) or register_uploader *)
(* overlapped stop: for any number of workers, clients, requests and runs. *)
THEOREM AnsweredAtMostOnce == Spec => []AnsweredOnce
<1>1. WebInv => AnsweredOnce BY DEF WebInv
<1>. QED BY <1>1, WebInvInit, WebInvStep, PTL DEF Spec

(* No event of libevent is activated or freed after its loop, unless a     *)
(* worker's setup failed half way (server_win.hpp:376) or                  *)
(* register_uploader came too late.                                        *)
THEOREM EventsUsedAlive == Spec => []EventsLive
<1>1. WebInv => EventsLive BY DEF WebInv
<1>. QED BY <1>1, WebInvInit, WebInvStep, PTL DEF Spec
=============================================================================
