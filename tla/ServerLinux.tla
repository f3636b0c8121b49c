----------------------------- MODULE ServerLinux -----------------------------
(***************************************************************************)
(* The HTTP server of the Linux build (server_linux.hpp): workers that     *)
(* share one listening socket, each with its own libevent loop, and an     *)
(* owner that calls run and stop.  Workers are the numbers 0..NumWorkers-1 *)
(* of _worker_context.  The extended protocol format is the build modelled.*)
(***************************************************************************)
EXTENDS Integers, FiniteSets

CONSTANTS NumWorkers, MaxLinuxRuns

ASSUME LinuxAssumption == NumWorkers \in Nat \ {0} /\ MaxLinuxRuns \in Nat

Ix == 0 .. NumWorkers - 1

VARIABLES
  lproc,      \* worker -> where its thread is
  base,       \* worker -> wc.base is set
  lbreak,     \* worker -> event_break of its loop
  thread,     \* worker -> wc.worker_thread is set
  reply,      \* the answer to the last request of any worker
  lmain,      \* the owner: "idle", "run", "stop", "join", "close"
  lix,        \* the worker its loop is at
  lnext,      \* what follows stop: "idle", or "run"
  fd,         \* the listening socket is open
  lruns

linuxVars == <<lproc, base, lbreak, thread, reply, lmain, lix, lnext, fd,
               lruns>>

LinuxInit ==
  /\ lproc = [w \in Ix |-> "none"] /\ base = [w \in Ix |-> FALSE]
  /\ lbreak = [w \in Ix |-> FALSE] /\ thread = [w \in Ix |-> FALSE]
  /\ reply = "none"
  /\ lmain = "idle" /\ lix = 0 /\ lnext = "idle"
  /\ fd = FALSE /\ lruns = 0

-----------------------------------------------------------------------------
(* A worker: _worker_proc. *)

LinuxGoes(w, from, to) == lproc[w] = from /\ lproc' = [lproc EXCEPT ![w] = to]

NewBase(w) ==
  /\ LinuxGoes(w, "new", "setup")
  /\ base' = [base EXCEPT ![w] = TRUE]
  /\ lbreak' = [lbreak EXCEPT ![w] = FALSE]
  /\ UNCHANGED <<thread, reply, lmain, lix, lnext, fd, lruns>>

\* As a bug: http_server takes the shared socket with it here too.
SetupFails_closes(w) ==
  /\ lproc[w] \in {"new", "setup"}
  /\ lproc' = [lproc EXCEPT ![w] = "done"]
  /\ base' = [base EXCEPT ![w] = lproc[w] = "setup"]
  /\ fd' = FALSE
  /\ UNCHANGED <<lbreak, thread, reply, lmain, lix, lnext, lruns>>
\* A step of the setup fails, up to evhttp_accept_socket (lines 47 to 64):
\* http_server does not have the socket yet.  The loop stays in wc.base;
\* without a loop to begin with there is none.
SetupFails(w) ==
  /\ lproc[w] \in {"new", "setup"}
  /\ lproc' = [lproc EXCEPT ![w] = "done"]
  /\ base' = [base EXCEPT ![w] = lproc[w] = "setup"]
  /\ UNCHANGED <<lbreak, thread, reply, lmain, lix, lnext, fd, lruns>>

\* evhttp_accept_socket: http_server owns the shared socket from here on.
\* If another worker has closed it there is nothing to listen to, and the
\* loop has no event.
AcceptSocket(w) ==
  /\ LinuxGoes(w, "setup", IF fd THEN "accepted" ELSE "deaf")
  /\ UNCHANGED <<base, lbreak, thread, reply, lmain, lix, lnext, fd, lruns>>

\* lzo_init fails (line 68): the local http_server goes, and closes the
\* socket every worker listens to.  wc.base stays.
LzoFails(w) ==
  /\ lproc[w] \in {"accepted", "deaf"}
  /\ lproc' = [lproc EXCEPT ![w] = "failed"]
  /\ fd' = FALSE
  /\ UNCHANGED <<base, lbreak, thread, reply, lmain, lix, lnext, lruns>>

\* event_base_dispatch forgets a break that was asked for before.
Dispatch(w) ==
  /\ LinuxGoes(w, "accepted", "loop")
  /\ lbreak' = [lbreak EXCEPT ![w] = FALSE]
  /\ UNCHANGED <<base, thread, reply, lmain, lix, lnext, fd, lruns>>

\* event_base_dispatch returns (lines 77 and 78): http_server goes, and
\* closes the shared socket with it, and the loop.
Returns(w, from, to) ==
  /\ LinuxGoes(w, from, to)
  /\ base' = [base EXCEPT ![w] = FALSE]
  /\ fd' = FALSE
  /\ UNCHANGED <<lbreak, thread, reply, lmain, lix, lnext, lruns>>

\* The loop breaks, as it was told.
LoopEnds(w) == lbreak[w] /\ Returns(w, "loop", "done")

\* The loop cannot poll (line 73), or has no event to wait for.
DispatchFails(w) == Returns(w, "loop", "failed")
DispatchDeaf(w) == Returns(w, "deaf", "failed")

\* What is true of a request: its size, header, data and handler.
Request == [size : {"empty", "large", "fits"}, sum : BOOLEAN, lzo : BOOLEAN,
            json : BOOLEAN, known : BOOLEAN, packed : BOOLEAN]

\* The answer: the first test that fails decides.
Reply(q) ==
  IF q.size # "fits" \/ ~q.sum \/ ~q.lzo \/ ~q.json THEN "no content"
  ELSE IF ~q.known THEN "bad method"
  ELSE IF ~q.packed THEN "internal"
  ELSE "ok"

\* _process_request looks for its worker among the threads, in order.
Finds(w) == \A v \in 0 .. w : thread[v]

\* The connection it came by may be older than the end of the socket.
ProcessRequest(w) ==
  /\ lproc[w] = "loop"
  /\ IF Finds(w)
       THEN /\ \E q \in Request : reply' = Reply(q)
            /\ UNCHANGED lproc
       ELSE /\ lproc' = [lproc EXCEPT ![w] = "null thread"]
            /\ UNCHANGED reply
  /\ UNCHANGED <<base, lbreak, thread, lmain, lix, lnext, fd, lruns>>

-----------------------------------------------------------------------------
(* The owner. *)

\* run with good arguments begins with a stop.
RunBegin ==
  /\ lmain = "idle" /\ lruns < MaxLinuxRuns
  /\ lruns' = lruns + 1 /\ lmain' = "stop" /\ lix' = 0 /\ lnext' = "run"
  /\ UNCHANGED <<lproc, base, lbreak, thread, reply, fd>>

\* socket, bind and listen, one of which may fail.
Listen(ok) ==
  /\ lmain = "run"
  /\ fd' = ok
  /\ lmain' = IF ok THEN "threads" ELSE "idle"
  /\ UNCHANGED <<lproc, base, lbreak, thread, reply, lix, lnext, lruns>>

\* Line 310: the thread runs before the pointer to it is stored.
StartThread ==
  /\ lmain = "threads"
  /\ lproc' = [lproc EXCEPT ![lix] = "new"]
  /\ lmain' = "store"
  /\ UNCHANGED <<base, lbreak, thread, reply, lix, lnext, fd, lruns>>

StoreThread ==
  /\ lmain = "store"
  /\ thread' = [thread EXCEPT ![lix] = TRUE]
  /\ IF lix + 1 \in Ix THEN lmain' = "threads" /\ lix' = lix + 1
                       ELSE lmain' = "idle" /\ lix' = 0
  /\ UNCHANGED <<lproc, base, lbreak, reply, lnext, fd, lruns>>

LinuxStopBegin ==
  /\ lmain = "idle"
  /\ lmain' = "stop" /\ lix' = 0 /\ lnext' = "idle"
  /\ UNCHANGED <<lproc, base, lbreak, thread, reply, fd, lruns>>

\* Lines 316 to 318.
Break ==
  /\ lmain = "stop"
  /\ lbreak' = [lbreak EXCEPT ![lix] = @ \/ base[lix]]
  /\ lmain' = "join"
  /\ UNCHANGED <<lproc, base, thread, reply, lix, lnext, fd, lruns>>

\* Lines 319 to 322, and close(_fd) behind the last worker.
LinuxJoin ==
  /\ lmain = "join"
  /\ thread[lix] => lproc[lix] \in {"done", "failed"}
  /\ thread' = [thread EXCEPT ![lix] = FALSE]
  /\ lproc' = [lproc EXCEPT ![lix] = "none"]
  /\ IF lix + 1 \in Ix
       THEN lmain' = "stop" /\ lix' = lix + 1 /\ UNCHANGED fd
       ELSE /\ lmain' = lnext /\ lix' = 0
            /\ fd' = FALSE
  /\ UNCHANGED <<base, lbreak, reply, lnext, lruns>>

\* What a worker does in time, and what may happen to it.
LinuxWorker(w) ==
  \/ NewBase(w) \/ AcceptSocket(w) \/ Dispatch(w) \/ DispatchDeaf(w)
  \/ LoopEnds(w)

LinuxFailure(w) == SetupFails(w) \/ LzoFails(w) \/ DispatchFails(w)

LinuxOwner ==
  \/ Listen(TRUE) \/ Listen(FALSE) \/ StartThread \/ StoreThread
  \/ Break \/ LinuxJoin

\* A null pointer ends the program.
LinuxUp == \A w \in Ix : lproc[w] # "null thread"

LinuxNext ==
  /\ LinuxUp
  /\ \/ \E w \in Ix : LinuxWorker(w) \/ LinuxFailure(w) \/ ProcessRequest(w)
     \/ LinuxOwner \/ RunBegin \/ LinuxStopBegin

-----------------------------------------------------------------------------
(* A request finds its own thread in _worker_context, as the assertion at  *)
(* server_linux.hpp:91 says, unless the owner is just storing it (line     *)
(* 310) or has already joined a worker before it (line 321).               *)
RequestFindsWorker ==
  \A w \in Ix : lproc[w] = "loop" /\ ~Finds(w) =>
    \/ lmain = "store" /\ lix = w
    \/ lmain \in {"stop", "join"} /\ \E v \in 0 .. w - 1 : v < lix

(* The listening socket, which every worker listens to, closes under a     *)
(* running loop only in two ways: the owner stops the workers, and it goes *)
(* with the first loop that ends; or a worker fails that has it already,   *)
(* at lzo_init (server_linux.hpp:68) or with its event_base_dispatch (line *)
(* 73), and takes it from all the others.  A worker that fails before does *)
(* not.                                                                    *)
SocketServed ==
  \A w \in Ix : lproc[w] = "loop" /\ ~fd =>
    \/ lmain \in {"stop", "join"} /\ \E v \in Ix : v < lix \/ lbreak[v]
    \/ \E v \in Ix : lproc[v] = "failed"
=============================================================================
