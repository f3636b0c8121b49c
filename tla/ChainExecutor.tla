---------------------------- MODULE ChainExecutor ----------------------------
(***************************************************************************)
(* tools/chain_executor.hpp: threading::task_chain, task_syncronizer and   *)
(* chain_pool.  Jobs with one key form a chain; a chain that becomes busy  *)
(* is put on _ready2work_list, one worker pops it and runs its jobs until  *)
(* none is left.  Chains are strong references in _chains_list and in the  *)
(* threads that use them, weak ones in _ready2work_list.                   *)
(*                                                                         *)
(* One action is one critical section of a spin lock (_lists_cs of the     *)
(* synchronizer, _tasks_cs of a chain), one wait, or one unlocked read of  *)
(* _stop.                                                                  *)
(***************************************************************************)
EXTENDS Integers, Sequences, FiniteSets

CONSTANTS
  Clients,    \* threads that call add_job
  Workers,    \* the threads of _threads
  Keys,       \* keys of jobs
  Removable,  \* the keys users call remove_chain with
  Chains,     \* task_chain objects, in the order make_shared never reuses
  MaxTasks,   \* bound: jobs added in a behaviour
  None        \* nullptr

ASSUME ChainConstants ==
  /\ Removable \subseteq Keys
  /\ MaxTasks \in Nat
  /\ None \notin Chains
  /\ None \notin Keys

VARIABLES
  chainOf,    \* _chains_list: the chain of each key, or None
  keyOf,      \* history: the key a chain was created for, or None
  tasks,      \* task_chain::_tasks
  pending,    \* task_chain::_is_pending
  ready,      \* _ready2work_list
  event,      \* _have_tasks is signalled (_wait_lock is clear)
  stop,       \* _stop
  cpc, cchain, ctask,   \* add_job of each client: place, chain, job
  wpc, wchain, wjob,    \* threadManager of each worker: place, chain, job
  issued,     \* number of jobs issued so far
  added, ran  \* history: jobs appended to and executed from each chain

chainVars == <<chainOf, keyOf, tasks, pending, ready>>
clientVars == <<cpc, cchain, ctask, issued>>
workerVars == <<wpc, wchain, wjob>>
vars == <<chainVars, event, stop, clientVars, workerVars, added, ran>>

Task == 1 .. MaxTasks

(* The places where a worker is inside the loop that drains a chain.       *)
Draining == {"loop", "get", "exec"}

(* Some shared_ptr owns the chain: its weak_ptr can be locked.             *)
Owned(ch) ==
  \/ \E k \in Keys : chainOf[k] = ch
  \/ \E c \in Clients : cchain[c] = ch
  \/ \E w \in Workers : wchain[w] = ch

Init ==
  /\ chainOf = [k \in Keys |-> None]
  /\ keyOf = [ch \in Chains |-> None]
  /\ tasks = [ch \in Chains |-> <<>>]
  /\ pending = [ch \in Chains |-> FALSE]
  /\ ready = <<>>
  /\ event = FALSE
  /\ stop = FALSE
  /\ cpc = [c \in Clients |-> "idle"]
  /\ cchain = [c \in Clients |-> None]
  /\ ctask = [c \in Clients |-> 0]
  /\ wpc = [w \in Workers |-> "top"]
  /\ wchain = [w \in Workers |-> None]
  /\ wjob = [w \in Workers |-> 0]
  /\ issued = 0
  /\ added = [ch \in Chains |-> <<>>]
  /\ ran = [ch \in Chains |-> <<>>]

-----------------------------------------------------------------------------
(* chain_pool::add_job -> task_syncronizer::add_task -> task_chain::add_task*)

(* Lines 91-99: look the chain up, or make it, under _lists_cs.            *)
FindChain(c, k) ==
  /\ cpc[c] = "idle"
  /\ ~stop
  /\ issued < MaxTasks
  /\ issued' = issued + 1
  /\ ctask' = [ctask EXCEPT ![c] = issued + 1]
  /\ cpc' = [cpc EXCEPT ![c] = "found"]
  /\ \/ /\ chainOf[k] # None
        /\ cchain' = [cchain EXCEPT ![c] = chainOf[k]]
        /\ UNCHANGED <<chainOf, keyOf>>
     \/ /\ chainOf[k] = None
        /\ \E ch \in Chains :
             /\ keyOf[ch] = None
             /\ chainOf' = [chainOf EXCEPT ![k] = ch]
             /\ keyOf' = [keyOf EXCEPT ![ch] = k]
             /\ cchain' = [cchain EXCEPT ![c] = ch]
  /\ UNCHANGED <<tasks, pending, ready, event, stop, workerVars, added, ran>>

(* task_chain::add_task, lines 28-37: who finds the chain not pending must *)
(* publish it.                                                             *)
MustPublish_always(ch) == TRUE
MustPublish(ch) == ~pending[ch]

AppendTask(c) ==
  LET ch == cchain[c]
  IN  /\ cpc[c] = "found"
      /\ tasks' = [tasks EXCEPT ![ch] = Append(@, ctask[c])]
      /\ added' = [added EXCEPT ![ch] = Append(@, ctask[c])]
      /\ pending' = [pending EXCEPT ![ch] = TRUE]
      /\ cpc' = [cpc EXCEPT ![c] = IF MustPublish(ch) THEN "publish" ELSE "signal"]
      /\ UNCHANGED <<chainOf, keyOf, ready, event, stop, cchain, ctask, issued,
                     workerVars, ran>>

(* Lines 103-104: a weak reference on _ready2work_list.                    *)
Publish(c) ==
  /\ cpc[c] = "publish"
  /\ ready' = Append(ready, cchain[c])
  /\ cpc' = [cpc EXCEPT ![c] = "signal"]
  /\ UNCHANGED <<chainOf, keyOf, tasks, pending, event, stop, cchain, ctask,
                 issued, workerVars, added, ran>>

(* Line 190: the client's reference is gone, _have_tasks is set.           *)
Signal(c) ==
  /\ cpc[c] = "signal"
  /\ event' = TRUE
  /\ cpc' = [cpc EXCEPT ![c] = "idle"]
  /\ cchain' = [cchain EXCEPT ![c] = None]
  /\ ctask' = [ctask EXCEPT ![c] = 0]
  /\ UNCHANGED <<chainVars, stop, issued, workerVars, added, ran>>

(* task_syncronizer::remove_chain, lines 119-122.                          *)
RemoveChain(k) ==
  /\ k \in Removable
  /\ chainOf[k] # None
  /\ chainOf' = [chainOf EXCEPT ![k] = None]
  /\ UNCHANGED <<keyOf, tasks, pending, ready, event, stop, clientVars,
                 workerVars, added, ran>>

(* ~chain_pool, line 170.  No call may be in progress when an object is    *)
(* destroyed; the destructor does not set the event.                       *)
Stop ==
  /\ ~stop
  /\ \A c \in Clients : cpc[c] = "idle"
  /\ stop' = TRUE
  /\ UNCHANGED <<chainVars, event, clientVars, workerVars, added, ran>>

-----------------------------------------------------------------------------
(* chain_pool::threadManager, lines 195-211                                *)

GoTo(w, place) == wpc' = [wpc EXCEPT ![w] = place]

(* Line 199.                                                               *)
Top(w) ==
  /\ wpc[w] = "top"
  /\ GoTo(w, IF stop THEN "exit" ELSE "wait")
  /\ UNCHANGED <<chainVars, event, stop, clientVars, wchain, wjob, added, ran>>

(* Line 200: the wait ends because the event is set, and consumes it, or   *)
(* after 1000 ms.                                                          *)
Wait_untimed(w) ==
  /\ wpc[w] = "wait"
  /\ event
  /\ event' = FALSE
  /\ GoTo(w, "check")
  /\ UNCHANGED <<chainVars, stop, clientVars, wchain, wjob, added, ran>>
Wait(w) ==
  /\ wpc[w] = "wait"
  /\ \/ event /\ event' = FALSE
     \/ ~event /\ UNCHANGED event
  /\ GoTo(w, "check")
  /\ UNCHANGED <<chainVars, stop, clientVars, wchain, wjob, added, ran>>

(* Line 201.                                                               *)
Check(w) ==
  /\ wpc[w] = "check"
  /\ GoTo(w, IF stop THEN "exit" ELSE "pop")
  /\ UNCHANGED <<chainVars, event, stop, clientVars, wchain, wjob, added, ran>>

(* pop_chain, lines 108-117: the first chain that is still owned; expired  *)
(* references before it are dropped.                                       *)
PopChain(w) ==
  /\ wpc[w] = "pop"
  /\ \E i \in DOMAIN ready :
       /\ Owned(ready[i])
       /\ \A j \in 1 .. i - 1 : ~Owned(ready[j])
       /\ wchain' = [wchain EXCEPT ![w] = ready[i]]
       /\ ready' = SubSeq(ready, i + 1, Len(ready))
  /\ GoTo(w, "loop")
  /\ UNCHANGED <<chainOf, keyOf, tasks, pending, event, stop, clientVars, wjob,
                 added, ran>>

PopNothing(w) ==
  /\ wpc[w] = "pop"
  /\ \A i \in DOMAIN ready : ~Owned(ready[i])
  /\ ready' = <<>>
  /\ GoTo(w, "top")
  /\ UNCHANGED <<chainOf, keyOf, tasks, pending, event, stop, clientVars,
                 wchain, wjob, added, ran>>

(* Line 205, first operand: a worker that sees _stop drops the chain.      *)
Loop(w) ==
  /\ wpc[w] = "loop"
  /\ GoTo(w, IF stop THEN "top" ELSE "get")
  /\ wchain' = IF stop THEN [wchain EXCEPT ![w] = None] ELSE wchain
  /\ UNCHANGED <<chainVars, event, stop, clientVars, wjob, added, ran>>

(* The job get_task swaps out of the deque before pop_front.               *)
Taken_back(q) == q[Len(q)]
Taken(q) == Head(q)

(* task_chain::get_task, lines 39-49, finding a job.                       *)
GetTask(w) ==
  LET ch == wchain[w]
  IN  /\ wpc[w] = "get"
      /\ tasks[ch] # <<>>
      /\ wjob' = [wjob EXCEPT ![w] = Taken(tasks[ch])]
      /\ tasks' = [tasks EXCEPT ![ch] = Tail(@)]
      /\ GoTo(w, "exec")
      /\ UNCHANGED <<chainOf, keyOf, pending, ready, event, stop, clientVars,
                     wchain, added, ran>>

(* What an empty chain's pending flag becomes: the next add_task must      *)
(* publish the chain again.                                                *)
PendingWhenEmpty_kept == TRUE
PendingWhenEmpty == FALSE

(* get_task finding no job: the worker leaves the chain.                   *)
GetNothing(w) ==
  LET ch == wchain[w]
  IN  /\ wpc[w] = "get"
      /\ tasks[ch] = <<>>
      /\ pending' = [pending EXCEPT ![ch] = PendingWhenEmpty]
      /\ wchain' = [wchain EXCEPT ![w] = None]
      /\ GoTo(w, "top")
      /\ UNCHANGED <<chainOf, keyOf, tasks, ready, event, stop, clientVars,
                     wjob, added, ran>>

(* Line 207: the job ran; what it throws is kept by its packaged_task.     *)
Execute(w) ==
  LET ch == wchain[w]
  IN  /\ wpc[w] = "exec"
      /\ ran' = [ran EXCEPT ![ch] = Append(@, wjob[w])]
      /\ wjob' = [wjob EXCEPT ![w] = 0]
      /\ GoTo(w, "loop")
      /\ UNCHANGED <<chainVars, event, stop, clientVars, wchain, added>>

-----------------------------------------------------------------------------

AddJob(c) ==
  \/ \E k \in Keys : FindChain(c, k)
  \/ AppendTask(c) \/ Publish(c) \/ Signal(c)

Work(w) ==
  \/ Top(w) \/ Wait(w) \/ Check(w)
  \/ PopChain(w) \/ PopNothing(w)
  \/ Loop(w) \/ GetTask(w) \/ GetNothing(w) \/ Execute(w)

Next ==
  \/ \E c \in Clients : AddJob(c)
  \/ \E k \in Keys : RemoveChain(k)
  \/ Stop
  \/ \E w \in Workers : Work(w)

Spec == Init /\ [][Next]_vars

(* A started add_job is finished and every worker keeps running: waits end *)
(* after 1000 ms at the latest and jobs terminate.                         *)
Fairness ==
  /\ \A c \in Clients : WF_vars(AppendTask(c) \/ Publish(c) \/ Signal(c))
  /\ \A w \in Workers : WF_vars(Work(w))

FairSpec == Spec /\ Fairness

-----------------------------------------------------------------------------
(* Properties                                                              *)

TypeOK ==
  /\ chainOf \in [Keys -> Chains \cup {None}]
  /\ keyOf \in [Chains -> Keys \cup {None}]
  /\ tasks \in [Chains -> Seq(Task)]
  /\ pending \in [Chains -> BOOLEAN]
  /\ ready \in Seq(Chains)
  /\ event \in BOOLEAN /\ stop \in BOOLEAN
  /\ cpc \in [Clients -> {"idle", "found", "publish", "signal"}]
  /\ cchain \in [Clients -> Chains \cup {None}]
  /\ ctask \in [Clients -> 0 .. MaxTasks]
  /\ wpc \in [Workers -> {"top", "wait", "check", "pop", "exit"} \cup Draining]
  /\ wchain \in [Workers -> Chains \cup {None}]
  /\ wjob \in [Workers -> 0 .. MaxTasks]
  /\ issued \in 0 .. MaxTasks
  /\ added \in [Chains -> Seq(Task)]
  /\ ran \in [Chains -> Seq(Task)]

(* Who is responsible for a pending chain: the client about to publish it, *)
(* an entry of _ready2work_list, or the worker draining it.                *)
Publisher(c, ch) == cpc[c] = "publish" /\ cchain[c] = ch
Drainer(w, ch) == wpc[w] \in Draining /\ wchain[w] = ch
Queued(ch) == \E i \in DOMAIN ready : ready[i] = ch
HasToken(ch) ==
  \/ \E c \in Clients : Publisher(c, ch)
  \/ Queued(ch)
  \/ \E w \in Workers : Drainer(w, ch)

(* No two workers ever drain the same chain, so jobs of one chain never    *)
(* run at the same time: the reason chain_pool exists.                     *)
ChainExclusive ==
  \A ch \in Chains : \A v, w \in Workers :
    Drainer(v, ch) /\ Drainer(w, ch) => v = w

(* SDK_CP_ASSERT(_is_pending) of get_task, line 44, in the stronger form   *)
(* that the chain of every draining worker is pending, jobs or not.        *)
PendingAsserted ==
  \A w \in Workers : wpc[w] \in Draining => pending[wchain[w]]

(* No wake-up is lost inside the executor: as long as it is not stopped, a *)
(* chain with jobs that somebody can still reach is on its way to a        *)
(* worker.                                                                 *)
NoStrandedTask ==
  \A ch \in Chains :
    tasks[ch] # <<>> /\ ~stop /\ Owned(ch) => HasToken(ch)

(* Jobs of a chain run one after the other in the order add_task appended  *)
(* them; none is lost or run twice between the deque and the worker.       *)
InExecution(ch) ==
  IF \E w \in Workers : wpc[w] = "exec" /\ wchain[w] = ch
  THEN <<wjob[CHOOSE w \in Workers : wpc[w] = "exec" /\ wchain[w] = ch]>>
  ELSE <<>>

ChainFifo ==
  \A ch \in Chains : added[ch] = ran[ch] \o InExecution(ch) \o tasks[ch]

(* Jobs of one key never run at the same time, if nobody removes its chain.*)
KeyExclusive ==
  \A v, w \in Workers :
    (/\ wpc[v] = "exec" /\ wpc[w] = "exec"
     /\ keyOf[wchain[v]] = keyOf[wchain[w]]
     /\ keyOf[wchain[v]] \notin Removable)
      => v = w

(* The inductive invariant behind the above.  A pending chain has exactly  *)
(* one token (its publisher, its entry in _ready2work_list or its drainer) *)
(* unless the pool is stopping or the chain has been let go.               *)
Places ==
  /\ \A c \in Clients : cpc[c] # "idle" => cchain[c] \in Chains /\ ctask[c] \in Task
  /\ \A w \in Workers : wpc[w] \in Draining <=> wchain[w] # None
  /\ \A w \in Workers : wpc[w] = "exec" => wjob[w] \in Task

OneToken ==
  /\ ChainExclusive
  /\ \A ch \in Chains : \A c, d \in Clients :
       Publisher(c, ch) /\ Publisher(d, ch) => c = d
  /\ \A i, j \in DOMAIN ready : ready[i] = ready[j] => i = j
  /\ \A ch \in Chains : \A c \in Clients : \A w \in Workers :
       ~(Publisher(c, ch) /\ Drainer(w, ch))
  /\ \A ch \in Chains : Queued(ch) =>
       /\ \A c \in Clients : ~Publisher(c, ch)
       /\ \A w \in Workers : ~Drainer(w, ch)

TokenIffPending ==
  \A ch \in Chains :
    /\ HasToken(ch) => pending[ch]
    /\ pending[ch] /\ ~stop /\ Owned(ch) => HasToken(ch)
    /\ tasks[ch] # <<>> => pending[ch]

(* A chain make_shared has not built yet is unknown to everybody.          *)
Unborn ==
  \A ch \in Chains : keyOf[ch] = None => ~Owned(ch) /\ ~pending[ch]

TokenInv == TypeOK /\ Places /\ OneToken /\ TokenIffPending /\ Unborn

(* Every added job runs, unless the pool is stopped or its chain let go.   *)
EveryJobRuns ==
  \A ch \in Chains : \A t \in Task :
    (\E i \in DOMAIN added[ch] : added[ch][i] = t)
      ~> (stop \/ ~Owned(ch) \/ \E i \in DOMAIN ran[ch] : ran[ch][i] = t)

(* The destructor's joins return: after _stop every worker exits, although *)
(* nothing wakes the waiting ones but their timeout.                       *)
StopJoins == stop ~> \A w \in Workers : wpc[w] = "exit"

(* The jobs of a key run in the order they were added, never two at once.  *)
KeySerial == KeyExclusive /\ ChainFifo

(* Jobs run, and the pool can be destroyed.                                *)
ChainsProgress == EveryJobRuns /\ StopJoins
=============================================================================
