----------------------------- MODULE ThreadPool -----------------------------
(***************************************************************************)
(* threading::thread_pool (tools/thread_pool.hpp): clients add tasks with  *)
(* callbacks to a list and release them with run_task; workers pop the     *)
(* first released task, by swapping it with their own and erasing the list *)
(* node, and run it.  A controller calls init and deinit in turn; tasks    *)
(* stay in the list across them.                                           *)
(*                                                                         *)
(* A task function here does what the class is made for: it swaps the      *)
(* callbacks out, blocks further ones and calls those it got.  A client    *)
(* keeps the pointer add_task gave it until it releases the task; the node *)
(* may be erased at any time after that.                                   *)
(***************************************************************************)
EXTENDS Integers, Sequences, FiniteSets

CONSTANTS
  Clients,      \* threads that add and release tasks
  PoolSize,     \* __pool_size
  WeakCas,      \* TRUE: compare_exchange_weak may fail for no reason
  MaxTasks,     \* bound: tasks added in a behaviour
  MaxCbs,       \* bound: callbacks a client adds to one task
  MaxCycles     \* bound: init/deinit cycles

ASSUME PoolConstants ==
  /\ PoolSize \in Nat \ {0}
  /\ WeakCas \in BOOLEAN
  /\ MaxTasks \in Nat /\ MaxCbs \in Nat /\ MaxCycles \in Nat

VARIABLES
  tasks,        \* _tasks, without the nodes' addresses
  event,        \* _have_task is signalled
  state,        \* _thread_context[ix]._state
  threads,      \* _threads[ix] is not null
  wpc, active,  \* worker ix: its place and its active_task
  cpc, mine,    \* client: its place and the id of the task it points to
  kpc, kix,     \* controller: its place in init or deinit and its index
  cycles,       \* number of init calls so far
  added,        \* history: callbacks add_cb accepted for each task
  released,     \* history: tasks run_task was called for
  runs, seen,   \* history: executions and callbacks called, per task
  owed          \* history: tasks already released when init was called

vars == <<tasks, event, state, threads, wpc, active, cpc, mine, kpc, kix,
          cycles, added, released, runs, seen, owed>>
taskVars == <<tasks, added, released>>
workVars == <<wpc, active, runs, seen>>
clientVars == <<cpc, mine>>
controlVars == <<kpc, kix, cycles, owed, state, threads>>

Ix == 1 .. PoolSize
TaskId == 1 .. MaxTasks
WorkerState == {"initing", "working", "exit"}

(* task_type: constructed with its flag set, i.e. not released.            *)
NewTask(i) == [id |-> i, func |-> TRUE, ready |-> FALSE, cbs |-> 0, blocked |-> FALSE]
NoTask == [NewTask(0) EXCEPT !.func = FALSE]

Node(i) == CHOOSE k \in DOMAIN tasks : tasks[k].id = i
NextId == Cardinality({i \in TaskId : added[i] >= 0}) + 1
Released == {tasks[k].id : k \in {j \in DOMAIN tasks : tasks[j].ready}}

(* _state is not initialized by the constructors; nobody reads it before   *)
(* init.                                                                   *)
Init ==
  /\ tasks = <<>>
  /\ event = FALSE
  /\ state \in [Ix -> WorkerState]
  /\ threads = [ix \in Ix |-> FALSE]
  /\ wpc = [ix \in Ix |-> "exit"]
  /\ active = [ix \in Ix |-> NoTask]
  /\ cpc = [c \in Clients |-> "idle"]
  /\ mine = [c \in Clients |-> 0]
  /\ kpc = "idle" /\ kix = 1
  /\ cycles = 0
  /\ added = [i \in TaskId |-> -1]
  /\ released = {}
  /\ runs = [i \in TaskId |-> 0]
  /\ seen = [i \in TaskId |-> 0]
  /\ owed = {}

-----------------------------------------------------------------------------
(* Clients                                                                 *)

(* add_task, lines 212-222.                                                *)
AddTask(c) ==
  /\ cpc[c] = "idle"
  /\ NextId \in TaskId
  /\ tasks' = Append(tasks, NewTask(NextId))
  /\ added' = [added EXCEPT ![NextId] = 0]
  /\ mine' = [mine EXCEPT ![c] = NextId]
  /\ cpc' = [cpc EXCEPT ![c] = "own"]
  /\ UNCHANGED <<event, released, workVars, controlVars>>

(* task_type::add_cb, lines 66-78, on a task of the list.                  *)
AddCb(c) ==
  LET k == Node(mine[c])
  IN  /\ cpc[c] = "own"
      /\ added[mine[c]] < MaxCbs
      /\ ~tasks[k].blocked
      /\ tasks' = [tasks EXCEPT ![k].cbs = @ + 1]
      /\ added' = [added EXCEPT ![mine[c]] = @ + 1]
      /\ UNCHANGED <<event, released, workVars, clientVars, controlVars>>

(* run_task, lines 224-227: release the task, then set the event.          *)
RunTask(c) ==
  /\ cpc[c] = "own"
  /\ tasks' = [tasks EXCEPT ![Node(mine[c])].ready = TRUE]
  /\ released' = released \cup {mine[c]}
  /\ mine' = [mine EXCEPT ![c] = 0]
  /\ cpc' = [cpc EXCEPT ![c] = "signal"]
  /\ UNCHANGED <<event, added, workVars, controlVars>>

RunSignal(c) ==
  /\ cpc[c] = "signal"
  /\ event' = TRUE
  /\ cpc' = [cpc EXCEPT ![c] = "idle"]
  /\ UNCHANGED <<taskVars, mine, workVars, controlVars>>

-----------------------------------------------------------------------------
(* _thread_worker, lines 153-174                                           *)

GoTo(ix, place) == wpc' = [wpc EXCEPT ![ix] = place]

(* Lines 156-160: spin while the state is initing, then enter the do loop. *)
AfterSpin == "wait"

LeaveSpin(ix) ==
  /\ wpc[ix] = "spin"
  /\ state[ix] # "initing" \/ WeakCas
  /\ GoTo(ix, AfterSpin)
  /\ UNCHANGED <<taskVars, event, active, runs, seen, clientVars, controlVars>>

(* Line 161: the event or 1000 ms.                                         *)
Wait_untimed(ix) ==
  /\ wpc[ix] = "wait"
  /\ event /\ event' = FALSE
  /\ GoTo(ix, "pop")
  /\ UNCHANGED <<taskVars, active, runs, seen, clientVars, controlVars>>
Wait(ix) ==
  /\ wpc[ix] = "wait"
  /\ \/ event /\ event' = FALSE
     \/ ~event /\ UNCHANGED event
  /\ GoTo(ix, "pop")
  /\ UNCHANGED <<taskVars, active, runs, seen, clientVars, controlVars>>

(* swap, lines 82-100, as pop_task uses it: the node's own flag has just   *)
(* been set, so both tasks end up not released.                            *)
Swapped(node) == [node EXCEPT !.ready = FALSE]

(* The list without its k-th node.                                         *)
Erased_kept(k) == tasks
Erased(k) == SubSeq(tasks, 1, k - 1) \o SubSeq(tasks, k + 1, Len(tasks))

Ready(k) == tasks[k].ready

(* pop_task, lines 229-246, finding the first released task.               *)
PopTask(ix) ==
  /\ wpc[ix] = "pop"
  /\ \E k \in DOMAIN tasks :
       /\ Ready(k)
       /\ \A j \in 1 .. k - 1 : ~Ready(j)
       /\ active' = [active EXCEPT ![ix] = Swapped(tasks[k])]
       /\ tasks' = Erased(k)
  /\ GoTo(ix, "run")
  /\ UNCHANGED <<event, added, released, runs, seen, clientVars, controlVars>>

PopNothing(ix) ==
  /\ wpc[ix] = "pop"
  /\ \A k \in DOMAIN tasks : ~Ready(k)
  /\ GoTo(ix, "check")
  /\ UNCHANGED <<taskVars, event, active, runs, seen, clientVars, controlVars>>

(* Line 165: the function swaps the callbacks out with swap_and_block      *)
(* (lines 48-56) and calls them; line 171 clears the task.                 *)
RunActive(ix) ==
  LET t == active[ix]
  IN  /\ wpc[ix] = "run"
      /\ runs' = [runs EXCEPT ![t.id] = @ + 1]
      /\ seen' = [seen EXCEPT ![t.id] = @ + (IF t.blocked THEN 0 ELSE t.cbs)]
      /\ active' = [active EXCEPT ![ix] =
                      [t EXCEPT !.func = FALSE, !.cbs = 0, !.blocked = TRUE]]
      /\ GoTo(ix, "pop")
      /\ UNCHANGED <<taskVars, event, clientVars, controlVars>>

(* Line 173.                                                               *)
Check(ix) ==
  /\ wpc[ix] = "check"
  /\ GoTo(ix, IF state[ix] = "working" THEN "wait" ELSE "exit")
  /\ UNCHANGED <<taskVars, event, active, runs, seen, clientVars, controlVars>>

-----------------------------------------------------------------------------
(* init, lines 188-196, and deinit, lines 197-209                          *)

Up == \A ix \in Ix : threads[ix]

(* Where the loops over the indices go on.                                 *)
NextIx(next, done) ==
  IF kix = PoolSize THEN kpc' = done /\ kix' = 1 ELSE kpc' = next /\ kix' = kix + 1

InitBegin ==
  /\ kpc = "idle"
  /\ cycles < MaxCycles
  /\ cycles' = cycles + 1
  /\ owed' = IF Up THEN owed ELSE Released
  /\ kpc' = "initing" /\ kix' = 1
  /\ UNCHANGED <<taskVars, event, workVars, clientVars, state, threads>>

(* Lines 190-192 of one index: the state, and the thread, which starts     *)
(* spinning with a fresh active_task.                                      *)
InitSpawn ==
  /\ kpc = "initing"
  /\ ~threads[kix]
  /\ state' = [state EXCEPT ![kix] = "initing"]
  /\ threads' = [threads EXCEPT ![kix] = TRUE]
  /\ wpc' = [wpc EXCEPT ![kix] = "spin"]
  /\ active' = [active EXCEPT ![kix] = NoTask]
  /\ kpc' = "working"
  /\ UNCHANGED <<taskVars, event, runs, seen, clientVars, kix, cycles, owed>>

(* Line 193.                                                               *)
RunningState_kept == "initing"
RunningState == "working"

InitWorking ==
  /\ kpc = "working"
  /\ state' = [state EXCEPT ![kix] = RunningState]
  /\ NextIx("initing", "idle")
  /\ UNCHANGED <<taskVars, event, workVars, clientVars, cycles, owed, threads>>

(* Line 190: init does nothing for a thread that is there.                 *)
InitSkip ==
  /\ kpc = "initing"
  /\ threads[kix]
  /\ NextIx("initing", "idle")
  /\ UNCHANGED <<taskVars, event, workVars, clientVars, cycles, owed, state, threads>>

DeinitBegin ==
  /\ kpc = "idle"
  /\ kpc' = "exiting" /\ kix' = 1
  /\ UNCHANGED <<taskVars, event, workVars, clientVars, cycles, owed, state, threads>>

(* Lines 199-200 of one index.                                             *)
ExitState(ix) == "exit"

DeinitExit ==
  /\ kpc = "exiting"
  /\ state' = [state EXCEPT ![kix] = ExitState(kix)]
  /\ kpc' = "signal"
  /\ UNCHANGED <<taskVars, event, workVars, clientVars, kix, cycles, owed, threads>>

DeinitSignal ==
  /\ kpc = "signal"
  /\ event' = TRUE
  /\ NextIx("exiting", "joining")
  /\ UNCHANGED <<taskVars, workVars, clientVars, cycles, owed, state, threads>>

(* Lines 203-208 of one index.                                             *)
Joined_always(ix) == TRUE
Joined(ix) == threads[ix] => wpc[ix] = "exit"

DeinitJoin ==
  /\ kpc = "joining"
  /\ Joined(kix)
  /\ threads' = [threads EXCEPT ![kix] = FALSE]
  /\ NextIx("joining", "idle")
  /\ UNCHANGED <<taskVars, event, workVars, clientVars, cycles, owed, state>>

-----------------------------------------------------------------------------

Client(c) == AddTask(c) \/ AddCb(c) \/ RunTask(c) \/ RunSignal(c)

Work(ix) ==
  \/ LeaveSpin(ix) \/ Wait(ix) \/ PopTask(ix) \/ PopNothing(ix)
  \/ RunActive(ix) \/ Check(ix)

Control ==
  \/ InitSpawn \/ InitWorking \/ InitSkip
  \/ DeinitExit \/ DeinitSignal \/ DeinitJoin

Next ==
  \/ \E c \in Clients : Client(c)
  \/ \E ix \in Ix : Work(ix)
  \/ InitBegin \/ DeinitBegin \/ Control

Spec == Init /\ [][Next]_vars

(* Threads that run keep running; nobody has to call init, deinit or a     *)
(* client operation, but a call that began goes on.                        *)
FairSpec ==
  /\ Spec
  /\ \A c \in Clients : WF_vars(RunSignal(c))
  /\ \A ix \in Ix : WF_vars(Work(ix))
  /\ WF_vars(Control)

-----------------------------------------------------------------------------
(* Properties                                                              *)

(* Types; a list node has a function and belongs to a task that has not    *)
(* run, and the pointer of a client is valid as long as it may use it: no  *)
(* worker takes the node away before run_task.                             *)
TypeOK ==
  /\ \A k \in DOMAIN tasks :
       /\ tasks[k] \in [id : TaskId, func : {TRUE}, ready : BOOLEAN,
                        cbs : 0 .. MaxCbs, blocked : {FALSE}]
       /\ runs[tasks[k].id] = 0
  /\ event \in BOOLEAN
  /\ state \in [Ix -> WorkerState]
  /\ threads \in [Ix -> BOOLEAN]
  /\ wpc \in [Ix -> {"spin", "wait", "pop", "run", "check", "exit"}]
  /\ \A ix \in Ix : wpc[ix] = "run" => active[ix].func
  /\ cpc \in [Clients -> {"idle", "own", "signal"}]
  /\ \A c \in Clients :
       cpc[c] = "own" => \E k \in DOMAIN tasks : tasks[k].id = mine[c]
  /\ kix \in Ix
  /\ added \in [TaskId -> -1 .. MaxCbs]

(* A task runs at most once and only after run_task, although every worker *)
(* and every cycle of init and deinit goes through the same list.          *)
RunsOnceWhenReleased ==
  \A i \in TaskId : runs[i] <= (IF i \in released THEN 1 ELSE 0)

(* Every callback add_cb accepted is called when its task runs.            *)
CallbacksKept ==
  \A i \in TaskId : runs[i] = 1 => seen[i] = added[i]

Down == kpc = "idle" /\ ~Up

(* What deinit leaves behind, the next cycle makes good: whatever was      *)
(* released before init has run when the following deinit returns, however *)
(* soon it was called, because each worker looks at the list at least once.*)
DebtPaid == Down => \A i \in owed : runs[i] = 1

(* Between calls the pool has all its threads or none, and none survives   *)
(* deinit: what ~thread_pool asserts, line 149.                            *)
AllJoined == Down => \A ix \in Ix : ~threads[ix] /\ wpc[ix] = "exit"

(* A released task runs, or the pool is shut down.                         *)
ReleasedRuns ==
  \A i \in TaskId :
    i \in released /\ kpc = "idle" /\ Up ~> runs[i] = 1 \/ kpc = "exiting"

(* deinit returns.                                                         *)
DeinitReturns == kpc \in {"exiting", "signal", "joining"} ~> kpc = "idle"

(* A released task runs exactly once with all its callbacks, over cycles   *)
(* of init and deinit.                                                     *)
PoolSafe == RunsOnceWhenReleased /\ CallbacksKept /\ DebtPaid

(* Released tasks run, and deinit returns.                                 *)
PoolProgress == ReleasedRuns /\ DeinitReturns
=============================================================================
