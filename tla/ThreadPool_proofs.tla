-------------------------- MODULE ThreadPool_proofs --------------------------
(***************************************************************************)
(* A released task of the thread pool runs at most once, with all its      *)
(* callbacks, and what one cycle of init and deinit leaves behind the next *)
(* one runs: for any number of clients, workers, tasks and cycles.         *)
(***************************************************************************)
EXTENDS ThreadPool, FiniteSetTheorems, SequenceTheorems, TLAPS

Task == [id : Nat, func : BOOLEAN, ready : BOOLEAN, cbs : Nat, blocked : BOOLEAN]

PoolTypes ==
  /\ tasks \in Seq(Task)
  /\ threads \in [Ix -> BOOLEAN]
  /\ wpc \in [Ix -> {"spin", "wait", "pop", "run", "check", "exit"}]
  /\ active \in [Ix -> Task]
  /\ cpc \in [Clients -> {"idle", "own", "signal"}]
  /\ mine \in [Clients -> TaskId \cup {0}]
  /\ kpc \in {"idle", "initing", "working", "exiting", "signal", "joining"}
  /\ kix \in Ix
  /\ added \in [TaskId -> Int]
  /\ released \subseteq TaskId
  /\ runs \in [TaskId -> Nat] /\ seen \in [TaskId -> Nat]

(* Tasks are numbered in the order they were added.                        *)
Numbered ==
  \E n \in 0 .. MaxTasks : \A i \in TaskId : added[i] >= 0 <=> i <= n

(* What is known of a task with id i that has not run: nobody has called   *)
(* its callbacks, and it holds all that add_cb accepted.                   *)
Waiting(t) ==
  /\ t.id \in TaskId /\ added[t.id] >= 0
  /\ runs[t.id] = 0 /\ seen[t.id] = 0
  /\ t.cbs = added[t.id] /\ ~t.blocked

(* The list: tasks that have not run, each once, ready when released.      *)
ListInv ==
  /\ \A k \in DOMAIN tasks :
       Waiting(tasks[k]) /\ (tasks[k].ready <=> tasks[k].id \in released)
  /\ \A j, k \in DOMAIN tasks : tasks[j].id = tasks[k].id => j = k

(* The workers: released tasks that have not run, nobody else's, and not   *)
(* in the list any more.                                                   *)
WorkInv ==
  \A ix \in Ix : wpc[ix] = "run" =>
    /\ Waiting(active[ix]) /\ active[ix].id \in released
    /\ \A jx \in Ix : wpc[jx] = "run" /\ active[jx].id = active[ix].id => jx = ix
    /\ \A k \in DOMAIN tasks : tasks[k].id # active[ix].id

(* A client points to a node of the list that it alone may release.        *)
OwnInv ==
  \A c \in Clients : cpc[c] = "own" =>
    /\ mine[c] \notin released
    /\ \E k \in DOMAIN tasks : tasks[k].id = mine[c]
    /\ \A d \in Clients : cpc[d] = "own" /\ mine[d] = mine[c] => d = c

Listed(i) == \E k \in DOMAIN tasks : tasks[k].id = i
Running(i) == \E ix \in Ix : wpc[ix] = "run" /\ active[ix].id = i

(* A task that ran was released and its callbacks were called; a task that *)
(* was released has run, runs now or is in the list.                       *)
RanInv ==
  /\ \A i \in TaskId : \/ runs[i] = 0 /\ seen[i] = 0
                       \/ runs[i] = 1 /\ i \in released /\ seen[i] = added[i]
  /\ \A i \in released : runs[i] = 1 \/ Listed(i) \/ Running(i)

(* Threads are started and joined in order.                                *)
AllUp == \A ix \in Ix : threads[ix]
AllDown == \A ix \in Ix : ~threads[ix]
Paid == \A i \in owed : runs[i] = 1
Taken == \A k \in DOMAIN tasks : tasks[k].id \notin owed

ThreadsInv ==
  /\ \A ix \in Ix : ~threads[ix] => wpc[ix] = "exit"
  /\ kpc = "idle" => AllUp \/ (AllDown /\ Paid)
  /\ kpc = "initing" => AllUp \/ \A ix \in Ix : threads[ix] <=> ix < kix
  /\ kpc = "working" => AllUp \/ \A ix \in Ix : threads[ix] <=> ix <= kix
  /\ kpc \in {"exiting", "signal"} => AllUp \/ (AllDown /\ Paid)
  /\ kpc = "joining" => \/ \A ix \in Ix : threads[ix] <=> ix >= kix
                        \/ AllDown /\ Paid

(* Whoever has looked at the list left nothing in it that was owed.        *)
DebtInv ==
  /\ owed \subseteq released
  /\ \A ix \in Ix : threads[ix] /\ wpc[ix] \in {"check", "exit"} => Taken

PoolInv ==
  /\ PoolTypes /\ Numbered /\ ListInv /\ WorkInv /\ OwnInv /\ RanInv
  /\ ThreadsInv /\ DebtInv

-----------------------------------------------------------------------------
(* What the steps that touch tasks do, without positions and choices       *)

Appends(c, i, n) ==
  /\ tasks' \in Seq(Task) /\ DOMAIN tasks' = DOMAIN tasks \cup {n}
  /\ \A k \in DOMAIN tasks : k # n /\ tasks'[k] = tasks[k]
  /\ tasks'[n].id = i /\ ~tasks'[n].ready
  /\ tasks'[n].cbs = 0 /\ ~tasks'[n].blocked
  /\ added[i] < 0 /\ added' = [added EXCEPT ![i] = 0]
  /\ \A j \in TaskId : added[j] >= 0 <=> j < i
  /\ cpc[c] = "idle" /\ cpc' = [cpc EXCEPT ![c] = "own"]
  /\ mine' = [mine EXCEPT ![c] = i]
  /\ i \notin released /\ runs[i] = 0 /\ seen[i] = 0
  /\ \A k \in DOMAIN tasks : tasks[k].id # i
  /\ \A ix \in Ix : wpc[ix] = "run" => active[ix].id # i
  /\ \A d \in Clients : cpc[d] = "own" => mine[d] # i
  /\ UNCHANGED <<event, released, workVars, controlVars>>

(* The node of client c, and nothing else of the list, changes.            *)
Updates(c, k) ==
  /\ tasks' \in Seq(Task) /\ DOMAIN tasks' = DOMAIN tasks
  /\ \A j \in DOMAIN tasks : j # k => tasks'[j] = tasks[j] /\ tasks[j].id # mine[c]
  /\ tasks'[k].id = tasks[k].id /\ tasks'[k].blocked = tasks[k].blocked
  /\ tasks[k].id = mine[c] /\ tasks[k].id \in TaskId /\ tasks[k].id \notin released
  /\ Waiting(tasks[k])
  /\ \A ix \in Ix : wpc[ix] = "run" => active[ix].id # mine[c]
  /\ cpc[c] = "own" /\ UNCHANGED <<event, workVars, controlVars>>

Accepts(c, k) ==
  /\ Updates(c, k)
  /\ tasks'[k].ready = tasks[k].ready /\ tasks'[k].cbs = tasks[k].cbs + 1
  /\ added' = [added EXCEPT ![mine[c]] = @ + 1]
  /\ UNCHANGED <<released, clientVars>>

Releases(c, k) ==
  /\ Updates(c, k)
  /\ tasks'[k].ready /\ tasks'[k].cbs = tasks[k].cbs
  /\ released' = released \cup {mine[c]}
  /\ mine' = [mine EXCEPT ![c] = 0] /\ cpc' = [cpc EXCEPT ![c] = "signal"]
  /\ UNCHANGED added

Takes(ix, k) ==
  /\ tasks' \in Seq(Task)
  /\ Waiting(tasks[k]) /\ tasks[k].id \in released
  /\ active' \in [Ix -> Task]
  /\ \A jx \in Ix : jx # ix => active'[jx] = active[jx]
  /\ active'[ix].id = tasks[k].id /\ active'[ix].cbs = tasks[k].cbs
  /\ active'[ix].blocked = tasks[k].blocked
  /\ wpc[ix] = "pop" /\ wpc' = [wpc EXCEPT ![ix] = "run"]
  /\ \A j \in DOMAIN tasks : j # k => \E m \in DOMAIN tasks' : tasks'[m] = tasks[j]
  /\ \A m \in DOMAIN tasks' : \E j \in DOMAIN tasks :
       j # k /\ tasks'[m] = tasks[j] /\ j = (IF m < k THEN m ELSE m + 1)
  /\ DOMAIN tasks' \subseteq Int /\ k \in Int
  /\ UNCHANGED <<event, added, released, runs, seen, clientVars, controlVars>>

RunsOnce(ix, i) ==
  /\ i = active[ix].id /\ Waiting(active[ix]) /\ i \in released
  /\ runs' = [runs EXCEPT ![i] = 1]
  /\ seen' = [seen EXCEPT ![i] = added[i]] /\ added[i] \in Nat
  /\ active' \in [Ix -> Task]
  /\ \A jx \in Ix : jx # ix => active'[jx] = active[jx]
  /\ wpc[ix] = "run" /\ wpc' = [wpc EXCEPT ![ix] = "pop"]
  /\ \A jx \in Ix : wpc[jx] = "run" /\ jx # ix => active[jx].id # i
  /\ \A k \in DOMAIN tasks : tasks[k].id # i
  /\ UNCHANGED <<taskVars, event, clientVars, controlVars>>

-----------------------------------------------------------------------------
(* Facts about the list                                                    *)

(* add_task gives out an id that no task has.                              *)
LEMMA FreshId ==
  ASSUME PoolTypes, Numbered, NextId \in TaskId
  PROVE  /\ added[NextId] < 0
         /\ \A i \in TaskId : added[i] >= 0 <=> i < NextId
<1>1. PICK n \in 0 .. MaxTasks : \A i \in TaskId : added[i] >= 0 <=> i <= n
  BY DEF Numbered
<1>2. {i \in TaskId : added[i] >= 0} = 1 .. n
  BY <1>1, PoolConstants DEF TaskId
<1>3. n \in Nat BY PoolConstants
<1>4. Cardinality(1 .. n) = n BY <1>3, FS_Interval
<1>5. NextId = n + 1 BY <1>2, <1>4 DEF NextId
<1>6. \A i \in TaskId : i \in Int BY DEF TaskId
<1>7. ~(NextId <= n) /\ \A i \in TaskId : i <= n <=> i < NextId BY <1>3, <1>5, <1>6
<1>8. added[NextId] \in Int BY DEF PoolTypes
<1>. QED BY <1>1, <1>7, <1>8

(* add_task appends a task that nobody knows and that has not run.         *)
LEMMA AddTaskFacts ==
  ASSUME PoolInv, NEW c \in Clients, AddTask(c)
  PROVE  \E i \in TaskId, n \in Nat : Appends(c, i, n)
<1>. DEFINE i == NextId
<1>1. i \in TaskId /\ i \in Nat BY DEF AddTask, TaskId
<1>2. added[i] < 0 /\ \A j \in TaskId : added[j] >= 0 <=> j < i
  BY <1>1, FreshId DEF PoolInv
<1>3. NewTask(i) \in Task BY <1>1 DEF NewTask, Task
<1>4. tasks' = Append(tasks, NewTask(i)) BY DEF AddTask
<1>5. tasks \in Seq(Task) BY DEF PoolInv, PoolTypes
<1>6. /\ tasks' \in Seq(Task) /\ DOMAIN tasks' = 1 .. Len(tasks) + 1
      /\ \A k \in DOMAIN tasks : tasks'[k] = tasks[k]
      /\ tasks'[Len(tasks) + 1] = NewTask(i)
  BY <1>3, <1>4, <1>5
<1>. HIDE DEF i
<1>7. added[i] \in Int /\ runs[i] \in Nat /\ seen[i] \in Nat
  BY <1>1 DEF PoolInv, PoolTypes
<1>8. runs[i] = 0 /\ seen[i] = 0
  <2>1. (runs[i] = 0 /\ seen[i] = 0) \/ seen[i] = added[i] BY <1>1 DEF PoolInv, RanInv
  <2>. QED BY <1>2, <1>7, <2>1
<1>9. i \notin released
  <2>. SUFFICES ASSUME i \in released PROVE FALSE OBVIOUS
  <2>1. \/ \E k \in DOMAIN tasks : tasks[k].id = i
        \/ \E ix \in Ix : wpc[ix] = "run" /\ active[ix].id = i
    BY <1>8 DEF PoolInv, RanInv, Listed, Running
  <2>2. added[i] >= 0 BY <2>1 DEF PoolInv, ListInv, WorkInv, Waiting
  <2>. QED BY <1>2, <1>7, <2>2
<1>10. /\ \A k \in DOMAIN tasks : tasks[k].id # i
       /\ \A ix \in Ix : wpc[ix] = "run" => active[ix].id # i
  <2>1. /\ \A k \in DOMAIN tasks : added[tasks[k].id] >= 0
        /\ \A ix \in Ix : wpc[ix] = "run" => added[active[ix].id] >= 0
    BY DEF PoolInv, ListInv, WorkInv, Waiting
  <2>. QED BY <1>2, <1>7, <2>1
<1>11. \A d \in Clients : cpc[d] = "own" => mine[d] # i BY <1>10 DEF PoolInv, OwnInv
<1>12. PICK n \in Nat :
         /\ DOMAIN tasks' = DOMAIN tasks \cup {n}
         /\ \A k \in DOMAIN tasks : k # n /\ tasks'[k] = tasks[k]
         /\ tasks'[n].id = i /\ ~tasks'[n].ready
         /\ tasks'[n].cbs = 0 /\ ~tasks'[n].blocked
  <2>1. Len(tasks) \in Nat /\ DOMAIN tasks = 1 .. Len(tasks) BY <1>5
  <2>2. 1 .. Len(tasks) + 1 = 1 .. Len(tasks) \cup {Len(tasks) + 1} BY <2>1
  <2>3. \A k \in DOMAIN tasks : k # Len(tasks) + 1 BY <2>1
  <2>4. /\ NewTask(i).id = i /\ ~NewTask(i).ready
        /\ NewTask(i).cbs = 0 /\ ~NewTask(i).blocked
    BY DEF NewTask
  <2>. QED BY <1>6, <2>1, <2>2, <2>3, <2>4
<1>13. /\ added' = [added EXCEPT ![i] = 0] /\ cpc[c] = "idle"
       /\ mine' = [mine EXCEPT ![c] = i] /\ cpc' = [cpc EXCEPT ![c] = "own"]
       /\ UNCHANGED <<event, released, workVars, controlVars>>
  BY DEF AddTask, i
<1>. QED BY <1>1, <1>2, <1>6, <1>8, <1>9, <1>10, <1>11, <1>12, <1>13 DEF Appends

(* A client's pointer names one node of the list.                          *)
LEMMA OwnNode ==
  ASSUME PoolInv, NEW c \in Clients, cpc[c] = "own"
  PROVE  \E k \in DOMAIN tasks :
           /\ k = Node(mine[c]) /\ tasks[k].id = mine[c] /\ k \in Nat
           /\ tasks[k] \in Task
           /\ Waiting(tasks[k]) /\ ~tasks[k].ready /\ mine[c] \in TaskId
           /\ \A j \in DOMAIN tasks : j # k => tasks[j].id # mine[c]
<1>1. \E k \in DOMAIN tasks : tasks[k].id = mine[c] BY DEF PoolInv, OwnInv
<1>2. PICK k \in DOMAIN tasks : k = Node(mine[c]) /\ tasks[k].id = mine[c]
  BY <1>1 DEF Node
<1>3. k \in Nat /\ tasks[k] \in Task BY <1>2 DEF PoolInv, PoolTypes
<1>4. Waiting(tasks[k]) /\ ~tasks[k].ready /\ mine[c] \in TaskId
  BY <1>2 DEF PoolInv, ListInv, OwnInv, Waiting
<1>5. \A j \in DOMAIN tasks : j # k => tasks[j].id # mine[c]
  BY <1>2 DEF PoolInv, ListInv
<1>. QED BY <1>2, <1>3, <1>4, <1>5

(* add_cb changes the callbacks of that node.                              *)
LEMMA AddCbFacts ==
  ASSUME PoolInv, NEW c \in Clients, AddCb(c)
  PROVE  \E k \in DOMAIN tasks : Accepts(c, k)
<1>1. cpc[c] = "own" BY DEF AddCb
<1>2. PICK k \in DOMAIN tasks :
        /\ k = Node(mine[c]) /\ tasks[k].id = mine[c] /\ k \in Nat
        /\ tasks[k] \in Task
        /\ Waiting(tasks[k]) /\ ~tasks[k].ready /\ mine[c] \in TaskId
        /\ \A j \in DOMAIN tasks : j # k => tasks[j].id # mine[c]
  BY <1>1, OwnNode
<1>3. /\ tasks' = [tasks EXCEPT ![k] = [tasks[k] EXCEPT !.cbs = @ + 1]]
      /\ added' = [added EXCEPT ![tasks[k].id] = @ + 1]
  BY <1>2 DEF AddCb
<1>4. [tasks[k] EXCEPT !.cbs = @ + 1] \in Task BY <1>2 DEF Task
<1>5. tasks \in Seq(Task) BY DEF PoolInv, PoolTypes
<1>6. tasks' \in Seq(Task) /\ DOMAIN tasks' = DOMAIN tasks BY <1>3, <1>4, <1>5
<1>7. /\ tasks'[k].id = tasks[k].id /\ tasks'[k].ready = tasks[k].ready
      /\ tasks'[k].blocked = tasks[k].blocked
      /\ tasks'[k].cbs = tasks[k].cbs + 1
  BY <1>2, <1>3, <1>5 DEF Task
<1>8. \A j \in DOMAIN tasks : j # k => tasks'[j] = tasks[j] BY <1>3
<1>9. tasks[k].id \notin released BY <1>1, <1>2 DEF PoolInv, OwnInv
<1>10. \A ix \in Ix : wpc[ix] = "run" => active[ix].id # mine[c]
  BY <1>2 DEF PoolInv, WorkInv
<1>11. UNCHANGED <<event, released, workVars, clientVars, controlVars>> BY DEF AddCb
<1>. QED BY <1>1, <1>2, <1>3, <1>6, <1>7, <1>8, <1>9, <1>10, <1>11
         DEF Accepts, Updates

(* run_task changes the flag of that node.                                 *)
LEMMA RunTaskFacts ==
  ASSUME PoolInv, NEW c \in Clients, RunTask(c)
  PROVE  \E k \in DOMAIN tasks : Releases(c, k)
<1>1. cpc[c] = "own" BY DEF RunTask
<1>2. PICK k \in DOMAIN tasks :
        /\ k = Node(mine[c]) /\ tasks[k].id = mine[c] /\ k \in Nat
        /\ tasks[k] \in Task
        /\ Waiting(tasks[k]) /\ ~tasks[k].ready /\ mine[c] \in TaskId
        /\ \A j \in DOMAIN tasks : j # k => tasks[j].id # mine[c]
  BY <1>1, OwnNode
<1>3. tasks' = [tasks EXCEPT ![k] = [tasks[k] EXCEPT !.ready = TRUE]]
  BY <1>2 DEF RunTask
<1>4. [tasks[k] EXCEPT !.ready = TRUE] \in Task BY <1>2 DEF Task
<1>5. tasks \in Seq(Task) BY DEF PoolInv, PoolTypes
<1>6. tasks' \in Seq(Task) /\ DOMAIN tasks' = DOMAIN tasks BY <1>3, <1>4, <1>5
<1>7. /\ tasks'[k].id = tasks[k].id /\ tasks'[k].ready
      /\ tasks'[k].blocked = tasks[k].blocked
      /\ tasks'[k].cbs = tasks[k].cbs
  BY <1>2, <1>3, <1>5 DEF Task
<1>8. \A j \in DOMAIN tasks : j # k => tasks'[j] = tasks[j] BY <1>3
<1>9. mine[c] \notin released BY <1>1 DEF PoolInv, OwnInv
<1>10. \A ix \in Ix : wpc[ix] = "run" => active[ix].id # mine[c]
  BY <1>2 DEF PoolInv, WorkInv
<1>11. /\ released' = released \cup {mine[c]} /\ mine' = [mine EXCEPT ![c] = 0]
       /\ cpc' = [cpc EXCEPT ![c] = "signal"]
       /\ UNCHANGED <<event, added, workVars, controlVars>>
  BY DEF RunTask
<1>. QED BY <1>1, <1>2, <1>6, <1>7, <1>8, <1>9, <1>10, <1>11 DEF Releases, Updates

(* pop_task takes one ready task out of the list and leaves the others.    *)
LEMMA PopTaskFacts ==
  ASSUME PoolInv, NEW ix \in Ix, PopTask(ix)
  PROVE  \E k \in DOMAIN tasks : Takes(ix, k)
<1>1. PICK k \in DOMAIN tasks :
        /\ tasks[k].ready /\ active' = [active EXCEPT ![ix] = Swapped(tasks[k])]
        /\ tasks' = Erased(k)
  BY DEF PopTask, Ready
<1>2. tasks \in Seq(Task) /\ active \in [Ix -> Task] BY DEF PoolInv, PoolTypes
<1>3. k \in 1 .. Len(tasks) /\ Len(tasks) \in Nat /\ tasks[k] \in Task BY <1>1, <1>2
<1>4. Waiting(tasks[k]) /\ tasks[k].id \in released BY <1>1 DEF PoolInv, ListInv
<1>5. active'[ix] = Swapped(tasks[k]) BY <1>1, <1>2
<1>6. /\ active'[ix] \in Task
      /\ active'[ix].id = tasks[k].id /\ active'[ix].cbs = tasks[k].cbs
      /\ active'[ix].blocked = tasks[k].blocked
  BY <1>3, <1>5 DEF Swapped, Task
<1>. DEFINE a == SubSeq(tasks, 1, k - 1)
            b == SubSeq(tasks, k + 1, Len(tasks))
<1>7. /\ a \in Seq(Task) /\ Len(a) = k - 1
      /\ \A m \in 1 .. k - 1 : a[m] = tasks[m]
  BY <1>2, <1>3, SubSeqProperties
<1>8. /\ b \in Seq(Task) /\ Len(b) = Len(tasks) - k
      /\ \A m \in 1 .. Len(tasks) - k : b[m] = tasks[k + m]
  <2>1. \A m, n \in Int : m \in 1 .. n - k => /\ m \in 1 .. n + 1 - (k + 1)
                                              /\ k + 1 + m - 1 = k + m
    BY <1>3
  <2>. QED BY <1>2, <1>3, <2>1, SubSeqProperties
<1>9. tasks' = a \o b BY <1>1 DEF Erased
<1>. HIDE DEF a, b
<1>10. tasks' \in Seq(Task) /\ Len(tasks') = Len(tasks) - 1
  BY <1>3, <1>7, <1>8, <1>9
<1>11. \A m \in 1 .. k - 1 : m \in DOMAIN tasks' /\ tasks'[m] = tasks[m]
  BY <1>3, <1>7, <1>8, <1>9, <1>10
<1>12. \A m \in k .. Len(tasks) - 1 : m \in DOMAIN tasks' /\ tasks'[m] = tasks[m + 1]
  <2>. SUFFICES ASSUME NEW m \in k .. Len(tasks) - 1
                PROVE  m \in DOMAIN tasks' /\ tasks'[m] = tasks[m + 1]
    OBVIOUS
  <2>1. tasks'[m] = b[m - (k - 1)] BY SMTT(30), <1>3, <1>7, <1>8, <1>9
  <2>2. m - (k - 1) \in 1 .. Len(tasks) - k /\ k + (m - (k - 1)) = m + 1 BY <1>3
  <2>3. b[m - (k - 1)] = tasks[m + 1] BY <1>8, <2>2
  <2>. QED BY <1>3, <1>10, <2>1, <2>3
<1>13. DOMAIN tasks' = 1 .. Len(tasks) - 1 BY <1>10
<1>14. \A j \in DOMAIN tasks : j # k => \E m \in DOMAIN tasks' : tasks'[m] = tasks[j]
  <2>. SUFFICES ASSUME NEW j \in DOMAIN tasks, j # k
                PROVE  \E m \in DOMAIN tasks' : tasks'[m] = tasks[j]
    OBVIOUS
  <2>1. j \in 1 .. Len(tasks) BY <1>2
  <2>2. CASE j < k BY <1>3, <1>11, <2>1, <2>2
  <2>3. CASE j > k
    <3>1. j - 1 \in k .. Len(tasks) - 1 /\ (j - 1) + 1 = j BY <1>3, <2>1, <2>3
    <3>. QED BY <1>12, <3>1
  <2>. QED BY <1>3, <2>1, <2>2, <2>3
<1>15. \A m \in DOMAIN tasks' : \E j \in DOMAIN tasks :
         j # k /\ tasks'[m] = tasks[j] /\ j = (IF m < k THEN m ELSE m + 1)
  <2>. SUFFICES ASSUME NEW m \in 1 .. Len(tasks) - 1
                PROVE  \E j \in DOMAIN tasks : /\ j # k /\ tasks'[m] = tasks[j]
                                               /\ j = (IF m < k THEN m ELSE m + 1)
    BY <1>13
  <2>1. CASE m < k BY <1>2, <1>3, <1>11, <2>1
  <2>2. CASE m >= k BY <1>2, <1>3, <1>12, <2>2
  <2>. QED BY <1>3, <2>1, <2>2
<1>16. wpc[ix] = "pop" /\ wpc' = [wpc EXCEPT ![ix] = "run"] BY DEF PopTask, GoTo
<1>17. /\ active' \in [Ix -> Task]
       /\ \A jx \in Ix : jx # ix => active'[jx] = active[jx]
  BY <1>1, <1>2, <1>5, <1>6
<1>18. UNCHANGED <<event, added, released, runs, seen, clientVars, controlVars>>
  BY DEF PopTask
<1>. QED
  BY <1>3, <1>4, <1>6, <1>10, <1>13, <1>14, <1>15, <1>16, <1>17, <1>18 DEF Takes

(* A worker runs its task once and calls what it holds.                    *)
LEMMA RunActiveFacts ==
  ASSUME PoolInv, NEW ix \in Ix, RunActive(ix)
  PROVE  \E i \in TaskId : RunsOnce(ix, i)
<1>1. wpc[ix] = "run" BY DEF RunActive
<1>2. PICK i \in TaskId : i = active[ix].id /\ Waiting(active[ix]) /\ i \in released
  BY <1>1 DEF PoolInv, WorkInv, Waiting
<1>3. active[ix] \in Task /\ runs \in [TaskId -> Nat] /\ seen \in [TaskId -> Nat]
  BY DEF PoolInv, PoolTypes
<1>4. runs[i] = 0 /\ seen[i] = 0 /\ ~active[ix].blocked /\ active[ix].cbs = added[i]
  BY <1>2 DEF Waiting
<1>5. added[i] \in Nat BY <1>3, <1>4 DEF Task
<1>6. /\ runs' = [runs EXCEPT ![i] = runs[i] + 1]
      /\ seen' = [seen EXCEPT ![i] = seen[i] + added[i]]
  BY <1>2, <1>4 DEF RunActive
<1>7. runs' = [runs EXCEPT ![i] = 1] /\ seen' = [seen EXCEPT ![i] = added[i]]
  <2>1. runs[i] + 1 = 1 /\ seen[i] + added[i] = added[i] BY <1>4, <1>5
  <2>. QED BY <1>6, <2>1
<1>. DEFINE t == [active[ix] EXCEPT !.func = FALSE, !.cbs = 0, !.blocked = TRUE]
<1>8. t \in Task BY <1>3 DEF Task
<1>9. active' = [active EXCEPT ![ix] = t] BY DEF RunActive
<1>. HIDE DEF t
<1>10. active' \in [Ix -> Task] /\ \A jx \in Ix : jx # ix => active'[jx] = active[jx]
  BY <1>8, <1>9 DEF PoolInv, PoolTypes
<1>11. wpc' = [wpc EXCEPT ![ix] = "pop"] BY DEF RunActive, GoTo
<1>12. /\ \A jx \in Ix : wpc[jx] = "run" /\ jx # ix => active[jx].id # i
       /\ \A k \in DOMAIN tasks : tasks[k].id # i
  BY <1>1, <1>2 DEF PoolInv, WorkInv
<1>13. UNCHANGED <<taskVars, event, clientVars, controlVars>> BY DEF RunActive
<1>. QED BY <1>1, <1>2, <1>5, <1>7, <1>10, <1>11, <1>12, <1>13 DEF RunsOnce

(* The indices, without the arithmetic of their set.                       *)
LEMMA Indices ==
  /\ 1 \in Ix /\ PoolSize \in Ix
  /\ \A i \in Ix : i \in Int /\ 1 <= i /\ i <= PoolSize
  /\ \A i \in Ix : i # PoolSize => i + 1 \in Ix
BY PoolConstants DEF Ix

(* A task that the constructors make.                                      *)
LEMMA FreshTask == NoTask \in Task
BY DEF NoTask, NewTask, Task

-----------------------------------------------------------------------------
(* What each step keeps                                                    *)

(* Every step keeps the types.                                             *)
LEMMA PoolTypesStep ==
  PoolInv /\ [Next]_vars => PoolTypes'
<1>. SUFFICES ASSUME PoolInv, [Next]_vars PROVE PoolTypes'
  OBVIOUS
<1>. USE DEF PoolInv, PoolTypes, taskVars, workVars, clientVars, controlVars
<1>1. ASSUME NEW c \in Clients, AddTask(c) PROVE PoolTypes'
  <2>1. PICK i \in TaskId, n \in Nat : Appends(c, i, n) BY <1>1, AddTaskFacts
  <2>. QED BY <2>1 DEF Appends
<1>2. ASSUME NEW c \in Clients, AddCb(c) PROVE PoolTypes'
  <2>1. PICK k \in DOMAIN tasks : Accepts(c, k) BY <1>2, AddCbFacts
  <2>. QED BY <2>1 DEF Accepts, Updates
<1>3. ASSUME NEW c \in Clients, RunTask(c) PROVE PoolTypes'
  <2>1. PICK k \in DOMAIN tasks : Releases(c, k) BY <1>3, RunTaskFacts
  <2>. QED BY <2>1 DEF Releases, Updates
<1>4. ASSUME NEW c \in Clients, RunSignal(c) PROVE PoolTypes'
  BY <1>4 DEF RunSignal
<1>5. ASSUME NEW ix \in Ix, LeaveSpin(ix) PROVE PoolTypes'
  BY <1>5 DEF LeaveSpin, GoTo, AfterSpin
<1>6. ASSUME NEW ix \in Ix, Wait(ix) PROVE PoolTypes'
  BY <1>6 DEF Wait, GoTo
<1>7. ASSUME NEW ix \in Ix, PopTask(ix) PROVE PoolTypes'
  <2>1. PICK k \in DOMAIN tasks : Takes(ix, k) BY <1>7, PopTaskFacts
  <2>. QED BY <2>1 DEF Takes
<1>8. ASSUME NEW ix \in Ix, PopNothing(ix) PROVE PoolTypes'
  BY <1>8 DEF PopNothing, GoTo, Ready
<1>9. ASSUME NEW ix \in Ix, RunActive(ix) PROVE PoolTypes'
  <2>1. PICK i \in TaskId : RunsOnce(ix, i) BY <1>9, RunActiveFacts
  <2>. QED BY <2>1 DEF RunsOnce
<1>10. ASSUME NEW ix \in Ix, Check(ix) PROVE PoolTypes'
  BY <1>10 DEF Check, GoTo
<1>11. CASE InitBegin
  BY <1>11, Indices DEF InitBegin
<1>12. CASE DeinitBegin
  BY <1>12, Indices DEF DeinitBegin
<1>13. CASE InitSpawn
  BY <1>13, FreshTask DEF InitSpawn
<1>14. CASE InitWorking
  BY <1>14, Indices DEF InitWorking, NextIx
<1>15. CASE InitSkip
  BY <1>15, Indices DEF InitSkip, NextIx
<1>16. CASE DeinitExit
  BY <1>16 DEF DeinitExit
<1>17. CASE DeinitSignal
  BY <1>17, Indices DEF DeinitSignal, NextIx
<1>18. CASE DeinitJoin
  BY <1>18, Indices DEF DeinitJoin, NextIx
<1>19. CASE UNCHANGED vars
  BY <1>19 DEF vars
<1>. QED
  BY <1>1, <1>2, <1>3, <1>4, <1>5, <1>6, <1>7, <1>8, <1>9, <1>10, <1>11,
     <1>12, <1>13, <1>14, <1>15, <1>16, <1>17, <1>18, <1>19
     DEF Next, Client, Work, Control

(* Every step keeps the numbering.                                         *)
LEMMA NumberedStep ==
  PoolInv /\ [Next]_vars => Numbered'
<1>. SUFFICES ASSUME PoolInv, [Next]_vars PROVE Numbered'
  OBVIOUS
<1>. USE DEF PoolInv, PoolTypes, taskVars, workVars, clientVars, controlVars
<1>1. ASSUME NEW c \in Clients, AddTask(c) PROVE Numbered'
  <2>1. PICK i \in TaskId, n \in Nat : Appends(c, i, n) BY <1>1, AddTaskFacts
  <2>2. i \in 0 .. MaxTasks /\ \A j \in TaskId : j \in Int BY PoolConstants DEF TaskId
  <2>3. added'[i] = 0 /\ \A j \in TaskId : j # i => added'[j] = added[j]
    BY <2>1 DEF Appends
  <2>4. \A j \in TaskId : added'[j] >= 0 <=> j <= i BY <2>1, <2>2, <2>3 DEF Appends
  <2>. QED BY <2>2, <2>4 DEF Numbered
<1>2. ASSUME NEW c \in Clients, AddCb(c) PROVE Numbered'
  <2>1. PICK k \in DOMAIN tasks : Accepts(c, k) BY <1>2, AddCbFacts
  <2>2. PICK i \in TaskId : added' = [added EXCEPT ![i] = @ + 1] /\ added[i] >= 0
    BY <2>1 DEF Accepts, Updates, Waiting
  <2>3. \A j \in TaskId : added'[j] >= 0 <=> added[j] >= 0 BY <2>2
  <2>. QED BY <2>3 DEF Numbered
<1>3. ASSUME NEW c \in Clients, RunTask(c) PROVE Numbered'
  <2>1. PICK k \in DOMAIN tasks : Releases(c, k) BY <1>3, RunTaskFacts
  <2>. QED BY <2>1 DEF Releases, Updates, Numbered
<1>4. ASSUME NEW c \in Clients, RunSignal(c) PROVE Numbered'
  BY <1>4 DEF RunSignal, Numbered
<1>5. ASSUME NEW ix \in Ix, LeaveSpin(ix) PROVE Numbered'
  BY <1>5 DEF LeaveSpin, GoTo, AfterSpin, Numbered
<1>6. ASSUME NEW ix \in Ix, Wait(ix) PROVE Numbered'
  BY <1>6 DEF Wait, GoTo, Numbered
<1>7. ASSUME NEW ix \in Ix, PopTask(ix) PROVE Numbered'
  <2>1. PICK k \in DOMAIN tasks : Takes(ix, k) BY <1>7, PopTaskFacts
  <2>. QED BY <2>1 DEF Takes, Numbered
<1>8. ASSUME NEW ix \in Ix, PopNothing(ix) PROVE Numbered'
  BY <1>8 DEF PopNothing, GoTo, Ready, Numbered
<1>9. ASSUME NEW ix \in Ix, RunActive(ix) PROVE Numbered'
  <2>1. PICK i \in TaskId : RunsOnce(ix, i) BY <1>9, RunActiveFacts
  <2>. QED BY <2>1 DEF RunsOnce, Numbered
<1>10. ASSUME NEW ix \in Ix, Check(ix) PROVE Numbered'
  BY <1>10 DEF Check, GoTo, Numbered
<1>11. CASE InitBegin
  BY <1>11 DEF InitBegin, Numbered
<1>12. CASE DeinitBegin
  BY <1>12 DEF DeinitBegin, Numbered
<1>13. CASE InitSpawn
  BY <1>13 DEF InitSpawn, Numbered
<1>14. CASE InitWorking
  BY <1>14 DEF InitWorking, NextIx, Numbered
<1>15. CASE InitSkip
  BY <1>15 DEF InitSkip, NextIx, Numbered
<1>16. CASE DeinitExit
  BY <1>16 DEF DeinitExit, Numbered
<1>17. CASE DeinitSignal
  BY <1>17 DEF DeinitSignal, NextIx, Numbered
<1>18. CASE DeinitJoin
  BY <1>18 DEF DeinitJoin, NextIx, Numbered
<1>19. CASE UNCHANGED vars
  BY <1>19 DEF vars, Numbered
<1>. QED
  BY <1>1, <1>2, <1>3, <1>4, <1>5, <1>6, <1>7, <1>8, <1>9, <1>10, <1>11,
     <1>12, <1>13, <1>14, <1>15, <1>16, <1>17, <1>18, <1>19
     DEF Next, Client, Work, Control

(* The list holds the tasks that have not run, each once.                  *)
LEMMA ListStep ==
  PoolInv /\ [Next]_vars => ListInv'
<1>. SUFFICES ASSUME PoolInv, [Next]_vars PROVE ListInv'
  OBVIOUS
<1>. USE DEF PoolInv, PoolTypes, taskVars, workVars, clientVars, controlVars
<1>1. ASSUME NEW c \in Clients, AddTask(c) PROVE ListInv'
  <2>1. PICK i \in TaskId, n \in Nat : Appends(c, i, n) BY <1>1, AddTaskFacts
  <2>2. \A t : Waiting(t) /\ t.id # i => Waiting(t)'
    BY <2>1 DEF Appends, Waiting
  <2>3. \A k \in DOMAIN tasks : tasks'[k] = tasks[k] /\ Waiting(tasks[k]) /\ tasks[k].id # i
    BY <2>1 DEF Appends, ListInv
  <2>4. \A k \in DOMAIN tasks : Waiting(tasks[k])' BY <2>2, <2>3 DEF Waiting
  <2>5. Waiting(tasks[n])' /\ tasks'[n].id \notin released BY <2>1 DEF Appends, Waiting
  <2>6. \A k \in DOMAIN tasks' :
          Waiting(tasks[k])' /\ (tasks'[k].ready <=> tasks'[k].id \in released')
    BY <2>1, <2>4, <2>5 DEF Appends, ListInv
  <2>7. \A j, m \in DOMAIN tasks' : tasks'[j].id = tasks'[m].id => j = m
    BY <2>1 DEF Appends, ListInv
  <2>. QED BY <2>6, <2>7 DEF ListInv
<1>2. ASSUME NEW c \in Clients, AddCb(c) PROVE ListInv'
  <2>1. PICK k \in DOMAIN tasks : Accepts(c, k) BY <1>2, AddCbFacts
  <2>2. \A t : Waiting(t) /\ t.id # mine[c] => Waiting(t)'
    BY <2>1 DEF Accepts, Updates, Waiting
  <2>3. \A j \in DOMAIN tasks : j # k => Waiting(tasks[j])'
    <3>1. \A j \in DOMAIN tasks : j # k => tasks'[j] = tasks[j] /\ tasks[j].id # mine[c]
      BY <2>1 DEF Accepts, Updates
    <3>. QED BY <2>2, <3>1 DEF ListInv, Waiting
  <2>4. added'[mine[c]] = added[mine[c]] + 1 /\ added[mine[c]] \in Int
    BY <2>1 DEF Accepts, Updates
  <2>5. Waiting(tasks[k])' BY <2>1, <2>4 DEF Accepts, Updates, Waiting
  <2>6. \A j \in DOMAIN tasks :
          tasks'[j].id = tasks[j].id /\ tasks'[j].ready = tasks[j].ready
    BY <2>1 DEF Accepts, Updates
  <2>7. DOMAIN tasks' = DOMAIN tasks /\ released' = released BY <2>1 DEF Accepts, Updates
  <2>. QED BY <2>3, <2>5, <2>6, <2>7 DEF ListInv
<1>3. ASSUME NEW c \in Clients, RunTask(c) PROVE ListInv'
  <2>1. PICK k \in DOMAIN tasks : Releases(c, k) BY <1>3, RunTaskFacts
  <2>2. \A j \in DOMAIN tasks :
          /\ tasks'[j].id = tasks[j].id /\ tasks'[j].cbs = tasks[j].cbs
          /\ tasks'[j].blocked = tasks[j].blocked
    BY <2>1 DEF Releases, Updates
  <2>3. UNCHANGED <<added, runs, seen>> BY <2>1 DEF Releases, Updates
  <2>4. \A j \in DOMAIN tasks : Waiting(tasks[j])' BY <2>2, <2>3 DEF ListInv, Waiting
  <2>5. \A j \in DOMAIN tasks : tasks'[j].ready <=> tasks'[j].id \in released'
    BY <2>1 DEF Releases, Updates, ListInv
  <2>6. DOMAIN tasks' = DOMAIN tasks BY <2>1 DEF Releases, Updates
  <2>. QED BY <2>2, <2>4, <2>5, <2>6 DEF ListInv
<1>4. ASSUME NEW c \in Clients, RunSignal(c) PROVE ListInv'
  BY <1>4 DEF RunSignal, ListInv, Waiting
<1>5. ASSUME NEW ix \in Ix, LeaveSpin(ix) PROVE ListInv'
  BY <1>5 DEF LeaveSpin, GoTo, AfterSpin, ListInv, Waiting
<1>6. ASSUME NEW ix \in Ix, Wait(ix) PROVE ListInv'
  BY <1>6 DEF Wait, GoTo, ListInv, Waiting
<1>7. ASSUME NEW ix \in Ix, PopTask(ix) PROVE ListInv'
  <2>1. PICK k \in DOMAIN tasks : Takes(ix, k) BY <1>7, PopTaskFacts
  <2>2. \A m \in DOMAIN tasks' : \E j \in DOMAIN tasks :
          tasks'[m] = tasks[j] /\ j = (IF m < k THEN m ELSE m + 1)
    BY <2>1 DEF Takes
  <2>3. UNCHANGED <<added, released, runs, seen>> BY <2>1 DEF Takes
  <2>4. \A m \in DOMAIN tasks' :
          Waiting(tasks[m])' /\ (tasks'[m].ready <=> tasks'[m].id \in released')
    BY <2>2, <2>3 DEF ListInv, Waiting
  <2>5. ASSUME NEW m \in DOMAIN tasks', NEW n \in DOMAIN tasks',
               tasks'[m].id = tasks'[n].id
        PROVE  m = n
    <3>1. (IF m < k THEN m ELSE m + 1) = (IF n < k THEN n ELSE n + 1)
      BY <2>2, <2>5 DEF ListInv
    <3>2. m \in Int /\ n \in Int /\ k \in Int BY <2>1 DEF Takes
    <3>. QED BY <3>1, <3>2
  <2>. QED BY <2>4, <2>5 DEF ListInv
<1>8. ASSUME NEW ix \in Ix, PopNothing(ix) PROVE ListInv'
  BY <1>8 DEF PopNothing, GoTo, Ready, ListInv, Waiting
<1>9. ASSUME NEW ix \in Ix, RunActive(ix) PROVE ListInv'
  <2>1. PICK i \in TaskId : RunsOnce(ix, i) BY <1>9, RunActiveFacts
  <2>. QED BY <2>1 DEF RunsOnce, ListInv, Waiting
<1>10. ASSUME NEW ix \in Ix, Check(ix) PROVE ListInv'
  BY <1>10 DEF Check, GoTo, ListInv, Waiting
<1>11. CASE InitBegin
  BY <1>11 DEF InitBegin, ListInv, Waiting
<1>12. CASE DeinitBegin
  BY <1>12 DEF DeinitBegin, ListInv, Waiting
<1>13. CASE InitSpawn
  BY <1>13 DEF InitSpawn, ListInv, Waiting
<1>14. CASE InitWorking
  BY <1>14 DEF InitWorking, NextIx, ListInv, Waiting
<1>15. CASE InitSkip
  BY <1>15 DEF InitSkip, NextIx, ListInv, Waiting
<1>16. CASE DeinitExit
  BY <1>16 DEF DeinitExit, ListInv, Waiting
<1>17. CASE DeinitSignal
  BY <1>17 DEF DeinitSignal, NextIx, ListInv, Waiting
<1>18. CASE DeinitJoin
  BY <1>18 DEF DeinitJoin, NextIx, ListInv, Waiting
<1>19. CASE UNCHANGED vars
  BY <1>19 DEF vars, ListInv, Waiting
<1>. QED
  BY <1>1, <1>2, <1>3, <1>4, <1>5, <1>6, <1>7, <1>8, <1>9, <1>10, <1>11,
     <1>12, <1>13, <1>14, <1>15, <1>16, <1>17, <1>18, <1>19
     DEF Next, Client, Work, Control

(* A worker runs a task that nobody else has.                              *)
LEMMA WorkStep ==
  PoolInv /\ [Next]_vars => WorkInv'
<1>. SUFFICES ASSUME PoolInv, [Next]_vars PROVE WorkInv'
  OBVIOUS
<1>. USE DEF PoolInv, PoolTypes, taskVars, workVars, clientVars, controlVars
<1>1. ASSUME NEW c \in Clients, AddTask(c) PROVE WorkInv'
  <2>1. PICK i \in TaskId, n \in Nat : Appends(c, i, n) BY <1>1, AddTaskFacts
  <2>2. \A t : Waiting(t) /\ t.id # i => Waiting(t)'
    BY <2>1 DEF Appends, Waiting
  <2>3. UNCHANGED <<wpc, active, released>> BY <2>1 DEF Appends
  <2>4. \A ix \in Ix : wpc[ix] = "run" => active[ix].id # i BY <2>1 DEF Appends
  <2>5. \A ix \in Ix : wpc'[ix] = "run" => Waiting(active[ix])'
    BY <2>2, <2>3, <2>4 DEF WorkInv, Waiting
  <2>6. \A ix \in Ix : wpc'[ix] = "run" =>
          \A k \in DOMAIN tasks' : tasks'[k].id # active'[ix].id
    BY <2>1, <2>3, <2>4 DEF Appends, WorkInv
  <2>. QED BY <2>3, <2>5, <2>6 DEF WorkInv
<1>2. ASSUME NEW c \in Clients, AddCb(c) PROVE WorkInv'
  <2>1. PICK k \in DOMAIN tasks : Accepts(c, k) BY <1>2, AddCbFacts
  <2>2. \A t : Waiting(t) /\ t.id # mine[c] => Waiting(t)'
    BY <2>1 DEF Accepts, Updates, Waiting
  <2>3. UNCHANGED <<wpc, active, released>> BY <2>1 DEF Accepts, Updates
  <2>4. \A ix \in Ix : wpc'[ix] = "run" => Waiting(active[ix])'
    <3>1. \A ix \in Ix : wpc[ix] = "run" => active[ix].id # mine[c]
      BY <2>1 DEF Accepts, Updates
    <3>. QED BY <2>2, <2>3, <3>1 DEF WorkInv, Waiting
  <2>5. DOMAIN tasks' = DOMAIN tasks /\ \A j \in DOMAIN tasks : tasks'[j].id = tasks[j].id
    BY <2>1 DEF Accepts, Updates
  <2>. QED BY <2>3, <2>4, <2>5 DEF WorkInv
<1>3. ASSUME NEW c \in Clients, RunTask(c) PROVE WorkInv'
  <2>1. PICK k \in DOMAIN tasks : Releases(c, k) BY <1>3, RunTaskFacts
  <2>2. UNCHANGED <<wpc, active, added, runs, seen>> /\ released \subseteq released'
    BY <2>1 DEF Releases, Updates
  <2>3. \A ix \in Ix : wpc'[ix] = "run" => Waiting(active[ix])'
    BY <2>2 DEF WorkInv, Waiting
  <2>4. DOMAIN tasks' = DOMAIN tasks /\ \A j \in DOMAIN tasks : tasks'[j].id = tasks[j].id
    BY <2>1 DEF Releases, Updates
  <2>. QED BY <2>2, <2>3, <2>4 DEF WorkInv
<1>4. ASSUME NEW c \in Clients, RunSignal(c) PROVE WorkInv'
  BY <1>4 DEF RunSignal, WorkInv, Waiting
<1>5. ASSUME NEW ix \in Ix, LeaveSpin(ix) PROVE WorkInv'
  BY <1>5 DEF LeaveSpin, GoTo, AfterSpin, WorkInv, Waiting
<1>6. ASSUME NEW ix \in Ix, Wait(ix) PROVE WorkInv'
  BY <1>6 DEF Wait, GoTo, WorkInv, Waiting
<1>7. ASSUME NEW ix \in Ix, PopTask(ix) PROVE WorkInv'
  <2>1. PICK k \in DOMAIN tasks : Takes(ix, k) BY <1>7, PopTaskFacts
  <2>2. /\ wpc'[ix] = "run" /\ wpc[ix] # "run"
        /\ \A jx \in Ix : jx # ix => wpc'[jx] = wpc[jx] /\ active'[jx] = active[jx]
    BY <2>1 DEF Takes
  <2>3. UNCHANGED <<added, released, runs, seen>> BY <2>1 DEF Takes
  <2>4. \A jx \in Ix : wpc'[jx] = "run" => Waiting(active[jx])'
    <3>1. Waiting(active[ix])' BY <2>1, <2>3 DEF Takes, Waiting
    <3>2. \A jx \in Ix : jx # ix /\ wpc[jx] = "run" => Waiting(active[jx])'
      BY <2>2, <2>3 DEF WorkInv, Waiting
    <3>. QED BY <2>2, <3>1, <3>2
  <2>5. \A jx \in Ix : jx # ix /\ wpc[jx] = "run" => active'[jx].id # active'[ix].id
    BY <2>1, <2>2 DEF Takes, WorkInv
  <2>6. \A jx \in Ix : wpc'[jx] = "run" =>
          \A m \in DOMAIN tasks' : tasks'[m].id # active'[jx].id
    <3>1. \A m \in DOMAIN tasks' : \E j \in DOMAIN tasks : j # k /\ tasks'[m] = tasks[j]
      BY <2>1 DEF Takes
    <3>2. \A j \in DOMAIN tasks : j # k => tasks[j].id # active'[ix].id
      BY <2>1 DEF Takes, ListInv
    <3>3. \A jx \in Ix : jx # ix /\ wpc'[jx] = "run" =>
            \A j \in DOMAIN tasks : tasks[j].id # active'[jx].id
      BY <2>2 DEF WorkInv
    <3>4. ASSUME NEW jx \in Ix, wpc'[jx] = "run", NEW m \in DOMAIN tasks'
          PROVE  tasks'[m].id # active'[jx].id
      <4>1. PICK j \in DOMAIN tasks : j # k /\ tasks'[m] = tasks[j] BY <3>1
      <4>. QED BY <3>2, <3>3, <3>4, <4>1
    <3>. QED BY <3>4
  <2>7. \A jx \in Ix : wpc'[jx] = "run" => active'[jx].id \in released'
    BY <2>1, <2>2, <2>3 DEF Takes, WorkInv
  <2>8. \A jx, lx \in Ix : wpc'[jx] = "run" /\ wpc'[lx] = "run"
          /\ active'[lx].id = active'[jx].id => lx = jx
    BY <2>2, <2>5 DEF WorkInv
  <2>. QED BY <2>4, <2>6, <2>7, <2>8 DEF WorkInv
<1>8. ASSUME NEW ix \in Ix, PopNothing(ix) PROVE WorkInv'
  BY <1>8 DEF PopNothing, GoTo, Ready, WorkInv, Waiting
<1>9. ASSUME NEW ix \in Ix, RunActive(ix) PROVE WorkInv'
  <2>1. PICK i \in TaskId : RunsOnce(ix, i) BY <1>9, RunActiveFacts
  <2>. QED BY <2>1 DEF RunsOnce, WorkInv, Waiting
<1>10. ASSUME NEW ix \in Ix, Check(ix) PROVE WorkInv'
  BY <1>10 DEF Check, GoTo, WorkInv, Waiting
<1>11. CASE InitBegin
  BY <1>11 DEF InitBegin, WorkInv, Waiting
<1>12. CASE DeinitBegin
  BY <1>12 DEF DeinitBegin, WorkInv, Waiting
<1>13. CASE InitSpawn
  BY <1>13 DEF InitSpawn, WorkInv, Waiting
<1>14. CASE InitWorking
  BY <1>14 DEF InitWorking, NextIx, WorkInv, Waiting
<1>15. CASE InitSkip
  BY <1>15 DEF InitSkip, NextIx, WorkInv, Waiting
<1>16. CASE DeinitExit
  BY <1>16 DEF DeinitExit, WorkInv, Waiting
<1>17. CASE DeinitSignal
  BY <1>17 DEF DeinitSignal, NextIx, WorkInv, Waiting
<1>18. CASE DeinitJoin
  BY <1>18 DEF DeinitJoin, NextIx, WorkInv, Waiting
<1>19. CASE UNCHANGED vars
  BY <1>19 DEF vars, WorkInv, Waiting
<1>. QED
  BY <1>1, <1>2, <1>3, <1>4, <1>5, <1>6, <1>7, <1>8, <1>9, <1>10, <1>11,
     <1>12, <1>13, <1>14, <1>15, <1>16, <1>17, <1>18, <1>19
     DEF Next, Client, Work, Control

(* A client keeps its node until it releases it.                           *)
LEMMA OwnStep ==
  PoolInv /\ [Next]_vars => OwnInv'
<1>. SUFFICES ASSUME PoolInv, [Next]_vars PROVE OwnInv'
  OBVIOUS
<1>. USE DEF PoolInv, PoolTypes, taskVars, workVars, clientVars, controlVars
<1>1. ASSUME NEW c \in Clients, AddTask(c) PROVE OwnInv'
  <2>1. PICK i \in TaskId, n \in Nat : Appends(c, i, n) BY <1>1, AddTaskFacts
  <2>2. \A d \in Clients : cpc'[d] = "own" => \E k \in DOMAIN tasks' : tasks'[k].id = mine'[d]
    <3>1. cpc'[c] = "own" /\ mine'[c] = i /\ n \in DOMAIN tasks' /\ tasks'[n].id = i
      BY <2>1 DEF Appends
    <3>2. \A d \in Clients : d # c => cpc'[d] = cpc[d] /\ mine'[d] = mine[d]
      BY <2>1 DEF Appends
    <3>3. \A k \in DOMAIN tasks : k \in DOMAIN tasks' /\ tasks'[k] = tasks[k]
      BY <2>1 DEF Appends
    <3>. QED BY SMTT(30), <3>1, <3>2, <3>3 DEF OwnInv
  <2>3. \A d \in Clients : cpc'[d] = "own" => mine'[d] \notin released'
    BY <2>1 DEF Appends, OwnInv
  <2>4. \A d, e \in Clients : cpc'[d] = "own" /\ cpc'[e] = "own" /\ mine'[e] = mine'[d] => e = d
    BY <2>1 DEF Appends, OwnInv
  <2>. QED BY <2>2, <2>3, <2>4 DEF OwnInv
<1>2. ASSUME NEW c \in Clients, AddCb(c) PROVE OwnInv'
  <2>1. PICK k \in DOMAIN tasks : Accepts(c, k) BY <1>2, AddCbFacts
  <2>2. DOMAIN tasks' = DOMAIN tasks /\ \A j \in DOMAIN tasks : tasks'[j].id = tasks[j].id
    BY <2>1 DEF Accepts, Updates
  <2>3. UNCHANGED <<cpc, mine, released>> BY <2>1 DEF Accepts, Updates
  <2>. QED BY <2>2, <2>3 DEF OwnInv
<1>3. ASSUME NEW c \in Clients, RunTask(c) PROVE OwnInv'
  <2>1. PICK k \in DOMAIN tasks : Releases(c, k) BY <1>3, RunTaskFacts
  <2>2. DOMAIN tasks' = DOMAIN tasks /\ \A j \in DOMAIN tasks : tasks'[j].id = tasks[j].id
    BY <2>1 DEF Releases, Updates
  <2>3. /\ cpc[c] = "own" /\ cpc'[c] = "signal" /\ released' = released \cup {mine[c]}
        /\ \A d \in Clients : d # c => cpc'[d] = cpc[d] /\ mine'[d] = mine[d]
    BY <2>1 DEF Releases, Updates
  <2>4. \A d \in Clients : cpc'[d] = "own" =>
          d # c /\ cpc[d] = "own" /\ mine'[d] = mine[d] /\ mine[d] # mine[c]
    BY <2>3 DEF OwnInv
  <2>5. \A d \in Clients : cpc'[d] = "own" => \E j \in DOMAIN tasks' : tasks'[j].id = mine'[d]
    <3>. SUFFICES ASSUME NEW d \in Clients, cpc'[d] = "own"
                  PROVE  \E j \in DOMAIN tasks' : tasks'[j].id = mine'[d]
      OBVIOUS
    <3>1. cpc[d] = "own" /\ mine'[d] = mine[d] BY <2>4
    <3>2. PICK j \in DOMAIN tasks : tasks[j].id = mine[d] BY <3>1 DEF OwnInv
    <3>. QED BY <2>2, <3>1, <3>2
  <2>6. \A d, e \in Clients : cpc'[d] = "own" /\ cpc'[e] = "own" /\ mine'[e] = mine'[d] => e = d
    BY <2>4 DEF OwnInv
  <2>. QED BY <2>3, <2>4, <2>5, <2>6 DEF OwnInv
<1>4. ASSUME NEW c \in Clients, RunSignal(c) PROVE OwnInv'
  BY <1>4 DEF RunSignal, OwnInv
<1>5. ASSUME NEW ix \in Ix, LeaveSpin(ix) PROVE OwnInv'
  BY <1>5 DEF LeaveSpin, GoTo, AfterSpin, OwnInv
<1>6. ASSUME NEW ix \in Ix, Wait(ix) PROVE OwnInv'
  BY <1>6 DEF Wait, GoTo, OwnInv
<1>7. ASSUME NEW ix \in Ix, PopTask(ix) PROVE OwnInv'
  <2>1. PICK k \in DOMAIN tasks : Takes(ix, k) BY <1>7, PopTaskFacts
  <2>2. \A j \in DOMAIN tasks : j # k => \E m \in DOMAIN tasks' : tasks'[m] = tasks[j]
    BY <2>1 DEF Takes
  <2>3. tasks[k].id \in released /\ UNCHANGED <<cpc, mine, released>> BY <2>1 DEF Takes
  <2>4. \A d \in Clients : cpc[d] = "own" => \E m \in DOMAIN tasks' : tasks'[m].id = mine[d]
    <3>. SUFFICES ASSUME NEW d \in Clients, cpc[d] = "own"
                  PROVE  \E m \in DOMAIN tasks' : tasks'[m].id = mine[d]
      OBVIOUS
    <3>1. PICK j \in DOMAIN tasks : tasks[j].id = mine[d] /\ mine[d] \notin released
      BY DEF OwnInv
    <3>2. PICK m \in DOMAIN tasks' : tasks'[m] = tasks[j] BY <2>2, <2>3, <3>1
    <3>. QED BY <3>1, <3>2
  <2>. QED BY <2>3, <2>4 DEF OwnInv
<1>8. ASSUME NEW ix \in Ix, PopNothing(ix) PROVE OwnInv'
  BY <1>8 DEF PopNothing, GoTo, Ready, OwnInv
<1>9. ASSUME NEW ix \in Ix, RunActive(ix) PROVE OwnInv'
  <2>1. PICK i \in TaskId : RunsOnce(ix, i) BY <1>9, RunActiveFacts
  <2>. QED BY <2>1 DEF RunsOnce, OwnInv
<1>10. ASSUME NEW ix \in Ix, Check(ix) PROVE OwnInv'
  BY <1>10 DEF Check, GoTo, OwnInv
<1>11. CASE InitBegin
  BY <1>11 DEF InitBegin, OwnInv
<1>12. CASE DeinitBegin
  BY <1>12 DEF DeinitBegin, OwnInv
<1>13. CASE InitSpawn
  BY <1>13 DEF InitSpawn, OwnInv
<1>14. CASE InitWorking
  BY <1>14 DEF InitWorking, NextIx, OwnInv
<1>15. CASE InitSkip
  BY <1>15 DEF InitSkip, NextIx, OwnInv
<1>16. CASE DeinitExit
  BY <1>16 DEF DeinitExit, OwnInv
<1>17. CASE DeinitSignal
  BY <1>17 DEF DeinitSignal, NextIx, OwnInv
<1>18. CASE DeinitJoin
  BY <1>18 DEF DeinitJoin, NextIx, OwnInv
<1>19. CASE UNCHANGED vars
  BY <1>19 DEF vars, OwnInv
<1>. QED
  BY <1>1, <1>2, <1>3, <1>4, <1>5, <1>6, <1>7, <1>8, <1>9, <1>10, <1>11,
     <1>12, <1>13, <1>14, <1>15, <1>16, <1>17, <1>18, <1>19
     DEF Next, Client, Work, Control

(* No released task gets lost, and none runs again.                        *)
LEMMA RanStep ==
  PoolInv /\ [Next]_vars => RanInv'
<1>. SUFFICES ASSUME PoolInv, [Next]_vars PROVE RanInv'
  OBVIOUS
<1>. USE DEF PoolInv, PoolTypes, taskVars, workVars, clientVars, controlVars
<1>1. ASSUME NEW c \in Clients, AddTask(c) PROVE RanInv'
  <2>1. PICK i \in TaskId, n \in Nat : Appends(c, i, n) BY <1>1, AddTaskFacts
  <2>2. UNCHANGED <<released, runs, seen, wpc, active>> BY <2>1 DEF Appends
  <2>3. \A j \in TaskId : j # i => added'[j] = added[j] BY <2>1 DEF Appends
  <2>4. i \notin released /\ runs[i] = 0 BY <2>1 DEF Appends
  <2>5. \A k \in DOMAIN tasks : k \in DOMAIN tasks' /\ tasks'[k] = tasks[k]
    BY <2>1 DEF Appends
  <2>10. \A j \in TaskId :
           \/ runs'[j] = 0 /\ seen'[j] = 0
           \/ runs'[j] = 1 /\ j \in released' /\ seen'[j] = added'[j]
    BY <2>2, <2>3, <2>4 DEF RanInv
  <2>11. \A j : Listed(j) => Listed(j)'
    BY <2>5 DEF Listed
  <2>12. \A j : Running(j) => Running(j)'
    BY <2>2 DEF Running
  <2>. QED BY <2>2, <2>10, <2>11, <2>12 DEF RanInv
<1>2. ASSUME NEW c \in Clients, AddCb(c) PROVE RanInv'
  <2>1. PICK k \in DOMAIN tasks : Accepts(c, k) BY <1>2, AddCbFacts
  <2>2. UNCHANGED <<released, runs, seen, wpc, active>> BY <2>1 DEF Accepts, Updates
  <2>3. \A j \in TaskId : j # mine[c] => added'[j] = added[j] BY <2>1 DEF Accepts, Updates
  <2>4. mine[c] \notin released BY <2>1 DEF Accepts, Updates
  <2>5. DOMAIN tasks' = DOMAIN tasks /\ \A j \in DOMAIN tasks : tasks'[j].id = tasks[j].id
    BY <2>1 DEF Accepts, Updates
  <2>10. \A j \in TaskId :
           \/ runs'[j] = 0 /\ seen'[j] = 0
           \/ runs'[j] = 1 /\ j \in released' /\ seen'[j] = added'[j]
    BY <2>2, <2>3, <2>4 DEF RanInv
  <2>11. \A j : Listed(j) => Listed(j)'
    BY <2>5 DEF Listed
  <2>12. \A j : Running(j) => Running(j)'
    BY <2>2 DEF Running
  <2>. QED BY <2>2, <2>10, <2>11, <2>12 DEF RanInv
<1>3. ASSUME NEW c \in Clients, RunTask(c) PROVE RanInv'
  <2>1. PICK k \in DOMAIN tasks : Releases(c, k) BY <1>3, RunTaskFacts
  <2>2. UNCHANGED <<added, runs, seen, wpc, active>> BY <2>1 DEF Releases, Updates
  <2>3. released' = released \cup {mine[c]} /\ tasks[k].id = mine[c]
    BY <2>1 DEF Releases, Updates
  <2>4. DOMAIN tasks' = DOMAIN tasks /\ \A j \in DOMAIN tasks : tasks'[j].id = tasks[j].id
    BY <2>1 DEF Releases, Updates
  <2>10. \A j \in TaskId :
           \/ runs'[j] = 0 /\ seen'[j] = 0
           \/ runs'[j] = 1 /\ j \in released' /\ seen'[j] = added'[j]
    BY <2>2, <2>3 DEF RanInv
  <2>11. \A j : Listed(j) => Listed(j)'
    BY <2>4 DEF Listed
  <2>12. \A j : Running(j) => Running(j)'
    BY <2>2 DEF Running
  <2>13. Listed(mine[c]) BY <2>3 DEF Listed
  <2>. QED BY <2>2, <2>3, <2>13, <2>10, <2>11, <2>12 DEF RanInv
<1>4. ASSUME NEW c \in Clients, RunSignal(c) PROVE RanInv'
  BY <1>4 DEF RunSignal, RanInv, Listed, Running
<1>5. ASSUME NEW ix \in Ix, LeaveSpin(ix) PROVE RanInv'
  BY <1>5 DEF LeaveSpin, GoTo, AfterSpin, RanInv, Listed, Running
<1>6. ASSUME NEW ix \in Ix, Wait(ix) PROVE RanInv'
  BY <1>6 DEF Wait, GoTo, RanInv, Listed, Running
<1>7. ASSUME NEW ix \in Ix, PopTask(ix) PROVE RanInv'
  <2>1. PICK k \in DOMAIN tasks : Takes(ix, k) BY <1>7, PopTaskFacts
  <2>2. UNCHANGED <<added, released, runs, seen>> BY <2>1 DEF Takes
  <2>3. \A j \in DOMAIN tasks : j # k => \E m \in DOMAIN tasks' : tasks'[m] = tasks[j]
    BY <2>1 DEF Takes
  <2>4. /\ wpc[ix] # "run" /\ wpc'[ix] = "run" /\ active'[ix].id = tasks[k].id
        /\ \A jx \in Ix : jx # ix => wpc'[jx] = wpc[jx] /\ active'[jx] = active[jx]
    BY <2>1 DEF Takes
  <2>10. \A j \in TaskId :
           \/ runs'[j] = 0 /\ seen'[j] = 0
           \/ runs'[j] = 1 /\ j \in released' /\ seen'[j] = added'[j]
    BY <2>2 DEF RanInv
  <2>11. \A j : Listed(j) => Listed(j)' \/ Running(j)'
    BY <2>3, <2>4 DEF Listed, Running
  <2>12. \A j : Running(j) => Running(j)'
    BY <2>4 DEF Running
  <2>. QED BY <2>2, <2>10, <2>11, <2>12 DEF RanInv
<1>8. ASSUME NEW ix \in Ix, PopNothing(ix) PROVE RanInv'
  BY <1>8 DEF PopNothing, GoTo, Ready, RanInv, Listed, Running
<1>9. ASSUME NEW ix \in Ix, RunActive(ix) PROVE RanInv'
  <2>1. PICK i \in TaskId : RunsOnce(ix, i) BY <1>9, RunActiveFacts
  <2>2. /\ i \in released /\ runs'[i] = 1 /\ seen'[i] = added[i]
        /\ \A j \in TaskId : j # i => runs'[j] = runs[j] /\ seen'[j] = seen[j]
    BY <2>1 DEF RunsOnce
  <2>3. UNCHANGED <<tasks, added, released>> BY <2>1 DEF RunsOnce
  <2>4. /\ active[ix].id = i
        /\ \A jx \in Ix : jx # ix => wpc'[jx] = wpc[jx] /\ active'[jx] = active[jx]
    BY <2>1 DEF RunsOnce
  <2>10. \A j \in TaskId :
           \/ runs'[j] = 0 /\ seen'[j] = 0
           \/ runs'[j] = 1 /\ j \in released' /\ seen'[j] = added'[j]
    BY <2>2, <2>3 DEF RanInv
  <2>11. \A j : Listed(j) => Listed(j)'
    BY <2>3 DEF Listed
  <2>12. \A j : Running(j) => j = i \/ Running(j)'
    BY <2>4 DEF Running
  <2>. QED BY <2>2, <2>3, <2>10, <2>11, <2>12 DEF RanInv
<1>10. ASSUME NEW ix \in Ix, Check(ix) PROVE RanInv'
  BY <1>10 DEF Check, GoTo, RanInv, Listed, Running
<1>11. CASE InitBegin
  BY <1>11 DEF InitBegin, RanInv, Listed, Running
<1>12. CASE DeinitBegin
  BY <1>12 DEF DeinitBegin, RanInv, Listed, Running
<1>13. CASE InitSpawn
  <2>1. UNCHANGED <<tasks, added, released, runs, seen>> BY <1>13 DEF InitSpawn
  <2>2. wpc[kix] = "exit" BY <1>13 DEF InitSpawn, ThreadsInv
  <2>3. \A ix \in Ix : ix # kix => wpc'[ix] = wpc[ix] /\ active'[ix] = active[ix]
    BY <1>13 DEF InitSpawn
  <2>10. \A j \in TaskId :
           \/ runs'[j] = 0 /\ seen'[j] = 0
           \/ runs'[j] = 1 /\ j \in released' /\ seen'[j] = added'[j]
    BY <2>1 DEF RanInv
  <2>11. \A j : Listed(j) => Listed(j)'
    BY <2>1 DEF Listed
  <2>12. \A j : Running(j) => Running(j)'
    BY <2>2, <2>3 DEF Running
  <2>. QED BY <2>2, <2>1, <2>10, <2>11, <2>12 DEF RanInv
<1>14. CASE InitWorking
  BY <1>14 DEF InitWorking, NextIx, RanInv, Listed, Running
<1>15. CASE InitSkip
  BY <1>15 DEF InitSkip, NextIx, RanInv, Listed, Running
<1>16. CASE DeinitExit
  BY <1>16 DEF DeinitExit, RanInv, Listed, Running
<1>17. CASE DeinitSignal
  BY <1>17 DEF DeinitSignal, NextIx, RanInv, Listed, Running
<1>18. CASE DeinitJoin
  BY <1>18 DEF DeinitJoin, NextIx, RanInv, Listed, Running
<1>19. CASE UNCHANGED vars
  BY <1>19 DEF vars, RanInv, Listed, Running
<1>. QED
  BY <1>1, <1>2, <1>3, <1>4, <1>5, <1>6, <1>7, <1>8, <1>9, <1>10, <1>11,
     <1>12, <1>13, <1>14, <1>15, <1>16, <1>17, <1>18, <1>19
     DEF Next, Client, Work, Control

(* Threads are started and joined in order, and leave no debt.             *)
LEMMA ThreadsStep ==
  PoolInv /\ [Next]_vars => ThreadsInv'
<1>. SUFFICES ASSUME PoolInv, [Next]_vars PROVE ThreadsInv'
  OBVIOUS
<1>. USE DEF PoolInv, PoolTypes, taskVars, workVars, clientVars, controlVars
<1>1. ASSUME NEW c \in Clients, AddTask(c) PROVE ThreadsInv'
  <2>1. PICK i \in TaskId, n \in Nat : Appends(c, i, n) BY <1>1, AddTaskFacts
  <2>2. UNCHANGED <<runs, owed, threads, wpc, kpc, kix>> BY <2>1 DEF Appends
  <2>3. Taken => Taken' BY <2>1 DEF Appends, Taken, DebtInv
  <2>. QED BY <2>2, <2>3 DEF ThreadsInv, AllUp, AllDown, Paid
<1>2. ASSUME NEW c \in Clients, AddCb(c) PROVE ThreadsInv'
  <2>1. PICK k \in DOMAIN tasks : Accepts(c, k) BY <1>2, AddCbFacts
  <2>. QED BY <2>1 DEF Accepts, Updates, ThreadsInv, AllUp, AllDown, Paid, Taken
<1>3. ASSUME NEW c \in Clients, RunTask(c) PROVE ThreadsInv'
  <2>1. PICK k \in DOMAIN tasks : Releases(c, k) BY <1>3, RunTaskFacts
  <2>. QED BY <2>1 DEF Releases, Updates, ThreadsInv, AllUp, AllDown, Paid, Taken
<1>4. ASSUME NEW c \in Clients, RunSignal(c) PROVE ThreadsInv'
  BY <1>4 DEF RunSignal, ThreadsInv, AllUp, AllDown, Paid, Taken
<1>5. ASSUME NEW ix \in Ix, LeaveSpin(ix) PROVE ThreadsInv'
  BY <1>5 DEF LeaveSpin, GoTo, AfterSpin, ThreadsInv, AllUp, AllDown, Paid,
     Taken
<1>6. ASSUME NEW ix \in Ix, Wait(ix) PROVE ThreadsInv'
  BY <1>6 DEF Wait, GoTo, ThreadsInv, AllUp, AllDown, Paid, Taken
<1>7. ASSUME NEW ix \in Ix, PopTask(ix) PROVE ThreadsInv'
  <2>1. PICK k \in DOMAIN tasks : Takes(ix, k) BY <1>7, PopTaskFacts
  <2>. QED BY <2>1 DEF Takes, ThreadsInv, AllUp, AllDown, Paid, Taken
<1>8. ASSUME NEW ix \in Ix, PopNothing(ix) PROVE ThreadsInv'
  BY <1>8 DEF PopNothing, GoTo, Ready, ThreadsInv, AllUp, AllDown, Paid,
     Taken
<1>9. ASSUME NEW ix \in Ix, RunActive(ix) PROVE ThreadsInv'
  <2>1. PICK i \in TaskId : RunsOnce(ix, i) BY <1>9, RunActiveFacts
  <2>. QED BY <2>1 DEF RunsOnce, ThreadsInv, AllUp, AllDown, Paid, Taken
<1>10. ASSUME NEW ix \in Ix, Check(ix) PROVE ThreadsInv'
  BY <1>10 DEF Check, GoTo, ThreadsInv, AllUp, AllDown, Paid, Taken
<1>11. CASE InitBegin
  <2>1. UNCHANGED <<threads, wpc>> /\ kpc' = "initing" /\ kix' = 1 BY <1>11 DEF InitBegin
  <2>2. AllUp \/ AllDown BY <1>11 DEF InitBegin, ThreadsInv
  <2>3. \A ix \in Ix : ~(ix < 1) BY Indices
  <2>4. AllUp' \/ \A ix \in Ix : threads'[ix] <=> ix < kix'
    BY <2>1, <2>2, <2>3 DEF AllUp, AllDown
  <2>. QED BY <2>1, <2>4 DEF ThreadsInv
<1>12. CASE DeinitBegin
  BY <1>12 DEF DeinitBegin, ThreadsInv, AllUp, AllDown, Paid, Taken
<1>13. CASE InitSpawn
  <2>1. /\ kpc = "initing" /\ ~threads[kix] /\ kix \in Ix
        /\ threads' = [threads EXCEPT ![kix] = TRUE] /\ kix' = kix /\ kpc' = "working"
        /\ wpc' = [wpc EXCEPT ![kix] = "spin"]
    BY <1>13 DEF InitSpawn
  <2>2. \A ix \in Ix : threads[ix] <=> ix < kix BY <2>1 DEF ThreadsInv, AllUp
  <2>3. \A ix \in Ix : ix < kix \/ ix = kix <=> ix <= kix BY <2>1, Indices
  <2>4. \A ix \in Ix : threads'[ix] <=> ix <= kix' BY <2>1, <2>2, <2>3
  <2>5. \A ix \in Ix : ~threads'[ix] => wpc'[ix] = "exit" BY <2>1 DEF ThreadsInv
  <2>. QED BY <2>1, <2>4, <2>5 DEF ThreadsInv
<1>14. CASE InitWorking
  <2>1. kpc = "working" /\ kix \in Ix /\ UNCHANGED <<threads, wpc>>
    BY <1>14 DEF InitWorking
  <2>2. \/ kix = PoolSize /\ kpc' = "idle" /\ kix' = 1
        \/ kix # PoolSize /\ kpc' = "initing" /\ kix' = kix + 1
    BY <1>14 DEF InitWorking, NextIx
  <2>3. AllUp \/ \A ix \in Ix : threads[ix] <=> ix <= kix BY <2>1 DEF ThreadsInv
  <2>4. CASE kix = PoolSize
    <3>1. AllUp BY <2>3, <2>4, Indices DEF AllUp
    <3>. QED BY <2>1, <2>2, <2>4, <3>1 DEF ThreadsInv, AllUp
  <2>5. CASE kix # PoolSize
    <3>1. \A ix \in Ix : ix <= kix <=> ix < kix + 1 BY <2>1, Indices
    <3>. QED BY <2>1, <2>2, <2>3, <2>5, <3>1 DEF ThreadsInv, AllUp
  <2>. QED BY <2>4, <2>5
<1>15. CASE InitSkip
  <2>1. kpc = "initing" /\ kix \in Ix /\ threads[kix] /\ UNCHANGED <<threads, wpc>>
    BY <1>15 DEF InitSkip
  <2>2. \/ kix = PoolSize /\ kpc' = "idle" /\ kix' = 1
        \/ kix # PoolSize /\ kpc' = "initing" /\ kix' = kix + 1
    BY <1>15 DEF InitSkip, NextIx
  <2>3. ~(kix < kix) BY <2>1, Indices
  <2>4. AllUp BY <2>1, <2>3 DEF ThreadsInv
  <2>. QED BY <2>1, <2>2, <2>4 DEF ThreadsInv, AllUp
<1>16. CASE DeinitExit
  BY <1>16 DEF DeinitExit, ThreadsInv, AllUp, AllDown, Paid, Taken
<1>17. CASE DeinitSignal
  <2>1. kpc = "signal" /\ UNCHANGED <<threads, wpc, owed, runs>> BY <1>17 DEF DeinitSignal
  <2>2. \/ kix = PoolSize /\ kpc' = "joining" /\ kix' = 1
        \/ kix # PoolSize /\ kpc' = "exiting" /\ kix' = kix + 1
    BY <1>17 DEF DeinitSignal, NextIx
  <2>3. AllUp \/ (AllDown /\ Paid) BY <2>1 DEF ThreadsInv
  <2>4. \A ix \in Ix : ix >= 1 BY Indices
  <2>. QED BY <2>1, <2>2, <2>3, <2>4 DEF ThreadsInv, AllUp, AllDown, Paid
<1>18. CASE DeinitJoin
  <2>1. /\ kpc = "joining" /\ kix \in Ix /\ (threads[kix] => wpc[kix] = "exit")
        /\ threads' = [threads EXCEPT ![kix] = FALSE]
        /\ UNCHANGED <<wpc, owed, runs, tasks, released>>
    BY <1>18 DEF DeinitJoin, Joined
  <2>2. \/ kix = PoolSize /\ kpc' = "idle" /\ kix' = 1
        \/ kix # PoolSize /\ kpc' = "joining" /\ kix' = kix + 1
    BY <1>18 DEF DeinitJoin, NextIx
  <2>3. \A ix \in Ix : ~threads'[ix] => wpc'[ix] = "exit" BY <2>1 DEF ThreadsInv
  <2>4. CASE AllDown /\ Paid
    <3>1. AllDown' /\ Paid' BY <2>1, <2>4 DEF AllDown, Paid
    <3>. QED BY <2>2, <2>3, <3>1 DEF ThreadsInv
  <2>5. CASE \A ix \in Ix : threads[ix] <=> ix >= kix
    <3>1. threads[kix] /\ wpc[kix] = "exit" BY <2>1, <2>5, Indices
    <3>2. Taken BY <2>1, <3>1 DEF DebtInv
    <3>3. \A ix \in Ix : threads'[ix] <=> ix >= kix + 1
      <4>1. \A ix \in Ix : ix >= kix /\ ix # kix <=> ix >= kix + 1 BY <2>1, Indices
      <4>. QED BY <2>1, <2>5, <4>1
    <3>4. CASE kix # PoolSize BY <2>2, <2>3, <3>3, <3>4 DEF ThreadsInv
    <3>5. CASE kix = PoolSize
      <4>1. AllDown'
        <5>1. \A ix \in Ix : ~(ix >= PoolSize + 1) BY Indices
        <5>. QED BY <3>3, <3>5, <5>1 DEF AllDown
      <4>2. \A ix \in Ix : wpc'[ix] = "exit" BY <2>3, <4>1 DEF AllDown
      <4>3. Paid
        <5>. SUFFICES ASSUME NEW i \in owed PROVE runs[i] = 1 BY DEF Paid
        <5>1. runs[i] = 1 \/ Listed(i) \/ Running(i) BY DEF DebtInv, RanInv
        <5>2. ~Listed(i) BY <3>2 DEF Taken, Listed
        <5>3. ~Running(i) BY <2>1, <4>2 DEF Running
        <5>. QED BY <5>1, <5>2, <5>3
      <4>4. Paid' BY <2>1, <4>3 DEF Paid
      <4>. QED BY <2>2, <2>3, <3>5, <4>1, <4>4 DEF ThreadsInv
    <3>. QED BY <3>4, <3>5
  <2>. QED BY <2>1, <2>4, <2>5 DEF ThreadsInv
<1>19. CASE UNCHANGED vars
  BY <1>19 DEF vars, ThreadsInv, AllUp, AllDown, Paid, Taken
<1>. QED
  BY <1>1, <1>2, <1>3, <1>4, <1>5, <1>6, <1>7, <1>8, <1>9, <1>10, <1>11,
     <1>12, <1>13, <1>14, <1>15, <1>16, <1>17, <1>18, <1>19
     DEF Next, Client, Work, Control

(* A worker that has looked at the list left no debt in it.                *)
LEMMA DebtStep ==
  PoolInv /\ [Next]_vars => DebtInv'
<1>. SUFFICES ASSUME PoolInv, [Next]_vars PROVE DebtInv'
  OBVIOUS
<1>. USE DEF PoolInv, PoolTypes, taskVars, workVars, clientVars, controlVars
<1>1. ASSUME NEW c \in Clients, AddTask(c) PROVE DebtInv'
  <2>1. PICK i \in TaskId, n \in Nat : Appends(c, i, n) BY <1>1, AddTaskFacts
  <2>2. UNCHANGED <<released, owed, threads, wpc>> BY <2>1 DEF Appends
  <2>3. Taken => Taken' BY <2>1 DEF Appends, Taken, DebtInv
  <2>. QED BY <2>2, <2>3 DEF DebtInv
<1>2. ASSUME NEW c \in Clients, AddCb(c) PROVE DebtInv'
  <2>1. PICK k \in DOMAIN tasks : Accepts(c, k) BY <1>2, AddCbFacts
  <2>. QED BY <2>1 DEF Accepts, Updates, DebtInv, Taken
<1>3. ASSUME NEW c \in Clients, RunTask(c) PROVE DebtInv'
  <2>1. PICK k \in DOMAIN tasks : Releases(c, k) BY <1>3, RunTaskFacts
  <2>. QED BY <2>1 DEF Releases, Updates, DebtInv, Taken
<1>4. ASSUME NEW c \in Clients, RunSignal(c) PROVE DebtInv'
  BY <1>4 DEF RunSignal, DebtInv, Taken
<1>5. ASSUME NEW ix \in Ix, LeaveSpin(ix) PROVE DebtInv'
  BY <1>5 DEF LeaveSpin, GoTo, AfterSpin, DebtInv, Taken
<1>6. ASSUME NEW ix \in Ix, Wait(ix) PROVE DebtInv'
  BY <1>6 DEF Wait, GoTo, DebtInv, Taken
<1>7. ASSUME NEW ix \in Ix, PopTask(ix) PROVE DebtInv'
  <2>1. PICK k \in DOMAIN tasks : Takes(ix, k) BY <1>7, PopTaskFacts
  <2>. QED BY <2>1 DEF Takes, DebtInv, Taken
<1>8. ASSUME NEW ix \in Ix, PopNothing(ix) PROVE DebtInv'
  <2>1. UNCHANGED <<tasks, released, owed, threads>> BY <1>8 DEF PopNothing
  <2>2. Taken BY <1>8 DEF PopNothing, Ready, ListInv, DebtInv, Taken
  <2>3. Taken' BY <2>1, <2>2 DEF Taken
  <2>. QED BY <2>1, <2>3 DEF DebtInv
<1>9. ASSUME NEW ix \in Ix, RunActive(ix) PROVE DebtInv'
  <2>1. PICK i \in TaskId : RunsOnce(ix, i) BY <1>9, RunActiveFacts
  <2>. QED BY <2>1 DEF RunsOnce, DebtInv, Taken
<1>10. ASSUME NEW ix \in Ix, Check(ix) PROVE DebtInv'
  BY <1>10 DEF Check, GoTo, DebtInv, Taken
<1>11. CASE InitBegin
  <2>1. UNCHANGED <<tasks, released, threads, wpc>> BY <1>11 DEF InitBegin
  <2>2. Released \subseteq released BY DEF Released, ListInv
  <2>3. CASE AllUp
    <3>1. owed' = owed BY <1>11, <2>3 DEF InitBegin, Up, AllUp
    <3>. QED BY <2>1, <3>1 DEF DebtInv, Taken
  <2>4. CASE AllDown
    <3>1. owed' \subseteq released' BY <1>11, <2>1, <2>2 DEF InitBegin, DebtInv
    <3>. QED BY <2>1, <2>4, <3>1 DEF DebtInv, AllDown
  <2>. QED BY <1>11, <2>3, <2>4 DEF InitBegin, ThreadsInv
<1>12. CASE DeinitBegin
  BY <1>12 DEF DeinitBegin, DebtInv, Taken
<1>13. CASE InitSpawn
  BY <1>13 DEF InitSpawn, DebtInv, Taken
<1>14. CASE InitWorking
  BY <1>14 DEF InitWorking, NextIx, DebtInv, Taken
<1>15. CASE InitSkip
  BY <1>15 DEF InitSkip, NextIx, DebtInv, Taken
<1>16. CASE DeinitExit
  BY <1>16 DEF DeinitExit, DebtInv, Taken
<1>17. CASE DeinitSignal
  BY <1>17 DEF DeinitSignal, NextIx, DebtInv, Taken
<1>18. CASE DeinitJoin
  BY <1>18 DEF DeinitJoin, NextIx, DebtInv, Taken
<1>19. CASE UNCHANGED vars
  BY <1>19 DEF vars, DebtInv, Taken
<1>. QED
  BY <1>1, <1>2, <1>3, <1>4, <1>5, <1>6, <1>7, <1>8, <1>9, <1>10, <1>11,
     <1>12, <1>13, <1>14, <1>15, <1>16, <1>17, <1>18, <1>19
     DEF Next, Client, Work, Control

(* Initially nothing is listed, nobody works and nothing is owed.          *)
LEMMA PoolInvInit == Init => PoolInv
<1>. SUFFICES ASSUME Init PROVE PoolInv OBVIOUS
<1>1. tasks = <<>> /\ DOMAIN tasks = {} /\ tasks \in Seq(Task) BY DEF Init
<1>2. PoolTypes BY <1>1, FreshTask, Indices DEF Init, PoolTypes
<1>3. Numbered
  <2>1. 0 \in 0 .. MaxTasks BY PoolConstants
  <2>2. \A i \in TaskId : ~(added[i] >= 0) /\ ~(i <= 0) BY DEF Init, TaskId
  <2>. QED BY <2>1, <2>2 DEF Numbered
<1>4. ListInv /\ WorkInv /\ OwnInv BY <1>1 DEF Init, ListInv, WorkInv, OwnInv
<1>5. RanInv BY <1>1 DEF Init, RanInv
<1>6. ThreadsInv /\ DebtInv
  BY <1>1 DEF Init, ThreadsInv, DebtInv, AllUp, AllDown, Paid, Taken
<1>. QED BY <1>2, <1>3, <1>4, <1>5, <1>6 DEF PoolInv

(* The inductive invariant says what PoolSafe does.                        *)
LEMMA PoolInvSafe == PoolInv => PoolSafe
<1>. SUFFICES ASSUME PoolInv PROVE PoolSafe OBVIOUS
<1>1. RunsOnceWhenReleased BY DEF PoolInv, RanInv, RunsOnceWhenReleased
<1>2. CallbacksKept BY DEF PoolInv, RanInv, CallbacksKept
<1>3. DebtPaid BY DEF PoolInv, ThreadsInv, DebtPaid, Down, Up, AllUp, Paid
<1>. QED BY <1>1, <1>2, <1>3 DEF PoolSafe

(* A task runs at most once and only after run_task, with every callback   *)
(* add_cb accepted, and what was released before init has run when the     *)
(* next deinit returns: for any number of clients, workers, tasks,         *)
(* callbacks and cycles of init and deinit.                                *)
THEOREM PoolIsSafe == Spec => []PoolSafe
<1>1. PoolInv /\ [Next]_vars => PoolInv'
  BY PoolTypesStep, NumberedStep, ListStep, WorkStep, OwnStep, RanStep,
     ThreadsStep, DebtStep DEF PoolInv
<1>. QED BY <1>1, PoolInvInit, PoolInvSafe, PTL DEF Spec
=============================================================================
