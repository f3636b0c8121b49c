--------------------------- MODULE Threads_proofs ---------------------------
(***************************************************************************)
(* Proofs about the parts of MCThreads.                                    *)
(*                                                                         *)
(* threaded_handler never has two workers: the ring buffer is read by one  *)
(* thread whatever push and stop do at the same time.  The argument needs  *)
(* nothing about the messages, only who owns which thread.  With it, the   *)
(* messages of a producer are handled in their order, and every call of the*)
(* ring buffer comes when the buffer promises something for it.            *)
(*                                                                         *)
(* The mutex, the condition variable and the flag of WaitObject implement  *)
(* the auto-reset event of Event, for any number of waiters, setters and   *)
(* sets and any timeouts; and a request of the Linux server finds its      *)
(* worker and its socket, for any number of workers and runs.  The same    *)
(* holds of the three parts together.                                      *)
(***************************************************************************)
EXTENDS MCThreads, SequenceTheorems, TLAPS

-----------------------------------------------------------------------------
(* The handler. *)

(* The types of the variables the argument is about.                       *)
Places ==
  /\ s \in Threads \cup {0}
  /\ state_block \in Producers \cup {NoOne}
  /\ ppc \in [Producers -> {"idle", "status", "spawn", "lock", "reserve",
                            "write", "commit", "signal"}]
  /\ wpc \in [Threads ->
               {"unborn", "top", "wait", "peek", "call", "free", "exit"}]
  /\ spc \in {"idle", "signal", "check", "join", "reset"}

IInv == Places /\ ThreadInv

(* 0, which stands for nullptr, is no thread.                              *)
LEMMA ZeroIsNoThread == 0 \notin Threads
  BY HandlerConstants DEF Threads

(* No thread has been started when the handler is constructed.             *)
LEMMA IInvInit == Init => IInv
  BY DEF Init, IInv, Places, ThreadInv, Alive

(* A step that leaves _s, the workers, stop and _state_block alone and     *)
(* sends no producer to the creation of a thread keeps the invariant.      *)
LEMMA QuietPush ==
  ASSUME IInv, UNCHANGED <<s, wpc, spc, state_block>>,
         NEW p \in Producers, NEW place \in {"idle", "lock", "reserve",
                                             "write", "commit", "signal"},
         GoTo(p, place)
  PROVE  IInv'
<1>1. Places'
  BY DEF IInv, Places, GoTo
<1>2. \A q \in Producers :
        ppc'[q] \in {"status", "spawn"} => ppc[q] \in {"status", "spawn"}
  BY DEF IInv, Places, GoTo
<1>3. ThreadInv'
  BY <1>2 DEF IInv, ThreadInv, Alive
<1>. QED BY <1>1, <1>3 DEF IInv

(* Looking at _s under the lock, and setting _work_status.                 *)
LEMMA BeginKeeps ==
  ASSUME IInv, NEW p \in Producers, PushBegin(p) \/ PushStatus(p)
  PROVE  IInv'
<1>1. CASE PushBegin(p) /\ s # 0
  <2>1. GoTo(p, "lock") /\ UNCHANGED <<s, wpc, spc, state_block>>
    BY <1>1 DEF PushBegin
  <2>. QED BY <2>1, QuietPush
<1>2. CASE PushBegin(p) /\ s = 0
  <2>1. /\ ppc' = [ppc EXCEPT ![p] = "status"]
        /\ state_block = NoOne /\ state_block' = p
        /\ UNCHANGED <<s, wpc, spc>>
    BY <1>2 DEF PushBegin, GoTo
  <2>2. Places'
    BY <2>1 DEF IInv, Places
  <2>3. \A q \in Producers : ppc[q] \notin {"status", "spawn"}
    BY <2>1, HandlerConstants DEF IInv, ThreadInv
  <2>4. \A q \in Producers :
          ppc'[q] \in {"status", "spawn"} => state_block' = q /\ s' = 0
    BY <1>2, <2>1, <2>3 DEF IInv, Places
  <2>. QED BY <2>1, <2>2, <2>4 DEF IInv, ThreadInv, Alive
<1>3. CASE PushStatus(p)
  <2>1. /\ ppc[p] = "status"
        /\ ppc' = [ppc EXCEPT ![p] = "spawn"]
        /\ UNCHANGED <<s, wpc, spc, state_block>>
    BY <1>3 DEF PushStatus, GoTo
  <2>2. Places'
    BY <2>1 DEF IInv, Places
  <2>3. \A q \in Producers :
          ppc'[q] \in {"status", "spawn"} => ppc[q] \in {"status", "spawn"}
    BY <2>1 DEF IInv, Places
  <2>. QED BY <2>1, <2>2, <2>3 DEF IInv, ThreadInv, Alive
<1>. QED BY <1>1, <1>2, <1>3

(* A producer starts a thread only when no other is alive, because _s is   *)
(* null while it holds _state_block.                                       *)
LEMMA SpawnKeeps ==
  ASSUME IInv, NEW p \in Producers, PushSpawn(p)
  PROVE  IInv'
<1>1. PICK t \in Threads : s' = t /\ wpc' = [wpc EXCEPT ![t] = "top"]
  BY DEF PushSpawn
<1>2. /\ ppc[p] = "spawn" /\ ppc' = [ppc EXCEPT ![p] = "lock"]
      /\ state_block' = NoOne /\ UNCHANGED spc
  BY DEF PushSpawn, GoTo
<1>3. state_block = p /\ s = 0
  BY <1>2 DEF IInv, ThreadInv
<1>4. \A u \in Threads : ~Alive(u)
  BY <1>3, ZeroIsNoThread DEF IInv, ThreadInv
<1>5. \A u \in Threads : Alive(u)' => u = t
  BY <1>1, <1>4 DEF Alive, IInv, Places
<1>6. \A q \in Producers : ppc'[q] \notin {"status", "spawn"}
  BY <1>2, <1>3 DEF IInv, ThreadInv, Places
<1>7. spc \notin {"join", "reset"}
  BY <1>3 DEF IInv, ThreadInv
<1>8. Places'
  BY <1>1, <1>2 DEF IInv, Places
<1>. QED BY <1>1, <1>2, <1>5, <1>6, <1>7, <1>8 DEF IInv, ThreadInv

(* A worker that runs or exits keeps the invariant: none is born.          *)
LEMMA WorkKeeps ==
  ASSUME IInv, NEW t \in Threads, Work(t)
  PROVE  IInv'
<1>1. \E place \in {"top", "wait", "peek", "call", "free", "exit"} :
        /\ Alive(t)
        /\ wpc' = [wpc EXCEPT ![t] = place]
        /\ UNCHANGED <<s, spc, state_block, ppc>>
  BY DEF Work, WorkTop, WorkWait, WorkPeek, WorkNothing, WorkCall, WorkFree,
         Goes, Alive, pushVars
<1>2. PICK place \in {"top", "wait", "peek", "call", "free", "exit"} :
        /\ Alive(t)
        /\ wpc' = [wpc EXCEPT ![t] = place]
        /\ UNCHANGED <<s, spc, state_block, ppc>>
  BY <1>1
<1>3. \A u \in Threads : Alive(u)' => Alive(u)
  BY <1>2 DEF Alive, IInv, Places
<1>4. Places'
  BY <1>2 DEF IInv, Places
<1>5. (spc = "reset" => ~Alive(s))'
  <2>1. CASE s \in Threads  BY <1>2, <1>3, <2>1 DEF IInv, ThreadInv
  <2>2. CASE s = 0
    BY <1>2, <2>2 DEF IInv, ThreadInv
  <2>. QED BY <2>1, <2>2 DEF IInv, Places
<1>. QED BY <1>2, <1>3, <1>4, <1>5 DEF IInv, ThreadInv

(* stop resets _s only after the thread it owns has exited.                *)
LEMMA StopKeeps ==
  ASSUME IInv, StopBegin \/ StopStep
  PROVE  IInv'
<1>1. CASE StopBegin \/ StopSignal \/ StopCheck
  <2>1. /\ UNCHANGED <<s, wpc, state_block, ppc>>
        /\ spc' \in {"idle", "signal", "check", "join"}
        /\ spc' = "join" => s # 0
    BY <1>1 DEF StopBegin, StopSignal, StopCheck, pushVars
  <2>. QED BY <2>1 DEF IInv, Places, ThreadInv, Alive
<1>2. CASE StopJoin
  <2>1. /\ UNCHANGED <<s, wpc, state_block, ppc>>
        /\ spc = "join" /\ spc' = "reset" /\ wpc[s] = "exit"
    BY <1>2 DEF StopJoin, Joinable, pushVars
  <2>. QED BY <2>1 DEF IInv, Places, ThreadInv, Alive
<1>3. CASE StopReset
  <2>1. /\ UNCHANGED <<wpc, state_block, ppc>>
        /\ spc = "reset" /\ spc' = "idle" /\ s' = 0
    BY <1>3 DEF StopReset, pushVars
  <2>2. \A u \in Threads : ~Alive(u)
    BY <2>1 DEF IInv, ThreadInv
  <2>3. \A u \in Threads : ~Alive(u)'
    BY <2>1, <2>2 DEF Alive
  <2>. QED BY <2>1, <2>3 DEF IInv, Places, ThreadInv
<1>. QED BY <1>1, <1>2, <1>3 DEF StopStep

(* Every step of a producer, a worker, stop or setCallbackFunc keeps the   *)
(* invariant.                                                              *)
LEMMA IInvStep == IInv /\ [Next]_vars => IInv'
<1>. SUFFICES ASSUME IInv, [Next]_vars PROVE IInv'
  OBVIOUS
<1>1. ASSUME NEW p \in Producers, PushBegin(p) \/ PushStep(p) \/ PushFull(p)
      PROVE  IInv'
  <2>1. CASE PushBegin(p) \/ PushStatus(p)  BY <2>1, BeginKeeps
  <2>2. CASE PushSpawn(p)  BY <2>2, SpawnKeeps
  <2>3. CASE PushLock(p)
    <3>1. GoTo(p, "reserve") /\ UNCHANGED <<s, wpc, spc, state_block>>
      BY <2>3 DEF PushLock
    <3>. QED BY <3>1, QuietPush
  <2>4. CASE PushReserve(p)
    <3>1. GoTo(p, "write") /\ UNCHANGED <<s, wpc, spc, state_block>>
      BY <2>4 DEF PushReserve
    <3>. QED BY <3>1, QuietPush
  <2>5. CASE PushWrite(p)
    <3>1. GoTo(p, "commit") /\ UNCHANGED <<s, wpc, spc, state_block>>
      BY <2>5 DEF PushWrite
    <3>. QED BY <3>1, QuietPush
  <2>6. CASE PushCommit(p)
    <3>1. GoTo(p, "signal") /\ UNCHANGED <<s, wpc, spc, state_block>>
      BY <2>6 DEF PushCommit
    <3>. QED BY <3>1, QuietPush
  <2>7. CASE PushSignal(p) \/ PushFull(p)
    <3>1. GoTo(p, "idle") /\ UNCHANGED <<s, wpc, spc, state_block>>
      BY <2>7 DEF PushSignal, PushFull
    <3>. QED BY <3>1, QuietPush
  <2>. QED BY <1>1, <2>1, <2>2, <2>3, <2>4, <2>5, <2>6, <2>7 DEF PushStep
<1>2. CASE SetCallback \/ UNCHANGED vars
  <2>1. UNCHANGED <<s, wpc, spc, state_block, ppc>>
    BY <1>2 DEF SetCallback, vars, pushVars
  <2>. QED BY <2>1 DEF IInv, Places, ThreadInv, Alive
<1>. QED BY <1>1, <1>2, WorkKeeps, StopKeeps DEF Next

(* The invariant holds throughout, for any number of producers, messages   *)
(* and workers, stop racing with push or not.                              *)
THEOREM ThreadInvariant == Spec => []ThreadInv
<1>1. IInv => ThreadInv
  BY DEF IInv
<1>. QED BY <1>1, IInvInit, IInvStep, PTL DEF Spec

(* threaded_handler reads its ring buffer from one thread at a time.       *)
THEOREM OneConsumer == Spec => []SingleConsumer
<1>1. ThreadInv => SingleConsumer
  BY DEF ThreadInv, SingleConsumer
<1>. QED BY <1>1, ThreadInvariant, PTL

-----------------------------------------------------------------------------
(* The order of the messages.                                              *)

(* Nothing is ever skipped: buffer_auto_commit commits what was reserved.  *)
Slot == [st : {"busy", "commited"}, msg : Msg \cup {0}]

MessageTypes ==
  /\ queue \in Seq(Slot) /\ held \in Msg \cup {0} /\ out \in Seq(Msg)
  /\ reserved \in Seq(Msg) /\ called \in Seq(Msg) /\ issued \in 0 .. MaxMsgs
  /\ pmsg \in [Producers -> Msg \cup {0}] /\ ticket \in [Producers -> Nat]
  /\ \A p \in Producers : ppc[p] # "idle" => pmsg[p] \in Msg

(* What was reserved is what was handled and, behind it, what is queued.   *)
Line ==
  /\ Len(reserved) = Len(out) + Len(queue)
  /\ \A i \in 1 .. Len(out) : out[i] = reserved[i]
  /\ \A i \in 1 .. Len(queue) :
       \/ queue[i].msg = reserved[Len(out) + i]
       \/ queue[i].msg = 0 /\ queue[i].st = "busy"

(* A producer that has reserved a block has it for itself, and it stays in *)
(* the queue until it is committed.                                        *)
Writes(p) == ppc[p] \in {"write", "commit"}
Blocks ==
  /\ \A p \in Producers : Writes(p) =>
       /\ ticket[p] \in Len(out) + 1 .. Len(reserved)
       /\ reserved[ticket[p]] = pmsg[p]
       /\ queue[ticket[p] - Len(out)].st = "busy"
  /\ \A p, q \in Producers : Writes(p) /\ Writes(q) /\ ticket[p] = ticket[q] => p = q

(* The worker that is behind a peek has the first message.                 *)
Reader ==
  /\ held # 0 => Len(queue) > 0 /\ queue[1].st = "commited" /\ queue[1].msg = held
  /\ \A t \in Threads : wpc[t] \in {"call", "free"} => held # 0

(* _f has seen messages that were handled, and the one about to be freed.  *)
Calls ==
  /\ \A i \in 1 .. Len(called) :
       Handled(called[i]) \/ (called[i] = held /\ \E t \in Threads : wpc[t] = "free")
  /\ \A i \in 2 .. Len(called) : \E j, k \in 1 .. Len(reserved) :
       j < k /\ reserved[j] = called[i - 1] /\ reserved[k] = called[i]

OrderInv == MessageTypes /\ Line /\ Blocks /\ Reader /\ Calls

(* Nothing has been pushed.                                                *)
LEMMA OrderInit == Init => OrderInv
BY HandlerConstants
DEF Init, Rb!Init, OrderInv, MessageTypes, Line, Blocks, Reader, Calls, Writes,
    Handled, Msg, Slot

(* A step that leaves the ring buffer and the histories alone, makes no    *)
(* producer a writer and moves no worker between peek and free.            *)
LEMMA QuietOrder ==
  ASSUME OrderInv,
         UNCHANGED <<queue, held, out, reserved, called>>,
         issued' \in 0 .. MaxMsgs,
         pmsg' \in [Producers -> Msg \cup {0}], ticket' \in [Producers -> Nat],
         \A p \in Producers : ppc'[p] # "idle" => pmsg'[p] \in Msg,
         \A p \in Producers : ppc'[p] \in {"write", "commit"} =>
           ppc'[p] = ppc[p] /\ ticket'[p] = ticket[p] /\ pmsg'[p] = pmsg[p],
         \A t \in Threads : wpc'[t] \in {"call", "free"} => wpc'[t] = wpc[t],
         \A t \in Threads : wpc[t] = "free" => wpc'[t] = "free"
  PROVE  OrderInv'
<1>1. MessageTypes' /\ Line'
  BY DEF OrderInv, MessageTypes, Line
<1>2. Blocks'
  BY DEF OrderInv, Blocks, Writes
<1>3. Reader'
  BY DEF OrderInv, Reader
<1>4. Calls'
  BY DEF OrderInv, Calls, Handled
<1>. QED BY <1>1, <1>2, <1>3, <1>4 DEF OrderInv

(* The steps of _push that do not touch a block.                           *)
LEMMA PushOrder ==
  ASSUME OrderInv, IInv, NEW p \in Producers,
         \/ PushBegin(p) \/ PushStatus(p) \/ PushSpawn(p) \/ PushLock(p)
         \/ PushFull(p) \/ PushSignal(p)
  PROVE  OrderInv'
<1>. USE DEF OrderInv, MessageTypes, IInv, Places
<1>1. UNCHANGED <<queue, held, out, reserved, called>>
  BY DEF PushBegin, PushStatus, PushSpawn, PushLock, PushFull, PushSignal, rbVars,
         histVars
<1>2. /\ issued' \in 0 .. MaxMsgs
      /\ pmsg' \in [Producers -> Msg \cup {0}] /\ ticket' \in [Producers -> Nat]
  <2>1. CASE PushBegin(p)
    BY <2>1, HandlerConstants DEF PushBegin, Msg
  <2>2. CASE PushFull(p) \/ PushSignal(p)
    <3>1. /\ pmsg' = [pmsg EXCEPT ![p] = 0] /\ issued' = issued
          /\ ticket' = ticket \/ ticket' = [ticket EXCEPT ![p] = 0]
      BY <2>2 DEF PushFull, PushSignal
    <3>. QED BY <3>1
  <2>3. CASE PushStatus(p) \/ PushSpawn(p) \/ PushLock(p)
    BY <2>3 DEF PushStatus, PushSpawn, PushLock
  <2>. QED BY <2>1, <2>2, <2>3
<1>3. /\ ppc[p] \notin {"write", "commit"} /\ ppc'[p] \notin {"write", "commit"}
      /\ \A q \in Producers : q # p =>
           ppc'[q] = ppc[q] /\ ticket'[q] = ticket[q] /\ pmsg'[q] = pmsg[q]
  BY DEF PushBegin, PushStatus, PushSpawn, PushLock, PushFull, PushSignal, GoTo
<1>4. ppc'[p] # "idle" => pmsg'[p] \in Msg
  BY HandlerConstants
     DEF PushBegin, PushStatus, PushSpawn, PushLock, PushFull, PushSignal, GoTo, Msg
<1>5. \A t \in Threads : wpc'[t] = wpc[t] \/ (wpc[t] = "unborn" /\ wpc'[t] = "top")
  BY DEF PushBegin, PushStatus, PushSpawn, PushLock, PushFull, PushSignal
<1>6. \A t \in Threads : /\ wpc'[t] \in {"call", "free"} => wpc'[t] = wpc[t]
                         /\ wpc[t] = "free" => wpc'[t] = "free"
  BY <1>5
<1>7. \A q \in Producers : ppc'[q] # "idle" => pmsg'[q] \in Msg
  BY <1>3, <1>4
<1>8. \A q \in Producers : ppc'[q] \in {"write", "commit"} =>
        ppc'[q] = ppc[q] /\ ticket'[q] = ticket[q] /\ pmsg'[q] = pmsg[q]
  BY <1>3
<1>9. OrderInv
  OBVIOUS
<1>. HIDE DEF OrderInv, MessageTypes, IInv, Places
<1>. QED BY <1>1, <1>2, <1>6, <1>7, <1>8, <1>9, QuietOrder

(* A block is reserved at the end of the line.                             *)
LEMMA ReserveOrder ==
  ASSUME OrderInv, IInv, NEW p \in Producers, PushReserve(p)
  PROVE  OrderInv'
<1>. DEFINE new == [st |-> "busy", msg |-> 0]
            n == Len(out)
            r == Len(reserved)
<1>1. /\ ppc[p] = "reserve" /\ ppc' = [ppc EXCEPT ![p] = "write"]
      /\ queue' = Append(queue, new) /\ reserved' = Append(reserved, pmsg[p])
      /\ ticket' = [ticket EXCEPT ![p] = r + 1]
      /\ UNCHANGED <<held, out, pmsg, issued, wpc, called>>
  BY DEF PushReserve, Rb!Reserve, GoTo, histVars
<1>2. /\ queue \in Seq(Slot) /\ reserved \in Seq(Msg) /\ pmsg[p] \in Msg
      /\ n \in Nat /\ r \in Nat /\ Len(queue) \in Nat /\ r = n + Len(queue)
      /\ new \in Slot
  BY <1>1 DEF OrderInv, MessageTypes, Line, Slot
<1>3. /\ queue' \in Seq(Slot) /\ Len(queue') = Len(queue) + 1
      /\ queue'[Len(queue) + 1] = new
      /\ \A i \in 1 .. Len(queue) : queue'[i] = queue[i]
  BY <1>1, <1>2
<1>4. /\ reserved' \in Seq(Msg) /\ Len(reserved') = r + 1
      /\ reserved'[r + 1] = pmsg[p]
      /\ \A i \in 1 .. r : reserved'[i] = reserved[i]
  BY <1>1, <1>2
<1>5. MessageTypes'
  BY <1>1, <1>2, <1>3, <1>4 DEF OrderInv, MessageTypes, IInv, Places
<1>6. Line'
  <2>1. Len(reserved') = Len(out') + Len(queue')
    BY <1>1, <1>2, <1>3, <1>4
  <2>2. \A i \in 1 .. Len(out') : out'[i] = reserved'[i]
    BY <1>1, <1>2, <1>4 DEF OrderInv, Line
  <2>3. ASSUME NEW i \in 1 .. Len(queue')
        PROVE  \/ queue'[i].msg = reserved'[Len(out') + i]
               \/ queue'[i].msg = 0 /\ queue'[i].st = "busy"
    <3>1. CASE i = Len(queue) + 1
      BY <1>3, <3>1
    <3>2. CASE i # Len(queue) + 1
      <4>1. i \in 1 .. Len(queue) /\ n + i \in 1 .. r
        BY <1>2, <1>3, <3>2
      <4>. QED BY <1>1, <1>3, <1>4, <4>1 DEF OrderInv, Line
    <3>. QED BY <3>1, <3>2
  <2>. QED BY <2>1, <2>2, <2>3 DEF Line
<1>7. Blocks'
  <2>1. /\ ticket'[p] = r + 1
        /\ \A q \in Producers : q # p => ticket'[q] = ticket[q] /\ (Writes(q)' <=> Writes(q))
    BY <1>1 DEF OrderInv, MessageTypes, IInv, Places, Writes
  <2>2. ASSUME NEW q \in Producers, Writes(q), q # p
        PROVE  /\ ticket[q] \in n + 1 .. r /\ reserved'[ticket[q]] = pmsg[q]
               /\ queue'[ticket[q] - n].st = "busy"
    <3>1. /\ ticket[q] \in n + 1 .. r /\ reserved[ticket[q]] = pmsg[q]
          /\ queue[ticket[q] - n].st = "busy"
      BY <2>2 DEF OrderInv, Blocks
    <3>2. ticket[q] \in 1 .. r /\ ticket[q] - n \in 1 .. Len(queue)
      BY <1>2, <3>1
    <3>. QED BY <1>3, <1>4, <3>1, <3>2
  <2>3. (r + 1) - n = Len(queue) + 1 /\ r + 1 \in n + 1 .. r + 1
    BY <1>2
  <2>4. ASSUME NEW q \in Producers, Writes(q)'
        PROVE  /\ ticket'[q] \in Len(out') + 1 .. Len(reserved')
               /\ reserved'[ticket'[q]] = pmsg'[q]
               /\ queue'[ticket'[q] - Len(out')].st = "busy"
    <3>1. CASE q = p
      BY <1>1, <1>3, <1>4, <2>1, <2>3, <3>1
    <3>2. CASE q # p
      BY SMTT(30), <1>1, <1>2, <1>4, <2>1, <2>2, <2>4, <3>2
    <3>. QED BY <3>1, <3>2
  <2>5. ASSUME NEW a \in Producers, NEW b \in Producers, Writes(a)', Writes(b)',
               ticket'[a] = ticket'[b]
        PROVE  a = b
    <3>1. \A q \in Producers : q # p /\ Writes(q) => ticket[q] # r + 1
      BY <1>2, <2>2
    <3>2. CASE a = p \/ b = p
      BY <2>1, <2>5, <3>1, <3>2
    <3>3. CASE a # p /\ b # p
      BY <2>1, <2>5, <3>3 DEF OrderInv, Blocks
    <3>. QED BY <3>2, <3>3
  <2>. QED BY <2>4, <2>5 DEF Blocks
<1>8. Reader'
  BY <1>1, <1>2, <1>3 DEF OrderInv, Reader
<1>9. Calls'
  <2>1. \A i \in 1 .. Len(called') :
          \/ \E j \in DOMAIN out' : out'[j] = called'[i]
          \/ called'[i] = held' /\ \E t \in Threads : wpc'[t] = "free"
    BY <1>1 DEF OrderInv, Calls, Handled
  <2>2. \A i \in 2 .. Len(called') : \E j, k \in 1 .. Len(reserved') :
          j < k /\ reserved'[j] = called'[i - 1] /\ reserved'[k] = called'[i]
    <3>. SUFFICES ASSUME NEW i \in 2 .. Len(called)
                  PROVE  \E j, k \in 1 .. Len(reserved') :
                     j < k /\ reserved'[j] = called[i - 1] /\ reserved'[k] = called[i]
      BY <1>1
    <3>1. PICK j \in 1 .. r, k \in 1 .. r :
            j < k /\ reserved[j] = called[i - 1] /\ reserved[k] = called[i]
      BY DEF OrderInv, Calls
    <3>2. j \in 1 .. Len(reserved') /\ k \in 1 .. Len(reserved')
      BY <1>2, <1>4
    <3>3. reserved'[j] = called[i - 1] /\ reserved'[k] = called[i]
      BY <1>4, <3>1
    <3>. QED BY <3>1, <3>2, <3>3
  <2>. QED BY <2>1, <2>2 DEF Calls, Handled
<1>. QED BY <1>5, <1>6, <1>7, <1>8, <1>9 DEF OrderInv

(* The message is written into the producer's own block.                   *)
LEMMA WriteOrder ==
  ASSUME OrderInv, IInv, NEW p \in Producers, PushWrite(p)
  PROVE  OrderInv'
<1>. DEFINE n == Len(out)
            r == Len(reserved)
<1>1. /\ n \in Nat /\ r \in Nat /\ Len(queue) \in Nat /\ r = n + Len(queue)
      /\ queue \in Seq(Slot)
  BY DEF OrderInv, MessageTypes, Line
<1>2. PICK b \in 1 .. Len(queue) : b = ticket[p] - n /\ reserved[n + b] = pmsg[p]
  <2>1. ticket[p] \in n + 1 .. r /\ reserved[ticket[p]] = pmsg[p]
    BY DEF PushWrite, OrderInv, Blocks, Writes
  <2>2. ticket[p] - n \in 1 .. Len(queue) /\ n + (ticket[p] - n) = ticket[p]
    BY <1>1, <2>1
  <2>. QED BY <2>1, <2>2
<1>3. /\ ppc[p] = "write" /\ ppc' = [ppc EXCEPT ![p] = "commit"]
      /\ queue[b].st = "busy" /\ queue' = [queue EXCEPT ![b].msg = pmsg[p]]
      /\ UNCHANGED <<held, out, reserved, pmsg, ticket, issued, wpc, called>>
  <2>1. Rb!Write(b, pmsg[p])
    BY <1>2 DEF PushWrite, Block
  <2>2. queue[b] = [st |-> "busy", msg |-> 0] /\ queue' = [queue EXCEPT ![b].msg = pmsg[p]]
    BY <2>1 DEF Rb!Write
  <2>3. queue[b].st = "busy"
    BY <2>2
  <2>. QED BY <2>1, <2>2, <2>3 DEF PushWrite, Rb!Write, GoTo, histVars
<1>4. /\ queue' \in Seq(Slot) /\ Len(queue') = Len(queue)
      /\ queue'[b].st = "busy" /\ queue'[b].msg = pmsg[p]
      /\ \A i \in 1 .. Len(queue) : i # b => queue'[i] = queue[i]
  <2>1. queue[b] \in Slot /\ pmsg[p] \in Msg
    BY <1>1, <1>3, ElementOfSeq DEF OrderInv, MessageTypes
  <2>2. [queue[b] EXCEPT !.msg = pmsg[p]] \in Slot
    BY <2>1 DEF Slot
  <2>3. queue' = [queue EXCEPT ![b] = [queue[b] EXCEPT !.msg = pmsg[p]]]
    BY <1>3
  <2>4. [queue[b] EXCEPT !.msg = pmsg[p]].st = "busy"
        /\ [queue[b] EXCEPT !.msg = pmsg[p]].msg = pmsg[p]
    BY <1>3, <2>1 DEF Slot
  <2>. QED BY <1>1, <2>2, <2>3, <2>4
<1>5. MessageTypes'
  BY <1>3, <1>4 DEF OrderInv, MessageTypes, IInv, Places
<1>6. Line'
  BY <1>1, <1>2, <1>3, <1>4 DEF OrderInv, Line
<1>7. Blocks'
  <2>1. \A q \in Producers : Writes(q)' <=> Writes(q)
    BY <1>3 DEF Writes, IInv, Places
  <2>2. \A i \in 1 .. Len(queue) : queue'[i].st = queue[i].st
    BY <1>3, <1>4
  <2>3. \A q \in Producers : ticket[q] \in n + 1 .. r => ticket[q] - n \in 1 .. Len(queue)
    BY <1>1
  <2>4. ASSUME NEW q \in Producers, Writes(q)'
        PROVE  /\ ticket'[q] \in Len(out') + 1 .. Len(reserved')
               /\ reserved'[ticket'[q]] = pmsg'[q]
               /\ queue'[ticket'[q] - Len(out')].st = "busy"
    BY <1>3, <2>1, <2>2, <2>3, <2>4 DEF OrderInv, Blocks
  <2>5. \A q, a \in Producers :
          Writes(q)' /\ Writes(a)' /\ ticket'[q] = ticket'[a] => q = a
    BY <1>3, <2>1 DEF OrderInv, Blocks
  <2>. QED BY <2>4, <2>5 DEF Blocks
<1>8. Reader'
  <2>1. held # 0 => b # 1
    BY <1>1, <1>3 DEF OrderInv, Reader
  <2>. QED BY <1>1, <1>3, <1>4, <2>1 DEF OrderInv, Reader
<1>9. Calls'
  BY <1>3 DEF OrderInv, Calls, Handled
<1>. QED BY <1>5, <1>6, <1>7, <1>8, <1>9 DEF OrderInv

(* The block is committed; no other producer has it.                       *)
LEMMA CommitOrder ==
  ASSUME OrderInv, IInv, NEW p \in Producers, PushCommit(p)
  PROVE  OrderInv'
<1>. DEFINE n == Len(out)
            r == Len(reserved)
<1>1. /\ n \in Nat /\ r \in Nat /\ Len(queue) \in Nat /\ r = n + Len(queue)
      /\ queue \in Seq(Slot)
  BY DEF OrderInv, MessageTypes, Line
<1>2. PICK b \in 1 .. Len(queue) : b = ticket[p] - n /\ n + b = ticket[p]
  <2>1. ticket[p] \in n + 1 .. r
    BY DEF PushCommit, OrderInv, Blocks, Writes
  <2>. QED BY <1>1, <2>1
<1>3. /\ ppc[p] = "commit" /\ ppc' = [ppc EXCEPT ![p] = "signal"]
      /\ queue[b].st = "busy" /\ queue[b].msg # 0
      /\ queue' = [queue EXCEPT ![b].st = "commited", ![b].msg = queue[b].msg]
      /\ UNCHANGED <<held, out, reserved, pmsg, ticket, issued, wpc, called>>
  BY <1>2 DEF PushCommit, Rb!Resolve, GoTo, histVars, Block
<1>4. /\ queue' \in Seq(Slot) /\ Len(queue') = Len(queue)
      /\ queue'[b].msg = queue[b].msg
      /\ \A i \in 1 .. Len(queue) : i # b => queue'[i] = queue[i]
  <2>1. queue[b] \in Slot
    BY <1>1, ElementOfSeq
  <2>2. [st |-> "commited", msg |-> queue[b].msg] \in Slot
    BY <2>1 DEF Slot
  <2>3. queue' = [queue EXCEPT ![b] = [st |-> "commited", msg |-> queue[b].msg]]
    <3>1. [[queue[b] EXCEPT !.st = "commited"] EXCEPT !.msg = queue[b].msg]
            = [st |-> "commited", msg |-> queue[b].msg]
      <4>1. queue[b] = [st |-> queue[b].st, msg |-> queue[b].msg]
        BY <2>1 DEF Slot
      <4>2. \A x, y, z : [[st |-> x, msg |-> y] EXCEPT !.st = z] = [st |-> z, msg |-> y]
        OBVIOUS
      <4>3. \A x, y, z : [[st |-> x, msg |-> y] EXCEPT !.msg = z] = [st |-> x, msg |-> z]
        OBVIOUS
      <4>4. [queue[b] EXCEPT !.st = "commited"] = [st |-> "commited", msg |-> queue[b].msg]
        BY <4>1, <4>2
      <4>. QED BY <4>3, <4>4
    <3>2. queue' = [[queue EXCEPT ![b] = [queue[b] EXCEPT !.st = "commited"]]
                     EXCEPT ![b] = [@ EXCEPT !.msg = queue[b].msg]]
      BY <1>3
    <3>. QED BY <1>1, <3>1, <3>2
  <2>. QED BY <1>1, <2>2, <2>3
<1>5. MessageTypes'
  BY <1>3, <1>4 DEF OrderInv, MessageTypes, IInv, Places
<1>6. Line'
  BY <1>1, <1>2, <1>3, <1>4 DEF OrderInv, Line
<1>7. Blocks'
  <2>1. ~Writes(p)' /\ Writes(p) /\ \A q \in Producers : q # p => (Writes(q)' <=> Writes(q))
    BY <1>3 DEF Writes, IInv, Places
  <2>2. ASSUME NEW q \in Producers, Writes(q), q # p
        PROVE  /\ ticket[q] \in n + 1 .. r /\ reserved[ticket[q]] = pmsg[q]
               /\ queue'[ticket[q] - n].st = "busy"
    <3>1. /\ ticket[q] \in n + 1 .. r /\ reserved[ticket[q]] = pmsg[q]
          /\ queue[ticket[q] - n].st = "busy" /\ ticket[q] # ticket[p]
      BY <2>1, <2>2 DEF OrderInv, Blocks
    <3>2. ticket[q] - n \in 1 .. Len(queue) /\ ticket[q] - n # b
      <4>1. ticket[q] \in Nat /\ ticket[p] \in Nat
        BY DEF OrderInv, MessageTypes
      <4>. QED BY <1>1, <1>2, <3>1, <4>1
    <3>. QED BY <1>4, <3>1, <3>2
  <2>3. \A q, a \in Producers :
          Writes(q)' /\ Writes(a)' /\ ticket'[q] = ticket'[a] => q = a
    BY <1>3, <2>1 DEF OrderInv, Blocks
  <2>. QED BY <1>3, <2>1, <2>2, <2>3 DEF Blocks
<1>8. Reader'
  <2>1. held # 0 => b # 1
    BY <1>1, <1>3 DEF OrderInv, Reader
  <2>. QED BY <1>1, <1>3, <1>4, <2>1 DEF OrderInv, Reader
<1>9. Calls'
  BY <1>3 DEF OrderInv, Calls, Handled
<1>. QED BY <1>5, <1>6, <1>7, <1>8, <1>9 DEF OrderInv

(* No two workers are between peek and free.                               *)
LEMMA OneWorker ==
  ASSUME IInv, NEW t \in Threads, NEW u \in Threads, t # u, Alive(t)
  PROVE  wpc[u] \in {"unborn", "exit"}
BY DEF IInv, ThreadInv, Alive

(* The first message that is committed is the first in the queue.          *)
LEMMA FirstIsFirst ==
  ASSUME OrderInv, NEW i \in DOMAIN queue, Rb!IsFirst(i)
  PROVE  i = 1 /\ queue[1].st = "commited" /\ 1 \in 1 .. Len(queue)
<1>1. queue \in Seq(Slot) /\ Len(queue) \in Nat /\ i \in 1 .. Len(queue)
  BY DEF OrderInv, MessageTypes
<1>2. queue[1] \in Slot
  BY <1>1, ElementOfSeq
<1>3. queue[1].st # "skipped"
  BY <1>2 DEF Slot
<1>. QED BY <1>1, <1>3 DEF Rb!IsFirst

(* peek shows the worker the first message.                                *)
LEMMA PeekOrder ==
  ASSUME OrderInv, IInv, NEW t \in Threads, WorkPeek(t)
  PROVE  OrderInv'
<1>1. PICK i \in DOMAIN queue : Rb!Peek(i)
  BY DEF WorkPeek
<1>2. /\ held = 0 /\ i = 1 /\ held' = queue[1].msg /\ queue[1].st = "commited"
      /\ 1 \in 1 .. Len(queue)
  BY <1>1, FirstIsFirst DEF Rb!Peek
<1>3. /\ wpc[t] = "peek" /\ wpc' = [wpc EXCEPT ![t] = "call"]
      /\ UNCHANGED <<queue, out, reserved, pmsg, ticket, issued, ppc, called>>
  BY <1>1 DEF WorkPeek, Goes, Rb!Peek, pushVars, histVars
<1>4. queue[1] \in Slot /\ held' \in Msg
  <2>1. queue[1] \in Slot
    BY <1>2, ElementOfSeq DEF OrderInv, MessageTypes
  <2>2. queue[1].msg = reserved[Len(out) + 1] /\ Len(reserved) = Len(out) + Len(queue)
    BY <1>2, <2>1 DEF OrderInv, Line, Slot
  <2>3. Len(out) + 1 \in 1 .. Len(reserved)
    BY <1>2, <2>2 DEF OrderInv, MessageTypes
  <2>4. reserved[Len(out) + 1] \in Msg
    BY <2>3, ElementOfSeq DEF OrderInv, MessageTypes
  <2>. QED BY <1>2, <2>1, <2>2, <2>4
<1>5. \A u \in Threads : wpc[u] \notin {"call", "free"}
  BY <1>2 DEF OrderInv, Reader
<1>6. held' # 0
  BY <1>4 DEF Msg
<1>7. MessageTypes' /\ Line'
  BY <1>3, <1>4 DEF OrderInv, MessageTypes, Line
<1>8. Blocks'
  BY <1>3 DEF OrderInv, Blocks, Writes
<1>9. Reader'
  BY <1>2, <1>3, <1>6 DEF OrderInv, Reader, MessageTypes
<1>10. Calls'
  BY <1>3, <1>5 DEF OrderInv, Calls, Handled
<1>. QED BY <1>7, <1>8, <1>9, <1>10 DEF OrderInv

(* _f is called with a message that is behind all it has seen.             *)
LEMMA CallOrder ==
  ASSUME OrderInv, IInv, NEW t \in Threads, WorkCall(t)
  PROVE  OrderInv'
<1>. DEFINE n == Len(out)
            r == Len(reserved)
            c == Len(called)
<1>1. /\ wpc[t] = "call" /\ wpc' = [wpc EXCEPT ![t] = "free"]
      /\ called' = called \/ called' = Append(called, held)
      /\ UNCHANGED <<queue, held, out, reserved, pmsg, ticket, issued, ppc>>
  BY DEF WorkCall, Goes, rbVars, pushVars
<1>2. /\ held # 0 /\ held \in Msg /\ n \in Nat /\ r \in Nat /\ c \in Nat
      /\ called \in Seq(Msg)
  BY <1>1 DEF OrderInv, Reader, MessageTypes
<1>3. held = reserved[n + 1] /\ n + 1 \in 1 .. r
  BY <1>2 DEF OrderInv, Reader, Line, MessageTypes
<1>4. wpc'[t] = "free"
  BY <1>1 DEF IInv, Places
<1>5. \A u \in Threads : wpc[u] # "free"
  <2>1. Alive(t)
    BY <1>1 DEF Alive
  <2>. QED BY <1>1, <2>1, OneWorker
<1>6. \A i \in 1 .. c : \E j \in 1 .. n : called[i] = out[j] /\ out[j] = reserved[j]
  <2>. SUFFICES ASSUME NEW i \in 1 .. c
                PROVE  \E j \in 1 .. n : called[i] = out[j] /\ out[j] = reserved[j]
    OBVIOUS
  <2>1. Handled(called[i])
    BY <1>5 DEF OrderInv, Calls
  <2>2. PICK j \in DOMAIN out : out[j] = called[i]
    BY <2>1 DEF Handled
  <2>3. j \in 1 .. n
    BY DEF OrderInv, MessageTypes
  <2>. QED BY <2>2, <2>3 DEF OrderInv, Line
<1>7. MessageTypes'
  <2>1. called' \in Seq(Msg)
    BY <1>1, <1>2
  <2>. QED BY <1>1, <2>1 DEF OrderInv, MessageTypes
<1>8. Line' /\ Blocks'
  BY <1>1 DEF OrderInv, Line, Blocks, Writes
<1>9. Reader'
  BY <1>1, <1>2 DEF OrderInv, Reader, MessageTypes
<1>10. CASE called' = called
  <2>1. Calls'
    BY <1>1, <1>5, <1>10 DEF OrderInv, Calls, Handled
  <2>. QED BY <1>7, <1>8, <1>9, <2>1 DEF OrderInv
<1>11. CASE called' = Append(called, held)
  <2>1. /\ Len(called') = c + 1 /\ called'[c + 1] = held
        /\ \A i \in 1 .. c : called'[i] = called[i]
    BY <1>2, <1>11
  <2>2. ASSUME NEW i \in 1 .. Len(called')
        PROVE  \/ \E j \in DOMAIN out' : out'[j] = called'[i]
               \/ called'[i] = held' /\ \E u \in Threads : wpc'[u] = "free"
    <3>1. CASE i = c + 1
      BY <1>1, <1>4, <2>1, <3>1
    <3>2. CASE i # c + 1
      <4>1. i \in 1 .. c
        BY <1>2, <2>1, <3>2
      <4>2. PICK j \in 1 .. n : called[i] = out[j]
        BY <1>6, <4>1
      <4>3. j \in DOMAIN out
        BY DEF OrderInv, MessageTypes
      <4>. QED BY <1>1, <2>1, <4>1, <4>2, <4>3
    <3>. QED BY <3>1, <3>2
  <2>3. ASSUME NEW i \in 2 .. Len(called')
        PROVE  \E j, k \in 1 .. Len(reserved') :
                 j < k /\ reserved'[j] = called'[i - 1] /\ reserved'[k] = called'[i]
    <3>1. CASE i = c + 1
      <4>1. c \in 1 .. c /\ i - 1 = c
        BY <1>2, <3>1
      <4>2. PICK j \in 1 .. n : called[c] = reserved[j]
        BY <1>6, <4>1
      <4>3. j \in 1 .. r /\ j < n + 1
        BY <1>2, <1>3
      <4>. QED BY <1>1, <1>3, <2>1, <3>1, <4>1, <4>2, <4>3
    <3>2. CASE i # c + 1
      <4>1. i \in 2 .. c /\ i \in 1 .. c /\ i - 1 \in 1 .. c
        BY <1>2, <2>1, <3>2
      <4>2. PICK j \in 1 .. r, k \in 1 .. r :
              j < k /\ reserved[j] = called[i - 1] /\ reserved[k] = called[i]
        BY <4>1 DEF OrderInv, Calls
      <4>. QED BY <1>1, <2>1, <4>1, <4>2
    <3>. QED BY <3>1, <3>2
  <2>4. Calls'
    BY <2>2, <2>3 DEF Calls, Handled
  <2>. QED BY <1>7, <1>8, <1>9, <2>4 DEF OrderInv
<1>. QED BY <1>1, <1>10, <1>11

(* The message leaves the queue, and no producer had its block.            *)
LEMMA FreeOrder ==
  ASSUME OrderInv, IInv, NEW t \in Threads, WorkFree(t)
  PROVE  OrderInv'
<1>. DEFINE n == Len(out)
            r == Len(reserved)
            q == Len(queue)
<1>1. PICK i \in DOMAIN queue : Rb!Free(i)
  BY DEF WorkFree
<1>2. i = 1 /\ queue[1].st = "commited" /\ 1 \in 1 .. q
  BY <1>1, FirstIsFirst DEF Rb!Free
<1>3. /\ held # 0 /\ queue[1].msg = held /\ held' = 0
      /\ queue' = SubSeq(queue, 2, q) /\ out' = Append(out, held)
  BY <1>1, <1>2 DEF Rb!Free, Rb!Rest
<1>4. /\ wpc[t] = "free" /\ wpc' = [wpc EXCEPT ![t] = "peek"]
      /\ UNCHANGED <<reserved, pmsg, ticket, issued, ppc, called>>
  BY DEF WorkFree, Goes, pushVars, histVars
<1>5. /\ n \in Nat /\ r \in Nat /\ q \in Nat /\ r = n + q
      /\ queue \in Seq(Slot) /\ out \in Seq(Msg) /\ held \in Msg
  BY <1>3 DEF OrderInv, MessageTypes, Line
<1>6. /\ queue' \in Seq(Slot) /\ Len(queue') = q - 1
      /\ \A k \in 1 .. q - 1 : queue'[k] = queue[k + 1]
  <2>1. queue # <<>> /\ queue' = Tail(queue)
    BY <1>2, <1>3, <1>5, TailIsSubSeq
  <2>. QED BY <1>5, <2>1, HeadTailProperties
<1>7. /\ out' \in Seq(Msg) /\ Len(out') = n + 1 /\ out'[n + 1] = held
      /\ \A k \in 1 .. n : out'[k] = out[k]
  BY <1>3, <1>5
<1>8. held = reserved[n + 1]
  BY <1>2, <1>3 DEF OrderInv, Line
<1>9. MessageTypes'
  BY <1>3, <1>4, <1>6, <1>7 DEF OrderInv, MessageTypes
<1>10. Line'
  <2>1. Len(reserved') = Len(out') + Len(queue')
    BY <1>4, <1>5, <1>6, <1>7
  <2>2. \A k \in 1 .. Len(out') : out'[k] = reserved'[k]
    BY <1>4, <1>5, <1>7, <1>8 DEF OrderInv, Line
  <2>3. ASSUME NEW k \in 1 .. Len(queue')
        PROVE  \/ queue'[k].msg = reserved'[Len(out') + k]
               \/ queue'[k].msg = 0 /\ queue'[k].st = "busy"
    <3>1. k \in 1 .. q - 1 /\ k + 1 \in 1 .. q /\ Len(out') + k = n + (k + 1)
      BY <1>5, <1>6, <1>7
    <3>. QED BY <1>4, <1>6, <3>1 DEF OrderInv, Line
  <2>. QED BY <2>1, <2>2, <2>3 DEF Line
<1>11. Blocks'
  <2>1. ASSUME NEW p \in Producers, Writes(p)
        PROVE  ticket[p] \in n + 2 .. r /\ queue'[ticket[p] - (n + 1)].st = "busy"
    <3>1. ticket[p] \in n + 1 .. r /\ queue[ticket[p] - n].st = "busy"
      BY <2>1 DEF OrderInv, Blocks
    <3>2. ticket[p] # n + 1
      BY <1>2, <1>5, <3>1
    <3>3. /\ ticket[p] \in n + 2 .. r /\ ticket[p] - (n + 1) \in 1 .. q - 1
          /\ (ticket[p] - (n + 1)) + 1 = ticket[p] - n
      BY <1>5, <3>1, <3>2
    <3>. QED BY <1>6, <3>1, <3>3
  <2>2. \A p \in Producers : Writes(p)' <=> Writes(p)
    BY <1>4 DEF Writes
  <2>3. (n + 1) + 1 = n + 2
    BY <1>5
  <2>4. ASSUME NEW p \in Producers, Writes(p)'
        PROVE  /\ ticket'[p] \in Len(out') + 1 .. Len(reserved')
               /\ reserved'[ticket'[p]] = pmsg'[p]
               /\ queue'[ticket'[p] - Len(out')].st = "busy"
    BY <1>4, <1>7, <2>1, <2>2, <2>3, <2>4 DEF OrderInv, Blocks
  <2>5. \A a, b \in Producers :
          Writes(a)' /\ Writes(b)' /\ ticket'[a] = ticket'[b] => a = b
    BY <1>4, <2>2 DEF OrderInv, Blocks
  <2>. QED BY <2>4, <2>5 DEF Blocks
<1>12. Reader'
  <2>1. Alive(t)
    BY <1>4 DEF Alive
  <2>2. \A u \in Threads : wpc'[u] \notin {"call", "free"}
    BY <1>4, <2>1, OneWorker DEF IInv, Places
  <2>. QED BY <1>3, <2>2 DEF Reader
<1>13. Calls'
  <2>1. ASSUME NEW k \in 1 .. Len(called) PROVE \E j \in DOMAIN out' : out'[j] = called[k]
    <3>1. CASE Handled(called[k])
      <4>1. PICK j \in DOMAIN out : out[j] = called[k]
        BY <3>1 DEF Handled
      <4>2. j \in 1 .. n /\ j \in DOMAIN out'
        BY <1>5, <1>7
      <4>. QED BY <1>7, <4>1, <4>2
    <3>2. CASE called[k] = held
      BY SMTT(30), <1>5, <1>7, <3>2
    <3>. QED BY <3>1, <3>2 DEF OrderInv, Calls
  <2>2. called' = called /\ reserved' = reserved
    BY <1>4
  <2>3. \A k \in 1 .. Len(called') : \E j \in DOMAIN out' : out'[j] = called'[k]
    BY <1>4, <2>1
  <2>4. \A k \in 2 .. Len(called') : \E a, b \in 1 .. Len(reserved') :
          a < b /\ reserved'[a] = called'[k - 1] /\ reserved'[b] = called'[k]
    BY <2>2 DEF OrderInv, Calls
  <2>. QED BY <2>3, <2>4 DEF Calls, Handled
<1>. QED BY <1>9, <1>10, <1>11, <1>12, <1>13 DEF OrderInv

(* Every step keeps the order, given that there is one worker.             *)
LEMMA OrderStep == OrderInv /\ IInv /\ [Next]_vars => OrderInv'
<1>. SUFFICES ASSUME OrderInv, IInv, [Next]_vars PROVE OrderInv'
  OBVIOUS
<1>1. ASSUME NEW p \in Producers, PushBegin(p) \/ PushStep(p) \/ PushFull(p)
      PROVE  OrderInv'
  BY <1>1, PushOrder, ReserveOrder, WriteOrder, CommitOrder DEF PushStep
<1>2. ASSUME NEW t \in Threads, WorkTop(t) \/ WorkWait(t) \/ WorkNothing(t)
      PROVE  OrderInv'
  <2>1. /\ UNCHANGED <<queue, held, out, reserved, called, issued, pmsg, ticket, ppc>>
        /\ wpc[t] \in {"top", "wait", "peek"}
        /\ wpc' = [wpc EXCEPT ![t] = wpc'[t]] /\ wpc'[t] \in {"exit", "wait", "peek", "top"}
    BY <1>2 DEF WorkTop, WorkWait, WorkNothing, Goes, rbVars, pushVars, histVars,
                IInv, Places
  <2>2. \A u \in Threads : /\ wpc'[u] \in {"call", "free"} => wpc'[u] = wpc[u]
                           /\ wpc[u] = "free" => wpc'[u] = "free"
    BY <2>1 DEF IInv, Places
  <2>. QED BY <2>1, <2>2, QuietOrder DEF OrderInv, MessageTypes
<1>3. CASE SetCallback \/ StopBegin \/ StopStep \/ UNCHANGED vars
  <2>1. UNCHANGED <<queue, held, out, reserved, called, issued, pmsg, ticket, ppc, wpc>>
    BY <1>3 DEF SetCallback, StopBegin, StopStep, StopSignal, StopCheck, StopJoin,
                StopReset, vars, rbVars, pushVars, histVars
  <2>. QED BY <2>1, QuietOrder DEF OrderInv, MessageTypes
<1>. QED BY <1>1, <1>2, <1>3, PeekOrder, CallOrder, FreeOrder DEF Next, Work

(* The order says what the property does.                                  *)
LEMMA OrderIsHandled == OrderInv => HandledInOrder
<1>. SUFFICES ASSUME OrderInv PROVE HandledInOrder
  OBVIOUS
<1>1. /\ Len(out) \in Nat /\ Len(queue) \in Nat /\ Len(reserved) = Len(out) + Len(queue)
      /\ DOMAIN out = 1 .. Len(out) /\ DOMAIN called = 1 .. Len(called)
      /\ DOMAIN reserved = 1 .. Len(reserved) /\ Len(called) \in Nat
  BY DEF OrderInv, MessageTypes, Line
<1>2. Len(out) <= Len(reserved) /\ \A i \in DOMAIN out : out[i] = reserved[i]
  BY <1>1 DEF OrderInv, Line
<1>3. held # 0 => Len(out) < Len(reserved) /\ reserved[Len(out) + 1] = held
  BY <1>1 DEF OrderInv, Reader, Line
<1>4. ASSUME NEW i \in DOMAIN called
      PROVE  /\ Handled(called[i]) \/ called[i] = held
             /\ i > 1 => \E j, k \in DOMAIN reserved :
                  j < k /\ reserved[j] = called[i - 1] /\ reserved[k] = called[i]
  <2>1. i \in 1 .. Len(called) /\ (i > 1 => i \in 2 .. Len(called))
    BY <1>1
  <2>. QED BY <1>1, <2>1 DEF OrderInv, Calls
<1>. QED BY <1>2, <1>3, <1>4 DEF HandledInOrder

(* For any number of producers, messages, workers and any capacity,        *)
(* however stop and push race, messages are handled once each in the order *)
(* their blocks were reserved, and _f sees them in that order              *)
(* (threaded_handler.hpp:34-109).                                          *)
THEOREM InOrder == Spec => []HandledInOrder
<1>. QED BY IInvInit, IInvStep, OrderInit, OrderStep, OrderIsHandled, PTL DEF Spec

(* What a producer that has reserved a block finds in it, and who holds the*)
(* message that is out.                                                    *)
Content(p) == IF ppc[p] = "write" THEN 0 ELSE pmsg[p]
Using ==
  /\ \A p \in Producers : Writes(p) => queue[ticket[p] - Len(out)].msg = Content(p)
  /\ held # 0 => \E t \in Threads : wpc[t] \in {"call", "free"}

(* A step that leaves the buffer, the writers and the readers alone.       *)
LEMMA QuietUsing ==
  ASSUME Using, UNCHANGED <<queue, held, out>>,
         \A p \in Producers : Writes(p)' =>
           Writes(p) /\ ppc'[p] = ppc[p] /\ ticket'[p] = ticket[p] /\ pmsg'[p] = pmsg[p],
         \A t \in Threads : wpc[t] \in {"call", "free"} => wpc'[t] \in {"call", "free"}
  PROVE  Using'
  BY DEF Using, Content

(* A producer's step to the next place, or back to the first.              *)
LEMMA PushUsing ==
  ASSUME OrderInv, IInv, Using, NEW p \in Producers,
         PushBegin(p) \/ PushStep(p) \/ PushFull(p)
  PROVE  Using'
<1>. DEFINE n == Len(out)
<1>0. /\ queue \in Seq(Slot) /\ Len(queue) \in Nat /\ n \in Nat
      /\ Len(reserved) = n + Len(queue)
      /\ \A q \in Producers : Writes(q) => ticket[q] - n \in 1 .. Len(queue)
  BY DEF OrderInv, MessageTypes, Line, Blocks
<1>a. DOMAIN ppc = Producers /\ DOMAIN ticket = Producers /\ DOMAIN pmsg = Producers
  BY DEF IInv, Places, OrderInv, MessageTypes
<1>1. CASE PushBegin(p) \/ PushStatus(p) \/ PushLock(p) \/ PushFull(p) \/ PushSignal(p)
  <2>1. /\ UNCHANGED <<queue, held, out, wpc>>
        /\ \A q \in Producers : q # p =>
             ppc'[q] = ppc[q] /\ ticket'[q] = ticket[q] /\ pmsg'[q] = pmsg[q]
        /\ ~Writes(p)'
    BY <1>1, <1>a DEF PushBegin, PushStatus, PushLock, PushFull, PushSignal, GoTo,
                      rbVars, Writes
  <2>. QED BY <2>1, QuietUsing DEF Writes
<1>2. CASE PushSpawn(p)
  <2>1. /\ UNCHANGED <<queue, held, out, ticket, pmsg>>
        /\ \A q \in Producers : q # p => ppc'[q] = ppc[q]
        /\ ~Writes(p)'
        /\ \A t \in Threads : wpc[t] # "unborn" => wpc'[t] = wpc[t]
    BY <1>2, <1>a DEF PushSpawn, GoTo, rbVars, Writes
  <2>. QED BY <2>1, QuietUsing DEF Writes
<1>3. CASE PushReserve(p)
  <2>1. /\ queue' = Append(queue, [st |-> "busy", msg |-> 0])
        /\ ticket' = [ticket EXCEPT ![p] = Len(reserved) + 1]
        /\ ppc' = [ppc EXCEPT ![p] = "write"] /\ UNCHANGED <<held, out, pmsg, wpc>>
    BY <1>3 DEF PushReserve, Rb!Reserve, GoTo
  <2>2. /\ queue'[Len(queue) + 1].msg = 0
        /\ \A i \in 1 .. Len(queue) : queue'[i] = queue[i]
    BY <1>0, <2>1
  <2>3. ticket'[p] - n = Len(queue) + 1 /\ ppc'[p] = "write"
    BY <1>0, <1>a, <2>1
  <2>4. ASSUME NEW q \in Producers, q # p, Writes(q)'
        PROVE  queue'[ticket'[q] - n].msg = Content(q)'
    <3>1. Writes(q) /\ ticket'[q] = ticket[q] /\ Content(q)' = Content(q)
      BY <1>a, <2>1, <2>4 DEF Writes, Content
    <3>2. ticket[q] - n \in 1 .. Len(queue)
      BY <1>0, <3>1
    <3>. QED BY <2>2, <3>1, <3>2 DEF Using
  <2>. QED BY <2>1, <2>2, <2>3, <2>4 DEF Using, Content
<1>4. CASE PushWrite(p)
  <2>1. PICK b \in 1 .. Len(queue) : b = ticket[p] - n
    BY <1>0, <1>4 DEF PushWrite, Writes
  <2>2. /\ queue' = [queue EXCEPT ![b].msg = pmsg[p]]
        /\ ppc[p] = "write" /\ ppc' = [ppc EXCEPT ![p] = "commit"]
        /\ UNCHANGED <<held, out, pmsg, wpc, ticket>>
    BY <1>4, <2>1 DEF PushWrite, Block, Rb!Write, GoTo
  <2>3. queue[b] \in Slot
    BY <1>0, ElementOfSeq
  <2>4. queue'[b].msg = pmsg[p] /\ \A i \in 1 .. Len(queue) : i # b => queue'[i] = queue[i]
    BY <1>0, <2>2, <2>3 DEF Slot
  <2>5. ASSUME NEW q \in Producers, q # p, Writes(q)'
        PROVE  queue'[ticket'[q] - n].msg = Content(q)'
    <3>1. Writes(q) /\ Writes(p) /\ ticket'[q] = ticket[q] /\ Content(q)' = Content(q)
      BY <1>a, <2>2, <2>5 DEF Writes, Content
    <3>2. ticket[q] # ticket[p] /\ ticket[q] \in Int /\ ticket[p] \in Int
      BY <2>5, <3>1 DEF OrderInv, Blocks, MessageTypes
    <3>3. ticket[q] - n \in 1 .. Len(queue) /\ ticket[q] - n # b
      BY <1>0, <2>1, <3>1, <3>2
    <3>. QED BY <2>4, <3>1, <3>3 DEF Using
  <2>6. ppc'[p] = "commit"
    BY <1>a, <2>2
  <2>. QED BY <2>1, <2>2, <2>4, <2>5, <2>6 DEF Using, Content
<1>5. CASE PushCommit(p)
  <2>1. PICK b \in 1 .. Len(queue) : b = ticket[p] - n
    BY <1>0, <1>5 DEF PushCommit, Writes
  <2>2. /\ queue' = [queue EXCEPT ![b].st = "commited", ![b].msg = queue[b].msg]
        /\ ppc' = [ppc EXCEPT ![p] = "signal"]
        /\ UNCHANGED <<held, out, pmsg, wpc, ticket>>
    BY <1>5, <2>1 DEF PushCommit, Block, Rb!Resolve, GoTo
  <2>3. queue[b] \in Slot
    BY <1>0, ElementOfSeq
  <2>4. \A i \in 1 .. Len(queue) : queue'[i].msg = queue[i].msg
    BY <1>0, <2>2, <2>3 DEF Slot
  <2>5. ASSUME NEW q \in Producers, Writes(q)'
        PROVE  queue'[ticket'[q] - n].msg = Content(q)'
    <3>1. Writes(q) /\ ticket'[q] = ticket[q] /\ Content(q)' = Content(q)
      BY <1>a, <2>2, <2>5 DEF Writes, Content
    <3>2. ticket[q] - n \in 1 .. Len(queue)
      BY <1>0, <3>1
    <3>. QED BY <2>4, <3>1, <3>2 DEF Using
  <2>. QED BY <2>2, <2>5 DEF Using
<1>. QED BY <1>1, <1>2, <1>3, <1>4, <1>5 DEF PushStep

(* A worker's step: peek takes the first message, free lets it go.         *)
LEMMA WorkUsing ==
  ASSUME OrderInv, IInv, Using, NEW t \in Threads, Work(t)
  PROVE  Using'
<1>a. DOMAIN wpc = Threads
  BY DEF IInv, Places
<1>1. CASE WorkTop(t) \/ WorkWait(t) \/ WorkNothing(t) \/ WorkCall(t)
  <2>1. /\ UNCHANGED <<queue, held, out, ppc, ticket, pmsg>>
        /\ \A u \in Threads : wpc[u] \in {"call", "free"} => wpc'[u] \in {"call", "free"}
    BY <1>1, <1>a DEF WorkTop, WorkWait, WorkNothing, WorkCall, Goes, rbVars, pushVars
  <2>. QED BY <2>1, QuietUsing DEF Writes
<1>2. CASE WorkPeek(t)
  <2>1. UNCHANGED <<queue, out, ppc, ticket, pmsg>> /\ wpc'[t] = "call"
    BY <1>2, <1>a DEF WorkPeek, Rb!Peek, Goes, pushVars
  <2>. QED BY <2>1 DEF Using, Content, Writes
<1>3. CASE WorkFree(t)
  <2>. DEFINE n == Len(out)
              q == Len(queue)
  <2>1. PICK i \in DOMAIN queue : Rb!Free(i)
    BY <1>3 DEF WorkFree
  <2>2. i = 1 /\ queue[1].st = "commited" /\ 1 \in 1 .. q
    BY <2>1, FirstIsFirst DEF Rb!Free
  <2>3. /\ queue' = SubSeq(queue, 2, q) /\ out' = Append(out, held) /\ held' = 0
        /\ UNCHANGED <<ppc, ticket, pmsg>> /\ held # 0
    BY <1>3, <2>1, <2>2 DEF Rb!Free, Rb!Rest, WorkFree, pushVars
  <2>4. /\ n \in Nat /\ q \in Nat /\ Len(reserved) = n + q
        /\ queue \in Seq(Slot) /\ out \in Seq(Msg) /\ held \in Msg
    BY <2>3 DEF OrderInv, MessageTypes, Line
  <2>5. Len(out') = n + 1 /\ \A k \in 1 .. q - 1 : queue'[k] = queue[k + 1]
    BY <2>2, <2>3, <2>4
  <2>6. ASSUME NEW p \in Producers, Writes(p)'
        PROVE  queue'[ticket'[p] - Len(out')].msg = Content(p)'
    <3>1. Writes(p) /\ ticket'[p] = ticket[p] /\ Content(p)' = Content(p)
      BY <2>3, <2>6 DEF Writes, Content
    <3>2. ticket[p] \in n + 1 .. n + q /\ queue[ticket[p] - n].st = "busy"
      BY <2>4, <3>1 DEF OrderInv, Blocks
    <3>3. ticket[p] # n + 1
      BY <2>2, <2>4, <3>2
    <3>4. /\ ticket[p] - (n + 1) \in 1 .. q - 1
          /\ (ticket[p] - (n + 1)) + 1 = ticket[p] - n
      BY <2>4, <3>2, <3>3
    <3>5. queue'[ticket[p] - (n + 1)] = queue[ticket[p] - n]
      BY <2>5, <3>4
    <3>. QED BY <2>5, <3>1, <3>5 DEF Using
  <2>. QED BY <2>3, <2>6 DEF Using
<1>. QED BY <1>1, <1>2, <1>3 DEF Work

(* Every step keeps it, given the order and that there is one worker.      *)
LEMMA UsingStep == Using /\ OrderInv /\ IInv /\ [Next]_vars => Using'
<1>. SUFFICES ASSUME Using, OrderInv, IInv, [Next]_vars PROVE Using'
  OBVIOUS
<1>1. CASE SetCallback \/ StopBegin \/ StopStep \/ UNCHANGED vars
  <2>1. UNCHANGED <<queue, held, out, ppc, pmsg, ticket, wpc>>
    BY <1>1 DEF SetCallback, StopBegin, StopStep, StopSignal, StopCheck, StopJoin,
                StopReset, vars, rbVars, pushVars
  <2>. QED BY <2>1, QuietUsing DEF Writes
<1>. QED BY <1>1, PushUsing, WorkUsing DEF Next

(* The invariants say what the property does.                              *)
LEMMA UsingIsUsed == Using /\ OrderInv /\ IInv => BufferUsed
<1>. SUFFICES ASSUME Using, OrderInv, IInv PROVE BufferUsed
  OBVIOUS
<1>0. /\ queue \in Seq(Slot) /\ Len(queue) \in Nat /\ Len(out) \in Nat
      /\ DOMAIN queue = 1 .. Len(queue) /\ Len(reserved) = Len(out) + Len(queue)
  BY DEF OrderInv, MessageTypes, Line
<1>1. ASSUME NEW p \in Producers, Writes(p)
      PROVE  /\ Block(p) \in DOMAIN queue
             /\ queue[Block(p)] = [st |-> "busy", msg |-> Content(p)]
  <2>1. Block(p) \in 1 .. Len(queue) /\ queue[Block(p)].st = "busy"
    BY <1>0, <1>1 DEF OrderInv, Blocks, Block
  <2>2. queue[Block(p)] \in Slot
    BY <1>0, <2>1, ElementOfSeq
  <2>3. queue[Block(p)].msg = Content(p)
    BY <1>1 DEF Using, Block
  <2>. QED BY <1>0, <2>1, <2>2, <2>3 DEF Slot
<1>2. ASSUME NEW t \in Threads, wpc[t] = "peek" PROVE held = 0
  <2>1. \A u \in Threads : wpc[u] \notin {"call", "free"}
    BY <1>2, OneWorker DEF IInv, Alive
  <2>. QED BY <2>1 DEF Using
<1>3. ASSUME NEW t \in Threads, wpc[t] \in {"call", "free"}
      PROVE  \E i \in DOMAIN queue : Rb!IsFirst(i) /\ queue[i].msg = held
  <2>1. 1 \in DOMAIN queue /\ queue[1].st = "commited" /\ queue[1].msg = held
    BY <1>0, <1>3 DEF OrderInv, Reader
  <2>2. Rb!IsFirst(1)
    BY <2>1 DEF Rb!IsFirst
  <2>. QED BY <2>1, <2>2
<1>. QED BY <1>1, <1>2, <1>3 DEF BufferUsed, Writes, Content

(* For any number of producers, messages, workers and any capacity: the    *)
(* handler calls its ring buffer only where the buffer promises something, *)
(* which RingBuffer takes for granted of its callers and no code checks    *)
(* (threaded_handler.hpp:37, 49 and 79).                                   *)
THEOREM BufferIsUsedRight == Spec => []BufferUsed
<1>1. Init => Using
  BY HandlerConstants DEF Init, Rb!Init, Using, Writes
<1>. QED
  BY <1>1, IInvInit, IInvStep, OrderInit, OrderStep, UsingStep, UsingIsUsed, PTL DEF Spec

-----------------------------------------------------------------------------
(* The event. *)

(* Places, and who holds the mutex.                                        *)
WaitInv ==
  /\ flag \in BOOLEAN
  /\ mutex \in Waiters \cup {NoWaiter}
  /\ waiterPc \in [Waiters ->
               {"out", "lock", "test", "tested", "blocked", "relock", "last"}]
  /\ \A w \in Waiters : mutex = w <=> waiterPc[w] \in {"test", "tested", "last"}

(* Nobody has the mutex at first.                                          *)
LEMMA WaitInvInit == WaitInit => WaitInv
  BY WaitConstants DEF WaitInit, WaitInv

(* Only who is between lock and unlock has it.                             *)
LEMMA WaitInvStep == WaitInv /\ [WaitNext]_waitVars => WaitInv'
<1>. SUFFICES ASSUME WaitInv, [WaitNext]_waitVars PROVE WaitInv'
  OBVIOUS
<1>. USE WaitConstants DEF WaitInv
<1>1. ASSUME NEW w \in Waiters, NEW t \in Timeouts, Enter(w, t) PROVE WaitInv'
  BY <1>1 DEF Enter
<1>2. ASSUME NEW w \in Waiters, Lock(w) PROVE WaitInv'
  BY <1>2 DEF Lock
<1>3. ASSUME NEW w \in Waiters, TestTrue(w) \/ LastFalse(w) PROVE WaitInv'
  BY <1>3 DEF TestTrue, LastFalse, Return, FlagAfterTest
<1>4. ASSUME NEW w \in Waiters, TestFalse(w) \/ BlockWaiter(w) PROVE WaitInv'
  BY <1>4 DEF TestFalse, BlockWaiter
<1>5. ASSUME NEW w \in Waiters, WakeLate(w) \/ WakeSpuriously(w) \/ Expire(w)
      PROVE WaitInv'
  BY <1>5 DEF WakeLate, WakeSpuriously, Expire
<1>6. ASSUME NEW t \in Setters, Clear(t) \/ NotifyOne(t) PROVE WaitInv'
  BY <1>6 DEF Clear, NotifyOne
<1>7. CASE UNCHANGED waitVars
  BY <1>7 DEF waitVars
<1>. QED BY <1>1, <1>2, <1>3, <1>4, <1>5, <1>6, <1>7 DEF WaitNext, WaitStep

(* The event is made without a signal.                                     *)
LEMMA EventInit == WaitInit => AutoReset!Init
  BY DEF WaitInit, AutoReset!Init, InWait

(* Entering, the test that succeeds, the last one that fails and the       *)
(* assignment of set are steps of the event, and nothing else is.          *)
LEMMA EventStep ==
  WaitInv /\ [WaitNext]_waitVars => [AutoReset!Next]_(AutoReset!vars)
<1>. SUFFICES ASSUME WaitInv, [WaitNext]_waitVars
              PROVE  AutoReset!Next \/ UNCHANGED AutoReset!vars
  OBVIOUS
<1>. USE DEF WaitInv, InWait
<1>1. ASSUME NEW w \in Waiters, NEW t \in Timeouts, Enter(w, t)
      PROVE  AutoReset!Enter(w)
  BY <1>1 DEF Enter, AutoReset!Enter
<1>2. ASSUME NEW w \in Waiters, TestTrue(w) PROVE AutoReset!Take(w)
  BY <1>2 DEF TestTrue, Return, FlagAfterTest, AutoReset!Take
<1>3. ASSUME NEW w \in Waiters, LastFalse(w) PROVE AutoReset!GiveUp(w)
  BY <1>3 DEF LastFalse, Return, AutoReset!GiveUp
<1>4. ASSUME NEW t \in Setters, Clear(t) PROVE AutoReset!Set
  BY <1>4 DEF Clear, AutoReset!Set
<1>5. ASSUME NEW w \in Waiters,
             \/ Lock(w) \/ TestFalse(w) \/ BlockWaiter(w)
             \/ WakeLate(w) \/ WakeSpuriously(w) \/ Expire(w)
      PROVE  UNCHANGED AutoReset!vars
  BY <1>5 DEF Lock, TestFalse, BlockWaiter, WakeLate, WakeSpuriously, Expire,
              AutoReset!vars
<1>6. ASSUME NEW t \in Setters, NotifyOne(t) PROVE UNCHANGED AutoReset!vars
  BY <1>6 DEF NotifyOne, AutoReset!vars
<1>7. CASE UNCHANGED waitVars
  BY <1>7 DEF waitVars, AutoReset!vars
<1>. QED
  BY <1>1, <1>2, <1>3, <1>4, <1>5, <1>6, <1>7 DEF WaitNext, WaitStep, AutoReset!Next

(* A wait that returns true takes a signal, one that returns false saw     *)
(* none, and set signals, whatever notifications are lost and threads      *)
(* woken (wait_for_single_object.hpp:18-28).                               *)
THEOREM WaitImplementsEvent == WaitSpec => ImplementsEvent
<1>. QED BY WaitInvInit, WaitInvStep, EventInit, EventStep, PTL
         DEF WaitSpec, ImplementsEvent, AutoReset!Spec

-----------------------------------------------------------------------------
(* The Linux server. *)

(* A worker that was joined, or not started.                               *)
Gone(v) == ~thread[v] /\ lproc[v] = "none"

LinuxTypes ==
  /\ lix \in Ix /\ fd \in BOOLEAN
  /\ lmain \in {"idle", "run", "threads", "store", "stop", "join"}
  /\ lnext \in {"idle", "run"}
  /\ lproc \in [Ix -> {"none", "new", "setup", "accepted", "deaf", "loop",
                       "done", "failed", "null thread"}]
  /\ thread \in [Ix -> BOOLEAN] /\ lbreak \in [Ix -> BOOLEAN] /\ base \in [Ix -> BOOLEAN]

(* Threads are stored and joined in order, all of them or none.            *)
LinuxPhases ==
  /\ lmain = "idle" => (\A v \in Ix : thread[v]) \/ \A v \in Ix : Gone(v)
  /\ lmain = "run" => lix = 0 /\ \A v \in Ix : Gone(v)
  /\ lmain = "threads" =>
       \A v \in Ix : (v < lix => thread[v]) /\ (v >= lix => Gone(v))
  /\ lmain = "store" =>
       \A v \in Ix : (v < lix => thread[v]) /\ (v > lix => Gone(v))
  /\ lmain \in {"stop", "join"} =>
       /\ \A v \in Ix : v < lix => Gone(v)
       /\ \/ \A v \in Ix : v >= lix => thread[v]
          \/ \A v \in Ix : Gone(v)

(* A loop is asked to break by stop only.                                  *)
LinuxBreaks ==
  lmain \notin {"stop", "join"} =>
    \A v \in Ix : lproc[v] \in {"setup", "accepted", "loop"} => ~lbreak[v]

(* A worker that failed with the socket in its hands is still to be joined.*)
SomeFailed == \E v \in Ix : lproc[v] = "failed"

(* The socket is closed while no worker is there, by one that failed, or by*)
(* one that stop has made end or joined already.                           *)
LinuxSocket ==
  ~fd => \/ SomeFailed
         \/ lmain \notin {"threads", "store"} /\ \A v \in Ix : Gone(v)
         \/ lmain \in {"stop", "join"} /\
              (lix # 0 \/ \E v \in Ix : lbreak[v] /\ lproc[v] = "done")

LinuxInv == LinuxTypes /\ LinuxPhases /\ LinuxBreaks /\ LinuxSocket

(* The workers are numbered from 0 without a gap.                          *)
LEMMA Indices ==
  /\ 0 \in Ix
  /\ \A v \in Ix : v \in Nat
  /\ \A v, w \in Ix : v < w => v + 1 \in Ix
  BY LinuxAssumption DEF Ix

(* The server is made with nothing started.                                *)
LEMMA LinuxInvInit == LinuxInit => LinuxInv
  BY Indices DEF LinuxInit, LinuxInv, LinuxTypes, LinuxPhases, LinuxBreaks, LinuxSocket, Gone

(* A worker's own step changes its place and its loop only, and closes the *)
(* socket when the loop breaks or fails.                                   *)
LEMMA LinuxWorkerStep ==
  ASSUME LinuxInv, NEW w \in Ix, LinuxWorker(w) \/ LinuxFailure(w) \/ ProcessRequest(w)
  PROVE  LinuxInv'
<1>. USE DEF LinuxInv, LinuxTypes, Gone, LinuxGoes, Returns, SomeFailed
<1>1. CASE NewBase(w)
  <2>1. LinuxTypes' BY <1>1 DEF NewBase
  <2>2. LinuxPhases' BY <1>1 DEF NewBase, LinuxPhases
  <2>3. LinuxBreaks' BY <1>1 DEF NewBase, LinuxBreaks, LinuxPhases
  <2>4. LinuxSocket' BY <1>1 DEF NewBase, LinuxSocket
  <2>. QED BY <2>1, <2>2, <2>3, <2>4
<1>2. CASE AcceptSocket(w)
  <2>1. LinuxTypes' BY <1>2 DEF AcceptSocket
  <2>2. LinuxPhases' BY <1>2 DEF AcceptSocket, LinuxPhases
  <2>3. LinuxBreaks' BY <1>2 DEF AcceptSocket, LinuxBreaks
  <2>4. LinuxSocket' BY <1>2 DEF AcceptSocket, LinuxSocket
  <2>. QED BY <2>1, <2>2, <2>3, <2>4
<1>3. CASE Dispatch(w)
  <2>1. LinuxTypes' BY <1>3 DEF Dispatch
  <2>2. LinuxPhases' BY <1>3 DEF Dispatch, LinuxPhases
  <2>3. LinuxBreaks' BY <1>3 DEF Dispatch, LinuxBreaks, LinuxPhases
  <2>4. LinuxSocket' BY <1>3 DEF Dispatch, LinuxSocket
  <2>. QED BY <2>1, <2>2, <2>3, <2>4
<1>4. CASE LoopEnds(w)
  <2>1. LinuxTypes' BY <1>4 DEF LoopEnds
  <2>2. lmain \in {"stop", "join"} BY <1>4 DEF LoopEnds, LinuxBreaks
  <2>3. LinuxPhases' BY <1>4, <2>2 DEF LoopEnds, LinuxPhases
  <2>4. LinuxBreaks' BY <1>4, <2>2 DEF LoopEnds, LinuxBreaks
  <2>5. LinuxSocket' BY <1>4, <2>2 DEF LoopEnds, LinuxSocket
  <2>. QED BY <2>1, <2>3, <2>4, <2>5
<1>5. CASE DispatchDeaf(w) \/ DispatchFails(w) \/ LzoFails(w)
  <2>1. LinuxTypes' BY <1>5 DEF DispatchDeaf, DispatchFails, LzoFails
  <2>2. /\ UNCHANGED <<lmain, lix, thread, lbreak>>
        /\ lproc[w] \in {"accepted", "deaf", "loop"}
        /\ lproc' = [lproc EXCEPT ![w] = "failed"]
    BY <1>5 DEF DispatchDeaf, DispatchFails, LzoFails
  <2>3. LinuxPhases' BY <2>2 DEF LinuxPhases
  <2>4. LinuxBreaks' BY <2>2 DEF LinuxBreaks
  <2>5. LinuxSocket' BY <2>2 DEF LinuxSocket
  <2>. QED BY <2>1, <2>3, <2>4, <2>5
<1>6. CASE SetupFails(w)
  <2>1. LinuxTypes' BY <1>6 DEF SetupFails
  <2>2. LinuxPhases' BY <1>6 DEF SetupFails, LinuxPhases
  <2>3. LinuxBreaks' BY <1>6 DEF SetupFails, LinuxBreaks, LinuxPhases
  <2>4. LinuxSocket' BY <1>6 DEF SetupFails, LinuxSocket
  <2>. QED BY <2>1, <2>2, <2>3, <2>4
<1>7. CASE ProcessRequest(w)
  <2>1. /\ lproc' \in [Ix -> {"none", "new", "setup", "accepted", "deaf", "loop",
                              "done", "failed", "null thread"}]
        /\ UNCHANGED <<base, lbreak, thread, lmain, lix, lnext, fd>>
        /\ lproc[w] = "loop"
        /\ lproc' = lproc \/ lproc' = [lproc EXCEPT ![w] = "null thread"]
    BY <1>7 DEF ProcessRequest
  <2>2. LinuxTypes' BY <2>1
  <2>3. LinuxPhases' BY <2>1 DEF LinuxPhases
  <2>4. LinuxBreaks' BY <2>1 DEF LinuxBreaks
  <2>5. LinuxSocket' BY <2>1 DEF LinuxSocket
  <2>. QED BY <2>2, <2>3, <2>4, <2>5
<1>. QED
  BY <1>1, <1>2, <1>3, <1>4, <1>5, <1>6, <1>7 DEF LinuxWorker, LinuxFailure

(* A step of the owner goes to the next worker, or on to the next phase.   *)
LEMMA LinuxOwnerStep ==
  ASSUME LinuxInv, LinuxOwner \/ RunBegin \/ LinuxStopBegin
  PROVE  LinuxInv'
<1>. USE DEF LinuxInv
<1>a. lix \in Ix BY DEF LinuxTypes
<1>0. /\ 0 \in Ix /\ lix \in Int
      /\ \A v \in Ix : v \in Int /\ v >= 0
  BY <1>a, Indices
<1>1. CASE RunBegin \/ LinuxStopBegin
  <2>1. LinuxTypes' BY <1>0, <1>1 DEF LinuxTypes, RunBegin, LinuxStopBegin
  <2>2. lmain = "idle" /\ lix' = 0 /\ lmain' = "stop" /\ UNCHANGED <<thread, lproc, fd>>
    BY <1>1 DEF RunBegin, LinuxStopBegin
  <2>3. \A v \in Ix : Gone(v)' = Gone(v) BY <2>2 DEF Gone
  <2>4. LinuxPhases' BY <1>0, <2>2, <2>3 DEF LinuxPhases
  <2>5. LinuxBreaks'
    BY <1>1 DEF RunBegin, LinuxStopBegin, LinuxTypes, LinuxBreaks, LinuxPhases, Gone
  <2>6. LinuxSocket' BY <2>2, <2>3 DEF LinuxSocket, SomeFailed
  <2>. QED BY <2>1, <2>4, <2>5, <2>6
<1>2. ASSUME NEW ok \in BOOLEAN, Listen(ok) PROVE LinuxInv'
  <2>1. LinuxTypes' BY <1>2 DEF LinuxTypes, Listen
  <2>2. lmain = "run" /\ fd' = ok /\ UNCHANGED <<thread, lproc, lix>>
    BY <1>2 DEF Listen
  <2>3. lix' = 0 /\ \A v \in Ix : Gone(v)' BY <2>2 DEF Gone, LinuxPhases
  <2>4. lmain' = IF ok THEN "threads" ELSE "idle" BY <1>2 DEF Listen
  <2>5. LinuxPhases'
    <3>1. CASE ok BY <1>0, <2>2, <2>3, <2>4, <3>1 DEF LinuxPhases
    <3>2. CASE ~ok BY <1>0, <2>2, <2>3, <2>4, <3>2 DEF LinuxPhases
    <3>. QED BY <3>1, <3>2
  <2>6. LinuxBreaks' BY <1>2 DEF LinuxTypes, Listen, LinuxBreaks
  <2>7. LinuxSocket' BY <2>2, <2>3, <2>4 DEF LinuxSocket
  <2>. QED BY <2>1, <2>5, <2>6, <2>7
<1>3. CASE StartThread
  <2>1. LinuxTypes' BY <1>3 DEF LinuxTypes, StartThread
  <2>2. LinuxPhases'
    <3>1. /\ lmain = "threads" /\ lmain' = "store" /\ UNCHANGED <<thread, lix, fd>>
          /\ \A v \in Ix : v # lix => lproc'[v] = lproc[v]
      BY <1>3 DEF StartThread, LinuxTypes
    <3>2. \A v \in Ix : (v < lix => thread'[v]) /\ (v > lix => Gone(v)')
      BY <1>0, <3>1 DEF LinuxPhases, Gone
    <3>. QED BY <3>1, <3>2 DEF LinuxPhases
  <2>3. LinuxBreaks' BY <1>3 DEF StartThread, LinuxTypes, LinuxBreaks
  <2>4. LinuxSocket'
    <3>1. lmain = "threads" /\ UNCHANGED fd BY <1>3 DEF StartThread
    <3>2. CASE fd BY <3>1, <3>2 DEF LinuxSocket
    <3>3. CASE SomeFailed
      <4>1. PICK v \in Ix : lproc[v] = "failed" BY <3>3 DEF SomeFailed
      <4>2. Gone(lix) /\ v # lix
        BY <1>0, <1>a, <3>1, <4>1 DEF LinuxPhases, Gone
      <4>3. lproc'[v] = "failed" BY <1>3, <4>1, <4>2 DEF StartThread, LinuxTypes
      <4>. QED BY <4>3 DEF LinuxSocket, SomeFailed
    <3>. QED BY <3>1, <3>2, <3>3 DEF LinuxSocket
  <2>. QED BY <2>1, <2>2, <2>3, <2>4
<1>4. CASE StoreThread
  <2>1. LinuxTypes' BY <1>0, <1>4 DEF LinuxTypes, StoreThread
  <2>2. LinuxPhases'
    <3>1. /\ lmain = "store" /\ UNCHANGED <<fd, lproc>>
          /\ thread'[lix] /\ \A v \in Ix : v # lix => thread'[v] = thread[v]
      BY <1>4 DEF StoreThread, LinuxTypes
    <3>2. \A v \in Ix : (v <= lix => thread'[v]) /\ (v > lix => Gone(v)')
      BY <1>0, <3>1 DEF LinuxPhases, Gone
    <3>3. CASE lix + 1 \in Ix
      <4>1. lmain' = "threads" /\ lix' = lix + 1 BY <1>4, <3>3 DEF StoreThread
      <4>2. \A v \in Ix : (v < lix' => thread'[v]) /\ (v >= lix' => Gone(v)')
        BY <1>0, <3>2, <4>1
      <4>. QED BY <3>2, <4>1, <4>2 DEF LinuxPhases
    <3>4. CASE lix + 1 \notin Ix
      <4>1. lmain' = "idle" BY <1>4, <3>4 DEF StoreThread
      <4>2. \A v \in Ix : thread'[v] BY <1>a, <1>0, <3>2, <3>4, Indices
      <4>. QED BY <3>2, <4>1, <4>2 DEF LinuxPhases
    <3>. QED BY <3>3, <3>4
  <2>3. LinuxBreaks' BY <1>4 DEF StoreThread, LinuxTypes, LinuxBreaks
  <2>4. LinuxSocket' BY <1>4 DEF StoreThread, LinuxSocket, SomeFailed
  <2>. QED BY <2>1, <2>2, <2>3, <2>4
<1>5. CASE Break
  <2>1. LinuxTypes' BY <1>5 DEF LinuxTypes, Break
  <2>2. LinuxPhases' BY <1>5 DEF Break, LinuxPhases, Gone
  <2>3. LinuxBreaks' BY <1>5 DEF Break, LinuxTypes, LinuxBreaks, Gone
  <2>4. LinuxSocket' BY <1>5 DEF Break, LinuxTypes, LinuxSocket, SomeFailed, Gone
  <2>. QED BY <2>1, <2>2, <2>3, <2>4
<1>6. CASE LinuxJoin
  <2>1. LinuxTypes' BY <1>0, <1>6 DEF LinuxTypes, LinuxJoin
  <2>2. /\ lmain = "join"
        /\ \A v \in Ix : v # lix => thread'[v] = thread[v] /\ lproc'[v] = lproc[v]
    BY <1>6 DEF LinuxJoin, LinuxTypes
  <2>3. \A v \in Ix : Gone(v) => Gone(v)' BY <1>6 DEF LinuxJoin, LinuxTypes, Gone
  <2>4. \A v \in Ix : v <= lix => Gone(v)'
    <3>1. \A v \in Ix : v < lix => Gone(v)' BY <2>2, <2>3 DEF LinuxPhases
    <3>2. \A v \in Ix : v = lix => Gone(v)'
      BY <1>6 DEF LinuxJoin, LinuxTypes, Gone
    <3>. QED BY <1>0, <3>1, <3>2
  <2>5. CASE lix + 1 \in Ix
    <3>1. lmain' = "stop" /\ lix' = lix + 1 BY <1>6, <2>5 DEF LinuxJoin
    <3>2. \A v \in Ix : v < lix' => Gone(v)' BY <1>0, <2>4, <3>1
    <3>3. \/ \A v \in Ix : v >= lix' => thread'[v]
          \/ \A v \in Ix : Gone(v)'
      <4>1. CASE \A v \in Ix : v >= lix => thread[v]
        BY <1>0, <2>2, <3>1, <4>1
      <4>2. CASE \A v \in Ix : Gone(v) BY <2>3, <4>2
      <4>. QED BY <2>2, <4>1, <4>2 DEF LinuxPhases
    <3>4. LinuxPhases' BY <3>1, <3>2, <3>3 DEF LinuxPhases
    <3>5. lix' # 0 BY <1>a, <1>0, <3>1
    <3>6. LinuxBreaks' BY <3>1, <3>5 DEF LinuxBreaks
    <3>7. LinuxSocket' BY <3>1, <3>5 DEF LinuxSocket
    <3>. QED BY <2>1, <3>4, <3>6, <3>7
  <2>6. CASE lix + 1 \notin Ix
    <3>1. lmain' = lnext /\ lix' = 0 BY <1>6, <2>6 DEF LinuxJoin
    <3>2. \A v \in Ix : Gone(v)' BY <1>a, <1>0, <2>4, <2>6, Indices
    <3>3. LinuxPhases' BY <3>1, <3>2 DEF LinuxTypes, LinuxPhases
    <3>4. LinuxBreaks' BY <3>1, <3>2 DEF LinuxTypes, LinuxBreaks, Gone
    <3>5. LinuxSocket' BY <3>1, <3>2 DEF LinuxTypes, LinuxSocket
    <3>. QED BY <2>1, <3>3, <3>4, <3>5
  <2>. QED BY <2>5, <2>6
<1>. QED BY <1>1, <1>2, <1>3, <1>4, <1>5, <1>6 DEF LinuxOwner

(* Every step keeps the phases.                                            *)
LEMMA LinuxInvStep == LinuxInv /\ [LinuxNext]_linuxVars => LinuxInv'
<1>1. ASSUME LinuxInv, UNCHANGED linuxVars PROVE LinuxInv'
  BY <1>1 DEF linuxVars, LinuxInv, LinuxTypes, LinuxPhases, LinuxBreaks, LinuxSocket,
              SomeFailed, Gone
<1>. QED BY <1>1, LinuxWorkerStep, LinuxOwnerStep DEF LinuxNext

(* What the run checks follows from the phases and the breaks.             *)
LEMMA LinuxInvServes == LinuxInv => LinuxServed
<1>. SUFFICES ASSUME LinuxInv PROVE LinuxServed
  OBVIOUS
<1>. USE DEF LinuxInv
<1>a. lix \in Ix BY DEF LinuxTypes
<1>0. lix \in Int /\ 0 \in Ix /\ \A v \in Ix : v \in Int /\ v >= 0
  BY <1>a, Indices
<1>1. RequestFindsWorker
  <2>. SUFFICES ASSUME NEW w \in Ix, lproc[w] = "loop", ~Finds(w)
                PROVE  \/ lmain = "store" /\ lix = w
                       \/ lmain \in {"stop", "join"} /\ \E v \in 0 .. w - 1 : v < lix
    BY DEF RequestFindsWorker
  <2>1. PICK u \in 0 .. w : ~thread[u] BY DEF Finds
  <2>2. u \in Ix /\ u <= w /\ ~Gone(w) BY <2>1, LinuxAssumption DEF Ix, Gone
  <2>3. CASE lmain \in {"idle", "run", "threads"}
    BY <1>0, <2>1, <2>2, <2>3 DEF LinuxPhases
  <2>4. CASE lmain = "store"
    BY <1>0, <2>1, <2>2, <2>4 DEF LinuxPhases
  <2>5. CASE lmain \in {"stop", "join"}
    <3>1. u < lix /\ w >= lix BY <1>0, <2>1, <2>2, <2>5 DEF LinuxPhases
    <3>2. 0 \in 0 .. w - 1 /\ 0 < lix BY <1>0, <2>2, <3>1
    <3>. QED BY <2>5, <3>2
  <2>. QED BY <2>3, <2>4, <2>5 DEF LinuxTypes
<1>2. SocketServed
  <2>. SUFFICES ASSUME NEW w \in Ix, lproc[w] = "loop", ~fd, ~SomeFailed
                PROVE  /\ lmain \in {"stop", "join"}
                       /\ \E v \in Ix : v < lix \/ lbreak[v]
    BY DEF SocketServed, SomeFailed
  <2>1. /\ lmain \in {"stop", "join"}
        /\ lix # 0 \/ \E v \in Ix : lbreak[v]
    BY DEF LinuxSocket, Gone
  <2>2. lix # 0 => 0 < lix BY <1>a, <1>0
  <2>. QED BY <1>0, <2>1, <2>2
<1>. QED BY <1>1, <1>2 DEF LinuxServed

(* For every number of workers and runs of the server: a request finds its *)
(* worker (server_linux.hpp:91) but for the windows the property names, and*)
(* the socket closes under a running loop only while the owner stops the   *)
(* workers, or when a worker has failed that had it (lines 68 and 73).     *)
THEOREM LinuxIsServed == ThreadsSpec => []LinuxServed
<1>1. ThreadsInit => LinuxInv
  BY LinuxInvInit DEF ThreadsInit
<1>2. LinuxInv /\ [ThreadsNext]_threadsVars => LinuxInv'
  <2>1. [ThreadsNext]_threadsVars => [LinuxNext]_linuxVars
    BY DEF ThreadsNext, threadsVars
  <2>. QED BY <2>1, LinuxInvStep
<1>. QED BY <1>1, <1>2, LinuxInvServes, PTL DEF ThreadsSpec

-----------------------------------------------------------------------------
(* The three parts together.                                               *)

(* In the model the run explores, where a behaviour is one of the three    *)
(* parts, the object is still an auto-reset event and the handler reads    *)
(* its ring buffer from one thread at a time and in order.                 *)
THEOREM PartsStayCorrect ==
  ThreadsSpec => ImplementsEvent /\ []SingleConsumer /\ []HandledInOrder
<1>1. ThreadsInit => WaitInit /\ Init
  BY DEF ThreadsInit
<1>2. [ThreadsNext]_threadsVars => [WaitNext]_waitVars /\ [Next]_vars
  BY DEF ThreadsNext, threadsVars
<1>3. ThreadsSpec => ImplementsEvent
  BY <1>1, <1>2, WaitInvInit, WaitInvStep, EventInit, EventStep, PTL
  DEF ThreadsSpec, ImplementsEvent, AutoReset!Spec
<1>4. ThreadsSpec => Spec
  BY <1>1, <1>2, PTL DEF ThreadsSpec, Spec
<1>. QED BY <1>3, <1>4, OneConsumer, InOrder, PTL
=============================================================================
