------------------------ MODULE ChainExecutor_proofs ------------------------
(***************************************************************************)
(* Proofs about ChainExecutor for any number of clients, workers, keys,    *)
(* chains and jobs, with remove_chain and the destructor included: two     *)
(* workers never drain one chain, no job is left without somebody to run   *)
(* it, and the jobs of a key run one after the other in their order.       *)
(***************************************************************************)
EXTENDS ChainExecutor, SequenceTheorems, TLAPS

(* Membership in a sequence that is extended or shortened, and sequences   *)
(* without repetitions.                                                    *)
Member(s, x) == \E i \in DOMAIN s : s[i] = x
Injective(s) == \A i, j \in DOMAIN s : s[i] = s[j] => i = j

(* Appending adds exactly one member; it keeps a sequence of distinct      *)
(* elements distinct when the element is new.                              *)
LEMMA AppendMember ==
  ASSUME NEW S, NEW s \in Seq(S), NEW x \in S
  PROVE  /\ \A y \in S : Member(Append(s, x), y) <=> Member(s, y) \/ y = x
         /\ Injective(s) /\ ~Member(s, x) => Injective(Append(s, x))
<1> DEFINE t == Append(s, x)
<1>1. /\ Len(s) \in Nat /\ DOMAIN s = 1 .. Len(s)
      /\ DOMAIN t = 1 .. Len(s) + 1
      /\ t[Len(s) + 1] = x
      /\ \A i \in 1 .. Len(s) : t[i] = s[i]
  OBVIOUS
<1>2. \A i \in DOMAIN t : i = Len(s) + 1 \/ i \in DOMAIN s
  BY <1>1
<1> HIDE DEF t
<1>3. \A y \in S : Member(t, y) <=> Member(s, y) \/ y = x
  BY <1>1, <1>2 DEF Member
<1>4. Injective(s) /\ ~Member(s, x) => Injective(t)
  BY <1>1, <1>2 DEF Member, Injective
<1>. QED BY <1>3, <1>4 DEF t

(* A suffix has only members of the sequence, and distinct ones if the     *)
(* sequence had.                                                           *)
LEMMA SuffixMember ==
  ASSUME NEW S, NEW s \in Seq(S), NEW i \in DOMAIN s, Injective(s)
  PROVE  /\ Injective(SubSeq(s, i + 1, Len(s)))
         /\ ~Member(SubSeq(s, i + 1, Len(s)), s[i])
         /\ \A y \in S : Member(SubSeq(s, i + 1, Len(s)), y) => Member(s, y)
         /\ \A y \in S : Member(s, y) /\ ~Member(SubSeq(s, i + 1, Len(s)), y) =>
              \E j \in 1 .. i : s[j] = y
<1> DEFINE t == SubSeq(s, i + 1, Len(s))
<1>1. /\ Len(s) \in Nat /\ DOMAIN s = 1 .. Len(s) /\ i \in 1 .. Len(s)
      /\ DOMAIN t = 1 .. Len(s) - i
      /\ \A j \in 1 .. Len(s) - i : t[j] = s[i + j]
  OBVIOUS
<1> HIDE DEF t
<1>2. \A j \in DOMAIN t : i + j \in DOMAIN s /\ i + j # i /\ t[j] = s[i + j]
  BY <1>1
<1>3. \A j \in DOMAIN s : j \in 1 .. i \/ (j - i \in DOMAIN t /\ t[j - i] = s[j])
  BY <1>1
<1>4. Injective(t)
  BY <1>1, <1>2 DEF Injective
<1>5. ~Member(t, s[i])
  BY <1>2 DEF Member, Injective
<1>6. \A y \in S : Member(t, y) => Member(s, y)
  BY <1>2 DEF Member
<1>7. \A y \in S : Member(s, y) /\ ~Member(t, y) => \E j \in 1 .. i : s[j] = y
  BY <1>3 DEF Member
<1>. QED BY <1>4, <1>5, <1>6, <1>7 DEF t

(* Every step keeps the variables in their types.                          *)
LEMMA TypeInit == Init => TypeOK
<1>1. Init => pending \in [Chains -> BOOLEAN]
  BY DEF Init
<1>2. Init => /\ event \in BOOLEAN /\ stop \in BOOLEAN
  BY DEF Init
<1>3. Init => /\ wpc \in [Workers -> {"top", "wait", "check", "pop", "exit"} \cup Draining]
              /\ cpc \in [Clients -> {"idle", "found", "publish", "signal"}]
  BY DEF Init
<1>4. Init => /\ ready \in Seq(Chains)
              /\ tasks \in [Chains -> Seq(Task)]
              /\ added \in [Chains -> Seq(Task)]
              /\ ran \in [Chains -> Seq(Task)]
  BY DEF Init
<1>5. Init => /\ chainOf \in [Keys -> Chains \cup {None}]
              /\ keyOf \in [Chains -> Keys \cup {None}]
              /\ cchain \in [Clients -> Chains \cup {None}]
              /\ wchain \in [Workers -> Chains \cup {None}]
  BY DEF Init
<1>6. Init => /\ ctask \in [Clients -> 0 .. MaxTasks]
              /\ wjob \in [Workers -> 0 .. MaxTasks]
              /\ issued \in 0 .. MaxTasks
  BY ChainConstants DEF Init
<1>. QED BY <1>1, <1>2, <1>3, <1>4, <1>5, <1>6 DEF TypeOK

(* A step of add_job keeps every variable in its type.                     *)
LEMMA TypeClient ==
  ASSUME TypeOK, Places, NEW c \in Clients, AddJob(c)
  PROVE  TypeOK'
<1> USE ChainConstants DEF TypeOK
<1>1. ASSUME NEW k \in Keys, FindChain(c, k) PROVE TypeOK'
  <2>1. issued + 1 \in Task
    BY <1>1 DEF FindChain, Task
  <2>2. chainOf' \in [Keys -> Chains \cup {None}]
    BY <1>1 DEF FindChain
  <2>3. keyOf' \in [Chains -> Keys \cup {None}]
    BY ZenonT(60), <1>1 DEF FindChain
  <2>4. cchain' \in [Clients -> Chains \cup {None}]
    BY <1>1 DEF FindChain
  <2>5. ctask' \in [Clients -> 0 .. MaxTasks] /\ issued' \in 0 .. MaxTasks
    BY <1>1, <2>1 DEF FindChain, Task
  <2>6. cpc' \in [Clients -> {"idle", "found", "publish", "signal"}]
    BY <1>1 DEF FindChain
  <2>. QED BY <1>1, <2>2, <2>3, <2>4, <2>5, <2>6 DEF FindChain, workerVars
<1>2. CASE AppendTask(c)
  <2>1. cchain[c] \in Chains /\ ctask[c] \in Task
    BY <1>2 DEF AppendTask, Places
  <2>. QED BY <1>2, <2>1 DEF AppendTask, workerVars
<1>3. CASE Publish(c)
  BY <1>3 DEF Publish, workerVars, Places
<1>4. CASE Signal(c)
  BY <1>4 DEF Signal, workerVars, chainVars
<1>. QED BY <1>1, <1>2, <1>3, <1>4 DEF AddJob

(* A step of threadManager keeps every variable in its type.               *)
LEMMA TypeWorker ==
  ASSUME TypeOK, Places, NEW w \in Workers, Work(w)
  PROVE  TypeOK'
<1> USE ChainConstants DEF TypeOK, GoTo, Draining
<1>1. CASE Top(w)
  <2>1. (IF stop THEN "exit" ELSE "wait") \in {"exit", "wait"}
    OBVIOUS
  <2>. QED BY <1>1, <2>1 DEF Top, chainVars, clientVars
<1>2. CASE Wait(w)
  <2>1. event' \in BOOLEAN
    BY <1>2 DEF Wait
  <2>2. wpc' \in [Workers -> {"top", "wait", "check", "pop", "exit"} \cup Draining]
    BY <1>2 DEF Wait
  <2>. QED BY <1>2, <2>1, <2>2 DEF Wait, chainVars, clientVars
<1>3. CASE Check(w)
  <2>1. (IF stop THEN "exit" ELSE "pop") \in {"exit", "pop"}
    OBVIOUS
  <2>. QED BY <1>3, <2>1 DEF Check, chainVars, clientVars
<1>4. CASE PopChain(w)
  <2>1. PICK i \in DOMAIN ready :
          /\ wchain' = [wchain EXCEPT ![w] = ready[i]]
          /\ ready' = SubSeq(ready, i + 1, Len(ready))
    BY <1>4 DEF PopChain
  <2>2. ready[i] \in Chains /\ ready' \in Seq(Chains)
    BY SMTT(30), <2>1
  <2>3. wpc' \in [Workers -> {"top", "wait", "check", "pop", "exit"} \cup Draining]
    BY <1>4 DEF PopChain
  <2>. QED BY <1>4, <2>1, <2>2, <2>3 DEF PopChain, clientVars
<1>5. CASE PopNothing(w)  BY <1>5 DEF PopNothing, clientVars
<1>6. CASE Loop(w)
  <2>1. (IF stop THEN "top" ELSE "get") \in {"top", "get"}
    OBVIOUS
  <2>2. wchain' \in [Workers -> Chains \cup {None}]
    BY <1>6 DEF Loop
  <2>. QED BY <1>6, <2>1, <2>2 DEF Loop, chainVars, clientVars
<1>7. CASE GetTask(w)
  <2>1. wchain[w] \in Chains
    BY <1>7 DEF GetTask, Places
  <2>2. Head(tasks[wchain[w]]) \in Task /\ Tail(tasks[wchain[w]]) \in Seq(Task)
    BY <1>7, <2>1 DEF GetTask
  <2>. QED BY SMTT(30), <1>7, <2>1, <2>2 DEF GetTask, Taken, clientVars, Task
<1>8. CASE GetNothing(w)
  BY <1>8 DEF GetNothing, PendingWhenEmpty, clientVars
<1>9. CASE Execute(w)
  <2>1. wchain[w] \in Chains /\ wjob[w] \in Task
    BY <1>9 DEF Execute, Places
  <2>. QED BY <1>9, <2>1 DEF Execute, chainVars, clientVars
<1>. QED BY <1>1, <1>2, <1>3, <1>4, <1>5, <1>6, <1>7, <1>8, <1>9 DEF Work


-----------------------------------------------------------------------------
(* What a step does to the places of the threads.                          *)

(* A client inside add_job has a chain and a job.                          *)
LEMMA PlacesClient ==
  ASSUME TypeOK, Places, NEW c \in Clients, AddJob(c)
  PROVE  Places'
<1> USE ChainConstants DEF Places, TypeOK, workerVars
<1>1. ASSUME NEW k \in Keys, FindChain(c, k) PROVE Places'
  <2>1. issued + 1 \in Task
    BY <1>1 DEF FindChain, Task
  <2>2. cchain'[c] \in Chains /\ \A d \in Clients \ {c} : cchain'[d] = cchain[d]
    BY <1>1 DEF FindChain
  <2>. QED BY <1>1, <2>1, <2>2 DEF FindChain
<1>2. CASE AppendTask(c)  BY <1>2 DEF AppendTask
<1>3. CASE Publish(c)  BY <1>3 DEF Publish
<1>4. CASE Signal(c)  BY <1>4 DEF Signal
<1>. QED BY <1>1, <1>2, <1>3, <1>4 DEF AddJob

(* A worker has a chain exactly while it drains one.                       *)
LEMMA PlacesWorker ==
  ASSUME TypeOK, Places, NEW w \in Workers, Work(w)
  PROVE  Places'
<1> USE ChainConstants DEF Places, TypeOK, Draining, GoTo, clientVars
<1>1. CASE Top(w)  BY <1>1 DEF Top
<1>2. CASE Wait(w)  BY <1>2 DEF Wait
<1>3. CASE Check(w)  BY <1>3 DEF Check
<1>4. CASE PopChain(w)
  <2>1. wchain'[w] \in Chains /\ \A v \in Workers \ {w} : wchain'[v] = wchain[v]
    BY <1>4 DEF PopChain
  <2>2. /\ wpc' = [wpc EXCEPT ![w] = "loop"]
        /\ wjob' = wjob /\ cpc' = cpc /\ cchain' = cchain /\ ctask' = ctask
    BY <1>4 DEF PopChain
  <2>. QED BY <2>1, <2>2
<1>5. CASE PopNothing(w)  BY <1>5 DEF PopNothing
<1>6. CASE Loop(w)  BY <1>6 DEF Loop
<1>7. CASE GetTask(w)
  <2>1. wchain[w] \in Chains
    BY <1>7 DEF GetTask
  <2>2. Head(tasks[wchain[w]]) \in Task
    BY <1>7, <2>1 DEF GetTask
  <2>. QED BY <1>7, <2>2 DEF GetTask, Taken
<1>8. CASE GetNothing(w)  BY <1>8 DEF GetNothing
<1>9. CASE Execute(w)  BY <1>9 DEF Execute
<1>. QED BY <1>1, <1>2, <1>3, <1>4, <1>5, <1>6, <1>7, <1>8, <1>9 DEF Work

-----------------------------------------------------------------------------
(* Steps that move no token and set no pending flag keep the token part of *)
(* the invariant, provided nobody gains a chain or a job.                  *)

Tokens == OneToken /\ TokenIffPending /\ Unborn

(* A step that moves no publisher, entry or drainer, changes no chain and  *)
(* revives none keeps the token discipline.                                *)
LEMMA NoTokenMoves ==
  ASSUME Tokens,
         \A ch \in Chains : \A d \in Clients : Publisher(d, ch)' <=> Publisher(d, ch),
         \A ch \in Chains : \A v \in Workers : Drainer(v, ch)' <=> Drainer(v, ch),
         ready' = ready,
         pending' = pending,
         keyOf' = keyOf,
         stop => stop',
         \A ch \in Chains : Owned(ch)' => Owned(ch),
         \A ch \in Chains : tasks'[ch] # <<>> => tasks[ch] # <<>>
  PROVE  Tokens'
<1>1. \A ch \in Chains : Queued(ch)' <=> Queued(ch)
  BY DEF Queued
<1>2. \A ch \in Chains : HasToken(ch)' <=> HasToken(ch)
  BY <1>1 DEF HasToken
<1>3. OneToken'
  BY <1>1 DEF Tokens, OneToken, ChainExclusive
<1>4. TokenIffPending'
  BY <1>2 DEF Tokens, TokenIffPending
<1>5. Unborn'
  BY DEF Tokens, Unborn
<1>. QED BY <1>3, <1>4, <1>5 DEF Tokens

(* Looking a chain up moves no token: a chain that was not owned before is *)
(* a new one, without jobs.                                                *)
LEMMA TokensFindChain ==
  ASSUME TypeOK, Places, Tokens, NEW c \in Clients, NEW k \in Keys, FindChain(c, k)
  PROVE  Tokens'
<1> USE ChainConstants
<1>1. \A ch \in Chains : \A d \in Clients : Publisher(d, ch)' <=> Publisher(d, ch)
  BY DEF FindChain, Publisher, TypeOK
<1>2. \A ch \in Chains : \A v \in Workers : Drainer(v, ch)' <=> Drainer(v, ch)
  BY DEF FindChain, Drainer, workerVars
<1>3. /\ ready' = ready /\ pending' = pending /\ stop' = stop
      /\ tasks' = tasks /\ wchain' = wchain
  BY DEF FindChain, workerVars
<1>4. \A ch \in Chains : Queued(ch)' <=> Queued(ch)
  BY <1>3 DEF Queued
<1>5. \A ch \in Chains : HasToken(ch)' <=> HasToken(ch)
  BY <1>1, <1>2, <1>4 DEF HasToken
<1>6. OneToken'
  BY <1>1, <1>2, <1>3, <1>4 DEF Tokens, OneToken, ChainExclusive
<1>7. CASE chainOf[k] # None
  <2>1. /\ chainOf' = chainOf /\ keyOf' = keyOf
        /\ cchain' = [cchain EXCEPT ![c] = chainOf[k]]
    BY <1>7 DEF FindChain
  <2>2. \A ch \in Chains : Owned(ch)' => Owned(ch)
    BY <1>3, <2>1 DEF Owned, TypeOK
  <2>. QED BY <1>1, <1>2, <1>3, <2>1, <2>2, NoTokenMoves
<1>8. CASE chainOf[k] = None
  <2>1. PICK new \in Chains :
          /\ keyOf[new] = None
          /\ chainOf' = [chainOf EXCEPT ![k] = new]
          /\ keyOf' = [keyOf EXCEPT ![new] = k]
          /\ cchain' = [cchain EXCEPT ![c] = new]
    BY <1>8 DEF FindChain
  <2>2. \A ch \in Chains : Owned(ch)' => Owned(ch) \/ ch = new
    BY <1>3, <2>1 DEF Owned, TypeOK
  <2>3. ~pending[new]
    BY <2>1 DEF Tokens, Unborn
  <2>4. TokenIffPending'
    BY <1>3, <1>5, <2>2, <2>3 DEF Tokens, TokenIffPending
  <2>5. Unborn'
    BY <1>3, <2>1, <2>2 DEF Tokens, Unborn, TypeOK
  <2>. QED BY <1>6, <2>4, <2>5 DEF Tokens
<1>. QED BY <1>7, <1>8

(* add_task makes its caller the publisher exactly when there was no token.*)
LEMMA TokensAppendTask ==
  ASSUME TypeOK, Places, Tokens, NEW c \in Clients, AppendTask(c)
  PROVE  Tokens'
<1> DEFINE q == cchain[c]
<1>1. q \in Chains
  BY DEF AppendTask, Places
<1>2. Owned(q)
  BY DEF Owned
<1>3. \A ch \in Chains : \A d \in Clients :
        Publisher(d, ch)' <=> Publisher(d, ch) \/ (d = c /\ ch = q /\ ~pending[q])
  BY DEF AppendTask, MustPublish, Publisher, TypeOK
<1>4. \A ch \in Chains : \A v \in Workers : Drainer(v, ch)' <=> Drainer(v, ch)
  BY DEF AppendTask, Drainer, workerVars
<1>5. ready' = ready /\ stop' = stop /\ keyOf' = keyOf
  BY DEF AppendTask
<1>6. \A ch \in Chains : Queued(ch)' <=> Queued(ch)
  BY <1>5 DEF Queued
<1>7. \A ch \in Chains : Owned(ch)' <=> Owned(ch)
  BY DEF AppendTask, Owned, workerVars
<1>8. \A ch \in Chains : pending'[ch] <=> pending[ch] \/ ch = q
  BY DEF AppendTask, TypeOK
<1>9. \A ch \in Chains : ch # q => tasks'[ch] = tasks[ch]
  BY DEF AppendTask, TypeOK
<1>10. ~pending[q] => ~HasToken(q)
  BY <1>1 DEF Tokens, TokenIffPending
<1>11. OneToken'
  BY <1>3, <1>4, <1>5, <1>6, <1>10 DEF Tokens, OneToken, ChainExclusive, HasToken
<1>12. \A ch \in Chains : HasToken(ch)' <=> HasToken(ch) \/ (ch = q /\ ~pending[q])
  BY <1>3, <1>4, <1>6 DEF HasToken
<1>13. TokenIffPending'
  BY <1>2, <1>5, <1>7, <1>8, <1>9, <1>12 DEF Tokens, TokenIffPending
<1>14. Unborn'
  BY <1>2, <1>5, <1>7, <1>8 DEF Tokens, Unborn
<1>. QED BY <1>11, <1>13, <1>14 DEF Tokens

(* Publishing turns the publisher's token into an entry of the list.       *)
LEMMA TokensPublish ==
  ASSUME TypeOK, Places, Tokens, NEW c \in Clients, Publish(c)
  PROVE  Tokens'
<1> DEFINE q == cchain[c]
<1>1. q \in Chains /\ Publisher(c, q)
  BY DEF Publish, Places, Publisher
<1>2. \A ch \in Chains : \A d \in Clients :
        Publisher(d, ch)' <=> Publisher(d, ch) /\ d # c
  BY DEF Publish, Publisher, TypeOK
<1>3. \A ch \in Chains : \A v \in Workers : Drainer(v, ch)' <=> Drainer(v, ch)
  BY DEF Publish, Drainer, workerVars
<1>4. /\ pending' = pending /\ stop' = stop /\ keyOf' = keyOf /\ tasks' = tasks
      /\ ready' = Append(ready, q)
  BY DEF Publish
<1>5. \A ch \in Chains : Queued(ch)' <=> Queued(ch) \/ ch = q
  <2>1. \A ch \in Chains : Member(Append(ready, q), ch) <=> Member(ready, ch) \/ ch = q
    BY <1>1, AppendMember DEF TypeOK
  <2>. QED BY <1>4, <2>1 DEF Queued, Member
<1>6. \A ch \in Chains : Owned(ch)' <=> Owned(ch)
  BY DEF Publish, Owned, workerVars
<1>7. ~Queued(q) /\ \A v \in Workers : ~Drainer(v, q)
  BY <1>1 DEF Tokens, OneToken
<1>8. \A d \in Clients : Publisher(d, q) => d = c
  BY <1>1 DEF Tokens, OneToken
<1>9. \A i, j \in DOMAIN ready' : ready'[i] = ready'[j] => i = j
  <2>1. Injective(ready) /\ ~Member(ready, q)
    BY <1>7 DEF Tokens, OneToken, Queued, Injective, Member
  <2>2. Injective(Append(ready, q))
    BY <1>1, <2>1, AppendMember DEF TypeOK
  <2>. QED BY <1>4, <2>2 DEF Injective
<1>10. OneToken'
  BY <1>2, <1>3, <1>5, <1>7, <1>8, <1>9 DEF Tokens, OneToken, ChainExclusive
<1>11. \A ch \in Chains : HasToken(ch)' <=> HasToken(ch)
  BY <1>1, <1>2, <1>3, <1>5, <1>8 DEF HasToken, Publisher
<1>12. TokenIffPending'
  BY <1>4, <1>6, <1>11 DEF Tokens, TokenIffPending
<1>13. Unborn'
  BY <1>4, <1>6 DEF Tokens, Unborn
<1>. QED BY <1>10, <1>12, <1>13 DEF Tokens

(* The end of add_job only gives a reference up.                           *)
LEMMA TokensSignal ==
  ASSUME TypeOK, Tokens, NEW c \in Clients, Signal(c)
  PROVE  Tokens'
<1> USE ChainConstants
<1>1. \A ch \in Chains : \A d \in Clients : Publisher(d, ch)' <=> Publisher(d, ch)
  BY DEF Signal, Publisher, TypeOK
<1>2. \A ch \in Chains : \A v \in Workers : Drainer(v, ch)' <=> Drainer(v, ch)
  BY DEF Signal, Drainer, workerVars
<1>3. \A ch \in Chains : Owned(ch)' => Owned(ch)
  BY DEF Signal, Owned, chainVars, workerVars, TypeOK
<1>. QED BY <1>1, <1>2, <1>3, NoTokenMoves DEF Signal, chainVars

(* remove_chain only gives a reference up.                                 *)
LEMMA TokensRemoveChain ==
  ASSUME TypeOK, Tokens, NEW k \in Keys, RemoveChain(k)
  PROVE  Tokens'
<1> USE ChainConstants
<1>1. \A ch \in Chains : \A d \in Clients : Publisher(d, ch)' <=> Publisher(d, ch)
  BY DEF RemoveChain, Publisher, clientVars
<1>2. \A ch \in Chains : \A v \in Workers : Drainer(v, ch)' <=> Drainer(v, ch)
  BY DEF RemoveChain, Drainer, workerVars
<1>3. \A ch \in Chains : Owned(ch)' => Owned(ch)
  BY DEF RemoveChain, Owned, clientVars, workerVars, TypeOK
<1>. QED BY <1>1, <1>2, <1>3, NoTokenMoves DEF RemoveChain

(* Setting _stop only weakens what is promised.                            *)
LEMMA TokensStop ==
  ASSUME Tokens, Stop
  PROVE  Tokens'
<1>1. \A ch \in Chains : \A d \in Clients : Publisher(d, ch)' <=> Publisher(d, ch)
  BY DEF Stop, Publisher, clientVars
<1>2. \A ch \in Chains : \A v \in Workers : Drainer(v, ch)' <=> Drainer(v, ch)
  BY DEF Stop, Drainer, workerVars
<1>3. \A ch \in Chains : Owned(ch)' => Owned(ch)
  BY DEF Stop, Owned, chainVars, clientVars, workerVars
<1>. QED BY <1>1, <1>2, <1>3, NoTokenMoves DEF Stop, chainVars

(* Steps of a worker that keep its chain and stay in or out of the loop.   *)
LEMMA TokensQuietWorker ==
  ASSUME TypeOK, Tokens, NEW w \in Workers,
         Top(w) \/ Wait(w) \/ Check(w) \/ GetTask(w) \/ Execute(w)
           \/ (Loop(w) /\ ~stop)
  PROVE  Tokens'
<1> USE DEF Top, Wait, Check, GetTask, Execute, Loop, GoTo, chainVars, clientVars
<1>1. \A ch \in Chains : \A d \in Clients : Publisher(d, ch)' <=> Publisher(d, ch)
  BY DEF Publisher
<1>2. wchain' = wchain
  OBVIOUS
<1>3. \A v \in Workers : wpc'[v] \in Draining <=> wpc[v] \in Draining
  BY DEF TypeOK, Draining
<1>4. \A ch \in Chains : \A v \in Workers : Drainer(v, ch)' <=> Drainer(v, ch)
  BY <1>2, <1>3 DEF Drainer
<1>5. \A ch \in Chains : Owned(ch)' => Owned(ch)
  BY <1>2 DEF Owned
<1>6. \A ch \in Chains : tasks'[ch] # <<>> => tasks[ch] # <<>>
  BY DEF TypeOK
<1>7. ready' = ready /\ pending' = pending /\ keyOf' = keyOf /\ stop' = stop
  OBVIOUS
<1>. QED BY <1>1, <1>4, <1>5, <1>6, <1>7, NoTokenMoves

(* Popping turns an entry of the list into the worker's token; the entries *)
(* dropped on the way belong to chains nobody owns.                        *)
LEMMA TokensPopChain ==
  ASSUME TypeOK, Places, Tokens, NEW w \in Workers, PopChain(w)
  PROVE  Tokens'
<1> USE ChainConstants
<1>1. PICK i \in DOMAIN ready :
        /\ Owned(ready[i])
        /\ \A j \in 1 .. i - 1 : ~Owned(ready[j])
        /\ wchain' = [wchain EXCEPT ![w] = ready[i]]
        /\ ready' = SubSeq(ready, i + 1, Len(ready))
  BY DEF PopChain
<1>2. PICK q \in Chains : q = ready[i] /\ Queued(q) /\ i \in Nat
  BY DEF Queued, TypeOK
<1>3. /\ Injective(ready')
      /\ ~Queued(q)'
      /\ \A ch \in Chains : Queued(ch)' => Queued(ch)
      /\ \A ch \in Chains : Queued(ch) /\ ~Queued(ch)' => \E j \in 1 .. i : ready[j] = ch
  <2>1. Injective(ready) /\ ready \in Seq(Chains)
    BY DEF Tokens, OneToken, Injective, TypeOK
  <2>2. \A ch : Queued(ch)' <=> Member(SubSeq(ready, i + 1, Len(ready)), ch)
    BY <1>1 DEF Queued, Member
  <2>3. \A ch : Queued(ch) <=> Member(ready, ch)
    BY DEF Queued, Member
  <2>4. /\ Injective(SubSeq(ready, i + 1, Len(ready)))
        /\ ~Member(SubSeq(ready, i + 1, Len(ready)), ready[i])
        /\ \A ch \in Chains :
             Member(SubSeq(ready, i + 1, Len(ready)), ch) => Member(ready, ch)
        /\ \A ch \in Chains :
             Member(ready, ch) /\ ~Member(SubSeq(ready, i + 1, Len(ready)), ch) =>
               \E j \in 1 .. i : ready[j] = ch
    BY <2>1, SuffixMember
  <2>5. Injective(ready')
    BY <1>1, <2>4
  <2>6. ~Queued(q)'
    BY <1>2, <2>2, <2>4
  <2>. QED BY <2>2, <2>3, <2>4, <2>5, <2>6
<1>4. \A ch \in Chains : Queued(ch) /\ ~Queued(ch)' => ch = q \/ ~Owned(ch)
  <2>1. \A j \in 1 .. i : j = i \/ j \in 1 .. i - 1
    BY <1>2
  <2>. QED BY <1>1, <1>2, <1>3, <2>1
<1>5. \A ch \in Chains : \A d \in Clients : Publisher(d, ch)' <=> Publisher(d, ch)
  BY DEF PopChain, Publisher, clientVars
<1>6. wpc[w] \notin Draining /\ wpc' = [wpc EXCEPT ![w] = "loop"]
  BY DEF PopChain, GoTo, Draining
<1>7. \A ch \in Chains : \A v \in Workers :
        Drainer(v, ch)' <=> Drainer(v, ch) \/ (v = w /\ ch = q)
  BY <1>1, <1>2, <1>6 DEF Drainer, TypeOK, Draining
<1>8. \A ch \in Chains : Owned(ch)' => Owned(ch)
  BY <1>1, <1>2 DEF PopChain, Owned, clientVars, TypeOK
<1>9. pending' = pending /\ stop' = stop /\ keyOf' = keyOf /\ tasks' = tasks
  BY DEF PopChain
<1>10. /\ \A v \in Workers : ~Drainer(v, q)
       /\ \A d \in Clients : ~Publisher(d, q)
  BY <1>2 DEF Tokens, OneToken
<1>11. OneToken'
  <2>1. ChainExclusive'
    BY <1>7, <1>10 DEF Tokens, OneToken, ChainExclusive
  <2>2. \A ch \in Chains : \A d \in Clients : \A v \in Workers :
          ~(Publisher(d, ch)' /\ Drainer(v, ch)')
    BY <1>5, <1>7, <1>10 DEF Tokens, OneToken
  <2>3. \A ch \in Chains : Queued(ch)' =>
          /\ \A d \in Clients : ~Publisher(d, ch)'
          /\ \A v \in Workers : ~Drainer(v, ch)'
    BY <1>3, <1>5, <1>7 DEF Tokens, OneToken
  <2>4. \A ch \in Chains : \A c, d \in Clients :
          Publisher(c, ch)' /\ Publisher(d, ch)' => c = d
    BY <1>5 DEF Tokens, OneToken
  <2>. QED BY <1>3, <2>1, <2>2, <2>3, <2>4 DEF OneToken, Injective
<1>12. \A ch \in Chains : HasToken(ch)' => HasToken(ch)
  BY <1>2, <1>3, <1>5, <1>7 DEF HasToken
<1>13. \A ch \in Chains : HasToken(ch) /\ Owned(ch) => HasToken(ch)'
  BY <1>4, <1>5, <1>7 DEF HasToken
<1>14. TokenIffPending'
  BY <1>8, <1>9, <1>12, <1>13 DEF Tokens, TokenIffPending
<1>15. Unborn'
  BY <1>8, <1>9 DEF Tokens, Unborn
<1>. QED BY <1>11, <1>14, <1>15 DEF Tokens

(* pop_chain drops only references to chains nobody owns.                  *)
LEMMA TokensPopNothing ==
  ASSUME TypeOK, Tokens, NEW w \in Workers, PopNothing(w)
  PROVE  Tokens'
<1>1. /\ ready' = <<>> /\ pending' = pending /\ stop' = stop /\ keyOf' = keyOf
      /\ tasks' = tasks
  BY DEF PopNothing
<1>2. \A ch \in Chains : ~Queued(ch)' /\ (Queued(ch) => ~Owned(ch))
  BY <1>1 DEF PopNothing, Queued
<1>3. \A ch \in Chains : \A d \in Clients : Publisher(d, ch)' <=> Publisher(d, ch)
  BY DEF PopNothing, Publisher, clientVars
<1>4. \A ch \in Chains : \A v \in Workers : Drainer(v, ch)' <=> Drainer(v, ch)
  BY DEF PopNothing, GoTo, Drainer, TypeOK, Draining
<1>5. \A ch \in Chains : Owned(ch)' <=> Owned(ch)
  BY DEF PopNothing, Owned, clientVars
<1>6. OneToken'
  BY <1>1, <1>2, <1>3, <1>4 DEF Tokens, OneToken, ChainExclusive
<1>7. TokenIffPending'
  BY <1>1, <1>2, <1>3, <1>4, <1>5 DEF Tokens, TokenIffPending, HasToken
<1>8. Unborn'
  BY <1>1, <1>5 DEF Tokens, Unborn
<1>. QED BY <1>6, <1>7, <1>8 DEF Tokens

(* A worker that stops lets its token go; nothing is promised any more.    *)
LEMMA TokensLoopStopped ==
  ASSUME TypeOK, Tokens, NEW w \in Workers, Loop(w), stop
  PROVE  Tokens'
<1> USE ChainConstants
<1>1. /\ ready' = ready /\ pending' = pending /\ stop' = stop /\ keyOf' = keyOf
      /\ tasks' = tasks /\ wchain' = [wchain EXCEPT ![w] = None]
  BY DEF Loop, chainVars
<1>2. \A ch \in Chains : Queued(ch)' <=> Queued(ch)
  BY <1>1 DEF Queued
<1>3. \A ch \in Chains : \A d \in Clients : Publisher(d, ch)' <=> Publisher(d, ch)
  BY DEF Loop, Publisher, clientVars
<1>4. \A ch \in Chains : \A v \in Workers : Drainer(v, ch)' => Drainer(v, ch)
  BY <1>1 DEF Loop, GoTo, Drainer, TypeOK, Draining
<1>5. \A ch \in Chains : Owned(ch)' => Owned(ch)
  BY <1>1 DEF Loop, Owned, chainVars, clientVars, TypeOK
<1>6. OneToken'
  BY <1>1, <1>2, <1>3, <1>4 DEF Tokens, OneToken, ChainExclusive
<1>7. TokenIffPending'
  BY <1>1, <1>2, <1>3, <1>4 DEF Tokens, TokenIffPending, HasToken
<1>8. Unborn'
  BY <1>1, <1>5 DEF Tokens, Unborn
<1>. QED BY <1>6, <1>7, <1>8 DEF Tokens

(* A worker that finds its chain empty gives token and pending flag up in  *)
(* one critical section.                                                   *)
LEMMA TokensGetNothing ==
  ASSUME TypeOK, Places, Tokens, NEW w \in Workers, GetNothing(w)
  PROVE  Tokens'
<1> USE ChainConstants
<1> DEFINE q == wchain[w]
<1>1. q \in Chains /\ Drainer(w, q)
  BY DEF GetNothing, Places, Drainer, Draining, TypeOK
<1>2. /\ ready' = ready /\ stop' = stop /\ keyOf' = keyOf /\ tasks' = tasks
      /\ tasks[q] = <<>> /\ wchain' = [wchain EXCEPT ![w] = None]
  BY DEF GetNothing
<1>3. \A ch \in Chains : pending'[ch] <=> pending[ch] /\ ch # q
  BY DEF GetNothing, PendingWhenEmpty, TypeOK
<1>4. \A ch \in Chains : Queued(ch)' <=> Queued(ch)
  BY <1>2 DEF Queued
<1>5. \A ch \in Chains : \A d \in Clients : Publisher(d, ch)' <=> Publisher(d, ch)
  BY DEF GetNothing, Publisher, clientVars
<1>6. \A ch \in Chains : \A v \in Workers :
        Drainer(v, ch)' <=> Drainer(v, ch) /\ v # w
  BY <1>2 DEF GetNothing, GoTo, Drainer, TypeOK, Draining
<1>7. \A ch \in Chains : Owned(ch)' => Owned(ch)
  BY <1>2 DEF GetNothing, Owned, clientVars, TypeOK
<1>8. /\ \A v \in Workers : Drainer(v, q) => v = w
      /\ \A d \in Clients : ~Publisher(d, q)
      /\ ~Queued(q)
  BY <1>1 DEF Tokens, OneToken, ChainExclusive
<1>9. \A ch \in Chains : Drainer(w, ch) => ch = q
  BY DEF Drainer
<1>10. OneToken'
  BY <1>2, <1>4, <1>5, <1>6 DEF Tokens, OneToken, ChainExclusive
<1>11. \A ch \in Chains : HasToken(ch)' <=> HasToken(ch) /\ ch # q
  BY <1>1, <1>4, <1>5, <1>6, <1>8, <1>9 DEF HasToken
<1>12. TokenIffPending'
  BY <1>2, <1>3, <1>7, <1>11 DEF Tokens, TokenIffPending
<1>13. Unborn'
  BY <1>2, <1>3, <1>7 DEF Tokens, Unborn
<1>. QED BY <1>10, <1>12, <1>13 DEF Tokens

-----------------------------------------------------------------------------
(* The invariant as a whole                                                *)

(* The discipline holds when the pool is built.                            *)
LEMMA TokensInit == Init => Places /\ Tokens
<1> SUFFICES ASSUME Init PROVE Places /\ Tokens
  OBVIOUS
<1> USE ChainConstants DEF Init
<1>1. Places
  BY DEF Places, Draining
<1>2. \A ch \in Chains : ~HasToken(ch) /\ ~Queued(ch)
  BY DEF HasToken, Queued, Publisher, Drainer, Draining
<1>3. OneToken
  BY <1>2 DEF OneToken, ChainExclusive, Publisher, Drainer, Draining
<1>4. TokenIffPending
  BY <1>2 DEF TokenIffPending
<1>5. Unborn
  BY DEF Unborn, Owned
<1>. QED BY <1>1, <1>3, <1>4, <1>5 DEF Tokens

(* Every step of a client or of a worker keeps the invariant.              *)
LEMMA TokenStep == TokenInv /\ [Next]_vars => TokenInv'
<1> SUFFICES ASSUME TypeOK, Places, Tokens, [Next]_vars
             PROVE  TypeOK' /\ Places' /\ Tokens'
  BY DEF TokenInv, Tokens
<1>1. ASSUME NEW c \in Clients, AddJob(c) PROVE TypeOK' /\ Places' /\ Tokens'
  BY <1>1, TypeClient, PlacesClient, TokensFindChain, TokensAppendTask,
     TokensPublish, TokensSignal DEF AddJob
<1>2. ASSUME NEW k \in Keys, RemoveChain(k) PROVE TypeOK' /\ Places' /\ Tokens'
  <2>1. TypeOK' /\ Places'
    BY <1>2, ChainConstants DEF RemoveChain, TypeOK, Places, clientVars, workerVars
  <2>. QED BY <1>2, <2>1, TokensRemoveChain
<1>3. CASE Stop
  <2>1. TypeOK' /\ Places'
    BY <1>3 DEF Stop, TypeOK, Places, chainVars, clientVars, workerVars
  <2>. QED BY <1>3, <2>1, TokensStop
<1>4. ASSUME NEW w \in Workers, Work(w) PROVE TypeOK' /\ Places' /\ Tokens'
  <2>1. TypeOK' /\ Places'
    BY <1>4, TypeWorker, PlacesWorker
  <2>2. Tokens'
    BY <1>4, TokensQuietWorker, TokensPopChain, TokensPopNothing,
       TokensLoopStopped, TokensGetNothing DEF Work
  <2>. QED BY <2>1, <2>2
<1>5. CASE UNCHANGED vars
  <2>1. TypeOK'
    BY <1>5 DEF vars, chainVars, clientVars, workerVars, TypeOK
  <2>2. Places'
    BY <1>5 DEF vars, chainVars, clientVars, workerVars, Places
  <2>3. /\ \A ch \in Chains : \A d \in Clients : Publisher(d, ch)' <=> Publisher(d, ch)
        /\ \A ch \in Chains : \A v \in Workers : Drainer(v, ch)' <=> Drainer(v, ch)
        /\ \A ch \in Chains : Owned(ch)' <=> Owned(ch)
    BY <1>5 DEF vars, chainVars, clientVars, workerVars, Publisher, Drainer, Owned
  <2>4. Tokens'
    BY <1>5, <2>3, NoTokenMoves DEF vars, chainVars
  <2>. QED BY <2>1, <2>2, <2>4
<1>. QED BY <1>1, <1>2, <1>3, <1>4, <1>5 DEF Next

(* The token discipline of chain_executor.hpp holds in every reachable     *)
(* state: a chain with _is_pending set has one publisher, one list entry   *)
(* or one draining worker, and never two of them.                          *)
THEOREM TokenInvariant == Spec => []TokenInv
<1>1. Init => TokenInv
  BY TypeInit, TokensInit DEF TokenInv, Tokens
<1>. QED BY <1>1, TokenStep, PTL DEF Spec

(* Two threads of a chain_pool never run jobs of one chain at a time.      *)
THEOREM Exclusion == Spec => []ChainExclusive
<1>1. TokenInv => ChainExclusive
  BY DEF TokenInv, OneToken
<1>. QED BY <1>1, TokenInvariant, PTL

(* The assertion of get_task never fails.                                  *)
THEOREM AssertionHolds == Spec => []PendingAsserted
<1>1. TokenInv => PendingAsserted
  <2> SUFFICES ASSUME TokenInv, NEW w \in Workers, wpc[w] \in Draining
               PROVE  pending[wchain[w]]
    BY DEF PendingAsserted
  <2>1. wchain[w] \in Chains
    BY DEF TokenInv, TypeOK, Places
  <2>2. HasToken(wchain[w])
    BY DEF HasToken, Drainer
  <2>. QED BY <2>1, <2>2 DEF TokenInv, TokenIffPending
<1>. QED BY <1>1, TokenInvariant, PTL

(* As long as the pool is not stopped, a reachable chain with jobs is on   *)
(* its way to a worker, whatever the interleaving of add_task, get_task,   *)
(* pop_chain and remove_chain.                                             *)
THEOREM NothingStranded == Spec => []NoStrandedTask
<1>1. TokenInv => NoStrandedTask
  BY DEF TokenInv, TokenIffPending, NoStrandedTask
<1>. QED BY <1>1, TokenInvariant, PTL

-----------------------------------------------------------------------------
(* Jobs of one key                                                         *)

(* The job that is being executed, with the workers' state as arguments.   *)
Executing(places, chains, jobs, ch) ==
  IF \E w \in Workers : places[w] = "exec" /\ chains[w] = ch
  THEN <<jobs[CHOOSE w \in Workers : places[w] = "exec" /\ chains[w] = ch]>>
  ELSE <<>>

(* Nobody else can be meant when one worker at most executes the chain.    *)
LEMMA OneExecuting ==
  ASSUME NEW places, NEW chains, NEW jobs, NEW ch, NEW w \in Workers,
         places[w] = "exec" /\ chains[w] = ch,
         \A v \in Workers : places[v] = "exec" /\ chains[v] = ch => v = w
  PROVE  Executing(places, chains, jobs, ch) = <<jobs[w]>>
<1>1. (CHOOSE v \in Workers : places[v] = "exec" /\ chains[v] = ch) = w
  OBVIOUS
<1>. QED BY <1>1 DEF Executing

(* Workers that execute the same jobs of a chain before and after.         *)
LEMMA SameExecuting ==
  ASSUME NEW places, NEW chains, NEW jobs, NEW places2, NEW chains2, NEW jobs2,
         NEW ch,
         \A v \in Workers :
           (places2[v] = "exec" /\ chains2[v] = ch) <=> (places[v] = "exec" /\ chains[v] = ch),
         \A v, w \in Workers :
           (/\ places[v] = "exec" /\ chains[v] = ch
            /\ places[w] = "exec" /\ chains[w] = ch) => v = w,
         \A v \in Workers : places[v] = "exec" /\ chains[v] = ch => jobs2[v] = jobs[v]
  PROVE  Executing(places2, chains2, jobs2, ch) = Executing(places, chains, jobs, ch)
<1>1. CASE \E w \in Workers : places[w] = "exec" /\ chains[w] = ch
  <2>1. PICK w \in Workers : places[w] = "exec" /\ chains[w] = ch BY <1>1
  <2>2. Executing(places, chains, jobs, ch) = <<jobs[w]>> BY <2>1, OneExecuting
  <2>3. Executing(places2, chains2, jobs2, ch) = <<jobs2[w]>> BY <2>1, OneExecuting
  <2>. QED BY <2>1, <2>2, <2>3
<1>2. CASE ~\E w \in Workers : places[w] = "exec" /\ chains[w] = ch
  BY <1>2 DEF Executing
<1>. QED BY <1>1, <1>2

(* Taking a job from the front, and finishing it.                          *)
LEMMA HistoryMoves ==
  ASSUME NEW S, NEW r \in Seq(S), NEW q \in Seq(S), NEW x \in S
  PROVE  /\ r \o <<x>> \o q = Append(r, x) \o <<>> \o q
         /\ q # <<>> => r \o <<>> \o q = r \o <<Head(q)>> \o Tail(q)
<1>1. r \o <<x>> \o q = Append(r, x) \o <<>> \o q
  <2>1. Append(r, x) = r \o <<x>> BY AppendIsConcat
  <2>2. Append(r, x) \o <<>> = Append(r, x)
    <3>1. Append(r, x) \in Seq(S) OBVIOUS
    <3>. QED BY <3>1, ConcatEmptySeq
  <2>. QED BY <2>1, <2>2
<1>2. ASSUME q # <<>> PROVE r \o <<>> \o q = r \o <<Head(q)>> \o Tail(q)
  <2>1. Head(q) \in S /\ Tail(q) \in Seq(S) BY <1>2
  <2>2. <<Head(q)>> \o Tail(q) = q BY <1>2, <2>1
  <2>3. <<Head(q)>> \in Seq(S) BY <2>1
  <2>4. r \o <<Head(q)>> \o Tail(q) = r \o (<<Head(q)>> \o Tail(q))
    BY <2>1, <2>3, ConcatAssociative
  <2>5. r \o <<>> = r BY ConcatEmptySeq
  <2>. QED BY <2>2, <2>4, <2>5
<1>. QED BY <1>1, <1>2

(* A key nobody removes keeps its chain, so that it has one only.          *)
KeyKept == \A ch \in Chains : keyOf[ch] \in Keys \ Removable => chainOf[keyOf[ch]] = ch

SerialInv == TokenInv /\ KeyKept /\ ChainFifo

(* A step that leaves the histories of a chain and what is being executed  *)
(* of it alone.                                                            *)
LEMMA QuietFifo ==
  ASSUME ChainFifo, UNCHANGED <<added, ran, tasks>>,
         \A ch \in Chains : InExecution(ch)' = InExecution(ch)
  PROVE  ChainFifo'
BY DEF ChainFifo

(* At most one worker executes a job of a chain.                           *)
LEMMA OneExecutor ==
  ASSUME TokenInv, NEW ch \in Chains, NEW v \in Workers, NEW w \in Workers,
         wpc[v] = "exec", wchain[v] = ch, wpc[w] = "exec", wchain[w] = ch
  PROVE  v = w
BY DEF TokenInv, OneToken, ChainExclusive, Drainer, Draining

(* Workers that execute the same jobs of a chain before and after a step.  *)
LEMMA SameInExecution ==
  ASSUME TokenInv, NEW ch \in Chains,
         \A v \in Workers :
           (wpc'[v] = "exec" /\ wchain'[v] = ch) <=> (wpc[v] = "exec" /\ wchain[v] = ch),
         \A v \in Workers : wpc[v] = "exec" /\ wchain[v] = ch => wjob'[v] = wjob[v]
  PROVE  InExecution(ch)' = InExecution(ch)
<1>1. \A v, u \in Workers :
        (/\ wpc[v] = "exec" /\ wchain[v] = ch
         /\ wpc[u] = "exec" /\ wchain[u] = ch) => v = u
  BY OneExecutor
<1>2. Executing(wpc', wchain', wjob', ch) = Executing(wpc, wchain, wjob, ch)
  BY <1>1, SameExecuting
<1>. QED BY <1>2 DEF InExecution, Executing

(* A worker that moves between places other than "exec" executes nothing.  *)
LEMMA QuietExecution ==
  ASSUME TokenInv, NEW w \in Workers, wpc[w] # "exec", NEW place, place # "exec",
         wpc' = [wpc EXCEPT ![w] = place], wjob' = wjob,
         \A v \in Workers : v # w => wchain'[v] = wchain[v]
  PROVE  \A ch \in Chains : InExecution(ch)' = InExecution(ch)
<1>. SUFFICES ASSUME NEW ch \in Chains PROVE InExecution(ch)' = InExecution(ch)
  OBVIOUS
<1>1. wpc \in [Workers -> {"top", "wait", "check", "pop", "exit"} \cup Draining]
  BY DEF TokenInv, TypeOK
<1>2. \A v \in Workers :
        (wpc'[v] = "exec" /\ wchain'[v] = ch) <=> (wpc[v] = "exec" /\ wchain[v] = ch)
  BY <1>1
<1>3. \A v \in Workers : wjob'[v] = wjob[v] OBVIOUS
<1>. QED BY <1>2, <1>3, SameInExecution

(* Every step of a client keeps the order of jobs.                         *)
LEMMA FifoClient ==
  ASSUME SerialInv, NEW c \in Clients, AddJob(c)
  PROVE  ChainFifo'
<1>. USE DEF SerialInv, workerVars
<1>1. \A ch \in Chains : InExecution(ch)' = InExecution(ch)
  BY DEF AddJob, FindChain, AppendTask, Publish, Signal, InExecution
<1>2. ASSUME NEW k \in Keys, FindChain(c, k) PROVE ChainFifo'
  BY <1>1, <1>2, QuietFifo DEF FindChain
<1>3. CASE AppendTask(c)
  <2>1. PICK q \in Chains : q = cchain[c] BY <1>3 DEF AppendTask, TokenInv, Places
  <2>2. PICK x \in Task : x = ctask[c] BY <1>3 DEF AppendTask, TokenInv, Places
  <2>3. /\ tasks' = [tasks EXCEPT ![q] = Append(@, x)] /\ ran' = ran
        /\ added' = [added EXCEPT ![q] = Append(@, x)]
    BY <1>3, <2>1, <2>2 DEF AppendTask
  <2>. SUFFICES ASSUME NEW ch \in Chains
                PROVE  added'[ch] = ran'[ch] \o InExecution(ch)' \o tasks'[ch]
    BY DEF ChainFifo
  <2>4. /\ tasks \in [Chains -> Seq(Task)] /\ added \in [Chains -> Seq(Task)]
        /\ ran \in [Chains -> Seq(Task)]
    BY DEF TokenInv, TypeOK
  <2>5. added[ch] = ran[ch] \o InExecution(ch) \o tasks[ch] BY DEF ChainFifo
  <2>6. CASE ch # q BY <1>1, <2>3, <2>4, <2>5, <2>6
  <2>7. CASE ch = q
    <3>1. added'[ch] = Append(added[ch], x) /\ tasks'[ch] = Append(tasks[ch], x)
      BY <2>3, <2>4, <2>7
    <3>2. InExecution(ch) \in Seq(Task)
      <4>1. \A w \in Workers : wpc[w] = "exec" => wjob[w] \in Task BY DEF TokenInv, Places
      <4>. QED BY <4>1 DEF InExecution
    <3>3. Append(ran[ch] \o InExecution(ch) \o tasks[ch], x)
            = ran[ch] \o InExecution(ch) \o Append(tasks[ch], x)
      <4>1. ran[ch] \in Seq(Task) /\ tasks[ch] \in Seq(Task) BY <2>4
      <4>2. PICK r \in Seq(Task) : r = ran[ch] BY <4>1
      <4>3. PICK s \in Seq(Task) : s = tasks[ch] BY <4>1
      <4>4. PICK e \in Seq(Task) : e = InExecution(ch) BY <3>2
      <4>5. Append(r \o e \o s, x) = r \o e \o Append(s, x)
        <5>1. r \o e \in Seq(Task) /\ <<x>> \in Seq(Task) OBVIOUS
        <5>2. r \o e \o s \in Seq(Task) BY <5>1
        <5>3. Append(r \o e \o s, x) = r \o e \o s \o <<x>> BY <5>2, AppendIsConcat
        <5>4. Append(s, x) = s \o <<x>> BY AppendIsConcat
        <5>5. PICK a \in Seq(Task) : a = r \o e BY <5>1
        <5>6. PICK b \in Seq(Task) : b = <<x>> BY <5>1
        <5>7. (a \o s) \o b = a \o (s \o b) BY SMTT(30), ConcatAssociative
        <5>. QED BY <5>3, <5>4, <5>5, <5>6, <5>7
      <4>. QED BY <4>2, <4>3, <4>4, <4>5
    <3>. QED BY <1>1, <2>3, <2>5, <3>1, <3>3
  <2>. QED BY <2>6, <2>7
<1>4. CASE Publish(c) BY <1>1, <1>4, QuietFifo DEF Publish
<1>5. CASE Signal(c) BY <1>1, <1>5, QuietFifo DEF Signal, chainVars
<1>. QED BY <1>2, <1>3, <1>4, <1>5 DEF AddJob

(* Every step of a worker keeps the order of jobs: taking a job moves it   *)
(* from the deque to the worker, finishing it from there to the history.   *)
LEMMA FifoWorker ==
  ASSUME SerialInv, NEW w \in Workers, Work(w)
  PROVE  ChainFifo'
<1>. USE DEF SerialInv
<1>1. CASE Top(w)
  <2>1. PICK place : place # "exec" /\ wpc' = [wpc EXCEPT ![w] = place]
    BY <1>1 DEF Top, GoTo
  <2>2. wpc[w] # "exec" /\ UNCHANGED <<wchain, wjob, added, ran, tasks>>
    BY <1>1 DEF Top, chainVars
  <2>. QED BY <2>1, <2>2, QuietExecution, QuietFifo
<1>2. CASE Wait(w)
  <2>1. /\ wpc[w] # "exec" /\ wpc' = [wpc EXCEPT ![w] = "check"]
        /\ UNCHANGED <<wchain, wjob, added, ran, tasks>>
    BY <1>2 DEF Wait, GoTo, chainVars
  <2>. QED BY <2>1, QuietExecution, QuietFifo
<1>3. CASE Check(w)
  <2>1. PICK place : place # "exec" /\ wpc' = [wpc EXCEPT ![w] = place]
    BY <1>3 DEF Check, GoTo
  <2>2. wpc[w] # "exec" /\ UNCHANGED <<wchain, wjob, added, ran, tasks>>
    BY <1>3 DEF Check, chainVars
  <2>. QED BY <2>1, <2>2, QuietExecution, QuietFifo
<1>4. CASE PopChain(w)
  <2>1. /\ wpc[w] # "exec" /\ wpc' = [wpc EXCEPT ![w] = "loop"]
        /\ UNCHANGED <<wjob, added, ran, tasks>>
        /\ \A v \in Workers : v # w => wchain'[v] = wchain[v]
    BY <1>4 DEF PopChain, GoTo, TokenInv, TypeOK
  <2>. QED BY <2>1, QuietExecution, QuietFifo
<1>5. CASE PopNothing(w)
  <2>1. /\ wpc[w] # "exec" /\ wpc' = [wpc EXCEPT ![w] = "top"]
        /\ UNCHANGED <<wchain, wjob, added, ran, tasks>>
    BY <1>5 DEF PopNothing, GoTo
  <2>. QED BY <2>1, QuietExecution, QuietFifo
<1>6. CASE Loop(w)
  <2>1. PICK place : place # "exec" /\ wpc' = [wpc EXCEPT ![w] = place]
    BY <1>6 DEF Loop, GoTo
  <2>2. /\ wpc[w] # "exec" /\ UNCHANGED <<wjob, added, ran, tasks>>
        /\ \A v \in Workers : v # w => wchain'[v] = wchain[v]
    BY <1>6 DEF Loop, chainVars, TokenInv, TypeOK
  <2>. QED BY <2>1, <2>2, QuietExecution, QuietFifo
<1>7. CASE GetNothing(w)
  <2>1. /\ wpc[w] # "exec" /\ wpc' = [wpc EXCEPT ![w] = "top"]
        /\ UNCHANGED <<wjob, added, ran, tasks>>
        /\ \A v \in Workers : v # w => wchain'[v] = wchain[v]
    BY <1>7 DEF GetNothing, GoTo, TokenInv, TypeOK
  <2>. QED BY <2>1, QuietExecution, QuietFifo
<1>. SUFFICES ASSUME GetTask(w) \/ Execute(w), NEW ch \in Chains
              PROVE  added'[ch] = ran'[ch] \o InExecution(ch)' \o tasks'[ch]
  BY <1>1, <1>2, <1>3, <1>4, <1>5, <1>6, <1>7 DEF Work, ChainFifo
<1>8. PICK q \in Chains : q = wchain[w]
  BY DEF GetTask, Execute, TokenInv, Places, TypeOK, Draining
<1>9. /\ tasks \in [Chains -> Seq(Task)] /\ ran \in [Chains -> Seq(Task)]
      /\ wpc \in [Workers -> {"top", "wait", "check", "pop", "exit"} \cup Draining]
      /\ wjob \in [Workers -> 0 .. MaxTasks]
  BY DEF TokenInv, TypeOK
<1>10. added[ch] = ran[ch] \o InExecution(ch) \o tasks[ch] /\ added' = added
  BY DEF ChainFifo, GetTask, Execute
<1>11. wchain' = wchain /\ \A v \in Workers : v # w => wpc'[v] = wpc[v] /\ wjob'[v] = wjob[v]
  BY <1>9 DEF GetTask, Execute, GoTo
<1>12. ch # q => InExecution(ch)' = InExecution(ch)
  <2>. SUFFICES ASSUME ch # q PROVE InExecution(ch)' = InExecution(ch) OBVIOUS
  <2>1. /\ \A v \in Workers :
             (wpc'[v] = "exec" /\ wchain'[v] = ch) <=> (wpc[v] = "exec" /\ wchain[v] = ch)
        /\ \A v \in Workers : wpc[v] = "exec" /\ wchain[v] = ch => wjob'[v] = wjob[v]
    BY <1>8, <1>11
  <2>. QED BY <2>1, SameInExecution
<1>13. \A v \in Workers : wpc[v] = "exec" /\ wchain[v] = q => v = w
  BY <1>8 DEF GetTask, Execute, TokenInv, OneToken, ChainExclusive, Drainer, Draining
<1>14. ran[ch] \in Seq(Task) /\ tasks[ch] \in Seq(Task) BY <1>9
<1>15. CASE GetTask(w)
  <2>1. /\ tasks[q] # <<>> /\ wjob'[w] = Head(tasks[q]) /\ wpc'[w] = "exec"
        /\ tasks' = [tasks EXCEPT ![q] = Tail(@)] /\ ran' = ran /\ wpc[w] # "exec"
    BY <1>8, <1>9, <1>15 DEF GetTask, GoTo, Taken
  <2>2. CASE ch # q BY <1>9, <1>10, <1>12, <2>1, <2>2
  <2>3. CASE ch = q
    <3>1. InExecution(ch) = <<>> BY <1>13, <2>1, <2>3 DEF InExecution
    <3>2. Executing(wpc', wchain', wjob', ch) = <<wjob'[w]>>
      <4>1. wpc'[w] = "exec" /\ wchain'[w] = ch BY <1>8, <1>11, <2>1, <2>3
      <4>2. \A v \in Workers : wpc'[v] = "exec" /\ wchain'[v] = ch => v = w
        BY <1>11, <1>13, <2>3
      <4>3. PICK jobs : jobs = wjob' OBVIOUS
      <4>4. PICK places : places = wpc' OBVIOUS
      <4>5. PICK chains : chains = wchain' OBVIOUS
      <4>6. Executing(places, chains, jobs, ch) = <<jobs[w]>>
        BY <4>1, <4>2, <4>4, <4>5, OneExecuting
      <4>. QED BY <4>3, <4>4, <4>5, <4>6
    <3>3. InExecution(ch)' = <<Head(tasks[ch])>>
      BY <2>1, <2>3, <3>2 DEF InExecution, Executing
    <3>4. tasks'[ch] = Tail(tasks[ch]) BY <1>9, <2>1, <2>3
    <3>5. ran[ch] \o <<>> \o tasks[ch] = ran[ch] \o <<Head(tasks[ch])>> \o Tail(tasks[ch])
      <4>1. tasks[ch] # <<>> /\ Head(tasks[ch]) \in Task BY <1>14, <2>1, <2>3
      <4>. QED BY <1>14, <4>1, HistoryMoves
    <3>. QED BY <1>10, <2>1, <3>1, <3>3, <3>4, <3>5
  <2>. QED BY <2>2, <2>3
<1>16. CASE Execute(w)
  <2>1. /\ wpc[w] = "exec" /\ wpc'[w] # "exec" /\ tasks' = tasks
        /\ ran' = [ran EXCEPT ![q] = Append(@, wjob[w])]
    BY <1>8, <1>9, <1>16 DEF Execute, GoTo, chainVars
  <2>2. CASE ch # q BY <1>9, <1>10, <1>12, <2>1, <2>2
  <2>3. CASE ch = q
    <3>1. Executing(wpc, wchain, wjob, ch) = <<wjob[w]>>
      <4>1. wpc[w] = "exec" /\ wchain[w] = ch BY <1>8, <2>1, <2>3
      <4>2. \A v \in Workers : wpc[v] = "exec" /\ wchain[v] = ch => v = w
        BY <1>13, <2>3
      <4>. QED BY <4>1, <4>2, OneExecuting
    <3>2. InExecution(ch) = <<wjob[w]>> BY <3>1 DEF InExecution, Executing
    <3>3. InExecution(ch)' = <<>> BY <1>11, <1>13, <2>1, <2>3 DEF InExecution
    <3>4. ran'[ch] = Append(ran[ch], wjob[w]) BY <1>9, <2>1, <2>3
    <3>5. wjob[w] \in Task BY <2>1 DEF TokenInv, Places
    <3>6. ran[ch] \o <<wjob[w]>> \o tasks[ch] = Append(ran[ch], wjob[w]) \o <<>> \o tasks[ch]
      <4>1. \A r, s \in Seq(Task), x \in Task : r \o <<x>> \o s = Append(r, x) \o <<>> \o s
        BY HistoryMoves
      <4>. QED BY <1>14, <3>5, <4>1
    <3>. QED BY <1>10, <2>1, <3>2, <3>3, <3>4, <3>6
  <2>. QED BY <2>2, <2>3
<1>. QED BY <1>15, <1>16

(* A key keeps its chain until remove_chain takes it away.                 *)
LEMMA KeyKeptStep == SerialInv /\ [Next]_vars => KeyKept'
<1>. SUFFICES ASSUME SerialInv, [Next]_vars PROVE KeyKept' OBVIOUS
<1>. USE ChainConstants DEF SerialInv, KeyKept
<1>1. /\ chainOf \in [Keys -> Chains \cup {None}]
      /\ keyOf \in [Chains -> Keys \cup {None}]
  BY DEF TokenInv, TypeOK
<1>2. ASSUME NEW c \in Clients, NEW k \in Keys, FindChain(c, k) PROVE KeyKept'
  <2>1. CASE chainOf[k] # None BY <1>2, <2>1 DEF FindChain
  <2>2. CASE chainOf[k] = None
    <3>1. PICK new \in Chains : /\ keyOf[new] = None
                                /\ chainOf' = [chainOf EXCEPT ![k] = new]
                                /\ keyOf' = [keyOf EXCEPT ![new] = k]
      BY <1>2, <2>2 DEF FindChain
    <3>2. \A ch \in Chains : keyOf[ch] \in Keys \ Removable => keyOf[ch] # k
      BY <2>2
    <3>. QED BY <1>1, <3>1, <3>2
  <2>. QED BY <2>1, <2>2
<1>3. ASSUME NEW k \in Keys, RemoveChain(k) PROVE KeyKept'
  BY <1>1, <1>3 DEF RemoveChain
<1>4. CASE UNCHANGED <<chainOf, keyOf>> BY <1>4
<1>5. ASSUME NEW c \in Clients, AppendTask(c) \/ Publish(c) \/ Signal(c)
      PROVE  UNCHANGED <<chainOf, keyOf>>
  BY <1>5 DEF AppendTask, Publish, Signal, chainVars
<1>6. ASSUME NEW w \in Workers, Work(w) PROVE UNCHANGED <<chainOf, keyOf>>
  BY <1>6 DEF Work, Top, Wait, Check, PopChain, PopNothing, Loop, GetTask, GetNothing,
              Execute, chainVars
<1>7. CASE Stop BY <1>4, <1>7 DEF Stop, chainVars
<1>8. CASE UNCHANGED vars BY <1>4, <1>8 DEF vars, chainVars
<1>. QED BY <1>2, <1>3, <1>4, <1>5, <1>6, <1>7, <1>8 DEF Next, AddJob

(* Every step keeps the order of jobs.                                     *)
LEMMA FifoStep == SerialInv /\ [Next]_vars => ChainFifo'
<1>. SUFFICES ASSUME SerialInv, [Next]_vars PROVE ChainFifo' OBVIOUS
<1>1. ASSUME NEW k \in Keys, RemoveChain(k) PROVE ChainFifo'
  BY <1>1 DEF SerialInv, RemoveChain, workerVars, ChainFifo, InExecution
<1>2. CASE Stop
  BY <1>2 DEF SerialInv, Stop, chainVars, workerVars, ChainFifo, InExecution
<1>3. CASE UNCHANGED vars
  BY <1>3 DEF SerialInv, vars, chainVars, workerVars, ChainFifo, InExecution
<1>. QED BY <1>1, <1>2, <1>3, FifoClient, FifoWorker DEF Next

(* The jobs of a key that nobody removes never overlap, and the jobs of    *)
(* every chain run in the order add_task appended them, none lost and none *)
(* twice: for any number of clients, workers, keys, chains and jobs.       *)
THEOREM SerialKeys == Spec => []KeySerial
<1>1. Init => SerialInv
  <2>. SUFFICES ASSUME Init PROVE SerialInv OBVIOUS
  <2>1. TokenInv BY TypeInit, TokensInit DEF TokenInv, Tokens
  <2>2. KeyKept BY ChainConstants DEF Init, KeyKept
  <2>3. \A ch \in Chains : InExecution(ch) = <<>> BY DEF Init, InExecution
  <2>4. <<>> \o <<>> \o <<>> = <<>> OBVIOUS
  <2>5. ChainFifo BY <2>3, <2>4 DEF Init, ChainFifo
  <2>. QED BY <2>1, <2>2, <2>5 DEF SerialInv
<1>2. SerialInv /\ [Next]_vars => SerialInv'
  BY TokenStep, KeyKeptStep, FifoStep DEF SerialInv
<1>3. SerialInv => KeySerial
  <2>. SUFFICES ASSUME SerialInv, NEW v \in Workers, NEW w \in Workers,
                       wpc[v] = "exec", wpc[w] = "exec",
                       keyOf[wchain[v]] = keyOf[wchain[w]],
                       keyOf[wchain[v]] \notin Removable
                PROVE  v = w
    BY DEF SerialInv, KeySerial, KeyExclusive
  <2>1. PICK ch \in Chains : ch = wchain[v]
    BY DEF SerialInv, TokenInv, Places, TypeOK, Draining
  <2>2. PICK dh \in Chains : dh = wchain[w]
    BY DEF SerialInv, TokenInv, Places, TypeOK, Draining
  <2>3. keyOf[ch] # None /\ keyOf[ch] \in Keys
    BY <2>1 DEF SerialInv, TokenInv, Unborn, Owned, TypeOK
  <2>4. ch = dh BY <2>1, <2>2, <2>3 DEF SerialInv, KeyKept
  <2>. QED BY <2>1, <2>2, <2>4, OneExecutor DEF SerialInv
<1>. QED BY <1>1, <1>2, <1>3, PTL DEF Spec
=============================================================================
