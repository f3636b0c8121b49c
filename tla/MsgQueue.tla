------------------------------ MODULE MsgQueue ------------------------------
(***************************************************************************)
(* What a ring buffer promises its users: a FIFO of messages whose order   *)
(* is fixed when a block is reserved.  A reserved message is written and   *)
(* then committed or skipped; the consumer sees the first message that is  *)
(* not skipped, only once it is committed, and keeps it until it frees it. *)
(***************************************************************************)
EXTENDS Naturals, Sequences

CONSTANT Msgs              \* what may be written into a block

VARIABLES
  queue,                   \* reserved and not yet released entries, in order
  held,                    \* the message the consumer looks at, 0 if none
  out                      \* messages the consumer has freed, in order

vars == <<queue, held, out>>

Entry == [st : {"busy", "commited", "skipped"}, msg : Msgs \cup {0}]

Init == queue = <<>> /\ held = 0 /\ out = <<>>

Reserve ==
  /\ queue' = Append(queue, [st |-> "busy", msg |-> 0])
  /\ UNCHANGED <<held, out>>

Write(i, m) ==
  /\ queue[i] = [st |-> "busy", msg |-> 0]
  /\ queue' = [queue EXCEPT ![i].msg = m]
  /\ UNCHANGED <<held, out>>

Resolve(i, s) ==
  /\ queue[i].st = "busy"
  /\ s = "commited" => queue[i].msg # 0
  /\ queue' = [queue EXCEPT ![i].st = s,
                            ![i].msg = IF s = "skipped" THEN 0 ELSE @]
  /\ UNCHANGED <<held, out>>

IsFirst(i) ==
  /\ queue[i].st = "commited"
  /\ \A j \in 1 .. i - 1 : queue[j].st = "skipped"

Peek(i) ==
  /\ held = 0
  /\ IsFirst(i)
  /\ held' = queue[i].msg
  /\ UNCHANGED <<queue, out>>

DropSkipped ==
  /\ held = 0
  /\ \A i \in DOMAIN queue : queue[i].st = "skipped"
  /\ queue' = <<>>
  /\ UNCHANGED <<held, out>>

Rest_same(i) == queue
Rest(i) == SubSeq(queue, i + 1, Len(queue))

Free(i) ==
  /\ held # 0
  /\ IsFirst(i)
  /\ queue[i].msg = held
  /\ queue' = Rest(i)
  /\ out' = Append(out, held)
  /\ held' = 0

Next ==
  \/ Reserve
  \/ DropSkipped
  \/ \E i \in DOMAIN queue :
       \/ \E m \in Msgs : Write(i, m)
       \/ \E s \in {"commited", "skipped"} : Resolve(i, s)
       \/ Peek(i)
       \/ Free(i)

Spec == Init /\ [][Next]_vars

=============================================================================
