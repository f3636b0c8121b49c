------------------------------- MODULE Event -------------------------------
(***************************************************************************)
(* What threading::wait_for_single_object promises: an event that resets   *)
(* itself.  set makes it signalled, however often it is called; one wait   *)
(* that returns true takes the signal; a wait that returns false saw none. *)
(***************************************************************************)
CONSTANT Waiters

VARIABLES
  signalled,     \* somebody called set and no wait has taken it yet
  waiting        \* for each waiter: is it inside wait

vars == <<signalled, waiting>>

Init ==
  /\ signalled = FALSE
  /\ waiting = [w \in Waiters |-> FALSE]

Set == signalled' = TRUE /\ UNCHANGED waiting

Enter(w) ==
  /\ ~waiting[w]
  /\ waiting' = [waiting EXCEPT ![w] = TRUE]
  /\ UNCHANGED signalled

Take(w) ==
  /\ waiting[w]
  /\ signalled
  /\ signalled' = FALSE
  /\ waiting' = [waiting EXCEPT ![w] = FALSE]

GiveUp(w) ==
  /\ waiting[w]
  /\ ~signalled
  /\ waiting' = [waiting EXCEPT ![w] = FALSE]
  /\ UNCHANGED signalled

Next == Set \/ \E w \in Waiters : Enter(w) \/ Take(w) \/ GiveUp(w)

Spec == Init /\ [][Next]_vars

=============================================================================
