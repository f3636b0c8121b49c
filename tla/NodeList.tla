------------------------------ MODULE NodeList ------------------------------
(***************************************************************************)
(* list.hpp: rings of nodes handled through pointers to their data.  The   *)
(* client owns the nodes: it links a node that is alone or was removed,    *)
(* removes and destroys nodes, and destroys a whole ring.                  *)
(***************************************************************************)
EXTENDS Integers, FiniteSets

CONSTANTS Nodes

ASSUME ListAssumption == IsFiniteSet(Nodes)

VARIABLES
  nprev, nnext,   \* _prev and _next
  nstate,         \* "none", "ring", "removed", "freed"
  spoiled         \* a pointer of a node was written that should not have been

listVars == <<nprev, nnext, nstate, spoiled>>

ListInit ==
  /\ nprev = [n \in Nodes |-> n] /\ nnext = [n \in Nodes |-> n]
  /\ nstate = [n \in Nodes |-> "none"] /\ spoiled = FALSE

Create(n) ==
  /\ nstate[n] = "none" /\ nstate' = [nstate EXCEPT ![n] = "ring"]
  /\ nprev' = [nprev EXCEPT ![n] = n] /\ nnext' = [nnext EXCEPT ![n] = n]
  /\ UNCHANGED spoiled

Alone(n) == nstate[n] = "removed" \/ (nstate[n] = "ring" /\ nnext[n] = n)

\* As a bug: the right neighbour is not told.
InsertAfter_oneWay(l, t) ==
  /\ nstate[l] = "ring" /\ Alone(t) /\ l # t
  /\ nnext' = [nnext EXCEPT ![l] = t, ![t] = nnext[l]]
  /\ nprev' = [nprev EXCEPT ![t] = l]
  /\ nstate' = [nstate EXCEPT ![t] = "ring"]
  /\ UNCHANGED spoiled
InsertAfter(l, t) ==
  /\ nstate[l] = "ring" /\ Alone(t) /\ l # t
  /\ nnext' = [nnext EXCEPT ![l] = t, ![t] = nnext[l]]
  /\ nprev' = [nprev EXCEPT ![t] = l, ![nnext[l]] = t]
  /\ nstate' = [nstate EXCEPT ![t] = "ring"]
  /\ UNCHANGED spoiled

\* The neighbours are joined; the node keeps its pointers to them.
Unlink(t) ==
  /\ nnext' = [nnext EXCEPT ![nprev[t]] = nnext[t]]
  /\ nprev' = [nprev EXCEPT ![nnext[t]] = nprev[t]]

RemoveNode(t) ==
  /\ nstate[t] = "ring" /\ nnext[t] # t /\ Unlink(t)
  /\ nstate' = [nstate EXCEPT ![t] = "removed"]
  /\ UNCHANGED spoiled

\* Joins the neighbours once more: of a removed node those it had then.
Neighbours(t) == {nprev[t], nnext[t]} \ {t}
Harmless(t) ==
  /\ nnext[nprev[t]] = nnext[t] /\ nprev[nnext[t]] = nprev[t]
  /\ \A n \in Neighbours(t) : nstate[n] = "ring"

Destroy(t) ==
  /\ nstate[t] \in {"ring", "removed"} /\ Unlink(t)
  /\ nstate' = [nstate EXCEPT ![t] = "freed"]
  /\ spoiled' = (nstate[t] = "removed" /\ ~Harmless(t))

\* The nodes the loop of destroy_all comes to: from t on until it is back.
walk[k \in Nat] == [t \in Nodes |-> IF k = 0 THEN t ELSE nnext[walk[k - 1][t]]]
RingOf(t) == {walk[k][t] : k \in 0 .. Cardinality(Nodes)}

DestroyAll(t) ==
  /\ nstate[t] = "ring"
  /\ nstate' = [n \in Nodes |-> IF n \in RingOf(t) THEN "freed" ELSE nstate[n]]
  /\ UNCHANGED <<nprev, nnext, spoiled>>

ListNext ==
  /\ ~spoiled
  /\ \E n \in Nodes : \/ Create(n) \/ RemoveNode(n) \/ Destroy(n) \/ DestroyAll(n)
                      \/ \E l \in Nodes : InsertAfter(l, n)

(* Rings are circular both ways and contain living nodes only, whatever is *)
(* linked, removed and destroyed: a walk comes back to where it began and  *)
(* destroy_all frees nothing twice.  The exception is destroy on a node    *)
(* that was removed before: it joins the neighbours the node had then,     *)
(* which takes out what was linked between them since, or writes into      *)
(* freed nodes (list.hpp:66).                                              *)
RingsIntact ==
  ~spoiled =>
    \A n \in Nodes : nstate[n] = "ring" =>
      /\ nprev[nnext[n]] = n /\ nnext[nprev[n]] = n
      /\ nstate[nnext[n]] = "ring"
      /\ n \in RingOf(nnext[n])
=============================================================================
