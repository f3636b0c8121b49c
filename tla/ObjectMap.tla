----------------------------- MODULE ObjectMap -----------------------------
(***************************************************************************)
(* What a map of keys to objects promises: asking for a missing key makes  *)
(* a default object, an object changes only through its own key, and it is *)
(* gone when its key is erased.                                            *)
(***************************************************************************)
CONSTANTS Keys, Values, Default, Absent

VARIABLE map

Init == map = [k \in Keys |-> Absent]

Insert(k) ==
  /\ map[k] = Absent
  /\ map' = [map EXCEPT ![k] = Default]

Assign(k, v) ==
  /\ map[k] # Absent
  /\ map' = [map EXCEPT ![k] = v]

Erase(k) == map' = [map EXCEPT ![k] = Absent]

Next ==
  \E k \in Keys : Insert(k) \/ Erase(k) \/ \E v \in Values : Assign(k, v)

Spec == Init /\ [][Next]_map

=============================================================================
