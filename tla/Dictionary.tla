----------------------------- MODULE Dictionary -----------------------------
(***************************************************************************)
(* What a hash table promises: a map from keys to values.                  *)
(***************************************************************************)
CONSTANTS Key, Val, None
VARIABLES dict, ret  \* the map, and what the last operation returned

Init == dict = [k \in Key |-> None] /\ ret = None

\* old and new are the map before and after
Put(old, new, k, v) == new = [old EXCEPT ![k] = v] /\ ret' = None
Remove(old, new, k) == new = [old EXCEPT ![k] = None] /\ ret' = old[k]
Reset(new) == new = [k \in Key |-> None] /\ ret' = None

Next ==
  \E old \in {dict}, new \in {dict'} :
    Reset(new) \/ \E k \in Key : Remove(old, new, k) \/ \E v \in Val : Put(old, new, k, v)

Spec == Init /\ [][Next]_<<dict, ret>>
=============================================================================
