---------------------------- MODULE SortedList ----------------------------
(***************************************************************************)
(* What an action list promises: the actions in the order of their clocks, *)
(* and in the order of their arrival where clocks are equal.               *)
(***************************************************************************)
EXTENDS Naturals, Sequences

CONSTANT Action
VARIABLES clock, list

Init == clock \in [Action -> Nat] /\ list = <<>>

Insert(a) ==
  /\ \A i \in DOMAIN list : list[i] # a
  /\ list' = SelectSeq(list, LAMBDA b : clock[b] <= clock[a]) \o <<a>> \o SelectSeq(list, LAMBDA b : clock[b] > clock[a])

Remove(a) == list' = SelectSeq(list, LAMBDA b : b # a)

Clear == list' = <<>>

Next == UNCHANGED clock /\ (Clear \/ \E a \in Action : Insert(a) \/ Remove(a))

Spec == Init /\ [][Next]_<<clock, list>>
=============================================================================
