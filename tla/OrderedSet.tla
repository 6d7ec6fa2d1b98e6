----------------------------- MODULE OrderedSet -----------------------------
(***************************************************************************)
(* What a hash set promises: a set that remembers the order in which its   *)
(* keys came, and iteration in that order.  todo is what an open iterator  *)
(* has still to visit, call the last call, out what it returned.           *)
(***************************************************************************)
EXTENDS Sequences, SequencesExt

VARIABLES keys, todo, call, out

Init == keys = <<>> /\ todo = <<>> /\ call = <<"new">> /\ out = FALSE

Without(s, k) == SelectSeq(s, LAMBDA j : j # k)

\* An iterator that has not reached the end meets a key that is added
Add(k) ==
  /\ out' = ~Contains(keys, k)
  /\ keys' = IF out' THEN Append(keys, k) ELSE keys
  /\ todo' = IF out' /\ todo # <<>> THEN Append(todo, k) ELSE todo

Drop(k) ==
  /\ out' = Contains(keys, k)
  /\ keys' = Without(keys, k) /\ todo' = Without(todo, k)

Step ==
  CASE call'[1] = "add"      -> Add(call'[2])
    [] call'[1] = "remove"   -> Drop(call'[2])
    [] call'[1] = "contains" -> out' = Contains(keys, call'[2]) /\ UNCHANGED <<keys, todo>>
    [] call'[1] = "reset"    -> keys' = <<>> /\ todo' = <<>> /\ UNCHANGED out
    [] call'[1] = "iterator" -> todo' = keys /\ UNCHANGED <<keys, out>>
    [] call'[1] = "next"     -> out' = Head(todo) /\ todo' = Tail(todo) /\ UNCHANGED keys
    [] call'[1] = "delete"   -> todo' = <<>> /\ UNCHANGED <<keys, out>>
    [] OTHER -> FALSE

Spec == Init /\ [][Step]_<<keys, todo, call, out>>
=============================================================================
