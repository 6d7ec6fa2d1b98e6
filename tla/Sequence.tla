------------------------------ MODULE Sequence ------------------------------
(***************************************************************************)
(* What a list or a vector promises: a sequence, and what each call does   *)
(* to it.  call is the last call, with its arguments; indices count from   *)
(* zero.                                                                   *)
(***************************************************************************)
EXTENDS Naturals, Sequences

CONSTANT Zero
VARIABLES seq, call

Grow(s, n) == [i \in 1..n |-> IF i <= Len(s) THEN s[i] ELSE Zero]

Inserted(s, i, v) == [j \in 1..Len(s) + 1 |-> IF j < i THEN s[j] ELSE IF j = i THEN v ELSE s[j - 1]]
Removed(s, i) == [j \in 1..Len(s) - 1 |-> IF j < i THEN s[j] ELSE s[j + 1]]
First(s, v) == CHOOSE i \in 1..Len(s) : s[i] = v /\ \A j \in 1..i - 1 : s[j] # v

Effect(c, s) ==
  CASE c[1] = "push_front" -> <<c[2]>> \o s
    [] c[1] = "push_back"  -> Append(s, c[2])
    [] c[1] = "pop_front"  -> Tail(s)
    [] c[1] = "pop_back"   -> SubSeq(s, 1, Len(s) - 1)
    [] c[1] = "clear"      -> <<>>
    [] c[1] = "insert"     -> Inserted(s, c[2] + 1, c[3])
    [] c[1] = "erase"      -> Removed(s, c[2] + 1)
    [] c[1] = "remove"     -> IF \E i \in 1..Len(s) : s[i] = c[2] THEN Removed(s, First(s, c[2])) ELSE s
    [] c[1] = "resize"     -> Grow(s, c[2])
    [] c[1] = "set"        -> [s EXCEPT ![c[2] + 1] = c[3]]
    [] c[1] = "setExpand"  -> [Grow(s, IF c[2] < Len(s) THEN Len(s) ELSE c[2] + 1) EXCEPT ![c[2] + 1] = c[3]]
    [] OTHER -> s

Init == seq = <<>> /\ call = <<"new">>

Next == seq' = Effect(call', seq)

Spec == Init /\ [][Next]_<<seq, call>>
=============================================================================
