----------------------------- MODULE ClockVector -----------------------------
(***************************************************************************)
(* Clock vectors (clockvector.cc).  The C++ object is a growable array; an *)
(* entry past its end reads as 0, so a vector is a total function from     *)
(* thread ids to sequence numbers.  The one place where an absent entry is *)
(* not the same as 0 is synchronized_since on an action with sequence      *)
(* number 0: such an action belongs to thread 0, whose entry every vector  *)
(* built from an action has.                                               *)
(***************************************************************************)
EXTENDS Naturals

CONSTANT Thread

Vector == [Thread -> Nat]

\* ClockVector(NULL, NULL)
ZeroVector == [t \in Thread |-> 0]

MaxNat(a, b) == IF a > b THEN a ELSE b

\* ClockVector(parent, act), with act the action number seq of thread tid
NewVector(parent, tid, seq) == [parent EXCEPT ![tid] = seq]

\* merge: the element-wise maximum
Merge(cv, other) == [t \in Thread |-> MaxNat(cv[t], other[t])]

\* cv <= other, element by element: merging cv into other changes nothing
VectorLeq(cv, other) == \A t \in Thread : cv[t] <= other[t]

\* synchronized_since: has the owner of cv seen action number seq of tid?
SynchronizedSince(cv, tid, seq) == seq <= cv[tid]
=============================================================================
