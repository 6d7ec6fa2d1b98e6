------------------------------- MODULE Vector -------------------------------
(***************************************************************************)
(* ModelVector and SnapVector of stl-model.h, which differ only in the     *)
(* heap they allocate from: an array that doubles when it is full.  What   *)
(* malloc and realloc return beyond the old contents is Garbage.           *)
(***************************************************************************)
EXTENDS Integers, Sequences, FiniteSets

CONSTANTS
  Val,
  Zero,        \* an element of zero bytes, as bzero leaves it
  Garbage,     \* whatever the heap held before
  Capacities,  \* the capacities a vector may be created with, none of them zero
  MaxSize      \* bound: the vector is not grown beyond it

VARIABLES array, size, call
vars == <<array, size, call>>

capacity == Cardinality(DOMAIN array)

Init ==
  /\ \E c \in Capacities : array = [i \in 0..c - 1 |-> Garbage]
  /\ size = 0 /\ call = <<"new">>

Realloc(A, c) == [i \in 0..c - 1 |-> IF i \in DOMAIN A THEN A[i] ELSE Garbage]

\* Faulty variant: only what the heap added is cleared
ResizedUncleared(A, n) ==
  LET B == IF n > Cardinality(DOMAIN A) THEN Realloc(A, 2 * n) ELSE A
  IN  [i \in DOMAIN B |-> IF i \in DOMAIN B \ DOMAIN A /\ i < n THEN Zero ELSE B[i]]

\* The array of resize(n) for n greater than the size: what is gained is cleared
Resized(A, n) ==
  LET B == IF n > Cardinality(DOMAIN A) THEN Realloc(A, 2 * n) ELSE A
  IN  [i \in DOMAIN B |-> IF size <= i /\ i < n THEN Zero ELSE B[i]]

ResizedTo(n) == IF n <= size THEN array ELSE Resized(array, n)

resize(n) ==
  /\ call' = <<"resize", n>>
  /\ array' = ResizedTo(n) /\ size' = n

push_back(v) ==
  /\ size < MaxSize
  /\ call' = <<"push_back", v>>
  /\ \E A \in {IF size >= capacity THEN Realloc(array, 2 * capacity) ELSE array} : array' = [A EXCEPT ![size] = v]
  /\ size' = size + 1

pop_back == size > 0 /\ call' = <<"pop_back">> /\ size' = size - 1 /\ UNCHANGED array

clear == call' = <<"clear">> /\ size' = 0 /\ UNCHANGED array

set(i, v) ==
  /\ i < size
  /\ call' = <<"set", i, v>>
  /\ array' = [array EXCEPT ![i] = v] /\ UNCHANGED size

setExpand(i, v) ==
  /\ call' = <<"setExpand", i, v>>
  /\ array' = [ResizedTo(IF i >= size THEN i + 1 ELSE size) EXCEPT ![i] = v]
  /\ size' = IF i >= size THEN i + 1 ELSE size

\* The elements from index on move up, the last first
insertAt(index, v) ==
  /\ index <= size /\ size < MaxSize
  /\ call' = <<"insert", index, v>>
  /\ \E A \in {ResizedTo(size + 1)} :
       array' = [i \in DOMAIN A |-> IF index < i /\ i <= size THEN A[i - 1] ELSE IF i = index THEN v ELSE A[i]]
  /\ size' = size + 1

\* The elements after index move down
ShiftedDown(A, index) == [i \in DOMAIN A |-> IF index <= i /\ i + 1 < size THEN A[i + 1] ELSE A[i]]

removeAt(index) ==
  /\ index < size
  /\ call' = <<"erase", index>>
  /\ array' = ShiftedDown(array, index) /\ size' = size - 1

\* The first element equal to v; nothing happens when there is none
remove(v) ==
  /\ call' = <<"remove", v>>
  /\ \/ \E i \in 0..size - 1 :
          /\ array[i] = v /\ \A j \in 0..i - 1 : array[j] # v
          /\ array' = ShiftedDown(array, i) /\ size' = size - 1
     \/ (\A i \in 0..size - 1 : array[i] # v) /\ UNCHANGED <<array, size>>

Next ==
  \/ pop_back \/ clear
  \/ \E v \in Val : push_back(v) \/ remove(v)
  \/ \E i \in 0..MaxSize - 1 : removeAt(i) \/ \E v \in Val : set(i, v) \/ setExpand(i, v) \/ insertAt(i, v)
  \/ \E n \in 0..MaxSize : resize(n)

Spec == Init /\ [][Next]_vars

-----------------------------------------------------------------------------
(* Property *)

\* Every call does to the elements 0 to size - 1 what it says, through every
\* doubling of the array and whatever stale elements lie beyond the size: none
\* of them comes back.
S == INSTANCE Sequence WITH seq <- [i \in 1..size |-> array[i - 1]]
VectorImplementsSequence == S!Spec
=============================================================================
