------------------------------ MODULE HashTable ------------------------------
(***************************************************************************)
(* hashtable.h: open addressing with linear probing.  The table doubles    *)
(* when it is more than half full; a removal moves later entries back, so  *)
(* that no probe sequence is cut.  The key zero has a place of its own.    *)
(***************************************************************************)
EXTENDS Naturals, Sequences, FiniteSets, FiniteSetsExt, SequencesExt

CONSTANTS
  Key,              \* keys, as numbers; 0 is the null pointer
  Val,              \* values
  None,             \* no value (the code returns 0)
  Shift,            \* bits of a key that default_hash_function drops
  InitialCapacity,  \* a power of two, at least four
  MaxCapacity       \* bound: the table is not resized beyond it

VARIABLES
  table,  \* index -> key and value; an empty bin has key zero
  zero,   \* the value of the key zero
  size, ret
vars == <<table, zero, size, ret>>

EmptyBin == [key |-> 0, val |-> None]
NewTable(n) == [i \in 0..n - 1 |-> EmptyBin]

capacity == Cardinality(DOMAIN table)
threshold == capacity \div 2

Hash(k, T) == (k \div 2^Shift) % Cardinality(DOMAIN T)

\* Where the probe sequence of k ends: at k, or at the first empty bin
RECURSIVE ProbeFrom(_, _, _)
ProbeFrom(T, k, i) == IF T[i].key \in {0, k} THEN i ELSE ProbeFrom(T, k, (i + 1) % Cardinality(DOMAIN T))

Probe(T, k) == ProbeFrom(T, k, Hash(k, T))

get(k) == IF k = 0 THEN zero ELSE table[Probe(table, k)].val

contains(k) == IF k = 0 THEN zero # None ELSE table[Probe(table, k)].key = k

\* The bins of the old table from index i on, each put into the first free bin
RECURSIVE Reinsert(_, _, _)
Reinsert(N, T, i) ==
  IF i \notin DOMAIN T THEN N
  ELSE Reinsert(IF T[i].key = 0 THEN N ELSE [N EXCEPT ![Probe(N, T[i].key)] = T[i]], T, i + 1)

Resize(T, n) == Reinsert(NewTable(n), T, 0)

-----------------------------------------------------------------------------
Init == table = NewTable(InitialCapacity) /\ zero = None /\ size = 0 /\ ret = None

GrowNever == table

\* The table that put works on
Grow == IF size > threshold THEN Resize(table, 2 * capacity) ELSE table

PutZero(v) ==
  /\ zero' = v
  /\ size' = IF zero = None THEN size + 1 ELSE size
  /\ UNCHANGED table

Put(k, v) ==
  /\ ret' = None
  /\ \/ k = 0 /\ PutZero(v)
     \/ /\ k # 0
        /\ size > threshold => 2 * capacity <= MaxCapacity
        /\ \E T \in {Grow} : \E i \in {Probe(T, k)} :
             /\ table' = [T EXCEPT ![i] = [key |-> k, val |-> v]]
             /\ size' = IF T[i].key = k THEN size ELSE size + 1
        /\ UNCHANGED zero

StaysBehind(hole, j, h) == hole < h /\ h <= j

\* An entry in bin j whose probe sequence starts at h need not move to the hole
Stays(hole, j, h) ==
  \/ hole <= j /\ hole < h /\ h <= j
  \/ hole > j /\ (hole < h \/ h <= j)

\* Bring entries after j back into the hole until an empty bin comes
RECURSIVE CloseHole(_, _, _)
CloseHole(T, hole, j) ==
  LET i == (j + 1) % capacity
  IN  IF T[i] = EmptyBin THEN T
      ELSE IF Stays(hole, i, Hash(T[i].key, T)) THEN CloseHole(T, hole, i)
      ELSE CloseHole([T EXCEPT ![hole] = T[i], ![i] = EmptyBin], i, i)

remove(k) ==
  LET i == Probe(table, k)
  IN  \/ /\ k = 0
         /\ zero' = None /\ ret' = zero
         /\ size' = IF zero = None THEN size ELSE size - 1
         /\ UNCHANGED table
      \/ /\ k # 0 /\ table[i].key = k
         /\ table' = CloseHole([table EXCEPT ![i] = EmptyBin], i, i)
         /\ size' = size - 1
         /\ ret' = table[i].val
         /\ UNCHANGED zero
      \/ /\ k # 0 /\ table[i].key # k
         /\ ret' = None
         /\ UNCHANGED <<table, zero, size>>

\* reset, and resetanddelete, which also frees the values; the capacity stays
reset == table' = NewTable(capacity) /\ zero' = None /\ size' = 0 /\ ret' = None

Next == reset \/ \E k \in Key : remove(k) \/ \E v \in Val : Put(k, v)

Spec == Init /\ [][Next]_vars

-----------------------------------------------------------------------------
(* Properties *)

\* The table is a map: get and contains see what put and remove did, whatever
\* keys collide, wherever removals moved entries and whenever the table grew.
Map == INSTANCE Dictionary WITH dict <- [k \in Key |-> IF contains(k) THEN get(k) ELSE None]
ImplementsDictionary == Map!Spec

\* size counts the keys, each of which is in one bin: it decides when to grow.
SizeExact ==
  LET used == {i \in DOMAIN table : table[i].key # 0}
  IN  /\ size = Cardinality({k \in Key : contains(k)})
      /\ \A i, j \in used : table[i].key = table[j].key => i = j

\* contains, remove and resize look for an empty bin without counting the bins
\* they pass: there always is one.
ProbesEnd == \E i \in DOMAIN table : table[i] = EmptyBin
=============================================================================
