------------------------------- MODULE HashSet -------------------------------
(***************************************************************************)
(* hashset.h: a hash table from keys to link nodes, which are also chained *)
(* in the order of their arrival, and iterators over the chain.  The       *)
(* values of the hash table are addresses of link nodes.                   *)
(***************************************************************************)
EXTENDS HashTable

VARIABLES
  link,        \* allocated link node -> key, prev, next
  list, last,  \* the ends of the chain (the code's list and tail)
  curr, prior, \* the iterator: what next() returns next, and returned last
  call, out    \* the last call and its result
setVars == <<link, list, last, curr, prior, call, out>>

HSInit ==
  /\ link = <<>> /\ list = None /\ last = None
  /\ curr = None /\ prior = None /\ call = <<"new">> /\ out = FALSE

add(k) ==
  /\ call' = <<"add", k>>
  /\ out' = (get(k) = None)
  /\ \/ /\ get(k) # None
        /\ UNCHANGED <<table, zero, size, ret, link, list, last>>
     \/ /\ get(k) = None
        /\ \E n \in Val \ DOMAIN link :
             /\ link' = [m \in DOMAIN link \cup {n} |->
                           IF m = n THEN [key |-> k, prev |-> last, next |-> None]
                           ELSE IF m = last THEN [link[m] EXCEPT !.next = n] ELSE link[m]]
             /\ list' = IF last = None THEN n ELSE list
             /\ last' = n
             /\ Put(k, n)
  /\ UNCHANGED <<curr, prior>>

\* Faulty variant: the next node keeps its pointer to the freed one
UnlinkedForwards(n) ==
  [m \in DOMAIN link \ {n} |-> [link[m] EXCEPT !.next = IF m = link[n].prev THEN link[n].next ELSE @]]

\* The chain once n is taken out and freed
Unlinked(n) ==
  [m \in DOMAIN link \ {n} |->
     [link[m] EXCEPT !.next = IF m = link[n].prev THEN link[n].next ELSE @,
                     !.prev = IF m = link[n].next THEN link[n].prev ELSE @]]

RemoveKey(k) ==
  /\ out' = (get(k) # None)
  /\ \/ get(k) = None /\ UNCHANGED <<table, zero, size, ret, link, list, last>>
     \/ /\ get(k) # None
        /\ remove(k)
        /\ link' = Unlinked(get(k))
        /\ list' = IF link[get(k)].prev = None THEN link[get(k)].next ELSE list
        /\ last' = IF link[get(k)].next = None THEN link[get(k)].prev ELSE last
  /\ UNCHANGED <<curr, prior>>

\* A caller with an open iterator removes what next() returned, never the key
\* that comes next
removeFromSet(k) ==
  /\ curr # None => link[curr].key # k
  /\ call' = <<"remove", k>>
  /\ RemoveKey(k)

\* HSIterator::remove
removeLast ==
  /\ prior \in DOMAIN link
  /\ call' = <<"remove", link[prior].key>>
  /\ RemoveKey(link[prior].key)

containsKey(k) ==
  /\ call' = <<"contains", k>> /\ out' = (get(k) # None)
  /\ UNCHANGED <<vars, link, list, last, curr, prior>>

resetSet ==
  /\ call' = <<"reset">>
  /\ link' = <<>> /\ list' = None /\ last' = None /\ curr' = None /\ prior' = None
  /\ reset
  /\ UNCHANGED out

iterator ==
  /\ call' = <<"iterator">> /\ curr' = list /\ prior' = None
  /\ UNCHANGED <<vars, link, list, last, out>>

nextKey ==
  /\ curr # None
  /\ call' = <<"next">> /\ out' = link[curr].key
  /\ curr' = link[curr].next /\ prior' = curr
  /\ UNCHANGED <<vars, link, list, last>>

deleteIterator ==
  /\ call' = <<"delete">> /\ curr' = None /\ prior' = None
  /\ UNCHANGED <<vars, link, list, last, out>>

HSNext ==
  \/ \E k \in Key : add(k) \/ removeFromSet(k) \/ containsKey(k)
  \/ removeLast \/ resetSet \/ iterator \/ nextKey \/ deleteIterator

-----------------------------------------------------------------------------
(* Property *)

RECURSIVE KeysFrom(_, _)
KeysFrom(n, k) == IF n \notin DOMAIN link \/ k = 0 THEN <<>> ELSE <<link[n].key>> \o KeysFrom(link[n].next, k - 1)

\* Table and chain stay one set: every call answers for the keys that are in it,
\* and an iterator visits each of them once, in the order they came, though keys
\* are added and the one just visited is removed on the way.
OSet == INSTANCE OrderedSet WITH keys <- KeysFrom(list, Cardinality(Val) + 1),
                                 todo <- KeysFrom(curr, Cardinality(Val) + 1)
ImplementsOrderedSet == OSet!Spec
=============================================================================
