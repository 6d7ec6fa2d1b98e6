---------------------------- MODULE MCContainers ----------------------------
(***************************************************************************)
(* The containers side by side: a behaviour uses one of them.              *)
(***************************************************************************)
EXTENDS Vector, TLC

CONSTANTS
  Key, Node, None, Shift, InitialCapacity, MaxCapacity,  \* hash tables and sets, linked lists
  Action, ALLBITS, MODELCLOCKBITS, Clocks                \* action lists
ASSUME CapacitiesAssumption == Capacities \subseteq Nat \ {0} /\ MaxSize \in Nat
ASSUME KeyAssumption == Key \subseteq Nat /\ Shift \in Nat
ASSUME NoneAssumption == None \notin Node \cup Action
ASSUME CapacityAssumption == \E n \in 2..31 : InitialCapacity = 2^n
ASSUME BitsAssumption == ALLBITS \in Nat \ {0} /\ \E n \in 1..32 : MODELCLOCKBITS = n * ALLBITS
ASSUME ClocksAssumption == Clocks \subseteq 0..2^MODELCLOCKBITS - 1

VARIABLES
  used,                                  \* the container that is used
  table, zero, hsize, ret,               \* a hash table
  link, list, last, curr, prior, hcall, out,  \* what makes it a hash set
  lnodes, lhead, ltail, lsize, lcall,    \* a linked list
  aclock, acount, aleaf, aparent, aroot, anext, aprev, ahead, atail, asize  \* an action list
tableVars  == <<table, zero, hsize, ret>>
setVars    == <<link, list, last, curr, prior, hcall, out>>
listVars   == <<lnodes, lhead, ltail, lsize, lcall>>
actionVars == <<aclock, acount, aleaf, aparent, aroot, anext, aprev, ahead, atail, asize>>

H == INSTANCE HashSet WITH Val <- Node, size <- hsize, call <- hcall
L == INSTANCE LinkedList WITH Val <- {Zero, Garbage}, NULL <- None,
                              nodes <- lnodes, head <- lhead, tail <- ltail, size <- lsize, call <- lcall
A == INSTANCE ActionList WITH NULL <- None, clock <- aclock, count <- acount, leaf <- aleaf, parent <- aparent,
       root <- aroot, next <- anext, prev <- aprev, head <- ahead, tail <- atail, size <- asize

MCInit ==
  /\ used \in {"table", "set", "list", "vector", "actions"}
  /\ Init /\ H!Init /\ H!HSInit /\ L!Init /\ A!Init
  /\ used # "vector" => capacity = 1
  /\ used # "actions" => \A a \in Action : aclock[a] = 0

MCNext ==
  /\ UNCHANGED used
  /\ \/ used = "table" /\ H!Next /\ UNCHANGED <<vars, setVars, listVars, actionVars>>
     \/ used = "set" /\ H!HSNext /\ UNCHANGED <<vars, listVars, actionVars>>
     \/ used = "list" /\ L!Next /\ UNCHANGED <<vars, tableVars, setVars, actionVars>>
     \/ used = "vector" /\ Next /\ UNCHANGED <<tableVars, setVars, listVars, actionVars>>
     \/ used = "actions" /\ A!Next /\ UNCHANGED <<vars, tableVars, setVars, listVars>>

MCSpec == MCInit /\ [][MCNext]_<<used, vars, tableVars, setVars, listVars, actionVars>>

\* Addresses are interchangeable, and so are actions
Addresses == Permutations(Node) \cup Permutations(Action)

\* The hash table of hashtable.h is a map: get and contains see what put and
\* remove did, whatever keys collide and whenever the table grew.
ImplementsDictionary == H!ImplementsDictionary

\* The hash set of hashset.h is one set of keys in table and chain, and an
\* iterator visits each of them once, in the order they came.
ImplementsOrderedSet == H!ImplementsOrderedSet

\* A hash table always has the empty bin at which its probe loops end.
ProbesEnd == H!ProbesEnd

\* The size of a hash table, which decides when it grows, counts its keys.
SizeExact == H!SizeExact

\* The linked list of stl-model.h does to a sequence what each call says,
\* erase at a node a caller kept included.
ListImplementsSequence == L!ListImplementsSequence

\* The list's forward links, backward links and size tell the same elements.
ListLinksAgree == L!ListLinksAgree

\* The radix tree and the links of actionlist.cc are a list sorted by clock.
ImplementsSortedList == A!ImplementsSortedList

\* The forward and backward links of an action list tell the same order.
LinksAgree == A!LinksAgree

\* The tree of an action list holds its actions and no empty node.
TreeExact == A!TreeExact
=============================================================================
