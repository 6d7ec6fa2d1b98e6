----------------------------- MODULE LinkedList -----------------------------
(***************************************************************************)
(* ModelList and SnapList of stl-model.h, which differ only in the heap    *)
(* they allocate from: doubly linked lists whose callers keep pointers to  *)
(* nodes and insert and erase at them.                                     *)
(*                                                                         *)
(* nodes holds the allocated nodes; a freed one may be handed out again.   *)
(***************************************************************************)
EXTENDS Naturals, Sequences, SequencesExt, FiniteSetsExt, Functions

CONSTANTS Node, Val, NULL

VARIABLES nodes, head, tail, size, call
vars == <<nodes, head, tail, size, call>>

Init == nodes = <<>> /\ head = NULL /\ tail = NULL /\ size = 0 /\ call = <<"new">>

\* The list nodes that follow n along the field, at most k of them
RECURSIVE Walk(_, _, _)
Walk(field, n, k) ==
  IF n \notin DOMAIN nodes \/ k = 0 THEN <<>> ELSE <<n>> \o Walk(field, nodes[n][field], k - 1)

Forwards  == Walk("next", head, Cardinality(Node) + 1)
Backwards == Walk("prev", tail, Cardinality(Node) + 1)
Position(n) == SelectInSeq(Forwards, LAMBDA m : m = n) - 1

\* The nodes once tmp, holding v, is linked between two neighbours
Link(N, tmp, v, before, after) ==
  [n \in DOMAIN N \cup {tmp} |->
     IF n = tmp THEN [val |-> v, prev |-> before, next |-> after]
     ELSE [N[n] EXCEPT !.next = IF n = before THEN tmp ELSE @, !.prev = IF n = after THEN tmp ELSE @]]

\* Faulty variant: the head moves only when the list was empty
AddBetweenKeepHead(before, after, v) ==
  \E tmp \in Node \ DOMAIN nodes :
    /\ nodes' = Link(nodes, tmp, v, before, after)
    /\ head' = IF head = NULL THEN tmp ELSE head
    /\ tail' = IF after = NULL THEN tmp ELSE tail
    /\ size' = size + 1

AddBetween(before, after, v) ==
  \E tmp \in Node \ DOMAIN nodes :
    /\ nodes' = Link(nodes, tmp, v, before, after)
    /\ head' = IF before = NULL THEN tmp ELSE head
    /\ tail' = IF after = NULL THEN tmp ELSE tail
    /\ size' = size + 1

push_front(v) == call' = <<"push_front", v>> /\ AddBetween(NULL, head, v)

push_back(v) == call' = <<"push_back", v>> /\ AddBetween(tail, NULL, v)

insertAfter(node, v) ==
  /\ call' = <<"insert", Position(node) + 1, v>>
  /\ AddBetween(node, nodes[node].next, v)

insertBefore(node, v) ==
  /\ call' = <<"insert", Position(node), v>>
  /\ AddBetween(nodes[node].prev, node, v)

\* The nodes once node is unlinked and deleted
Unlink(N, node) ==
  [n \in DOMAIN N \ {node} |->
     [N[n] EXCEPT !.next = IF n = N[node].prev THEN N[node].next ELSE @,
                  !.prev = IF n = N[node].next THEN N[node].prev ELSE @]]

Delete(node) ==
  /\ nodes' = Unlink(nodes, node)
  /\ head' = IF head = node THEN nodes[node].next ELSE head
  /\ tail' = IF tail = node THEN nodes[node].prev ELSE tail
  /\ size' = size - 1

erase(node) == call' = <<"erase", Position(node)>> /\ Delete(node)

pop_front == head # NULL /\ call' = <<"pop_front">> /\ Delete(head)

pop_back == tail # NULL /\ call' = <<"pop_back">> /\ Delete(tail)

\* The nodes from head on are deleted
clear ==
  /\ call' = <<"clear">>
  /\ nodes' = Restrict(nodes, DOMAIN nodes \ Range(Forwards))
  /\ head' = NULL /\ tail' = NULL /\ size' = 0

Next ==
  \/ pop_front \/ pop_back \/ clear
  \/ \E v \in Val : \/ push_front(v) \/ push_back(v)
                    \/ \E n \in DOMAIN nodes : insertAfter(n, v) \/ insertBefore(n, v)
  \/ \E n \in DOMAIN nodes : erase(n)

Spec == Init /\ [][Next]_vars

-----------------------------------------------------------------------------
(* Properties *)

\* Every call does to the values from begin() to NULL what it says, whichever
\* nodes the caller kept and whichever addresses are used again.
S == INSTANCE Sequence WITH Zero <- NULL,
                            seq <- [i \in DOMAIN Forwards |-> nodes[Forwards[i]].val]
ListImplementsSequence == S!Spec

\* Walking back from end() meets the same nodes, size() counts them, no node
\* leaks and none points to a freed one.
ListLinksAgree ==
  /\ Backwards = Reverse(Forwards)
  /\ size = Len(Forwards)
  /\ DOMAIN nodes = Range(Forwards)
  /\ \A n \in DOMAIN nodes : {nodes[n].next, nodes[n].prev} \subseteq DOMAIN nodes \cup {NULL}
=============================================================================
