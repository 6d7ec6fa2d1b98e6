----------------------------- MODULE ActionList -----------------------------
(***************************************************************************)
(* actionlist.cc: a doubly linked list of actions in the order of their    *)
(* clocks, with a radix tree that finds the place of a new one.            *)
(*                                                                         *)
(* A node of the tree is named by its path, the digits of the clocks below *)
(* it; the root is the empty path, and full paths lead to list nodes.      *)
(***************************************************************************)
EXTENDS Naturals, Sequences, FiniteSets, SequencesExt, Functions

CONSTANTS
  Action,
  NULL,
  ALLBITS,        \* bits of a clock per level of the tree
  MODELCLOCKBITS, \* bits of a clock, a multiple of ALLBITS
  Clocks          \* the clocks that actions may have

VARIABLES
  clock,   \* action -> its sequence number
  count,   \* path of an allnode -> its number of children
  leaf,    \* full path -> the last list node with that clock
  parent,  \* first digit -> address of the root that child points back to
  root,    \* address of the root
  next, prev, head, tail, size

list_vars == <<count, leaf, parent, next, prev, head, tail, size>>
vars == <<clock, root, list_vars>>

Levels == MODELCLOCKBITS \div ALLBITS
Base == 2^ALLBITS
Roots == {0, 1}

-----------------------------------------------------------------------------
(* The tree *)

\* The node that is n levels below the root on the way to clock c
Path(c, n) == [i \in 1..n |-> (c \div 2^(MODELCLOCKBITS - i * ALLBITS)) % Base]

\* The weight of a digit that selects a child of node p (the code's increment)
Increment(p) == 2^((Levels - 1 - Len(p)) * ALLBITS)

Minus(index, n) == (index + 2^MODELCLOCKBITS - n) % 2^MODELCLOCKBITS

\* children[currindex], for the digit of index at p's level
Child(p, index) == Append(p, (index \div Increment(p)) % Base)

\* findPrev's second loop: the largest clock below p that is at most index
RECURSIVE FindDown(_, _, _)
FindDown(T, p, index) ==
  IF Child(p, index) \notin T THEN FindDown(T, p, Minus(index, Increment(p)))
  ELSE IF Len(p) = Levels - 1 THEN leaf[Child(p, index)]
  ELSE FindDown(T, Child(p, index), index)

\* findPrev's first loop: go back along p's level, and up when the digit wraps;
\* the borrow has then already been taken from the digit above
RECURSIVE FindUp(_, _, _)
FindUp(T, p, index) ==
  IF Last(Child(p, index)) = Base - 1
  THEN IF p = <<>> THEN NULL ELSE FindUp(T, Front(p), index)
  ELSE IF Child(p, index) \notin T THEN FindUp(T, p, Minus(index, Increment(p)))
  ELSE FindDown(T, p, index)

FindPrev(T, c) == FindUp(T, Path(c, Levels - 1), Minus(c, 1))

\* A node without children is taken out of its parent, and so on upwards
RECURSIVE DecrementCount(_, _)
DecrementCount(C, p) ==
  IF C[p] = 1 /\ p # <<>> THEN DecrementCount(Restrict(C, DOMAIN C \ {p}), Front(p))
  ELSE [C EXCEPT ![p] = @ - 1]

-----------------------------------------------------------------------------
Init ==
  /\ clock \in [Action -> Clocks]
  /\ root = 0
  /\ count = (<<>> :> 0) /\ leaf = <<>> /\ parent = <<>>
  /\ next = [a \in Action |-> NULL] /\ prev = next
  /\ head = NULL /\ tail = NULL /\ size = 0

\* The list node a between node before and the one after it
Link(a, before) ==
  LET after == IF before = NULL THEN head ELSE next[before]
  IN  /\ next' = [n \in Action |-> IF n = a THEN after ELSE IF n = before THEN a ELSE next[n]]
      /\ prev' = [n \in Action |-> IF n = a THEN before ELSE IF n = after THEN a ELSE prev[n]]
      /\ head' = IF before = NULL THEN a ELSE head
      /\ tail' = IF after = NULL THEN a ELSE tail

Unlink(a) ==
  /\ next' = [n \in Action |-> IF n = a THEN NULL ELSE IF n = prev[a] THEN next[a] ELSE next[n]]
  /\ prev' = [n \in Action |-> IF n = a THEN NULL ELSE IF n = next[a] THEN prev[a] ELSE prev[n]]
  /\ head' = IF prev[a] = NULL THEN next[a] ELSE head
  /\ tail' = IF next[a] = NULL THEN prev[a] ELSE tail

Member(a) == head = a \/ prev[a] # NULL

NeighbourBefore(T, c, full) == IF full \in DOMAIN leaf THEN prev[leaf[full]] ELSE FindPrev(T, c)

\* The list node after which a new one with clock c goes
Neighbour(T, c, full) == IF full \in DOMAIN leaf THEN leaf[full] ELSE FindPrev(T, c)

\* The nodes on the way to the clock are made before findPrev is called
AddAction(a) ==
  LET full == Path(clock[a], Levels)
      made == {Path(clock[a], n) : n \in 1..Levels} \ (DOMAIN count \cup DOMAIN leaf)
      T == DOMAIN count \cup DOMAIN leaf \cup (made \ {full})
      New(p) == Cardinality({q \in made : Front(q) = p})
  IN  /\ ~Member(a)
      /\ size' = size + 1
      /\ count' = [p \in DOMAIN count \cup (made \ {full}) |-> (IF p \in DOMAIN count THEN count[p] ELSE 0) + New(p)]
      /\ parent' = IF Levels > 1 /\ Path(clock[a], 1) \in made THEN parent @@ (full[1] :> root) ELSE parent
      /\ Link(a, Neighbour(T, clock[a], full))
      /\ leaf' = [q \in DOMAIN leaf \cup {full} |-> IF q = full THEN a ELSE leaf[q]]

\* The search goes back from the last list node with a's clock
RECURSIVE FoundFrom(_, _)
FoundFrom(n, a) ==
  \/ n = a
  \/ n # a /\ prev[n] # NULL /\ clock[prev[n]] = clock[a] /\ FoundFrom(prev[n], a)

\* The next value of the tree when a is the node that leaf points to
DropLeaf(a, full) ==
  IF prev[a] # NULL /\ clock[prev[a]] = clock[a]
  THEN leaf' = [leaf EXCEPT ![full] = prev[a]] /\ UNCHANGED count
  ELSE /\ leaf' = Restrict(leaf, DOMAIN leaf \ {full})
       /\ count' = DecrementCount(count, Front(full))

RemoveAction(a) ==
  LET full == Path(clock[a], Levels)
      found == full \in DOMAIN leaf /\ FoundFrom(leaf[full], a)
  IN  \/ /\ found
         /\ Unlink(a)
         /\ size' = size - 1
         /\ IF leaf[full] = a THEN DropLeaf(a, full) ELSE UNCHANGED <<leaf, count>>
         /\ parent' = [d \in {d \in DOMAIN parent : <<d>> \in DOMAIN count'} |-> parent[d]]
      \/ ~found /\ UNCHANGED list_vars

clear ==
  /\ count' = (<<>> :> 0) /\ leaf' = <<>> /\ parent' = <<>>
  /\ next' = [a \in Action |-> NULL] /\ prev' = next'
  /\ head' = NULL /\ tail' = NULL /\ size' = 0

FixupParent(r) == [d \in DOMAIN parent |-> r]

\* A vector of lists grows and moves its elements, then calls fixupParent
Relocate ==
  /\ root' \in Roots \ {root}
  /\ parent' = FixupParent(root')
  /\ UNCHANGED <<count, leaf, next, prev, head, tail, size>>

Next ==
  /\ UNCHANGED clock
  /\ \/ \E a \in Action : UNCHANGED root /\ (AddAction(a) \/ RemoveAction(a))
     \/ UNCHANGED root /\ clear
     \/ Relocate

Spec == Init /\ [][Next]_vars

-----------------------------------------------------------------------------
(* Properties *)

\* The list nodes that follow n, at most k of them, along the links L
RECURSIVE Walk(_, _, _)
Walk(L, n, k) == IF n = NULL \/ k = 0 THEN <<>> ELSE <<n>> \o Walk(L, L[n], k - 1)

Forwards == Walk(next, head, Cardinality(Action) + 1)
Backwards == Walk(prev, tail, Cardinality(Action) + 1)

\* From begin() along the links there are the actions in the order of their
\* clocks, and of arrival for equal clocks: addAction, removeAction and clear
\* implement the operations of a sorted list, and moving the list changes
\* nothing.
Sorted == INSTANCE SortedList WITH list <- Forwards
ImplementsSortedList == Sorted!Spec

\* Walking back from end() gives the same actions, size() counts them, and
\* isEmpty(), which asks the tree, agrees with the list.
LinksAgree ==
  /\ Backwards = Reverse(Forwards)
  /\ size = Len(Forwards)
  /\ (count[<<>>] = 0) <=> (head = NULL)

\* The tree holds what findPrev relies on: a leaf for each clock in the list,
\* pointing at its last action; no node without children, which its second loop
\* would search for ever; and children of the root that lead back to where the
\* root now is.
TreeExact ==
  /\ DOMAIN leaf = {Path(clock[Forwards[i]], Levels) : i \in DOMAIN Forwards}
  /\ \A q \in DOMAIN leaf :
       /\ Path(clock[leaf[q]], Levels) = q
       /\ next[leaf[q]] # NULL => clock[next[leaf[q]]] > clock[leaf[q]]
  /\ \A p \in DOMAIN count :
       /\ count[p] = Cardinality({q \in DOMAIN count \cup DOMAIN leaf : q # <<>> /\ Front(q) = p})
       /\ p # <<>> => count[p] > 0 /\ Front(p) \in DOMAIN count
  /\ \A d \in 0..Base - 1 : <<d>> \in DOMAIN count \ {<<>>} => d \in DOMAIN parent /\ parent[d] = root
=============================================================================
