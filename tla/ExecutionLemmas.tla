--------------------------- MODULE ExecutionLemmas ---------------------------
(***************************************************************************)
(* What the state of an execution is made of, apart from its steps: the    *)
(* modification-order graph, whose vectors grow by every operation of      *)
(* CycleGraph; and the table of actions, with its release sequences and    *)
(* what the clock vectors of its entries have seen.  The two do not depend *)
(* on each other: whichever store a read takes, the vectors of actions are *)
(* right.                                                                  *)
(***************************************************************************)
EXTENDS Execution, FiniteSetTheorems, TLAPS

\* Leaves are proved by Zenon, and by SMT where they need arithmetic, records or sequences
USE Zenon

----------------------------------------------------------------------------
(* Sequences *)

\* A sequence is a function on 1..Len(s)
LEMMA SeqFacts ==
  ASSUME NEW S, NEW s \in Seq(S)
  PROVE  Len(s) \in Nat /\ s \in [1..Len(s) -> S] /\ DOMAIN s = 1..Len(s)
BY SMT

\* and every such function is one
LEMMA FunctionIn ==
  ASSUME NEW S, NEW n \in Nat, NEW f \in [1..n -> S]
  PROVE  f \in Seq(S)
BY SMT

\* whose elements are in S
LEMMA ElementIn ==
  ASSUME NEW S, NEW s \in Seq(S), NEW k \in 1..Len(s)
  PROVE  s[k] \in S
BY SMT

\* What Append does
LEMMA AppendFacts ==
  ASSUME NEW S, NEW s \in Seq(S), NEW e \in S
  PROVE  /\ Append(s, e) \in Seq(S) /\ Len(Append(s, e)) = Len(s) + 1
         /\ \A i \in 1..Len(s) : Append(s, e)[i] = s[i]
         /\ Append(s, e)[Len(s) + 1] = e
BY SMT

\* The concatenation of two sequences
LEMMA ConcatIn ==
  ASSUME NEW S, NEW r \in Seq(S), NEW s \in Seq(S)
  PROVE  r \o s \in Seq(S)
BY SMT

\* The first n elements of a sequence
LEMMA FrontIn ==
  ASSUME NEW S, NEW s, NEW n \in Int, \A i \in 1..n : s[i] \in S
  PROVE  SubSeq(s, 1, n) \in Seq(S) /\ Len(SubSeq(s, 1, n)) = IF 1 <= n THEN n ELSE 0
BY SMT

----------------------------------------------------------------------------
(* Numbers, and functions that are given by a first value and a step *)

\* A set of numbers with an element has a least one
LEMMA LeastIn ==
  ASSUME NEW S \in SUBSET Nat, S # {}
  PROVE  \E m \in S : \A k \in S : m <= k
<1> DEFINE Less == {ss \in Nat \X Nat : ss[1] < ss[2]}
<1>1. IsWellFoundedOn(Less, Nat)
  BY NatLessThanWellFounded DEF OpToRel
<1>2. PICK m \in S : \A k \in S : ~(<<k, m>> \in Less)
  BY <1>1, WFMin
<1>3. ASSUME NEW k \in S
      PROVE  m <= k
  <2>1. ~(<<k, m>> \in Less)
    BY <1>2, <1>3
  <2>2. k \in Nat /\ m \in Nat
    OBVIOUS
  <2>3. ~(k < m)
    BY <2>1, <2>2
  <2>4. QED
    BY SMT, <2>2, <2>3
<1>4. QED
  BY <1>3

\* A bounded set of numbers with an element has a greatest one, which Max finds
LEMMA MaxIn ==
  ASSUME NEW S \in SUBSET Nat, S # {}, NEW b \in Nat, \A x \in S : x <= b
  PROVE  Max(S) \in S /\ \A x \in S : x <= Max(S)
<1> DEFINE U == {n \in Nat : \A x \in S : x <= n}
<1>1. U # {} /\ U \in SUBSET Nat
  OBVIOUS
<1>2. PICK m \in U : \A k \in U : m <= k
  BY <1>1, LeastIn
<1>3. m \in Nat /\ \A x \in S : x <= m
  BY <1>2
<1>4. m \in S
  <2>1. SUFFICES ASSUME m \notin S PROVE FALSE
    OBVIOUS
  <2>2. PICK y \in S : TRUE
    OBVIOUS
  <2>3. y \in Nat /\ y <= m /\ y # m
    BY <1>3, <2>1
  <2>4. m - 1 \in Nat
    BY SMT, <1>3, <2>3
  <2>5. \A x \in S : x <= m - 1
    <3>1. TAKE x \in S
    <3>2. x \in Nat /\ x <= m /\ x # m
      BY <1>3, <2>1
    <3>3. QED
      BY SMT, <1>3, <3>2
  <2>6. m - 1 \in U
    BY <2>4, <2>5
  <2>7. m <= m - 1
    BY <1>2, <2>6
  <2>8. QED
    BY SMT, <1>3, <2>7
<1>5. \A y \in S : m >= y
  BY <1>3
<1>6. Max(S) \in S /\ \A y \in S : Max(S) >= y
  BY <1>4, <1>5 DEF Max
<1>7. QED
  BY <1>6

\* f is the function that has first at 0 and goes on with the steps, in S
IsIterate(f, S, first, step, n) ==
  f \in [0..n -> S] /\ f[0] = first /\ \A k \in 1..n : f[k] = step[k][f[k - 1]]

\* There is such a function if the steps stay in S
LEMMA IterateExists ==
  ASSUME NEW S, NEW first \in S, NEW step, NEW n \in Nat,
         \A k \in 1..n, x \in S : step[k][x] \in S
  PROVE  \E f : IsIterate(f, S, first, step, n)
<1> DEFINE Bad == {m \in 0..n : ~\E f : IsIterate(f, S, first, step, m)}
<1>1. SUFFICES ASSUME Bad # {} PROVE FALSE
  <2>1. n \in 0..n
    BY SMT
  <2>2. QED
    BY <2>1
<1>2. Bad \in SUBSET Nat
  BY SMT
<1>3. PICK m \in Bad : \A k \in Bad : m <= k
  BY <1>1, <1>2, LeastIn
<1>4. m \in 0..n /\ ~\E f : IsIterate(f, S, first, step, m)
  OBVIOUS
<1> HIDE DEF Bad
<1>5. CASE m = 0
  <2> DEFINE f == [k \in 0..0 |-> first]
  <2>1. f \in [0..0 -> S] /\ f[0] = first /\ 1..0 = {}
    BY SMT
  <2> HIDE DEF f
  <2>2. IsIterate(f, S, first, step, 0)
    BY <2>1 DEF IsIterate
  <2>3. QED
    BY <1>4, <1>5, <2>2
<1>6. CASE m # 0
  <2>1. m - 1 \in 0..n /\ ~(m <= m - 1) /\ m \in 1..n /\ m - 1 \in 0..(m - 1) /\ m \in Nat
    BY SMT, <1>4, <1>6
  <2>2. PICK f : IsIterate(f, S, first, step, m - 1)
    BY <1>3, <2>1 DEF Bad
  <2>3. /\ f \in [0..(m - 1) -> S] /\ f[0] = first
        /\ \A k \in 1..(m - 1) : f[k] = step[k][f[k - 1]]
    BY <2>2 DEF IsIterate
  <2>4. step[m][f[m - 1]] \in S
    BY <2>1, <2>3
  <2> DEFINE last == step[m][f[m - 1]]
             h == [k \in 0..m |-> IF k = m THEN last ELSE f[k]]
  <2>5. \A k \in 0..m : k # m => k \in 0..(m - 1)
    BY SMT, <2>1
  <2>6. h \in [0..m -> S]
    <3> HIDE DEF last
    <3>1. last \in S
      BY <2>4 DEF last
    <3>2. QED
      BY <2>3, <2>5, <3>1
  <2>7. h[0] = first
    <3>1. 0 \in 0..m /\ 0 # m
      BY SMT, <1>6, <2>1
    <3>2. QED
      BY <2>3, <3>1
  <2>8. ASSUME NEW k \in 1..m
        PROVE  h[k] = step[k][h[k - 1]]
    <3>1. k \in 0..m /\ k - 1 \in 0..m /\ k - 1 # m
      BY SMT, <2>1
    <3>2. h[k - 1] = f[k - 1]
      BY <3>1
    <3>3. CASE k = m
      BY <3>1, <3>2, <3>3
    <3>4. CASE k # m
      <4>1. k \in 1..(m - 1)
        BY SMT, <2>1, <3>4
      <4>2. QED
        BY <2>3, <3>1, <3>2, <3>4, <4>1
    <3>5. QED
      BY <3>3, <3>4
  <2> HIDE DEF h
  <2>9. IsIterate(h, S, first, step, m)
    BY <2>6, <2>7, <2>8 DEF IsIterate
  <2>10. QED
    BY <1>4, <2>9
<1>7. QED
  BY <1>5, <1>6

\* What every step keeps, the last value has
LEMMA IterateStays ==
  ASSUME NEW S, NEW n \in Nat, NEW f, f[0] \in S,
         \A k \in 1..n : f[k - 1] \in S => f[k] \in S
  PROVE  f[n] \in S
<1> DEFINE Bad == {m \in 0..n : f[m] \notin S}
<1>1. SUFFICES ASSUME f[n] \notin S PROVE FALSE
  OBVIOUS
<1>2. Bad \in SUBSET Nat /\ n \in 0..n
  BY SMT
<1>3. Bad # {}
  BY <1>1, <1>2
<1>4. PICK m \in Bad : \A k \in Bad : m <= k
  BY <1>2, <1>3, LeastIn
<1>5. m \in 0..n /\ f[m] \notin S /\ m # 0
  OBVIOUS
<1>6. m \in 1..n /\ m - 1 \in 0..n /\ ~(m <= m - 1)
  BY SMT, <1>5
<1>7. f[m - 1] \in S
  BY <1>4, <1>6
<1>8. QED
  BY <1>5, <1>6, <1>7

----------------------------------------------------------------------------
(* Graphs whose nodes are among the actions D, with clocks up to b *)

Node(D, b) ==
  [tid : Thread, seq : 0..b, edges : SUBSET D, rmw : D \cup {NoNode}, cv : [Thread -> 0..b]]

Graph(D, b) ==
  {g \in UNION {[N -> Node(D, b)] : N \in SUBSET D} :
     \A n \in DOMAIN g : g[n].rmw \in DOMAIN g \cup {NoNode}}

\* h has the nodes of g, and their vectors are not below those in g
Grows(g, h) ==
  /\ DOMAIN g \subseteq DOMAIN h
  /\ \A n \in DOMAIN g : /\ h[n].tid = g[n].tid /\ h[n].seq = g[n].seq
                         /\ VectorLeq(g[n].cv, h[n].cv)

GrowsTo(g, D, b) == {h \in Graph(D, b) : Grows(g, h)}

\* What it takes to be a graph
LEMMA GraphIs ==
  ASSUME NEW D, NEW b, NEW g
  PROVE  g \in Graph(D, b) <=>
           /\ g = [n \in DOMAIN g |-> g[n]] /\ DOMAIN g \in SUBSET D
           /\ \A n \in DOMAIN g : g[n] \in Node(D, b) /\ g[n].rmw \in DOMAIN g \cup {NoNode}
<1>1. ASSUME g \in Graph(D, b)
      PROVE  /\ g = [n \in DOMAIN g |-> g[n]] /\ DOMAIN g \in SUBSET D
             /\ \A n \in DOMAIN g : g[n] \in Node(D, b) /\ g[n].rmw \in DOMAIN g \cup {NoNode}
  <2>1. PICK N \in SUBSET D : g \in [N -> Node(D, b)]
    BY <1>1 DEF Graph
  <2>2. DOMAIN g = N /\ g = [n \in DOMAIN g |-> g[n]] /\ \A n \in DOMAIN g : g[n] \in Node(D, b)
    BY <2>1
  <2>3. QED
    BY <1>1, <2>2 DEF Graph
<1>2. ASSUME g = [n \in DOMAIN g |-> g[n]], DOMAIN g \in SUBSET D,
             \A n \in DOMAIN g : g[n] \in Node(D, b) /\ g[n].rmw \in DOMAIN g \cup {NoNode}
      PROVE  g \in Graph(D, b)
  <2>1. g \in [DOMAIN g -> Node(D, b)]
    BY <1>2
  <2>2. g \in UNION {[N -> Node(D, b)] : N \in SUBSET D}
    BY <1>2, <2>1
  <2>3. QED
    BY <1>2, <2>2 DEF Graph
<1>3. QED
  BY <1>1, <1>2

\* The vectors of nodes
LEMMA NodeCV ==
  ASSUME NEW D, NEW b \in Nat, NEW g \in Graph(D, b), NEW n \in DOMAIN g
  PROVE  /\ g[n].cv \in [Thread -> 0..b] /\ g[n].tid \in Thread /\ g[n].seq \in 0..b
         /\ g[n].edges \in SUBSET D
<1>1. g[n] \in Node(D, b)
  BY GraphIs
<1>2. QED
  BY <1>1 DEF Node

\* A graph with more actions and clocks allowed
LEMMA GraphMore ==
  ASSUME NEW D, NEW b \in Nat, NEW E, D \subseteq E, NEW c \in Nat, b <= c, NEW g \in Graph(D, b)
  PROVE  g \in Graph(E, c)
<1>1. 0..b \subseteq 0..c
  BY SMT
<1>2. ASSUME NEW x \in Node(D, b)
      PROVE  x \in Node(E, c)
  <2>1. [Thread -> 0..b] \subseteq [Thread -> 0..c]
    BY <1>1
  <2>2. QED
    BY <1>1, <2>1 DEF Node
<1>3. QED
  BY SMT, <1>2, GraphIs

\* To grow is a preorder
LEMMA GrowsSelf ==
  ASSUME NEW D, NEW b \in Nat, NEW g \in Graph(D, b)
  PROVE  g \in GrowsTo(g, D, b)
<1>1. ASSUME NEW n \in DOMAIN g
      PROVE  VectorLeq(g[n].cv, g[n].cv)
  <2>1. g[n].cv \in [Thread -> 0..b]
    BY NodeCV
  <2> DEFINE v == g[n].cv
  <2> HIDE DEF v
  <2>2. VectorLeq(v, v)
    BY SMT, <2>1 DEF v, VectorLeq
  <2>3. QED
    BY <2>2 DEF v
<1>2. QED
  BY <1>1 DEF Grows, GrowsTo

\* Growing twice is growing
LEMMA GrowsOn ==
  ASSUME NEW D, NEW b \in Nat, NEW g \in Graph(D, b), NEW h \in GrowsTo(g, D, b),
         NEW k \in GrowsTo(h, D, b)
  PROVE  k \in GrowsTo(g, D, b)
<1>1. h \in Graph(D, b) /\ k \in Graph(D, b) /\ Grows(g, h) /\ Grows(h, k)
  BY DEF GrowsTo
<1>2. ASSUME NEW n \in DOMAIN g
      PROVE  /\ k[n].tid = g[n].tid /\ k[n].seq = g[n].seq
             /\ VectorLeq(g[n].cv, k[n].cv) /\ n \in DOMAIN k
  <2>1. /\ n \in DOMAIN h /\ n \in DOMAIN k /\ k[n].tid = g[n].tid /\ k[n].seq = g[n].seq
        /\ VectorLeq(g[n].cv, h[n].cv) /\ VectorLeq(h[n].cv, k[n].cv)
    BY <1>1 DEF Grows
  <2>2. g[n].cv \in [Thread -> 0..b] /\ h[n].cv \in [Thread -> 0..b] /\ k[n].cv \in [Thread -> 0..b]
    BY <1>1, <2>1, NodeCV
  <2> DEFINE u == g[n].cv
             v == h[n].cv
             w == k[n].cv
  <2>3. u \in [Thread -> 0..b] /\ v \in [Thread -> 0..b] /\ w \in [Thread -> 0..b]
    BY <2>2
  <2>4. VectorLeq(u, v) /\ VectorLeq(v, w)
    BY <2>1
  <2> HIDE DEF u, v, w
  <2>5. VectorLeq(u, w)
    <3>1. ASSUME NEW t \in Thread
          PROVE  u[t] <= w[t]
      <4>1. u[t] \in 0..b /\ v[t] \in 0..b /\ w[t] \in 0..b
        BY <2>3
      <4>2. u[t] <= v[t] /\ v[t] <= w[t]
        BY <2>4 DEF VectorLeq
      <4>3. QED
        BY SMT, <4>1, <4>2
    <3>2. QED
      BY <3>1 DEF VectorLeq
  <2>6. QED
    BY <2>1, <2>5 DEF u, w
<1>3. QED
  BY <1>1, <1>2 DEF Grows, GrowsTo

\* Graph h differs from g in node n only, which is x
IsSet(g, n, x, h) ==
  /\ h = [m \in DOMAIN h |-> h[m]] /\ DOMAIN h = DOMAIN g /\ h[n] = x
  /\ \A m \in DOMAIN g : m # n => h[m] = g[m]

\* Setting a node to one that is not below
LEMMA SetNode ==
  ASSUME NEW D, NEW b \in Nat, NEW g \in Graph(D, b), NEW n \in DOMAIN g, NEW x \in Node(D, b),
         x.rmw \in DOMAIN g \cup {NoNode}, x.tid = g[n].tid, x.seq = g[n].seq,
         VectorLeq(g[n].cv, x.cv), NEW h, IsSet(g, n, x, h)
  PROVE  h \in GrowsTo(g, D, b)
<1>1. \A m \in DOMAIN g : g[m] \in Node(D, b) /\ g[m].rmw \in DOMAIN g \cup {NoNode}
  BY GraphIs
<1>2. \A m \in DOMAIN h : h[m] \in Node(D, b) /\ h[m].rmw \in DOMAIN h \cup {NoNode}
  BY <1>1 DEF IsSet
<1>3. DOMAIN h \in SUBSET D
  BY GraphIs DEF IsSet
<1>4. h \in Graph(D, b)
  BY <1>2, <1>3, GraphIs DEF IsSet
<1>5. Grows(g, g)
  BY GrowsSelf DEF GrowsTo
<1>6. Grows(g, h)
  <2>1. ASSUME NEW m \in DOMAIN g
        PROVE  h[m].tid = g[m].tid /\ h[m].seq = g[m].seq /\ VectorLeq(g[m].cv, h[m].cv)
    <3>1. CASE m = n
      BY <3>1 DEF IsSet
    <3>2. CASE m # n
      BY <1>5, <3>2 DEF IsSet, Grows
    <3>3. QED
      BY <3>1, <3>2
  <2>2. QED
    BY <2>1 DEF Grows, IsSet
<1>7. QED
  BY <1>4, <1>6 DEF GrowsTo

----------------------------------------------------------------------------
(* The operations of the graph *)

\* The table A has the actions D, with clocks up to b
TableIn(A, D, b) == \A a \in D : A[a].tid \in Thread /\ A[a].seq \in 0..b

\* getNode adds a node and changes none
LEMMA GetNodeGrows ==
  ASSUME NEW D, NEW b \in Nat, NEW g \in Graph(D, b), NEW A, TableIn(A, D, b), NEW a \in D
  PROVE  GetNode(g, A, a) \in GrowsTo(g, D, b) /\ a \in DOMAIN GetNode(g, A, a)
<1> DEFINE x == CycleNode(A[a])
           h == GetNode(g, A, a)
<1>1. x \in Node(D, b) /\ x.rmw = NoNode
  <2>1. A[a].tid \in Thread /\ A[a].seq \in 0..b
    BY DEF TableIn
  <2>2. NewVector(ZeroVector, A[a].tid, A[a].seq) \in [Thread -> 0..b]
    BY SMT, <2>1 DEF NewVector, ZeroVector
  <2>3. QED
    BY <2>1, <2>2 DEF CycleNode, Node
<1>2. /\ h = [n \in DOMAIN h |-> h[n]] /\ DOMAIN h = DOMAIN g \cup {a}
      /\ \A n \in DOMAIN g : h[n] = g[n]
      /\ a \notin DOMAIN g => h[a] = x
  BY DEF GetNode
<1> HIDE DEF h, x
<1>3. DOMAIN g \in SUBSET D /\ \A n \in DOMAIN g : g[n] \in Node(D, b) /\ g[n].rmw \in DOMAIN g \cup {NoNode}
  BY GraphIs
<1>4. \A n \in DOMAIN h : h[n] \in Node(D, b) /\ h[n].rmw \in DOMAIN h \cup {NoNode}
  BY <1>1, <1>2, <1>3
<1>5. DOMAIN h \in SUBSET D
  BY <1>2, <1>3
<1>6. h \in Graph(D, b)
  BY <1>2, <1>4, <1>5, GraphIs
<1>7. Grows(g, g)
  BY GrowsSelf DEF GrowsTo
<1>8. Grows(g, h)
  BY <1>2, <1>7 DEF Grows
<1>9. QED
  BY <1>2, <1>6, <1>8 DEF GrowsTo, h

\* Changing the vector of a node
LEMMA SetCV ==
  ASSUME NEW D, NEW b \in Nat, NEW g \in Graph(D, b), NEW n \in DOMAIN g, NEW v \in [Thread -> 0..b],
         VectorLeq(g[n].cv, v), NEW h, IsSet(g, n, [g[n] EXCEPT !.cv = v], h)
  PROVE  h \in GrowsTo(g, D, b)
<1> DEFINE x == [g[n] EXCEPT !.cv = v]
<1>1. g[n] \in Node(D, b) /\ g[n].rmw \in DOMAIN g \cup {NoNode}
  BY GraphIs
<1>2. x \in Node(D, b) /\ x.rmw = g[n].rmw /\ x.tid = g[n].tid /\ x.seq = g[n].seq /\ x.cv = v
  BY <1>1 DEF Node
<1>3. IsSet(g, n, x, h)
  OBVIOUS
<1> HIDE DEF x
<1>4. QED
  BY <1>1, <1>2, <1>3, SetNode

\* Changing the edges of a node
LEMMA SetEdges ==
  ASSUME NEW D, NEW b \in Nat, NEW g \in Graph(D, b), NEW n \in DOMAIN g, NEW E \in SUBSET D,
         NEW h, IsSet(g, n, [g[n] EXCEPT !.edges = E], h)
  PROVE  h \in GrowsTo(g, D, b) /\ h[n].cv = g[n].cv
<1> DEFINE x == [g[n] EXCEPT !.edges = E]
<1>1. g[n] \in Node(D, b) /\ g[n].rmw \in DOMAIN g \cup {NoNode}
  BY GraphIs
<1>2. x \in Node(D, b) /\ x.rmw = g[n].rmw /\ x.tid = g[n].tid /\ x.seq = g[n].seq /\ x.cv = g[n].cv
  BY <1>1 DEF Node
<1>3. IsSet(g, n, x, h)
  OBVIOUS
<1> HIDE DEF x
<1>4. VectorLeq(g[n].cv, x.cv)
  <2>1. Grows(g, g)
    BY GrowsSelf DEF GrowsTo
  <2>2. QED
    BY <1>2, <2>1 DEF Grows
<1>5. h[n].cv = g[n].cv
  BY <1>2, <1>3 DEF IsSet
<1>6. QED
  BY <1>1, <1>2, <1>3, <1>4, <1>5, SetNode

\* Changing the RMW of a node
LEMMA SetRMW ==
  ASSUME NEW D, NEW b \in Nat, NEW g \in Graph(D, b), NEW n \in DOMAIN g,
         NEW r \in DOMAIN g \cup {NoNode}, NEW h, IsSet(g, n, [g[n] EXCEPT !.rmw = r], h)
  PROVE  h \in GrowsTo(g, D, b)
<1> DEFINE x == [g[n] EXCEPT !.rmw = r]
<1>1. g[n] \in Node(D, b) /\ r \in D \cup {NoNode}
  BY GraphIs
<1>2. x \in Node(D, b) /\ x.rmw = r /\ x.tid = g[n].tid /\ x.seq = g[n].seq /\ x.cv = g[n].cv
  BY <1>1 DEF Node
<1>3. IsSet(g, n, x, h)
  OBVIOUS
<1> HIDE DEF x
<1>4. VectorLeq(g[n].cv, x.cv)
  <2>1. Grows(g, g)
    BY GrowsSelf DEF GrowsTo
  <2>2. QED
    BY <1>2, <2>1 DEF Grows
<1>5. x.rmw \in DOMAIN g \cup {NoNode}
  BY <1>2
<1>6. QED
  BY <1>2, <1>3, <1>4, <1>5, SetNode

\* What ClockVector::merge yields
LEMMA MergeGrows ==
  ASSUME NEW b \in Nat, NEW v \in [Thread -> 0..b], NEW w \in [Thread -> 0..b]
  PROVE  Merge(v, w) \in [Thread -> 0..b] /\ VectorLeq(v, Merge(v, w))
<1>1. \A t \in Thread : MaxNat(v[t], w[t]) \in 0..b /\ v[t] <= MaxNat(v[t], w[t])
  BY SMT DEF MaxNat
<1>2. QED
  BY <1>1 DEF Merge, VectorLeq

\* A turn of the worklist merges vectors into others
LEMMA MergeFromGrows ==
  ASSUME NEW D, NEW b \in Nat, NEW g \in Graph(D, b), NEW queue \in SUBSET DOMAIN g
  PROVE  MergeFrom(g, queue) \in GrowsTo(g, D, b) /\ DOMAIN MergeFrom(g, queue) = DOMAIN g
<1> DEFINE h == MergeFrom(g, queue)
           Srcs(v) == {u \in queue : v \in g[u].edges}
           U(v, t) == {g[v].cv[t]} \cup {g[u].cv[t] : u \in Srcs(v)}
           W(v) == [t \in Thread |-> Max(U(v, t))]
<1>1. /\ h = [n \in DOMAIN h |-> h[n]] /\ DOMAIN h = DOMAIN g
      /\ \A v \in DOMAIN g : h[v] = IF Srcs(v) = {} THEN g[v] ELSE [g[v] EXCEPT !.cv = W(v)]
  BY DEF MergeFrom
<1> HIDE DEF h
<1>2. ASSUME NEW v \in DOMAIN g, NEW t \in Thread
      PROVE  Max(U(v, t)) \in 0..b /\ g[v].cv[t] <= Max(U(v, t))
  <2>1. \A u \in DOMAIN g : g[u].cv[t] \in 0..b
    BY SMT, NodeCV
  <2>2. U(v, t) \in SUBSET (0..b) /\ g[v].cv[t] \in U(v, t)
    BY <2>1
  <2> HIDE DEF U
  <2>3. /\ U(v, t) \in SUBSET Nat /\ U(v, t) # {} /\ \A x \in U(v, t) : x <= b
    BY SMT, <2>2
  <2>4. Max(U(v, t)) \in U(v, t) /\ \A x \in U(v, t) : x <= Max(U(v, t))
    BY <2>3, MaxIn
  <2>5. QED
    BY <2>2, <2>4
<1> HIDE DEF U
<1>3. \A v \in DOMAIN g : W(v) \in [Thread -> 0..b] /\ VectorLeq(g[v].cv, W(v))
  BY <1>2 DEF VectorLeq
<1> HIDE DEF W, Srcs
<1>4. ASSUME NEW v \in DOMAIN g
      PROVE  /\ h[v] \in Node(D, b) /\ h[v].rmw \in DOMAIN g \cup {NoNode}
             /\ h[v].tid = g[v].tid /\ h[v].seq = g[v].seq /\ VectorLeq(g[v].cv, h[v].cv)
  <2>1. g[v] \in Node(D, b) /\ g[v].rmw \in DOMAIN g \cup {NoNode}
    BY GraphIs
  <2>2. CASE Srcs(v) = {}
    <3>1. Grows(g, g)
      BY GrowsSelf DEF GrowsTo
    <3>2. QED
      BY <1>1, <2>1, <2>2, <3>1 DEF Grows
  <2>3. CASE Srcs(v) # {}
    <3> DEFINE x == [g[v] EXCEPT !.cv = W(v)]
    <3>1. W(v) \in [Thread -> 0..b]
      BY <1>3
    <3>2. x \in Node(D, b) /\ x.rmw = g[v].rmw /\ x.tid = g[v].tid /\ x.seq = g[v].seq /\ x.cv = W(v)
      BY <2>1, <3>1 DEF Node
    <3>3. h[v] = x
      BY <1>1, <2>3
    <3> HIDE DEF x
    <3>4. QED
      BY <1>3, <2>1, <3>2, <3>3
  <2>4. QED
    BY <2>2, <2>3
<1>5. DOMAIN h \in SUBSET D
  BY <1>1, GraphIs
<1>6. h \in Graph(D, b)
  BY <1>1, <1>4, <1>5, GraphIs
<1>7. Grows(g, h)
  BY <1>1, <1>4 DEF Grows
<1>8. QED
  BY <1>1, <1>6, <1>7 DEF GrowsTo, h

\* A graph over finitely many actions has finitely many nodes
LEMMA GraphFinite ==
  ASSUME NEW D, IsFiniteSet(D), NEW b, NEW g \in Graph(D, b)
  PROVE  Cardinality(DOMAIN g) \in Nat
<1>1. DOMAIN g \in SUBSET D
  BY GraphIs
<1>2. IsFiniteSet(DOMAIN g)
  BY <1>1, FS_Subset
<1>3. QED
  BY <1>2, FS_CardinalityType

\* A chain of RMWs ends in a node
LEMMA ChainEndIn ==
  ASSUME NEW D, IsFiniteSet(D), NEW b, NEW g \in Graph(D, b), NEW from \in DOMAIN g, NEW to
  PROVE  RMWChainEnd(g, from, to) \in DOMAIN g
<1> DEFINE Step(x, k) == IF g[x].rmw \in {NoNode, to} THEN x ELSE g[x].rmw
           S == DOMAIN g
           first == from
           n == Cardinality(DOMAIN g)
           Is(f) == f = [k \in 0..n |-> IF k = 0 THEN first ELSE Step(f[k - 1], k)]
<1>1. n \in Nat
  BY GraphFinite
<1>2. first \in S
  OBVIOUS
<1>3. \A k \in 1..n, x \in S : Step(x, k) \in S
  <2>1. \A x \in S : g[x].rmw \in S \cup {NoNode}
    BY GraphIs
  <2>2. QED
    BY <2>1
<1>4. (CHOOSE f : Is(f))[n] \in S
  <2> DEFINE step == [k \in 1..n |-> [x \in S |-> Step(x, k)]]
             f == CHOOSE f : Is(f)
  <2>1. \A k \in 1..n, x \in S : step[k][x] = Step(x, k) /\ step[k][x] \in S
    BY <1>1, <1>2, <1>3
  <2> HIDE DEF step, Step, S, n, first
  <2>2. PICK h : IsIterate(h, S, first, step, n)
    BY <1>1, <1>2, <1>3, <2>1, IterateExists
  <2>3. \A k \in 0..n : k # 0 => k \in 1..n /\ k - 1 \in 0..n
    BY SMT, <1>1
  <2>4. \A k \in 0..n : h[k] = IF k = 0 THEN first ELSE Step(h[k - 1], k)
    BY <2>1, <2>2, <2>3 DEF IsIterate
  <2>5. h = [k \in 0..n |-> h[k]]
    BY <2>2 DEF IsIterate
  <2>6. Is(h)
    BY <2>4, <2>5
  <2>7. Is(f)
    BY <2>6
  <2> HIDE DEF f
  <2>8. 0 \in 0..n /\ \A k \in 1..n : k \in 0..n /\ k # 0
    BY SMT, <1>1
  <2>9. f[0] = first /\ \A k \in 1..n : f[k] = Step(f[k - 1], k)
    BY <2>7, <2>8
  <2>10. f[0] \in S /\ \A k \in 1..n : f[k - 1] \in S => f[k] \in S
    BY <1>1, <1>2, <1>3, <2>9
  <2>11. f[n] \in S
    BY <1>1, <2>10, IterateStays
  <2>12. QED
    BY <2>11 DEF f
<1>5. RMWChainEnd(g, from, to) = (CHOOSE f : Is(f))[n]
  BY DEF RMWChainEnd
<1>6. QED
  BY <1>4, <1>5

\* The worklist of addNodeEdge only makes vectors grow
LEMMA PropagateGrows ==
  ASSUME NEW D, IsFiniteSet(D), NEW b \in Nat, NEW g \in Graph(D, b), NEW queue \in SUBSET DOMAIN g
  PROVE  Propagate(g, queue) \in GrowsTo(g, D, b)
<1> DEFINE Merged(s) == MergeFrom(s.g, s.queue)
           Changed(s) == {v \in DOMAIN Merged(s) : Merged(s)[v].cv # s.g[v].cv}
           Round(s) == [g |-> Merged(s), queue |-> Changed(s)]
           Step(s, k) == IF s.queue = {} THEN s ELSE Round(s)
           S == {s \in [g : GrowsTo(g, D, b), queue : SUBSET D] : s.queue \subseteq DOMAIN s.g}
           first == [g |-> g, queue |-> queue]
           n == 2 * Cardinality(DOMAIN g)
           Is(f) == f = [k \in 0..n |-> IF k = 0 THEN first ELSE Step(f[k - 1], k)]
<1>1. n \in Nat
  <2>1. Cardinality(DOMAIN g) \in Nat
    BY GraphFinite
  <2>2. QED
    BY SMT, <2>1
<1>2. first \in S
  <2>1. g \in GrowsTo(g, D, b) /\ queue \in SUBSET D
    BY GrowsSelf, GraphIs
  <2>2. first \in [g : GrowsTo(g, D, b), queue : SUBSET D] /\ first.queue = queue /\ first.g = g
    BY <2>1
  <2>3. QED
    BY <2>2
<1>3. ASSUME NEW s \in S
      PROVE  Round(s) \in S
  <2> DEFINE m == Merged(s)
             q == Changed(s)
  <2>1. s.g \in GrowsTo(g, D, b) /\ s.queue \in SUBSET DOMAIN s.g
    <3>1. s \in [g : GrowsTo(g, D, b), queue : SUBSET D] /\ s.queue \subseteq DOMAIN s.g
      OBVIOUS
    <3>2. QED
      BY <3>1
  <2>2. s.g \in Graph(D, b)
    BY <2>1 DEF GrowsTo
  <2>3. m \in GrowsTo(s.g, D, b)
    BY <2>1, <2>2, MergeFromGrows
  <2>4. m \in GrowsTo(g, D, b)
    BY <2>1, <2>2, <2>3, GrowsOn
  <2>5. m \in Graph(D, b) /\ q \subseteq DOMAIN m
    BY <2>3 DEF GrowsTo
  <2> HIDE DEF q, m
  <2>6. q \in SUBSET D
    BY <2>5, GraphIs
  <2> DEFINE r == [g |-> m, queue |-> q]
  <2>7. r \in [g : GrowsTo(g, D, b), queue : SUBSET D] /\ r.g = m /\ r.queue = q
    BY <2>4, <2>6
  <2>8. Round(s) = r
    BY DEF m, q
  <2> HIDE DEF r, Round
  <2>9. QED
    BY <2>5, <2>7, <2>8
<1>4. \A k \in 1..n, s \in S : Step(s, k) \in S
  <2> HIDE DEF S, Round
  <2>1. QED
    BY <1>3
<1>5. (CHOOSE f : Is(f))[n] \in S
  <2> DEFINE step == [k \in 1..n |-> [x \in S |-> Step(x, k)]]
             f == CHOOSE f : Is(f)
  <2>1. \A k \in 1..n, x \in S : step[k][x] = Step(x, k) /\ step[k][x] \in S
    BY <1>1, <1>2, <1>4
  <2> HIDE DEF step, Step, S, n, first
  <2>2. PICK h : IsIterate(h, S, first, step, n)
    BY <1>1, <1>2, <1>4, <2>1, IterateExists
  <2>3. \A k \in 0..n : k # 0 => k \in 1..n /\ k - 1 \in 0..n
    BY SMT, <1>1
  <2>4. \A k \in 0..n : h[k] = IF k = 0 THEN first ELSE Step(h[k - 1], k)
    BY <2>1, <2>2, <2>3 DEF IsIterate
  <2>5. h = [k \in 0..n |-> h[k]]
    BY <2>2 DEF IsIterate
  <2>6. Is(h)
    BY <2>4, <2>5
  <2>7. Is(f)
    BY <2>6
  <2> HIDE DEF f
  <2>8. 0 \in 0..n /\ \A k \in 1..n : k \in 0..n /\ k # 0
    BY SMT, <1>1
  <2>9. f[0] = first /\ \A k \in 1..n : f[k] = Step(f[k - 1], k)
    BY <2>7, <2>8
  <2>10. f[0] \in S /\ \A k \in 1..n : f[k - 1] \in S => f[k] \in S
    BY <1>1, <1>2, <1>4, <2>9
  <2>11. f[n] \in S
    BY <1>1, <2>10, IterateStays
  <2>12. QED
    BY <2>11 DEF f
<1>6. Propagate(g, queue) = (CHOOSE f : Is(f))[n].g
  BY DEF Propagate
<1> DEFINE end == (CHOOSE f : Is(f))[n]
<1>7. end \in [g : GrowsTo(g, D, b), queue : SUBSET D]
  <2> HIDE DEF Is, n
  <2>1. QED
    BY <1>5
<1>8. Propagate(g, queue) = end.g
  BY <1>6
<1> HIDE DEF end
<1>9. end.g \in GrowsTo(g, D, b)
  BY <1>7
<1>10. QED
  BY <1>8, <1>9

\* addNodeEdge only adds edges and makes vectors grow
LEMMA AddNodeEdgeGrows ==
  ASSUME NEW D, IsFiniteSet(D), NEW b \in Nat, NEW g \in Graph(D, b),
         NEW from \in DOMAIN g, NEW to \in DOMAIN g, NEW force
  PROVE  AddNodeEdge(g, from, to, force) \in GrowsTo(g, D, b)
<1> DEFINE end == RMWChainEnd(g, from, to)
           linked == [g EXCEPT ![end].edges = @ \cup {to}]
           merged == Merge(g[to].cv, g[end].cv)
           next == [linked EXCEPT ![to].cv = merged]
<1>1. AddNodeEdge(g, from, to, force) \in {g, linked, Propagate(next, {to})}
  BY DEF AddNodeEdge
<1>2. end \in DOMAIN g
  BY ChainEndIn
<1>3. /\ g = [m \in DOMAIN g |-> g[m]] /\ DOMAIN g \in SUBSET D
      /\ g[to].cv \in [Thread -> 0..b] /\ g[end].cv \in [Thread -> 0..b]
      /\ g[end].edges \cup {to} \in SUBSET D
  <2> HIDE DEF end
  <2>1. g = [m \in DOMAIN g |-> g[m]] /\ DOMAIN g \in SUBSET D
    BY SMT, GraphIs
  <2>2. g[to].cv \in [Thread -> 0..b] /\ g[end].cv \in [Thread -> 0..b] /\ g[end].edges \in SUBSET D
    BY <1>2, NodeCV
  <2>3. QED
    BY <2>1, <2>2
<1>4. linked \in GrowsTo(g, D, b) /\ linked[end].cv = g[end].cv /\ linked[to].cv = g[to].cv
  <2> HIDE DEF end
  <2> DEFINE E == g[end].edges \cup {to}
  <2>1. IsSet(g, end, [g[end] EXCEPT !.edges = E], linked)
    BY <1>2, <1>3 DEF IsSet
  <2>2. E \in SUBSET D
    BY <1>3
  <2> HIDE DEF E, linked
  <2>3. linked \in GrowsTo(g, D, b) /\ linked[end].cv = g[end].cv
    <3>1. \A F \in SUBSET D :
            IsSet(g, end, [g[end] EXCEPT !.edges = F], linked)
              => linked \in GrowsTo(g, D, b) /\ linked[end].cv = g[end].cv
      BY SMT, <1>2, SetEdges
    <3>2. QED
      BY <2>1, <2>2, <3>1
  <2>4. linked[to].cv = g[to].cv
    <3>1. CASE to = end
      BY <2>3, <3>1
    <3>2. CASE to # end
      BY <2>1, <3>2 DEF IsSet
    <3>3. QED
      BY <3>1, <3>2
  <2>5. QED
    BY <2>3, <2>4
<1>5. linked \in Graph(D, b) /\ to \in DOMAIN linked /\ linked = [m \in DOMAIN linked |-> linked[m]]
  <2> HIDE DEF linked
  <2>1. linked \in Graph(D, b) /\ to \in DOMAIN linked
    BY <1>4 DEF GrowsTo, Grows
  <2>2. QED
    BY SMT, <2>1, GraphIs
<1>6. merged \in [Thread -> 0..b] /\ VectorLeq(linked[to].cv, merged)
  <2> HIDE DEF linked, end
  <2>1. merged \in [Thread -> 0..b] /\ VectorLeq(g[to].cv, merged)
    BY <1>3, MergeGrows
  <2>2. QED
    BY <1>4, <2>1
<1> HIDE DEF linked, merged, end
<1>7. next \in GrowsTo(linked, D, b)
  <2>1. IsSet(linked, to, [linked[to] EXCEPT !.cv = merged], next)
    BY <1>5 DEF IsSet
  <2> HIDE DEF next
  <2>2. QED
    BY <1>5, <1>6, <2>1, SetCV
<1> HIDE DEF next
<1>8. next \in GrowsTo(g, D, b)
  BY <1>4, <1>7, GrowsOn
<1>9. next \in Graph(D, b) /\ {to} \in SUBSET DOMAIN next
  BY <1>8 DEF GrowsTo, Grows
<1>10. Propagate(next, {to}) \in GrowsTo(next, D, b)
  BY <1>9, PropagateGrows
<1>11. Propagate(next, {to}) \in GrowsTo(g, D, b)
  BY <1>8, <1>10, GrowsOn
<1>12. QED
  BY <1>1, <1>4, <1>11, GrowsSelf

\* addEdge
LEMMA AddEdgeGrows ==
  ASSUME NEW D, IsFiniteSet(D), NEW b \in Nat, NEW g \in Graph(D, b), NEW A, TableIn(A, D, b),
         NEW from \in D, NEW to \in D, NEW force
  PROVE  AddEdge(g, A, from, to, force) \in GrowsTo(g, D, b)
<1> DEFINE h == GetNode(g, A, from)
           k == GetNode(h, A, to)
<1>1. h \in GrowsTo(g, D, b) /\ from \in DOMAIN h
  BY GetNodeGrows
<1>2. h \in Graph(D, b)
  BY <1>1 DEF GrowsTo
<1> HIDE DEF h
<1>3. k \in GrowsTo(h, D, b) /\ to \in DOMAIN k
  BY <1>2, GetNodeGrows
<1> HIDE DEF k
<1>4. k \in Graph(D, b) /\ from \in DOMAIN k /\ k \in GrowsTo(g, D, b)
  <2>1. k \in Graph(D, b) /\ from \in DOMAIN k
    BY <1>1, <1>3 DEF GrowsTo, Grows
  <2>2. k \in GrowsTo(g, D, b)
    BY <1>1, <1>3, GrowsOn
  <2>3. QED
    BY <2>1, <2>2
<1>5. AddNodeEdge(k, from, to, force) \in GrowsTo(k, D, b)
  BY <1>3, <1>4, AddNodeEdgeGrows
<1>6. AddNodeEdge(k, from, to, force) \in GrowsTo(g, D, b)
  BY <1>4, <1>5, GrowsOn
<1>7. QED
  BY <1>6 DEF AddEdge, h, k

\* addRMWEdge: moving edges to the RMW leaves the vectors as they are
LEMMA AddRMWEdgeGrows ==
  ASSUME NEW D, IsFiniteSet(D), NEW b \in Nat, NEW g \in Graph(D, b), NEW A, TableIn(A, D, b),
         NEW from \in D, NEW rmw \in D
  PROVE  AddRMWEdge(g, A, from, rmw) \in GrowsTo(g, D, b)
<1> DEFINE h0 == GetNode(g, A, from)
           h == GetNode(h0, A, rmw)
           E == h[rmw].edges \cup (h[from].edges \ {rmw})
           k == [h EXCEPT ![rmw].edges = E]
           l == [k EXCEPT ![from].edges = {}]
           r == IF l[from].rmw = NoNode THEN rmw ELSE l[from].rmw
           moved == [l EXCEPT ![from].rmw = r]
<1>1. AddRMWEdge(g, A, from, rmw) = AddNodeEdge(moved, from, rmw, TRUE)
  BY DEF AddRMWEdge
<1>2. h0 \in GrowsTo(g, D, b) /\ from \in DOMAIN h0
  BY GetNodeGrows
<1> HIDE DEF h0
<1>3. h0 \in Graph(D, b)
  BY <1>2 DEF GrowsTo
<1>4. h \in GrowsTo(h0, D, b) /\ rmw \in DOMAIN h
  BY <1>3, GetNodeGrows
<1> HIDE DEF h
<1>5. /\ h \in Graph(D, b) /\ from \in DOMAIN h /\ h \in GrowsTo(g, D, b)
  <2>1. h \in Graph(D, b) /\ from \in DOMAIN h
    BY <1>2, <1>4 DEF GrowsTo, Grows
  <2>2. h \in GrowsTo(g, D, b)
    BY <1>2, <1>4, GrowsOn
  <2>3. QED
    BY <2>1, <2>2
<1>6. k \in GrowsTo(h, D, b)
  <2>1. h[rmw].edges \in SUBSET D /\ h[from].edges \in SUBSET D
    BY <1>4, <1>5, NodeCV
  <2>2. E \in SUBSET D
    BY <2>1
  <2> HIDE DEF E
  <2>3. h = [m \in DOMAIN h |-> h[m]]
    BY SMT, <1>5, GraphIs
  <2>4. IsSet(h, rmw, [h[rmw] EXCEPT !.edges = E], k)
    BY <1>4, <2>3 DEF IsSet
  <2>5. QED
    BY <1>4, <1>5, <2>2, <2>4, SetEdges
<1> HIDE DEF k
<1>7. k \in Graph(D, b) /\ from \in DOMAIN k /\ rmw \in DOMAIN k /\ k \in GrowsTo(g, D, b)
  <2>1. k \in Graph(D, b) /\ from \in DOMAIN k /\ rmw \in DOMAIN k
    BY <1>4, <1>5, <1>6 DEF GrowsTo, Grows
  <2>2. k \in GrowsTo(g, D, b)
    BY <1>5, <1>6, GrowsOn
  <2>3. QED
    BY <2>1, <2>2
<1>8. l \in GrowsTo(k, D, b)
  <2>1. k = [m \in DOMAIN k |-> k[m]]
    BY SMT, <1>7, GraphIs
  <2>2. IsSet(k, from, [k[from] EXCEPT !.edges = {}], l)
    BY <1>7, <2>1 DEF IsSet
  <2>3. {} \in SUBSET D
    OBVIOUS
  <2> HIDE DEF l
  <2>4. QED
    BY <1>7, <2>2, <2>3, SetEdges
<1> HIDE DEF l
<1>9. l \in Graph(D, b) /\ from \in DOMAIN l /\ rmw \in DOMAIN l /\ l \in GrowsTo(g, D, b)
  <2>1. l \in Graph(D, b) /\ from \in DOMAIN l /\ rmw \in DOMAIN l
    BY <1>7, <1>8 DEF GrowsTo, Grows
  <2>2. l \in GrowsTo(g, D, b)
    BY <1>7, <1>8, GrowsOn
  <2>3. QED
    BY <2>1, <2>2
<1>10. moved \in GrowsTo(l, D, b)
  <2>1. l = [m \in DOMAIN l |-> l[m]] /\ l[from].rmw \in DOMAIN l \cup {NoNode}
    BY SMT, <1>9, GraphIs
  <2>2. r \in DOMAIN l \cup {NoNode}
    BY <1>9, <2>1
  <2> HIDE DEF r
  <2>3. IsSet(l, from, [l[from] EXCEPT !.rmw = r], moved)
    BY <1>9, <2>1 DEF IsSet
  <2> HIDE DEF moved
  <2>4. QED
    BY <1>9, <2>2, <2>3, SetRMW
<1> HIDE DEF moved
<1>11. moved \in Graph(D, b) /\ from \in DOMAIN moved /\ rmw \in DOMAIN moved /\ moved \in GrowsTo(g, D, b)
  <2>1. moved \in Graph(D, b) /\ from \in DOMAIN moved /\ rmw \in DOMAIN moved
    BY <1>9, <1>10 DEF GrowsTo, Grows
  <2>2. moved \in GrowsTo(g, D, b)
    BY <1>9, <1>10, GrowsOn
  <2>3. QED
    BY <2>1, <2>2
<1>12. AddNodeEdge(moved, from, rmw, TRUE) \in GrowsTo(moved, D, b)
  BY <1>11, AddNodeEdgeGrows
<1>13. AddNodeEdge(moved, from, rmw, TRUE) \in GrowsTo(g, D, b)
  BY <1>11, <1>12, GrowsOn
<1>14. QED
  BY <1>1, <1>13

\* A function on 1..n is a sequence of n elements
LEMMA FunctionLen ==
  ASSUME NEW n \in Nat, NEW f, f = [k \in 1..n |-> f[k]]
  PROVE  Len(f) = n
<1> DEFINE S == {f[k] : k \in 1..n}
<1>1. f \in [1..n -> S]
  OBVIOUS
<1> HIDE DEF S
<1>2. f \in Seq(S)
  BY <1>1, FunctionIn
<1>3. Len(f) \in Nat /\ DOMAIN f = 1..Len(f) /\ DOMAIN f = 1..n
  BY <1>1, <1>2, SeqFacts
<1>4. QED
  BY SMT, <1>3

\* The nodes that addEdges makes for its candidates
WithNodes(g, A, s) == FoldLeft(LAMBDA acc, a : GetNode(acc, A, a), g, s)

\* Making them changes none of the others
LEMMA WithNodesGrows ==
  ASSUME NEW D, NEW b \in Nat, NEW g \in Graph(D, b), NEW A, TableIn(A, D, b), NEW s \in Seq(D)
  PROVE  WithNodes(g, A, s) \in GrowsTo(g, D, b)
<1> DEFINE Step(x, k) == GetNode(x, A, s[k])
           S == GrowsTo(g, D, b)
           first == g
           n == Len(s)
           Is(f) == f = [k \in 0..n |-> IF k = 0 THEN first ELSE Step(f[k - 1], k)]
<1>1. n \in Nat
  BY SeqFacts
<1>2. first \in S
  BY GrowsSelf
<1>3. ASSUME NEW k \in 1..n, NEW x \in S
      PROVE  Step(x, k) \in S
  <2>1. s[k] \in D /\ x \in Graph(D, b)
    BY ElementIn DEF GrowsTo
  <2>2. Step(x, k) \in GrowsTo(x, D, b)
    BY <2>1, GetNodeGrows
  <2>3. QED
    BY <2>2, GrowsOn
<1>4. (CHOOSE f : Is(f))[n] \in S
  <2> DEFINE step == [k \in 1..n |-> [x \in S |-> Step(x, k)]]
             f == CHOOSE f : Is(f)
  <2>1. \A k \in 1..n, x \in S : step[k][x] = Step(x, k) /\ step[k][x] \in S
    BY <1>1, <1>2, <1>3
  <2> HIDE DEF step, Step, S, n, first
  <2>2. PICK h : IsIterate(h, S, first, step, n)
    BY <1>1, <1>2, <1>3, <2>1, IterateExists
  <2>3. \A k \in 0..n : k # 0 => k \in 1..n /\ k - 1 \in 0..n
    BY SMT, <1>1
  <2>4. \A k \in 0..n : h[k] = IF k = 0 THEN first ELSE Step(h[k - 1], k)
    BY <2>1, <2>2, <2>3 DEF IsIterate
  <2>5. h = [k \in 0..n |-> h[k]]
    BY <2>2 DEF IsIterate
  <2>6. Is(h)
    BY <2>4, <2>5
  <2>7. Is(f)
    BY <2>6
  <2> HIDE DEF f
  <2>8. 0 \in 0..n /\ \A k \in 1..n : k \in 0..n /\ k # 0
    BY SMT, <1>1
  <2>9. f[0] = first /\ \A k \in 1..n : f[k] = Step(f[k - 1], k)
    BY <2>7, <2>8
  <2>10. f[0] \in S /\ \A k \in 1..n : f[k - 1] \in S => f[k] \in S
    BY <1>1, <1>2, <1>3, <2>9
  <2>11. f[n] \in S
    BY <1>1, <2>10, IterateStays
  <2>12. QED
    BY <2>11 DEF f
<1>5. WithNodes(g, A, s) = (CHOOSE f : Is(f))[n]
  BY DEF WithNodes, FoldLeft
<1>6. QED
  BY <1>4, <1>5

\* addEdges: pruned or not, the candidates' edges only make vectors grow
LEMMA AddEdgesGrows ==
  ASSUME NEW D, IsFiniteSet(D), NEW b \in Nat, NEW g \in Graph(D, b), NEW A, TableIn(A, D, b),
         NEW s \in Seq(D), NEW to \in D
  PROVE  AddEdges(g, A, s, to) \in GrowsTo(g, D, b)
<1> DEFINE first == WithNodes(g, A, s)
           kept == Prune(first, s)
           ids == [i \in DOMAIN s |-> i]
           Step(x, k) == IF ids[k] \notin kept THEN x
                         ELSE AddEdge(x, A, s[ids[k]], to, A[s[ids[k]]].tid = A[to].tid)
           S == GrowsTo(g, D, b)
           n == Len(ids)
           Is(f) == f = [k \in 0..n |-> IF k = 0 THEN first ELSE Step(f[k - 1], k)]
<1>1. n \in Nat /\ \A k \in 1..n : ids[k] \in 1..Len(s)
  <2>1. Len(s) \in Nat /\ DOMAIN s = 1..Len(s)
    BY SeqFacts
  <2>2. ids = [k \in 1..Len(s) |-> ids[k]] /\ \A k \in 1..Len(s) : ids[k] = k
    BY <2>1
  <2> HIDE DEF ids
  <2>3. n = Len(s)
    BY <2>1, <2>2, FunctionLen
  <2>4. QED
    BY <2>1, <2>2, <2>3
<1>2. first \in S
  BY WithNodesGrows
<1>3. ASSUME NEW k \in 1..n, NEW x \in S
      PROVE  Step(x, k) \in S
  <2> HIDE DEF kept, ids
  <2>1. s[ids[k]] \in D /\ x \in Graph(D, b)
    BY <1>1, ElementIn DEF GrowsTo
  <2> DEFINE y == AddEdge(x, A, s[ids[k]], to, A[s[ids[k]]].tid = A[to].tid)
  <2>2. y \in GrowsTo(x, D, b)
    BY <2>1, AddEdgeGrows
  <2>3. y \in S
    BY <2>2, GrowsOn
  <2>4. QED
    BY <2>3
<1>4. (CHOOSE f : Is(f))[n] \in S
  <2> DEFINE step == [k \in 1..n |-> [x \in S |-> Step(x, k)]]
             f == CHOOSE f : Is(f)
  <2>1. \A k \in 1..n, x \in S : step[k][x] = Step(x, k) /\ step[k][x] \in S
    BY <1>1, <1>2, <1>3
  <2> HIDE DEF step, Step, S, n, first
  <2>2. PICK h : IsIterate(h, S, first, step, n)
    BY <1>1, <1>2, <1>3, <2>1, IterateExists
  <2>3. \A k \in 0..n : k # 0 => k \in 1..n /\ k - 1 \in 0..n
    BY SMT, <1>1
  <2>4. \A k \in 0..n : h[k] = IF k = 0 THEN first ELSE Step(h[k - 1], k)
    BY <2>1, <2>2, <2>3 DEF IsIterate
  <2>5. h = [k \in 0..n |-> h[k]]
    BY <2>2 DEF IsIterate
  <2>6. Is(h)
    BY <2>4, <2>5
  <2>7. Is(f)
    BY <2>6
  <2> HIDE DEF f
  <2>8. 0 \in 0..n /\ \A k \in 1..n : k \in 0..n /\ k # 0
    BY SMT, <1>1
  <2>9. f[0] = first /\ \A k \in 1..n : f[k] = Step(f[k - 1], k)
    BY <2>7, <2>8
  <2>10. f[0] \in S /\ \A k \in 1..n : f[k - 1] \in S => f[k] \in S
    BY <1>1, <1>2, <1>3, <2>9
  <2>11. f[n] \in S
    BY <1>1, <2>10, IterateStays
  <2>12. QED
    BY <2>11 DEF f
<1>5. AddEdges(g, A, s, to) = (CHOOSE f : Is(f))[n]
  BY DEF AddEdges, FoldLeft, WithNodes
<1>6. QED
  BY <1>4, <1>5

\* What checkReachable answers once, it answers in a graph that has grown
LEMMA ReachableKept ==
  ASSUME NEW D, NEW b \in Nat, NEW g \in Graph(D, b), NEW E, NEW c \in Nat, NEW h \in GrowsTo(g, E, c),
         NEW x \in DOMAIN g, NEW y \in DOMAIN g, CheckReachable(g, x, y)
  PROVE  CheckReachable(h, x, y)
<1>1. h \in Graph(E, c) /\ Grows(g, h)
  BY DEF GrowsTo
<1>2. /\ x \in DOMAIN h /\ y \in DOMAIN h /\ h[x].tid = g[x].tid /\ h[x].seq = g[x].seq
      /\ VectorLeq(g[y].cv, h[y].cv)
  BY <1>1 DEF Grows
<1>3. g[y].cv \in [Thread -> 0..b] /\ g[x].tid \in Thread /\ g[x].seq \in 0..b
  BY NodeCV
<1>4. h[y].cv \in [Thread -> 0..c]
  BY <1>1, <1>2, NodeCV
<1> DEFINE t == g[x].tid
           n == g[x].seq
           v == g[y].cv
           w == h[y].cv
<1>5. n <= v[t]
  BY DEF CheckReachable, NodeReachable, SynchronizedSince
<1>6. /\ v \in [Thread -> 0..b] /\ w \in [Thread -> 0..c] /\ t \in Thread /\ n \in 0..b
      /\ v[t] <= w[t]
  BY <1>2, <1>3, <1>4 DEF VectorLeq
<1> HIDE DEF t, n, v, w
<1>7. n <= w[t]
  BY SMT, <1>5, <1>6
<1>8. QED
  BY <1>2, <1>7 DEF CheckReachable, NodeReachable, SynchronizedSince, t, n, w

----------------------------------------------------------------------------
(* Release sequences and happens-before on a table A of actions *)

Before(A, i, j) == i < j /\ A[i].tid = A[j].tid

IsReleaseFence(a) == IsFence(a) /\ IsRelease(a)

\* S contains with an RMW the store that the RMW reads
Closed(A, S) == \A x \in S : IsRMW(A[x]) => A[x].rf \in S

\* The least closed set that contains w: what RMWChain computes
Chain(A, w) ==
  {k \in DOMAIN A : \A S \in SUBSET DOMAIN A : w \in S /\ Closed(A, S) => k \in S}

\* What synchronises with whoever acquires by reading w
Sources(A, w) ==
  {k \in DOMAIN A : \/ k \in Chain(A, w) /\ IsRelease(A[k])
                    \/ IsReleaseFence(A[k]) /\ \E x \in Chain(A, w) : Before(A, k, x)}

SyncInto(A, j) ==
  {k \in DOMAIN A :
     \/ IsRead(A[j]) /\ IsAcquire(A[j]) /\ k \in Sources(A, A[j].rf)
     \/ /\ IsFence(A[j]) /\ IsAcquire(A[j])
        /\ \E r \in DOMAIN A : IsRead(A[r]) /\ Before(A, r, j) /\ k \in Sources(A, A[r].rf)
     \/ A[j].type = "start" /\ A[k].type = "create" /\ A[k].val = A[j].tid
     \/ A[j].type = "join" /\ A[k].type = "finish" /\ A[k].tid = A[j].val}

Leads(A, j) == {i \in DOMAIN A : Before(A, i, j)} \cup SyncInto(A, j)

\* One of the actions K has seen action number n of thread t
Seen(A, K, t, n) == \E k \in K : n <= A[k].cv[t]

\* V is the join of the vectors of K
IsJoin(A, V, K) ==
  /\ V \in Vector
  /\ \A t \in Thread, n \in Nat \ {0} : n <= V[t] <=> Seen(A, K, t, n)

----------------------------------------------------------------------------
(* The inductive invariant *)

IsZero(a) == a.type = "nonatomic"

ActionFields ==
  {"type", "tid", "seq", "loc", "order", "val", "rf", "listed", "rfcv", "cv", "lfr"}

IsAction(a) == a = [f \in ActionFields |-> a[f]]

IsTable(A) == Len(A) \in Nat /\ DOMAIN A = 1..Len(A) /\ A = [i \in 1..Len(A) |-> A[i]]

\* The stores that zero-initialise memory belong to thread 0, and nothing else does
EntryOK(A, i) ==
  /\ IsAction(A[i]) /\ A[i].type # "free"
  /\ A[i].tid \in Thread /\ A[i].tid <= i
  /\ A[i].seq \in Nat
  /\ A[i].cv \in Vector /\ \A t \in Thread : A[i].cv[t] <= A[i].seq
  /\ IsRead(A[i]) => A[i].rf \in 1..(i - 1)
  /\ IF IsZero(A[i]) THEN A[i].tid = 0 /\ A[i].seq = 0 /\ A[i].order = "relaxed"
                     ELSE A[i].tid # 0 /\ A[i].seq # 0

\* lfr is the last release fence of the thread before the action
FenceOK(A, i) ==
  IF A[i].lfr = None THEN \A k \in DOMAIN A : ~(IsReleaseFence(A[k]) /\ Before(A, k, i))
  ELSE /\ A[i].lfr \in DOMAIN A /\ IsReleaseFence(A[A[i].lfr]) /\ Before(A, A[i].lfr, i)
       /\ \A k \in DOMAIN A : IsReleaseFence(A[k]) /\ Before(A, k, i) => k <= A[i].lfr

\* A vector has seen its own action, and what the actions that lead to it have seen
VectorOK(A, j) ==
  ~IsZero(A[j]) => \A t \in Thread, n \in Nat \ {0} :
     n <= A[j].cv[t] <=> (t = A[j].tid /\ n <= A[j].seq) \/ Seen(A, Leads(A, j), t, n)

CacheOK(A, i) == A[i].rfcv # NoVector => IsJoin(A, A[i].rfcv, Sources(A, i))

\* Nothing follows a thread's finish, and a joined thread has finished
FinishOK(A, i) ==
  /\ A[i].type = "finish" => \A k \in DOMAIN A : A[k].tid = A[i].tid => k <= i
  /\ A[i].type = "join" => \E k \in DOMAIN A : A[k].type = "finish" /\ A[k].tid = A[i].val

InOrder(A) ==
  \A i, j \in DOMAIN A : i < j /\ ~IsZero(A[i]) /\ ~IsZero(A[j]) => A[i].seq < A[j].seq

TableOK(A) ==
  /\ IsTable(A)
  /\ InOrder(A)
  /\ \A i \in DOMAIN A : /\ EntryOK(A, i) /\ FenceOK(A, i) /\ VectorOK(A, i)
                         /\ CacheOK(A, i) /\ FinishOK(A, i)

\* What the reads of thread t could acquire
Acquirable(A, t) ==
  {k \in DOMAIN A : \E r \in DOMAIN A : IsRead(A[r]) /\ A[r].tid = t /\ k \in Sources(A, A[r].rf)}

\* No sequence number is above b
Bounded(A, b) == b \in Nat /\ \A i \in DOMAIN A : A[i].seq <= b

\* A created thread has started
CreatedOK(A) == \A i \in DOMAIN A : A[i].type = "create" => \E k \in DOMAIN A : A[k].tid = A[i].val

\* A is the table, s the last sequence number and F the acquire-fence vectors
StateOK(A, s, F) ==
  /\ TableOK(A) /\ Bounded(A, s)
  /\ CreatedOK(A)
  /\ F = [t \in Thread |-> F[t]]
  /\ \A t \in Thread : IsJoin(A, F[t], Acquirable(A, t))

HBInv == StateOK(acts, seq_num, acq_fence)

----------------------------------------------------------------------------
(* Tables *)

\* B is the table A with the entry e, at n, after it
Appended(A, e, B, n) ==
  /\ IsTable(B) /\ Len(B) = n /\ DOMAIN B = 1..n /\ B[n] = e
  /\ \A i \in DOMAIN A : i \in DOMAIN B /\ B[i] = A[i]

\* A table is a sequence, and stays one when an entry is appended
LEMMA TableAppend ==
  ASSUME NEW A, IsTable(A), NEW e, NEW B, B = Append(A, e), NEW n, n = Len(A) + 1
  PROVE  Appended(A, e, B, n)
<1> DEFINE S == {A[i] : i \in DOMAIN A} \cup {e}
<1>1. Len(A) \in Nat /\ DOMAIN A = 1..Len(A)
  BY DEF IsTable
<1>2. A \in [1..Len(A) -> S]
  BY <1>1 DEF IsTable
<1>3. A \in Seq(S)
  BY <1>1, <1>2, FunctionIn
<1>4. e \in S
  OBVIOUS
<1> HIDE DEF S
<1>5. /\ Append(A, e) \in Seq(S)
      /\ Len(Append(A, e)) = Len(A) + 1
      /\ \A i \in 1..Len(A) : Append(A, e)[i] = A[i]
      /\ Append(A, e)[Len(A) + 1] = e
  BY SMT, <1>3, <1>4, AppendFacts
<1>6. /\ Len(Append(A, e)) \in Nat
      /\ Append(A, e) \in [1..Len(Append(A, e)) -> S]
      /\ DOMAIN Append(A, e) = 1..Len(Append(A, e))
  BY <1>5, SeqFacts
<1>7. IsTable(Append(A, e))
  BY <1>6 DEF IsTable
<1>8. \A i \in 1..Len(A) : i \in 1..(Len(A) + 1)
  BY SMT, <1>1
<1>9. Appended(A, e, Append(A, e), Len(A) + 1)
  <2>1. DOMAIN Append(A, e) = 1..(Len(A) + 1)
    BY <1>5, <1>6
  <2>2. \A i \in DOMAIN A : i \in DOMAIN Append(A, e) /\ Append(A, e)[i] = A[i]
    BY <1>1, <1>5, <1>8, <2>1
  <2>3. QED
    BY <1>5, <1>7, <2>1, <2>2 DEF Appended
<1>10. QED
  BY <1>9

----------------------------------------------------------------------------
(* Release sequences *)

\* A chain is closed and contains its store; every closed set with the store contains it
LEMMA ChainClosed ==
  ASSUME NEW A, Closed(A, DOMAIN A), NEW w \in DOMAIN A
  PROVE  /\ w \in Chain(A, w) /\ Chain(A, w) \in SUBSET DOMAIN A
         /\ Closed(A, Chain(A, w))
         /\ \A S \in SUBSET DOMAIN A : w \in S /\ Closed(A, S) => Chain(A, w) \subseteq S
<1>1. w \in Chain(A, w) /\ Chain(A, w) \in SUBSET DOMAIN A
  BY DEF Chain
<1>2. Closed(A, Chain(A, w))
  <2>1. SUFFICES ASSUME NEW x \in Chain(A, w), IsRMW(A[x])
                 PROVE  A[x].rf \in Chain(A, w)
    BY DEF Closed
  <2>2. A[x].rf \in DOMAIN A
    BY <1>1, <2>1 DEF Closed
  <2>3. ASSUME NEW S \in SUBSET DOMAIN A, w \in S, Closed(A, S)
        PROVE  A[x].rf \in S
    BY <2>1, <2>3 DEF Chain, Closed
  <2>4. QED
    BY <2>2, <2>3 DEF Chain
<1>3. \A S \in SUBSET DOMAIN A : w \in S /\ Closed(A, S) => Chain(A, w) \subseteq S
  BY DEF Chain
<1>4. QED
  BY <1>1, <1>2, <1>3

\* The chain of an RMW is the RMW and the chain of the store it reads: the
\* recursion of get_hb_from_write
LEMMA ChainStep ==
  ASSUME NEW A, Closed(A, DOMAIN A), NEW w \in DOMAIN A
  PROVE  /\ IsRMW(A[w]) => Chain(A, w) = {w} \cup Chain(A, A[w].rf)
         /\ ~IsRMW(A[w]) => Chain(A, w) = {w}
<1>1. /\ w \in Chain(A, w) /\ Chain(A, w) \in SUBSET DOMAIN A /\ Closed(A, Chain(A, w))
      /\ \A S \in SUBSET DOMAIN A : w \in S /\ Closed(A, S) => Chain(A, w) \subseteq S
  BY ChainClosed
<1>2. ASSUME ~IsRMW(A[w])
      PROVE  Chain(A, w) = {w}
  <2>1. {w} \in SUBSET DOMAIN A /\ w \in {w} /\ Closed(A, {w})
    BY <1>2 DEF Closed
  <2>2. Chain(A, w) \subseteq {w}
    BY <1>1, <2>1
  <2>3. QED
    BY <1>1, <2>2
<1>3. ASSUME IsRMW(A[w])
      PROVE  Chain(A, w) = {w} \cup Chain(A, A[w].rf)
  <2> DEFINE r == A[w].rf
             D == {w} \cup Chain(A, r)
  <2>1. r \in DOMAIN A
    BY <1>3 DEF Closed
  <2> HIDE DEF r
  <2>2. /\ r \in Chain(A, r) /\ Chain(A, r) \in SUBSET DOMAIN A /\ Closed(A, Chain(A, r))
        /\ \A S \in SUBSET DOMAIN A : r \in S /\ Closed(A, S) => Chain(A, r) \subseteq S
    BY <2>1, ChainClosed
  <2>3. D \in SUBSET DOMAIN A /\ w \in D
    BY <2>2
  <2>4. Closed(A, D)
    <3>1. SUFFICES ASSUME NEW x \in D, IsRMW(A[x])
                   PROVE  A[x].rf \in D
      BY DEF Closed
    <3>2. CASE x = w
      BY <2>2, <3>2 DEF r
    <3>3. CASE x \in Chain(A, r)
      BY <2>2, <3>1, <3>3 DEF Closed
    <3>4. QED
      BY <3>1, <3>2, <3>3
  <2>5. Chain(A, w) \subseteq D
    BY <1>1, <2>3, <2>4
  <2>6. r \in Chain(A, w)
    BY <1>1, <1>3 DEF Closed, r
  <2>7. Chain(A, r) \subseteq Chain(A, w)
    BY <1>1, <2>2, <2>6
  <2>8. Chain(A, w) = D
    BY <1>1, <2>5, <2>7
  <2>9. QED
    BY <2>8 DEF r
<1>4. QED
  BY <1>2, <1>3

\* B has the entries of A, but for the vectors cached in rfcv, and perhaps more
Same(a, b) ==
  /\ b.type = a.type /\ b.tid = a.tid /\ b.seq = a.seq /\ b.loc = a.loc /\ b.order = a.order
  /\ b.val = a.val /\ b.rf = a.rf /\ b.cv = a.cv /\ b.lfr = a.lfr

Extends(A, B) ==
  /\ IsTable(A) /\ IsTable(B)
  /\ DOMAIN A \subseteq DOMAIN B
  /\ \A i \in DOMAIN A : Same(A[i], B[i])

\* Reads come after what they read
ReadsBack(A) == \A i \in DOMAIN A : IsRead(A[i]) => A[i].rf \in 1..(i - 1)

\* A table in which reads come after what they read is closed, and so are its beginnings
LEMMA BackClosed ==
  ASSUME NEW A, IsTable(A), ReadsBack(A)
  PROVE  /\ Closed(A, DOMAIN A)
         /\ \A w \in DOMAIN A : Closed(A, 1..w) /\ 1..w \in SUBSET DOMAIN A /\ w \in 1..w
<1>1. Len(A) \in Nat /\ DOMAIN A = 1..Len(A)
  BY DEF IsTable
<1>2. \A w \in DOMAIN A : 1..w \in SUBSET DOMAIN A /\ w \in 1..w
  BY SMT, <1>1
<1>3. \A w \in DOMAIN A : Closed(A, 1..w)
  <2>1. SUFFICES ASSUME NEW w \in DOMAIN A, NEW x \in 1..w, IsRMW(A[x])
                 PROVE  A[x].rf \in 1..w
    BY DEF Closed
  <2>2. x \in DOMAIN A
    BY <1>2, <2>1
  <2>3. A[x].rf \in 1..(x - 1)
    BY <2>1, <2>2 DEF ReadsBack, IsRMW, IsRead
  <2>4. w \in Nat /\ x \in Nat /\ x <= w
    BY SMT, <1>1, <2>1
  <2>5. \A r \in 1..(x - 1) : r \in 1..w
    BY SMT, <2>4
  <2>6. QED
    BY <2>3, <2>5
<1>4. Closed(A, DOMAIN A)
  <2>1. SUFFICES ASSUME NEW x \in DOMAIN A, IsRMW(A[x])
                 PROVE  A[x].rf \in DOMAIN A
    BY DEF Closed
  <2>2. A[x].rf \in 1..x
    BY <1>2, <1>3, <2>1 DEF Closed
  <2>3. QED
    BY <1>2, <2>1, <2>2
<1>5. QED
  BY <1>2, <1>3, <1>4

\* Later entries and cached vectors do not change a chain
LEMMA ChainExtends ==
  ASSUME NEW A, NEW B, Extends(A, B), ReadsBack(A), ReadsBack(B), NEW w \in DOMAIN A
  PROVE  Chain(B, w) = Chain(A, w)
<1>1. /\ Closed(A, DOMAIN A) /\ Closed(B, DOMAIN B)
      /\ DOMAIN A \subseteq DOMAIN B /\ w \in DOMAIN B
  BY BackClosed DEF Extends
<1>2. \A x \in DOMAIN A : B[x].rf = A[x].rf /\ (IsRMW(B[x]) <=> IsRMW(A[x]))
  BY DEF Extends, Same, IsRMW
<1>3. /\ w \in Chain(A, w) /\ Chain(A, w) \in SUBSET DOMAIN A /\ Closed(A, Chain(A, w))
      /\ \A S \in SUBSET DOMAIN A : w \in S /\ Closed(A, S) => Chain(A, w) \subseteq S
  BY <1>1, ChainClosed
<1>4. /\ w \in Chain(B, w) /\ Chain(B, w) \in SUBSET DOMAIN B /\ Closed(B, Chain(B, w))
      /\ \A S \in SUBSET DOMAIN B : w \in S /\ Closed(B, S) => Chain(B, w) \subseteq S
  BY <1>1, ChainClosed
<1>5. Chain(A, w) \in SUBSET DOMAIN B /\ Closed(B, Chain(A, w))
  BY <1>1, <1>2, <1>3 DEF Closed
<1>6. Chain(B, w) \subseteq Chain(A, w)
  BY <1>3, <1>4, <1>5
<1>7. Chain(B, w) \in SUBSET DOMAIN A /\ Closed(A, Chain(B, w))
  BY <1>2, <1>3, <1>4, <1>6 DEF Closed
<1>8. Chain(A, w) \subseteq Chain(B, w)
  BY <1>3, <1>4, <1>7
<1>9. QED
  BY <1>6, <1>8

\* A chain goes back from its store, and so do the sources
LEMMA SourcesBack ==
  ASSUME NEW A, IsTable(A), ReadsBack(A), NEW w \in DOMAIN A
  PROVE  Chain(A, w) \subseteq 1..w /\ Sources(A, w) \subseteq 1..w
<1>1. Closed(A, DOMAIN A) /\ Closed(A, 1..w) /\ 1..w \in SUBSET DOMAIN A /\ w \in 1..w
  BY BackClosed
<1>2. Chain(A, w) \subseteq 1..w
  BY <1>1, ChainClosed
<1>3. ASSUME NEW k \in DOMAIN A, NEW x \in 1..w, k < x
      PROVE  k \in 1..w
  <2>1. Len(A) \in Nat /\ DOMAIN A = 1..Len(A)
    BY DEF IsTable
  <2>2. QED
    BY SMT, <1>3, <2>1
<1>4. QED
  BY <1>2, <1>3 DEF Sources, Before

\* Later entries and cached vectors do not change what synchronises through a store
LEMMA SourcesExtend ==
  ASSUME NEW A, NEW B, Extends(A, B), ReadsBack(A), ReadsBack(B), NEW w \in DOMAIN A
  PROVE  Sources(B, w) = Sources(A, w)
<1>1. Chain(B, w) = Chain(A, w)
  BY ChainExtends
<1>2. IsTable(A) /\ IsTable(B) /\ w \in DOMAIN B /\ DOMAIN A \subseteq DOMAIN B
  BY DEF Extends
<1>3. /\ 1..w \subseteq DOMAIN A /\ Chain(A, w) \subseteq DOMAIN A
      /\ Sources(A, w) \subseteq 1..w /\ Sources(B, w) \subseteq 1..w
  BY <1>2, BackClosed, SourcesBack
<1>4. \A k \in DOMAIN A : /\ IsRelease(B[k]) <=> IsRelease(A[k])
                          /\ IsReleaseFence(B[k]) <=> IsReleaseFence(A[k])
                          /\ \A x \in DOMAIN A : Before(B, k, x) <=> Before(A, k, x)
  BY DEF Extends, Same, IsRelease, IsReleaseFence, IsFence, Before
<1>5. \A k \in DOMAIN A : k \in Sources(B, w) <=> k \in Sources(A, w)
  BY <1>1, <1>2, <1>3, <1>4 DEF Sources
<1>6. QED
  BY <1>3, <1>5

\* What synchronises through w: w itself if it releases, the release fences
\* before it, and for an RMW what synchronises through the store it reads
LEMMA SourcesStep ==
  ASSUME NEW A, Closed(A, DOMAIN A), NEW w \in DOMAIN A, NEW k \in DOMAIN A
  PROVE  k \in Sources(A, w) <=> \/ k = w /\ IsRelease(A[w])
                                 \/ IsReleaseFence(A[k]) /\ Before(A, k, w)
                                 \/ IsRMW(A[w]) /\ k \in Sources(A, A[w].rf)
<1>1. CASE IsRMW(A[w])
  <2>1. Chain(A, w) = {w} \cup Chain(A, A[w].rf)
    BY <1>1, ChainStep
  <2>2. QED
    BY <1>1, <2>1 DEF Sources
<1>2. CASE ~IsRMW(A[w])
  <2>1. Chain(A, w) = {w}
    BY <1>2, ChainStep
  <2>2. QED
    BY <1>2, <2>1 DEF Sources
<1>3. QED
  BY <1>1, <1>2

----------------------------------------------------------------------------
(* get_hb_from_write *)

\* What merge computes: the merged vector has seen what either has seen
LEMMA MergeSees ==
  ASSUME NEW V \in Vector, NEW W \in Vector
  PROVE  /\ Merge(V, W) \in Vector
         /\ \A t \in Thread, n \in Nat : n <= Merge(V, W)[t] <=> n <= V[t] \/ n <= W[t]
<1>1. \A t \in Thread : V[t] \in Nat /\ W[t] \in Nat
  BY DEF Vector
<1>2. \A t \in Thread : Merge(V, W)[t] = MaxNat(V[t], W[t])
  BY DEF Merge
<1>3. \A a, b \in Nat : MaxNat(a, b) \in Nat /\ \A n \in Nat : n <= MaxNat(a, b) <=> n <= a \/ n <= b
  BY SMT DEF MaxNat
<1>4. Merge(V, W) \in Vector
  BY <1>1, <1>3 DEF Merge, Vector
<1>5. QED
  <2>1. ASSUME NEW t \in Thread, NEW n \in Nat
        PROVE  n <= Merge(V, W)[t] <=> n <= V[t] \/ n <= W[t]
    <3>1. V[t] \in Nat /\ W[t] \in Nat /\ Merge(V, W)[t] = MaxNat(V[t], W[t])
      BY <1>1, <1>2
    <3>2. n <= MaxNat(V[t], W[t]) <=> n <= V[t] \/ n <= W[t]
      BY <1>3, <3>1
    <3>3. QED
      BY <3>1, <3>2
  <2>2. QED
    BY <1>4, <2>1

\* A table whose entries are well formed, with the entries taken apart
LEMMA TableFacts ==
  ASSUME NEW A, TableOK(A)
  PROVE  /\ IsTable(A) /\ ReadsBack(A) /\ Closed(A, DOMAIN A)
         /\ Len(A) \in Nat /\ DOMAIN A = 1..Len(A)
         /\ \A i \in DOMAIN A : \A t \in Thread : A[i].cv[t] \in Nat /\ A[i].cv[t] <= A[i].seq
<1>1. IsTable(A) /\ ReadsBack(A)
  BY DEF TableOK, EntryOK, ReadsBack
<1>2. \A i \in DOMAIN A : \A t \in Thread : A[i].cv[t] \in Nat /\ A[i].cv[t] <= A[i].seq
  BY DEF TableOK, EntryOK, Vector
<1>3. QED
  BY <1>1, <1>2, BackClosed DEF IsTable

\* An action has seen whatever the actions that lead to it have seen
LEMMA LeadsSeen ==
  ASSUME NEW A, TableOK(A), NEW j \in DOMAIN A, ~IsZero(A[j]), NEW p \in Leads(A, j), NEW t \in Thread
  PROVE  A[p].cv[t] <= A[j].cv[t]
<1>1. p \in DOMAIN A
  BY DEF Leads, SyncInto
<1>2. A[p].cv[t] \in Nat /\ A[j].cv[t] \in Nat
  BY <1>1, TableFacts
<1>3. CASE A[p].cv[t] = 0
  BY SMT, <1>2, <1>3
<1>4. CASE A[p].cv[t] # 0
  <2>1. A[p].cv[t] \in Nat \ {0} /\ A[p].cv[t] <= A[p].cv[t]
    BY SMT, <1>2, <1>4
  <2>2. VectorOK(A, j)
    BY DEF TableOK
  <2>3. QED
    BY <2>1, <2>2 DEF VectorOK, Seen
<1>5. QED
  BY <1>3, <1>4

\* The vectors of a thread grow
LEMMA VectorsGrow ==
  ASSUME NEW A, TableOK(A), NEW i \in DOMAIN A, NEW j \in DOMAIN A, Before(A, i, j), NEW t \in Thread
  PROVE  A[i].cv[t] <= A[j].cv[t]
<1>1. CASE ~IsZero(A[j])
  <2>1. i \in Leads(A, j)
    BY DEF Leads
  <2>2. QED
    BY <1>1, <2>1, LeadsSeen
<1>2. CASE IsZero(A[j])
  <2>1. A[i].tid = 0
    BY <1>2 DEF Before, TableOK, EntryOK
  <2>2. A[i].seq = 0
    BY <2>1 DEF TableOK, EntryOK
  <2>3. A[i].cv[t] \in Nat /\ A[j].cv[t] \in Nat /\ A[i].cv[t] <= A[i].seq
    BY TableFacts
  <2>4. QED
    BY SMT, <2>2, <2>3
<1>3. QED
  BY <1>1, <1>2

\* One turn of get_hb_from_write: the vector for a reader of i, prev being the
\* one for a reader of the store that RMW i reads
HbStep(A, i, prev) ==
  IF A[i].rfcv # NoVector THEN A[i].rfcv
  ELSE IF IsRelease(A[i]) /\ (IsAcquire(A[i]) \/ ~IsRMW(A[i])) THEN A[i].cv
  ELSE IF IsRelease(A[i]) THEN Merge(prev, A[i].cv)
  ELSE IF A[i].lfr # None THEN Merge(prev, A[A[i].lfr].cv)
  ELSE prev

\* A turn joins the vectors of what synchronises through i, if prev joins those
\* of what synchronises through the store that i reads
LEMMA HbStepJoins ==
  ASSUME NEW A, TableOK(A), NEW i \in DOMAIN A, NEW prev \in Vector,
         \A t \in Thread, n \in Nat \ {0} :
           n <= prev[t] <=> IsRMW(A[i]) /\ Seen(A, Sources(A, A[i].rf), t, n)
  PROVE  IsJoin(A, HbStep(A, i, prev), Sources(A, i))
<1>1. /\ EntryOK(A, i) /\ FenceOK(A, i) /\ VectorOK(A, i) /\ CacheOK(A, i) /\ Closed(A, DOMAIN A)
      /\ A[i].cv \in Vector
  BY TableFacts DEF TableOK, EntryOK
<1>2. ASSUME NEW t \in Thread, NEW n \in Nat \ {0}
      PROVE  Seen(A, Sources(A, i), t, n) <=>
               \/ IsRelease(A[i]) /\ n <= A[i].cv[t]
               \/ \E k \in DOMAIN A : IsReleaseFence(A[k]) /\ Before(A, k, i) /\ n <= A[k].cv[t]
               \/ n <= prev[t]
  <2>1. \A k \in DOMAIN A : k \in Sources(A, i) <=>
          \/ k = i /\ IsRelease(A[i])
          \/ IsReleaseFence(A[k]) /\ Before(A, k, i)
          \/ IsRMW(A[i]) /\ k \in Sources(A, A[i].rf)
    BY <1>1, SourcesStep
  <2>2. \A w : Sources(A, w) \subseteq DOMAIN A
    BY DEF Sources
  <2>3. n <= prev[t] <=> IsRMW(A[i]) /\ Seen(A, Sources(A, A[i].rf), t, n)
    BY <1>2
  <2>4. QED
    BY <2>1, <2>2, <2>3 DEF Seen
<1>3. ASSUME NEW t \in Thread, NEW n \in Nat \ {0}, NEW k \in DOMAIN A, NEW j \in DOMAIN A,
             Before(A, k, j), n <= A[k].cv[t]
      PROVE  n <= A[j].cv[t]
  <2>1. A[k].cv[t] <= A[j].cv[t] /\ A[k].cv[t] \in Nat /\ A[j].cv[t] \in Nat
    BY <1>3, VectorsGrow, TableFacts
  <2>2. QED
    BY SMT, <1>3, <2>1
<1>4. CASE A[i].rfcv # NoVector
  BY <1>1, <1>4 DEF CacheOK, HbStep
<1>5. CASE A[i].rfcv = NoVector /\ IsRelease(A[i]) /\ (IsAcquire(A[i]) \/ ~IsRMW(A[i]))
  <2>1. ASSUME NEW t \in Thread, NEW n \in Nat \ {0}, n <= prev[t]
        PROVE  n <= A[i].cv[t]
    <3>1. IsRMW(A[i]) /\ Seen(A, Sources(A, A[i].rf), t, n)
      BY <2>1
    <3>2. \A k \in Sources(A, A[i].rf) : k \in Leads(A, i)
      BY <1>5, <3>1 DEF Leads, SyncInto, Sources, IsRead, IsRMW
    <3>3. Seen(A, Leads(A, i), t, n)
      BY <3>1, <3>2 DEF Seen
    <3>4. ~IsZero(A[i])
      BY <3>1 DEF IsZero, IsRMW
    <3>5. QED
      BY <1>1, <3>3, <3>4 DEF VectorOK
  <2>2. \A t \in Thread, n \in Nat \ {0} : n <= A[i].cv[t] <=> Seen(A, Sources(A, i), t, n)
    BY <1>2, <1>3, <1>5, <2>1
  <2>3. HbStep(A, i, prev) = A[i].cv
    BY <1>5 DEF HbStep
  <2>4. QED
    BY <1>1, <2>2, <2>3 DEF IsJoin
<1>6. CASE A[i].rfcv = NoVector /\ IsRelease(A[i]) /\ ~(IsAcquire(A[i]) \/ ~IsRMW(A[i]))
  <2>1. HbStep(A, i, prev) = Merge(prev, A[i].cv)
    BY <1>6 DEF HbStep
  <2>2. /\ Merge(prev, A[i].cv) \in Vector
        /\ \A t \in Thread, n \in Nat : n <= Merge(prev, A[i].cv)[t] <=> n <= prev[t] \/ n <= A[i].cv[t]
    BY <1>1, MergeSees
  <2>3. \A t \in Thread, n \in Nat \ {0} :
          n <= Merge(prev, A[i].cv)[t] <=> Seen(A, Sources(A, i), t, n)
    BY <1>2, <1>3, <1>6, <2>2
  <2>4. QED
    BY <2>1, <2>2, <2>3 DEF IsJoin
<1>7. CASE A[i].rfcv = NoVector /\ ~IsRelease(A[i]) /\ A[i].lfr # None
  <2> DEFINE f == A[i].lfr
  <2>1. /\ f \in DOMAIN A /\ IsReleaseFence(A[f]) /\ Before(A, f, i)
        /\ \A k \in DOMAIN A : IsReleaseFence(A[k]) /\ Before(A, k, i) => k <= f
    BY <1>1, <1>7 DEF FenceOK
  <2>2. HbStep(A, i, prev) = Merge(prev, A[f].cv)
    BY <1>7 DEF HbStep
  <2> HIDE DEF f
  <2>3. A[f].cv \in Vector
    BY <2>1 DEF TableOK, EntryOK
  <2>4. /\ Merge(prev, A[f].cv) \in Vector
        /\ \A t \in Thread, n \in Nat : n <= Merge(prev, A[f].cv)[t] <=> n <= prev[t] \/ n <= A[f].cv[t]
    BY <2>3, MergeSees
  <2>5. ASSUME NEW k \in DOMAIN A, IsReleaseFence(A[k]), Before(A, k, i)
        PROVE  k = f \/ Before(A, k, f)
    <3>1. k <= f /\ A[k].tid = A[f].tid
      BY <2>1, <2>5 DEF Before
    <3>2. k \in Nat /\ f \in Nat
      BY SMT, <2>1, TableFacts
    <3>3. k = f \/ k < f
      BY SMT, <3>1, <3>2
    <3>4. QED
      BY <3>1, <3>3 DEF Before
  <2>6. \A t \in Thread, n \in Nat \ {0} :
          n <= Merge(prev, A[f].cv)[t] <=> Seen(A, Sources(A, i), t, n)
    BY <1>2, <1>3, <1>7, <2>1, <2>4, <2>5
  <2>7. QED
    BY <2>2, <2>4, <2>6 DEF IsJoin
<1>8. CASE A[i].rfcv = NoVector /\ ~IsRelease(A[i]) /\ A[i].lfr = None
  <2>1. HbStep(A, i, prev) = prev
    BY <1>8 DEF HbStep
  <2>2. \A k \in DOMAIN A : ~(IsReleaseFence(A[k]) /\ Before(A, k, i))
    BY <1>1, <1>8 DEF FenceOK
  <2>3. \A t \in Thread, n \in Nat \ {0} : n <= prev[t] <=> Seen(A, Sources(A, i), t, n)
    BY <1>2, <1>8, <2>2
  <2>4. QED
    BY <2>1, <2>3 DEF IsJoin
<1>9. QED
  BY <1>4, <1>5, <1>6, <1>7, <1>8

\* The join of the vectors of K, as a vector
JoinOf(A, K) == [t \in Thread |-> Max({0} \cup {A[k].cv[t] : k \in K})]

\* It is their join: the numbers are bounded, so that every maximum exists
LEMMA JoinOfJoins ==
  ASSUME NEW A, TableOK(A), NEW b, Bounded(A, b), NEW K \in SUBSET DOMAIN A
  PROVE  IsJoin(A, JoinOf(A, K), K)
<1>1. ASSUME NEW t \in Thread
      PROVE  /\ JoinOf(A, K)[t] \in Nat
             /\ \A n \in Nat \ {0} : n <= JoinOf(A, K)[t] <=> Seen(A, K, t, n)
  <2> DEFINE S == {0} \cup {A[k].cv[t] : k \in K}
  <2>1. \A k \in K : A[k].cv[t] \in Nat /\ A[k].cv[t] <= A[k].seq /\ A[k].seq <= b /\ A[k].seq \in Nat
    BY TableFacts DEF Bounded, TableOK, EntryOK
  <2>2. b \in Nat
    BY DEF Bounded
  <2>3. \A k \in K : A[k].cv[t] <= b
    BY SMT, <2>1, <2>2
  <2>4. S \in SUBSET Nat /\ S # {}
    BY SMT, <2>1
  <2>5. \A x \in S : x <= b
    BY SMT, <2>2, <2>3
  <2>6. Max(S) \in S /\ \A x \in S : x <= Max(S)
    BY <2>2, <2>4, <2>5, MaxIn
  <2>7. JoinOf(A, K)[t] = Max(S)
    BY DEF JoinOf
  <2>8. Max(S) \in Nat /\ \A k \in K : A[k].cv[t] <= Max(S)
    BY <2>4, <2>6
  <2>9. Max(S) = 0 \/ \E k \in K : Max(S) = A[k].cv[t]
    BY <2>6
  <2> HIDE DEF S
  <2>10. ASSUME NEW n \in Nat \ {0}
         PROVE  n <= Max(S) <=> \E k \in K : n <= A[k].cv[t]
    <3>1. ASSUME NEW k \in K, n <= A[k].cv[t]
          PROVE  n <= Max(S)
      BY SMT, <2>1, <2>8, <3>1
    <3>2. ASSUME n <= Max(S)
          PROVE  \E k \in K : n <= A[k].cv[t]
      <4>1. Max(S) # 0
        BY SMT, <3>2
      <4>2. QED
        BY <2>9, <3>2, <4>1
    <3>3. QED
      BY <3>1, <3>2
  <2>11. QED
    BY <2>7, <2>8, <2>10 DEF Seen
<1>2. JoinOf(A, K) \in Vector
  BY <1>1 DEF JoinOf, Vector
<1>3. QED
  BY <1>1, <1>2 DEF IsJoin

\* Only one vector is the join of the vectors of K
LEMMA JoinUnique ==
  ASSUME NEW A, NEW K, NEW V, NEW W, IsJoin(A, V, K), IsJoin(A, W, K)
  PROVE  V = W
<1>1. ASSUME NEW t \in Thread
      PROVE  V[t] = W[t]
  <2>1. V[t] \in Nat /\ W[t] \in Nat
    BY DEF IsJoin, Vector
  <2>2. \A n \in Nat \ {0} : n <= V[t] <=> n <= W[t]
    BY DEF IsJoin
  <2>3. QED
    BY SMT, <2>1, <2>2
<1>2. V \in [Thread -> Nat] /\ W \in [Thread -> Nat]
  BY DEF IsJoin, Vector
<1>3. QED
  BY SMT, <1>1, <1>2

\* The turn for i with the vectors f of the turns before it
HbTurn(A, f, i) == HbStep(A, i, IF IsRMW(A[i]) THEN f[A[i].rf] ELSE ZeroVector)

\* A turn is exact if f is for the store that i reads
LEMMA HbTurnJoins ==
  ASSUME NEW A, TableOK(A), NEW i \in DOMAIN A, NEW f,
         IsRMW(A[i]) => IsJoin(A, f[A[i].rf], Sources(A, A[i].rf))
  PROVE  IsJoin(A, HbTurn(A, f, i), Sources(A, i))
<1>1. ZeroVector \in Vector /\ \A t \in Thread, n \in Nat \ {0} : ~(n <= ZeroVector[t])
  BY SMT DEF ZeroVector, Vector
<1>2. CASE IsRMW(A[i])
  <2> DEFINE prev == f[A[i].rf]
  <2>1. HbTurn(A, f, i) = HbStep(A, i, prev)
    BY <1>2 DEF HbTurn
  <2>2. prev \in Vector /\ \A t \in Thread, n \in Nat \ {0} :
          n <= prev[t] <=> IsRMW(A[i]) /\ Seen(A, Sources(A, A[i].rf), t, n)
    BY <1>2 DEF IsJoin
  <2> HIDE DEF prev
  <2>3. QED
    BY <2>1, <2>2, HbStepJoins
<1>3. CASE ~IsRMW(A[i])
  <2>1. HbTurn(A, f, i) = HbStep(A, i, ZeroVector)
    BY <1>3 DEF HbTurn
  <2>2. \A t \in Thread, n \in Nat \ {0} :
          n <= ZeroVector[t] <=> IsRMW(A[i]) /\ Seen(A, Sources(A, A[i].rf), t, n)
    BY <1>1, <1>3
  <2>3. QED
    BY <1>1, <2>1, <2>2, HbStepJoins
<1>4. QED
  BY <1>2, <1>3

\* get_hb_from_write returns the join of the vectors of everything that
\* synchronises through the store, whatever part of it is cached
LEMMA HbFromWriteJoins ==
  ASSUME NEW A, TableOK(A), NEW b, Bounded(A, b), NEW w \in DOMAIN A
  PROVE  IsJoin(A, HbFromWrite(A, w), Sources(A, w))
<1> DEFINE hb == CHOOSE f : f = [i \in DOMAIN A |-> HbTurn(A, f, i)]
           J  == [i \in DOMAIN A |-> JoinOf(A, Sources(A, i))]
<1>1. HbFromWrite(A, w) = hb[w]
  BY DEF HbFromWrite, HbTurn, HbStep
<1>2. /\ ReadsBack(A) /\ Len(A) \in Nat /\ DOMAIN A = 1..Len(A)
      /\ \A i \in DOMAIN A : IsRMW(A[i]) => A[i].rf \in DOMAIN A
  BY TableFacts DEF Closed
<1>3. \A i \in DOMAIN A : Sources(A, i) \in SUBSET DOMAIN A
  BY DEF Sources
<1>4. \A i \in DOMAIN A : J[i] = JoinOf(A, Sources(A, i)) /\ IsJoin(A, J[i], Sources(A, i))
  BY <1>3, JoinOfJoins
<1>5. J = [i \in DOMAIN A |-> HbTurn(A, J, i)]
  <2> HIDE DEF J
  <2>1. \A i \in DOMAIN A : IsJoin(A, HbTurn(A, J, i), Sources(A, i))
    BY <1>2, <1>4, HbTurnJoins
  <2>2. \A i \in DOMAIN A : J[i] = HbTurn(A, J, i)
    BY <1>4, <2>1, JoinUnique
  <2>3. J = [i \in DOMAIN A |-> J[i]]
    BY DEF J
  <2>4. QED
    BY <2>2, <2>3
<1>6. hb = [i \in DOMAIN A |-> HbTurn(A, hb, i)]
  <2>1. \E f : f = [i \in DOMAIN A |-> HbTurn(A, f, i)]
    BY <1>5
  <2>2. QED
    BY <2>1
<1> HIDE DEF hb
<1>7. \A i \in DOMAIN A : hb[i] = HbTurn(A, hb, i)
  BY <1>6
<1> DEFINE Wrong == {i \in DOMAIN A : ~IsJoin(A, hb[i], Sources(A, i))}
<1>8. Wrong = {}
  <2>1. SUFFICES ASSUME Wrong # {} PROVE FALSE
    OBVIOUS
  <2>2. Wrong \in SUBSET Nat
    BY SMT, <1>2
  <2>3. PICK m \in Wrong : \A k \in Wrong : m <= k
    BY <2>1, <2>2, LeastIn
  <2>4. m \in DOMAIN A /\ m \in Nat
    BY SMT, <1>2
  <2>5. ASSUME IsRMW(A[m])
        PROVE  IsJoin(A, hb[A[m].rf], Sources(A, A[m].rf))
    <3>1. A[m].rf \in 1..(m - 1) /\ A[m].rf \in DOMAIN A
      BY <1>2, <2>4, <2>5 DEF ReadsBack, IsRead, IsRMW
    <3>2. ~(m <= A[m].rf)
      BY SMT, <2>4, <3>1
    <3>3. A[m].rf \notin Wrong
      BY <2>3, <3>2
    <3>4. QED
      BY <3>1, <3>3
  <2>6. IsJoin(A, hb[m], Sources(A, m))
    BY <1>7, <2>4, <2>5, HbTurnJoins
  <2>7. QED
    BY <2>6
<1>9. QED
  BY <1>1, <1>8

----------------------------------------------------------------------------
(* What later entries leave alone *)

\* The new entries of B create threads that A has not, and belong to none that has finished
Fresh(A, B) ==
  \A k \in DOMAIN B \ DOMAIN A, i \in DOMAIN A :
    /\ B[k].type = "create" => A[i].tid # B[k].val
    /\ A[i].type = "finish" => A[i].tid # B[k].tid

\* The entries before an old entry are old
LEMMA BelowOld ==
  ASSUME NEW A, NEW B, Extends(A, B), NEW j \in DOMAIN A
  PROVE  /\ \A i \in DOMAIN B : i < j => i \in DOMAIN A
         /\ \A i \in 1..(j - 1) : i \in DOMAIN A
<1>1. Len(A) \in Nat /\ DOMAIN A = 1..Len(A) /\ Len(B) \in Nat /\ DOMAIN B = 1..Len(B)
  BY DEF Extends, IsTable
<1>2. QED
  BY SMT, <1>1

\* What leads to an action is fixed when the action is performed: no later
\* release, thread creation or finish is added to it
LEMMA LeadsExtend ==
  ASSUME NEW A, NEW B, Extends(A, B), ReadsBack(A), ReadsBack(B), Fresh(A, B),
         \A i \in DOMAIN A : FinishOK(A, i), NEW j \in DOMAIN A
  PROVE  Leads(B, j) = Leads(A, j)
<1>1. /\ DOMAIN A \subseteq DOMAIN B
      /\ \A i \in DOMAIN A : Same(A[i], B[i])
      /\ \A i \in DOMAIN B : i < j => i \in DOMAIN A
      /\ \A i \in 1..(j - 1) : i \in DOMAIN A
  BY BelowOld DEF Extends
<1>2. \A i \in DOMAIN A : /\ Before(B, i, j) <=> Before(A, i, j)
                          /\ IsRead(B[i]) <=> IsRead(A[i])
                          /\ B[i].rf = A[i].rf /\ B[i].type = A[i].type
                          /\ B[i].tid = A[i].tid /\ B[i].val = A[i].val
  BY <1>1 DEF Same, Before, IsRead
<1>3. /\ IsAcquire(B[j]) <=> IsAcquire(A[j])
      /\ IsFence(B[j]) <=> IsFence(A[j])
  BY <1>1 DEF Same, IsAcquire, IsFence
<1>4. \A i \in DOMAIN B : Before(B, i, j) => i \in DOMAIN A
  BY <1>1 DEF Before
<1>5. \A w \in DOMAIN A : Sources(B, w) = Sources(A, w) /\ Sources(A, w) \subseteq DOMAIN A
  <2>1. \A w \in DOMAIN A : Sources(B, w) = Sources(A, w)
    BY SourcesExtend
  <2>2. \A w : Sources(A, w) \subseteq DOMAIN A
    BY DEF Sources
  <2>3. QED
    BY <2>1, <2>2
<1>6. \A r \in DOMAIN A : IsRead(A[r]) => A[r].rf \in DOMAIN A
  <2>1. \A r \in DOMAIN A : \A i \in 1..(r - 1) : i \in DOMAIN A
    BY BelowOld
  <2>2. QED
    BY <2>1 DEF ReadsBack
<1>7. ASSUME NEW k \in DOMAIN A
      PROVE  k \in SyncInto(B, j) <=> k \in SyncInto(A, j)
  <2>1. (IsRead(B[j]) /\ IsAcquire(B[j]) /\ k \in Sources(B, B[j].rf))
        <=> (IsRead(A[j]) /\ IsAcquire(A[j]) /\ k \in Sources(A, A[j].rf))
    BY <1>2, <1>3, <1>5, <1>6
  <2>2. (\E r \in DOMAIN B : IsRead(B[r]) /\ Before(B, r, j) /\ k \in Sources(B, B[r].rf))
        <=> (\E r \in DOMAIN A : IsRead(A[r]) /\ Before(A, r, j) /\ k \in Sources(A, A[r].rf))
    <3>1. ASSUME NEW r \in DOMAIN A
          PROVE  (IsRead(B[r]) /\ Before(B, r, j) /\ k \in Sources(B, B[r].rf))
                 <=> (IsRead(A[r]) /\ Before(A, r, j) /\ k \in Sources(A, A[r].rf))
      BY <1>2, <1>5, <1>6
    <3>2. \A r \in DOMAIN B : Before(B, r, j) => r \in DOMAIN A
      BY <1>4
    <3>3. DOMAIN A \subseteq DOMAIN B
      BY <1>1
    <3>4. QED
      BY <3>1, <3>2, <3>3
  <2>3. QED
    BY <1>1, <1>2, <1>3, <2>1, <2>2 DEF SyncInto
<1>8. ASSUME NEW k \in DOMAIN B, k \in SyncInto(B, j)
      PROVE  k \in DOMAIN A
  <2>1. SUFFICES ASSUME k \notin DOMAIN A PROVE FALSE
    OBVIOUS
  <2>2. CASE IsRead(B[j]) /\ k \in Sources(B, B[j].rf)
    BY <1>2, <1>5, <1>6, <2>1, <2>2
  <2>3. CASE \E r \in DOMAIN B : IsRead(B[r]) /\ Before(B, r, j) /\ k \in Sources(B, B[r].rf)
    BY <1>2, <1>4, <1>5, <1>6, <2>1, <2>3
  <2>4. CASE B[k].type = "create" /\ B[k].val = B[j].tid
    <3>1. A[j].tid # B[k].val
      BY <2>1, <2>4 DEF Fresh
    <3>2. A[j].tid = B[j].tid
      BY <1>2
    <3>3. QED
      BY <2>4, <3>1, <3>2
  <2>5. CASE B[j].type = "join" /\ B[k].type = "finish" /\ B[k].tid = B[j].val
    <3>1. PICK i \in DOMAIN A : A[i].type = "finish" /\ A[i].tid = A[j].val
      <4>1. A[j].type = "join"
        BY <1>2, <2>5
      <4>2. FinishOK(A, j)
        OBVIOUS
      <4>3. QED
        BY <4>1, <4>2 DEF FinishOK
    <3>2. QED
      <4>1. B[k].tid = A[i].tid
        BY <1>2, <2>5, <3>1
      <4>2. A[i].tid # B[k].tid
        BY <2>1, <3>1 DEF Fresh
      <4>3. QED
        BY <4>1, <4>2
  <2>6. QED
    BY <1>8, <2>2, <2>3, <2>4, <2>5 DEF SyncInto
<1>9. \A k : k \in Leads(B, j) => k \in DOMAIN A
  <2>1. \A k : k \in SyncInto(B, j) => k \in DOMAIN B
    BY DEF SyncInto
  <2>2. QED
    BY <1>4, <1>8, <2>1 DEF Leads
<1>10. \A k : k \in Leads(A, j) => k \in DOMAIN A
  BY DEF Leads, SyncInto
<1>11. \A k \in DOMAIN A : k \in Leads(B, j) <=> k \in Leads(A, j)
  BY <1>1, <1>2, <1>7 DEF Leads
<1>12. QED
  BY <1>9, <1>10, <1>11

\* The entries of a table stay well formed when others follow
LEMMA EntriesExtend ==
  ASSUME NEW A, NEW B, TableOK(A), Extends(A, B), ReadsBack(B), Fresh(A, B), NEW j \in DOMAIN A
  PROVE  /\ FenceOK(B, j) /\ VectorOK(B, j) /\ FinishOK(B, j)
         /\ IsAction(B[j]) => EntryOK(B, j)
         /\ Sources(B, j) = Sources(A, j)
         /\ \A V : IsJoin(A, V, Sources(A, j)) => IsJoin(B, V, Sources(B, j))
<1>1. /\ ReadsBack(A) /\ IsTable(A) /\ DOMAIN A \subseteq DOMAIN B
      /\ \A i \in DOMAIN A : EntryOK(A, i) /\ FinishOK(A, i)
      /\ \A i \in DOMAIN A : Same(A[i], B[i])
      /\ FenceOK(A, j) /\ VectorOK(A, j)
  BY TableFacts DEF TableOK, Extends
<1>2. /\ Sources(B, j) = Sources(A, j) /\ Leads(B, j) = Leads(A, j)
      /\ Sources(A, j) \subseteq DOMAIN A /\ Leads(A, j) \subseteq DOMAIN A
  <2>1. Sources(B, j) = Sources(A, j) /\ Leads(B, j) = Leads(A, j)
    BY <1>1, SourcesExtend, LeadsExtend
  <2>2. Sources(A, j) \subseteq DOMAIN A
    BY DEF Sources
  <2>3. Leads(A, j) \subseteq DOMAIN A
    BY DEF Leads, SyncInto
  <2>4. QED
    BY <2>1, <2>2, <2>3
<1>3. \A i \in DOMAIN A : /\ B[i].tid = A[i].tid /\ B[i].cv = A[i].cv /\ B[i].seq = A[i].seq
                          /\ B[i].type = A[i].type /\ B[i].val = A[i].val /\ B[i].lfr = A[i].lfr
                          /\ B[i].order = A[i].order /\ B[i].rf = A[i].rf
  BY <1>1 DEF Same
<1>4. \A K \in SUBSET DOMAIN A : \A t, n : Seen(B, K, t, n) <=> Seen(A, K, t, n)
  BY <1>3 DEF Seen
<1>5. \A V : IsJoin(A, V, Sources(A, j)) => IsJoin(B, V, Sources(B, j))
  BY <1>2, <1>4 DEF IsJoin
<1>6. VectorOK(B, j)
  BY <1>1, <1>2, <1>3, <1>4 DEF VectorOK, IsZero
<1>7. FinishOK(B, j)
  <2>1. FinishOK(A, j) /\ DOMAIN A \subseteq DOMAIN B
    BY <1>1
  <2>2. ASSUME B[j].type = "finish", NEW k \in DOMAIN B, B[k].tid = B[j].tid
        PROVE  k <= j
    <3>1. A[j].type = "finish" /\ B[k].tid = A[j].tid
      BY <1>3, <2>2
    <3>2. k \in DOMAIN A
      BY <2>2, <3>1 DEF Fresh
    <3>3. A[k].tid = A[j].tid
      BY <1>3, <3>1, <3>2
    <3>4. QED
      BY <2>1, <3>1, <3>2, <3>3 DEF FinishOK
  <2>3. ASSUME B[j].type = "join"
        PROVE  \E k \in DOMAIN B : B[k].type = "finish" /\ B[k].tid = B[j].val
    <3>1. A[j].type = "join" /\ A[j].val = B[j].val
      BY <1>3, <2>3
    <3>2. PICK k \in DOMAIN A : A[k].type = "finish" /\ A[k].tid = A[j].val
      BY <2>1, <3>1 DEF FinishOK
    <3>3. k \in DOMAIN B /\ B[k].type = "finish" /\ B[k].tid = B[j].val
      BY <1>3, <2>1, <3>1, <3>2
    <3>4. QED
      BY <3>3
  <2>4. QED
    BY <2>2, <2>3 DEF FinishOK
<1>8. FenceOK(B, j)
  <2>1. \A k \in DOMAIN A : /\ IsReleaseFence(B[k]) <=> IsReleaseFence(A[k])
                            /\ Before(B, k, j) <=> Before(A, k, j)
    BY <1>3 DEF IsReleaseFence, IsFence, IsRelease, Before
  <2>2. \A k \in DOMAIN B : Before(B, k, j) => k \in DOMAIN A
    BY BelowOld DEF Before
  <2>3. QED
    BY <1>1, <1>3, <2>1, <2>2 DEF FenceOK
<1>9. IsAction(B[j]) => EntryOK(B, j)
  <2>1. (IsRead(B[j]) <=> IsRead(A[j])) /\ (IsZero(B[j]) <=> IsZero(A[j]))
    BY <1>3 DEF IsRead, IsZero
  <2>2. EntryOK(A, j)
    BY <1>1
  <2>3. /\ B[j].type # "free" /\ B[j].tid \in Thread /\ B[j].tid <= j /\ B[j].seq \in Nat
        /\ B[j].cv \in Vector /\ \A t \in Thread : B[j].cv[t] <= B[j].seq
    BY <1>3, <2>2 DEF EntryOK
  <2>4. /\ IsRead(B[j]) => B[j].rf \in 1..(j - 1)
        /\ IF IsZero(B[j]) THEN B[j].tid = 0 /\ B[j].seq = 0 /\ B[j].order = "relaxed"
                           ELSE B[j].tid # 0 /\ B[j].seq # 0
    BY <1>3, <2>1, <2>2 DEF EntryOK
  <2>5. QED
    BY <2>3, <2>4 DEF EntryOK
<1>10. QED
  BY <1>2, <1>5, <1>6, <1>7, <1>8, <1>9

----------------------------------------------------------------------------
(* The steps of a table *)

\* Caching vectors that get_hb_from_write computes keeps the table well formed
LEMMA CacheOKs ==
  ASSUME NEW A, TableOK(A), NEW b, Bounded(A, b), NEW w
  PROVE  /\ TableOK(CacheHb(A, w)) /\ Bounded(CacheHb(A, w), b) /\ Extends(A, CacheHb(A, w))
         /\ Len(CacheHb(A, w)) = Len(A) /\ DOMAIN CacheHb(A, w) = DOMAIN A
<1> DEFINE B == CacheHb(A, w)
<1>1. /\ IsTable(A) /\ ReadsBack(A) /\ Len(A) \in Nat /\ DOMAIN A = 1..Len(A)
      /\ \A i \in DOMAIN A : EntryOK(A, i)
  BY TableFacts DEF TableOK
<1>2. DOMAIN B = DOMAIN A /\ B = [i \in DOMAIN A |-> B[i]]
  BY DEF CacheHb
<1>3. ASSUME NEW i \in DOMAIN A
      PROVE  /\ Same(A[i], B[i]) /\ IsAction(B[i])
             /\ B[i].rfcv = A[i].rfcv \/ B[i].rfcv = HbFromWrite(A, i)
  <2>1. B[i] = A[i] \/ B[i] = [A[i] EXCEPT !.rfcv = HbFromWrite(A, i)]
    BY DEF CacheHb
  <2>2. IsAction(A[i])
    BY <1>1 DEF EntryOK
  <2>3. \A v : LET a == [A[i] EXCEPT !.rfcv = v]
               IN  Same(A[i], a) /\ IsAction(a) /\ a.rfcv = v
    BY <2>2 DEF IsAction, ActionFields, Same
  <2>4. CASE B[i] = A[i]
    BY <2>2, <2>4 DEF Same
  <2>5. CASE B[i] = [A[i] EXCEPT !.rfcv = HbFromWrite(A, i)]
    BY <2>3, <2>5
  <2>6. QED
    BY <2>1, <2>4, <2>5
<1> HIDE DEF B
<1>4. Len(B) = Len(A) /\ IsTable(B)
  <2> DEFINE S == {B[i] : i \in DOMAIN A}
  <2>1. B \in [1..Len(A) -> S]
    BY <1>1, <1>2
  <2> HIDE DEF S
  <2>2. B \in Seq(S)
    BY <1>1, <2>1, FunctionIn
  <2>3. Len(B) \in Nat /\ DOMAIN B = 1..Len(B)
    BY <2>2, SeqFacts
  <2>4. Len(B) = Len(A)
    BY SMTT(30), <1>1, <1>2, <2>3
  <2>5. QED
    BY <1>1, <1>2, <2>3, <2>4 DEF IsTable
<1>5. Extends(A, B)
  BY <1>1, <1>2, <1>3, <1>4 DEF Extends
<1>6. ReadsBack(B)
  BY <1>1, <1>2, <1>3 DEF ReadsBack, Same, IsRead
<1>7. Fresh(A, B)
  BY <1>2 DEF Fresh
<1>8. InOrder(B)
  <2>1. ASSUME NEW i \in DOMAIN A, NEW j \in DOMAIN A, i < j, ~IsZero(B[i]), ~IsZero(B[j])
        PROVE  B[i].seq < B[j].seq
    <3>1. /\ B[i].seq = A[i].seq /\ B[i].type = A[i].type
          /\ B[j].seq = A[j].seq /\ B[j].type = A[j].type
      BY <1>3 DEF Same
    <3>2. A[i].seq < A[j].seq
      BY <2>1, <3>1 DEF TableOK, InOrder, IsZero
    <3>3. QED
      BY <3>1, <3>2
  <2>2. QED
    BY <1>2, <2>1 DEF InOrder
<1>9. ASSUME NEW i \in DOMAIN A
      PROVE  EntryOK(B, i) /\ FenceOK(B, i) /\ VectorOK(B, i) /\ CacheOK(B, i) /\ FinishOK(B, i)
  <2>1. /\ EntryOK(B, i) /\ FenceOK(B, i) /\ VectorOK(B, i) /\ FinishOK(B, i)
        /\ \A V : IsJoin(A, V, Sources(A, i)) => IsJoin(B, V, Sources(B, i))
    BY <1>3, <1>5, <1>6, <1>7, EntriesExtend
  <2>2. IsJoin(A, HbFromWrite(A, i), Sources(A, i))
    BY HbFromWriteJoins
  <2>3. CacheOK(A, i)
    BY DEF TableOK
  <2>4. CacheOK(B, i)
    BY <1>3, <2>1, <2>2, <2>3 DEF CacheOK
  <2>5. QED
    BY <2>1, <2>4
<1>10. Bounded(B, b)
  BY <1>2, <1>3 DEF Bounded, Same
<1>11. TableOK(B)
  BY <1>2, <1>4, <1>8, <1>9 DEF TableOK
<1>12. QED
  BY <1>2, <1>4, <1>5, <1>10, <1>11 DEF B

\* An appended entry that is well formed in the longer table leaves it well formed
LEMMA AppendOKs ==
  ASSUME NEW A, TableOK(A), NEW e, NEW B, B = Append(A, e), NEW n, n = Len(A) + 1,
         Fresh(A, B), EntryOK(B, n), FenceOK(B, n), VectorOK(B, n), FinishOK(B, n), e.rfcv = NoVector,
         \A i \in DOMAIN A : ~IsZero(A[i]) /\ ~IsZero(e) => A[i].seq < e.seq
  PROVE  TableOK(B) /\ Extends(A, B)
<1>1. /\ IsTable(A) /\ ReadsBack(A) /\ Len(A) \in Nat /\ DOMAIN A = 1..Len(A)
      /\ \A i \in DOMAIN A : EntryOK(A, i) /\ CacheOK(A, i)
  BY TableFacts DEF TableOK
<1>2. /\ IsTable(B) /\ DOMAIN B = 1..n /\ B[n] = e
      /\ \A i \in DOMAIN A : i \in DOMAIN B /\ B[i] = A[i]
  <2>1. Appended(A, e, B, n)
    BY <1>1, TableAppend
  <2>2. QED
    BY <2>1 DEF Appended
<1>3. n \in Nat /\ DOMAIN B = DOMAIN A \cup {n} /\ \A i \in DOMAIN A : i < n /\ ~(n < i)
  BY SMT, <1>1, <1>2
<1>4. Extends(A, B)
  BY <1>1, <1>2 DEF Extends, Same
<1>5. ReadsBack(B)
  BY <1>1, <1>2, <1>3 DEF ReadsBack, EntryOK
<1>6. ~(n < n)
  BY SMT, <1>3
<1>7. InOrder(B)
  <2>1. SUFFICES ASSUME NEW i \in DOMAIN B, NEW j \in DOMAIN B, i < j, ~IsZero(B[i]), ~IsZero(B[j])
                 PROVE  B[i].seq < B[j].seq
    BY DEF InOrder
  <2>2. i \in DOMAIN A
    BY <1>3, <1>6, <2>1
  <2>3. CASE j \in DOMAIN A
    BY <1>2, <2>1, <2>2, <2>3 DEF TableOK, InOrder
  <2>4. CASE j = n
    BY <1>2, <2>1, <2>2, <2>4
  <2>5. QED
    BY <1>3, <2>3, <2>4
<1>8. CacheOK(B, n)
  BY <1>2 DEF CacheOK
<1>9. ASSUME NEW i \in DOMAIN A
      PROVE  EntryOK(B, i) /\ FenceOK(B, i) /\ VectorOK(B, i) /\ CacheOK(B, i) /\ FinishOK(B, i)
  <2>1. IsAction(B[i])
    BY <1>1, <1>2 DEF EntryOK
  <2>2. /\ EntryOK(B, i) /\ FenceOK(B, i) /\ VectorOK(B, i) /\ FinishOK(B, i)
        /\ \A V : IsJoin(A, V, Sources(A, i)) => IsJoin(B, V, Sources(B, i))
    BY <1>4, <1>5, <2>1, EntriesExtend
  <2>3. CacheOK(B, i)
    BY <1>1, <1>2, <2>2 DEF CacheOK
  <2>4. QED
    BY <2>2, <2>3
<1>10. QED
  BY <1>2, <1>3, <1>4, <1>7, <1>8, <1>9 DEF TableOK

\* convertNonAtomicStore adds a store that no action follows or synchronises with
LEMMA AppendZero ==
  ASSUME NEW A, TableOK(A), NEW b, Bounded(A, b), NEW x
  PROVE  LET B == Append(A, ZeroStore(x))
         IN  /\ TableOK(B) /\ Bounded(B, b) /\ Extends(A, B)
             /\ DOMAIN B = DOMAIN A \cup {Len(A) + 1}
             /\ B[Len(A) + 1] = ZeroStore(x)
<1> DEFINE e == ZeroStore(x)
           B == Append(A, e)
           n == Len(A) + 1
<1>1. /\ IsTable(A) /\ Len(A) \in Nat /\ DOMAIN A = 1..Len(A)
      /\ \A i \in DOMAIN A : EntryOK(A, i)
  BY TableFacts DEF TableOK
<1>2. /\ IsTable(B) /\ DOMAIN B = 1..n /\ B[n] = e
      /\ \A i \in DOMAIN A : i \in DOMAIN B /\ B[i] = A[i]
  <2>1. Appended(A, e, B, n)
    BY <1>1, TableAppend
  <2>2. QED
    BY <2>1 DEF Appended
<1>3. n \in Nat /\ DOMAIN B = DOMAIN A \cup {n} /\ 0 <= n
  BY SMT, <1>1, <1>2
<1>4. /\ e.type = "nonatomic" /\ e.tid = 0 /\ e.seq = 0 /\ e.order = "relaxed"
      /\ e.rfcv = NoVector /\ e.cv = ZeroVector /\ e.lfr = None /\ IsAction(e)
  BY DEF ZeroStore, IsAction, ActionFields
<1>5. 0 \in Thread
  BY ThreadAssumption
<1>6. ZeroVector \in Vector /\ \A t \in Thread : ZeroVector[t] <= 0
  BY SMT DEF ZeroVector, Vector
<1> HIDE DEF e, B, n
<1>7. \A i \in DOMAIN A : A[i].tid = 0 => IsZero(A[i])
  BY <1>1 DEF EntryOK
<1>8. Fresh(A, B)
  BY <1>2, <1>3, <1>4, <1>7 DEF Fresh, IsZero
<1>9. ~IsRead(e) /\ IsZero(e) /\ e.type # "free"
  BY <1>4 DEF IsRead, IsZero
<1>10. EntryOK(B, n)
  BY SMTT(30), <1>2, <1>3, <1>4, <1>5, <1>6, <1>9 DEF EntryOK
<1>11. VectorOK(B, n)
  BY <1>2, <1>9 DEF VectorOK
<1>12. FinishOK(B, n)
  BY <1>2, <1>4 DEF FinishOK
<1>13. ~IsReleaseFence(e)
  BY <1>4 DEF IsReleaseFence, IsFence
<1>14. FenceOK(B, n)
  <2>1. \A k \in DOMAIN B : B[k].tid = 0 => IsZero(B[k])
    BY <1>2, <1>3, <1>7, <1>9
  <2>2. \A k \in DOMAIN B : ~(IsReleaseFence(B[k]) /\ Before(B, k, n))
    BY <1>2, <1>4, <2>1 DEF IsReleaseFence, IsFence, IsZero, Before
  <2>3. QED
    BY <1>2, <1>4, <2>2 DEF FenceOK
<1>15. TableOK(B) /\ Extends(A, B)
  <2>1. B = Append(A, e) /\ n = Len(A) + 1
    BY DEF B, n
  <2>2. QED
    BY <1>4, <1>8, <1>9, <1>10, <1>11, <1>12, <1>14, <2>1, AppendOKs
<1>16. Bounded(B, b)
  <2>1. b \in Nat /\ \A i \in DOMAIN A : A[i].seq <= b
    BY DEF Bounded
  <2>2. e.seq <= b
    BY SMT, <1>4, <2>1
  <2>3. QED
    BY <1>2, <1>3, <2>1, <2>2 DEF Bounded
<1>17. QED
  BY <1>2, <1>3, <1>15, <1>16 DEF B, e, n

\* What synchronises with a new action e, in the table before it
SyncNew(A, e) ==
  {k \in DOMAIN A :
     \/ IsRead(e) /\ IsAcquire(e) /\ k \in Sources(A, e.rf)
     \/ /\ IsFence(e) /\ IsAcquire(e)
        /\ \E r \in DOMAIN A : IsRead(A[r]) /\ A[r].tid = e.tid /\ k \in Sources(A, A[r].rf)
     \/ e.type = "start" /\ A[k].type = "create" /\ A[k].val = e.tid
     \/ e.type = "join" /\ A[k].type = "finish" /\ A[k].tid = e.val}

\* e may follow the table A, whose sequence numbers are at most b
NewEntryOK(A, b, e) ==
  /\ IsAction(e) /\ ~IsZero(e) /\ e.type # "free" /\ e.rfcv = NoVector
  /\ e.tid \in Thread /\ e.tid # 0 /\ e.tid <= Len(A) + 1
  /\ e.seq \in Nat /\ b < e.seq
  /\ e.cv \in Vector /\ \A t \in Thread : e.cv[t] <= e.seq
  /\ IsRead(e) => e.rf \in DOMAIN A
  /\ IF e.lfr = None THEN \A k \in DOMAIN A : ~(IsReleaseFence(A[k]) /\ A[k].tid = e.tid)
     ELSE /\ e.lfr \in DOMAIN A /\ IsReleaseFence(A[e.lfr]) /\ A[e.lfr].tid = e.tid
          /\ \A k \in DOMAIN A : IsReleaseFence(A[k]) /\ A[k].tid = e.tid => k <= e.lfr
  /\ \A t \in Thread, n \in Nat \ {0} :
       n <= e.cv[t] <=> \/ t = e.tid /\ n <= e.seq
                        \/ Seen(A, {i \in DOMAIN A : A[i].tid = e.tid} \cup SyncNew(A, e), t, n)
  /\ \A i \in DOMAIN A : A[i].tid = e.tid => A[i].type # "finish"
  /\ e.type = "create" => \A i \in DOMAIN A : A[i].tid # e.val
  /\ e.type = "join" => \E k \in DOMAIN A : A[k].type = "finish" /\ A[k].tid = e.val

\* B is the well-formed table A with the entry e, at n, after it
EntryAppended(A, e, B, n) ==
  /\ TableOK(B) /\ Bounded(B, e.seq) /\ Extends(A, B)
  /\ DOMAIN B = DOMAIN A \cup {n} /\ B[n] = e /\ Len(B) = n
  /\ \A i \in DOMAIN A : B[i] = A[i]

\* Appending such an entry keeps the table well formed
LEMMA AppendEntry ==
  ASSUME NEW A, TableOK(A), NEW b, Bounded(A, b), NEW e, NewEntryOK(A, b, e),
         NEW B, B = Append(A, e), NEW n, n = Len(A) + 1
  PROVE  EntryAppended(A, e, B, n)
<1>1. /\ IsTable(A) /\ ReadsBack(A) /\ Len(A) \in Nat /\ DOMAIN A = 1..Len(A)
      /\ \A i \in DOMAIN A : EntryOK(A, i)
  BY TableFacts DEF TableOK
<1>2. /\ IsTable(B) /\ DOMAIN B = 1..n /\ B[n] = e /\ Len(B) = n
      /\ \A i \in DOMAIN A : i \in DOMAIN B /\ B[i] = A[i]
  <2>1. Appended(A, e, B, n)
    BY <1>1, TableAppend
  <2>2. QED
    BY <2>1 DEF Appended
<1>3. /\ n \in Nat /\ DOMAIN B = DOMAIN A \cup {n} /\ DOMAIN A = 1..(n - 1)
      /\ n \notin DOMAIN A /\ ~(n < n) /\ \A i \in DOMAIN A : i < n
  BY SMT, <1>1, <1>2
<1>4. B = Append(A, e) /\ n = Len(A) + 1
  OBVIOUS
<1>5. Fresh(A, B)
  <2>1. \A k \in DOMAIN B \ DOMAIN A : k = n
    BY <1>3
  <2>2. /\ \A i \in DOMAIN A : A[i].tid = e.tid => A[i].type # "finish"
        /\ e.type = "create" => \A i \in DOMAIN A : A[i].tid # e.val
    BY DEF NewEntryOK
  <2>3. B[n] = e
    BY <1>2
  <2>4. QED
    BY <2>1, <2>2, <2>3 DEF Fresh
<1>6. EntryOK(B, n)
  <2>1. /\ IsAction(e) /\ ~IsZero(e) /\ e.type # "free" /\ e.tid \in Thread /\ e.tid # 0
        /\ e.tid <= n /\ e.seq \in Nat /\ e.seq # 0 /\ e.cv \in Vector
        /\ \A t \in Thread : e.cv[t] <= e.seq
    <3>1. e.tid <= n
      BY <1>4 DEF NewEntryOK
    <3>2. b \in Nat /\ e.seq \in Nat /\ b < e.seq
      BY DEF NewEntryOK, Bounded
    <3>3. e.seq # 0
      BY SMT, <3>2
    <3>4. QED
      BY <3>1, <3>3 DEF NewEntryOK
  <2>2. IsRead(e) => e.rf \in 1..(n - 1)
    BY <1>3 DEF NewEntryOK
  <2>3. B[n] = e
    BY <1>2
  <2>4. QED
    BY <2>1, <2>2, <2>3 DEF EntryOK
<1>7. \A i \in DOMAIN B : Before(B, i, n) <=> i \in DOMAIN A /\ A[i].tid = e.tid
  BY <1>2, <1>3 DEF Before
<1>8. \A i \in DOMAIN A : (IsReleaseFence(B[i]) <=> IsReleaseFence(A[i])) /\ i \in DOMAIN B
  BY <1>2
<1>9. FenceOK(B, n)
  BY <1>2, <1>3, <1>7, <1>8 DEF FenceOK, NewEntryOK
<1>10. FinishOK(B, n)
  <2>1. e.type = "finish" => \A k \in DOMAIN B : B[k].tid = e.tid => k <= n
    BY SMT, <1>1, <1>2, <1>3
  <2>2. e.type = "join" => \E k \in DOMAIN B : B[k].type = "finish" /\ B[k].tid = e.val
    BY <1>2 DEF NewEntryOK
  <2>3. QED
    BY <1>2, <2>1, <2>2 DEF FinishOK
<1>11. Leads(B, n) = {i \in DOMAIN A : A[i].tid = e.tid} \cup SyncNew(A, e)
  <2>1. Extends(A, B) /\ ReadsBack(B)
    BY <1>1, <1>2, <1>3, <1>6 DEF Extends, Same, ReadsBack, EntryOK
  <2>2. \A w \in DOMAIN A : Sources(B, w) = Sources(A, w) /\ Sources(A, w) \subseteq DOMAIN A
    <3>1. \A w \in DOMAIN A : Sources(B, w) = Sources(A, w)
      BY <1>1, <2>1, SourcesExtend
    <3>2. \A w : Sources(A, w) \subseteq DOMAIN A
      BY DEF Sources
    <3>3. QED
      BY <3>1, <3>2
  <2>3. \A r \in DOMAIN A : IsRead(A[r]) => A[r].rf \in DOMAIN A
    <3>1. \A r \in DOMAIN A : \A i \in 1..(r - 1) : i \in DOMAIN A
      BY <2>1, BelowOld
    <3>2. QED
      BY <1>1, <3>1 DEF ReadsBack
  <2>4. IsRead(e) => e.rf \in DOMAIN A
    BY DEF NewEntryOK
  <2>5. ASSUME NEW k \in DOMAIN B
        PROVE  (\E r \in DOMAIN B : IsRead(B[r]) /\ Before(B, r, n) /\ k \in Sources(B, B[r].rf))
               <=> (\E r \in DOMAIN A : IsRead(A[r]) /\ A[r].tid = e.tid /\ k \in Sources(A, A[r].rf))
    BY <1>2, <1>7, <2>2, <2>3
  <2>6. ASSUME NEW k \in DOMAIN A
        PROVE  k \in SyncInto(B, n) <=> k \in SyncNew(A, e)
    <3>1. B[n] = e /\ B[k] = A[k] /\ k \in DOMAIN B
      BY <1>2
    <3>2. k \in SyncInto(B, n) <=>
            \/ IsRead(e) /\ IsAcquire(e) /\ k \in Sources(B, e.rf)
            \/ /\ IsFence(e) /\ IsAcquire(e)
               /\ \E r \in DOMAIN B : IsRead(B[r]) /\ Before(B, r, n) /\ k \in Sources(B, B[r].rf)
            \/ e.type = "start" /\ A[k].type = "create" /\ A[k].val = e.tid
            \/ e.type = "join" /\ A[k].type = "finish" /\ A[k].tid = e.val
      BY <3>1 DEF SyncInto
    <3>3. k \in SyncNew(A, e) <=>
            \/ IsRead(e) /\ IsAcquire(e) /\ k \in Sources(A, e.rf)
            \/ /\ IsFence(e) /\ IsAcquire(e)
               /\ \E r \in DOMAIN A : IsRead(A[r]) /\ A[r].tid = e.tid /\ k \in Sources(A, A[r].rf)
            \/ e.type = "start" /\ A[k].type = "create" /\ A[k].val = e.tid
            \/ e.type = "join" /\ A[k].type = "finish" /\ A[k].tid = e.val
      BY DEF SyncNew
    <3>4. IsRead(e) => (k \in Sources(B, e.rf) <=> k \in Sources(A, e.rf))
      BY <2>2, <2>4
    <3>5. (\E r \in DOMAIN B : IsRead(B[r]) /\ Before(B, r, n) /\ k \in Sources(B, B[r].rf))
          <=> (\E r \in DOMAIN A : IsRead(A[r]) /\ A[r].tid = e.tid /\ k \in Sources(A, A[r].rf))
      BY <2>5, <3>1
    <3>6. QED
      BY <3>2, <3>3, <3>4, <3>5
  <2>7. n \notin SyncInto(B, n)
    <3>1. CASE IsRead(e)
      BY <1>2, <1>3, <2>2, <2>4, <3>1 DEF SyncInto, IsRead, IsFence
    <3>2. CASE ~IsRead(e)
      <4>1. ~\E r \in DOMAIN A : IsRead(A[r]) /\ n \in Sources(A, A[r].rf)
        BY <1>3, <2>2, <2>3
      <4>2. n \in DOMAIN B
        BY <1>3
      <4>3. QED
        BY <1>2, <2>5, <3>2, <4>1, <4>2 DEF SyncInto
    <3>3. QED
      BY <3>1, <3>2
  <2>8. \A k : (k \in SyncInto(B, n) => k \in DOMAIN B) /\ (k \in SyncNew(A, e) => k \in DOMAIN A)
    BY DEF SyncInto, SyncNew
  <2>9. SyncInto(B, n) = SyncNew(A, e)
    BY <1>3, <2>6, <2>7, <2>8
  <2>10. {i \in DOMAIN B : Before(B, i, n)} = {i \in DOMAIN A : A[i].tid = e.tid}
    BY <1>2, <1>7
  <2>11. QED
    BY <2>9, <2>10 DEF Leads
<1>12. VectorOK(B, n)
  <2>1. Leads(B, n) \subseteq DOMAIN A
    BY <1>11 DEF SyncNew
  <2>2. \A t, m : Seen(B, Leads(B, n), t, m) <=> Seen(A, Leads(B, n), t, m)
    BY <1>2, <2>1 DEF Seen
  <2>3. QED
    BY <1>2, <1>11, <2>2 DEF VectorOK, NewEntryOK
<1>13. \A i \in DOMAIN A : A[i].seq < e.seq
  <2>1. \A i \in DOMAIN A : A[i].seq <= b /\ A[i].seq \in Nat
    BY <1>1 DEF Bounded, EntryOK
  <2>2. b \in Nat /\ e.seq \in Nat /\ b < e.seq
    BY DEF Bounded, NewEntryOK
  <2>3. QED
    BY SMT, <2>1, <2>2
<1>14. TableOK(B) /\ Extends(A, B)
  <2>1. e.rfcv = NoVector
    BY DEF NewEntryOK
  <2>2. QED
    BY <1>4, <1>5, <1>6, <1>9, <1>10, <1>12, <1>13, <2>1, AppendOKs
<1>15. Bounded(B, e.seq)
  <2>1. e.seq \in Nat /\ \A i \in DOMAIN A : A[i].seq \in Nat
    BY <1>1 DEF NewEntryOK, EntryOK
  <2>2. e.seq <= e.seq /\ \A i \in DOMAIN A : A[i].seq <= e.seq
    BY SMT, <1>13, <2>1
  <2>3. QED
    BY <1>2, <1>3, <2>1, <2>2 DEF Bounded
<1>16. QED
  BY <1>2, <1>3, <1>4, <1>14, <1>15 DEF EntryAppended

----------------------------------------------------------------------------
(* New actions *)

\* get_last_action: the last entry of thread t, if it has one
LEMMA LastActionIs ==
  ASSUME NEW A, IsTable(A), NEW t
  PROVE  /\ LastAction(A, t) = None => \A i \in DOMAIN A : A[i].tid # t
         /\ LastAction(A, t) # None =>
              /\ LastAction(A, t) \in DOMAIN A /\ A[LastAction(A, t)].tid = t
              /\ \A i \in DOMAIN A : A[i].tid = t => i <= LastAction(A, t)
<1> DEFINE S == {i \in DOMAIN A : A[i].tid = t}
<1>1. LastAction(A, t) = IF S = {} THEN None ELSE Max(S)
  BY DEF LastAction, LastId
<1>2. Len(A) \in Nat /\ DOMAIN A = 1..Len(A)
  BY DEF IsTable
<1>3. CASE S = {}
  BY <1>1, <1>3
<1>4. CASE S # {}
  <2>1. S \in SUBSET Nat /\ \A x \in S : x <= Len(A)
    BY SMT, <1>2
  <2>2. Max(S) \in S /\ \A x \in S : x <= Max(S)
    BY <1>2, <1>4, <2>1, MaxIn
  <2>3. Max(S) # None
    BY SMT, <1>2, <2>2 DEF None
  <2>4. LastAction(A, t) = Max(S)
    BY <1>1, <1>4
  <2>5. QED
    BY <2>2, <2>3, <2>4
<1>5. QED
  BY <1>3, <1>4

\* f is the last release fence of thread t, if it has one
IsLastFence(A, t, f) ==
  IF f = None THEN \A k \in DOMAIN A : ~(IsReleaseFence(A[k]) /\ A[k].tid = t)
  ELSE /\ f \in DOMAIN A /\ IsReleaseFence(A[f]) /\ A[f].tid = t
       /\ \A k \in DOMAIN A : IsReleaseFence(A[k]) /\ A[k].tid = t => k <= f

\* get_last_fence_release finds it
LEMMA LastFenceIs ==
  ASSUME NEW A, IsTable(A), NEW t
  PROVE  IsLastFence(A, t, LastFenceRelease(A, t))
<1> DEFINE S == {i \in DOMAIN A : A[i].tid = t /\ IsFence(A[i]) /\ IsRelease(A[i])}
<1>1. LastFenceRelease(A, t) = IF S = {} THEN None ELSE Max(S)
  BY DEF LastFenceRelease, LastId
<1>2. Len(A) \in Nat /\ DOMAIN A = 1..Len(A)
  BY DEF IsTable
<1>3. \A k \in DOMAIN A : k \in S <=> IsReleaseFence(A[k]) /\ A[k].tid = t
  BY DEF IsReleaseFence
<1>4. CASE S = {}
  BY <1>1, <1>3, <1>4 DEF IsLastFence
<1>5. CASE S # {}
  <2>1. S \in SUBSET Nat /\ S \in SUBSET DOMAIN A /\ \A x \in S : x <= Len(A)
    BY SMT, <1>2
  <2>2. Max(S) \in S /\ \A x \in S : x <= Max(S)
    BY <1>2, <1>5, <2>1, MaxIn
  <2>3. Max(S) # None
    BY SMT, <1>2, <2>2 DEF None
  <2>4. LastFenceRelease(A, t) = Max(S)
    BY <1>1, <1>5
  <2> HIDE DEF S
  <2>5. IsLastFence(A, t, Max(S))
    BY <1>3, <2>1, <2>2, <2>3 DEF IsLastFence
  <2>6. QED
    BY <2>4, <2>5
<1>6. QED
  BY <1>4, <1>5

\* Thread t has started and not finished
Live(A, t) == LastAction(A, t) # None /\ A[LastAction(A, t)].type # "finish"

\* The vector of a new action of t before it synchronises
StartCV(A, t, b) == NewVector(ParentCV(A, t), t, b + 1)

\* What it has seen
StartSees(A, t, b) ==
  \A u \in Thread, n \in Nat \ {0} :
    n <= StartCV(A, t, b)[u] <=>
      (u = t /\ n <= b + 1) \/ Seen(A, {i \in DOMAIN A : A[i].tid = t}, u, n)

\* It is that of the thread's last action, with the new sequence number
LEMMA StartCVIs ==
  ASSUME NEW A, TableOK(A), NEW b, Bounded(A, b), NEW t \in Thread, Live(A, t)
  PROVE  /\ StartCV(A, t, b) \in Vector
         /\ \A u \in Thread : StartCV(A, t, b)[u] <= b + 1
         /\ StartSees(A, t, b)
<1> DEFINE p == LastAction(A, t)
<1>1. /\ p \in DOMAIN A /\ A[p].tid = t
      /\ \A i \in DOMAIN A : A[i].tid = t => i <= p
  BY TableFacts, LastActionIs DEF Live
<1>2. StartCV(A, t, b) = [A[p].cv EXCEPT ![t] = b + 1]
  BY DEF StartCV, NewVector, ParentCV
<1> HIDE DEF p
<1>3. A[p].cv \in [Thread -> Nat] /\ b \in Nat
  BY <1>1 DEF TableOK, EntryOK, Vector, Bounded
<1>4. b + 1 \in Nat
  BY SMT, <1>3
<1>5. /\ StartCV(A, t, b) \in [Thread -> Nat]
      /\ StartCV(A, t, b)[t] = b + 1
      /\ \A u \in Thread : u # t => StartCV(A, t, b)[u] = A[p].cv[u]
  BY <1>2, <1>3, <1>4
<1>6. \A i \in DOMAIN A : \A u \in Thread : A[i].cv[u] <= b /\ A[i].cv[u] <= b + 1 /\ A[i].cv[u] \in Nat
  <2>1. \A i \in DOMAIN A : /\ A[i].seq \in Nat /\ A[i].seq <= b
                            /\ \A u \in Thread : A[i].cv[u] \in Nat /\ A[i].cv[u] <= A[i].seq
    BY TableFacts DEF Bounded, TableOK, EntryOK
  <2>2. QED
    BY SMT, <1>3, <2>1
<1>7. \A u \in Thread : StartCV(A, t, b)[u] <= b + 1
  <2>1. b + 1 <= b + 1
    BY SMT, <1>3
  <2>2. QED
    BY <1>1, <1>5, <1>6, <2>1
<1>8. ASSUME NEW u \in Thread, NEW n \in Nat \ {0}
      PROVE  n <= StartCV(A, t, b)[u] <=>
                (u = t /\ n <= b + 1) \/ Seen(A, {i \in DOMAIN A : A[i].tid = t}, u, n)
  <2>1. ASSUME NEW i \in DOMAIN A, n <= A[i].cv[u]
        PROVE  n <= b + 1
    BY SMTT(30), <1>3, <1>6, <2>1
  <2>2. ASSUME NEW i \in DOMAIN A, A[i].tid = t, n <= A[i].cv[u]
        PROVE  n <= A[p].cv[u]
    <3>1. i \in Nat /\ p \in Nat /\ i <= p
      BY SMTT(30), <1>1, <2>2, TableFacts
    <3>2. CASE i = p
      BY <2>2, <3>2
    <3>3. CASE i # p
      <4>1. i < p
        BY SMT, <3>1, <3>3
      <4>2. Before(A, i, p)
        BY <1>1, <2>2, <4>1 DEF Before
      <4>3. A[i].cv[u] <= A[p].cv[u]
        BY <1>1, <4>2, VectorsGrow
      <4>4. A[i].cv[u] \in Nat /\ A[p].cv[u] \in Nat
        BY <1>1, <1>6
      <4>5. QED
        BY SMTT(30), <2>2, <4>3, <4>4
    <3>4. QED
      BY <3>2, <3>3
  <2>3. CASE u = t
    BY <1>5, <2>1, <2>3 DEF Seen
  <2>4. CASE u # t
    BY <1>1, <1>5, <2>2, <2>4 DEF Seen
  <2>5. QED
    BY <2>3, <2>4
<1>9. QED
  BY <1>5, <1>7, <1>8 DEF Vector, StartSees

\* The fields of an action that initialize_curr_action made for thread t, whose
\* vector may since have synchronised
MadeFor(A, b, t, e) ==
  /\ IsAction(e) /\ e.type \notin {"nonatomic", "free"} /\ e.rfcv = NoVector
  /\ e.tid = t /\ e.seq = b + 1 /\ e.lfr = LastFenceRelease(A, t)

\* Such an action may follow the table, if its vector is the new one joined with
\* those of what synchronises with it
LEMMA MadeEntry ==
  ASSUME NEW A, TableOK(A), NEW b, Bounded(A, b), NEW t \in Thread, t # 0, Live(A, t),
         NEW e, MadeFor(A, b, t, e), e.cv \in Vector,
         \A u \in Thread, n \in Nat \ {0} :
           n <= e.cv[u] <=> n <= StartCV(A, t, b)[u] \/ Seen(A, SyncNew(A, e), u, n),
         IsRead(e) => e.rf \in DOMAIN A,
         e.type = "create" => \A i \in DOMAIN A : A[i].tid # e.val,
         e.type = "join" => \E k \in DOMAIN A : A[k].type = "finish" /\ A[k].tid = e.val
  PROVE  NewEntryOK(A, b, e)
<1> DEFINE p == LastAction(A, t)
<1>1. /\ p \in DOMAIN A /\ A[p].tid = t /\ A[p].type # "finish"
      /\ \A i \in DOMAIN A : A[i].tid = t => i <= p
  BY TableFacts, LastActionIs DEF Live
<1> HIDE DEF p
<1>2. Len(A) \in Nat /\ DOMAIN A = 1..Len(A) /\ b \in Nat
  BY TableFacts DEF Bounded
<1>3. e.tid <= Len(A) + 1
  <2>1. t <= p /\ t \in Nat
    BY <1>1, ThreadAssumption DEF TableOK, EntryOK
  <2>2. t <= Len(A) + 1
    BY SMTT(30), <1>1, <1>2, <2>1
  <2>3. QED
    BY <2>2 DEF MadeFor
<1>4. e.seq \in Nat /\ b < e.seq /\ e.seq = b + 1
  BY SMT, <1>2 DEF MadeFor
<1>5. /\ StartCV(A, t, b) \in Vector /\ \A u \in Thread : StartCV(A, t, b)[u] <= b + 1
      /\ \A u \in Thread, n \in Nat \ {0} :
              n <= StartCV(A, t, b)[u] <=>
                (u = t /\ n <= b + 1) \/ Seen(A, {i \in DOMAIN A : A[i].tid = t}, u, n)
  <2>1. StartCV(A, t, b) \in Vector
    BY StartCVIs
  <2>2. \A u \in Thread : StartCV(A, t, b)[u] <= b + 1
    BY StartCVIs
  <2>3. \A u \in Thread, n \in Nat \ {0} :
          n <= StartCV(A, t, b)[u] <=>
            (u = t /\ n <= b + 1) \/ Seen(A, {i \in DOMAIN A : A[i].tid = t}, u, n)
    <3>1. StartSees(A, t, b)
      BY StartCVIs
    <3>2. QED
      BY <3>1 DEF StartSees
  <2>4. QED
    BY <2>1, <2>2, <2>3
<1>6. \A i \in DOMAIN A : A[i].tid = e.tid => A[i].type # "finish"
  <2>1. SUFFICES ASSUME NEW i \in DOMAIN A, A[i].tid = t, A[i].type = "finish"
                 PROVE  FALSE
    BY DEF MadeFor
  <2>2. p <= i /\ i <= p
    BY <1>1, <2>1 DEF TableOK, FinishOK
  <2>3. p = i
    BY SMTT(30), <1>1, <1>2, <2>2
  <2>4. QED
    BY <1>1, <2>1, <2>3
<1>7. ASSUME NEW u \in Thread
      PROVE  e.cv[u] <= e.seq
  <2>1. e.cv[u] \in Nat /\ StartCV(A, t, b)[u] \in Nat /\ StartCV(A, t, b)[u] <= b + 1
    BY <1>5 DEF Vector
  <2>2. CASE e.cv[u] = 0
    BY SMTT(30), <1>2, <1>4, <2>2
  <2>3. CASE e.cv[u] # 0
    <3>1. e.cv[u] \in Nat \ {0} /\ e.cv[u] <= e.cv[u]
      BY SMTT(30), <2>1, <2>3
    <3>2. CASE e.cv[u] <= StartCV(A, t, b)[u]
      BY SMTT(30), <1>2, <1>4, <2>1, <3>2
    <3>3. CASE Seen(A, SyncNew(A, e), u, e.cv[u])
      <4>1. PICK k \in DOMAIN A : e.cv[u] <= A[k].cv[u]
        BY <3>3 DEF Seen, SyncNew
      <4>2. A[k].cv[u] \in Nat /\ A[k].cv[u] <= A[k].seq /\ A[k].seq \in Nat /\ A[k].seq <= b
        BY TableFacts DEF Bounded, TableOK, EntryOK
      <4>3. QED
        BY SMTT(30), <1>2, <1>4, <2>1, <4>1, <4>2
    <3>4. QED
      BY <3>1, <3>2, <3>3
  <2>4. QED
    BY <2>2, <2>3
<1>8. ASSUME NEW u \in Thread, NEW n \in Nat \ {0}
      PROVE  n <= e.cv[u] <=>
               \/ u = e.tid /\ n <= e.seq
               \/ Seen(A, {i \in DOMAIN A : A[i].tid = e.tid} \cup SyncNew(A, e), u, n)
  <2>1. e.tid = t /\ e.seq = b + 1
    BY DEF MadeFor
  <2>2. \A K, L : Seen(A, K \cup L, u, n) <=> Seen(A, K, u, n) \/ Seen(A, L, u, n)
    BY DEF Seen
  <2>3. QED
    <3>1. n <= e.cv[u] <=> n <= StartCV(A, t, b)[u] \/ Seen(A, SyncNew(A, e), u, n)
      OBVIOUS
    <3>2. n <= StartCV(A, t, b)[u] <=>
            (u = t /\ n <= b + 1) \/ Seen(A, {i \in DOMAIN A : A[i].tid = t}, u, n)
      BY <1>5
    <3>3. Seen(A, {i \in DOMAIN A : A[i].tid = t} \cup SyncNew(A, e), u, n) <=>
            Seen(A, {i \in DOMAIN A : A[i].tid = t}, u, n) \/ Seen(A, SyncNew(A, e), u, n)
      BY <2>2
    <3>4. QED
      BY <2>1, <3>1, <3>2, <3>3
<1>9. IF e.lfr = None THEN \A k \in DOMAIN A : ~(IsReleaseFence(A[k]) /\ A[k].tid = e.tid)
      ELSE /\ e.lfr \in DOMAIN A /\ IsReleaseFence(A[e.lfr]) /\ A[e.lfr].tid = e.tid
           /\ \A k \in DOMAIN A : IsReleaseFence(A[k]) /\ A[k].tid = e.tid => k <= e.lfr
  <2>1. e.tid = t /\ e.lfr = LastFenceRelease(A, t)
    BY DEF MadeFor
  <2>2. QED
    <3>1. IsLastFence(A, t, LastFenceRelease(A, t))
      BY TableFacts, LastFenceIs
    <3>2. IsLastFence(A, e.tid, e.lfr)
      BY <2>1, <3>1
    <3>3. QED
      BY <3>2 DEF IsLastFence
<1>10. IsAction(e) /\ ~IsZero(e) /\ e.type # "free" /\ e.rfcv = NoVector /\ e.tid \in Thread /\ e.tid # 0
  BY DEF MadeFor, IsZero
<1>11. QED
  BY <1>3, <1>4, <1>6, <1>7, <1>8, <1>9, <1>10 DEF NewEntryOK

----------------------------------------------------------------------------
(* The steps of an execution, on its table A, sequence number s and fence vectors F *)

\* Tables that extend one another
LEMMA ExtendsTrans ==
  ASSUME NEW A, NEW B, NEW C, Extends(A, B), Extends(B, C)
  PROVE  Extends(A, C)
<1>1. IsTable(A) /\ IsTable(C) /\ DOMAIN A \subseteq DOMAIN C
  BY DEF Extends
<1>2. ASSUME NEW i \in DOMAIN A
      PROVE  Same(A[i], C[i])
  <2>1. Same(A[i], B[i]) /\ Same(B[i], C[i])
    BY DEF Extends
  <2>2. QED
    BY <2>1 DEF Same
<1>3. QED
  BY <1>1, <1>2 DEF Extends

\* An acquire-fence vector stays exact while its thread does not read
LEMMA AcquirableKept ==
  ASSUME NEW A, NEW B, Extends(A, B), ReadsBack(A), ReadsBack(B), NEW u,
         \A k \in DOMAIN B \ DOMAIN A : ~(IsRead(B[k]) /\ B[k].tid = u)
  PROVE  /\ Acquirable(B, u) = Acquirable(A, u)
         /\ \A V : IsJoin(A, V, Acquirable(A, u)) => IsJoin(B, V, Acquirable(B, u))
<1>1. /\ DOMAIN A \subseteq DOMAIN B
      /\ \A i \in DOMAIN A : /\ B[i].tid = A[i].tid /\ B[i].rf = A[i].rf /\ B[i].cv = A[i].cv
                             /\ IsRead(B[i]) <=> IsRead(A[i])
  BY DEF Extends, Same, IsRead
<1>2. \A r \in DOMAIN A : IsRead(A[r]) => A[r].rf \in DOMAIN A
  <2>1. \A r \in DOMAIN A : \A i \in 1..(r - 1) : i \in DOMAIN A
    BY BelowOld
  <2>2. QED
    BY <2>1 DEF ReadsBack
<1>3. \A w \in DOMAIN A : Sources(B, w) = Sources(A, w) /\ Sources(A, w) \subseteq DOMAIN A
  <2>1. \A w \in DOMAIN A : Sources(B, w) = Sources(A, w)
    BY SourcesExtend
  <2>2. \A w : Sources(A, w) \subseteq DOMAIN A
    BY DEF Sources
  <2>3. QED
    BY <2>1, <2>2
<1>4. \A k : k \in Acquirable(B, u) <=> k \in Acquirable(A, u)
  BY <1>1, <1>2, <1>3 DEF Acquirable
<1>5. Acquirable(B, u) = Acquirable(A, u)
  BY <1>4
<1>6. Acquirable(A, u) \subseteq DOMAIN A
  BY DEF Acquirable
<1>7. \A t, n : Seen(B, Acquirable(A, u), t, n) <=> Seen(A, Acquirable(A, u), t, n)
  BY <1>1, <1>6 DEF Seen
<1>8. QED
  BY <1>5, <1>7 DEF IsJoin

\* A created thread has started: this stays so when no thread is created
LEMMA CreatedKept ==
  ASSUME NEW A, NEW B, Extends(A, B), \A k \in DOMAIN B \ DOMAIN A : B[k].type # "create",
         CreatedOK(A)
  PROVE  CreatedOK(B)
<1>1. SUFFICES ASSUME NEW i \in DOMAIN B, B[i].type = "create"
               PROVE  \E k \in DOMAIN B : B[k].tid = B[i].val
  BY DEF CreatedOK
<1>2. i \in DOMAIN A
  BY <1>1
<1>3. A[i].type = "create" /\ A[i].val = B[i].val
  BY <1>1, <1>2 DEF Extends, Same
<1>4. PICK k \in DOMAIN A : A[k].tid = A[i].val
  BY <1>2, <1>3 DEF CreatedOK
<1>5. k \in DOMAIN B /\ B[k].tid = A[k].tid
  BY DEF Extends, Same
<1>6. QED
  BY <1>3, <1>4, <1>5

\* A zero store changes nothing for the fences
LEMMA ZeroStep ==
  ASSUME NEW A, NEW s, NEW F, StateOK(A, s, F), NEW x
  PROVE  StateOK(Append(A, ZeroStore(x)), s, F) /\ Extends(A, Append(A, ZeroStore(x)))
<1> DEFINE B == Append(A, ZeroStore(x))
<1>1. TableOK(A) /\ Bounded(A, s)
  BY DEF StateOK
<1>2. /\ TableOK(B) /\ Bounded(B, s) /\ Extends(A, B)
      /\ DOMAIN B = DOMAIN A \cup {Len(A) + 1} /\ B[Len(A) + 1] = ZeroStore(x)
  BY <1>1, AppendZero
<1>3. ZeroStore(x).type = "nonatomic"
  BY DEF ZeroStore
<1> HIDE DEF B
<1>4. \A k \in DOMAIN B \ DOMAIN A : ~IsRead(B[k]) /\ B[k].type # "create"
  BY <1>2, <1>3 DEF IsRead
<1>5. ReadsBack(A) /\ ReadsBack(B)
  BY <1>1, <1>2, TableFacts
<1>6. \A t \in Thread : IsJoin(B, F[t], Acquirable(B, t))
  BY <1>2, <1>4, <1>5, AcquirableKept DEF StateOK
<1>7. CreatedOK(B)
  BY <1>2, <1>4, CreatedKept DEF StateOK
<1>8. QED
  BY <1>2, <1>6, <1>7 DEF StateOK, B

\* A zero store leaves the other threads as they are
LEMMA ZeroLive ==
  ASSUME NEW A, NEW B, NEW n, IsTable(A), IsTable(B), NEW t, Live(A, t),
         DOMAIN B = DOMAIN A \cup {n}, B[n].tid # t, \A i \in DOMAIN A : B[i] = A[i]
  PROVE  LastAction(B, t) = LastAction(A, t) /\ Live(B, t)
<1> DEFINE p == LastAction(A, t)
           q == LastAction(B, t)
<1>1. /\ p \in DOMAIN A /\ A[p].tid = t /\ A[p].type # "finish" /\ p # None
      /\ \A i \in DOMAIN A : A[i].tid = t => i <= p
  BY LastActionIs DEF Live
<1>2. /\ q = None => \A i \in DOMAIN B : B[i].tid # t
      /\ q # None => q \in DOMAIN B /\ B[q].tid = t /\ \A i \in DOMAIN B : B[i].tid = t => i <= q
  BY LastActionIs
<1>3. p \in Nat /\ \A i \in DOMAIN B : i \in Nat
  BY SMT, <1>1 DEF IsTable
<1> HIDE DEF p, q
<1>4. q # None
  BY <1>1, <1>2
<1>5. q \in DOMAIN A /\ p <= q /\ q <= p
  BY <1>1, <1>2, <1>4
<1>6. q = p
  BY SMTT(30), <1>2, <1>3, <1>4, <1>5
<1>7. QED
  BY <1>1, <1>5, <1>6 DEF p, q, Live

\* What an entry needs of a table is not in the vectors that are cached
LEMMA NewEntryCached ==
  ASSUME NEW A, NEW b, NEW e, NewEntryOK(A, b, e), NEW C, Extends(A, C), ReadsBack(A), ReadsBack(C),
         DOMAIN C = DOMAIN A, Len(C) = Len(A)
  PROVE  NewEntryOK(C, b, e)
<1>1. \A i \in DOMAIN A : /\ C[i].tid = A[i].tid /\ C[i].type = A[i].type /\ C[i].val = A[i].val
                          /\ C[i].rf = A[i].rf /\ C[i].cv = A[i].cv /\ C[i].order = A[i].order
  BY DEF Extends, Same
<1>2. \A i \in DOMAIN A : /\ IsReleaseFence(C[i]) <=> IsReleaseFence(A[i])
                          /\ IsRead(C[i]) <=> IsRead(A[i])
  BY <1>1 DEF IsReleaseFence, IsFence, IsRelease, IsRead
<1>3. \A w \in DOMAIN A : Sources(C, w) = Sources(A, w)
  BY SourcesExtend
<1>4. \A r \in DOMAIN A : IsRead(A[r]) => A[r].rf \in DOMAIN A
  <2>1. \A r \in DOMAIN A : \A i \in 1..(r - 1) : i \in DOMAIN A
    BY BelowOld
  <2>2. QED
    BY <2>1 DEF ReadsBack
<1>5. SyncNew(C, e) = SyncNew(A, e)
  <2>1. IsRead(e) => e.rf \in DOMAIN A
    BY DEF NewEntryOK
  <2>2. ASSUME NEW k \in DOMAIN A
        PROVE  k \in SyncNew(C, e) <=> k \in SyncNew(A, e)
    <3>1. IsRead(e) => Sources(C, e.rf) = Sources(A, e.rf)
      BY <1>3, <2>1
    <3>2. (\E r \in DOMAIN C : IsRead(C[r]) /\ C[r].tid = e.tid /\ k \in Sources(C, C[r].rf))
          <=> (\E r \in DOMAIN A : IsRead(A[r]) /\ A[r].tid = e.tid /\ k \in Sources(A, A[r].rf))
      <4>1. ASSUME NEW r \in DOMAIN A
            PROVE  (IsRead(C[r]) /\ C[r].tid = e.tid /\ k \in Sources(C, C[r].rf))
                   <=> (IsRead(A[r]) /\ A[r].tid = e.tid /\ k \in Sources(A, A[r].rf))
        <5>1. (IsRead(C[r]) <=> IsRead(A[r])) /\ C[r].tid = A[r].tid /\ C[r].rf = A[r].rf
          BY <1>1, <1>2
        <5>2. IsRead(A[r]) => Sources(C, A[r].rf) = Sources(A, A[r].rf)
          BY <1>3, <1>4
        <5>3. QED
          BY <5>1, <5>2
      <4>2. DOMAIN C = DOMAIN A
        BY <1>1
      <4>3. QED
        BY <4>1, <4>2
    <3>3. k \in DOMAIN C /\ C[k].type = A[k].type /\ C[k].tid = A[k].tid /\ C[k].val = A[k].val
      BY <1>1
    <3>4. QED
      BY <3>1, <3>2, <3>3 DEF SyncNew
  <2>3. \A k : (k \in SyncNew(C, e) => k \in DOMAIN A) /\ (k \in SyncNew(A, e) => k \in DOMAIN A)
    BY DEF SyncNew
  <2>4. QED
    BY <2>2, <2>3
<1>6. {i \in DOMAIN C : C[i].tid = e.tid} = {i \in DOMAIN A : A[i].tid = e.tid}
  BY <1>1
<1>7. \A t, n : Seen(C, {i \in DOMAIN C : C[i].tid = e.tid} \cup SyncNew(C, e), t, n)
                <=> Seen(A, {i \in DOMAIN A : A[i].tid = e.tid} \cup SyncNew(A, e), t, n)
  <2>1. SyncNew(A, e) \subseteq DOMAIN A
    BY DEF SyncNew
  <2>2. QED
    BY <1>1, <1>5, <1>6, <2>1 DEF Seen
<1>8. /\ IF e.lfr = None THEN \A k \in DOMAIN C : ~(IsReleaseFence(C[k]) /\ C[k].tid = e.tid)
         ELSE /\ e.lfr \in DOMAIN C /\ IsReleaseFence(C[e.lfr]) /\ C[e.lfr].tid = e.tid
              /\ \A k \in DOMAIN C : IsReleaseFence(C[k]) /\ C[k].tid = e.tid => k <= e.lfr
      /\ \A i \in DOMAIN C : C[i].tid = e.tid => C[i].type # "finish"
      /\ e.type = "create" => \A i \in DOMAIN C : C[i].tid # e.val
      /\ e.type = "join" => \E k \in DOMAIN C : C[k].type = "finish" /\ C[k].tid = e.val
  <2>1. IF e.lfr = None THEN \A k \in DOMAIN A : ~(IsReleaseFence(A[k]) /\ A[k].tid = e.tid)
        ELSE /\ e.lfr \in DOMAIN A /\ IsReleaseFence(A[e.lfr]) /\ A[e.lfr].tid = e.tid
             /\ \A k \in DOMAIN A : IsReleaseFence(A[k]) /\ A[k].tid = e.tid => k <= e.lfr
    BY DEF NewEntryOK
  <2>2. IF e.lfr = None THEN \A k \in DOMAIN C : ~(IsReleaseFence(C[k]) /\ C[k].tid = e.tid)
        ELSE /\ e.lfr \in DOMAIN C /\ IsReleaseFence(C[e.lfr]) /\ C[e.lfr].tid = e.tid
             /\ \A k \in DOMAIN C : IsReleaseFence(C[k]) /\ C[k].tid = e.tid => k <= e.lfr
    BY <1>1, <1>2, <2>1
  <2>3. \A i \in DOMAIN C : C[i].tid = e.tid => C[i].type # "finish"
    BY ZenonT(30), <1>1 DEF NewEntryOK
  <2>4. e.type = "create" => \A i \in DOMAIN C : C[i].tid # e.val
    BY <1>1 DEF NewEntryOK
  <2>5. e.type = "join" => \E k \in DOMAIN C : C[k].type = "finish" /\ C[k].tid = e.val
    BY <1>1 DEF NewEntryOK
  <2>6. QED
    BY <2>2, <2>3, <2>4, <2>5
<1>9. QED
  BY <1>7, <1>8 DEF NewEntryOK

\* A step that performs one action, neither a read nor the creation of a thread
LEMMA PlainStep ==
  ASSUME NEW A, NEW s, NEW F, StateOK(A, s, F), NEW e, NewEntryOK(A, s, e), e.seq = s + 1,
         ~IsRead(e), e.type # "create"
  PROVE  StateOK(Append(A, e), s + 1, F)
<1> DEFINE B == Append(A, e)
<1>1. TableOK(A) /\ Bounded(A, s)
  BY DEF StateOK
<1>2. /\ TableOK(B) /\ Bounded(B, s + 1) /\ Extends(A, B)
      /\ DOMAIN B = DOMAIN A \cup {Len(A) + 1} /\ B[Len(A) + 1] = e
  <2>1. EntryAppended(A, e, B, Len(A) + 1)
    BY <1>1, AppendEntry
  <2>2. QED
    BY <2>1 DEF EntryAppended
<1> HIDE DEF B
<1>3. \A k \in DOMAIN B \ DOMAIN A : ~IsRead(B[k]) /\ B[k].type # "create"
  BY <1>2
<1>4. ReadsBack(A) /\ ReadsBack(B)
  BY <1>1, <1>2, TableFacts
<1>5. \A t \in Thread : IsJoin(B, F[t], Acquirable(B, t))
  BY <1>2, <1>3, <1>4, AcquirableKept DEF StateOK
<1>6. CreatedOK(B)
  BY <1>2, <1>3, CreatedKept DEF StateOK
<1>7. QED
  BY <1>2, <1>5, <1>6 DEF StateOK, B

\* The table B after a read e, with the last sequence number s and the fence vectors G
ReadTaken(A, B, e, s, G) ==
  /\ StateOK(B, s, G) /\ Extends(A, B)
  /\ DOMAIN B = DOMAIN A \cup {Len(A) + 1} /\ B[Len(A) + 1] = e

\* The vector that a read takes over, and that its thread's next acquire fence will
LEMMA ReadStep ==
  ASSUME NEW A, NEW s, NEW F, StateOK(A, s, F), NEW t \in Thread, t # 0, Live(A, t),
         NEW rf \in DOMAIN A, NEW e, MadeFor(A, s, t, e), IsRead(e), e.rf = rf,
         e.cv = IF IsAcquire(e) THEN Merge(StartCV(A, t, s), HbFromWrite(A, rf)) ELSE StartCV(A, t, s)
  PROVE  ReadTaken(A, Append(CacheHb(A, rf), e), e, s + 1,
                   [F EXCEPT ![t] = Merge(@, HbFromWrite(A, rf))])
<1> DEFINE C == CacheHb(A, rf)
           B == Append(C, e)
           H == HbFromWrite(A, rf)
           G == [F EXCEPT ![t] = Merge(@, H)]
<1>1. TableOK(A) /\ Bounded(A, s) /\ ReadsBack(A)
  BY TableFacts DEF StateOK
<1>2. IsJoin(A, H, Sources(A, rf))
  BY <1>1, HbFromWriteJoins
<1>3. /\ TableOK(C) /\ Bounded(C, s) /\ Extends(A, C)
      /\ Len(C) = Len(A) /\ DOMAIN C = DOMAIN A
  BY <1>1, CacheOKs
<1>4. G = [F EXCEPT ![t] = Merge(@, H)]
  OBVIOUS
<1> HIDE DEF C, H, G
<1>5. /\ StartCV(A, t, s) \in Vector /\ H \in Vector
  BY <1>1, <1>2, StartCVIs DEF IsJoin
<1>6. Sources(A, rf) \subseteq DOMAIN A
  BY DEF Sources
<1>7. NewEntryOK(A, s, e)
  <2>1. e.type # "start" /\ e.type # "join" /\ e.type # "create" /\ ~IsFence(e)
    BY DEF IsRead, IsFence
  <2>2. \A k : k \in SyncNew(A, e) <=> IsAcquire(e) /\ k \in Sources(A, rf)
    BY <1>6, <2>1 DEF SyncNew
  <2>3. CASE IsAcquire(e)
    <3>1. e.cv = Merge(StartCV(A, t, s), H)
      BY <2>3 DEF H
    <3>2. /\ e.cv \in Vector
          /\ \A u \in Thread, n \in Nat : n <= e.cv[u] <=> n <= StartCV(A, t, s)[u] \/ n <= H[u]
      BY <1>5, <3>1, MergeSees
    <3>3. \A u, n : Seen(A, SyncNew(A, e), u, n) <=> Seen(A, Sources(A, rf), u, n)
      BY <2>2, <2>3 DEF Seen
    <3>4. \A u \in Thread, n \in Nat \ {0} :
           n <= e.cv[u] <=> n <= StartCV(A, t, s)[u] \/ Seen(A, SyncNew(A, e), u, n)
      BY <1>2, <3>2, <3>3 DEF IsJoin
    <3>5. QED
      BY <1>1, <2>1, <3>2, <3>4, MadeEntry
  <2>4. CASE ~IsAcquire(e)
    <3>1. e.cv = StartCV(A, t, s)
      BY <2>4
    <3>2. \A u, n : ~Seen(A, SyncNew(A, e), u, n)
      BY <2>2, <2>4 DEF Seen
    <3>3. QED
      BY <1>1, <1>5, <2>1, <3>1, <3>2, MadeEntry
  <2>5. QED
    BY <2>3, <2>4
<1>8. NewEntryOK(C, s, e)
  BY <1>1, <1>3, <1>7, TableFacts, NewEntryCached
<1>9. e.seq = s + 1 /\ e.tid = t
  BY DEF MadeFor
<1>10. /\ TableOK(B) /\ Bounded(B, s + 1) /\ Extends(C, B)
       /\ DOMAIN B = DOMAIN A \cup {Len(A) + 1} /\ B[Len(A) + 1] = e
  <2>1. EntryAppended(C, e, B, Len(C) + 1)
    BY <1>3, <1>8, AppendEntry
  <2>2. QED
    BY <1>3, <1>9, <2>1 DEF EntryAppended
<1> HIDE DEF B
<1>11. Extends(A, B) /\ ReadsBack(B)
  BY <1>3, <1>10, ExtendsTrans, TableFacts
<1>12. CreatedOK(B)
  <2>1. \A k \in DOMAIN B \ DOMAIN A : B[k].type # "create"
    BY <1>10 DEF IsRead
  <2>2. QED
    BY <1>11, <2>1, CreatedKept DEF StateOK
<1>13. /\ G = [u \in Thread |-> G[u]] /\ G[t] = Merge(F[t], H)
       /\ \A u \in Thread : u # t => G[u] = F[u]
  <2>1. F = [u \in Thread |-> F[u]]
    BY DEF StateOK
  <2>2. QED
    BY <1>4, <2>1
<1>14. ASSUME NEW u \in Thread, u # t
       PROVE  IsJoin(B, G[u], Acquirable(B, u))
  <2>1. \A k \in DOMAIN B \ DOMAIN A : ~(IsRead(B[k]) /\ B[k].tid = u)
    BY <1>9, <1>10, <1>14
  <2>2. IsJoin(A, G[u], Acquirable(A, u))
    BY <1>13, <1>14 DEF StateOK
  <2>3. QED
    BY <1>1, <1>11, <2>1, <2>2, AcquirableKept
<1>15. IsJoin(B, G[t], Acquirable(B, t))
  <2>1. \A i \in DOMAIN A : /\ B[i].tid = A[i].tid /\ B[i].rf = A[i].rf /\ B[i].cv = A[i].cv
                            /\ IsRead(B[i]) <=> IsRead(A[i])
    BY <1>11 DEF Extends, Same, IsRead
  <2>2. \A r \in DOMAIN A : IsRead(A[r]) => A[r].rf \in DOMAIN A
    <3>1. \A r \in DOMAIN A : \A i \in 1..(r - 1) : i \in DOMAIN A
      BY <1>11, BelowOld
    <3>2. QED
      BY <1>1, <3>1 DEF ReadsBack
  <2>3. \A w \in DOMAIN A : Sources(B, w) = Sources(A, w) /\ Sources(A, w) \subseteq DOMAIN A
    <3>1. \A w \in DOMAIN A : Sources(B, w) = Sources(A, w)
      BY <1>1, <1>11, SourcesExtend
    <3>2. \A w : Sources(A, w) \subseteq DOMAIN A
      BY DEF Sources
    <3>3. QED
      BY <3>1, <3>2
  <2>4. \A k : k \in Acquirable(B, t) <=> k \in Acquirable(A, t) \/ k \in Sources(A, rf)
    BY <1>9, <1>10, <2>1, <2>2, <2>3 DEF Acquirable
  <2>5. Acquirable(A, t) \subseteq DOMAIN A
    BY DEF Acquirable
  <2>6. \A u, n : Seen(B, Acquirable(B, t), u, n)
                  <=> Seen(A, Acquirable(A, t), u, n) \/ Seen(A, Sources(A, rf), u, n)
    BY <1>6, <2>1, <2>4, <2>5 DEF Seen
  <2>7. IsJoin(A, F[t], Acquirable(A, t)) /\ F[t] \in Vector
    BY DEF StateOK, IsJoin
  <2>8. /\ Merge(F[t], H) \in Vector
        /\ \A u \in Thread, n \in Nat : n <= Merge(F[t], H)[u] <=> n <= F[t][u] \/ n <= H[u]
    BY <1>5, <2>7, MergeSees
  <2>9. QED
    BY <1>2, <1>13, <2>6, <2>7, <2>8 DEF IsJoin
<1>16. StateOK(B, s + 1, G)
  BY <1>10, <1>12, <1>13, <1>14, <1>15 DEF StateOK
<1>17. QED
  BY <1>10, <1>11, <1>16 DEF ReadTaken, B, C, G, H

\* A step that creates a thread, which performs its start at once: c is the
\* creation, z the start of the new thread u
LEMMA CreateStep ==
  ASSUME NEW A, NEW s, NEW F, StateOK(A, s, F), NEW t \in Thread, t # 0, Live(A, t),
         NEW c, MadeFor(A, s, t, c), c.type = "create", c.cv = StartCV(A, t, s),
         NEW u \in Thread, c.val = u, u # 0, u <= Len(A) + 1, \A i \in DOMAIN A : A[i].tid # u,
         NEW z, IsAction(z), z.type = "start", z.rfcv = NoVector, z.tid = u, z.seq = s + 2, z.lfr = None,
         z.cv = NewVector(c.cv, u, s + 2)
  PROVE  StateOK(Append(Append(A, c), z), s + 2, F)
<1> DEFINE D == Append(A, c)
           B == Append(D, z)
           n == Len(A) + 1
<1>1. TableOK(A) /\ Bounded(A, s) /\ ReadsBack(A) /\ s \in Nat
  BY TableFacts DEF StateOK, Bounded
<1>2. /\ c.tid = t /\ c.seq = s + 1 /\ StartCV(A, t, s) \in Vector
      /\ \A v \in Thread : StartCV(A, t, s)[v] <= s + 1
  BY <1>1, StartCVIs DEF MadeFor
<1>3. ~IsRead(c) /\ ~IsFence(c) /\ ~IsRead(z) /\ ~IsFence(z) /\ ~IsZero(z) /\ z.type # "free"
  BY DEF IsRead, IsFence, IsZero
<1>4. NewEntryOK(A, s, c)
  <2>1. \A v, m : ~Seen(A, SyncNew(A, c), v, m)
    BY <1>3 DEF Seen, SyncNew
  <2>2. \A v \in Thread, m \in Nat \ {0} :
           m <= c.cv[v] <=> m <= StartCV(A, t, s)[v] \/ Seen(A, SyncNew(A, c), v, m)
    BY <2>1
  <2>3. c.cv \in Vector /\ c.type # "join"
    BY <1>2
  <2>4. QED
    BY <1>1, <1>3, <2>2, <2>3, MadeEntry
<1>5. /\ TableOK(D) /\ Bounded(D, s + 1) /\ Extends(A, D) /\ Len(D) = n
      /\ DOMAIN D = DOMAIN A \cup {n} /\ D[n] = c /\ \A i \in DOMAIN A : D[i] = A[i]
  <2>1. EntryAppended(A, c, D, n)
    BY <1>1, <1>4, AppendEntry
  <2>2. QED
    BY <1>2, <2>1 DEF EntryAppended
<1>6. n \in Nat /\ u \in Nat /\ u <= n
  BY SMTT(30), <1>1, TableFacts, ThreadAssumption
<1> HIDE DEF D, n
<1>7. t # u
  <2>1. LastAction(A, t) \in DOMAIN A /\ A[LastAction(A, t)].tid = t
    <3>1. IsTable(A) /\ LastAction(A, t) # None
      BY <1>1, TableFacts DEF Live
    <3>2. QED
      <4>1. LastAction(A, t) \in DOMAIN A
        BY <3>1, LastActionIs
      <4>2. A[LastAction(A, t)].tid = t
        BY SMTT(30), <3>1, LastActionIs
      <4>3. QED
        BY <4>1, <4>2
  <2>2. QED
    BY <2>1
<1>8. \A i \in DOMAIN D : D[i].tid # u
  BY <1>2, <1>5, <1>7
<1>9. \A k : k \in SyncNew(D, z) <=> k = n
  <2>1. \A i \in DOMAIN A : A[i].type = "create" => A[i].val # u
    BY DEF StateOK, CreatedOK
  <2>2. QED
    BY <1>3, <1>5, <2>1 DEF SyncNew
<1>10. /\ z.cv \in Vector /\ z.cv[u] = s + 2
       /\ \A v \in Thread : v # u => z.cv[v] = c.cv[v]
  <2>1. c.cv \in [Thread -> Nat] /\ z.cv = [c.cv EXCEPT ![u] = s + 2]
    BY <1>2 DEF Vector, NewVector
  <2>2. s + 2 \in Nat
    BY SMT, <1>1
  <2>3. QED
    BY <2>1, <2>2 DEF Vector
<1>11. \A v \in Thread : c.cv[v] \in Nat /\ c.cv[v] <= s + 1
  BY <1>2 DEF Vector
<1>12. ASSUME NEW v \in Thread
       PROVE  z.cv[v] <= s + 2
  BY SMTT(30), <1>1, <1>10, <1>11
<1>13. ASSUME NEW v \in Thread, NEW m \in Nat \ {0}
       PROVE  m <= z.cv[v] <=> \/ v = u /\ m <= s + 2
                               \/ Seen(D, {i \in DOMAIN D : D[i].tid = u} \cup SyncNew(D, z), v, m)
  <2>1. Seen(D, {i \in DOMAIN D : D[i].tid = u} \cup SyncNew(D, z), v, m) <=> m <= c.cv[v]
    BY <1>5, <1>8, <1>9 DEF Seen
  <2>2. m <= c.cv[v] => m <= s + 2
    BY SMTT(30), <1>1, <1>11
  <2>3. QED
    BY <1>10, <2>1, <2>2
<1>14. NewEntryOK(D, s + 1, z)
  <2>1. z.seq \in Nat /\ s + 1 < z.seq /\ u <= n + 1
    BY SMTT(30), <1>1, <1>6
  <2>2. QED
    <3>1. DOMAIN D = DOMAIN A \cup {n} /\ Len(D) = n
      BY <1>5
    <3>2. z.tid = u /\ u <= Len(D) + 1 /\ z.lfr = None
      BY <2>1, <3>1
    <3>3. \A k \in DOMAIN D : ~(IsReleaseFence(D[k]) /\ D[k].tid = z.tid)
      BY <1>8, <3>2
    <3>4. \A v \in Thread : z.cv[v] <= z.seq
      BY <1>12
    <3>5. \A v \in Thread, m \in Nat \ {0} :
            m <= z.cv[v] <=> \/ v = z.tid /\ m <= z.seq
                             \/ Seen(D, {i \in DOMAIN D : D[i].tid = z.tid} \cup SyncNew(D, z), v, m)
      BY <1>13
    <3>6. \A i \in DOMAIN D : D[i].tid = z.tid => D[i].type # "finish"
      BY <1>8, <3>2
    <3>7. ~IsRead(z) /\ ~IsZero(z) /\ z.type # "free" /\ z.type # "create" /\ z.type # "join"
      BY <1>3
    <3>8. QED
      BY <1>10, <2>1, <3>2, <3>3, <3>4, <3>5, <3>6, <3>7 DEF NewEntryOK
<1>15. /\ TableOK(B) /\ Bounded(B, s + 2) /\ Extends(D, B)
       /\ DOMAIN B = DOMAIN D \cup {n + 1} /\ B[n + 1] = z /\ \A i \in DOMAIN D : B[i] = D[i]
  <2>1. EntryAppended(D, z, B, n + 1)
    BY <1>5, <1>14, AppendEntry
  <2>2. QED
    BY <2>1 DEF EntryAppended
<1> HIDE DEF B
<1>16. Extends(A, B) /\ ReadsBack(B)
  BY <1>5, <1>15, ExtendsTrans, TableFacts
<1>17. \A k \in DOMAIN B \ DOMAIN A : ~IsRead(B[k])
  BY <1>3, <1>5, <1>15
<1>18. \A v \in Thread : IsJoin(B, F[v], Acquirable(B, v))
  BY <1>1, <1>16, <1>17, AcquirableKept DEF StateOK
<1>19. CreatedOK(B)
  <2>1. ASSUME NEW i \in DOMAIN A, A[i].type = "create"
        PROVE  \E k \in DOMAIN B : B[k].tid = A[i].val
    <3>1. PICK k \in DOMAIN A : A[k].tid = A[i].val
      BY <2>1 DEF StateOK, CreatedOK
    <3>2. k \in DOMAIN B /\ B[k].tid = A[k].tid
      BY <1>16 DEF Extends, Same
    <3>3. QED
      BY <3>1, <3>2
  <2>2. B[n + 1].tid = c.val /\ n + 1 \in DOMAIN B /\ B[n + 1].type # "create"
    BY <1>15
  <2>3. QED
    <3>1. ASSUME NEW i \in DOMAIN B, B[i].type = "create"
          PROVE  \E k \in DOMAIN B : B[k].tid = B[i].val
      <4>1. i \in DOMAIN D /\ B[i] = D[i]
        BY <1>15, <2>2, <3>1
      <4>2. CASE i = n
        BY <1>5, <2>2, <4>1, <4>2
      <4>3. CASE i \in DOMAIN A
        <5>1. B[i] = A[i]
          BY <1>5, <4>1, <4>3
        <5>2. QED
          BY <2>1, <3>1, <4>3, <5>1
      <4>4. QED
        BY <1>5, <4>1, <4>2, <4>3
    <3>2. QED
      BY <3>1 DEF CreatedOK
<1>20. QED
  BY <1>15, <1>18, <1>19 DEF StateOK, B, D
=============================================================================
