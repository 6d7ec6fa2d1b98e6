--------------------------- MODULE CycleGraphProofs ---------------------------
(***************************************************************************)
(* Proofs about the modification-order graph for any number of threads and *)
(* stores: the clock vectors never claim an order that no path of edges    *)
(* supports, and, as long as no RMW reads a store of its own thread, they  *)
(* miss none once the worklist is empty.                                   *)
(***************************************************************************)
EXTENDS CycleGraphSteps, TLAPS

-----------------------------------------------------------------------------
(* Vectors *)

\* merge keeps vectors vectors and is the least upper bound of its arguments
\* (ClockVector::merge).
LEMMA MergeBounds ==
  ASSUME NEW a \in Vector, NEW b \in Vector
  PROVE  /\ Merge(a, b) \in Vector
         /\ VectorLeq(a, Merge(a, b))
         /\ VectorLeq(b, Merge(a, b))
         /\ \A t \in Thread : Merge(a, b)[t] = a[t] \/ Merge(a, b)[t] = b[t]
         /\ VectorLeq(b, a) => Merge(a, b) = a
  BY DEF Vector, Merge, VectorLeq, MaxNat

\* Vectors are ordered entry by entry, so what merge's "changed" test compares
\* carries over from edge to edge along a path.
LEMMA LeqTransitive ==
  ASSUME NEW a \in Vector, NEW b \in Vector, NEW c \in Vector,
         VectorLeq(a, b), VectorLeq(b, c)
  PROVE  VectorLeq(a, c)
<1> SUFFICES ASSUME NEW t \in Thread PROVE a[t] <= c[t]
  BY Zenon DEF VectorLeq
<1>1. a[t] \in Nat /\ b[t] \in Nat /\ c[t] \in Nat
  BY Zenon DEF Vector
<1>2. a[t] <= b[t] /\ b[t] <= c[t]
  BY Zenon DEF VectorLeq
<1> QED
  BY <1>1, <1>2

\* A merge of a vector with itself changes nothing.
LEMMA LeqReflexive ==
  ASSUME NEW a \in Vector
  PROVE  VectorLeq(a, a)
  BY DEF Vector, VectorLeq

\* The vector of a new node is zero except for the node's own entry
\* (CycleNode's constructor).
LEMMA FreshVectorType ==
  ASSUME NEW n \in Node
  PROVE  /\ FreshVector(n) \in Vector
         /\ FreshVector(n)[NodeTid[n]] = NodeSeq[n]
         /\ \A t \in Thread \ {NodeTid[n]} : FreshVector(n)[t] = 0
  BY NodeAssumption, Zenon DEF FreshVector, NewVector, ZeroVector, Vector

-----------------------------------------------------------------------------
(* Type correctness *)

\* Every step of addEdge, addRMWEdge and addNodeEdge keeps the graph well
\* formed.
THEOREM TypeCorrect == Spec => []TypeOK
<1>1. Init => TypeOK
  BY FreshVectorType, NodeAssumption DEF Init, TypeOK
<1>2. TypeOK /\ [Next]_vars => TypeOK'
  <2> SUFFICES ASSUME TypeOK, [Next]_vars PROVE TypeOK'
    BY Zenon
  <2> USE NodeAssumption DEF TypeOK
  <2>1. ASSUME NEW f \in Node, NEW t \in Node, NEW force \in BOOLEAN, AddEdge(f, t, force)
        PROVE  TypeOK'
    BY <2>1, Zenon DEF AddEdge, Idle
  <2>2. ASSUME NEW f \in Node, NEW r \in Node, AddRMWEdge(f, r)
        PROVE  TypeOK'
    <3>1. Merge(cv[r], cv[f]) \in Vector
      BY MergeBounds, Zenon
    <3>2. /\ nodes' \subseteq Node /\ queue' \subseteq nodes'
          /\ rmw' \in [Node -> nodes' \cup {NoNode}]
      BY <2>2, Zenon DEF AddRMWEdge
    <3>4. edges' \subseteq nodes' \X nodes'
      <4> SUFFICES ASSUME NEW u \in Node, NEW v \in Node, <<u, v>> \in edges'
                   PROVE  u \in nodes' /\ v \in nodes'
        BY <2>2 DEF AddRMWEdge
      <4>1. <<u, v>> \in edges \/ (<<f, v>> \in edges /\ u = r) \/ (u = f /\ v = r)
        BY <2>2, Zenon DEF AddRMWEdge
      <4> QED
        BY <2>2, <4>1, Zenon DEF AddRMWEdge
    <3>3. cv' \in [Node -> Vector] /\ \A n \in Node \ nodes' : cv'[n] = FreshVector(n)
      BY <2>2, <3>1, Zenon DEF AddRMWEdge
    <3> QED
      BY <2>2, <3>2, <3>3, <3>4, Zenon DEF AddRMWEdge, Idle
  <2>3. CASE Hop
    BY <2>3, Zenon DEF Hop
  <2>4. CASE Link
    <3>1. Merge(cv[to], cv[from]) \in Vector
      BY <2>4, MergeBounds, Zenon DEF Link
    <3> QED
      BY <2>4, <3>1 DEF Link
  <2>5. ASSUME NEW n \in queue, Pop(n)
        PROVE  TypeOK'
    <3>1. \A v \in Node : Merge(cv[v], cv[n]) \in Vector
      BY MergeBounds, Zenon
    <3>2. cv' \in [Node -> Vector] /\ \A m \in Node \ nodes' : cv'[m] = FreshVector(m)
      BY <2>5, <3>1, Zenon DEF Pop
    <3>3. queue' \subseteq nodes'
      BY <2>5, Zenon DEF Pop
    <3> QED
      BY <2>5, <3>2, <3>3, Zenon DEF Pop
  <2>6. CASE UNCHANGED vars
    BY <2>6, Zenon DEF vars
  <2> QED
    BY <2>1, <2>2, <2>3, <2>4, <2>5, <2>6 DEF Next
<1> QED
  BY <1>1, <1>2, PTL DEF Spec

-----------------------------------------------------------------------------
(* Soundness of the vectors *)

\* A path can be extended by an edge.
LEMMA PathEdge ==
  ASSUME NEW u \in Node, NEW v \in Node, NEW w \in Node,
         Path(u, v), <<v, w>> \in edges
  PROVE  Path(u, w)
  BY Zenon DEF Path, Closed

\* A step keeps every path if each set closed under the new edges was closed
\* under the old ones.
LEMMA PathKept ==
  ASSUME NEW u \in Node, NEW v \in Node, Path(u, v),
         \A S \in SUBSET Node : Closed(S)' => Closed(S)
  PROVE  Path(u, v)'
  BY Zenon DEF Path, Closed

\* The entries of cv[v] have witnesses, in the notation of ClockSound
Witness(v, t) == \E u \in Node : NodeTid[u] = t /\ NodeSeq[u] = cv[v][t] /\ Path(u, v)

\* A new vector that takes each of its entries from the old vector of v or from
\* that of a node with an edge to v has witnesses for all of them: what both
\* the merge into tonode and the merges of the worklist rely on.
LEMMA WitnessMerge ==
  ASSUME ClockSound, NEW v \in Node, NEW x \in Node, NEW t \in Thread,
         cv'[v][t] > 0,
         cv'[v][t] = cv[v][t] \/ (cv'[v][t] = cv[x][t] /\ <<x, v>> \in edges'),
         \A S \in SUBSET Node : Closed(S)' => Closed(S)
  PROVE  Witness(v, t)'
<1>1. CASE cv'[v][t] = cv[v][t]
  <2>1. PICK u \in Node : NodeTid[u] = t /\ NodeSeq[u] = cv[v][t] /\ Path(u, v)
    BY <1>1, Zenon DEF ClockSound
  <2>2. Path(u, v)'
    BY <2>1, PathKept, Zenon
  <2> QED
    BY <1>1, <2>1, <2>2, Zenon DEF Witness
<1>2. CASE cv'[v][t] = cv[x][t] /\ <<x, v>> \in edges'
  <2>1. PICK u \in Node : NodeTid[u] = t /\ NodeSeq[u] = cv[x][t] /\ Path(u, x)
    BY <1>2, Zenon DEF ClockSound
  <2>2. Path(u, x)'
    BY <2>1, PathKept, Zenon
  <2>3. Path(u, v)'
    BY <1>2, <2>2, Zenon DEF Path, Closed
  <2> QED
    BY <1>2, <2>1, <2>3, Zenon DEF Witness
<1> QED
  BY <1>1, <1>2, Zenon

\* Every step of addEdge, addRMWEdge and addNodeEdge's loops keeps ClockSound: a
\* merge along an edge takes entries only from stores that have a path.
LEMMA SoundStep == TypeOK /\ ClockSound /\ [Next]_vars => ClockSound'
<1> SUFFICES ASSUME TypeOK, ClockSound, [Next]_vars PROVE ClockSound'
  BY Zenon
<1> SUFFICES ASSUME NEW v \in Node, NEW t \in Thread, cv'[v][t] > 0
             PROVE  Witness(v, t)'
  BY Zenon DEF ClockSound, Witness
<1>1. ASSUME UNCHANGED <<edges, cv>> PROVE Witness(v, t)'
  BY <1>1, Zenon DEF ClockSound, Witness, Path, Closed
<1>2. ASSUME NEW f \in Node, NEW r \in Node, AddRMWEdge(f, r)
      PROVE  Witness(v, t)'
  <2>1. <<f, r>> \in edges'
    BY <1>2, Zenon DEF AddRMWEdge
  <2>2. \A S \in SUBSET Node : Closed(S)' => Closed(S)
    <3> SUFFICES ASSUME NEW S \in SUBSET Node, Closed(S)',
                        NEW x \in Node, NEW y \in Node, x \in S, <<x, y>> \in edges
                 PROVE  y \in S
      BY Zenon DEF Closed
    <3>1. CASE x # f
      <4>1. <<x, y>> \in edges'
        BY <1>2, <3>1, Zenon DEF AddRMWEdge
      <4> QED
        BY <4>1, Zenon DEF Closed
    <3>2. CASE x = f /\ y # r
      <4>1. r \in S
        BY <2>1, <3>2, Zenon DEF Closed
      <4>2. <<r, y>> \in edges'
        BY <1>2, <3>2, Zenon DEF AddRMWEdge
      <4> QED
        BY <4>1, <4>2, Zenon DEF Closed
    <3>3. CASE x = f /\ y = r
      BY <2>1, <3>3, Zenon DEF Closed
    <3> QED
      BY <3>1, <3>2, <3>3, Zenon
  <2>3. cv'[v][t] = cv[v][t] \/ (v = r /\ cv'[v][t] = cv[f][t])
    BY <1>2, MergeBounds DEF AddRMWEdge, TypeOK
  <2>4. cv'[v][t] = cv[v][t] \/ (cv'[v][t] = cv[f][t] /\ <<f, v>> \in edges')
    BY <2>1, <2>3, Zenon
  <2> QED
    BY <2>2, <2>4, WitnessMerge, Zenon
<1>3. CASE Link
  <2>1. from \in Node /\ to \in Node /\ <<from, to>> \in edges' /\ edges \subseteq edges'
    BY <1>3, Zenon DEF Link, TypeOK
  <2>2. \A S \in SUBSET Node : Closed(S)' => Closed(S)
    BY <2>1, Zenon DEF Closed
  <2>3. cv'[v][t] = cv[v][t] \/ (v = to /\ cv'[v][t] = cv[from][t])
    BY <1>3, <2>1, MergeBounds DEF Link, TypeOK
  <2>4. cv'[v][t] = cv[v][t] \/ (cv'[v][t] = cv[from][t] /\ <<from, v>> \in edges')
    BY <2>1, <2>3, Zenon
  <2> QED
    BY <2>1, <2>2, <2>4, WitnessMerge, Zenon
<1>4. ASSUME NEW n \in queue, Pop(n) PROVE Witness(v, t)'
  <2>1. n \in Node /\ edges' = edges
    BY <1>4, Zenon DEF Pop, TypeOK
  <2>2. \A S \in SUBSET Node : Closed(S)' => Closed(S)
    BY <2>1, Zenon DEF Closed
  <2>3. cv'[v][t] = cv[v][t] \/ (cv'[v][t] = cv[n][t] /\ <<n, v>> \in edges')
    BY <1>4, <2>1, MergeBounds DEF Pop, TypeOK
  <2> QED
    BY <2>1, <2>2, <2>3, WitnessMerge, Zenon
<1> QED
  BY <1>1, <1>2, <1>3, <1>4, Zenon DEF Next, AddEdge, Hop, vars

\* For any threads and stores: whenever checkReachable's vectors say that a
\* store of a thread precedes another one, a path of recorded edges leads there
\* from a store of that thread; this includes the moves of addRMWEdge and the
\* states in the middle of a propagation.
THEOREM Soundness == Spec => []ClockSound
<1>1. Init => ClockSound
  <2> SUFFICES ASSUME Init, NEW v \in Node, NEW t \in Thread, cv[v][t] > 0
               PROVE  Witness(v, t)
    BY Zenon DEF ClockSound, Witness
  <2>1. cv[v] = FreshVector(v)
    BY Zenon DEF Init
  <2>2. t = NodeTid[v] /\ cv[v][t] = NodeSeq[v]
    BY <2>1, FreshVectorType
  <2>3. Path(v, v)
    BY Zenon DEF Path
  <2> QED
    BY <2>2, <2>3, Zenon DEF Witness
<1> QED
  BY <1>1, SoundStep, TypeCorrect, PTL DEF Spec

-----------------------------------------------------------------------------
(* Completeness of the vectors *)

\* One merge keeps EdgesMonotone: the vector of v grows by that of x, and v goes
\* on the worklist unless nothing changed.
LEMMA GrowKeepsOwnEntry ==
  ASSUME TypeOK, EdgesMonotone, NEW n \in Node, NEW m \in Node
  PROVE  NodeSeq[n] <= Merge(cv[n], cv[m])[NodeTid[n]]
<1>1. NodeSeq[n] <= cv[n][NodeTid[n]]
  BY Zenon DEF EdgesMonotone
<1>2. cv[n][NodeTid[n]] <= Merge(cv[n], cv[m])[NodeTid[n]]
  BY NodeAssumption, MergeBounds, Zenon DEF TypeOK, VectorLeq
<1>3. /\ cv[n][NodeTid[n]] \in Nat /\ NodeSeq[n] \in Nat
      /\ Merge(cv[n], cv[m])[NodeTid[n]] \in Nat
  BY NodeAssumption, MergeBounds DEF TypeOK, Vector
<1> QED
  BY <1>1, <1>2, <1>3

\* Every step keeps EdgesMonotone, as long as no RMW reads a store of its own
\* thread: whoever's vector grew is on addNodeEdge's worklist.
LEMMA MonotoneStep ==
  ASSUME SelfRMW = FALSE
  PROVE  TypeOK /\ TypeOK' /\ EdgesMonotone /\ [Next]_vars => EdgesMonotone'
<1> SUFFICES ASSUME TypeOK, TypeOK', EdgesMonotone, [Next]_vars PROVE EdgesMonotone'
  BY Zenon
<1>1. ASSUME UNCHANGED <<edges, cv, queue>> PROVE EdgesMonotone'
  BY <1>1, Zenon DEF EdgesMonotone
<1>2. ASSUME NEW f \in Node, NEW r \in Node, AddRMWEdge(f, r)
      PROVE  EdgesMonotone'
  <2>1. /\ f # r /\ queue = {} /\ cv'[r] = Merge(cv[r], cv[f])
        /\ \A n \in Node \ {r} : cv'[n] = cv[n]
    BY <1>2, Zenon DEF AddRMWEdge, Idle, TypeOK
  <2>2. queue' = {r}
    <3>1. cv[r][NodeTid[f]] = 0
      <4>1. cv[r] = FreshVector(r)
        BY <1>2, Zenon DEF AddRMWEdge, TypeOK
      <4>2. NodeTid[f] \in Thread \ {NodeTid[r]}
        BY <1>2, NodeAssumption, Zenon DEF AddRMWEdge
      <4> QED
        BY <4>1, <4>2, FreshVectorType
    <3>2. NodeSeq[f] <= cv[f][NodeTid[f]] /\ NodeSeq[f] \in Nat \ {0}
      BY NodeAssumption, Zenon DEF EdgesMonotone
    <3>3. cv[f][NodeTid[f]] \in Nat
      BY NodeAssumption DEF TypeOK, Vector
    <3>4. ~VectorLeq(cv[f], cv[r])
      BY <3>1, <3>2, <3>3, NodeAssumption DEF VectorLeq
    <3> QED
      BY <1>2, <3>4, Zenon DEF AddRMWEdge
  <2>3. ASSUME NEW u \in Node, NEW v \in Node, <<u, v>> \in edges', u # r
        PROVE  VectorLeq(cv'[u], cv'[v])
    <3>1. CASE u = f /\ v = r
      BY <2>1, <3>1, MergeBounds DEF TypeOK
    <3>2. CASE <<u, v>> \in edges
      <4>1. VectorLeq(cv[u], cv[v])
        BY <2>1, <3>2, Zenon DEF EdgesMonotone
      <4>2. VectorLeq(cv[v], cv'[v])
        <5>1. CASE v = r
          BY <2>1, <5>1, MergeBounds DEF TypeOK
        <5>2. CASE v # r
          BY <2>1, <5>2 DEF VectorLeq, TypeOK, Vector
        <5> QED
          BY <5>1, <5>2, Zenon
      <4> QED
        BY <2>1, <2>3, <4>1, <4>2, LeqTransitive, Zenon DEF TypeOK
    <3>3. (u = f /\ v = r) \/ <<u, v>> \in edges
      BY <1>2, <2>3, Zenon DEF AddRMWEdge
    <3> QED
      BY <3>1, <3>2, <3>3, Zenon
  <2>4. \A n \in Node : NodeSeq[n] <= cv'[n][NodeTid[n]]
    BY <2>1, GrowKeepsOwnEntry, Zenon DEF EdgesMonotone
  <2> QED
    BY <2>2, <2>3, <2>4, Zenon DEF EdgesMonotone
<1>3. CASE Link
  <2>1. /\ from \in Node /\ to \in Node /\ queue = {}
        /\ cv'[to] = Merge(cv[to], cv[from])
        /\ \A n \in Node \ {to} : cv'[n] = cv[n]
        /\ edges' = edges \cup {<<from, to>>}
        /\ queue' = IF VectorLeq(cv[from], cv[to]) THEN {} ELSE {to}
    BY <1>3, Zenon DEF Link, TypeOK
  <2>2. \A n \in Node : VectorLeq(cv[n], cv'[n])
    BY <2>1, MergeBounds, LeqReflexive DEF TypeOK
  <2>3. ASSUME NEW u \in Node, NEW v \in Node, <<u, v>> \in edges', u \notin queue'
        PROVE  VectorLeq(cv'[u], cv'[v])
    <3>1. cv'[u] = cv[u]
      BY <2>1, <2>3, MergeBounds DEF TypeOK
    <3>2. CASE u = from /\ v = to
      BY <2>1, <3>1, <3>2, MergeBounds DEF TypeOK
    <3>3. CASE <<u, v>> \in edges
      BY <2>1, <2>2, <3>1, <3>3, LeqTransitive, Zenon DEF EdgesMonotone, TypeOK
    <3> QED
      BY <2>1, <2>3, <3>2, <3>3, Zenon
  <2>4. \A n \in Node : NodeSeq[n] <= cv'[n][NodeTid[n]]
    BY <2>1, GrowKeepsOwnEntry, Zenon DEF EdgesMonotone
  <2> QED
    BY <2>3, <2>4, Zenon DEF EdgesMonotone
<1>4. ASSUME NEW n \in queue, Pop(n) PROVE EdgesMonotone'
  <2>1. /\ n \in Node /\ edges' = edges
        /\ \A v \in Node : cv'[v] = IF <<n, v>> \in edges THEN Merge(cv[v], cv[n]) ELSE cv[v]
        /\ \A v \in Node : <<n, v>> \in edges /\ ~VectorLeq(cv[n], cv[v]) => v \in queue'
        /\ \A v \in queue \ {n} : v \in queue'
    BY <1>4, Zenon DEF Pop, TypeOK
  <2>2. ASSUME NEW v \in Node PROVE VectorLeq(cv[v], cv'[v])
    <3>1. cv[v] \in Vector /\ cv[n] \in Vector
      BY <2>1, Zenon DEF TypeOK
    <3>2. cv'[v] = Merge(cv[v], cv[n]) \/ cv'[v] = cv[v]
      BY <2>1, Zenon
    <3> QED
      BY <3>1, <3>2, MergeBounds, LeqReflexive
  <2>3. ASSUME NEW u \in Node, NEW v \in Node, <<u, v>> \in edges', u \notin queue'
        PROVE  VectorLeq(cv'[u], cv'[v])
    <3>1. cv'[u] = cv[u]
      BY <2>1, <2>3, MergeBounds, Zenon DEF TypeOK
    <3>2. CASE u = n
      BY <2>1, <2>3, <3>1, <3>2, MergeBounds DEF TypeOK
    <3>3. CASE u # n
      <4>1. VectorLeq(cv[u], cv[v])
        BY <2>1, <2>3, <3>3, Zenon DEF EdgesMonotone
      <4> QED
        BY <2>2, <3>1, <4>1, LeqTransitive, Zenon DEF TypeOK
    <3> QED
      BY <3>2, <3>3, Zenon
  <2>4. \A m \in Node : NodeSeq[m] <= cv'[m][NodeTid[m]]
    BY <2>1, GrowKeepsOwnEntry, Zenon DEF EdgesMonotone
  <2> QED
    BY <2>3, <2>4, Zenon DEF EdgesMonotone
<1> QED
  BY <1>1, <1>2, <1>3, <1>4, Zenon DEF Next, AddEdge, Hop, vars

\* With an empty worklist the set of the nodes that have seen u is closed under
\* the edges, so it contains everything u has a path to.
LEMMA MonotoneComplete == TypeOK /\ EdgesMonotone => ClockComplete
<1> SUFFICES ASSUME TypeOK, EdgesMonotone, Idle,
                    NEW u \in nodes, NEW v \in nodes, Path(u, v)
             PROVE  NodeReachable(u, v)
  BY Zenon DEF ClockComplete
<1> DEFINE Seen == {w \in Node : NodeSeq[u] <= cv[w][NodeTid[u]]}
<1>1. u \in Node /\ v \in Node /\ NodeTid[u] \in Thread /\ NodeSeq[u] \in Nat
  BY NodeAssumption, Zenon DEF TypeOK
<1>2. u \in Seen
  BY <1>1, Zenon DEF EdgesMonotone
<1>3. ASSUME NEW x \in Node, NEW y \in Node, x \in Seen, <<x, y>> \in edges
      PROVE  y \in Seen
  <2>1. VectorLeq(cv[x], cv[y])
    BY <1>3, Zenon DEF EdgesMonotone, Idle
  <2>2. cv[x][NodeTid[u]] \in Nat /\ cv[y][NodeTid[u]] \in Nat
    BY <1>1, Zenon DEF TypeOK, Vector
  <2>3. cv[x][NodeTid[u]] <= cv[y][NodeTid[u]]
    BY <1>1, <2>1, Zenon DEF VectorLeq
  <2> QED
    BY <1>1, <1>3, <2>2, <2>3
<1>4. Closed(Seen)
  BY <1>3, Zenon DEF Closed
<1>5. v \in Seen
  BY <1>2, <1>4, Zenon DEF Path
<1> QED
  BY <1>5, Zenon DEF NodeReachable, SynchronizedSince

\* For any threads and stores, if no RMW reads a store of its own thread: when
\* the worklist is empty, checkReachable answers true wherever a path of edges
\* leads, so neither the early return of addNodeEdge nor its "changed" test
\* loses an ordering.
THEOREM Completeness == (SelfRMW = FALSE) => (Spec => []ClockComplete)
<1> SUFFICES ASSUME SelfRMW = FALSE PROVE Spec => []ClockComplete
  BY Zenon
<1>1. Init => EdgesMonotone
  <2> SUFFICES ASSUME Init PROVE EdgesMonotone
    BY Zenon
  <2>1. \A n \in Node : cv[n] = FreshVector(n)
    BY Zenon DEF Init
  <2>2. \A n \in Node : NodeSeq[n] <= cv[n][NodeTid[n]]
    BY <2>1, FreshVectorType, NodeAssumption
  <2> QED
    BY <2>2, Zenon DEF Init, EdgesMonotone
<1>2. TypeOK /\ TypeOK' /\ EdgesMonotone /\ [Next]_vars => EdgesMonotone'
  BY MonotoneStep, Zenon
<1> QED
  BY <1>1, <1>2, MonotoneComplete, TypeCorrect, PTL DEF Spec
=============================================================================
