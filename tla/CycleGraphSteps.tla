--------------------------- MODULE CycleGraphSteps ---------------------------
(***************************************************************************)
(* The modification-order graph (cyclegraph.cc) at the grain of its loops: *)
(* one step per hop along a chain of RMWs, one step per node popped from   *)
(* the worklist of addNodeEdge.  The worklist is a set from which any      *)
(* element may be popped; the code's stack is one such order.              *)
(*                                                                         *)
(* Node is the set of the stores of one location, the zero-initialising    *)
(* store left out: the calls that reach the graph name two of them.        *)
(***************************************************************************)
EXTENDS ClockVector

CONSTANTS
  Node,      \* store actions
  NodeTid,   \* their threads
  NodeSeq,   \* their sequence numbers
  NoNode,    \* NULL
  SelfRMW    \* may an RMW read a store of its own thread?

ASSUME NodeAssumption ==
  /\ NoNode \notin Node
  /\ NodeTid \in [Node -> Thread]
  /\ NodeSeq \in [Node -> Nat \ {0}]
  /\ SelfRMW \in BOOLEAN

VARIABLES
  nodes,     \* the stores that have a CycleNode
  edges,     \* the edges, as pairs of stores
  rmw,       \* hasRMW of each node
  cv,        \* the clock vector of each node
  queue,     \* the worklist
  pc,        \* "walk" while addNodeEdge follows a chain, else "idle"
  from, to   \* addNodeEdge's fromnode and tonode while it walks

vars == <<nodes, edges, rmw, cv, queue, pc, from, to>>

-----------------------------------------------------------------------------
\* The vector of a node that was just created
FreshVector(n) == NewVector(ZeroVector, NodeTid[n], NodeSeq[n])

NodeReachable(u, v) == SynchronizedSince(cv[v], NodeTid[u], NodeSeq[u])

Idle == pc = "idle" /\ queue = {}

Init ==
  /\ nodes = {} /\ edges = {} /\ queue = {}
  /\ rmw = [n \in Node |-> NoNode]
  /\ cv = [n \in Node |-> FreshVector(n)]
  /\ pc = "idle" /\ from = NoNode /\ to = NoNode

(***************************************************************************)
(* addEdge(f, t, force).  It never asks whether t reaches f already: an    *)
(* edge that closes a cycle is added like any other.  Its callers ask for  *)
(* no reflexive edge.                                                      *)
(***************************************************************************)
AddEdge(f, t, force) ==
  /\ Idle /\ f # t
  /\ nodes' = nodes \cup {f, t}
  /\ IF NodeReachable(f, t) /\ ~force
     THEN UNCHANGED <<pc, from, to>>
     ELSE pc' = "walk" /\ from' = f /\ to' = t
  /\ UNCHANGED <<edges, rmw, cv, queue>>

\* addNodeEdge follows fromnode's chain of RMWs
Hop ==
  /\ pc = "walk" /\ rmw[from] \notin {NoNode, to}
  /\ from' = rmw[from]
  /\ UNCHANGED <<nodes, edges, rmw, cv, queue, pc, to>>

\* Faulty variant: the merge goes from tonode to fromnode
LinkBackwards ==
  /\ pc = "walk" /\ rmw[from] \in {NoNode, to}
  /\ edges' = edges \cup {<<from, to>>}
  /\ cv' = [cv EXCEPT ![from] = Merge(cv[from], cv[to])]
  /\ queue' = IF VectorLeq(cv[to], cv[from]) THEN {} ELSE {from}
  /\ pc' = "idle" /\ from' = NoNode /\ to' = NoNode
  /\ UNCHANGED <<nodes, rmw>>

\* addNodeEdge adds the edge and merges fromnode's vector into tonode's
Link ==
  /\ pc = "walk" /\ rmw[from] \in {NoNode, to}
  /\ edges' = edges \cup {<<from, to>>}
  /\ cv' = [cv EXCEPT ![to] = Merge(cv[to], cv[from])]
  /\ queue' = IF VectorLeq(cv[from], cv[to]) THEN {} ELSE {to}
  /\ pc' = "idle" /\ from' = NoNode /\ to' = NoNode
  /\ UNCHANGED <<nodes, rmw>>

(***************************************************************************)
(* addRMWEdge(f, r): r is new and no RMW reads f yet (build_may_read_from  *)
(* filtered the others).  f's outgoing edges become r's, and the forced    *)
(* addNodeEdge(f, r) stops at once because r is f's RMW.                   *)
(***************************************************************************)
AddRMWEdge(f, r) ==
  /\ Idle /\ r \notin nodes /\ f # r /\ rmw[f] = NoNode
  /\ SelfRMW \/ NodeTid[f] # NodeTid[r]
  /\ nodes' = nodes \cup {f, r}
  /\ rmw' = [rmw EXCEPT ![f] = r]
  /\ edges' = {e \in Node \X Node : \/ e \in edges /\ e[1] # f
                                    \/ e[1] = r /\ e[2] # r /\ <<f, e[2]>> \in edges
                                    \/ e = <<f, r>>}
  /\ cv' = [cv EXCEPT ![r] = Merge(cv[r], cv[f])]
  /\ queue' = IF VectorLeq(cv[f], cv[r]) THEN {} ELSE {r}
  /\ UNCHANGED <<pc, from, to>>

\* Faulty variant: the successors that changed are not pushed
PopOnly(n) ==
  /\ n \in queue
  /\ cv' = [v \in Node |-> IF <<n, v>> \in edges THEN Merge(cv[v], cv[n]) ELSE cv[v]]
  /\ queue' = queue \ {n}
  /\ UNCHANGED <<nodes, edges, rmw, pc, from, to>>

\* Faulty variant: every successor is pushed, changed or not
PopPushAll(n) ==
  /\ n \in queue
  /\ cv' = [v \in Node |-> IF <<n, v>> \in edges THEN Merge(cv[v], cv[n]) ELSE cv[v]]
  /\ queue' = (queue \ {n}) \cup {v \in Node : <<n, v>> \in edges}
  /\ UNCHANGED <<nodes, edges, rmw, pc, from, to>>

\* addNodeEdge pops node n and merges its vector into those of its successors
Pop(n) ==
  /\ n \in queue
  /\ cv' = [v \in Node |-> IF <<n, v>> \in edges THEN Merge(cv[v], cv[n]) ELSE cv[v]]
  /\ queue' = (queue \ {n}) \cup {v \in Node : <<n, v>> \in edges /\ ~VectorLeq(cv[n], cv[v])}
  /\ UNCHANGED <<nodes, edges, rmw, pc, from, to>>

Next ==
  \/ \E f, t \in Node : \/ \E force \in BOOLEAN : AddEdge(f, t, force)
                        \/ AddRMWEdge(f, t)
  \/ Hop \/ Link
  \/ \E n \in queue : Pop(n)

Spec == Init /\ [][Next]_vars

\* addNodeEdge runs to its end without giving up control
FairSpec == Spec /\ WF_vars(Hop) /\ WF_vars(Link) /\ WF_vars(\E n \in queue : Pop(n))

-----------------------------------------------------------------------------
(* Properties *)

\* Type invariant; a node whose store has no CycleNode yet has the vector the
\* constructor will give it and no edges.
TypeOK ==
  /\ nodes \subseteq Node /\ edges \subseteq nodes \X nodes
  /\ rmw \in [Node -> nodes \cup {NoNode}]
  /\ cv \in [Node -> Vector]
  /\ queue \subseteq nodes
  /\ pc \in {"idle", "walk"}
  /\ pc = "walk" => from \in nodes /\ to \in nodes /\ queue = {}
  /\ \A n \in Node \ nodes : cv[n] = FreshVector(n)

\* v is reachable from u: it is in every set that contains u and is closed
\* under the edges
Closed(S)  == \A x, y \in Node : (x \in S /\ <<x, y>> \in edges) => y \in S
Path(u, v) == \A S \in SUBSET Node : (u \in S /\ Closed(S)) => v \in S

\* Every entry of a node's vector is the number of a store of that thread that
\* really has a path to the node: what checkReachable compares with rests on a
\* chain of recorded orderings.  It holds in the middle of a propagation too,
\* when addRMWEdge moves edges, and when an edge closes a cycle.
ClockSound ==
  \A v \in Node, t \in Thread : cv[v][t] > 0 =>
    \E u \in Node : NodeTid[u] = t /\ NodeSeq[u] = cv[v][t] /\ Path(u, v)

\* Once the worklist is empty, checkReachable says true wherever there is a
\* path: addNodeEdge's early return and its "changed" test lose nothing.
ClockComplete ==
  Idle => \A u, v \in nodes : Path(u, v) => NodeReachable(u, v)

\* The worklist of addNodeEdge drains, even on a graph that has a cycle.
PropagationEnds == (queue # {}) ~> Idle

\* What makes ClockComplete inductive: the vector of an edge's source is below
\* that of its target, or the source is still waiting on the worklist.
EdgesMonotone ==
  /\ \A u, v \in Node : <<u, v>> \in edges => u \in queue \/ VectorLeq(cv[u], cv[v])
  /\ \A n \in Node : NodeSeq[n] <= cv[n][NodeTid[n]]
=============================================================================
