------------------------------ MODULE CycleGraph ------------------------------
(***************************************************************************)
(* The modification-order graph (cyclegraph.cc) as operators on a graph    *)
(* value.  A graph is a function from the ids of the store actions that    *)
(* have a CycleNode to those nodes.  A node keeps the thread and sequence  *)
(* number of its action, the set of its outgoing edges, the RMW that reads *)
(* from it (hasRMW, 0 for NULL) and its clock vector.  Incoming edges are  *)
(* the inverse of the outgoing ones.                                       *)
(*                                                                         *)
(* acts is the table of actions: acts[a] has the fields tid and seq.       *)
(***************************************************************************)
EXTENDS ClockVector, Sequences, FiniteSetsExt

NoNode == 0

\* Op applied to the elements of s from the first to the last
FoldLeft(Op(_, _), start, s) ==
  LET after[n \in 0..Len(s)] == IF n = 0 THEN start ELSE Op(after[n - 1], s[n])
  IN  after[Len(s)]

\* CycleNode(act)
CycleNode(act) ==
  [tid |-> act.tid, seq |-> act.seq, edges |-> {}, rmw |-> NoNode,
   cv  |-> NewVector(ZeroVector, act.tid, act.seq)]

\* getNode: the graph with a node for action a
GetNode(g, acts, a) ==
  [n \in DOMAIN g \cup {a} |-> IF n \in DOMAIN g THEN g[n] ELSE CycleNode(acts[a])]

\* checkReachable on two nodes of the graph
NodeReachable(g, from, to) == SynchronizedSince(g[to].cv, g[from].tid, g[from].seq)

\* checkReachable on two actions: false when one has no node yet
CheckReachable(g, from, to) ==
  /\ {from, to} \subseteq DOMAIN g
  /\ NodeReachable(g, from, to)

\* The end of from's chain of RMWs, stopping short of to
RMWChainEnd(g, from, to) ==
  LET Hop(n) == IF g[n].rmw \in {NoNode, to} THEN n ELSE g[n].rmw
      chain[k \in 0..Cardinality(DOMAIN g)] == IF k = 0 THEN from ELSE Hop(chain[k-1])
  IN  chain[Cardinality(DOMAIN g)]

(***************************************************************************)
(* The worklist of addNodeEdge.  Its outcome does not depend on the order  *)
(* in which nodes are popped, so a round pops the whole queue: every       *)
(* successor of a queued node merges the queued nodes' vectors, and the    *)
(* successors that changed form the next queue.  A clock component travels *)
(* along at most two passes over the nodes (two when the graph is cyclic). *)
(***************************************************************************)
MergeFrom(g, queue) ==
  [v \in DOMAIN g |->
     LET srcs == {u \in queue : v \in g[u].edges}
     IN  IF srcs = {} THEN g[v]
         ELSE [g[v] EXCEPT !.cv =
                 [t \in Thread |-> Max({g[v].cv[t]} \cup {g[u].cv[t] : u \in srcs})]]]

Propagate(g, queue) ==
  LET Round(s) == LET h == MergeFrom(s.g, s.queue)
                  IN  [g |-> h, queue |-> {v \in DOMAIN h : h[v].cv # s.g[v].cv}]
      round[k \in 0..(2 * Cardinality(DOMAIN g))] ==
        IF k = 0 THEN [g |-> g, queue |-> queue]
        ELSE LET s == round[k-1] IN IF s.queue = {} THEN s ELSE Round(s)
  IN  round[2 * Cardinality(DOMAIN g)].g

\* Faulty variant: tonode's change is not propagated to its successors
AddNodeEdgeNoWorklist(g, from, to, force) ==
  LET end == RMWChainEnd(g, from, to)
  IN  IF NodeReachable(g, from, to) /\ ~force THEN g
      ELSE [g EXCEPT ![end].edges = @ \cup {to}, ![to].cv = Merge(@, g[end].cv)]

\* Faulty variant: fromnode's vector replaces tonode's, but for its own entry
AddNodeEdgeOverwrite(g, from, to, force) ==
  LET end == RMWChainEnd(g, from, to)
      own == NewVector(g[end].cv, g[to].tid, g[to].seq)
  IN  IF NodeReachable(g, from, to) /\ ~force THEN g
      ELSE Propagate([g EXCEPT ![end].edges = @ \cup {to}, ![to].cv = own], {to})

\* addNodeEdge
AddNodeEdge(g, from, to, force) ==
  IF NodeReachable(g, from, to) /\ ~force THEN g
  ELSE LET end    == RMWChainEnd(g, from, to)
           linked == [g EXCEPT ![end].edges = @ \cup {to}]
           merged == Merge(g[to].cv, g[end].cv)
       IN  IF merged = g[to].cv THEN linked
           ELSE Propagate([linked EXCEPT ![to].cv = merged], {to})

\* addEdge
AddEdge(g, acts, from, to, force) ==
  AddNodeEdge(GetNode(GetNode(g, acts, from), acts, to), from, to, force)

\* Faulty variant: from keeps its outgoing edges
AddRMWEdgeUnmoved(g, acts, from, rmw) ==
  LET h      == GetNode(GetNode(g, acts, from), acts, rmw)
      marked == [h EXCEPT ![from].rmw = IF @ = NoNode THEN rmw ELSE @]
  IN  AddNodeEdge(marked, from, rmw, TRUE)

\* addRMWEdge: rmw becomes from's RMW and takes over from's outgoing edges
AddRMWEdge(g, acts, from, rmw) ==
  LET h     == GetNode(GetNode(g, acts, from), acts, rmw)
      moved == [h EXCEPT ![rmw].edges  = @ \cup (h[from].edges \ {rmw}),
                         ![from].edges = {},
                         ![from].rmw   = IF @ = NoNode THEN rmw ELSE @]
  IN  AddNodeEdge(moved, from, rmw, TRUE)

(***************************************************************************)
(* addEdges.  Prune is its pair of nested loops over the candidate edges:  *)
(* the i-th candidate is dropped at the first later one it reaches, and    *)
(* drops the ones before that which reach it.  What is left gets an edge   *)
(* to the new store, forced when it is by the store's own thread.          *)
(***************************************************************************)
Prune(g, edgeset) ==
  LET Reach(i, j)   == NodeReachable(g, edgeset[i], edgeset[j])
      Visit(kept, i) ==
        LET hits == {j \in kept : j > i /\ Reach(i, j)}
            met  == {j \in kept : j > i /\ \A h \in hits : j < h}
        IN  IF i \notin kept THEN kept
            ELSE kept \ ({j \in met : Reach(j, i)} \cup (IF hits = {} THEN {} ELSE {i}))
  IN  FoldLeft(Visit, DOMAIN edgeset, [i \in DOMAIN edgeset |-> i])

AddEdges(g, acts, edgeset, to) ==
  LET h     == FoldLeft(LAMBDA acc, a : GetNode(acc, acts, a), g, edgeset)
      kept  == Prune(h, edgeset)
      Link(acc, i) == IF i \notin kept THEN acc
                      ELSE AddEdge(acc, acts, edgeset[i], to, acts[edgeset[i]].tid = acts[to].tid)
  IN  FoldLeft(Link, h, [i \in DOMAIN edgeset |-> i])
=============================================================================
