----------------------------- MODULE MemoryModel -----------------------------
(***************************************************************************)
(* What an execution promises: the C++11 memory model, stated directly on  *)
(* the trace, without clock vectors and without the graph.  Happens-before *)
(* is built from program order and synchronizes-with; the constraints on   *)
(* the modification order are those of coherence, of RMW atomicity and of  *)
(* statements 3 to 7 of 29.3, as doc/notes/fence.txt writes them, with the *)
(* seq_cst order S taken to be the execution order.                        *)
(***************************************************************************)
EXTENDS Execution

\* i is sequenced before j
Sb(i, j) == i < j /\ acts[i].tid = acts[j].tid

\* The RMWs and the store that w's release sequence goes back to
RMWChain(w) ==
  LET chain[i \in Ids] == {i} \cup IF IsRMW(acts[i]) THEN chain[acts[i].rf] ELSE {}
  IN  chain[w]

(***************************************************************************)
(* The actions that synchronise with whoever acquires through read r       *)
(* (29.8).  The release sequence is the one get_hb_from_write follows, a   *)
(* store and the RMWs that continue it.  1.10.7, which                     *)
(* doc/notes/release-sequence.txt quotes, also counts the later stores of  *)
(* the releasing thread; ReleaseSequenceSynchronises, below, states that   *)
(* rule, and the code does not follow it.                                  *)
(***************************************************************************)
ReleaseSources(r) ==
  LET C == RMWChain(acts[r].rf)
  IN  {i \in Ids : \/ i \in C /\ IsRelease(acts[i])
                   \/ /\ IsFence(acts[i]) /\ IsRelease(acts[i])
                      /\ \E x \in C : Sb(i, x)}

SwInto(j) ==
  LET a == acts[j]
  IN  CASE IsRead(a) /\ IsAcquire(a)  -> ReleaseSources(j)
        [] IsFence(a) /\ IsAcquire(a) ->
             UNION {ReleaseSources(r) : r \in {i \in Ids : IsRead(acts[i]) /\ Sb(i, j)}}
        [] a.type = "start" -> {i \in Ids : acts[i].type = "create" /\ acts[i].val = a.tid}
        [] a.type = "join"  -> {i \in Ids : acts[i].type = "finish" /\ acts[i].tid = a.val}
        [] OTHER -> {}

\* The actions that lead to j directly, by program order or by synchronizing with it
Preds(j) == {i \in Ids : Sb(i, j)} \cup SwInto(j)

\* HbUpTo[j] is, for each of the first j actions, the set of those that happen before it
HbUpTo[j \in 0..Len(acts)] ==
  IF j = 0 THEN <<>>
  ELSE LET h == HbUpTo[j - 1] IN Append(h, Preds(j) \cup UNION {h[i] : i \in Preds(j)})

\* Hb[j] is the set of the actions that happen before j
Hb ==
  LET zero == {i \in Ids : acts[i].type = "nonatomic"}
      h    == HbUpTo[Len(acts)]
  IN  [j \in Ids |-> h[j] \cup (zero \ {j})]

Writes(x)   == {i \in Ids : IsWrite(acts[i]) /\ acts[i].loc = x}
Accesses(x) == {i \in Ids : acts[i].loc = x}
SCFences    == {i \in Ids : IsFence(acts[i]) /\ IsSeqCst(acts[i])}

\* The stores that access j puts in the modification order: what it read, and
\* itself if it writes
Touches(j) ==
  (IF IsRead(acts[j]) THEN {acts[j].rf} ELSE {}) \cup (IF IsWrite(acts[j]) THEN {j} ELSE {})

\* Statements 4 to 6 of 29.3, where F are the seq_cst fences: read b may not observe a store older than w
FenceHidesBefore(F, w, b) ==
  \E X \in F :
    \/ IsSeqCst(acts[w]) /\ w < X /\ Sb(X, b)
    \/ IsSeqCst(acts[b]) /\ Sb(w, X) /\ X < b
    \/ Sb(w, X) /\ \E Y \in F : X < Y /\ Sb(Y, b)

\* Statement 7
FencesOrder(F, a, b) == \E X, Y \in F : Sb(a, X) /\ X < Y /\ Sb(Y, b)

\* The pairs that every modification order of x has to contain
MoConstraints(x) ==
  LET h == Hb
      F == SCFences
      W == Writes(x)
      coherence == UNION { {StoreOf(acts, p[1])} \X Touches(p[2]) :
                           p \in {q \in Accesses(x) \X Accesses(x) : q[1] \in h[q[2]]}}
      rmw == {<<acts[i].rf, i>> : i \in {j \in W : IsRMW(acts[j])}}
      sc  == {p \in W \X W : IsSeqCst(acts[p[1]]) /\ IsSeqCst(acts[p[2]]) /\ p[1] < p[2]}
      reads == UNION { {<<w, acts[b].rf>> : w \in {v \in W : FenceHidesBefore(F, v, b)}} :
                       b \in {i \in Accesses(x) : IsRead(acts[i])}}
      p7 == {p \in W \X W : FencesOrder(F, p[1], p[2])}
  IN  {p \in coherence \cup rmw \cup sc \cup reads \cup p7 : p[1] # p[2]}

Closure(R, S) ==
  FoldSet(LAMBDA k, acc : acc \cup {p \in S \X S : <<p[1], k>> \in acc /\ <<k, p[2]>> \in acc}, R, S)

AcyclicRel(R, S) == \A p \in Closure(R, S) : p[1] # p[2]

(***************************************************************************)
(* A modification order exists iff the constraints are still acyclic when  *)
(* every chain of RMWs is contracted to the store it starts from (nothing  *)
(* fits between an RMW and the store it reads), the chains do not branch   *)
(* and constraints inside a chain point forward.                           *)
(***************************************************************************)
ChainRoot(w) == Min(RMWChain(w))

ChainConstraints(x) ==
  {q \in {<<ChainRoot(p[1]), ChainRoot(p[2])>> : p \in MoConstraints(x)} : q[1] # q[2]}

ModificationOrderExists(x) ==
  LET W == Writes(x)
      R == {w \in W : IsRMW(acts[w])}
  IN  /\ \A r1, r2 \in R : acts[r1].rf = acts[r2].rf => r1 = r2
      /\ \A p \in MoConstraints(x) :
           ChainRoot(p[1]) = ChainRoot(p[2]) => p[1] \in RMWChain(p[2])
      /\ AcyclicRel(ChainConstraints(x), W)

\* The pairs that every modification order of x has: a store of the RMW chain
\* that leads to another, and the stores of two chains that are ordered
MoForced(x) ==
  LET W == Writes(x)
      C == Closure(ChainConstraints(x), W)
  IN  {p \in W \X W : \/ p[1] # p[2] /\ p[1] \in RMWChain(p[2])
                      \/ <<ChainRoot(p[1]), ChainRoot(p[2])>> \in C}

-----------------------------------------------------------------------------
(* Properties *)

ActionTypes == {"read", "write", "rmw", "init", "nonatomic", "fence",
                "create", "start", "join", "finish"}

\* Type invariant: the state of an execution is well formed; a read's rf is an
\* earlier entry of the table.
TypeOK ==
  /\ seq_num \in Nat /\ crashed \in BOOLEAN
  /\ nonatomic \in [Loc -> BOOLEAN]
  /\ acq_fence \in [Thread -> Vector]
  /\ \A i \in Ids :
       /\ acts[i].type \in ActionTypes /\ acts[i].order \in Orders
       /\ acts[i].tid \in Thread /\ acts[i].seq \in 0..seq_num
       /\ acts[i].cv \in Vector /\ acts[i].rfcv \in Vector \cup {NoVector}
       /\ acts[i].rf \in 0..(i-1) /\ acts[i].lfr \in 0..(i-1)
  /\ \A n \in DOMAIN mo_graph :
       /\ n \in Ids /\ IsWrite(acts[n])
       /\ mo_graph[n].edges \subseteq DOMAIN mo_graph
       /\ mo_graph[n].rmw \in DOMAIN mo_graph \cup {NoNode}
       /\ mo_graph[n].cv \in Vector

\* The clock vectors that read_from, process_fence and process_thread_action
\* maintain decide happens-before exactly: an action's vector has seen another
\* action iff program order and synchronizes-with lead from one to the other,
\* where a release sequence goes on through RMWs only (ReleaseSources).
HappensBeforeExact ==
  LET h == Hb
  IN  \A i, j \in Ids :
        (i # j /\ acts[i].type # "nonatomic") => (HappensBefore(acts[i], acts[j]) <=> i \in h[j])

\* A vector that get_hb_from_write cached in rfcv is still, whatever happened
\* since, the join of the vectors of everything that releases through the store.
CachedHbFresh ==
  \A i \in Ids : acts[i].rfcv # NoVector =>
    LET C    == RMWChain(i)
        srcs == {k \in Ids : \/ k \in C /\ IsRelease(acts[k])
                             \/ IsFence(acts[k]) /\ IsRelease(acts[k]) /\ \E x \in C : Sb(k, x)}
    IN  acts[i].rfcv = [t \in Thread |-> Max({0} \cup {acts[k].cv[t] : k \in srcs})]

\* Every read that process_read let through is explained by a modification
\* order: coherence, RMW atomicity and the seq_cst fence rules hold together.
Consistent == \A x \in Loc : ModificationOrderExists(x)

\* The graph's clock vectors answer checkReachable exactly: a store reaches
\* another iff the memory model forces it earlier in modification order.  RMW
\* atomicity is part of that: what follows the store an RMW reads follows the
\* RMW, which is why addRMWEdge moves the store's edges to the RMW.
ReachabilityExact ==
  \A x \in Loc :
    LET F == MoForced(x)
    IN  \A a, b \in Writes(x) :
          a # b => (CheckReachable(mo_graph, a, b) <=> <<a, b>> \in F)

\* "Only one RMW action can read from a given write" (cyclegraph.cc:103), which
\* build_may_read_from has to guarantee before addRMWEdge is called: setRMW keeps
\* the first RMW and silently drops a second one.
OneRMWPerStore ==
  \A i \in Ids : IsRMW(acts[i]) => mo_graph[acts[i].rf].rmw = i

\* "No write can occur in between the rmw and from actions" (cyclegraph.cc:102):
\* the graph orders no third store after the one an RMW reads and before the RMW.
\* A store that already followed the one read is moved behind the RMW, so that no
\* later load can put it in front.
NothingBetweenRMW ==
  \A i \in Ids : IsRMW(acts[i]) =>
    \A w \in DOMAIN mo_graph \ {i, acts[i].rf} :
      ~(CheckReachable(mo_graph, acts[i].rf, w) /\ CheckReachable(mo_graph, w, i))

\* "@return True, from can reach to; otherwise, false" (cyclegraph.cc:280):
\* checkReachable answers true for the two ends of every edge.
EdgesReachable ==
  \A a \in DOMAIN mo_graph : \A b \in mo_graph[a].edges : CheckReachable(mo_graph, a, b)

GraphEdges == UNION { {n} \X mo_graph[n].edges : n \in DOMAIN mo_graph }

\* "This graph should never contain any cycles, as that represents a violation
\* of the memory model" (execution.h:195).
GraphAcyclic == AcyclicRel(GraphEdges, DOMAIN mo_graph)

\* process_read always finds a store to read: selectWrite is never called on an
\* empty set, so an execution never dies dividing by zero.
ReadAlwaysFeasible == ~crashed

\* 29.3p3, which build_may_read_from applies when it filters candidates: a
\* seq_cst read takes the last seq_cst store, or a store that is not seq_cst
\* and does not happen before it.
SeqCstReadsLast ==
  LET h == Hb
  IN  \A r \in Ids : (IsRead(acts[r]) /\ IsSeqCst(acts[r])) =>
        LET S    == {w \in Writes(acts[r].loc) : IsSeqCst(acts[w]) /\ w < r}
            rf   == acts[r].rf
        IN  S # {} => \/ rf = Max(S)
                      \/ ~IsSeqCst(acts[rf]) /\ rf \notin h[Max(S)]

\* 29.3p5 as doc/notes/fence.txt writes it: if W is sequenced before a seq_cst
\* fence that precedes the seq_cst read B, and B reads A, W is ordered before A.
FencedStoreObserved ==
  \A b \in Ids : (IsRead(acts[b]) /\ IsSeqCst(acts[b])) =>
    \A w \in Writes(acts[b].loc) \ {acts[b].rf} :
      (\E X \in SCFences : Sb(w, X) /\ X < b) => CheckReachable(mo_graph, w, acts[b].rf)

\* 1.10.7 as doc/notes/release-sequence.txt quotes it: a later store of the
\* releasing thread is in the release sequence, so an acquire that reads it
\* synchronises with the release store.
ReleaseSequenceSynchronises ==
  \A r \in Ids : (IsRead(acts[r]) /\ IsAcquire(acts[r])) =>
    \A h \in Writes(acts[r].loc) :
      (/\ IsRelease(acts[h]) /\ Sb(h, acts[r].rf)
       /\ \A v \in Writes(acts[r].loc) : acts[v].tid = acts[h].tid \/ HappensBefore(acts[v], acts[h]))
      => HappensBefore(acts[h], acts[r])

\* An ordering between stores, once checkReachable reports it, is never
\* retracted: the vectors of the nodes only grow, whatever happens to the edges.
OrderingKept ==
  [][\A a, b \in DOMAIN mo_graph :
       CheckReachable(mo_graph, a, b) => CheckReachable(mo_graph', a, b)]_vars
=============================================================================
