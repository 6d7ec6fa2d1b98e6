------------------------------- MODULE Execution -------------------------------
(***************************************************************************)
(* One execution of a program under the tool: ModelExecution               *)
(* (execution.cc) processing atomic loads, stores, read-modify-writes,     *)
(* fences and thread creation, start, finish and join, in the order chosen *)
(* by ModelChecker (model.cc).                                             *)
(*                                                                         *)
(* The program under test is a straight-line sequence of operations per    *)
(* thread, drawn from Programs in the initial state.  Thread 0 is the      *)
(* model thread (it owns the stores that zero-initialise memory), thread 1 *)
(* is main.                                                                *)
(*                                                                         *)
(* acts is the table of all ModelActions in order of creation; an action   *)
(* is named by its index.  The lists and maps of the C++ object that are   *)
(* indexes into the trace (thrd_last_action, thrd_last_fence_release,      *)
(* obj_last_sc_map, obj_map, obj_thrd_map, obj_wr_thrd_map) are operators  *)
(* on acts; the field listed records membership of obj_thrd_map, from      *)
(* which pruned reads are missing.                                         *)
(***************************************************************************)
EXTENDS CycleGraph

CONSTANTS
  Loc,        \* atomic locations
  Programs    \* the programs to run: a set of functions from thread ids to
              \* sequences of operations

Main == 1
None == 0

\* Thread ids are numbers, finitely many; the model thread and main always exist
ASSUME ThreadAssumption == Thread \subseteq Nat /\ IsFiniteSet(Thread) /\ {0, Main} \subseteq Thread

NoVector == <<>>

Orders == {"relaxed", "acquire", "release", "acq_rel", "seq_cst"}

VARIABLES
  acts,       \* the actions
  mo_graph,   \* the modification-order graph
  seq_num,    \* priv->used_sequence_numbers
  acq_fence,  \* per thread, the vector an acquire fence will merge
  nonatomic,  \* per location, does its shadow word hold a non-atomic store?
  prog,       \* per thread, the operations still to run
  crashed     \* has selectWrite been called on an empty set?

vars == <<acts, mo_graph, seq_num, acq_fence, nonatomic, prog, crashed>>

-----------------------------------------------------------------------------
(* Predicates of ModelAction *)

Ids == DOMAIN acts

IsRead(a)    == a.type \in {"read", "rmw"}
IsWrite(a)   == a.type \in {"write", "rmw", "init", "nonatomic"}
IsRMW(a)     == a.type = "rmw"
WasWrite(a)  == IsWrite(a) \/ a.type = "free"    \* is_free: a write that may be collected
IsFence(a)   == a.type = "fence"
IsSeqCst(a)  == a.order = "seq_cst"
IsAcquire(a) == a.order \in {"acquire", "acq_rel", "seq_cst"}
IsRelease(a) == a.order \in {"release", "acq_rel", "seq_cst"}

\* happens_before
HappensBefore(a, b) == SynchronizedSince(b.cv, a.tid, a.seq)

\* The greatest id with property P, None if there is none
LastId(A, P(_)) ==
  LET S == {i \in DOMAIN A : P(A[i])} IN IF S = {} THEN None ELSE Max(S)

\* get_last_action, get_last_fence_release, get_last_seq_cst_write
LastAction(A, t)       == LastId(A, LAMBDA a : a.tid = t)
LastFenceRelease(A, t) == LastId(A, LAMBDA a : a.tid = t /\ IsFence(a) /\ IsRelease(a))
LastSeqCstWrite(A, x)  == LastId(A, LAMBDA a : a.loc = x /\ WasWrite(a) /\ IsSeqCst(a))

\* get_last_seq_cst_fence: the last one of thread t, before fence f if given
LastSeqCstFence(A, t, f) ==
  LastId(A, LAMBDA a : /\ a.tid = t /\ IsFence(a) /\ IsSeqCst(a)
                       /\ f # None => a.seq < A[f].seq)

\* get_parent_action, for a thread whose START is already in the trace
ParentCV(A, t) == A[LastAction(A, t)].cv

\* initialize_curr_action: a new action of thread t, its vector and its fence
NewAction(A, t, type, x, order, val) ==
  [type |-> type, tid |-> t, seq |-> seq_num + 1, loc |-> x, order |-> order,
   val  |-> val, rf |-> None, listed |-> FALSE, rfcv |-> NoVector,
   cv   |-> NewVector(ParentCV(A, t), t, seq_num + 1),
   lfr  |-> LastFenceRelease(A, t)]

-----------------------------------------------------------------------------
(* Reads *)

\* The ids on thread t's list of obj_thrd_map[x]
ThreadList(A, x, t) == {i \in DOMAIN A : A[i].listed /\ A[i].loc = x /\ A[i].tid = t}

\* The writes on thread t's list of obj_wr_thrd_map[x]
WriteList(A, x, t) == {i \in DOMAIN A : WasWrite(A[i]) /\ A[i].loc = x /\ A[i].tid = t}

(***************************************************************************)
(* convertNonAtomicStore, for memory that no instrumented store has        *)
(* touched: its shadow word is 0, so the store is by thread 0 at clock 0.  *)
(* Nothing happens before it, hence w_modification_order adds no edge.     *)
(***************************************************************************)
ZeroStore(x) ==
  [type |-> "nonatomic", tid |-> 0, seq |-> 0, loc |-> x, order |-> "relaxed",
   val  |-> 0, rf |-> None, listed |-> TRUE, rfcv |-> NoVector,
   cv   |-> ZeroVector, lfr |-> None]

ConvertNonAtomicStore(A, x) == IF nonatomic[x] THEN Append(A, ZeroStore(x)) ELSE A

(***************************************************************************)
(* build_may_read_from: per thread, the writes back to the last one that   *)
(* happens before the read, less those that a seq_cst read or a second RMW *)
(* may not read.  op is the operation that reads.                          *)
(***************************************************************************)
SecondRMW(A, g, op, i) ==
  /\ op.kind = "rmw" \/ (op.kind = "cas" /\ op.exp = A[i].val)
  /\ i \in DOMAIN g /\ g[i].rmw # NoNode

\* Faulty variant: the seq_cst filter is missing
AllowReadAnySeqCst(A, g, curr, op, i) == ~SecondRMW(A, g, op, i)

AllowRead(A, g, curr, op, i) ==
  LET last == LastSeqCstWrite(A, curr.loc)
  IN  /\ ~ /\ IsSeqCst(curr) /\ i # last
           /\ IsSeqCst(A[i]) \/ (last # None /\ HappensBefore(A[i], A[last]))
      /\ ~SecondRMW(A, g, op, i)

\* Faulty variant: the scan stops before the write that happens before the read
MayReadFromExclusive(A, g, curr, op) ==
  {i \in UNION {WriteList(A, curr.loc, t) : t \in Thread} :
     /\ ~\E j \in WriteList(A, curr.loc, A[i].tid) : j >= i /\ HappensBefore(A[j], curr)
     /\ AllowRead(A, g, curr, op, i)}

MayReadFrom(A, g, curr, op) ==
  {i \in UNION {WriteList(A, curr.loc, t) : t \in Thread} :
     /\ ~\E j \in WriteList(A, curr.loc, A[i].tid) : j > i /\ HappensBefore(A[j], curr)
     /\ AllowRead(A, g, curr, op, i)}

(***************************************************************************)
(* r_modification_order: what reading rf forces on the modification order. *)
(* Each thread contributes at most one store, found on its list from the   *)
(* most recent action back.                                                *)
(***************************************************************************)
\* Faulty variant: only the fences of statement 4 are looked at
FenceOrdersReadPartly(A, curr, lf, t, a) ==
  IsWrite(a) /\ IsSeqCst(a) /\ lf # None /\ a.seq < A[lf].seq

\* statements 5, 4 and 6 of 29.3: write a of thread t is ordered before curr
\* by seq_cst fences.  lf is the last such fence of curr's thread.
FenceOrdersRead(A, curr, lf, t, a) ==
  LET tf     == IF t = curr.tid THEN None ELSE LastSeqCstFence(A, t, None)
      before == IF lf = None THEN None ELSE LastSeqCstFence(A, t, lf)
  IN  /\ IsWrite(a)
      /\ \/ IsSeqCst(curr) /\ tf # None /\ a.seq < A[tf].seq
         \/ IsSeqCst(a) /\ lf # None /\ a.seq < A[lf].seq
         \/ before # None /\ a.seq < A[before].seq

\* The action of thread t at which the backward scan stops
ReadScan(A, curr, rf, lf, t) ==
  LET S == {i \in ThreadList(A, curr.loc, t) :
              \/ HappensBefore(A[i], curr)
              \/ i # rf /\ FenceOrdersRead(A, curr, lf, t, A[i])}
  IN  IF S = {} THEN None ELSE Max(S)

\* The store that the action met by a scan puts before the current one
StoreOf(A, i) == IF IsWrite(A[i]) THEN i ELSE A[i].rf

\* prev_same_thread: lets the scan of a thread be skipped
PrevSameThread(A, curr, rf, lf) ==
  LET i == ReadScan(A, curr, rf, lf, curr.tid)
  IN  IF i \notin {None, rf} /\ (lf = None \/ A[lf].seq < A[i].seq) THEN i ELSE None

SkipThread(A, curr, prev, t) ==
  LET tf == LastSeqCstFence(A, t, None)
  IN  /\ t # curr.tid /\ prev # None
      /\ A[prev].cv[t] = curr.cv[t]
      /\ tf = None \/ A[tf].seq < A[prev].seq

\* The threads in the order they are visited: curr's own first
ThreadOrder(first) ==
  LET n == Cardinality(Thread) IN [k \in 1..n |-> (first + k - 1) % n]

PriorSet(A, curr, rf) ==
  LET lf   == LastSeqCstFence(A, curr.tid, None)
      prev == PrevSameThread(A, curr, rf, lf)
      Scan(t) == IF SkipThread(A, curr, prev, t) THEN None ELSE ReadScan(A, curr, rf, lf, t)
      Adds(t) == LET i == Scan(t)
                 IN  IF i = None \/ i = rf \/ StoreOf(A, i) = rf THEN <<>> ELSE <<StoreOf(A, i)>>
  IN  FoldLeft(LAMBDA acc, t : acc \o Adds(t), <<>>, ThreadOrder(curr.tid))

\* r_modification_order returns false when rf already precedes such a store
ReadFeasible(A, g, curr, rf) ==
  \A p \in Range(PriorSet(A, curr, rf)) : ~CheckReachable(g, rf, p)

\* canprune: the thread's previous access was a read of the same store
CanPrune(A, curr, rf) ==
  LET i == ReadScan(A, curr, rf, LastSeqCstFence(A, curr.tid, None), curr.tid)
  IN  i # None /\ ~IsWrite(A[i]) /\ A[i].rf = rf

(***************************************************************************)
(* get_hb_from_write: the vector a reader of store i acquires, through the *)
(* chain of RMWs that ends in i.  The vectors computed on the way are kept *)
(* in rfcv.                                                                *)
(***************************************************************************)
HbFromWrite(A, w) ==
  LET hb[i \in DOMAIN A] ==
        LET a    == A[i]
            prev == IF IsRMW(a) THEN hb[a.rf] ELSE ZeroVector
        IN  IF a.rfcv # NoVector THEN a.rfcv
            ELSE IF IsRelease(a) /\ (IsAcquire(a) \/ ~IsRMW(a)) THEN a.cv
            ELSE IF IsRelease(a) THEN Merge(prev, a.cv)
            ELSE IF a.lfr # None THEN Merge(prev, A[a.lfr].cv)
            ELSE prev
  IN  hb[w]

\* The links of w's RMW chain whose vector is computed, and then cached
ChainToCache(A, w) ==
  LET Stop(a) == a.rfcv # NoVector \/ ~IsRMW(a) \/ (IsAcquire(a) /\ IsRelease(a))
      chain[i \in DOMAIN A] == IF Stop(A[i]) THEN {i} ELSE {i} \cup chain[A[i].rf]
  IN  {i \in chain[w] : /\ A[i].rfcv = NoVector
                        /\ ~(IsRelease(A[i]) /\ (IsAcquire(A[i]) \/ ~IsRMW(A[i])))
                        /\ IsRMW(A[i]) \/ A[i].lfr # None}

CacheHb(A, w) ==
  LET C == ChainToCache(A, w)
  IN  [i \in DOMAIN A |-> IF i \in C THEN [A[i] EXCEPT !.rfcv = HbFromWrite(A, i)] ELSE A[i]]

-----------------------------------------------------------------------------
(* Writes *)

\* statement 7 of 29.3: write a of thread t precedes curr by two fences
FenceOrdersWrite(A, curr, t, a) ==
  LET lf     == LastSeqCstFence(A, curr.tid, None)
      before == IF lf = None \/ t = curr.tid THEN None ELSE LastSeqCstFence(A, t, lf)
  IN  before # None /\ IsWrite(a) /\ a.seq < A[before].seq

\* The action at which the scan of thread t's list stops, c being the new write
WriteScan(A, c, t) ==
  LET S == {i \in ThreadList(A, A[c].loc, t) :
              IF i = c THEN IsRMW(A[c])
              ELSE HappensBefore(A[i], A[c]) \/ FenceOrdersWrite(A, A[c], t, A[i])}
  IN  IF S = {} THEN None ELSE Max(S)

(***************************************************************************)
(* w_modification_order: the last seq_cst store of the location comes      *)
(* first when c is seq_cst, then one store per thread in thread order.     *)
(***************************************************************************)
WModificationOrder(A, g, c) ==
  LET last    == LastSeqCstWrite(SubSeq(A, 1, Len(A) - 1), A[c].loc)
      sc      == IF IsSeqCst(A[c]) /\ last # None THEN <<last>> ELSE <<>>
      Adds(t) == LET i == WriteScan(A, c, t)
                 IN  IF i \in {None, c} THEN <<>> ELSE <<StoreOf(A, i)>>
      edgeset == FoldLeft(LAMBDA acc, t : acc \o Adds(t), sc, ThreadOrder(0))
  IN  AddEdges(g, A, edgeset, c)

-----------------------------------------------------------------------------
(* Scheduling *)

Started(t)  == LastAction(acts, t) # None
Finished(t) == Started(t) /\ acts[LastAction(acts, t)].type = "finish"

\* The operation a thread is about to perform; a thread that ran out finishes
Finish == [kind |-> "finish", loc |-> "none", order |-> "seq_cst"]
Pending(t) == IF prog[t] = <<>> THEN Finish ELSE Head(prog[t])

\* check_action_enabled: a join waits for its thread
Enabled(t) ==
  /\ t # 0 /\ Started(t) /\ ~Finished(t)
  /\ Pending(t).kind = "join" => Finished(Pending(t).target)

\* getNextThread lets pending relaxed and release stores, thread creations and
\* finishes perform first, lowest thread id first
Prioritised(t) ==
  \/ Pending(t).kind \in {"create", "finish"}
  \/ Pending(t).kind \in {"store", "init"} /\ Pending(t).order \in {"relaxed", "release"}

\* The threads that may take the next step; main's finish ends the execution
Chosen ==
  LET E == {t \in Thread : Enabled(t)}
      P == {t \in E : Prioritised(t)}
  IN  IF crashed \/ Finished(Main) THEN {} ELSE IF P # {} THEN {Min(P)} ELSE E

\* Thread t runs on to its next operation
Advance(t) == prog' = [prog EXCEPT ![t] = Tail(@)]

-----------------------------------------------------------------------------
(* Steps: check_current_action on each kind of operation *)

\* ATOMIC_WRITE and ATOMIC_INIT; the thread then marks the shadow word atomic
Store(t) ==
  LET op == Pending(t)
      w  == [NewAction(acts, t, IF op.kind = "init" THEN "init" ELSE "write",
                       op.loc, op.order, op.val) EXCEPT !.listed = TRUE]
      A  == Append(acts, w)
  IN  /\ op.kind \in {"store", "init"}
      /\ acts' = A
      /\ mo_graph' = WModificationOrder(A, mo_graph, Len(A))
      /\ seq_num' = seq_num + 1
      /\ nonatomic' = [nonatomic EXCEPT ![op.loc] = FALSE]
      /\ Advance(t)
      /\ UNCHANGED <<acq_fence, crashed>>

(***************************************************************************)
(* process_read on operation op, reading store rf: the edges to rf, the    *)
(* synchronisation of an acquire and the acquire-fence vector.  A is the   *)
(* table with the zero store of the location already converted.            *)
(***************************************************************************)
ReadCurr(A, t, op) == NewAction(A, t, "read", op.loc, op.order, 0)

ReadFrom(A, curr, rf) ==
  [curr EXCEPT !.rf = rf,
               !.cv = IF IsAcquire(curr) THEN Merge(@, HbFromWrite(A, rf)) ELSE @]

ReadEdges(A, g, curr, rf) ==
  FoldLeft(LAMBDA acc, p : AddEdge(acc, A, p, rf, FALSE), g, PriorSet(A, curr, rf))

ReadChoices(A, g, curr, op) ==
  {i \in MayReadFrom(A, g, curr, op) : ReadFeasible(A, g, curr, i)}

\* The parts of the state every read changes alike
ReadEffects(t, op, A, rf) ==
  /\ acq_fence' = [acq_fence EXCEPT ![t] = Merge(@, HbFromWrite(A, rf))]
  /\ seq_num' = seq_num + 1
  /\ nonatomic' = [nonatomic EXCEPT ![op.loc] = FALSE]
  /\ Advance(t)
  /\ UNCHANGED crashed

\* ATOMIC_READ
Load(t) ==
  LET op   == Pending(t)
      A    == ConvertNonAtomicStore(acts, op.loc)
      curr == ReadCurr(A, t, op)
  IN  /\ op.kind = "load"
      /\ \E rf \in ReadChoices(A, mo_graph, curr, op) :
           /\ acts' = Append(CacheHb(A, rf),
                             [ReadFrom(A, curr, rf) EXCEPT !.listed = ~CanPrune(A, curr, rf)])
           /\ mo_graph' = ReadEdges(A, mo_graph, curr, rf)
           /\ ReadEffects(t, op, A, rf)

\* A compare-and-swap that reads another value (ATOMIC_RMWRCAS, ATOMIC_RMWC)
FailedCAS(t) ==
  LET op   == Pending(t)
      A    == ConvertNonAtomicStore(acts, op.loc)
      curr == ReadCurr(A, t, op)
  IN  /\ op.kind = "cas"
      /\ \E rf \in ReadChoices(A, mo_graph, curr, op) :
           /\ A[rf].val # op.exp
           /\ acts' = Append(CacheHb(A, rf), [ReadFrom(A, curr, rf) EXCEPT !.listed = TRUE])
           /\ mo_graph' = ReadEdges(A, mo_graph, curr, rf)
           /\ ReadEffects(t, op, A, rf)

\* ATOMIC_RMWR or a successful ATOMIC_RMWRCAS, then at once ATOMIC_RMW: the
\* scheduler does not split the two halves
ReadModifyWrite(t) ==
  LET op   == Pending(t)
      A    == ConvertNonAtomicStore(acts, op.loc)
      curr == ReadCurr(A, t, op)
  IN  /\ op.kind \in {"rmw", "cas"}
      /\ \E rf \in ReadChoices(A, mo_graph, curr, op) :
           LET val  == IF op.kind = "rmw" THEN A[rf].val + op.val ELSE op.val
               rmw  == [ReadFrom(A, curr, rf) EXCEPT !.type = "rmw", !.val = val, !.listed = TRUE]
               B    == Append(CacheHb(A, rf), rmw)
               read == ReadEdges(A, mo_graph, curr, rf)
           IN  /\ op.kind = "cas" => A[rf].val = op.exp
               /\ acts' = B
               /\ mo_graph' = WModificationOrder(B, AddRMWEdge(read, B, rf, Len(B)), Len(B))
               /\ ReadEffects(t, op, A, rf)

\* selectWrite on an empty set: random() % 0
ReadCrash(t) ==
  LET op   == Pending(t)
      A    == ConvertNonAtomicStore(acts, op.loc)
  IN  /\ op.kind \in {"load", "rmw", "cas"}
      /\ ReadChoices(A, mo_graph, ReadCurr(A, t, op), op) = {}
      /\ crashed' = TRUE
      /\ UNCHANGED <<acts, mo_graph, seq_num, acq_fence, nonatomic, prog>>

\* process_fence
Fence(t) ==
  LET op == Pending(t)
      f  == NewAction(acts, t, "fence", "fence", op.order, 0)
  IN  /\ op.kind = "fence"
      /\ acts' = Append(acts, [f EXCEPT !.cv = IF IsAcquire(f) THEN Merge(@, acq_fence[t]) ELSE @])
      /\ seq_num' = seq_num + 1
      /\ Advance(t)
      /\ UNCHANGED <<mo_graph, acq_fence, nonatomic, crashed>>

\* THREAD_CREATE, after which the new thread at once performs its THREAD_START.
\* Thread bounds the number of threads.
Create(t) ==
  LET u == Max({v \in Thread : Started(v)}) + 1
      c == NewAction(acts, t, "create", "thread", "seq_cst", u)
      s == [c EXCEPT !.type = "start", !.tid = u, !.seq = seq_num + 2,
                     !.cv = NewVector(c.cv, u, seq_num + 2), !.lfr = None]
  IN  /\ Pending(t).kind = "create" /\ u \in Thread
      /\ acts' = Append(Append(acts, c), s)
      /\ seq_num' = seq_num + 2
      /\ Advance(t)
      /\ UNCHANGED <<mo_graph, acq_fence, nonatomic, crashed>>

\* Faulty variant: the join takes over nothing from the joined thread
JoinUnsynchronised(t) ==
  /\ Pending(t).kind = "join"
  /\ acts' = Append(acts, NewAction(acts, t, "join", "thread", "seq_cst", Pending(t).target))
  /\ seq_num' = seq_num + 1
  /\ Advance(t)
  /\ UNCHANGED <<mo_graph, acq_fence, nonatomic, crashed>>

\* THREAD_JOIN synchronises with the last action of the joined thread
Join(t) ==
  LET j == NewAction(acts, t, "join", "thread", "seq_cst", Pending(t).target)
  IN  /\ Pending(t).kind = "join"
      /\ acts' = Append(acts, [j EXCEPT !.cv = Merge(@, ParentCV(acts, Pending(t).target))])
      /\ seq_num' = seq_num + 1
      /\ Advance(t)
      /\ UNCHANGED <<mo_graph, acq_fence, nonatomic, crashed>>

\* THREAD_FINISH
FinishThread(t) ==
  /\ Pending(t).kind = "finish"
  /\ acts' = Append(acts, NewAction(acts, t, "finish", "thread", "seq_cst", 0))
  /\ seq_num' = seq_num + 1
  /\ UNCHANGED <<mo_graph, acq_fence, nonatomic, prog, crashed>>

-----------------------------------------------------------------------------
\* The trace starts with main's THREAD_START; all memory is zero-initialised
MainStart ==
  [type |-> "start", tid |-> Main, seq |-> 1, loc |-> "thread", order |-> "seq_cst",
   val  |-> 0, rf |-> None, listed |-> FALSE, rfcv |-> NoVector,
   cv   |-> NewVector(ZeroVector, Main, 1), lfr |-> None]

Init ==
  /\ acts = <<MainStart>>
  /\ mo_graph = <<>>
  /\ seq_num = 1
  /\ acq_fence = [t \in Thread |-> ZeroVector]
  /\ nonatomic = [x \in Loc |-> TRUE]
  /\ prog \in Programs
  /\ crashed = FALSE

Next ==
  \E t \in Chosen :
    \/ Store(t) \/ Load(t) \/ ReadModifyWrite(t) \/ FailedCAS(t) \/ ReadCrash(t)
    \/ Fence(t) \/ Create(t) \/ Join(t) \/ FinishThread(t)

Spec == Init /\ [][Next]_vars
=============================================================================
