----------------------------- MODULE Collector -----------------------------
(***************************************************************************)
(* The trace collector (ModelExecution::collectActions), which a long      *)
(* execution runs every CheckThreshold actions to free what no thread can  *)
(* see any more (options -m, -f and -r).                                   *)
(*                                                                         *)
(* An action keeps its index in acts when it is deleted: gone is the set   *)
(* of deleted actions.  A deleted action is taken off every list but its   *)
(* owner may still be asked for it, so its type, thread and vector stay.   *)
(* READY_FREE is the type "free".  hist is acts as it would be had nothing *)
(* ever been collected.  Programs initialise every location (ATOMIC_INIT), *)
(* so the trace is in the order of the indices.  Mutexes are left out.     *)
(***************************************************************************)
EXTENDS MemoryModel

CONSTANTS
  TraceMinSize,     \* params->traceminsize
  CheckThreshold    \* params->checkthreshold

ASSUME SizesAssumption == TraceMinSize \in Nat \ {0} /\ CheckThreshold \in Nat \ {0}

VARIABLES
  removevisible, \* params->removevisible: the option -r
  checkfree,  \* collect when the sequence number has passed this
  swept,      \* has this round of the main loop already collected?
  gone,       \* the deleted actions
  hist        \* the actions, nothing deleted (auxiliary)

collectorVars == <<removevisible, checkfree, swept, gone, hist>>
allVars == <<vars, collectorVars>>

Trace == Ids \ gone

\* Entry past the end of a vector: the vector's owner has met no such thread
NumThreads(cv) == 1 + Max({0} \cup {t \in Thread : cv[t] > 0})

\* minmerge: the entries past the end of cv are left alone
MinMerge(cvmin, cv) ==
  [t \in Thread |-> IF t < NumThreads(cv) /\ cv[t] < cvmin[t] THEN cv[t] ELSE cvmin[t]]

LiveThreads == {t \in Thread \ {0} : Started(t) /\ ~Finished(t)}

\* Faulty variant: a thread's own vector is as good as any
ComputeMinimalCVFirst == ParentCV(acts, Min(LiveThreads))

ComputeMinimalCV ==
  LET MinWith(cv, t) == CASE t \notin LiveThreads -> cv
                          [] t \in LiveThreads /\ cv = NoVector -> ParentCV(acts, t)
                          [] OTHER -> MinMerge(cv, ParentCV(acts, t))
  IN  FoldLeft(MinWith, NoVector, [t \in 1..Max(Thread) |-> t])

-----------------------------------------------------------------------------
(* What to free: the stores before one that every thread has seen *)

\* Faulty variant: the walk follows the edges forwards
Successors(g, S) ==
  LET Out(T) == UNION {g[n].edges : n \in T \cap DOMAIN g}
      reach[k \in 0..Cardinality(DOMAIN g)] == IF k = 0 THEN Out(S) ELSE reach[k-1] \cup Out(reach[k-1])
  IN  reach[Cardinality(DOMAIN g)]

Predecessors(g, S) ==
  LET In(T) == {n \in DOMAIN g : g[n].edges \cap T # {}}
      reach[k \in 0..Cardinality(DOMAIN g)] == IF k = 0 THEN In(S) ELSE reach[k-1] \cup In(reach[k-1])
  IN  reach[Cardinality(DOMAIN g)]

Old(i) == acts[i].seq <= seq_num - TraceMinSize

\* The stores from which marking starts
Roots(cvmin) ==
  {StoreOf(acts, i) : i \in {j \in Trace : /\ Old(j)
                                           /\ IsRead(acts[j]) \/ IsWrite(acts[j])
                                           /\ acts[j].seq <= cvmin[acts[j].tid] \/ removevisible}}

Marked(cvmin) == Predecessors(mo_graph, Roots(cvmin))

MarkFree(A, S) == [i \in DOMAIN A |-> IF i \in S THEN [A[i] EXCEPT !.type = "free"] ELSE A[i]]

-----------------------------------------------------------------------------
(* What to delete.  A is the table after marking, cut the first action that *)
(* is not old: the window of old actions ends with it.                      *)

ReadsFreed(A, i) == IsRead(A[i]) /\ A[A[i].rf].type = "free"

IsLastAct(A, i) == i = LastAction(A, A[i].tid) /\ ~Finished(A[i].tid)

DeadFence(A, i, cvmin) == A[i].seq <= cvmin[A[i].tid]

Deleted(A, i, cut, cvmin) ==
  LET a == A[i]
  IN  \/ ReadsFreed(A, i) /\ ~IsRMW(a)
      \/ /\ i <= cut /\ ~IsRead(a) /\ ~IsWrite(a)
         /\ \/ a.type = "free"
            \/ /\ ~IsLastAct(A, i)
               /\ CASE IsFence(a) -> DeadFence(A, i, cvmin)
                    [] a.type = "create" -> Finished(a.val)
                    [] OTHER -> TRUE

\* removeAction: off every list
Unlisted(a) == [a EXCEPT !.listed = FALSE, !.loc = "none", !.order = "relaxed"]

\* Faulty variant: every reference to a release fence is dropped
KeptNoFences(A, i, cvmin) ==
  [A[i] EXCEPT !.type = IF ReadsFreed(A, i) THEN "write" ELSE @, !.lfr = None]


\* An action that stays: an RMW that read a freed store becomes a store, and a
\* release fence that all have seen is forgotten
Kept(A, i, cvmin) ==
  [A[i] EXCEPT !.type = IF ReadsFreed(A, i) THEN "write" ELSE @,
               !.lfr  = IF @ # None /\ A[@].seq <= cvmin[A[@].tid] THEN None ELSE @]

\* fixupLastAct: a no-op stands in for the last action of a live thread
Fixup(A, act) ==
  LET n == 1 + Max({A[i].seq : i \in DOMAIN A})
  IN  Append(A, [act EXCEPT !.type = "nop", !.seq = n, !.loc = "none", !.order = "seq_cst",
                            !.rf = None, !.listed = FALSE, !.rfcv = NoVector,
                            !.cv = NewVector(@, act.tid, n)])

Fixups(A, S) ==
  FoldLeft(LAMBDA acc, i : IF i \in S /\ IsLastAct(A, i) THEN Fixup(acc, A[i]) ELSE acc,
           A, [k \in DOMAIN A |-> Len(A) + 1 - k])

\* CycleGraph::freeAction
FreeActions(g, S) ==
  [n \in DOMAIN g \ S |-> [g[n] EXCEPT !.edges = @ \ S]]

Collect(cvmin, A) ==
  LET cut  == Min({i \in Trace : ~Old(i)})
      dead == {i \in Trace : Deleted(A, i, cut, cvmin)}
      kept == [i \in DOMAIN A |-> IF i \in gone THEN A[i]
                                  ELSE IF i \in dead THEN Unlisted(A[i]) ELSE Kept(A, i, cvmin)]
      new  == SubSeq(Fixups(A, dead), Len(A) + 1, Len(Fixups(A, dead)))
  IN  /\ acts' = kept \o new
      /\ hist' = hist \o new
      /\ gone' = gone \cup dead
      /\ mo_graph' = FreeActions(mo_graph, {i \in dead : A[i].type = "free"})
      /\ seq_num' = seq_num + Len(new)

\* collectActions, from the top of startRunExecution's loop
CollectActions ==
  /\ checkfree' = checkfree + CheckThreshold
  /\ swept' = TRUE
  /\ UNCHANGED <<acq_fence, nonatomic, prog, crashed, removevisible>>
  /\ IF seq_num < TraceMinSize THEN UNCHANGED <<acts, hist, gone, mo_graph, seq_num>>
     ELSE \E cvmin \in {ComputeMinimalCV} : Collect(cvmin, MarkFree(acts, Marked(cvmin)))

-----------------------------------------------------------------------------
\* A step would follow a pointer to nothing: the scan of a list meets a store
\* that is marked but not deleted, and takes it for a read.
MeetsFreed(t) ==
  /\ Pending(t).kind \in {"load", "store", "rmw", "cas", "init"}
  /\ \E u \in Thread : LET S == {i \in ThreadList(acts, Pending(t).loc, u) :
                                    acts[i].seq <= ParentCV(acts, t)[u]}
                       IN  S # {} /\ acts[Max(S)].type = "free"

Due == seq_num > checkfree /\ ~swept /\ Chosen # {}

CollectorInit ==
  /\ Init
  /\ checkfree \in 0..CheckThreshold       \* the constructor does not set it
  /\ removevisible \in BOOLEAN
  /\ swept = FALSE /\ gone = {} /\ hist = acts

Step ==
  /\ ~Due
  /\ \A t \in Chosen : ~MeetsFreed(t)
  /\ Next
  /\ swept' = FALSE
  /\ hist' = hist \o SubSeq(acts', Len(acts) + 1, Len(acts'))
  /\ UNCHANGED <<checkfree, gone, removevisible>>

CollectorNext == (Due /\ CollectActions) \/ Step

CollectorSpec == CollectorInit /\ [][CollectorNext]_allVars

-----------------------------------------------------------------------------
(* Properties *)

Full == INSTANCE MemoryModel WITH acts <- hist

\* The collector never lets a read through that the memory model forbids: the
\* uncollected trace still has a modification order.
CollectedConsistent == Full!Consistent

\* Nor does it lose or invent synchronisation: the vectors decide happens-before
\* on the uncollected trace.
CollectedHbExact == Full!HappensBeforeExact


\* The last action of a thread is there when it is next asked for: by the thread
\* itself, or by the thread that joins it.
LastActionKept ==
  \A t \in Thread \ {0} :
    \/ ~Started(t)
    \/ Finished(t) /\ \A u \in Chosen : Pending(u).kind = "join" => Pending(u).target # t
    \/ LastAction(acts, t) \notin gone

\* "Computes clock vector that all running threads have already synchronized to"
\* (computeMinimalCV).
MinimalCVSeenByAll ==
  LiveThreads # {} => \A t \in LiveThreads : VectorLeq(ComputeMinimalCV, ParentCV(acts, t))

\* No step meets a store that is marked READY_FREE but still on its lists.
FreedNeverMet == \A t \in Chosen : ~MeetsFreed(t)

\* Without -r, collecting takes no choice from any thread: what a load may read
\* next is the same before and after.
ChoicesKept ==
  [][~removevisible /\ CollectActions =>
       \A t \in LiveThreads, x \in Loc, o \in {"relaxed", "seq_cst"} :
         LET op   == [kind |-> "load", loc |-> x, order |-> o, val |-> 0]
             curr == ReadCurr(acts, t, op)
         IN  ReadChoices(acts, mo_graph, curr, op) = ReadChoices(acts', mo_graph', curr, op)]_allVars
=============================================================================
