--------------------------- MODULE OrderingProofs ---------------------------
(***************************************************************************)
(* The modification-order graph of an execution never takes an ordering    *)
(* back, for every program and all numbers of threads: the vectors of its  *)
(* nodes only grow, whatever propagation, chains of RMWs and pruned edges  *)
(* a step goes through.                                                    *)
(***************************************************************************)
EXTENDS HappensBeforeProofs

\* Leaves are proved by Zenon, and by SMT where they need arithmetic, records or sequences
USE Zenon

----------------------------------------------------------------------------
(* The stores that a step orders *)

\* The lists of obj_thrd_map hold reads and writes
ListedOK(A) == \A i \in DOMAIN A : A[i].listed => IsRead(A[i]) \/ IsWrite(A[i])

\* The store of an action on a list is in the table
LEMMA StoreIn ==
  ASSUME NEW A, TableOK(A), ListedOK(A), NEW i \in DOMAIN A, A[i].listed
  PROVE  StoreOf(A, i) \in DOMAIN A
<1>1. CASE IsWrite(A[i])
  BY <1>1 DEF StoreOf
<1>2. CASE ~IsWrite(A[i])
  <2>1. IsRead(A[i])
    BY <1>2 DEF ListedOK
  <2>2. A[i].rf \in 1..(i - 1)
    BY <2>1 DEF TableOK, EntryOK
  <2>3. Len(A) \in Nat /\ DOMAIN A = 1..Len(A)
    BY TableFacts
  <2>4. A[i].rf \in DOMAIN A
    BY SMT, <2>2, <2>3
  <2>5. QED
    BY <1>2, <2>4 DEF StoreOf
<1>3. QED
  BY <1>1, <1>2

\* The last of some ids of a table is one of them
LEMMA LastOf ==
  ASSUME NEW A, IsTable(A), NEW S \in SUBSET DOMAIN A, S # {}
  PROVE  Max(S) \in S
<1>1. Len(A) \in Nat /\ DOMAIN A = 1..Len(A)
  BY DEF IsTable
<1>2. S \in SUBSET Nat /\ \A x \in S : x <= Len(A)
  BY SMTT(30), <1>1
<1>3. QED
  BY <1>1, <1>2, MaxIn

\* The order in which the threads are visited is a finite sequence
LEMMA ThreadOrderLen ==
  ASSUME NEW first
  PROVE  Len(ThreadOrder(first)) \in Nat
<1> DEFINE f == ThreadOrder(first)
           n == Cardinality(Thread)
<1>1. n \in Nat
  BY ThreadAssumption, FS_CardinalityType
<1> HIDE DEF n
<1>2. f = [k \in 1..n |-> f[k]]
  BY DEF ThreadOrder, n
<1> HIDE DEF f
<1>3. Len(f) = n
  BY <1>1, <1>2, FunctionLen
<1>4. QED
  BY <1>1, <1>3 DEF f

\* The stores that r_modification_order collects are in the table
LEMMA PriorSetIn ==
  ASSUME NEW A, TableOK(A), ListedOK(A), NEW curr, NEW rf
  PROVE  PriorSet(A, curr, rf) \in Seq(DOMAIN A)
<1> DEFINE lf   == LastSeqCstFence(A, curr.tid, None)
           prev == PrevSameThread(A, curr, rf, lf)
           Scan(t) == IF SkipThread(A, curr, prev, t) THEN None ELSE ReadScan(A, curr, rf, lf, t)
           Adds(t) == IF Scan(t) = None \/ Scan(t) = rf \/ StoreOf(A, Scan(t)) = rf THEN <<>>
                      ELSE <<StoreOf(A, Scan(t))>>
           order == ThreadOrder(curr.tid)
           Step(x, k) == x \o Adds(order[k])
           S == Seq(DOMAIN A)
           first == <<>>
           n == Len(order)
           Is(f) == f = [k \in 0..n |-> IF k = 0 THEN first ELSE Step(f[k - 1], k)]
<1>1. n \in Nat
  BY ThreadOrderLen
<1>2. first \in S
  BY SMT
<1>3. ASSUME NEW t
      PROVE  Adds(t) \in S
  <2> DEFINE i == Scan(t)
             L == {j \in ThreadList(A, curr.loc, t) :
                     \/ HappensBefore(A[j], curr)
                     \/ j # rf /\ FenceOrdersRead(A, curr, lf, t, A[j])}
  <2>1. i = None \/ (L # {} /\ i = Max(L))
    BY DEF ReadScan
  <2>2. L \in SUBSET DOMAIN A /\ \A j \in L : A[j].listed
    BY DEF ThreadList
  <2> HIDE DEF L
  <2>3. i = None \/ (i \in DOMAIN A /\ A[i].listed)
    <3>1. L # {} => Max(L) \in L
      BY <2>2, LastOf DEF TableOK
    <3>2. QED
      BY <2>1, <2>2, <3>1
  <2> HIDE DEF i
  <2>4. i = None \/ StoreOf(A, i) \in DOMAIN A
    BY <2>3, StoreIn
  <2>5. \A x \in DOMAIN A : <<x>> \in S
    BY SMT
  <2>6. Adds(t) \in {<<>>, <<StoreOf(A, i)>>} /\ (i = None => Adds(t) = <<>>)
    BY DEF i
  <2> HIDE DEF Adds, S
  <2>7. QED
    BY <1>2, <2>4, <2>5, <2>6
<1>4. ASSUME NEW k \in 1..n, NEW x \in S
      PROVE  Step(x, k) \in S
  <2> HIDE DEF Adds, order
  <2>1. QED
    BY <1>3, ConcatIn
<1>5. (CHOOSE f : Is(f))[n] \in S
  <2> DEFINE step == [k \in 1..n |-> [x \in S |-> Step(x, k)]]
             f == CHOOSE f : Is(f)
  <2>1. \A k \in 1..n, x \in S : step[k][x] = Step(x, k) /\ step[k][x] \in S
    BY <1>1, <1>2, <1>4
  <2> HIDE DEF step, Step, S, n, first
  <2>2. PICK h : IsIterate(h, S, first, step, n)
    BY <1>1, <1>2, <1>4, <2>1, IterateExists
  <2>3. \A k \in 0..n : k # 0 => k \in 1..n /\ k - 1 \in 0..n
    BY SMTT(30), <1>1
  <2>4. \A k \in 0..n : h[k] = IF k = 0 THEN first ELSE Step(h[k - 1], k)
    BY <2>1, <2>2, <2>3 DEF IsIterate
  <2>5. h = [k \in 0..n |-> h[k]]
    BY <2>2 DEF IsIterate
  <2>6. Is(h)
    BY <2>4, <2>5
  <2>7. Is(f)
    BY <2>6
  <2> HIDE DEF f
  <2>8. 0 \in 0..n /\ \A k \in 1..n : k \in 0..n /\ k # 0
    BY SMTT(30), <1>1
  <2>9. f[0] = first /\ \A k \in 1..n : f[k] = Step(f[k - 1], k)
    BY <2>7, <2>8
  <2>10. f[0] \in S /\ \A k \in 1..n : f[k - 1] \in S => f[k] \in S
    BY <1>1, <1>2, <1>4, <2>9
  <2>11. f[n] \in S
    BY <1>1, <2>10, IterateStays
  <2>12. QED
    BY <2>11 DEF f
<1>6. PriorSet(A, curr, rf) = (CHOOSE f : Is(f))[n]
  BY DEF PriorSet, FoldLeft
<1>7. QED
  BY <1>5, <1>6

\* The ids of a table are finitely many, and its clocks are bounded
LEMMA TableClocks ==
  ASSUME NEW A, TableOK(A), NEW b, Bounded(A, b)
  PROVE  TableIn(A, DOMAIN A, b) /\ IsFiniteSet(DOMAIN A)
<1>1. Len(A) \in Nat /\ DOMAIN A = 1..Len(A)
  BY TableFacts
<1>2. IsFiniteSet(DOMAIN A)
  <2>1. 1 \in Int /\ Len(A) \in Int
    BY SMTT(30), <1>1
  <2>2. IsFiniteSet(1..Len(A))
    BY <2>1, FS_Interval
  <2>3. QED
    BY <1>1, <2>2
<1>3. ASSUME NEW i \in DOMAIN A
      PROVE  A[i].tid \in Thread /\ A[i].seq \in 0..b
  <2>1. A[i].tid \in Thread /\ A[i].seq \in Nat /\ A[i].seq <= b /\ b \in Nat
    BY DEF TableOK, EntryOK, Bounded
  <2>2. QED
    BY SMTT(30), <2>1
<1>4. QED
  BY <1>2, <1>3 DEF TableIn

\* A table without its last action is a table
LEMMA AllButLast ==
  ASSUME NEW A, IsTable(A), Len(A) # 0
  PROVE  IsTable(SubSeq(A, 1, Len(A) - 1)) /\ DOMAIN SubSeq(A, 1, Len(A) - 1) \subseteq DOMAIN A
<1> DEFINE S == {A[i] : i \in DOMAIN A}
           n == Len(A) - 1
           B == SubSeq(A, 1, n)
<1>1. Len(A) \in Nat /\ DOMAIN A = 1..Len(A)
  BY DEF IsTable
<1>2. n \in Nat /\ n \in Int /\ 1 \in Int /\ \A i \in 1..n : i \in DOMAIN A
  BY SMTT(30), <1>1
<1>3. \A i \in 1..n : A[i] \in S
  BY <1>2
<1> HIDE DEF S, n
<1>4. B \in Seq(S) /\ Len(B) = IF 1 <= n THEN n ELSE 0
  BY <1>2, <1>3, FrontIn
<1> HIDE DEF B
<1>5. Len(B) \in Nat /\ B \in [1..Len(B) -> S] /\ DOMAIN B = 1..Len(B)
  BY <1>4, SeqFacts
<1>6. IsTable(B)
  BY <1>5 DEF IsTable
<1>7. Len(B) = n
  BY SMTT(30), <1>2, <1>4
<1>8. DOMAIN B \subseteq DOMAIN A
  BY <1>2, <1>5, <1>7
<1>9. QED
  BY <1>6, <1>8 DEF B, n

\* r_modification_order's edges
LEMMA ReadEdgesGrow ==
  ASSUME NEW A, TableOK(A), ListedOK(A), NEW b \in Nat, Bounded(A, b),
         NEW g \in Graph(DOMAIN A, b), NEW curr, NEW rf \in DOMAIN A
  PROVE  ReadEdges(A, g, curr, rf) \in GrowsTo(g, DOMAIN A, b)
<1> DEFINE D == DOMAIN A
           s == PriorSet(A, curr, rf)
           Step(x, k) == AddEdge(x, A, s[k], rf, FALSE)
           S == GrowsTo(g, D, b)
           first == g
           n == Len(s)
           Is(f) == f = [k \in 0..n |-> IF k = 0 THEN first ELSE Step(f[k - 1], k)]
<1>1. s \in Seq(D)
  BY PriorSetIn
<1>2. TableIn(A, D, b) /\ IsFiniteSet(D)
  BY TableClocks
<1> HIDE DEF D, s
<1>3. n \in Nat
  BY <1>1, SeqFacts
<1>4. first \in S
  BY GrowsSelf DEF D
<1>5. ASSUME NEW k \in 1..n, NEW x \in S
      PROVE  Step(x, k) \in S
  <2>1. s[k] \in D /\ x \in Graph(D, b) /\ rf \in D
    BY <1>1, ElementIn DEF GrowsTo, D
  <2>2. Step(x, k) \in GrowsTo(x, D, b)
    BY <1>2, <2>1, AddEdgeGrows
  <2>3. QED
    BY <2>2, GrowsOn DEF D
<1>6. (CHOOSE f : Is(f))[n] \in S
  <2> DEFINE step == [k \in 1..n |-> [x \in S |-> Step(x, k)]]
             f == CHOOSE f : Is(f)
  <2>1. \A k \in 1..n, x \in S : step[k][x] = Step(x, k) /\ step[k][x] \in S
    BY <1>3, <1>4, <1>5
  <2> HIDE DEF step, Step, S, n, first
  <2>2. PICK h : IsIterate(h, S, first, step, n)
    BY <1>3, <1>4, <1>5, <2>1, IterateExists
  <2>3. \A k \in 0..n : k # 0 => k \in 1..n /\ k - 1 \in 0..n
    BY SMTT(30), <1>3
  <2>4. \A k \in 0..n : h[k] = IF k = 0 THEN first ELSE Step(h[k - 1], k)
    BY <2>1, <2>2, <2>3 DEF IsIterate
  <2>5. h = [k \in 0..n |-> h[k]]
    BY <2>2 DEF IsIterate
  <2>6. Is(h)
    BY <2>4, <2>5
  <2>7. Is(f)
    BY <2>6
  <2> HIDE DEF f
  <2>8. 0 \in 0..n /\ \A k \in 1..n : k \in 0..n /\ k # 0
    BY SMTT(30), <1>3
  <2>9. f[0] = first /\ \A k \in 1..n : f[k] = Step(f[k - 1], k)
    BY <2>7, <2>8
  <2>10. f[0] \in S /\ \A k \in 1..n : f[k - 1] \in S => f[k] \in S
    BY <1>3, <1>4, <1>5, <2>9
  <2>11. f[n] \in S
    BY <1>3, <2>10, IterateStays
  <2>12. QED
    BY <2>11 DEF f
<1>7. ReadEdges(A, g, curr, rf) = (CHOOSE f : Is(f))[n]
  BY DEF ReadEdges, FoldLeft, s
<1>8. QED
  BY <1>6, <1>7 DEF D

\* w_modification_order's edges
LEMMA WModificationOrderGrows ==
  ASSUME NEW A, TableOK(A), ListedOK(A), NEW b \in Nat, Bounded(A, b),
         NEW g \in Graph(DOMAIN A, b), NEW c \in DOMAIN A
  PROVE  WModificationOrder(A, g, c) \in GrowsTo(g, DOMAIN A, b)
<1> DEFINE B       == SubSeq(A, 1, Len(A) - 1)
           last    == LastSeqCstWrite(B, A[c].loc)
           sc      == IF IsSeqCst(A[c]) /\ last # None THEN <<last>> ELSE <<>>
           Adds(t) == IF WriteScan(A, c, t) \in {None, c} THEN <<>>
                      ELSE <<StoreOf(A, WriteScan(A, c, t))>>
           order   == ThreadOrder(0)
           Step(x, k) == x \o Adds(order[k])
           S == Seq(DOMAIN A)
           first == sc
           n == Len(order)
           Is(f) == f = [k \in 0..n |-> IF k = 0 THEN first ELSE Step(f[k - 1], k)]
<1>1. n \in Nat
  BY ThreadOrderLen
<1>2. <<>> \in S /\ \A x \in DOMAIN A : <<x>> \in S
  BY SMT
<1>3. IsTable(A) /\ Len(A) \in Nat /\ DOMAIN A = 1..Len(A)
  BY TableFacts DEF TableOK
<1>4. first \in S
  <2>1. IsTable(B) /\ DOMAIN B \subseteq DOMAIN A
    <3>1. Len(A) # 0
      BY SMTT(30), <1>3
    <3>2. QED
      BY <1>3, <3>1, AllButLast
  <2> HIDE DEF B
  <2> DEFINE L == {i \in DOMAIN B : B[i].loc = A[c].loc /\ WasWrite(B[i]) /\ IsSeqCst(B[i])}
  <2>2. last = None \/ (L # {} /\ last = Max(L))
    BY DEF LastSeqCstWrite, LastId
  <2>3. L \in SUBSET DOMAIN B
    OBVIOUS
  <2> HIDE DEF L
  <2>4. L # {} => Max(L) \in L
    BY <2>1, <2>3, LastOf
  <2> HIDE DEF last
  <2>5. last = None \/ last \in DOMAIN A
    BY <2>1, <2>2, <2>3, <2>4
  <2> HIDE DEF S
  <2>6. QED
    BY <1>2, <2>5
<1>5. ASSUME NEW t
      PROVE  Adds(t) \in S
  <2> DEFINE i == WriteScan(A, c, t)
             L == {j \in ThreadList(A, A[c].loc, t) :
                     IF j = c THEN IsRMW(A[c])
                     ELSE HappensBefore(A[j], A[c]) \/ FenceOrdersWrite(A, A[c], t, A[j])}
  <2>1. i = None \/ (L # {} /\ i = Max(L))
    BY DEF WriteScan
  <2>2. L \in SUBSET DOMAIN A /\ \A j \in L : A[j].listed
    BY DEF ThreadList
  <2> HIDE DEF L, i
  <2>3. i = None \/ (i \in DOMAIN A /\ A[i].listed)
    <3>1. L # {} => Max(L) \in L
      BY <1>3, <2>2, LastOf
    <3>2. QED
      BY <2>1, <2>2, <3>1
  <2>4. i = None \/ StoreOf(A, i) \in DOMAIN A
    BY <2>3, StoreIn
  <2>5. Adds(t) \in {<<>>, <<StoreOf(A, i)>>} /\ (i = None => Adds(t) = <<>>)
    BY DEF i
  <2> HIDE DEF Adds, S
  <2>6. QED
    BY <1>2, <2>4, <2>5
<1>6. ASSUME NEW k \in 1..n, NEW x \in S
      PROVE  Step(x, k) \in S
  <2> HIDE DEF Adds, order
  <2>1. QED
    BY <1>5, ConcatIn
<1>7. (CHOOSE f : Is(f))[n] \in S
  <2> DEFINE step == [k \in 1..n |-> [x \in S |-> Step(x, k)]]
             f == CHOOSE f : Is(f)
  <2>1. \A k \in 1..n, x \in S : step[k][x] = Step(x, k) /\ step[k][x] \in S
    BY <1>1, <1>4, <1>6
  <2> HIDE DEF step, Step, S, n, first
  <2>2. PICK h : IsIterate(h, S, first, step, n)
    BY <1>1, <1>4, <1>6, <2>1, IterateExists
  <2>3. \A k \in 0..n : k # 0 => k \in 1..n /\ k - 1 \in 0..n
    BY SMT, <1>1
  <2>4. \A k \in 0..n : h[k] = IF k = 0 THEN first ELSE Step(h[k - 1], k)
    BY <2>1, <2>2, <2>3 DEF IsIterate
  <2>5. h = [k \in 0..n |-> h[k]]
    BY <2>2 DEF IsIterate
  <2>6. Is(h)
    BY <2>4, <2>5
  <2>7. Is(f)
    BY <2>6
  <2> HIDE DEF f
  <2>8. 0 \in 0..n /\ \A k \in 1..n : k \in 0..n /\ k # 0
    BY SMT, <1>1
  <2>9. f[0] = first /\ \A k \in 1..n : f[k] = Step(f[k - 1], k)
    BY <2>7, <2>8
  <2>10. f[0] \in S /\ \A k \in 1..n : f[k - 1] \in S => f[k] \in S
    BY <1>1, <1>4, <1>6, <2>9
  <2>11. f[n] \in S
    BY <1>1, <2>10, IterateStays
  <2>12. QED
    BY <2>11 DEF f
<1> DEFINE edgeset == (CHOOSE f : Is(f))[n]
<1>8. WModificationOrder(A, g, c) = AddEdges(g, A, edgeset, c)
  BY DEF WModificationOrder, FoldLeft
<1>9. TableIn(A, DOMAIN A, b) /\ IsFiniteSet(DOMAIN A)
  BY TableClocks
<1> HIDE DEF Is, n
<1>10. edgeset \in Seq(DOMAIN A)
  BY <1>7
<1> HIDE DEF edgeset
<1>11. AddEdges(g, A, edgeset, c) \in GrowsTo(g, DOMAIN A, b)
  BY <1>9, <1>10, AddEdgesGrows
<1>12. QED
  BY <1>8, <1>11

----------------------------------------------------------------------------
(* The steps of an execution *)

\* The inductive invariant of the graph
GraphInv == mo_graph \in Graph(Ids, seq_num) /\ ListedOK(acts)

\* What a step does to it
GraphStep == mo_graph' \in GrowsTo(mo_graph, Ids', seq_num') /\ ListedOK(acts)'

\* The table and the graph before a step, seen from after it
LEMMA StepBounds ==
  ASSUME HBInv, HBInv', GraphInv, NEW A, DOMAIN acts \subseteq DOMAIN A, seq_num <= seq_num'
  PROVE  /\ seq_num \in Nat /\ seq_num' \in Nat /\ Bounded(acts, seq_num)
         /\ mo_graph \in Graph(DOMAIN A, seq_num')
<1>1. seq_num \in Nat /\ seq_num' \in Nat /\ Bounded(acts, seq_num)
  BY DEF HBInv, StateOK, Bounded
<1>2. mo_graph \in Graph(DOMAIN acts, seq_num)
  BY DEF GraphInv, Ids
<1>3. QED
  BY <1>1, <1>2, GraphMore

\* A step that leaves the graph alone and adds actions that are on no list
LEMMA UnlistedStep ==
  ASSUME HBInv, HBInv', GraphInv, mo_graph' = mo_graph, DOMAIN acts \subseteq DOMAIN acts',
         seq_num <= seq_num', ListedOK(acts)'
  PROVE  GraphStep
<1>1. mo_graph \in Graph(DOMAIN acts', seq_num') /\ seq_num' \in Nat
  BY StepBounds
<1>2. mo_graph \in GrowsTo(mo_graph, DOMAIN acts', seq_num')
  BY <1>1, GrowsSelf
<1>3. QED
  BY <1>2 DEF GraphStep, Ids

\* An entry that is on no list, or reads or writes, keeps the lists in order
LEMMA ListedAppend ==
  ASSUME NEW A, IsTable(A), ListedOK(A), NEW e, e.listed => IsRead(e) \/ IsWrite(e)
  PROVE  /\ IsTable(Append(A, e)) /\ ListedOK(Append(A, e)) /\ DOMAIN A \subseteq DOMAIN Append(A, e)
         /\ Len(Append(A, e)) \in DOMAIN Append(A, e)
<1> DEFINE B == Append(A, e)
           n == Len(A) + 1
<1>1. Appended(A, e, B, n)
  BY TableAppend
<1>2. Len(A) \in Nat /\ DOMAIN A = 1..Len(A)
  BY DEF IsTable
<1>3. \A i \in 1..n : i \in DOMAIN A \/ i = n
  BY SMTT(30), <1>2
<1>4. n \in 1..n
  BY SMTT(30), <1>2
<1> HIDE DEF B, n
<1>5. ListedOK(B)
  BY <1>1, <1>3 DEF Appended, ListedOK
<1>6. IsTable(B) /\ DOMAIN A \subseteq DOMAIN B /\ Len(B) \in DOMAIN B
  BY <1>1, <1>4 DEF Appended
<1>7. QED
  BY <1>5, <1>6 DEF B

\* The vectors that are cached are not about the lists
LEMMA ListedCached ==
  ASSUME NEW A, TableOK(A), ListedOK(A), NEW w
  PROVE  ListedOK(CacheHb(A, w))
<1> DEFINE B == CacheHb(A, w)
<1>1. DOMAIN B = DOMAIN A
  BY DEF CacheHb
<1>2. ASSUME NEW i \in DOMAIN A
      PROVE  B[i].listed = A[i].listed /\ B[i].type = A[i].type
  <2>1. B[i] = A[i] \/ B[i] = [A[i] EXCEPT !.rfcv = HbFromWrite(A, i)]
    BY DEF CacheHb
  <2>2. IsAction(A[i])
    BY DEF TableOK, EntryOK
  <2> HIDE DEF B
  <2> DEFINE v == HbFromWrite(A, i)
  <2>3. B[i] = A[i] \/ B[i] = [A[i] EXCEPT !.rfcv = v]
    BY <2>1
  <2> HIDE DEF v
  <2>4. QED
    BY <2>2, <2>3 DEF IsAction, ActionFields
<1> HIDE DEF B
<1>3. ListedOK(B)
  BY <1>1, <1>2 DEF ListedOK, IsRead, IsWrite
<1>4. QED
  BY <1>3 DEF B

\* ATOMIC_WRITE and ATOMIC_INIT
LEMMA StoreGrows ==
  ASSUME HBInv, HBInv', GraphInv, NEW t, Store(t)
  PROVE  GraphStep
<1> DEFINE op == Pending(t)
           a == NewAction(acts, t, IF op.kind = "init" THEN "init" ELSE "write", op.loc, op.order, op.val)
           w == [a EXCEPT !.listed = TRUE]
<1>1. /\ acts' = Append(acts, w) /\ seq_num' = seq_num + 1
      /\ mo_graph' = WModificationOrder(acts', mo_graph, Len(acts'))
  BY DEF Store
<1>2. IsAction(a) /\ a.type \in {"write", "init"}
  <2>1. IsNew(a, acts, t, IF op.kind = "init" THEN "init" ELSE "write", op.loc, op.order, op.val)
    BY NewActionIs
  <2>2. QED
    BY <2>1 DEF IsNew
<1> HIDE DEF a
<1>3. w.type \in {"write", "init"}
  BY <1>2 DEF IsAction, ActionFields
<1> HIDE DEF w
<1>4. IsTable(acts) /\ ListedOK(acts) /\ TableOK(acts') /\ Bounded(acts', seq_num')
  BY DEF HBInv, StateOK, TableOK, GraphInv
<1>5. IsWrite(w)
  BY <1>3 DEF IsWrite
<1>6. ListedOK(acts') /\ DOMAIN acts \subseteq DOMAIN acts' /\ Len(acts') \in DOMAIN acts'
  BY <1>1, <1>4, <1>5, ListedAppend
<1>7. seq_num <= seq_num'
  <2>1. seq_num \in Nat
    BY DEF HBInv, StateOK, Bounded
  <2>2. QED
    BY SMTT(30), <1>1, <2>1
<1>8. mo_graph \in Graph(DOMAIN acts', seq_num') /\ seq_num' \in Nat
  BY <1>6, <1>7, StepBounds
<1>9. mo_graph' \in GrowsTo(mo_graph, DOMAIN acts', seq_num')
  BY <1>1, <1>4, <1>6, <1>8, WModificationOrderGrows
<1>10. QED
  BY <1>6, <1>9 DEF GraphStep, Ids

\* What a step that reads does to the graph: the edges of process_read, and those of
\* an RMW's write
ReadGraph(t, op, A, rf) ==
  LET read == ReadEdges(A, mo_graph, ReadCurr(A, t, op), rf)
  IN  \/ mo_graph' = read
      \/ mo_graph' = WModificationOrder(acts', AddRMWEdge(read, acts', rf, Len(acts')), Len(acts'))

\* The steps that read
LEMMA ReadGraphIs ==
  ASSUME NEW t, Load(t) \/ FailedCAS(t) \/ ReadModifyWrite(t)
  PROVE  LET op == Pending(t)
             A  == ConvertNonAtomicStore(acts, op.loc)
         IN  \E rf \in DOMAIN A : \E e :
               /\ ReadGraph(t, op, A, rf)
               /\ ReadEntry(A, t, op, rf, e)
               /\ acts' = Append(CacheHb(A, rf), e)
               /\ ReadEffects(t, op, A, rf)
<1> DEFINE op == Pending(t)
           A  == ConvertNonAtomicStore(acts, op.loc)
           curr == ReadCurr(A, t, op)
           read(rf) == ReadEdges(A, mo_graph, curr, rf)
<1>1. \A rf \in ReadChoices(A, mo_graph, curr, op) : rf \in DOMAIN A
  BY DEF ReadChoices, MayReadFrom, WriteList
<1>2. CASE Load(t)
  <2>1. PICK rf \in ReadChoices(A, mo_graph, curr, op) :
           /\ acts' = Append(CacheHb(A, rf),
                             [ReadFrom(A, curr, rf) EXCEPT !.listed = ~CanPrune(A, curr, rf)])
           /\ mo_graph' = read(rf) /\ ReadEffects(t, op, A, rf)
    BY <1>2 DEF Load
  <2>2. ReadEntry(A, t, op, rf, [ReadFrom(A, curr, rf) EXCEPT !.listed = ~CanPrune(A, curr, rf)])
    BY ReadEntryIs
  <2>3. ReadGraph(t, op, A, rf)
    BY <2>1 DEF ReadGraph
  <2>4. QED
    BY <1>1, <2>1, <2>2, <2>3
<1>3. CASE FailedCAS(t)
  <2>1. PICK rf \in ReadChoices(A, mo_graph, curr, op) :
           /\ acts' = Append(CacheHb(A, rf), [ReadFrom(A, curr, rf) EXCEPT !.listed = TRUE])
           /\ mo_graph' = read(rf) /\ ReadEffects(t, op, A, rf)
    BY <1>3 DEF FailedCAS
  <2>2. ReadEntry(A, t, op, rf, [ReadFrom(A, curr, rf) EXCEPT !.listed = TRUE])
    BY ReadEntryIs
  <2>3. ReadGraph(t, op, A, rf)
    BY <2>1 DEF ReadGraph
  <2>4. QED
    BY <1>1, <2>1, <2>2, <2>3
<1>4. CASE ReadModifyWrite(t)
  <2> DEFINE Entry(rf, v) == [ReadFrom(A, curr, rf) EXCEPT !.type = "rmw", !.val = v, !.listed = TRUE]
  <2>1. PICK rf \in ReadChoices(A, mo_graph, curr, op) : \E v :
           /\ acts' = Append(CacheHb(A, rf), Entry(rf, v))
           /\ mo_graph' = WModificationOrder(acts', AddRMWEdge(read(rf), acts', rf, Len(acts')), Len(acts'))
           /\ ReadEffects(t, op, A, rf)
    BY <1>4 DEF ReadModifyWrite
  <2>2. PICK v : acts' = Append(CacheHb(A, rf), Entry(rf, v))
    BY <2>1
  <2>3. ReadEntry(A, t, op, rf, Entry(rf, v))
    BY ReadEntryIs
  <2>4. ReadGraph(t, op, A, rf)
    BY <2>1 DEF ReadGraph
  <2>5. QED
    BY <1>1, <2>1, <2>2, <2>3, <2>4
<1>5. QED
  BY <1>2, <1>3, <1>4

\* Loads, failed compare-and-swaps and RMWs
LEMMA ReadGrows ==
  ASSUME HBInv, HBInv', GraphInv, NEW t \in Chosen, Load(t) \/ FailedCAS(t) \/ ReadModifyWrite(t)
  PROVE  GraphStep
<1> DEFINE op == Pending(t)
           A == ConvertNonAtomicStore(acts, op.loc)
           curr == ReadCurr(A, t, op)
<1>1. PICK rf \in DOMAIN A : \E e :
        /\ ReadGraph(t, op, A, rf) /\ ReadEntry(A, t, op, rf, e)
        /\ acts' = Append(CacheHb(A, rf), e) /\ ReadEffects(t, op, A, rf)
  BY ReadGraphIs
<1>2. PICK e : /\ ReadGraph(t, op, A, rf) /\ ReadEntry(A, t, op, rf, e)
               /\ acts' = Append(CacheHb(A, rf), e) /\ ReadEffects(t, op, A, rf)
  BY <1>1
<1> DEFINE read == ReadEdges(A, mo_graph, curr, rf)
           rmw == AddRMWEdge(read, acts', rf, Len(acts'))
<1>3. mo_graph' = read \/ mo_graph' = WModificationOrder(acts', rmw, Len(acts'))
  BY <1>2 DEF ReadGraph
<1> HIDE DEF op, curr
<1>4. /\ A = acts \/ A = Append(acts, ZeroStore(op.loc))
      /\ TableOK(A) /\ DOMAIN acts' = DOMAIN A \cup {Len(A) + 1}
  <2> HIDE DEF A
  <2>1. ReadKept(op, A, e)
    BY <1>2, ReadKeeps DEF A
  <2>2. QED
    BY <2>1 DEF ReadKept
<1> HIDE DEF A
<1>5. /\ IsTable(acts) /\ ListedOK(acts) /\ TableOK(acts') /\ Bounded(acts', seq_num')
      /\ Bounded(acts, seq_num) /\ seq_num \in Nat
  BY DEF HBInv, StateOK, TableOK, Bounded, GraphInv
<1>6. seq_num' = seq_num + 1 /\ seq_num' \in Nat /\ seq_num <= seq_num'
  <2>1. seq_num' = seq_num + 1
    BY <1>2 DEF ReadEffects
  <2>2. QED
    BY SMTT(30), <1>5, <2>1
<1>7. ListedOK(A) /\ DOMAIN acts \subseteq DOMAIN A
  <2>1. IsWrite(ZeroStore(op.loc))
    BY DEF ZeroStore, IsWrite
  <2>2. QED
    BY <1>4, <1>5, <2>1, ListedAppend
<1>8. DOMAIN A \subseteq DOMAIN acts' /\ IsFiniteSet(DOMAIN acts')
  BY <1>4, <1>5, TableClocks
<1>9. Bounded(A, seq_num')
  <2>1. Bounded(A, seq_num)
    <3>1. CASE A = acts
      BY <1>5, <3>1
    <3>2. CASE A = Append(acts, ZeroStore(op.loc))
      BY <3>2, ZeroStep DEF HBInv, StateOK
    <3>3. QED
      BY <1>4, <3>1, <3>2
  <2>2. \A i \in DOMAIN A : A[i].seq \in Nat /\ A[i].seq <= seq_num
    BY ZenonT(30), <1>4, <2>1 DEF TableOK, EntryOK, Bounded
  <2>3. \A i \in DOMAIN A : A[i].seq <= seq_num'
    BY SMTT(30), <1>5, <1>6, <2>2
  <2>4. QED
    BY <1>6, <2>3 DEF Bounded
<1>10. mo_graph \in Graph(DOMAIN A, seq_num') /\ mo_graph \in Graph(DOMAIN acts', seq_num')
  <2>1. mo_graph \in Graph(DOMAIN A, seq_num')
    BY ZenonT(30), <1>6, <1>7, StepBounds
  <2>2. DOMAIN acts \subseteq DOMAIN acts'
    BY <1>7, <1>8
  <2>3. mo_graph \in Graph(DOMAIN acts', seq_num')
    BY ZenonT(30), <1>6, <2>2, StepBounds
  <2>4. QED
    BY <2>1, <2>3
<1>11. read \in GrowsTo(mo_graph, DOMAIN A, seq_num')
  BY <1>4, <1>6, <1>7, <1>9, <1>10, ReadEdgesGrow
<1> HIDE DEF read
<1>12. read \in GrowsTo(mo_graph, DOMAIN acts', seq_num')
  <2>1. read \in Graph(DOMAIN A, seq_num') /\ Grows(mo_graph, read)
    BY <1>11 DEF GrowsTo
  <2>2. seq_num' <= seq_num'
    BY SMTT(30), <1>6
  <2>3. read \in Graph(DOMAIN acts', seq_num')
    BY <1>6, <1>8, <2>1, <2>2, GraphMore
  <2>4. QED
    BY <2>1, <2>3 DEF GrowsTo
<1>13. ListedOK(acts') /\ Len(acts') \in DOMAIN acts'
  <2>1. ListedOK(CacheHb(A, rf))
    BY <1>4, <1>7, ListedCached
  <2>2. IsTable(CacheHb(A, rf))
    BY <1>4, <1>9, CacheOKs DEF TableOK
  <2>3. IsRead(e)
    BY <1>2 DEF ReadEntry
  <2>4. QED
    BY <1>2, <2>1, <2>2, <2>3, ListedAppend
<1>14. WModificationOrder(acts', rmw, Len(acts')) \in GrowsTo(mo_graph, DOMAIN acts', seq_num')
  <2>1. read \in Graph(DOMAIN acts', seq_num') /\ rf \in DOMAIN acts'
    BY <1>8, <1>12 DEF GrowsTo
  <2>2. TableIn(acts', DOMAIN acts', seq_num')
    BY <1>5, TableClocks
  <2>3. rmw \in GrowsTo(read, DOMAIN acts', seq_num')
    BY <1>6, <1>8, <1>13, <2>1, <2>2, AddRMWEdgeGrows
  <2> HIDE DEF rmw
  <2>4. rmw \in GrowsTo(mo_graph, DOMAIN acts', seq_num')
    BY <1>6, <1>10, <1>12, <2>3, GrowsOn
  <2>5. rmw \in Graph(DOMAIN acts', seq_num')
    BY <2>4 DEF GrowsTo
  <2>6. WModificationOrder(acts', rmw, Len(acts')) \in GrowsTo(rmw, DOMAIN acts', seq_num')
    BY <1>5, <1>6, <1>13, <2>5, WModificationOrderGrows
  <2>7. QED
    BY <1>6, <1>10, <2>4, <2>6, GrowsOn
<1>15. mo_graph' \in GrowsTo(mo_graph, DOMAIN acts', seq_num')
  BY <1>3, <1>12, <1>14
<1>16. QED
  BY <1>13, <1>15 DEF GraphStep, Ids

\* Actions are made without being put on a list
LEMMA NewUnlisted ==
  ASSUME NEW A, NEW t, NEW type, NEW x, NEW order, NEW val
  PROVE  /\ IsAction(NewAction(A, t, type, x, order, val))
         /\ ~NewAction(A, t, type, x, order, val).listed
<1>1. IsAction(NewAction(A, t, type, x, order, val))
  BY NewActionIs DEF IsNew
<1>2. ~NewAction(A, t, type, x, order, val).listed
  BY DEF NewAction
<1>3. QED
  BY <1>1, <1>2

\* A step that adds one action, on no list
LEMMA OneUnlisted ==
  ASSUME HBInv, HBInv', GraphInv, mo_graph' = mo_graph, NEW e, acts' = Append(acts, e), ~e.listed,
         seq_num' = seq_num + 1
  PROVE  GraphStep
<1>1. IsTable(acts) /\ ListedOK(acts) /\ seq_num \in Nat
  BY DEF HBInv, StateOK, TableOK, Bounded, GraphInv
<1>2. ListedOK(acts') /\ DOMAIN acts \subseteq DOMAIN acts'
  BY <1>1, ListedAppend
<1>3. seq_num <= seq_num'
  BY SMTT(30), <1>1
<1>4. QED
  BY <1>2, <1>3, UnlistedStep

\* Every step only adds orderings
LEMMA GraphNext ==
  ASSUME HBInv, HBInv', GraphInv, Next
  PROVE  GraphStep
<1>1. PICK t \in Chosen : \/ Store(t) \/ Load(t) \/ ReadModifyWrite(t) \/ FailedCAS(t) \/ ReadCrash(t)
                          \/ Fence(t) \/ Create(t) \/ Join(t) \/ FinishThread(t)
  BY DEF Next
<1>2. CASE Store(t)
  BY <1>2, StoreGrows
<1>3. CASE Load(t) \/ FailedCAS(t) \/ ReadModifyWrite(t)
  BY <1>3, ReadGrows
<1>4. CASE ReadCrash(t)
  <2>1. acts' = acts /\ mo_graph' = mo_graph /\ seq_num' = seq_num
    BY <1>4 DEF ReadCrash
  <2>2. seq_num \in Nat
    BY DEF HBInv, StateOK, Bounded
  <2>3. seq_num <= seq_num'
    BY SMTT(30), <2>1, <2>2
  <2>4. ListedOK(acts') /\ DOMAIN acts \subseteq DOMAIN acts'
    BY <2>1 DEF GraphInv
  <2>5. QED
    BY <2>1, <2>3, <2>4, UnlistedStep
<1>5. CASE Fence(t)
  <2> DEFINE f == NewAction(acts, t, "fence", "fence", Pending(t).order, 0)
             v == IF IsAcquire(f) THEN Merge(f.cv, acq_fence[t]) ELSE f.cv
             e == [f EXCEPT !.cv = v]
  <2>1. acts' = Append(acts, e) /\ mo_graph' = mo_graph /\ seq_num' = seq_num + 1
    BY <1>5 DEF Fence
  <2>2. IsAction(f) /\ ~f.listed
    BY NewUnlisted
  <2> HIDE DEF f, v
  <2>3. ~e.listed
    BY <2>2 DEF IsAction, ActionFields
  <2> HIDE DEF e
  <2>4. QED
    BY <2>1, <2>3, OneUnlisted
<1>6. CASE Join(t)
  <2> DEFINE j == NewAction(acts, t, "join", "thread", "seq_cst", Pending(t).target)
             v == Merge(j.cv, ParentCV(acts, Pending(t).target))
             e == [j EXCEPT !.cv = v]
  <2>1. acts' = Append(acts, e) /\ mo_graph' = mo_graph /\ seq_num' = seq_num + 1
    BY <1>6 DEF Join
  <2>2. IsAction(j) /\ ~j.listed
    BY NewUnlisted
  <2> HIDE DEF j, v
  <2>3. ~e.listed
    BY <2>2 DEF IsAction, ActionFields
  <2> HIDE DEF e
  <2>4. QED
    BY <2>1, <2>3, OneUnlisted
<1>7. CASE FinishThread(t)
  <2> DEFINE e == NewAction(acts, t, "finish", "thread", "seq_cst", 0)
  <2>1. acts' = Append(acts, e) /\ mo_graph' = mo_graph /\ seq_num' = seq_num + 1
    BY <1>7 DEF FinishThread
  <2>2. ~e.listed
    BY NewUnlisted
  <2> HIDE DEF e
  <2>3. QED
    BY <2>1, <2>2, OneUnlisted
<1>8. CASE Create(t)
  <2> DEFINE u == Max({v \in Thread : Started(v)}) + 1
             c == NewAction(acts, t, "create", "thread", "seq_cst", u)
             w == NewVector(c.cv, u, seq_num + 2)
             z == [c EXCEPT !.type = "start", !.tid = u, !.seq = seq_num + 2, !.cv = w, !.lfr = None]
             A == Append(acts, c)
  <2>1. acts' = Append(A, z) /\ mo_graph' = mo_graph /\ seq_num' = seq_num + 2
    BY <1>8 DEF Create
  <2>2. IsAction(c) /\ ~c.listed
    BY NewUnlisted
  <2> HIDE DEF c, u, w
  <2>3. ~z.listed
    BY <2>2 DEF IsAction, ActionFields
  <2> HIDE DEF z
  <2>4. IsTable(acts) /\ ListedOK(acts) /\ seq_num \in Nat
    BY DEF HBInv, StateOK, TableOK, Bounded, GraphInv
  <2>5. IsTable(A) /\ ListedOK(A) /\ DOMAIN acts \subseteq DOMAIN A
    BY <2>2, <2>4, ListedAppend
  <2> HIDE DEF A
  <2>6. ListedOK(acts') /\ DOMAIN A \subseteq DOMAIN acts'
    BY <2>1, <2>3, <2>5, ListedAppend
  <2>7. DOMAIN acts \subseteq DOMAIN acts'
    BY <2>5, <2>6
  <2>8. seq_num <= seq_num'
    BY SMTT(30), <2>1, <2>4
  <2>9. QED
    BY <2>1, <2>6, <2>7, <2>8, UnlistedStep
<1>9. QED
  BY <1>1, <1>2, <1>3, <1>4, <1>5, <1>6, <1>7, <1>8

\* The execution starts with an empty graph
LEMMA GraphInit ==
  ASSUME Init
  PROVE  GraphInv
<1>1. mo_graph = <<>> /\ acts = Append(<<>>, MainStart)
  BY SMT DEF Init
<1>2. mo_graph \in Graph(Ids, seq_num)
  <2>1. DOMAIN mo_graph = {} /\ mo_graph = [n \in DOMAIN mo_graph |-> mo_graph[n]]
    BY SMTT(30), <1>1
  <2>2. QED
    BY <2>1, GraphIs
<1>3. IsTable(<<>>) /\ ListedOK(<<>>)
  BY SMTT(30) DEF IsTable, ListedOK
<1>4. ~MainStart.listed
  BY DEF MainStart
<1>5. ListedOK(acts)
  BY <1>1, <1>3, <1>4, ListedAppend
<1>6. QED
  BY <1>2, <1>5 DEF GraphInv

\* checkReachable never takes an answer back: an ordering of two stores that the
\* modification-order graph has, it has for the rest of the execution, whatever edges
\* addEdges prunes and addRMWEdge moves, for every program and number of threads
THEOREM OrderingsAreKept == Spec => OrderingKept
<1>1. Init => GraphInv
  BY GraphInit
<1>2. HBInv /\ HBInv' /\ GraphInv /\ [Next]_vars => GraphInv'
  <2>1. SUFFICES ASSUME HBInv, HBInv', GraphInv, [Next]_vars PROVE GraphInv'
    OBVIOUS
  <2>2. CASE UNCHANGED vars
    BY <2>1, <2>2 DEF vars, GraphInv, Ids
  <2>3. CASE Next
    <3>1. GraphStep
      BY <2>1, <2>3, GraphNext
    <3>2. QED
      BY <3>1 DEF GraphStep, GraphInv, GrowsTo
  <2>4. QED
    BY <2>1, <2>2, <2>3
<1>3. HBInv /\ HBInv' /\ GraphInv /\ [Next]_vars =>
        [\A a, b \in DOMAIN mo_graph :
           CheckReachable(mo_graph, a, b) => CheckReachable(mo_graph', a, b)]_vars
  <2>1. SUFFICES ASSUME HBInv, HBInv', GraphInv, Next, NEW a \in DOMAIN mo_graph,
                        NEW b \in DOMAIN mo_graph, CheckReachable(mo_graph, a, b)
                 PROVE  CheckReachable(mo_graph', a, b)
    OBVIOUS
  <2>2. GraphStep
    BY <2>1, GraphNext
  <2>3. seq_num \in Nat /\ seq_num' \in Nat
    BY <2>1 DEF HBInv, StateOK, Bounded
  <2>4. mo_graph \in Graph(Ids, seq_num) /\ mo_graph' \in GrowsTo(mo_graph, Ids', seq_num')
    BY <2>1, <2>2 DEF GraphInv, GraphStep
  <2>5. QED
    BY <2>1, <2>3, <2>4, ReachableKept
<1>4. QED
  BY <1>1, <1>2, <1>3, HBAlways, PTL DEF Spec, OrderingKept
=============================================================================
