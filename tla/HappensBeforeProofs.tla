------------------------- MODULE HappensBeforeProofs -------------------------
(***************************************************************************)
(* The clock vectors decide happens-before exactly, for every program, all *)
(* numbers of threads and all locations, and seq_cst reads obey 29.3p3.    *)
(***************************************************************************)
EXTENDS ExecutionLemmas, MemoryModel

\* Leaves are proved by Zenon, and by SMT where they need arithmetic, records or sequences
USE Zenon

----------------------------------------------------------------------------
(* The actions of ModelExecution *)

\* getNextThread chooses a thread that has started and not finished; if it is
\* about to join, the thread it waits for has finished
LEMMA ChosenLive ==
  ASSUME NEW t \in Chosen
  PROVE  /\ t \in Thread /\ t # 0 /\ Live(acts, t)
         /\ Pending(t).kind = "join" => Finished(Pending(t).target)
<1> DEFINE E == {v \in Thread : Enabled(v)}
           P == {v \in E : Prioritised(v)}
<1>1. t \in IF crashed \/ Finished(Main) THEN {} ELSE IF P # {} THEN {Min(P)} ELSE E
  BY DEF Chosen
<1>2. P \in SUBSET Nat
  BY ThreadAssumption
<1>3. P # {} => Min(P) \in P
  <2>1. SUFFICES ASSUME P # {} PROVE Min(P) \in P
    OBVIOUS
  <2>2. \E m \in P : \A k \in P : m <= k
    BY <1>2, <2>1, LeastIn
  <2> HIDE DEF P
  <2>3. QED
    BY <2>2 DEF Min
<1>4. t \in E
  BY <1>1, <1>3
<1>5. QED
  BY <1>4 DEF Enabled, Started, Finished, Live

\* The fields that initialize_curr_action gives an action
IsNew(a, A, t, type, x, order, val) ==
  /\ IsAction(a) /\ a.type = type /\ a.tid = t /\ a.seq = seq_num + 1 /\ a.loc = x
  /\ a.order = order /\ a.val = val /\ a.rfcv = NoVector
  /\ a.cv = StartCV(A, t, seq_num) /\ a.lfr = LastFenceRelease(A, t)

\* initialize_curr_action sets them
LEMMA NewActionIs ==
  ASSUME NEW A, NEW t, NEW type, NEW x, NEW order, NEW val
  PROVE  IsNew(NewAction(A, t, type, x, order, val), A, t, type, x, order, val)
BY DEF IsNew, NewAction, IsAction, ActionFields, StartCV

\* A store of the program, or the finish of a thread: nothing synchronises with it
LEMMA UnsyncedStep ==
  ASSUME NEW A, NEW s, NEW F, StateOK(A, s, F), NEW t \in Thread, t # 0, Live(A, t),
         NEW e, MadeFor(A, s, t, e), e.cv = StartCV(A, t, s), e.type \in {"write", "init", "finish"}
  PROVE  StateOK(Append(A, e), s + 1, F)
<1>1. TableOK(A) /\ Bounded(A, s)
  BY DEF StateOK
<1>2. ~IsRead(e) /\ ~IsFence(e) /\ e.type # "start" /\ e.type # "join" /\ e.type # "create"
  BY DEF IsRead, IsFence
<1>3. \A u, n : ~Seen(A, SyncNew(A, e), u, n)
  BY <1>2 DEF Seen, SyncNew
<1>4. e.cv \in Vector
  BY <1>1, StartCVIs
<1>5. NewEntryOK(A, s, e)
  BY <1>1, <1>2, <1>3, <1>4, MadeEntry
<1>6. e.seq = s + 1
  BY DEF MadeFor
<1>7. QED
  BY <1>2, <1>5, <1>6, PlainStep

\* ATOMIC_WRITE and ATOMIC_INIT
LEMMA StoreKeeps ==
  ASSUME HBInv, NEW t \in Chosen, Store(t)
  PROVE  HBInv'
<1> DEFINE op == Pending(t)
           a == NewAction(acts, t, IF op.kind = "init" THEN "init" ELSE "write", op.loc, op.order, op.val)
           w == [a EXCEPT !.listed = TRUE]
<1>1. acts' = Append(acts, w) /\ seq_num' = seq_num + 1 /\ acq_fence' = acq_fence
  BY DEF Store
<1>2. /\ IsAction(a) /\ a.type \in {"write", "init"} /\ a.tid = t /\ a.seq = seq_num + 1
      /\ a.rfcv = NoVector /\ a.cv = StartCV(acts, t, seq_num) /\ a.lfr = LastFenceRelease(acts, t)
  <2>1. IsNew(a, acts, t, IF op.kind = "init" THEN "init" ELSE "write", op.loc, op.order, op.val)
    BY NewActionIs
  <2>2. QED
    BY <2>1 DEF IsNew
<1> HIDE DEF a
<1>3. /\ MadeFor(acts, seq_num, t, w) /\ w.cv = StartCV(acts, t, seq_num)
      /\ w.type \in {"write", "init", "finish"}
  <2>1. /\ IsAction(w) /\ w.type = a.type /\ w.tid = a.tid /\ w.seq = a.seq
        /\ w.rfcv = a.rfcv /\ w.cv = a.cv /\ w.lfr = a.lfr
    BY <1>2 DEF IsAction, ActionFields
  <2>2. w.type # "nonatomic" /\ w.type # "free" /\ w.type \in {"write", "init", "finish"}
    BY <1>2, <2>1
  <2>3. QED
    BY <1>2, <2>1, <2>2 DEF MadeFor
<1> HIDE DEF w
<1>4. StateOK(Append(acts, w), seq_num + 1, acq_fence)
  BY <1>3, ChosenLive, UnsyncedStep DEF HBInv
<1>5. QED
  BY <1>1, <1>4 DEF HBInv

\* THREAD_FINISH
LEMMA FinishKeeps ==
  ASSUME HBInv, NEW t \in Chosen, FinishThread(t)
  PROVE  HBInv'
<1> DEFINE e == NewAction(acts, t, "finish", "thread", "seq_cst", 0)
<1>1. acts' = Append(acts, e) /\ seq_num' = seq_num + 1 /\ acq_fence' = acq_fence
  BY DEF FinishThread
<1>2. /\ MadeFor(acts, seq_num, t, e) /\ e.cv = StartCV(acts, t, seq_num)
      /\ e.type \in {"write", "init", "finish"}
  <2>1. IsNew(e, acts, t, "finish", "thread", "seq_cst", 0)
    BY NewActionIs
  <2>2. QED
    BY <2>1 DEF IsNew, MadeFor
<1> HIDE DEF e
<1>3. StateOK(Append(acts, e), seq_num + 1, acq_fence)
  BY <1>2, ChosenLive, UnsyncedStep DEF HBInv
<1>4. QED
  BY <1>1, <1>3 DEF HBInv

\* process_fence: an acquire fence synchronises with what the thread's reads could acquire
LEMMA FenceKeeps ==
  ASSUME HBInv, NEW t \in Chosen, Fence(t)
  PROVE  HBInv'
<1> DEFINE f == NewAction(acts, t, "fence", "fence", Pending(t).order, 0)
           V == StartCV(acts, t, seq_num)
           e == [f EXCEPT !.cv = IF IsAcquire(f) THEN Merge(@, acq_fence[t]) ELSE @]
<1>1. acts' = Append(acts, e) /\ seq_num' = seq_num + 1 /\ acq_fence' = acq_fence
  BY DEF Fence
<1>2. /\ IsAction(f) /\ f.type = "fence" /\ f.tid = t /\ f.seq = seq_num + 1
      /\ f.rfcv = NoVector /\ f.cv = V /\ f.lfr = LastFenceRelease(acts, t)
  <2>1. IsNew(f, acts, t, "fence", "fence", Pending(t).order, 0)
    BY NewActionIs
  <2>2. QED
    BY <2>1 DEF IsNew
<1> HIDE DEF f, V
<1>3. /\ MadeFor(acts, seq_num, t, e) /\ e.type = "fence"
      /\ e.order = f.order
      /\ e.cv = IF IsAcquire(f) THEN Merge(V, acq_fence[t]) ELSE V
  <2>1. /\ IsAction(e) /\ e.type = f.type /\ e.tid = f.tid /\ e.seq = f.seq /\ e.order = f.order
        /\ e.rfcv = f.rfcv /\ e.lfr = f.lfr
        /\ e.cv = IF IsAcquire(f) THEN Merge(f.cv, acq_fence[t]) ELSE f.cv
    BY <1>2 DEF IsAction, ActionFields
  <2>2. e.type # "nonatomic" /\ e.type # "free" /\ e.type = "fence"
    BY <1>2, <2>1
  <2>3. QED
    BY <1>2, <2>1, <2>2 DEF MadeFor
<1>4. IsAcquire(f) <=> IsAcquire(e)
  BY <1>3 DEF IsAcquire
<1> HIDE DEF e
<1>5. t \in Thread /\ t # 0 /\ Live(acts, t)
  BY ChosenLive
<1>6. TableOK(acts) /\ Bounded(acts, seq_num) /\ IsJoin(acts, acq_fence[t], Acquirable(acts, t))
  BY <1>5 DEF HBInv, StateOK
<1>7. V \in Vector /\ acq_fence[t] \in Vector
  BY <1>5, <1>6, StartCVIs DEF V, IsJoin
<1>8. IsFence(e) /\ ~IsRead(e) /\ e.type # "start" /\ e.type # "join" /\ e.type # "create" /\ e.tid = t
  BY <1>3 DEF IsFence, IsRead, MadeFor
<1>9. \A k : k \in SyncNew(acts, e) <=> IsAcquire(e) /\ k \in Acquirable(acts, t)
  BY <1>8 DEF SyncNew, Acquirable
<1>10. NewEntryOK(acts, seq_num, e)
  <2>1. CASE IsAcquire(e)
    <3>1. e.cv = Merge(V, acq_fence[t])
      BY <1>3, <1>4, <2>1
    <3>2. /\ e.cv \in Vector
          /\ \A u \in Thread, n \in Nat : n <= e.cv[u] <=> n <= V[u] \/ n <= acq_fence[t][u]
      BY <1>7, <3>1, MergeSees
    <3>3. \A u, n : Seen(acts, SyncNew(acts, e), u, n) <=> Seen(acts, Acquirable(acts, t), u, n)
      BY <1>9, <2>1 DEF Seen
    <3>4. \A u \in Thread, n \in Nat \ {0} :
            n <= e.cv[u] <=> n <= V[u] \/ Seen(acts, SyncNew(acts, e), u, n)
      BY <1>6, <3>2, <3>3 DEF IsJoin
    <3>5. QED
      BY <1>3, <1>5, <1>6, <1>8, <3>2, <3>4, MadeEntry DEF V
  <2>2. CASE ~IsAcquire(e)
    <3>1. e.cv = V
      BY <1>3, <1>4, <2>2
    <3>2. \A u, n : ~Seen(acts, SyncNew(acts, e), u, n)
      BY <1>9, <2>2 DEF Seen
    <3>3. QED
      BY <1>3, <1>5, <1>6, <1>7, <1>8, <3>1, <3>2, MadeEntry DEF V
  <2>3. QED
    BY <2>1, <2>2
<1>11. e.seq = seq_num + 1
  BY <1>3 DEF MadeFor
<1>12. StateOK(Append(acts, e), seq_num + 1, acq_fence)
  BY <1>8, <1>10, <1>11, PlainStep DEF HBInv
<1>13. QED
  BY <1>1, <1>12 DEF HBInv

\* THREAD_JOIN synchronises with the finish of the joined thread, its last action
LEMMA JoinKeeps ==
  ASSUME HBInv, NEW t \in Chosen, Join(t)
  PROVE  HBInv'
<1> DEFINE g == Pending(t).target
           j == NewAction(acts, t, "join", "thread", "seq_cst", g)
           V == StartCV(acts, t, seq_num)
           e == [j EXCEPT !.cv = Merge(@, ParentCV(acts, g))]
           q == LastAction(acts, g)
<1>1. acts' = Append(acts, e) /\ seq_num' = seq_num + 1 /\ acq_fence' = acq_fence
  BY DEF Join
<1>2. /\ IsAction(j) /\ j.type = "join" /\ j.tid = t /\ j.seq = seq_num + 1 /\ j.val = g
      /\ j.rfcv = NoVector /\ j.cv = V /\ j.lfr = LastFenceRelease(acts, t)
  <2>1. IsNew(j, acts, t, "join", "thread", "seq_cst", g)
    BY NewActionIs
  <2>2. QED
    BY <2>1 DEF IsNew
<1>3. TableOK(acts) /\ Bounded(acts, seq_num) /\ IsTable(acts)
  BY DEF HBInv, StateOK, TableOK
<1>4. t \in Thread /\ t # 0 /\ Live(acts, t) /\ Finished(g)
  BY ChosenLive DEF Join
<1>5. /\ q \in Ids /\ acts[q].tid = g /\ acts[q].type = "finish"
      /\ \A i \in Ids : acts[i].tid = g => i <= q
  BY <1>3, <1>4, LastActionIs DEF Finished, Started, Ids
<1>6. ParentCV(acts, g) = acts[q].cv
  BY DEF ParentCV
<1> HIDE DEF g, j, V, q
<1>7. /\ MadeFor(acts, seq_num, t, e) /\ e.type = "join" /\ e.val = g
      /\ e.cv = Merge(V, acts[q].cv)
  <2>1. /\ IsAction(e) /\ e.type = j.type /\ e.tid = j.tid /\ e.seq = j.seq /\ e.val = j.val
        /\ e.rfcv = j.rfcv /\ e.lfr = j.lfr /\ e.cv = Merge(j.cv, ParentCV(acts, g))
    BY <1>2 DEF IsAction, ActionFields
  <2>2. e.type # "nonatomic" /\ e.type # "free" /\ e.type = "join"
    BY <1>2, <2>1
  <2>3. QED
    BY <1>2, <1>6, <2>1, <2>2 DEF MadeFor
<1> HIDE DEF e
<1>8. V \in Vector /\ acts[q].cv \in Vector
  BY <1>3, <1>4, <1>5, StartCVIs DEF V, TableOK, EntryOK, Ids
<1>9. /\ e.cv \in Vector
      /\ \A u \in Thread, n \in Nat : n <= e.cv[u] <=> n <= V[u] \/ n <= acts[q].cv[u]
  BY <1>7, <1>8, MergeSees
<1>10. ~IsFence(e) /\ ~IsRead(e) /\ e.type # "start" /\ e.type # "create"
  BY <1>7 DEF IsFence, IsRead
<1>11. ASSUME NEW k \in Ids, acts[k].type = "finish", acts[k].tid = g
       PROVE  k = q
  <2>1. k <= q /\ q <= k
    BY <1>3, <1>5, <1>11 DEF TableOK, FinishOK, Ids
  <2>2. k \in Nat /\ q \in Nat
    BY SMTT(30), <1>3, <1>5 DEF IsTable, Ids
  <2>3. QED
    BY SMTT(30), <2>1, <2>2
<1>12. \A k : k \in SyncNew(acts, e) <=> k = q
  BY <1>5, <1>7, <1>10, <1>11 DEF SyncNew, Ids
<1>13. \A u \in Thread, n \in Nat \ {0} :
         n <= e.cv[u] <=> n <= V[u] \/ Seen(acts, SyncNew(acts, e), u, n)
  BY <1>9, <1>12 DEF Seen
<1>14. \E k \in DOMAIN acts : acts[k].type = "finish" /\ acts[k].tid = e.val
  BY <1>5, <1>7 DEF Ids
<1>15. NewEntryOK(acts, seq_num, e)
  BY <1>3, <1>4, <1>7, <1>9, <1>10, <1>13, <1>14, MadeEntry DEF V
<1>16. e.seq = seq_num + 1
  BY <1>7 DEF MadeFor
<1>17. StateOK(Append(acts, e), seq_num + 1, acq_fence)
  BY <1>10, <1>15, <1>16, PlainStep DEF HBInv
<1>18. QED
  BY <1>1, <1>17 DEF HBInv

\* THREAD_CREATE and the THREAD_START of the new thread, whose id is the first free one
LEMMA CreateKeeps ==
  ASSUME HBInv, NEW t \in Chosen, Create(t)
  PROVE  HBInv'
<1> DEFINE U == {v \in Thread : Started(v)}
           u == Max(U) + 1
           c == NewAction(acts, t, "create", "thread", "seq_cst", u)
           z == [c EXCEPT !.type = "start", !.tid = u, !.seq = seq_num + 2,
                          !.cv = NewVector(c.cv, u, seq_num + 2), !.lfr = None]
<1>1. /\ u \in Thread /\ acts' = Append(Append(acts, c), z)
      /\ seq_num' = seq_num + 2 /\ acq_fence' = acq_fence
  BY DEF Create
<1>2. /\ IsAction(c) /\ c.type = "create" /\ c.tid = t /\ c.seq = seq_num + 1 /\ c.val = u
      /\ c.rfcv = NoVector /\ c.cv = StartCV(acts, t, seq_num) /\ c.lfr = LastFenceRelease(acts, t)
  <2>1. IsNew(c, acts, t, "create", "thread", "seq_cst", u)
    BY NewActionIs
  <2>2. QED
    BY <2>1 DEF IsNew
<1>3. /\ IsTable(acts) /\ Len(acts) \in Nat /\ DOMAIN acts = 1..Len(acts)
      /\ \A i \in Ids : acts[i].tid \in Thread /\ acts[i].tid <= i
  BY DEF HBInv, StateOK, TableOK, EntryOK, IsTable, Ids
<1>4. t \in Thread /\ t # 0 /\ Live(acts, t)
  BY ChosenLive
<1>5. \A v : Started(v) <=> \E i \in Ids : acts[i].tid = v
  BY <1>3, LastActionIs DEF Started, Ids
<1>6. U \in SUBSET Nat /\ U # {} /\ \A v \in U : v <= Len(acts)
  <2>1. U \in SUBSET Nat /\ t \in U
    BY <1>4, ThreadAssumption DEF Live, Started
  <2>2. ASSUME NEW v \in U
        PROVE  v <= Len(acts)
    <3>1. PICK i \in Ids : acts[i].tid = v
      BY <1>5
    <3>2. v <= i /\ v \in Nat
      BY <1>3, <2>1, <3>1
    <3>3. QED
      BY SMTT(30), <1>3, <3>2 DEF Ids
  <2>3. QED
    BY <2>1, <2>2
<1>7. Max(U) \in U /\ \A v \in U : v <= Max(U)
  BY <1>3, <1>6, MaxIn
<1>8. u # 0 /\ u <= Len(acts) + 1 /\ u \in Nat
  <2>1. Max(U) \in Nat /\ Max(U) <= Len(acts)
    BY <1>6, <1>7
  <2> HIDE DEF U
  <2>2. QED
    BY SMTT(30), <1>3, <2>1
<1>9. \A i \in Ids : acts[i].tid # u
  <2>1. ASSUME NEW i \in Ids, acts[i].tid = u
        PROVE  FALSE
    <3>1. u \in U
      BY <1>1, <1>5, <2>1
    <3>2. u <= Max(U) /\ Max(U) \in Nat
      BY <1>6, <1>7, <3>1
    <3> HIDE DEF U
    <3>3. QED
      BY SMT, <3>2
  <2>2. QED
    BY <2>1
<1> HIDE DEF c, u
<1>10. /\ IsAction(z) /\ z.type = "start" /\ z.rfcv = NoVector /\ z.tid = u /\ z.seq = seq_num + 2
       /\ z.lfr = None /\ z.cv = NewVector(c.cv, u, seq_num + 2)
  <2>1. /\ IsAction(z) /\ z.type = "start" /\ z.rfcv = c.rfcv /\ z.tid = u /\ z.seq = seq_num + 2
        /\ z.lfr = None /\ z.cv = NewVector(c.cv, u, seq_num + 2)
    BY <1>2 DEF IsAction, ActionFields
  <2>2. QED
    BY <1>2, <2>1
<1>11. MadeFor(acts, seq_num, t, c)
  BY <1>2 DEF MadeFor
<1> HIDE DEF z
<1>12. StateOK(Append(Append(acts, c), z), seq_num + 2, acq_fence)
  BY <1>1, <1>2, <1>4, <1>8, <1>9, <1>10, <1>11, CreateStep DEF HBInv, Ids
<1>13. QED
  BY <1>1, <1>12 DEF HBInv

\* The fields of a read of op that reads rf
IsReadOf(a, A, t, op, rf) ==
  /\ IsAction(a) /\ a.type = "read" /\ a.tid = t /\ a.seq = seq_num + 1 /\ a.loc = op.loc
  /\ a.order = op.order /\ a.rfcv = NoVector /\ a.rf = rf
  /\ a.lfr = LastFenceRelease(A, t)
  /\ a.cv = IF IsAcquire(a) THEN Merge(StartCV(A, t, seq_num), HbFromWrite(A, rf))
                            ELSE StartCV(A, t, seq_num)

\* A read of op takes over rf, and keeps the fields it was made with
LEMMA ReadFromIs ==
  ASSUME NEW A, NEW t, NEW op, NEW rf
  PROVE  IsReadOf(ReadFrom(A, ReadCurr(A, t, op), rf), A, t, op, rf)
<1> DEFINE c == ReadCurr(A, t, op)
           H == HbFromWrite(A, rf)
           a == ReadFrom(A, c, rf)
<1>1. /\ IsAction(c) /\ c.type = "read" /\ c.tid = t /\ c.seq = seq_num + 1 /\ c.loc = op.loc
      /\ c.order = op.order /\ c.rfcv = NoVector
      /\ c.cv = StartCV(A, t, seq_num) /\ c.lfr = LastFenceRelease(A, t)
  <2>1. IsNew(c, A, t, "read", op.loc, op.order, 0)
    BY NewActionIs DEF ReadCurr
  <2>2. QED
    BY <2>1 DEF IsNew
<1>2. a = [c EXCEPT !.rf = rf, !.cv = IF IsAcquire(c) THEN Merge(@, H) ELSE @]
  BY DEF ReadFrom
<1> HIDE DEF c, H, a
<1>3. /\ IsAction(a) /\ a.type = c.type /\ a.tid = c.tid /\ a.seq = c.seq /\ a.loc = c.loc
      /\ a.order = c.order /\ a.rfcv = c.rfcv /\ a.rf = rf /\ a.lfr = c.lfr
      /\ a.cv = IF IsAcquire(c) THEN Merge(c.cv, H) ELSE c.cv
  BY <1>1, <1>2 DEF IsAction, ActionFields
<1>4. IsAcquire(a) <=> IsAcquire(c)
  BY <1>3 DEF IsAcquire
<1>5. QED
  BY <1>1, <1>3, <1>4 DEF IsReadOf, a, c, H

\* The entry of a load, a failed compare-and-swap or an RMW: what process_read made of it
ReadEntry(A, t, op, rf, e) ==
  /\ MadeFor(A, seq_num, t, e) /\ IsRead(e) /\ e.rf = rf /\ e.loc = op.loc /\ e.order = op.order
  /\ e.cv = IF IsAcquire(e) THEN Merge(StartCV(A, t, seq_num), HbFromWrite(A, rf))
                            ELSE StartCV(A, t, seq_num)

\* Setting what is left to set of it changes nothing else
LEMMA ReadEntryIs ==
  ASSUME NEW A, NEW t, NEW op, NEW rf, NEW l, NEW v
  PROVE  LET a == ReadFrom(A, ReadCurr(A, t, op), rf)
         IN  /\ ReadEntry(A, t, op, rf, [a EXCEPT !.listed = l])
             /\ ReadEntry(A, t, op, rf, [a EXCEPT !.type = "rmw", !.val = v, !.listed = l])
<1> DEFINE a == ReadFrom(A, ReadCurr(A, t, op), rf)
           H == HbFromWrite(A, rf)
           V == StartCV(A, t, seq_num)
           b == [a EXCEPT !.listed = l]
           r == [a EXCEPT !.type = "rmw", !.val = v, !.listed = l]
<1>1. /\ IsAction(a) /\ a.type = "read" /\ a.tid = t /\ a.seq = seq_num + 1 /\ a.loc = op.loc
      /\ a.order = op.order /\ a.rfcv = NoVector /\ a.rf = rf
      /\ a.lfr = LastFenceRelease(A, t)
      /\ a.cv = IF IsAcquire(a) THEN Merge(V, H) ELSE V
  <2>1. IsReadOf(a, A, t, op, rf)
    BY ReadFromIs
  <2>2. QED
    BY <2>1 DEF IsReadOf
<1> HIDE DEF a, H, V
<1>2. /\ IsAction(b) /\ b.type = "read" /\ b.tid = a.tid /\ b.seq = a.seq /\ b.loc = a.loc
      /\ b.order = a.order /\ b.rfcv = a.rfcv /\ b.rf = a.rf /\ b.lfr = a.lfr /\ b.cv = a.cv
  <2>1. IsAction(b)
    BY <1>1 DEF IsAction
  <2>2. /\ b.type = a.type /\ b.tid = a.tid /\ b.seq = a.seq /\ b.loc = a.loc
        /\ b.order = a.order /\ b.rfcv = a.rfcv /\ b.rf = a.rf /\ b.lfr = a.lfr /\ b.cv = a.cv
    BY <1>1 DEF IsAction, ActionFields
  <2>3. QED
    BY <1>1, <2>1, <2>2
<1>3. /\ IsAction(r) /\ r.type = "rmw" /\ r.tid = a.tid /\ r.seq = a.seq /\ r.loc = a.loc
      /\ r.order = a.order /\ r.rfcv = a.rfcv /\ r.rf = a.rf /\ r.lfr = a.lfr /\ r.cv = a.cv
  BY <1>1 DEF IsAction, ActionFields
<1> HIDE DEF b, r
<1>4. (IsAcquire(b) <=> IsAcquire(a)) /\ (IsAcquire(r) <=> IsAcquire(a)) /\ IsRead(b) /\ IsRead(r)
  BY <1>2, <1>3 DEF IsAcquire, IsRead
<1>5. ReadEntry(A, t, op, rf, b)
  BY <1>1, <1>2, <1>4 DEF ReadEntry, MadeFor, V, H
<1>6. ReadEntry(A, t, op, rf, r)
  BY <1>1, <1>3, <1>4 DEF ReadEntry, MadeFor, V, H
<1>7. QED
  BY <1>5, <1>6 DEF a, b, r

\* The table after a read e of op, for which A was the table with the zero store converted
ReadKept(op, A, e) ==
  /\ HBInv' /\ Extends(A, acts') /\ TableOK(A)
  /\ A = acts \/ A = Append(acts, ZeroStore(op.loc))
  /\ DOMAIN acts' = DOMAIN A \cup {Len(A) + 1} /\ acts'[Len(A) + 1] = e

\* process_read, with the conversion of the location's zero store before it: the
\* table gets the read as its last entry
LEMMA ReadKeeps ==
  ASSUME HBInv, NEW t \in Chosen, NEW op, NEW A, A = ConvertNonAtomicStore(acts, op.loc),
         NEW rf \in DOMAIN A, NEW e, ReadEntry(A, t, op, rf, e),
         acts' = Append(CacheHb(A, rf), e), ReadEffects(t, op, A, rf)
  PROVE  ReadKept(op, A, e)
<1>1. t \in Thread /\ t # 0 /\ Live(acts, t)
  BY ChosenLive
<1>2. A = acts \/ A = Append(acts, ZeroStore(op.loc))
  BY DEF ConvertNonAtomicStore
<1>3. StateOK(A, seq_num, acq_fence) /\ Live(A, t) /\ Extends(acts, A)
  <2>1. CASE A = acts
    <3>1. Extends(acts, acts)
      BY DEF HBInv, StateOK, TableOK, Extends, Same
    <3>2. QED
      BY <1>1, <2>1, <3>1 DEF HBInv
  <2>2. CASE A = Append(acts, ZeroStore(op.loc))
    <3>1. StateOK(A, seq_num, acq_fence) /\ Extends(acts, A)
      BY <2>2, ZeroStep DEF HBInv
    <3>2. IsTable(acts) /\ IsTable(A)
      BY <3>1 DEF Extends
    <3>3. /\ DOMAIN A = 1..(Len(acts) + 1) /\ A[Len(acts) + 1] = ZeroStore(op.loc)
          /\ \A i \in DOMAIN acts : A[i] = acts[i]
      <4>1. Appended(acts, ZeroStore(op.loc), A, Len(acts) + 1)
        BY <2>2, <3>2, TableAppend
      <4>2. QED
        BY <4>1 DEF Appended
    <3>4. DOMAIN A = DOMAIN acts \cup {Len(acts) + 1}
      BY SMTT(30), <3>2, <3>3 DEF IsTable
    <3>5. ZeroStore(op.loc).tid # t
      BY <1>1 DEF ZeroStore
    <3>6. Live(A, t)
      BY ZenonT(30), <1>1, <3>2, <3>3, <3>4, <3>5, ZeroLive
    <3>7. QED
      BY <3>1, <3>6
  <2>3. QED
    BY <1>2, <2>1, <2>2
<1>4. /\ seq_num' = seq_num + 1
      /\ acq_fence' = [acq_fence EXCEPT ![t] = Merge(@, HbFromWrite(A, rf))]
  BY DEF ReadEffects
<1>5. /\ StateOK(acts', seq_num + 1, [acq_fence EXCEPT ![t] = Merge(@, HbFromWrite(A, rf))])
      /\ Extends(A, acts') /\ DOMAIN acts' = DOMAIN A \cup {Len(A) + 1} /\ acts'[Len(A) + 1] = e
  <2>1. /\ MadeFor(A, seq_num, t, e) /\ IsRead(e) /\ e.rf = rf
        /\ e.cv = IF IsAcquire(e) THEN Merge(StartCV(A, t, seq_num), HbFromWrite(A, rf))
                                  ELSE StartCV(A, t, seq_num)
    BY DEF ReadEntry
  <2>2. QED
    <3>1. ReadTaken(A, acts', e, seq_num + 1, [acq_fence EXCEPT ![t] = Merge(@, HbFromWrite(A, rf))])
      BY <1>1, <1>3, <2>1, ReadStep
    <3>2. QED
      BY <3>1 DEF ReadTaken
<1>6. QED
  BY <1>2, <1>3, <1>4, <1>5 DEF ReadKept, HBInv, StateOK

\* What a step that reads does: its entry, and the store that it was allowed to read
LEMMA ReadStepIs ==
  ASSUME NEW t, Load(t) \/ FailedCAS(t) \/ ReadModifyWrite(t)
  PROVE  LET op == Pending(t)
             A  == ConvertNonAtomicStore(acts, op.loc)
         IN  \E rf \in DOMAIN A : \E e :
               /\ AllowRead(A, mo_graph, ReadCurr(A, t, op), op, rf)
               /\ ReadEntry(A, t, op, rf, e)
               /\ acts' = Append(CacheHb(A, rf), e)
               /\ ReadEffects(t, op, A, rf)
<1> DEFINE op == Pending(t)
           A  == ConvertNonAtomicStore(acts, op.loc)
           curr == ReadCurr(A, t, op)
           Result(rf, e) == /\ AllowRead(A, mo_graph, curr, op, rf)
                            /\ ReadEntry(A, t, op, rf, e)
                            /\ acts' = Append(CacheHb(A, rf), e)
                            /\ ReadEffects(t, op, A, rf)
<1>1. \A rf \in ReadChoices(A, mo_graph, curr, op) :
         rf \in DOMAIN A /\ AllowRead(A, mo_graph, curr, op, rf)
  BY DEF ReadChoices, MayReadFrom, WriteList
<1>2. CASE Load(t)
  <2>1. PICK rf \in ReadChoices(A, mo_graph, curr, op) :
           /\ acts' = Append(CacheHb(A, rf),
                             [ReadFrom(A, curr, rf) EXCEPT !.listed = ~CanPrune(A, curr, rf)])
           /\ ReadEffects(t, op, A, rf)
    BY <1>2 DEF Load
  <2>2. ReadEntry(A, t, op, rf, [ReadFrom(A, curr, rf) EXCEPT !.listed = ~CanPrune(A, curr, rf)])
    BY ReadEntryIs
  <2>3. QED
    BY <1>1, <2>1, <2>2
<1>3. CASE FailedCAS(t)
  <2>1. PICK rf \in ReadChoices(A, mo_graph, curr, op) :
           /\ acts' = Append(CacheHb(A, rf), [ReadFrom(A, curr, rf) EXCEPT !.listed = TRUE])
           /\ ReadEffects(t, op, A, rf)
    BY <1>3 DEF FailedCAS
  <2>2. ReadEntry(A, t, op, rf, [ReadFrom(A, curr, rf) EXCEPT !.listed = TRUE])
    BY ReadEntryIs
  <2>3. QED
    BY <1>1, <2>1, <2>2
<1>4. CASE ReadModifyWrite(t)
  <2>1. PICK rf \in ReadChoices(A, mo_graph, curr, op) : \E v :
           /\ acts' = Append(CacheHb(A, rf),
                        [ReadFrom(A, curr, rf) EXCEPT !.type = "rmw", !.val = v, !.listed = TRUE])
           /\ ReadEffects(t, op, A, rf)
    BY <1>4 DEF ReadModifyWrite
  <2>2. PICK v :
           /\ acts' = Append(CacheHb(A, rf),
                        [ReadFrom(A, curr, rf) EXCEPT !.type = "rmw", !.val = v, !.listed = TRUE])
           /\ ReadEffects(t, op, A, rf)
    BY <2>1
  <2>3. ReadEntry(A, t, op, rf, [ReadFrom(A, curr, rf) EXCEPT !.type = "rmw", !.val = v, !.listed = TRUE])
    BY ReadEntryIs
  <2>4. QED
    BY <1>1, <2>2, <2>3
<1>5. QED
  BY <1>2, <1>3, <1>4

\* The execution starts with main's THREAD_START
LEMMA HBInit ==
  ASSUME Init
  PROVE  HBInv
<1> DEFINE e == MainStart
<1>1. acts = <<e>> /\ seq_num = 1 /\ acq_fence = [t \in Thread |-> ZeroVector]
  BY DEF Init
<1>2. acts = Append(<<>>, e)
  BY SMT, <1>1
<1>3. IsTable(<<>>) /\ Len(<<>>) = 0 /\ DOMAIN <<>> = {}
  BY SMT DEF IsTable
<1>4. TableOK(<<>>) /\ Bounded(<<>>, 0)
  BY <1>3 DEF TableOK, InOrder, Bounded
<1>5. /\ IsAction(e) /\ e.type = "start" /\ e.rfcv = NoVector /\ e.tid = 1 /\ e.seq = 1
      /\ e.cv = [ZeroVector EXCEPT ![1] = 1] /\ e.lfr = None
  BY DEF MainStart, IsAction, ActionFields, NewVector, Main
<1>6. 1 \in Thread /\ ZeroVector \in [Thread -> Nat] /\ \A t \in Thread : ZeroVector[t] = 0
  BY ThreadAssumption DEF Main, ZeroVector
<1>7. e.cv \in Vector /\ e.cv[1] = 1 /\ \A t \in Thread : t # 1 => e.cv[t] = 0
  BY SMTT(30), <1>5, <1>6 DEF Vector
<1> HIDE DEF e
<1>8. ~IsRead(e) /\ ~IsZero(e) /\ e.type # "free" /\ e.type # "create" /\ e.type # "join"
  BY <1>5 DEF IsRead, IsZero
<1>9. \A K \in SUBSET DOMAIN <<>> : K = {}
  BY <1>3
<1>10. \A t, n : ~Seen(<<>>, {i \in DOMAIN <<>> : <<>>[i].tid = e.tid} \cup SyncNew(<<>>, e), t, n)
  BY <1>3 DEF SyncNew, Seen
<1>11. \A t \in Thread, n \in Nat \ {0} : n <= e.cv[t] <=> t = e.tid /\ n <= e.seq
  BY SMTT(30), <1>5, <1>7
<1>12. \A t \in Thread : e.cv[t] <= e.seq
  <2>1. \A t \in Thread : e.cv[t] = 0 \/ e.cv[t] = 1
    BY <1>7
  <2>2. 0 <= 1 /\ 1 <= 1
    BY SMT
  <2>3. e.seq = 1
    BY <1>5
  <2>4. QED
    BY <2>1, <2>2, <2>3
<1>13. NewEntryOK(<<>>, 0, e)
  <2>1. e.tid <= Len(<<>>) + 1 /\ e.tid # 0 /\ e.seq \in Nat /\ 0 < e.seq
    BY SMTT(30), <1>3, <1>5
  <2>2. QED
    BY <1>3, <1>5, <1>6, <1>7, <1>8, <1>10, <1>11, <1>12, <2>1 DEF NewEntryOK
<1>14. /\ TableOK(acts) /\ Bounded(acts, 1)
       /\ DOMAIN acts = DOMAIN <<>> \cup {Len(<<>>) + 1} /\ acts[Len(<<>>) + 1] = e
  <2>1. EntryAppended(<<>>, e, acts, Len(<<>>) + 1)
    BY <1>2, <1>4, <1>13, AppendEntry
  <2>2. QED
    BY <1>5, <2>1 DEF EntryAppended
<1>15. \A i \in DOMAIN acts : ~IsRead(acts[i]) /\ acts[i].type # "create"
  BY <1>3, <1>8, <1>14
<1>16. ASSUME NEW t \in Thread
       PROVE  IsJoin(acts, acq_fence[t], Acquirable(acts, t))
  <2>1. acq_fence[t] = ZeroVector /\ ZeroVector \in Vector
    BY <1>1, <1>6 DEF Vector
  <2>2. \A u, n : ~Seen(acts, Acquirable(acts, t), u, n)
    BY <1>15 DEF Acquirable, Seen
  <2>3. \A u \in Thread, n \in Nat \ {0} : ~(n <= ZeroVector[u])
    BY SMT, <1>6
  <2>4. QED
    BY <2>1, <2>2, <2>3 DEF IsJoin
<1>17. acq_fence = [t \in Thread |-> acq_fence[t]]
  BY <1>1
<1>18. CreatedOK(acts)
  BY <1>15 DEF CreatedOK
<1>19. Bounded(acts, seq_num)
  BY <1>1, <1>14
<1>20. QED
  BY <1>14, <1>16, <1>17, <1>18, <1>19 DEF HBInv, StateOK

\* Every step keeps the invariant
LEMMA HBNext ==
  ASSUME HBInv, [Next]_vars
  PROVE  HBInv'
<1>1. CASE UNCHANGED vars
  BY <1>1 DEF HBInv, vars
<1>2. CASE Next
  <2>1. PICK t \in Chosen : \/ Store(t) \/ Load(t) \/ ReadModifyWrite(t) \/ FailedCAS(t) \/ ReadCrash(t)
                            \/ Fence(t) \/ Create(t) \/ Join(t) \/ FinishThread(t)
    BY <1>2 DEF Next
  <2>2. CASE Load(t) \/ FailedCAS(t) \/ ReadModifyWrite(t)
    BY <2>2, ReadStepIs, ReadKeeps DEF ReadKept
  <2>3. CASE ReadCrash(t)
    BY <2>3 DEF ReadCrash, HBInv
  <2>4. QED
    BY <2>1, <2>2, <2>3, StoreKeeps, FenceKeeps, CreateKeeps, JoinKeeps, FinishKeeps
<1>3. QED
  BY <1>1, <1>2

\* The invariant holds in every execution
LEMMA HBAlways == Spec => []HBInv
<1>1. Init => HBInv
  BY HBInit
<1>2. HBInv /\ [Next]_vars => HBInv'
  BY HBNext
<1>3. QED
  BY <1>1, <1>2, PTL DEF Spec

----------------------------------------------------------------------------
(* Happens-before *)

\* The chains of the model are the least closed sets
LEMMA ChainIs ==
  ASSUME TableOK(acts), NEW w \in Ids
  PROVE  RMWChain(w) = Chain(acts, w)
<1> DEFINE Body(f, i) == {i} \cup IF IsRMW(acts[i]) THEN f[acts[i].rf] ELSE {}
           chain == CHOOSE f : f = [i \in Ids |-> Body(f, i)]
           K == [i \in Ids |-> Chain(acts, i)]
<1>1. RMWChain(w) = chain[w]
  BY DEF RMWChain
<1>2. /\ ReadsBack(acts) /\ Closed(acts, Ids) /\ Len(acts) \in Nat /\ Ids = 1..Len(acts)
  BY TableFacts DEF Ids
<1>3. \A i \in Ids : /\ IsRMW(acts[i]) => Chain(acts, i) = {i} \cup Chain(acts, acts[i].rf) /\ acts[i].rf \in Ids
                     /\ ~IsRMW(acts[i]) => Chain(acts, i) = {i}
  BY <1>2, ChainStep DEF Ids, Closed
<1>4. \A i \in Ids : Chain(acts, i) = Body(K, i)
  BY <1>3
<1>5. K = [i \in Ids |-> Body(K, i)]
  BY <1>4
<1>6. chain = [i \in Ids |-> Body(chain, i)]
  <2>1. \E f : f = [i \in Ids |-> Body(f, i)]
    BY <1>5
  <2>2. QED
    BY <2>1
<1> HIDE DEF chain, K
<1>7. \A i \in Ids : chain[i] = {i} \cup IF IsRMW(acts[i]) THEN chain[acts[i].rf] ELSE {}
  BY <1>6
<1> DEFINE Wrong == {i \in Ids : chain[i] # Chain(acts, i)}
<1>8. Wrong = {}
  <2>1. SUFFICES ASSUME Wrong # {} PROVE FALSE
    OBVIOUS
  <2>2. Wrong \in SUBSET Nat
    BY SMTT(30), <1>2
  <2>3. PICK m \in Wrong : \A k \in Wrong : m <= k
    BY <2>1, <2>2, LeastIn
  <2>4. m \in Ids /\ m \in Nat
    BY SMT, <1>2
  <2>5. CASE ~IsRMW(acts[m])
    BY <1>3, <1>7, <2>3, <2>4, <2>5
  <2>6. CASE IsRMW(acts[m])
    <3>1. acts[m].rf \in 1..(m - 1) /\ acts[m].rf \in Ids
      BY <1>2, <1>3, <2>4, <2>6 DEF ReadsBack, IsRead, IsRMW, Ids
    <3>2. ~(m <= acts[m].rf)
      BY SMTT(30), <2>4, <3>1
    <3>3. chain[acts[m].rf] = Chain(acts, acts[m].rf)
      BY <2>3, <3>1, <3>2
    <3>4. chain[m] = Chain(acts, m)
      BY <1>3, <1>7, <2>4, <2>6, <3>3
    <3>5. QED
      BY <2>3, <3>4
  <2>7. QED
    BY <2>5, <2>6
<1>9. QED
  BY <1>1, <1>8

\* What leads to an action, in the model and on the table
LEMMA PredsAre ==
  ASSUME TableOK(acts), NEW j \in Ids
  PROVE  Preds(j) = Leads(acts, j)
<1>1. \A i, k : Sb(i, k) <=> Before(acts, i, k)
  BY DEF Sb, Before
<1>2. \A r \in Ids : IsRead(acts[r]) => acts[r].rf \in Ids
  <2>1. ReadsBack(acts) /\ Len(acts) \in Nat /\ Ids = 1..Len(acts)
    BY TableFacts DEF Ids
  <2>2. \A r \in Ids : \A i \in 1..(r - 1) : i \in Ids
    BY SMTT(30), <2>1
  <2>3. QED
    BY <2>1, <2>2 DEF ReadsBack, Ids
<1>3. \A r \in Ids : IsRead(acts[r]) => ReleaseSources(r) = Sources(acts, acts[r].rf)
  BY <1>1, <1>2, ChainIs DEF ReleaseSources, Sources, IsReleaseFence, Ids
<1>4. SwInto(j) = SyncInto(acts, j)
  <2>1. CASE IsRead(acts[j]) /\ IsAcquire(acts[j])
    <3>1. /\ ~IsFence(acts[j]) /\ acts[j].type # "start" /\ acts[j].type # "join"
      BY <2>1 DEF IsRead, IsFence
    <3>2. SwInto(j) = ReleaseSources(j)
      BY <2>1, <3>1 DEF SwInto
    <3>3. QED
      BY <1>3, <2>1, <3>1, <3>2 DEF SyncInto, Sources, Ids
  <2>2. CASE IsFence(acts[j]) /\ IsAcquire(acts[j])
    <3>1. /\ ~IsRead(acts[j]) /\ acts[j].type # "start" /\ acts[j].type # "join"
      BY <2>2 DEF IsRead, IsFence
    <3>2. SwInto(j) = UNION {ReleaseSources(r) : r \in {i \in Ids : IsRead(acts[i]) /\ Sb(i, j)}}
      BY <2>2, <3>1 DEF SwInto
    <3>3. \A k : k \in SwInto(j) <=> \E r \in Ids : IsRead(acts[r]) /\ Sb(r, j) /\ k \in ReleaseSources(r)
      BY <3>2
    <3>4. \A k : k \in SyncInto(acts, j) <=>
                 \E r \in Ids : IsRead(acts[r]) /\ Before(acts, r, j) /\ k \in Sources(acts, acts[r].rf)
      BY <2>2, <3>1 DEF SyncInto, Sources, Ids
    <3>5. \A k : k \in SwInto(j) <=> k \in SyncInto(acts, j)
      BY <1>1, <1>3, <3>3, <3>4
    <3>6. QED
      BY <3>5
  <2>3. CASE acts[j].type = "start"
    <3>1. ~IsRead(acts[j]) /\ ~IsFence(acts[j]) /\ acts[j].type # "join"
      BY <2>3 DEF IsRead, IsFence
    <3>2. SwInto(j) = {i \in Ids : acts[i].type = "create" /\ acts[i].val = acts[j].tid}
      BY <2>3, <3>1 DEF SwInto
    <3>3. QED
      BY <2>3, <3>1, <3>2 DEF SyncInto, Ids
  <2>4. CASE acts[j].type = "join"
    <3>1. ~IsRead(acts[j]) /\ ~IsFence(acts[j]) /\ acts[j].type # "start"
      BY <2>4 DEF IsRead, IsFence
    <3>2. SwInto(j) = {i \in Ids : acts[i].type = "finish" /\ acts[i].tid = acts[j].val}
      BY <2>4, <3>1 DEF SwInto
    <3>3. QED
      BY <2>4, <3>1, <3>2 DEF SyncInto, Ids
  <2>5. CASE /\ ~(IsRead(acts[j]) /\ IsAcquire(acts[j])) /\ ~(IsFence(acts[j]) /\ IsAcquire(acts[j]))
             /\ acts[j].type # "start" /\ acts[j].type # "join"
    <3>1. SwInto(j) = {}
      BY <2>5 DEF SwInto
    <3>2. QED
      BY <2>5, <3>1 DEF SyncInto
  <2>6. QED
    BY <2>1, <2>2, <2>3, <2>4, <2>5
<1>5. QED
  BY <1>1, <1>4 DEF Preds, Leads, Ids

\* The actions that action j has seen, by its vector.  Zero stores, which no
\* vector tells apart, follow only one another.
Past(A, j) ==
  {i \in DOMAIN A : /\ i < j
                    /\ IF IsZero(A[j]) THEN IsZero(A[i])
                       ELSE ~IsZero(A[i]) /\ A[i].seq <= A[j].cv[A[i].tid]}

\* What leads to an action that is no zero store is none, and not the action itself
LEMMA LeadsReal ==
  ASSUME NEW A, TableOK(A), NEW j \in DOMAIN A, ~IsZero(A[j]), NEW p \in Leads(A, j)
  PROVE  p \in DOMAIN A /\ ~IsZero(A[p]) /\ p # j
<1>1. /\ \A i \in DOMAIN A : EntryOK(A, i)
      /\ IsTable(A) /\ ReadsBack(A) /\ Len(A) \in Nat /\ DOMAIN A = 1..Len(A)
  BY TableFacts DEF TableOK
<1>2. ASSUME NEW w \in DOMAIN A, w < j, p \in Sources(A, w)
      PROVE  p \in DOMAIN A /\ ~IsZero(A[p]) /\ p # j
  <2>1. p \in DOMAIN A /\ IsRelease(A[p]) /\ p \in 1..w
    BY <1>1, <1>2, SourcesBack DEF Sources, IsReleaseFence
  <2>2. A[p].order # "relaxed"
    BY <2>1 DEF IsRelease
  <2>3. p # j
    BY SMTT(30), <1>1, <1>2, <2>1
  <2>4. QED
    BY <1>1, <2>1, <2>2, <2>3 DEF EntryOK
<1>3. ASSUME NEW r \in DOMAIN A, IsRead(A[r]), r = j \/ r < j
      PROVE  A[r].rf \in DOMAIN A /\ A[r].rf < j
  <2>1. A[r].rf \in 1..(r - 1)
    BY <1>1, <1>3 DEF ReadsBack
  <2>2. QED
    BY SMTT(30), <1>1, <1>3, <2>1
<1>4. CASE p \in DOMAIN A /\ Before(A, p, j)
  <2>1. p # j
    BY SMTT(30), <1>1, <1>4 DEF Before
  <2>2. QED
    BY <1>1, <1>4, <2>1 DEF EntryOK, Before
<1>5. CASE p \in SyncInto(A, j)
  <2>1. p \in DOMAIN A
    BY <1>5 DEF SyncInto
  <2>2. CASE IsRead(A[j]) /\ p \in Sources(A, A[j].rf)
    BY <1>2, <1>3, <2>2
  <2>3. CASE \E r \in DOMAIN A : IsRead(A[r]) /\ Before(A, r, j) /\ p \in Sources(A, A[r].rf)
    BY <1>2, <1>3, <2>3 DEF Before
  <2>4. CASE A[j].type = "start" /\ A[p].type = "create"
    BY <2>1, <2>4 DEF IsZero
  <2>5. CASE A[j].type = "join" /\ A[p].type = "finish"
    BY <2>1, <2>5 DEF IsZero
  <2>6. QED
    BY <1>5, <2>2, <2>3, <2>4, <2>5 DEF SyncInto
<1>6. QED
  BY <1>4, <1>5 DEF Leads

\* If a vector has seen an action, the action is not a later one
LEMMA SeenNotLater ==
  ASSUME NEW A, TableOK(A), NEW i \in DOMAIN A, NEW j \in DOMAIN A, ~IsZero(A[i]), ~IsZero(A[j]),
         i # j, NEW t \in Thread, A[i].seq <= A[j].cv[t]
  PROVE  i < j
<1>1. /\ A[i].seq \in Nat /\ A[j].seq \in Nat /\ A[j].cv[t] \in Nat /\ A[j].cv[t] <= A[j].seq
      /\ i \in Nat /\ j \in Nat
  <2>1. i \in Nat /\ j \in Nat
    BY SMT, TableFacts
  <2>2. QED
    BY <2>1, TableFacts DEF TableOK, EntryOK
<1>2. ~(A[j].seq < A[i].seq)
  BY SMT, <1>1
<1>3. ~(j < i)
  BY <1>2 DEF TableOK, InOrder
<1>4. QED
  BY SMTT(30), <1>1, <1>3

\* A vector has seen its own action
LEMMA SeesItself ==
  ASSUME NEW A, TableOK(A), NEW i \in DOMAIN A, ~IsZero(A[i])
  PROVE  A[i].seq <= A[i].cv[A[i].tid] /\ A[i].seq \in Nat \ {0} /\ A[i].tid \in Thread
<1>1. A[i].seq \in Nat \ {0} /\ A[i].tid \in Thread /\ VectorOK(A, i)
  BY DEF TableOK, EntryOK
<1>2. A[i].seq <= A[i].seq
  BY SMT, <1>1
<1>3. QED
  BY <1>1, <1>2 DEF VectorOK

\* Happens-before is closed under what leads to an action, and nothing else is in it
LEMMA PastStep ==
  ASSUME NEW A, TableOK(A), NEW j \in DOMAIN A, NEW i
  PROVE  i \in Past(A, j) <=> i \in Leads(A, j) \/ \E p \in Leads(A, j) : i \in Past(A, p)
<1>1. /\ \A k \in DOMAIN A : EntryOK(A, k)
      /\ Len(A) \in Nat /\ DOMAIN A = 1..Len(A)
  BY TableFacts DEF TableOK
<1>2. CASE IsZero(A[j])
  <2>1. \A k \in DOMAIN A : IsZero(A[k]) <=> A[k].tid = 0
    BY <1>1 DEF EntryOK
  <2>2. SyncInto(A, j) = {}
    BY <1>2 DEF SyncInto, IsZero, IsRead, IsFence
  <2>3. \A k : k \in Leads(A, j) <=> k \in DOMAIN A /\ k < j /\ IsZero(A[k])
    BY <1>2, <2>1, <2>2 DEF Leads, Before
  <2>4. \A k : k \in Past(A, j) <=> k \in DOMAIN A /\ k < j /\ IsZero(A[k])
    BY <1>2 DEF Past
  <2>5. \A p \in Leads(A, j) : i \in Past(A, p) => i \in DOMAIN A /\ i < p /\ IsZero(A[i])
    BY <2>3 DEF Past
  <2>6. \A p \in Leads(A, j) : i \in DOMAIN A /\ i < p => i < j
    BY SMTT(30), <1>1, <2>3
  <2>7. QED
    BY <2>3, <2>4, <2>5, <2>6
<1>3. CASE ~IsZero(A[j])
  <2>1. \A k : k \in Past(A, j) <=> k \in DOMAIN A /\ k < j /\ ~IsZero(A[k]) /\ A[k].seq <= A[j].cv[A[k].tid]
    BY <1>3 DEF Past
  <2>2. ASSUME NEW p \in Leads(A, j)
        PROVE  /\ p \in DOMAIN A /\ ~IsZero(A[p]) /\ p < j /\ p \in Past(A, j)
               /\ \A t \in Thread : A[p].cv[t] <= A[j].cv[t]
    <3>1. p \in DOMAIN A /\ ~IsZero(A[p]) /\ p # j
      BY <1>3, LeadsReal
    <3>2. \A t \in Thread : A[p].cv[t] <= A[j].cv[t]
      BY <1>3, LeadsSeen
    <3>3. A[p].seq <= A[p].cv[A[p].tid] /\ A[p].seq \in Nat /\ A[p].tid \in Thread
      BY <3>1, SeesItself
    <3>4. A[p].cv[A[p].tid] \in Nat /\ A[j].cv[A[p].tid] \in Nat
      BY <3>1, <3>3, TableFacts
    <3>5. A[p].seq <= A[j].cv[A[p].tid]
      BY SMTT(30), <3>2, <3>3, <3>4
    <3>6. p < j
      BY <1>3, <3>1, <3>3, <3>5, SeenNotLater
    <3>7. QED
      BY <2>1, <3>1, <3>2, <3>5, <3>6
  <2>3. ASSUME NEW p \in Leads(A, j), i \in Past(A, p)
        PROVE  i \in Past(A, j)
    <3>1. i \in DOMAIN A /\ i < p /\ ~IsZero(A[i]) /\ A[i].seq <= A[p].cv[A[i].tid]
      BY <2>2, <2>3 DEF Past
    <3>2. A[i].seq \in Nat /\ A[i].tid \in Thread
      BY <3>1, SeesItself
    <3>3. /\ A[p].cv[A[i].tid] \in Nat /\ A[j].cv[A[i].tid] \in Nat
          /\ A[p].cv[A[i].tid] <= A[j].cv[A[i].tid]
      BY <2>2, <3>2, TableFacts
    <3>4. A[i].seq <= A[j].cv[A[i].tid]
      BY SMTT(30), <3>1, <3>2, <3>3
    <3>5. i < j
      BY SMTT(30), <1>1, <2>2, <3>1
    <3>6. QED
      BY <2>1, <3>1, <3>4, <3>5
  <2>4. ASSUME i \in Past(A, j), i \notin Leads(A, j)
        PROVE  \E p \in Leads(A, j) : i \in Past(A, p)
    <3>1. i \in DOMAIN A /\ i < j /\ ~IsZero(A[i]) /\ A[i].seq <= A[j].cv[A[i].tid]
      BY <2>1, <2>4
    <3>2. A[i].seq \in Nat \ {0} /\ A[i].tid \in Thread
      BY <3>1, SeesItself
    <3>3. A[i].tid # A[j].tid
      BY <2>4, <3>1 DEF Leads, Before
    <3>4. PICK p \in Leads(A, j) : A[i].seq <= A[p].cv[A[i].tid]
      BY <1>3, <3>1, <3>2, <3>3 DEF TableOK, VectorOK, Seen
    <3>5. i < p
      BY <2>2, <2>4, <3>1, <3>2, <3>4, SeenNotLater
    <3>6. QED
      BY <2>2, <3>1, <3>4, <3>5 DEF Past
  <2>5. QED
    BY <2>2, <2>3, <2>4
<1>4. QED
  BY <1>2, <1>3

\* A sequence given by its elements is a table
LEMMA PrefixTable ==
  ASSUME NEW n \in Nat, NEW f, f = [i \in 1..n |-> f[i]]
  PROVE  IsTable(f) /\ Len(f) = n /\ DOMAIN f = 1..n
<1> DEFINE S == {f[i] : i \in 1..n}
<1>1. f \in [1..n -> S]
  OBVIOUS
<1>2. f \in Seq(S)
  BY <1>1, FunctionIn
<1>3. Len(f) \in Nat /\ DOMAIN f = 1..Len(f)
  BY <1>2, SeqFacts
<1>4. DOMAIN f = 1..n
  OBVIOUS
<1>5. Len(f) = n
  BY SMTT(30), <1>3, <1>4
<1>6. QED
  BY <1>3, <1>4, <1>5 DEF IsTable

\* The pasts of the first j actions
PastUpTo(j) == [i \in 1..j |-> Past(acts, i)]

\* One turn of the recursion that defines happens-before
HbTurnOf(f, j) ==
  IF j = 0 THEN <<>>
  ELSE Append(f[j - 1], Preds(j) \cup UNION {f[j - 1][i] : i \in Preds(j)})

\* A turn that starts from pasts ends in pasts
LEMMA PastTurn ==
  ASSUME TableOK(acts), NEW j \in 0..Len(acts), NEW f, j # 0 => f[j - 1] = PastUpTo(j - 1)
  PROVE  HbTurnOf(f, j) = PastUpTo(j)
<1>1. Len(acts) \in Nat /\ Ids = 1..Len(acts)
  BY TableFacts DEF Ids
<1>2. CASE j = 0
  <2>1. PastUpTo(0) = [i \in 1..0 |-> PastUpTo(0)[i]]
    BY DEF PastUpTo
  <2>2. Len(PastUpTo(0)) = 0 /\ IsTable(PastUpTo(0))
    BY <2>1, PrefixTable
  <2>3. PastUpTo(0) = <<>>
    BY SMTT(30), <2>2 DEF IsTable
  <2>4. QED
    BY <1>2, <2>3 DEF HbTurnOf
<1>3. CASE j # 0
  <2> DEFINE h == PastUpTo(j - 1)
             P == Preds(j) \cup UNION {h[i] : i \in Preds(j)}
             g == Append(h, P)
  <2>1. /\ j \in Nat /\ j - 1 \in Nat /\ j \in Ids /\ (j - 1) + 1 = j
        /\ 1..(j - 1) \subseteq 1..j /\ 1..j = 1..(j - 1) \cup {j}
        /\ \A i \in Ids : i < j => i \in 1..(j - 1)
    BY SMTT(30), <1>1, <1>3
  <2>2. Preds(j) = Leads(acts, j)
    BY <2>1, PredsAre
  <2>3. /\ h = [i \in 1..(j - 1) |-> h[i]]
        /\ \A i \in 1..(j - 1) : h[i] = Past(acts, i)
    BY DEF PastUpTo
  <2>4. HbTurnOf(f, j) = g
    BY <1>3 DEF HbTurnOf
  <2> HIDE DEF h
  <2>5. \A p \in Leads(acts, j) : p \in 1..(j - 1)
    <3>1. \A p \in Leads(acts, j) : p \in Past(acts, j)
      BY <2>1, PastStep DEF Ids
    <3>2. QED
      BY <2>1, <3>1 DEF Past, Ids
  <2>6. \A i : i \in P <=> i \in Past(acts, j)
    <3>1. \A i : i \in P <=> i \in Leads(acts, j) \/ \E p \in Leads(acts, j) : i \in Past(acts, p)
      BY <2>2, <2>3, <2>5
    <3>2. QED
      BY <2>1, <3>1, PastStep DEF Ids
  <2>7. P = Past(acts, j)
    BY <2>6
  <2> HIDE DEF P
  <2>8. IsTable(h) /\ Len(h) = j - 1 /\ DOMAIN h = 1..(j - 1)
    BY <2>1, <2>3, PrefixTable
  <2>9. /\ IsTable(g) /\ DOMAIN g = 1..j /\ g[j] = P
        /\ \A i \in 1..(j - 1) : g[i] = h[i]
    <3>1. Appended(h, P, g, Len(h) + 1)
      BY <2>8, TableAppend
    <3>2. Len(h) + 1 = j
      BY <2>1, <2>8
    <3>3. QED
      BY <2>8, <3>1, <3>2 DEF Appended
  <2>10. g = [i \in 1..j |-> g[i]]
    BY <2>9 DEF IsTable
  <2>11. \A i \in 1..j : g[i] = Past(acts, i)
    BY <2>1, <2>3, <2>7, <2>9
  <2>12. g = PastUpTo(j)
    BY <2>10, <2>11 DEF PastUpTo
  <2>13. QED
    BY <2>4, <2>12
<1>4. QED
  BY <1>2, <1>3

\* The recursion is well defined, and computes the pasts
LEMMA HbUpToIs ==
  ASSUME TableOK(acts), NEW n \in 0..Len(acts)
  PROVE  HbUpTo[n] = PastUpTo(n)
<1> DEFINE D == 0..Len(acts)
           F == [j \in D |-> PastUpTo(j)]
<1>1. Len(acts) \in Nat
  BY TableFacts
<1>2. \A j \in D : j # 0 => j - 1 \in D
  BY SMTT(30), <1>1
<1>3. \A j \in D : HbTurnOf(F, j) = PastUpTo(j)
  BY <1>2, PastTurn
<1>4. F = [j \in D |-> HbTurnOf(F, j)]
  BY <1>3
<1>5. HbUpTo = [j \in D |-> HbTurnOf(HbUpTo, j)]
  <2>1. HbUpTo = CHOOSE f : f = [j \in D |-> HbTurnOf(f, j)]
    BY DEF HbUpTo, HbTurnOf
  <2>2. \E f : f = [j \in D |-> HbTurnOf(f, j)]
    BY <1>4
  <2>3. QED
    BY <2>1, <2>2
<1>6. \A j \in D : HbUpTo[j] = HbTurnOf(HbUpTo, j)
  BY <1>5
<1> DEFINE Wrong == {j \in D : HbUpTo[j] # PastUpTo(j)}
<1>7. Wrong = {}
  <2>1. SUFFICES ASSUME Wrong # {} PROVE FALSE
    OBVIOUS
  <2>2. Wrong \in SUBSET Nat
    BY SMT, <1>1
  <2>3. PICK m \in Wrong : \A k \in Wrong : m <= k
    BY <2>1, <2>2, LeastIn
  <2>4. m \in D /\ m \in Nat /\ (m # 0 => ~(m <= m - 1))
    BY SMT, <1>1
  <2>5. m # 0 => HbUpTo[m - 1] = PastUpTo(m - 1)
    BY <1>2, <2>3, <2>4
  <2>6. HbUpTo[m] = PastUpTo(m)
    BY <1>6, <2>4, <2>5, PastTurn
  <2>7. QED
    BY <2>3, <2>6
<1>8. QED
  BY <1>7

\* The actions that happen before j, zero stores apart, are those that j has seen
LEMMA HbIs ==
  ASSUME TableOK(acts), NEW i \in Ids, NEW j \in Ids, i # j, ~IsZero(acts[i])
  PROVE  i \in Hb[j] <=> HappensBefore(acts[i], acts[j])
<1>1. Len(acts) \in Nat /\ Ids = 1..Len(acts) /\ Len(acts) \in 0..Len(acts)
  <2>1. Len(acts) \in Nat /\ Ids = 1..Len(acts)
    BY TableFacts DEF Ids
  <2>2. QED
    BY SMTT(30), <2>1
<1>2. HbUpTo[Len(acts)][j] = Past(acts, j)
  BY <1>1, HbUpToIs DEF PastUpTo
<1>3. i \in Hb[j] <=> i \in Past(acts, j)
  BY <1>2 DEF Hb, IsZero
<1>4. HappensBefore(acts[i], acts[j]) <=> acts[i].seq <= acts[j].cv[acts[i].tid]
  BY DEF HappensBefore, SynchronizedSince
<1>5. acts[i].seq \in Nat \ {0} /\ acts[i].tid \in Thread
  BY SeesItself DEF Ids
<1>6. CASE IsZero(acts[j])
  <2>1. acts[j].cv[acts[i].tid] \in Nat /\ acts[j].cv[acts[i].tid] <= acts[j].seq /\ acts[j].seq = 0
    BY ZenonT(30), <1>5, <1>6, TableFacts DEF TableOK, EntryOK, Ids
  <2>2. ~(acts[i].seq <= acts[j].cv[acts[i].tid])
    BY SMTT(30), <1>5, <2>1
  <2>3. QED
    BY <1>3, <1>4, <1>6, <2>2 DEF Past
<1>7. CASE ~IsZero(acts[j])
  <2>1. acts[i].seq <= acts[j].cv[acts[i].tid] => i < j
    BY ZenonT(30), <1>5, <1>7, SeenNotLater DEF Ids
  <2>2. QED
    BY <1>3, <1>4, <1>7, <2>1 DEF Past, Ids
<1>8. QED
  BY <1>6, <1>7

\* The clock vectors that read_from, process_fence and process_thread_action
\* maintain decide happens-before exactly, in every execution of every program;
\* release sequences are those of get_hb_from_write, a store and its RMWs
THEOREM VectorsDecideHappensBefore == Spec => []HappensBeforeExact
<1>1. HBInv => HappensBeforeExact
  <2>1. SUFFICES ASSUME HBInv, NEW i \in Ids, NEW j \in Ids, i # j, acts[i].type # "nonatomic"
                 PROVE  HappensBefore(acts[i], acts[j]) <=> i \in Hb[j]
    BY DEF HappensBeforeExact
  <2>2. QED
    BY <2>1, HbIs DEF HBInv, StateOK, IsZero
<1>2. QED
  BY <1>1, HBAlways, PTL

----------------------------------------------------------------------------
(* Seq_cst reads *)

\* m is a seq_cst store that read r could read, and no such store is later
SeqCstStore(A, r, m) ==
  m \in DOMAIN A /\ m < r /\ IsWrite(A[m]) /\ A[m].loc = A[r].loc /\ IsSeqCst(A[m])

LastSeqCstStore(A, r, m) ==
  SeqCstStore(A, r, m) /\ \A k \in DOMAIN A : SeqCstStore(A, r, k) => k <= m

SeqCstReadOK(A, r) ==
  IsRead(A[r]) /\ IsSeqCst(A[r]) =>
    \A m \in DOMAIN A : LastSeqCstStore(A, r, m) =>
       \/ A[r].rf = m
       \/ ~IsSeqCst(A[A[r].rf]) /\ ~HappensBefore(A[A[r].rf], A[m])

SeqCstOK(A) == IsTable(A) /\ ReadsBack(A) /\ \A r \in DOMAIN A : SeqCstReadOK(A, r)

\* What a read was allowed to read depends only on what was there before it
LEMMA SeqCstExtends ==
  ASSUME NEW A, NEW B, SeqCstOK(A), Extends(A, B), NEW r \in DOMAIN A
  PROVE  SeqCstReadOK(B, r)
<1>1. SUFFICES ASSUME IsRead(B[r]), IsSeqCst(B[r]), NEW m \in DOMAIN B, LastSeqCstStore(B, r, m)
               PROVE  \/ B[r].rf = m
                      \/ ~IsSeqCst(B[B[r].rf]) /\ ~HappensBefore(B[B[r].rf], B[m])
  BY DEF SeqCstReadOK
<1>2. /\ IsTable(A) /\ IsTable(B) /\ DOMAIN A \subseteq DOMAIN B
      /\ \A i \in DOMAIN A : /\ (IsRead(B[i]) <=> IsRead(A[i])) /\ (IsSeqCst(B[i]) <=> IsSeqCst(A[i]))
                             /\ (IsWrite(B[i]) <=> IsWrite(A[i])) /\ B[i].loc = A[i].loc
                             /\ B[i].rf = A[i].rf /\ B[i].cv = A[i].cv
                             /\ B[i].tid = A[i].tid /\ B[i].seq = A[i].seq
  BY DEF Extends, Same, IsRead, IsWrite, IsSeqCst
<1>3. \A k \in DOMAIN B : k < r => k \in DOMAIN A
  BY SMTT(30), <1>2 DEF IsTable
<1>4. m \in DOMAIN A
  BY <1>1, <1>3 DEF LastSeqCstStore, SeqCstStore
<1>5. LastSeqCstStore(A, r, m)
  BY <1>1, <1>2, <1>4 DEF LastSeqCstStore, SeqCstStore
<1>6. A[r].rf = m \/ (~IsSeqCst(A[A[r].rf]) /\ ~HappensBefore(A[A[r].rf], A[m]))
  BY <1>1, <1>2, <1>4, <1>5 DEF SeqCstOK, SeqCstReadOK
<1>7. A[r].rf \in DOMAIN A
  <2>1. A[r].rf \in 1..(r - 1)
    BY <1>1, <1>2 DEF SeqCstOK, ReadsBack
  <2>2. QED
    BY SMTT(30), <1>2, <2>1 DEF IsTable
<1>8. HappensBefore(B[B[r].rf], B[m]) <=> HappensBefore(A[A[r].rf], A[m])
  BY <1>2, <1>4, <1>7 DEF HappensBefore
<1>9. QED
  BY <1>2, <1>4, <1>6, <1>7, <1>8

\* Nothing is required of an entry that does not read
LEMMA SeqCstAppend ==
  ASSUME NEW A, SeqCstOK(A), NEW e, ~IsRead(e)
  PROVE  SeqCstOK(Append(A, e))
<1> DEFINE B == Append(A, e)
           n == Len(A) + 1
<1>1. IsTable(A) /\ Len(A) \in Nat /\ DOMAIN A = 1..Len(A)
  BY DEF SeqCstOK, IsTable
<1>2. /\ IsTable(B) /\ DOMAIN B = 1..n /\ B[n] = e
      /\ \A i \in DOMAIN A : i \in DOMAIN B /\ B[i] = A[i]
  <2>1. Appended(A, e, B, n)
    BY <1>1, TableAppend
  <2>2. QED
    BY <2>1 DEF Appended
<1> HIDE DEF B
<1>3. \A i \in 1..n : i \in DOMAIN A \/ i = n
  BY SMTT(30), <1>1
<1>4. Extends(A, B)
  BY <1>1, <1>2 DEF Extends, Same
<1>5. \A r \in DOMAIN B : SeqCstReadOK(B, r)
  <2>1. SeqCstReadOK(B, n)
    BY <1>2 DEF SeqCstReadOK
  <2>2. \A r \in DOMAIN A : SeqCstReadOK(B, r)
    BY <1>4, SeqCstExtends
  <2>3. QED
    BY <1>2, <1>3, <2>1, <2>2
<1>6. ReadsBack(B)
  BY <1>2, <1>3 DEF ReadsBack, SeqCstOK
<1>7. QED
  BY <1>2, <1>5, <1>6 DEF SeqCstOK, B

\* get_last_seq_cst_write finds the last seq_cst store of the location
LEMMA LastSeqCstWriteIs ==
  ASSUME NEW A, TableOK(A), NEW x, NEW m \in DOMAIN A,
         IsWrite(A[m]), A[m].loc = x, IsSeqCst(A[m]),
         \A k \in DOMAIN A : IsWrite(A[k]) /\ A[k].loc = x /\ IsSeqCst(A[k]) => k <= m
  PROVE  LastSeqCstWrite(A, x) = m
<1> DEFINE S == {i \in DOMAIN A : A[i].loc = x /\ WasWrite(A[i]) /\ IsSeqCst(A[i])}
<1>1. Len(A) \in Nat /\ DOMAIN A = 1..Len(A)
  BY TableFacts
<1>2. \A i \in DOMAIN A : WasWrite(A[i]) <=> IsWrite(A[i])
  BY DEF WasWrite, TableOK, EntryOK
<1>3. m \in S /\ \A k \in S : k <= m
  BY <1>2
<1>4. LastSeqCstWrite(A, x) = Max(S)
  BY <1>3 DEF LastSeqCstWrite, LastId
<1>5. S \in SUBSET Nat /\ m \in Nat
  BY SMTT(30), <1>1
<1> HIDE DEF S
<1>6. Max(S) \in S /\ \A k \in S : k <= Max(S)
  BY <1>3, <1>5, MaxIn
<1>7. Max(S) <= m /\ m <= Max(S) /\ Max(S) \in Nat
  BY <1>3, <1>5, <1>6
<1>8. QED
  BY SMTT(30), <1>4, <1>5, <1>7

\* build_may_read_from gives a seq_cst read only what it may read
LEMMA SeqCstRead ==
  ASSUME NEW A, NEW B, TableOK(A), Extends(A, B), NEW n, n = Len(A) + 1,
         DOMAIN B = DOMAIN A \cup {n}, NEW rf \in DOMAIN A, B[n].rf = rf,
         NEW g, NEW curr, NEW op, AllowRead(A, g, curr, op, rf),
         curr.loc = B[n].loc, curr.order = B[n].order
  PROVE  SeqCstReadOK(B, n)
<1>1. SUFFICES ASSUME IsSeqCst(B[n]), NEW m \in DOMAIN B, LastSeqCstStore(B, n, m)
               PROVE  rf = m \/ (~IsSeqCst(B[rf]) /\ ~HappensBefore(B[rf], B[m]))
  BY DEF SeqCstReadOK
<1>2. Len(A) \in Nat /\ DOMAIN A = 1..Len(A)
  BY TableFacts
<1>3. /\ \A i \in DOMAIN A : i < n
      /\ ~(n < n) /\ 0 \notin DOMAIN A
  BY SMTT(30), <1>2
<1>4. \A i \in DOMAIN A : /\ (IsSeqCst(B[i]) <=> IsSeqCst(A[i]))
                          /\ (IsWrite(B[i]) <=> IsWrite(A[i])) /\ B[i].loc = A[i].loc
                          /\ B[i].cv = A[i].cv /\ B[i].tid = A[i].tid /\ B[i].seq = A[i].seq
  BY DEF Extends, Same, IsWrite, IsSeqCst
<1>5. /\ m \in DOMAIN A /\ IsWrite(A[m]) /\ A[m].loc = curr.loc /\ IsSeqCst(A[m])
      /\ \A k \in DOMAIN A : IsWrite(A[k]) /\ A[k].loc = curr.loc /\ IsSeqCst(A[k]) => k <= m
  <2>1. /\ m \in DOMAIN B /\ m < n /\ IsWrite(B[m]) /\ B[m].loc = B[n].loc /\ IsSeqCst(B[m])
        /\ \A k \in DOMAIN B : SeqCstStore(B, n, k) => k <= m
    BY <1>1 DEF LastSeqCstStore, SeqCstStore
  <2>2. m \in DOMAIN A
    BY <1>3, <2>1
  <2>3. ASSUME NEW k \in DOMAIN A, IsWrite(A[k]), A[k].loc = curr.loc, IsSeqCst(A[k])
        PROVE  k <= m
    <3>1. k \in DOMAIN B /\ k < n /\ IsWrite(B[k]) /\ B[k].loc = B[n].loc /\ IsSeqCst(B[k])
      BY <1>3, <1>4, <2>3
    <3>2. QED
      BY <2>1, <3>1 DEF SeqCstStore
  <2>4. QED
    BY <1>4, <2>1, <2>2, <2>3
<1>6. LastSeqCstWrite(A, curr.loc) = m /\ m # None
  BY <1>3, <1>5, LastSeqCstWriteIs DEF None
<1>7. IsSeqCst(curr)
  BY <1>1 DEF IsSeqCst
<1>8. rf = m \/ (~IsSeqCst(A[rf]) /\ ~HappensBefore(A[rf], A[m]))
  BY <1>6, <1>7 DEF AllowRead
<1>9. HappensBefore(B[rf], B[m]) <=> HappensBefore(A[rf], A[m])
  BY <1>4, <1>5 DEF HappensBefore
<1>10. QED
  BY <1>4, <1>8, <1>9

\* Every step keeps what holds of the seq_cst reads
LEMMA SeqCstNext ==
  ASSUME HBInv, SeqCstOK(acts), [Next]_vars
  PROVE  SeqCstOK(acts)'
<1>1. CASE UNCHANGED vars
  BY <1>1 DEF vars
<1>2. CASE Next
  <2>1. PICK t \in Chosen : \/ Store(t) \/ Load(t) \/ ReadModifyWrite(t) \/ FailedCAS(t) \/ ReadCrash(t)
                            \/ Fence(t) \/ Create(t) \/ Join(t) \/ FinishThread(t)
    BY <1>2 DEF Next
  <2>2. CASE \E e : acts' = Append(acts, e) /\ ~IsRead(e)
    BY <2>2, SeqCstAppend
  <2>3. CASE Load(t) \/ FailedCAS(t) \/ ReadModifyWrite(t)
    <3> DEFINE op == Pending(t)
               A == ConvertNonAtomicStore(acts, op.loc)
               n == Len(A) + 1
    <3>1. PICK rf \in DOMAIN A : \E e :
            /\ AllowRead(A, mo_graph, ReadCurr(A, t, op), op, rf)
            /\ ReadEntry(A, t, op, rf, e)
            /\ acts' = Append(CacheHb(A, rf), e) /\ ReadEffects(t, op, A, rf)
      BY <2>3, ReadStepIs
    <3>2. PICK e : /\ AllowRead(A, mo_graph, ReadCurr(A, t, op), op, rf)
                   /\ ReadEntry(A, t, op, rf, e)
                   /\ acts' = Append(CacheHb(A, rf), e) /\ ReadEffects(t, op, A, rf)
      BY <3>1
    <3> HIDE DEF op, A
    <3>3. /\ HBInv' /\ Extends(A, acts') /\ TableOK(A)
          /\ A = acts \/ A = Append(acts, ZeroStore(op.loc))
          /\ DOMAIN acts' = DOMAIN A \cup {n} /\ acts'[n] = e
      <4>1. ReadKept(op, A, e)
        BY <3>2, ReadKeeps DEF A, op
      <4>2. QED
        BY <4>1 DEF ReadKept
    <3>4. SeqCstOK(A)
      <4>1. ~IsRead(ZeroStore(op.loc))
        BY DEF ZeroStore, IsRead
      <4>2. QED
        BY <3>3, <4>1, SeqCstAppend
    <3>5. ReadCurr(A, t, op).loc = op.loc /\ ReadCurr(A, t, op).order = op.order
      <4>1. IsNew(ReadCurr(A, t, op), A, t, "read", op.loc, op.order, 0)
        BY NewActionIs DEF ReadCurr
      <4>2. QED
        BY <4>1 DEF IsNew
    <3>6. e.rf = rf /\ e.loc = op.loc /\ e.order = op.order
      BY <3>2 DEF ReadEntry
    <3>7. SeqCstReadOK(acts', n)
      BY <3>2, <3>3, <3>5, <3>6, SeqCstRead
    <3>8. \A r \in DOMAIN A : SeqCstReadOK(acts', r)
      BY <3>3, <3>4, SeqCstExtends
    <3>9. TableOK(acts')
      BY <3>3 DEF HBInv, StateOK
    <3>10. IsTable(acts') /\ ReadsBack(acts')
      BY <3>9 DEF TableOK, EntryOK, ReadsBack
    <3>11. QED
      BY <3>3, <3>7, <3>8, <3>10 DEF SeqCstOK
  <2>4. CASE Store(t)
    <3> DEFINE p == Pending(t)
               a == NewAction(acts, t, IF p.kind = "init" THEN "init" ELSE "write", p.loc, p.order, p.val)
    <3>1. acts' = Append(acts, [a EXCEPT !.listed = TRUE])
      BY <2>4 DEF Store
    <3>2. IsAction(a) /\ a.type \in {"write", "init"}
      <4>1. IsNew(a, acts, t, IF p.kind = "init" THEN "init" ELSE "write", p.loc, p.order, p.val)
        BY NewActionIs
      <4>2. QED
        BY <4>1 DEF IsNew
    <3> HIDE DEF a
    <3>3. ~IsRead([a EXCEPT !.listed = TRUE])
      BY <3>2 DEF IsAction, ActionFields, IsRead
    <3>4. QED
      BY <2>2, <3>1, <3>3
  <2>5. CASE Fence(t)
    <3> DEFINE f == NewAction(acts, t, "fence", "fence", Pending(t).order, 0)
               v == IF IsAcquire(f) THEN Merge(f.cv, acq_fence[t]) ELSE f.cv
    <3>1. acts' = Append(acts, [f EXCEPT !.cv = v])
      BY <2>5 DEF Fence
    <3>2. IsAction(f) /\ f.type = "fence"
      <4>1. IsNew(f, acts, t, "fence", "fence", Pending(t).order, 0)
        BY NewActionIs
      <4>2. QED
        BY <4>1 DEF IsNew
    <3> HIDE DEF f, v
    <3>3. ~IsRead([f EXCEPT !.cv = v])
      BY <3>2 DEF IsAction, ActionFields, IsRead
    <3>4. QED
      BY <2>2, <3>1, <3>3
  <2>6. CASE Join(t)
    <3> DEFINE j == NewAction(acts, t, "join", "thread", "seq_cst", Pending(t).target)
               v == Merge(j.cv, ParentCV(acts, Pending(t).target))
    <3>1. acts' = Append(acts, [j EXCEPT !.cv = v])
      BY <2>6 DEF Join
    <3>2. IsAction(j) /\ j.type = "join"
      <4>1. IsNew(j, acts, t, "join", "thread", "seq_cst", Pending(t).target)
        BY NewActionIs
      <4>2. QED
        BY <4>1 DEF IsNew
    <3> HIDE DEF j, v
    <3>3. ~IsRead([j EXCEPT !.cv = v])
      BY <3>2 DEF IsAction, ActionFields, IsRead
    <3>4. QED
      BY <2>2, <3>1, <3>3
  <2>7. CASE FinishThread(t)
    <3> DEFINE e == NewAction(acts, t, "finish", "thread", "seq_cst", 0)
    <3>1. acts' = Append(acts, e)
      BY <2>7 DEF FinishThread
    <3>2. ~IsRead(e)
      <4>1. IsNew(e, acts, t, "finish", "thread", "seq_cst", 0)
        BY NewActionIs
      <4>2. QED
        BY <4>1 DEF IsNew, IsRead
    <3>3. QED
      BY <2>2, <3>1, <3>2
  <2>8. CASE Create(t)
    <3> DEFINE u == Max({v \in Thread : Started(v)}) + 1
               c == NewAction(acts, t, "create", "thread", "seq_cst", u)
               w == NewVector(c.cv, u, seq_num + 2)
               s == [c EXCEPT !.type = "start", !.tid = u, !.seq = seq_num + 2, !.cv = w, !.lfr = None]
    <3>1. acts' = Append(Append(acts, c), s)
      BY <2>8 DEF Create
    <3>2. IsAction(c) /\ c.type = "create"
      <4>1. IsNew(c, acts, t, "create", "thread", "seq_cst", u)
        BY NewActionIs
      <4>2. QED
        BY <4>1 DEF IsNew
    <3> HIDE DEF c, u, w
    <3>3. ~IsRead(c) /\ ~IsRead(s)
      BY <3>2 DEF IsAction, ActionFields, IsRead
    <3> HIDE DEF s
    <3>4. QED
      BY <3>1, <3>3, SeqCstAppend
  <2>9. CASE ReadCrash(t)
    BY <2>9 DEF ReadCrash
  <2>10. QED
    BY <2>1, <2>3, <2>4, <2>5, <2>6, <2>7, <2>8, <2>9
<1>3. QED
  BY <1>1, <1>2

\* 29.3p3, which build_may_read_from applies with the clock vectors when it filters
\* candidates: in every execution of every program a seq_cst read takes the last
\* seq_cst store, or one that is not seq_cst and does not happen before it
THEOREM SeqCstReadsObeyTheStandard == Spec => []SeqCstReadsLast
<1>1. Init => SeqCstOK(acts)
  <2>1. SUFFICES ASSUME Init PROVE SeqCstOK(acts)
    OBVIOUS
  <2>2. acts = Append(<<>>, MainStart)
    BY SMTT(30), <2>1 DEF Init
  <2>3. SeqCstOK(<<>>)
    BY SMTT(30) DEF SeqCstOK, IsTable, ReadsBack
  <2>4. ~IsRead(MainStart)
    BY DEF MainStart, IsRead
  <2>5. QED
    BY ZenonT(30), <2>2, <2>3, <2>4, SeqCstAppend
<1>2. HBInv /\ SeqCstOK(acts) /\ [Next]_vars => SeqCstOK(acts)'
  BY SeqCstNext
<1>3. HBInv /\ SeqCstOK(acts) => SeqCstReadsLast
  <2>1. SUFFICES ASSUME HBInv, SeqCstOK(acts), NEW r \in Ids, IsRead(acts[r]), IsSeqCst(acts[r]),
                        {w \in Writes(acts[r].loc) : IsSeqCst(acts[w]) /\ w < r} # {}
                 PROVE  LET S == {w \in Writes(acts[r].loc) : IsSeqCst(acts[w]) /\ w < r}
                        IN  \/ acts[r].rf = Max(S)
                            \/ ~IsSeqCst(acts[acts[r].rf]) /\ acts[r].rf \notin Hb[Max(S)]
    BY DEF SeqCstReadsLast
  <2> DEFINE S == {w \in Writes(acts[r].loc) : IsSeqCst(acts[w]) /\ w < r}
             m == Max(S)
             rf == acts[r].rf
  <2>2. TableOK(acts) /\ IsTable(acts) /\ Len(acts) \in Nat /\ Ids = 1..Len(acts)
    BY <2>1, TableFacts DEF HBInv, StateOK, TableOK, Ids
  <2>3. \A w : w \in S <=> SeqCstStore(acts, r, w)
    BY DEF SeqCstStore, Writes, Ids
  <2>4. S \in SUBSET Nat /\ \A w \in S : w <= Len(acts)
    BY SMTT(30), <2>2 DEF Writes
  <2>5. m \in S /\ \A w \in S : w <= m
    BY <2>1, <2>2, <2>4, MaxIn
  <2> HIDE DEF S, m
  <2>6. m \in Ids /\ LastSeqCstStore(acts, r, m) /\ IsSeqCst(acts[m])
    BY <2>3, <2>5 DEF LastSeqCstStore, SeqCstStore, Ids
  <2>7. rf = m \/ (~IsSeqCst(acts[rf]) /\ ~HappensBefore(acts[rf], acts[m]))
    BY <2>1, <2>6 DEF SeqCstOK, SeqCstReadOK, Ids
  <2>8. rf \in Ids
    <3>1. rf \in 1..(r - 1)
      BY <2>1 DEF SeqCstOK, ReadsBack, Ids
    <3>2. QED
      BY SMTT(30), <2>2, <3>1
  <2>9. ASSUME rf # m, rf \in Hb[m]
        PROVE  HappensBefore(acts[rf], acts[m])
    <3>1. CASE IsZero(acts[rf])
      <4>1. acts[rf].seq = 0 /\ acts[rf].tid \in Thread /\ acts[m].cv \in Vector
        BY <2>2, <2>6, <2>8, <3>1 DEF TableOK, EntryOK, Ids
      <4>2. acts[rf].seq <= acts[m].cv[acts[rf].tid]
        BY SMTT(30), <4>1 DEF Vector
      <4>3. QED
        BY <4>2 DEF HappensBefore, SynchronizedSince
    <3>2. CASE ~IsZero(acts[rf])
      BY <2>2, <2>6, <2>8, <2>9, <3>2, HbIs
    <3>3. QED
      BY <3>1, <3>2
  <2>10. QED
    BY <2>7, <2>9 DEF S, m
<1>4. QED
  BY <1>1, <1>2, <1>3, HBAlways, PTL DEF Spec
=============================================================================
