--------------------------- MODULE SchedulerProofs ---------------------------
(***************************************************************************)
(* Proofs about the run loop: whoever is picked can step, the two halves   *)
(* of an RMW follow each other, and the end of an execution is judged.     *)
(*                                                                         *)
(* The invariant has a part about each thread (ThreadOK), and a part about *)
(* the loop (Looped): getNextThread has been through the threads below     *)
(* some number, and each of them has completed or has an action, which is  *)
(* enabled if the thread is.                                               *)
(***************************************************************************)
EXTENDS Scheduler, WellFoundedInduction, TLAPS

\* Leaves are proved by Zenon, and by SMT where they need arithmetic, records or sequences
USE Zenon

Actions == Calls \cup {Plain("start"), Plain("finish"), NoAction}

ThreadRecord ==
  [state : {"CREATED", "RUNNING", "READY", "BLOCKED", "COMPLETED", "FREED"}, pending : Actions, wakeup : BOOLEAN,
   ret : {"none", "0", "1", "ETIMEDOUT"}, enabled : {"enabled", "disabled", "sleep"}, pc : Nat]

\* What holds of each thread: r is its record and C its code
ThreadOK(C, r) ==
  /\ r \in ThreadRecord
  /\ r.pc <= Len(C)
  /\ r.pending = NoAction \/ (r.pc >= 1 /\ r.pending = C[r.pc])
  /\ r.state \in {"COMPLETED", "FREED"} => r.enabled = "disabled" /\ r.pending = NoAction
  /\ r.enabled = "sleep" => r.state = "READY" /\ r.pending.kind \in {"sleep", "wait", "timedwait"}
  /\ r.enabled = "enabled" /\ r.pending # NoAction => r.state = "READY"
  /\ r.wakeup => CanWait(C) \/ r.pending.kind = "sleep"

ThreadsOK(p, T, n) ==
  /\ T \in [1..Len(p) -> ThreadRecord]
  /\ \A t \in 1..Len(p) : ThreadOK(CodeOf(p, t), T[t]) /\ (t > n => T[t] = Unborn)

\* getNextThread need not come back to t before the next step
Settled(T, L, t) ==
  Complete(T, t) \/ (T[t].pending # NoAction /\ (T[t].enabled = "enabled" => CheckActionEnabled(T, L, t)))

\* A thread that was chosen ahead of the others has an action that cannot be
\* disabled, or will have one when it runs
Steady(C, r) ==
  /\ r.state \notin {"COMPLETED", "FREED"}
  /\ r.enabled = "enabled"
  /\ IF r.pending = NoAction THEN r.pc = 0 \/ C[r.pc].kind = "rmwr" ELSE r.pending.kind \notin {"lock", "join"}

\* The first half of an RMW is done and the second is not
MidRMW(C, r) == r.pending.kind = "rmw" \/ (r.pending = NoAction /\ r.pc >= 1 /\ C[r.pc].kind = "rmwr")

\* getNextThread has been through the threads below first, with chosen_thread = c
Looped(p, T, L, n, c, first) ==
  /\ \A t \in 1..(first - 1) : Settled(T, L, t)
  /\ c \in 1..n => Steady(CodeOf(p, c), T[c])
  /\ RMWsApart(p) => \A t \in 1..n : MidRMW(CodeOf(p, t), T[t]) => c = t

WaitersOK(p, W, n) ==
  /\ W \in [CondVars -> [1..Len(p) -> Nat]]
  /\ \A c \in CondVars : \A t \in 1..Len(p) : W[c][t] > 0 => t <= n /\ CanWait(CodeOf(p, t))

\* The state of the loop: o is the running thread, cu where getNextThread goes on
Running(p, T, L, n, c, o, cu, m) ==
  /\ ThreadsOK(p, T, n)
  /\ c \in 0..Len(p)
  /\ o \in 1..Len(p)
  /\ m = "user" =>
       /\ cu \in 1..n
       /\ o = cu
       /\ T[o].pending = NoAction
       /\ ~Complete(T, o)
       /\ Looped(p, T, L, n, c, cu)
  /\ m = "choose" => Looped(p, T, L, n, c, n + 1)

Inv ==
  /\ prog \in Programs
  /\ num_threads \in 1..Len(prog)
  /\ WaitersOK(prog, waiters, num_threads)
  /\ Running(prog, th, locked, num_threads, chosen_thread, old, curr_thread_num, mode)
  /\ mode \in {"user", "choose"} => ~finished
  /\ mode = "done" => curr_thread_num = Main
  /\ EndIsJudged

----------------------------------------------------------------------------
(* Programs and single threads *)

\* Nothing is not among the actions a program makes
LEMMA NoActionKind == \A a \in Actions : a = NoAction <=> a.kind = "none"
  BY SMT DEF Actions, Calls, NoAction, Plain, Call, Kinds

\* The code of a thread: calls between thread_startup's action and the last
LEMMA CodeFacts ==
  ASSUME NEW p \in Programs, NEW t \in 1..Len(p)
  PROVE  /\ Len(p) \in Nat
         /\ Len(CodeOf(p, t)) \in Nat /\ Len(CodeOf(p, t)) >= 2
         /\ CodeOf(p, t)[1].kind = "start"
         /\ Paired(CodeOf(p, t))
         /\ \A k \in 1..Len(CodeOf(p, t)) :
              /\ CodeOf(p, t)[k] \in Actions
              /\ CodeOf(p, t)[k].kind # "none"
              /\ CodeOf(p, t)[k].kind = "join" => CodeOf(p, t)[k].tid \in 1..Len(p)
  <1>1. p[t] \in Seq(Calls) /\ Len(p) \in Nat /\ Len(p[t]) \in Nat
    BY SMT, ProgramAssumption
  <1>2. \A k \in 1..Len(p[t]) : p[t][k] \in Calls /\ (p[t][k].kind = "join" => p[t][k].tid \in 1..Len(p))
    BY SMT, <1>1, ProgramAssumption
  <1> DEFINE A == Plain("start")
             Z == Plain("finish")
  <1>3. A \in Actions /\ Z \in Actions /\ A.kind = "start" /\ Z.kind = "finish"
    BY DEF Actions, Plain, Call
  <1>4. \A a \in Calls : a \in Actions /\ a.kind # "none"
    BY DEF Actions, Calls
  <1> HIDE DEF A, Z
  <1>5. CodeOf(p, t) = <<A>> \o p[t] \o <<Z>>
    BY DEF CodeOf, A, Z
  <1>6. A \in Actions /\ Z \in Actions /\ p[t] \in Seq(Actions)
    BY SMT, <1>1, <1>3, <1>4
  <1> DEFINE B == <<A>> \o p[t]
  <1>7a. B \in Seq(Actions) /\ Len(B) = Len(p[t]) + 1
    BY SMT, <1>6, <1>1
  <1>7b. \A k \in 1..Len(B) : B[k] = IF k = 1 THEN A ELSE p[t][k - 1]
    BY SMT, <1>6, <1>1
  <1>7c. CodeOf(p, t) = B \o <<Z>>
    BY <1>5
  <1> HIDE DEF B
  <1>7. Len(CodeOf(p, t)) = Len(p[t]) + 2
    BY SMTT(30), <1>7a, <1>7c, <1>6, <1>1
  <1>8. \A k \in 1..Len(CodeOf(p, t)) :
          CodeOf(p, t)[k] = IF k = 1 THEN A ELSE IF k = Len(p[t]) + 2 THEN Z ELSE p[t][k - 1]
    <2> TAKE k \in 1..Len(CodeOf(p, t))
    <2>1. CodeOf(p, t)[k] = IF k <= Len(B) THEN B[k] ELSE Z
      BY SMT, <1>7a, <1>7c, <1>6, <1>7, <1>1
    <2> QED BY SMT, <2>1, <1>7a, <1>7b, <1>7, <1>1
  <1>9. \A k \in 1..Len(CodeOf(p, t)) : k # 1 /\ k # Len(p[t]) + 2 => k - 1 \in 1..Len(p[t])
    BY SMT, <1>1, <1>7
  <1>10. \A k \in 1..Len(CodeOf(p, t)) :
              /\ CodeOf(p, t)[k] \in Actions
              /\ CodeOf(p, t)[k].kind # "none"
              /\ CodeOf(p, t)[k].kind = "join" => CodeOf(p, t)[k].tid \in 1..Len(p)
    BY <1>2, <1>3, <1>4, <1>8, <1>9
  <1>11. CodeOf(p, t)[1].kind = "start"
    BY SMT, <1>3, <1>7, <1>8, <1>1
  <1>12. Paired(CodeOf(p, t))
    BY ProgramAssumption
  <1> QED BY SMT, <1>1, <1>7, <1>10, <1>11, <1>12

\* How long it is: what the arithmetic about positions needs of thread_startup
LEMMA CodeLengths ==
  ASSUME NEW p \in Programs, NEW t \in 1..Len(p)
  PROVE  Len(p) \in Nat /\ Len(CodeOf(p, t)) \in Nat /\ Len(CodeOf(p, t)) >= 2
  BY CodeFacts

\* A position in a sequence of length n
LEMMA InRange ==
  ASSUME NEW n \in Nat, NEW k \in Nat, k >= 1, k <= n
  PROVE  k \in 1..n
  BY SMT

\* The threads that exist are among those of the program
LEMMA LiveInside ==
  ASSUME NEW n \in Nat, NEW m \in 1..n, NEW k \in 1..m
  PROVE  k \in 1..n
  BY SMT

\* What holds of a position, and of the number of a thread
LEMMA RangeFacts ==
  ASSUME NEW n \in Nat, NEW k \in 1..n
  PROVE  k \in Nat /\ k >= 1 /\ k <= n /\ k > 0 /\ k \in 0..n /\ k # NoThread
  BY SMT DEF NoThread

\* A thread of the program that is not above n is one of the first n
LEMMA NotAbove ==
  ASSUME NEW l \in Nat, NEW n \in 1..l, NEW k \in 1..l, ~(k > n)
  PROVE  k \in 1..n
  BY SMT

\* NoThread is the number of no thread, and below all of them
LEMMA ZeroBelow ==
  ASSUME NEW n \in Nat
  PROVE  NoThread \in 0..n
  BY SMT DEF NoThread

\* The first thread and the first position
LEMMA MainIsFirst == Main \in Nat /\ Main >= 1 /\ Main = 1 /\ 0 + 1 = 1 /\ ~(0 > 0) /\ ~(0 >= 1)
  BY SMT DEF Main

\* The position after k, when the code of length n goes on
LEMMA PositionsAfter ==
  ASSUME NEW n \in Nat, n >= 2, NEW k \in Nat, k <= n
  PROVE  /\ k = 0 => k + 1 = 1 /\ 1 \in 1..n /\ ~(k >= 1) /\ ~(k > 0)
         /\ k > 0 => k >= 1 /\ k # 0 /\ k \in 1..n
         /\ k > 0 /\ k + 1 <= n => k \in 1..(n - 1) /\ k + 1 \in 1..n
  BY SMT

\* The position after k when the calls in between are left out
LEMMA SkipInside ==
  ASSUME NEW n \in Nat, NEW k \in Nat, NEW d \in Nat, NEW q, q = k + 1 + d, q <= n
  PROVE  q \in 1..n
  BY SMT

\* A failed call leaves out some number of calls
LEMMA SkipNat == \A a \in Actions : a.skip \in Nat
  BY SMT DEF Actions, Calls, NoAction, Plain, Call

\* A program has finitely many threads
LEMMA ProgramLength ==
  ASSUME NEW p \in Programs
  PROVE  Len(p) \in Nat
  BY SMT, ProgramAssumption

\* Whatever has a kind is an action
LEMMA NoActionNone == NoAction.kind = "none"
  BY SMT DEF NoAction, Plain, Call

LEMMA HasAction ==
  ASSUME NEW a, a.kind # "none"
  PROVE  a # NoAction
  BY NoActionNone

\* A thread's action is the one its code has at its position
LEMMA PendingAt ==
  ASSUME NEW C, Len(C) \in Nat, NEW r, ThreadOK(C, r), r.pending # NoAction
  PROVE  r.pc \in 1..Len(C) /\ r.pending = C[r.pc]
  BY SMT DEF ThreadOK, ThreadRecord

\* The least of a set of numbers
LEMMA LowestIn ==
  ASSUME NEW S \in SUBSET Nat, S # {}
  PROVE  Lowest(S) \in S /\ \A u \in S : Lowest(S) <= u
  <1> DEFINE Less == {ss \in Nat \X Nat : ss[1] < ss[2]}
  <1>1. IsWellFoundedOn(Less, Nat)
    BY NatLessThanWellFounded DEF OpToRel
  <1>2. \A x, y \in Nat : <<y, x>> \in Less <=> y < x
    OBVIOUS
  <1> HIDE DEF Less
  <1>3. IsWellFoundedOn(Less, S)
    BY <1>1, IsWellFoundedOnSubset
  <1>4. PICK x \in S : \A y \in S : ~(<<y, x>> \in Less)
    BY <1>3, WFMin
  <1>5. ASSUME NEW y \in S PROVE x <= y
    <2>1. x \in Nat /\ y \in Nat
      OBVIOUS
    <2>2. ~(y < x)
      BY <2>1, <1>2, <1>4
    <2> QED BY SMT, <2>1, <2>2
  <1> QED BY <1>5 DEF Lowest

\* A thread's action stays enabled while no thread is brought back
LEMMA StaysEnabled ==
  ASSUME NEW p \in Programs, NEW T, NEW U, NEW L, NEW t \in 1..Len(p),
         ThreadOK(CodeOf(p, t), T[t]),
         U[t].pending = T[t].pending,
         \A u \in 1..Len(p) : Complete(T, u) => Complete(U, u),
         CheckActionEnabled(T, L, t)
  PROVE  CheckActionEnabled(U, L, t)
  <1>1. CASE T[t].pending.kind = "join"
    <2>1. T[t].pending # NoAction
      BY SMT, <1>1 DEF NoAction, Plain, Call
    <2>2. T[t].pc \in 1..Len(CodeOf(p, t)) /\ T[t].pending = CodeOf(p, t)[T[t].pc]
      BY SMT, <2>1, CodeLengths DEF ThreadOK, ThreadRecord
    <2>3. T[t].pending.tid \in 1..Len(p)
      BY <1>1, <2>2, CodeFacts
    <2> QED BY <1>1, <2>3 DEF CheckActionEnabled
  <1>2. CASE T[t].pending.kind # "join"
    BY <1>2 DEF CheckActionEnabled
  <1> QED BY <1>1, <1>2

----------------------------------------------------------------------------
(* getNextThread *)

\* What getNextThread, called with these arguments, makes of the threads: some
\* that completed are freed, and those whose action is not enabled are blocked
NextFacts(p, T, L, n, c, first, r) ==
  /\ r.th \in [1..Len(p) -> ThreadRecord]
  /\ \A t \in 1..Len(p) :
       \/ r.th[t] = T[t]
       \/ T[t].state = "COMPLETED" /\ r.th[t] = [T[t] EXCEPT !.state = "FREED"]
       \/ /\ t \in first..n
          /\ T[t].pending # NoAction /\ T[t].enabled # "disabled" /\ ~CheckActionEnabled(T, L, t)
          /\ r.th[t] = [T[t] EXCEPT !.enabled = "disabled", !.state = "BLOCKED"]
  /\ r.next = NoThread =>
       \A t \in first..n : Complete(T, t) \/ T[t].pending # NoAction
  /\ r.next # NoThread =>
       /\ r.next \in first..n
       /\ T[r.next].pending = NoAction /\ ~Complete(T, r.next) /\ r.th[r.next] = T[r.next]
       /\ \A t \in first..(r.next - 1) : Complete(T, t) \/ T[t].pending # NoAction
  /\ \A t \in first..n :
       /\ r.next = NoThread \/ t < r.next
       /\ T[t].pending # NoAction /\ T[t].enabled = "enabled" /\ ~CheckActionEnabled(T, L, t)
       => r.th[t].enabled = "disabled"
  /\ r.chosen # c =>
       /\ c = NoThread
       /\ r.chosen \in first..n
       /\ r.th[r.chosen] = T[r.chosen]
       /\ T[r.chosen].pending # NoAction /\ T[r.chosen].enabled # "disabled"
       /\ Prioritised(T[r.chosen].pending)

\* getNextThread does so
LEMMA NextThreads ==
  ASSUME NEW p \in Programs, NEW T, NEW L, NEW n \in 1..Len(p), NEW c, NEW first \in 1..(n + 1),
         ThreadsOK(p, T, n),
         NEW r, r = GetNextThread(T, L, c, first, n)
  PROVE  NextFacts(p, T, L, n, c, first, r)
  <1> DEFINE idle == {t \in first..n : ~Complete(T, t) /\ T[t].pending = NoAction}
             next == IF idle = {} THEN NoThread ELSE Lowest(idle)
             visited == {t \in first..n : idle = {} \/ t < next}
             considered == {t \in visited : T[t].pending # NoAction /\ T[t].enabled # "disabled"}
             blocked == Disabled(T, L, considered)
             first_ones == {t \in considered \ blocked : Prioritised(T[t].pending)}
             after == [t \in DOMAIN T |->
                         CASE t \in visited /\ Freeable(T, t) -> [T[t] EXCEPT !.state = "FREED"]
                           [] t \in blocked -> [T[t] EXCEPT !.enabled = "disabled", !.state = "BLOCKED"]
                           [] OTHER -> T[t]]
  <1>1. /\ r.next = next
        /\ r.chosen = IF c # NoThread \/ first_ones = {} THEN c ELSE Lowest(first_ones)
        /\ r.th = after
    BY DEF GetNextThread
  <1>2. Len(p) \in Nat /\ n \in Nat /\ first \in Nat /\ first..n \subseteq 1..Len(p)
    BY SMT, CodeLengths
  <1>3. T \in [1..Len(p) -> ThreadRecord] /\ \A t \in 1..Len(p) : ThreadOK(CodeOf(p, t), T[t])
    BY DEF ThreadsOK
  <1>4. /\ idle = {} => next = NoThread
        /\ idle # {} => next \in idle /\ next # NoThread /\ \A t \in idle : next <= t
    <2>1. idle \in SUBSET Nat
      BY SMT, <1>2
    <2>2. 0 \notin idle
      BY SMT
    <2>3. idle # {} => Lowest(idle) \in idle /\ \A t \in idle : Lowest(idle) <= t
      <3> HIDE DEF idle
      <3> QED BY <2>1, LowestIn
    <2> HIDE DEF idle
    <2> QED BY <2>2, <2>3 DEF NoThread
  <1>5. /\ \A t : t \in idle <=> t \in first..n /\ ~Complete(T, t) /\ T[t].pending = NoAction
        /\ \A t : t \in visited <=> t \in first..n /\ (idle = {} \/ t < next)
        /\ \A t : t \in considered <=> t \in visited /\ T[t].pending # NoAction /\ T[t].enabled # "disabled"
        /\ \A t : t \in blocked <=> t \in considered /\ ~CheckActionEnabled(T, L, t)
        /\ \A t : t \in first_ones <=> t \in considered /\ t \notin blocked /\ Prioritised(T[t].pending)
    BY DEF Disabled
  <1> HIDE DEF next, idle, visited, considered, blocked, first_ones
  <1>6. first_ones # {} => Lowest(first_ones) \in first_ones
    <2>1. first_ones \in SUBSET Nat
      BY SMT, <1>2, <1>5
    <2> QED BY <2>1, LowestIn
  <1>7. \A t \in considered : T[t].state \notin {"COMPLETED", "FREED"}
    BY <1>2, <1>3, <1>5 DEF ThreadOK
  <1>8. ASSUME NEW t \in 1..Len(p)
        PROVE  /\ t \in visited /\ Freeable(T, t) => after[t] = [T[t] EXCEPT !.state = "FREED"]
               /\ t \in blocked => after[t] = [T[t] EXCEPT !.enabled = "disabled", !.state = "BLOCKED"]
               /\ ~(t \in visited /\ Freeable(T, t)) /\ t \notin blocked => after[t] = T[t]
    <2>1. DOMAIN T = 1..Len(p)
      BY <1>3
    <2>2. t \in blocked => ~Freeable(T, t)
      BY <1>5, <1>7 DEF Freeable
    <2> QED BY <2>1, <2>2
  <1>9. ASSUME NEW t \in 1..Len(p)
        PROVE  /\ T[t] \in ThreadRecord
               /\ [T[t] EXCEPT !.state = "FREED"] \in ThreadRecord
               /\ [T[t] EXCEPT !.enabled = "disabled", !.state = "BLOCKED"] \in ThreadRecord
    <2>1. T[t] \in ThreadRecord
      BY <1>3
    <2> QED BY <2>1 DEF ThreadRecord
  <1> HIDE DEF after
  <1>10. r.th \in [1..Len(p) -> ThreadRecord]
    <2>1. \A t \in 1..Len(p) : after[t] \in ThreadRecord
      BY <1>8, <1>9
    <2>2. DOMAIN after = 1..Len(p) /\ after = [t \in DOMAIN after |-> after[t]]
      BY SMT, <1>3 DEF after
    <2> QED BY <2>1, <2>2, <1>1
  <1>11. ASSUME NEW t \in 1..Len(p)
         PROVE  \/ r.th[t] = T[t]
                \/ T[t].state = "COMPLETED" /\ r.th[t] = [T[t] EXCEPT !.state = "FREED"]
                \/ /\ t \in first..n
                   /\ T[t].pending # NoAction /\ T[t].enabled # "disabled" /\ ~CheckActionEnabled(T, L, t)
                   /\ r.th[t] = [T[t] EXCEPT !.enabled = "disabled", !.state = "BLOCKED"]
    BY <1>1, <1>5, <1>8 DEF Freeable
  <1>12. r.next = NoThread => \A t \in first..n : Complete(T, t) \/ T[t].pending # NoAction
    BY <1>1, <1>4, <1>5
  <1>13. ASSUME r.next # NoThread
         PROVE  /\ r.next \in first..n
                /\ T[r.next].pending = NoAction /\ ~Complete(T, r.next) /\ r.th[r.next] = T[r.next]
                /\ \A t \in first..(r.next - 1) : Complete(T, t) \/ T[t].pending # NoAction
    <2>1. next \in idle /\ \A t \in idle : next <= t
      BY <1>1, <1>4, <1>13
    <2>2. next \in first..n /\ T[next].pending = NoAction /\ ~Complete(T, next)
      BY <2>1, <1>5
    <2>3. next \notin visited /\ next \notin blocked
      BY SMT, <2>1, <2>2, <1>2, <1>5
    <2>4. after[next] = T[next]
      BY <2>2, <2>3, <1>2, <1>8
    <2>5. \A t \in first..(next - 1) : t \notin idle /\ t \in first..n
      BY SMT, <2>1, <2>2, <1>2
    <2>6. \A t \in first..(next - 1) : Complete(T, t) \/ T[t].pending # NoAction
      BY <2>5, <1>5
    <2> QED BY <2>2, <2>4, <2>6, <1>1
  <1>14. ASSUME NEW t \in first..n,
                r.next = NoThread \/ t < r.next,
                T[t].pending # NoAction, T[t].enabled = "enabled", ~CheckActionEnabled(T, L, t)
         PROVE  r.th[t].enabled = "disabled"
    <2>1. t \in visited
      BY <1>14, <1>1, <1>4, <1>5
    <2>2. t \in blocked /\ t \in 1..Len(p)
      BY <2>1, <1>14, <1>2, <1>5
    <2>3. r.th[t] = [T[t] EXCEPT !.enabled = "disabled", !.state = "BLOCKED"]
      BY <2>2, <1>1, <1>8
    <2> QED BY SMT, <2>2, <2>3, <1>3 DEF ThreadRecord
  <1>15. ASSUME r.chosen # c
         PROVE  /\ c = NoThread
                /\ r.chosen \in first..n
                /\ r.th[r.chosen] = T[r.chosen]
                /\ T[r.chosen].pending # NoAction /\ T[r.chosen].enabled # "disabled"
                /\ Prioritised(T[r.chosen].pending)
    <2>1. c = NoThread /\ r.chosen \in first_ones
      BY <1>1, <1>6, <1>15
    <2>2. r.chosen \in considered /\ r.chosen \notin blocked /\ Prioritised(T[r.chosen].pending)
      BY <2>1, <1>5
    <2>3. r.chosen \in first..n /\ r.chosen \in 1..Len(p)
      BY <2>2, <1>2, <1>5
    <2>4. ~Freeable(T, r.chosen)
      BY <2>2, <1>7 DEF Freeable
    <2>5. r.th[r.chosen] = T[r.chosen]
      BY <2>2, <2>3, <2>4, <1>1, <1>8
    <2> QED BY <2>1, <2>2, <2>3, <2>5, <1>5
  <1> QED BY <1>10, <1>11, <1>12, <1>13, <1>14, <1>15 DEF NextFacts

\* getNextThread keeps what is known of the threads, and the threads it has
\* been through are settled
LEMMA NextThreadOK ==
  ASSUME NEW p \in Programs, NEW T, NEW L, NEW n \in 1..Len(p), NEW c \in 0..Len(p), NEW first \in 1..(n + 1),
         ThreadsOK(p, T, n), Looped(p, T, L, n, c, first),
         NEW r, r = GetNextThread(T, L, c, first, n)
  PROVE  /\ ThreadsOK(p, r.th, n)
         /\ r.chosen \in 0..Len(p)
         /\ r.next = NoThread => Looped(p, r.th, L, n, r.chosen, n + 1)
         /\ r.next # NoThread =>
              /\ r.next \in 1..n
              /\ r.th[r.next].pending = NoAction
              /\ ~Complete(r.th, r.next)
              /\ Looped(p, r.th, L, n, r.chosen, r.next)
  <1>0. NextFacts(p, T, L, n, c, first, r)
    BY NextThreads
  <1>1. Len(p) \in Nat /\ n \in Nat /\ first \in Nat /\ first..n \subseteq 1..Len(p)
    BY SMT, CodeLengths
  <1>2. /\ r.th \in [1..Len(p) -> ThreadRecord]
        /\ \A t \in 1..Len(p) :
              \/ r.th[t] = T[t]
              \/ T[t].state = "COMPLETED" /\ r.th[t] = [T[t] EXCEPT !.state = "FREED"]
              \/ /\ t \in first..n
                 /\ T[t].pending # NoAction /\ T[t].enabled # "disabled" /\ ~CheckActionEnabled(T, L, t)
                 /\ r.th[t] = [T[t] EXCEPT !.enabled = "disabled", !.state = "BLOCKED"]
    BY <1>0 DEF NextFacts
  <1>3. /\ r.next = NoThread =>
             \A t \in first..n : Complete(T, t) \/ T[t].pending # NoAction
        /\ r.next # NoThread =>
             /\ r.next \in first..n
             /\ T[r.next].pending = NoAction /\ ~Complete(T, r.next) /\ r.th[r.next] = T[r.next]
             /\ \A t \in first..(r.next - 1) : Complete(T, t) \/ T[t].pending # NoAction
    BY <1>0 DEF NextFacts
  <1>4. \A t \in first..n :
          /\ r.next = NoThread \/ t < r.next
          /\ T[t].pending # NoAction /\ T[t].enabled = "enabled" /\ ~CheckActionEnabled(T, L, t)
          => r.th[t].enabled = "disabled"
    BY <1>0 DEF NextFacts
  <1>5. r.chosen # c =>
          /\ c = NoThread
          /\ r.chosen \in first..n
          /\ r.th[r.chosen] = T[r.chosen]
          /\ T[r.chosen].pending # NoAction /\ T[r.chosen].enabled # "disabled"
          /\ Prioritised(T[r.chosen].pending)
    BY <1>0 DEF NextFacts
  <1>6. \A t \in 1..Len(p) : T[t] \in ThreadRecord /\ ThreadOK(CodeOf(p, t), T[t]) /\ (t > n => T[t] = Unborn)
    BY DEF ThreadsOK
  <1>7. ASSUME NEW t \in 1..Len(p)
        PROVE  /\ r.th[t].pending = T[t].pending /\ r.th[t].pc = T[t].pc
               /\ r.th[t].wakeup = T[t].wakeup
               /\ Complete(r.th, t) <=> Complete(T, t)
               /\ r.th[t].enabled = T[t].enabled \/ r.th[t].enabled = "disabled"
               /\ ThreadOK(CodeOf(p, t), r.th[t])
    <2>1. T[t] \in ThreadRecord /\ ThreadOK(CodeOf(p, t), T[t])
      BY <1>6
    <2>2. CASE r.th[t] = T[t]
      BY <2>1, <2>2 DEF Complete
    <2>3. CASE T[t].state = "COMPLETED" /\ r.th[t] = [T[t] EXCEPT !.state = "FREED"]
      BY <2>1, <2>3, <1>2 DEF Complete, ThreadOK, ThreadRecord
    <2>4. CASE /\ T[t].pending # NoAction
               /\ r.th[t] = [T[t] EXCEPT !.enabled = "disabled", !.state = "BLOCKED"]
      BY <2>1, <2>4, <1>2, ZenonT(30) DEF Complete, ThreadOK, ThreadRecord
    <2> QED BY <2>2, <2>3, <2>4, <1>2
  <1>8. ASSUME NEW t \in 1..Len(p), t > n PROVE r.th[t] = Unborn
    <2>1. T[t] = Unborn /\ t \notin first..n
      BY SMT, <1>1, <1>6, <1>8
    <2>2. T[t].state # "COMPLETED"
      BY <2>1 DEF Unborn, NewThread
    <2> QED BY <2>1, <2>2, <1>2
  <1>9. ThreadsOK(p, r.th, n)
    BY <1>2, <1>7, <1>8 DEF ThreadsOK
  <1>10. ASSUME NEW t \in 1..(first - 1) PROVE Settled(r.th, L, t)
    <2>1. t \in 1..Len(p) /\ Settled(T, L, t)
      BY SMT, <1>1 DEF Looped
    <2>2. CheckActionEnabled(T, L, t) => CheckActionEnabled(r.th, L, t)
      BY <2>1, <1>6, <1>7, StaysEnabled
    <2> QED BY <2>1, <2>2, <1>7 DEF Settled
  <1>11. ASSUME NEW t \in first..n, r.next = NoThread \/ t < r.next PROVE Settled(r.th, L, t)
    <2>1. t \in 1..Len(p)
      BY <1>1
    <2>2. Complete(T, t) \/ T[t].pending # NoAction
      BY SMT, <1>1, <1>3, <1>11
    <2>3. r.th[t].enabled = "enabled" /\ T[t].pending # NoAction => CheckActionEnabled(T, L, t)
      BY <2>1, <1>4, <1>7, <1>11
    <2>4. CheckActionEnabled(T, L, t) => CheckActionEnabled(r.th, L, t)
      BY <2>1, <1>6, <1>7, StaysEnabled
    <2> QED BY <2>1, <2>2, <2>3, <2>4, <1>7 DEF Settled
  <1>12. ASSUME r.chosen \in 1..n PROVE Steady(CodeOf(p, r.chosen), r.th[r.chosen])
    <2>1. r.chosen \in 1..Len(p)
      BY SMT, <1>1, <1>12
    <2>2. CASE r.chosen = c
      <3>1. Steady(CodeOf(p, c), T[c])
        BY <1>12, <2>2 DEF Looped
      <3>2. T[c].pending # NoAction => CheckActionEnabled(T, L, c)
        BY <3>1 DEF Steady, CheckActionEnabled
      <3>3. r.th[c] = T[c]
        BY <3>1, <3>2, <2>1, <2>2, <1>2 DEF Steady
      <3> QED BY <3>1, <3>3, <2>2
    <2>3. CASE r.chosen # c
      <3>1. /\ r.th[r.chosen] = T[r.chosen]
            /\ T[r.chosen].pending # NoAction /\ T[r.chosen].enabled # "disabled"
            /\ T[r.chosen].pending.kind \in {"write", "create", "start", "finish"}
        BY <2>3, <1>5 DEF Prioritised
      <3>2. ThreadOK(CodeOf(p, r.chosen), T[r.chosen])
        BY <2>1, <1>6
      <3>3. T[r.chosen].enabled = "enabled"
        BY <3>1, <3>2 DEF ThreadOK, ThreadRecord
      <3> QED BY <3>1, <3>2, <3>3 DEF ThreadOK, Steady
    <2> QED BY <2>2, <2>3
  <1>13. ASSUME RMWsApart(p), NEW t \in 1..n, MidRMW(CodeOf(p, t), r.th[t]) PROVE r.chosen = t
    <2>1. t \in 1..Len(p)
      BY SMT, <1>1
    <2>2. MidRMW(CodeOf(p, t), T[t])
      BY <2>1, <1>7, <1>13 DEF MidRMW
    <2>3. c = t
      BY <2>2, <1>13 DEF Looped
    <2> QED BY SMT, <2>3, <1>1, <1>5 DEF NoThread
  <1>14. r.chosen \in 0..Len(p)
    BY SMT, <1>1, <1>5
  <1>15. CASE r.next = NoThread
    <2>1. \A t \in 1..((n + 1) - 1) : t \in 1..(first - 1) \/ t \in first..n
      BY SMT, <1>1
    <2>2. Looped(p, r.th, L, n, r.chosen, n + 1)
      BY <2>1, <1>10, <1>11, <1>12, <1>13, <1>15 DEF Looped
    <2> QED BY <2>2, <1>9, <1>14, <1>15
  <1>16. CASE r.next # NoThread
    <2>1. r.next \in first..n /\ r.next \in 1..n /\ T[r.next].pending = NoAction /\ ~Complete(T, r.next)
      BY SMT, <1>1, <1>3, <1>16
    <2>2. \A t \in 1..(r.next - 1) : t \in 1..(first - 1) \/ (t \in first..n /\ t < r.next)
      BY SMT, <2>1, <1>1
    <2>3. Looped(p, r.th, L, n, r.chosen, r.next)
      BY <2>2, <1>10, <1>11, <1>12, <1>13 DEF Looped
    <2>4. r.next \in 1..Len(p)
      BY <2>1, <1>1
    <2> QED BY <2>1, <2>3, <2>4, <1>7, <1>9, <1>14, <1>16
  <1> QED BY <1>15, <1>16

\* The run loop goes on with a thread without an action, or chooses a step
LEMMA ProceedOK ==
  ASSUME NEW p \in Programs, NEW T, NEW L, NEW n \in 1..Len(p), NEW c \in 0..Len(p), NEW first \in 1..(n + 1),
         ThreadsOK(p, T, n), Looped(p, T, L, n, c, first),
         old \in 1..Len(p),
         Proceed(T, L, c, first, n)
  PROVE  /\ Running(p, th', L, n, chosen_thread', old', curr_thread_num', mode')
         /\ mode' \in {"user", "choose"}
  <1>1. PICK r : /\ r = GetNextThread(T, L, c, first, n)
                 /\ chosen_thread' = r.chosen
                 /\ IF r.next = NoThread
                    THEN /\ th' = r.th
                         /\ mode' = "choose"
                         /\ curr_thread_num' = first
                         /\ UNCHANGED old
                    ELSE /\ th' = [r.th EXCEPT ![r.next].state = "RUNNING"]
                         /\ mode' = "user"
                         /\ curr_thread_num' = r.next
                         /\ old' = r.next
    BY DEF Proceed
  <1>2. /\ ThreadsOK(p, r.th, n)
        /\ r.chosen \in 0..Len(p)
        /\ r.next = NoThread => Looped(p, r.th, L, n, r.chosen, n + 1)
        /\ r.next # NoThread =>
             /\ r.next \in 1..n
             /\ r.th[r.next].pending = NoAction
             /\ ~Complete(r.th, r.next)
             /\ Looped(p, r.th, L, n, r.chosen, r.next)
    BY SMT, <1>1, NextThreadOK
  <1>3. CASE r.next = NoThread
    BY <1>1, <1>2, <1>3 DEF Running
  <1>4. CASE r.next # NoThread
    <2>1. r.next \in 1..n /\ r.next \in 1..Len(p) /\ Len(p) \in Nat /\ n \in Nat
      BY SMT, <1>2, <1>4, CodeLengths
    <2>2. th' = [r.th EXCEPT ![r.next].state = "RUNNING"]
      BY <1>1, <1>4
    <2>3. r.th \in [1..Len(p) -> ThreadRecord] /\ \A t \in 1..Len(p) : ThreadOK(CodeOf(p, t), r.th[t])
      BY <1>2 DEF ThreadsOK
    <2>4. th'[r.next] = [r.th[r.next] EXCEPT !.state = "RUNNING"] /\ \A t \in 1..Len(p) : t # r.next => th'[t] = r.th[t]
      BY <2>1, <2>2, <2>3
    <2>5. r.th[r.next] \in ThreadRecord /\ ThreadOK(CodeOf(p, r.next), r.th[r.next])
      BY <2>1, <2>3
    <2>6. r.th[r.next].pending = NoAction /\ ~Complete(r.th, r.next)
      BY <1>2, <1>4
    <2>7. /\ th'[r.next] \in ThreadRecord
          /\ th'[r.next].pending = NoAction /\ th'[r.next].pc = r.th[r.next].pc
          /\ th'[r.next].enabled = r.th[r.next].enabled
          /\ th'[r.next].wakeup = r.th[r.next].wakeup
          /\ th'[r.next].state = "RUNNING"
      BY <2>4, <2>5, <2>6 DEF ThreadRecord
    <2>8. r.th[r.next].enabled # "sleep"
      BY SMT, <2>5, <2>6 DEF ThreadOK, NoAction, Plain, Call
    <2>9. ThreadOK(CodeOf(p, r.next), th'[r.next])
      BY <2>5, <2>6, <2>7, <2>8 DEF ThreadOK
    <2>10. th' \in [1..Len(p) -> ThreadRecord]
      BY <2>1, <2>2, <2>3, <2>4, <2>7
    <2>11. ThreadsOK(p, th', n)
      <3>1. \A t \in 1..Len(p) : t > n => t # r.next
        BY SMT, <2>1
      <3> QED BY <2>3, <2>4, <2>9, <2>10, <3>1, <1>2 DEF ThreadsOK
    <2>12. \A t \in 1..Len(p) : Complete(r.th, t) <=> Complete(th', t)
      BY <2>4, <2>6, <2>7 DEF Complete
    <2>13. ASSUME NEW t \in 1..(r.next - 1) PROVE Settled(th', L, t)
      <3>1. t \in 1..Len(p) /\ t # r.next /\ Settled(r.th, L, t)
        BY SMTT(30), <2>1, <1>2, <1>4 DEF Looped
      <3>2. CheckActionEnabled(r.th, L, t) => CheckActionEnabled(th', L, t)
        BY <3>1, <2>3, <2>4, <2>12, StaysEnabled
      <3> QED BY <3>1, <3>2, <2>4, <2>12 DEF Settled
    <2>14. ASSUME NEW t \in 1..Len(p)
           PROVE  /\ Steady(CodeOf(p, t), r.th[t]) => Steady(CodeOf(p, t), th'[t])
                  /\ MidRMW(CodeOf(p, t), th'[t]) => MidRMW(CodeOf(p, t), r.th[t])
      <3>1. CASE t = r.next
        BY <3>1, <2>6, <2>7 DEF Steady, MidRMW
      <3>2. CASE t # r.next
        BY <3>2, <2>4
      <3> QED BY <3>1, <3>2
    <2>15. Looped(p, r.th, L, n, r.chosen, r.next)
      BY <1>2, <1>4
    <2>16. 1..n \subseteq 1..Len(p)
      BY SMT, <2>1
    <2>17. Looped(p, th', L, n, r.chosen, r.next)
      BY <2>13, <2>14, <2>15, <2>16 DEF Looped
    <2>18. ~Complete(th', r.next)
      BY <2>7 DEF Complete
    <2> QED BY <2>1, <2>7, <2>11, <2>17, <2>18, <1>1, <1>2, <1>4 DEF Running
  <1> QED BY <1>3, <1>4

----------------------------------------------------------------------------
(* Every step of the run loop keeps the invariant *)

\* take_step removes a thread that blocked or completed (Taken)
Retired(r) == IF r.state \in {"BLOCKED", "COMPLETED", "FREED"} THEN [r EXCEPT !.enabled = "disabled"] ELSE r

\* T is the threads after thread t took its action, and c the thread to follow
Taking(p, t, T, n, c) ==
  /\ t \in 1..n
  /\ T \in [1..Len(p) -> ThreadRecord]
  /\ \A u \in 1..Len(p) : u # t => ThreadOK(CodeOf(p, u), T[u])
  /\ \A u \in 1..Len(p) : u > n => T[u] = Unborn
  /\ ThreadOK(CodeOf(p, t), Retired(T[t]))
  /\ c \in 1..n => Steady(CodeOf(p, c), T[c]) /\ T[c].state # "BLOCKED"
  /\ RMWsApart(p) => \A u \in 1..n : MidRMW(CodeOf(p, u), T[u]) => c = u

----------------------------------------------------------------------------
(* Parts of a step *)

\* Whoever is selected is a live, enabled thread with an enabled action; if an
\* RMW is half done, it is that of this thread
LEMMA SelectedOK ==
  ASSUME Inv, NEW t \in Threads, Selected(t), th[t].wakeup \/ th[t].pending # NoAction
  PROVE  /\ t \in 1..num_threads
         /\ th[t].enabled = "enabled" /\ th[t].state = "READY" /\ th[t].pending # NoAction
         /\ CheckActionEnabled(th, locked, t)
         /\ RMWsApart(prog) => \A u \in 1..num_threads : MidRMW(CodeOf(prog, u), th[u]) => u = t
  <1>1. /\ mode = "choose" /\ num_threads \in 1..Len(prog) /\ prog \in Programs
        /\ ThreadsOK(prog, th, num_threads)
        /\ Looped(prog, th, locked, num_threads, chosen_thread, num_threads + 1)
    BY DEF Selected, Inv, Running
  <1>2. Len(prog) \in Nat /\ num_threads \in Nat /\ t \in 1..Len(prog) /\ t \in Nat
    BY SMT, <1>1, CodeLengths DEF Threads
  <1>3. th[t] \in ThreadRecord /\ ThreadOK(CodeOf(prog, t), th[t]) /\ (t > num_threads => th[t] = Unborn)
    BY <1>1, <1>2 DEF ThreadsOK
  <1>4. th[t] # Unborn
    BY DEF Unborn, NewThread
  <1>5. t \in 1..num_threads
    BY SMT, <1>2, <1>3, <1>4
  <1>6. th[t].enabled = "enabled"
    <2>1. CASE chosen_thread # NoThread
      <3>1. t = chosen_thread
        BY <2>1 DEF Selected
      <3> QED BY <3>1, <1>1, <1>5 DEF Looped, Steady
    <2>2. CASE chosen_thread = NoThread
      BY <2>2 DEF Selected, Available
    <2> QED BY <2>1, <2>2
  <1>7. Settled(th, locked, t)
    BY SMT, <1>1, <1>2, <1>5 DEF Looped
  <1>8. ~Complete(th, t)
    BY <1>3, <1>6 DEF ThreadOK, Complete
  <1>9. th[t].pending # NoAction /\ CheckActionEnabled(th, locked, t)
    BY <1>6, <1>7, <1>8 DEF Settled
  <1>10. th[t].state = "READY"
    BY <1>3, <1>6, <1>9 DEF ThreadOK
  <1>11. ASSUME RMWsApart(prog), NEW u \in 1..num_threads, MidRMW(CodeOf(prog, u), th[u]) PROVE u = t
    <2>1. chosen_thread = u /\ u # NoThread
      BY SMT, <1>1, <1>2, <1>11 DEF Looped, NoThread
    <2> QED BY <2>1 DEF Selected
  <1> QED BY <1>5, <1>6, <1>9, <1>10, <1>11


\* A sleeper that is woken because its time has come
LEMMA WokenOK ==
  ASSUME NEW C, NEW r, Len(C) \in Nat, ThreadOK(C, r), r.enabled = "sleep",
         NEW s \in ThreadRecord, s.pending = r.pending, s.pc = r.pc, s.state = r.state, s.enabled = "enabled"
  PROVE  ThreadOK(C, s)
  <1>1. /\ r \in ThreadRecord /\ r.pc \in Nat /\ r.pc <= Len(C) /\ r.state = "READY"
        /\ r.pending.kind \in {"sleep", "wait", "timedwait"}
    BY DEF ThreadOK, ThreadRecord
  <1>2. r.pc >= 1 /\ r.pending = C[r.pc]
    BY SMT, <1>1 DEF ThreadOK, NoAction, Plain, Call
  <1>3. CanWait(C) \/ r.pending.kind = "sleep"
    BY SMT, <1>1, <1>2 DEF CanWait
  <1> QED BY <1>1, <1>2, <1>3 DEF ThreadOK

\* A thread that Scheduler::wake enables, with an action or not, or that is notified
LEMMA EnabledOK ==
  ASSUME NEW C, NEW r, ThreadOK(C, r),
         NEW s \in ThreadRecord, s.pending = r.pending, s.pc = r.pc, s.state = "READY", s.enabled = "enabled",
         s.wakeup => r.wakeup \/ CanWait(C)
  PROVE  ThreadOK(C, s)
  BY DEF ThreadOK

\* What is known of the threads T once t has lost its action of this kind and
\* sleepers are woken
SteppedFacts(t, kind, T) ==
  /\ t \in 1..num_threads
  /\ ThreadsOK(prog, T, num_threads)
  /\ T[t] = [th[t] EXCEPT !.pending = NoAction]
  /\ th[t].enabled = "enabled" /\ th[t].state = "READY" /\ th[t].wakeup = FALSE
  /\ th[t].pc \in 1..Len(CodeOf(prog, t)) /\ th[t].pending = CodeOf(prog, t)[th[t].pc]
  /\ \A u \in 1..Len(prog) : u # t => T[u].pending = th[u].pending /\ T[u].pc = th[u].pc
  /\ RMWsApart(prog) => \A u \in 1..num_threads : u # t => ~MidRMW(CodeOf(prog, u), T[u])
  /\ th[t].pending.kind = kind /\ mode = "choose" /\ ~finished

\* The threads when t has lost its action and the sleepers E are woken
LEMMA SteppedOK ==
  ASSUME Inv, NEW t \in Threads, NEW E \in SUBSET Sleeping(th), NEW kind, kind # "none", Stepping(t, kind, E),
         NEW T, T = Stepped(t, E)
  PROVE  SteppedFacts(t, kind, T)
  <1>1. /\ Selected(t) /\ ~th[t].wakeup /\ th[t].pending.kind = kind /\ th[t].pending # NoAction
    BY SMT DEF Stepping, NoAction, Plain, Call
  <1>2. /\ t \in 1..num_threads
        /\ th[t].enabled = "enabled" /\ th[t].state = "READY"
        /\ RMWsApart(prog) => \A u \in 1..num_threads : MidRMW(CodeOf(prog, u), th[u]) => u = t
    BY <1>1, SelectedOK
  <1>3. prog \in Programs /\ num_threads \in 1..Len(prog) /\ ThreadsOK(prog, th, num_threads)
    BY DEF Inv, Running
  <1>4. Len(prog) \in Nat /\ num_threads \in Nat /\ 1..num_threads \subseteq 1..Len(prog)
        /\ \A u \in 1..Len(prog) : Len(CodeOf(prog, u)) \in Nat
    BY SMT, <1>3, CodeLengths
  <1>5. /\ th \in [1..Len(prog) -> ThreadRecord]
        /\ \A u \in 1..Len(prog) : ThreadOK(CodeOf(prog, u), th[u]) /\ (u > num_threads => th[u] = Unborn)
    BY <1>3 DEF ThreadsOK
  <1>6. t \in 1..Len(prog) /\ t \notin E
    BY <1>2, <1>4 DEF Sleeping
  <1>7. DOMAIN T = 1..Len(prog) /\ T = [u \in DOMAIN T |-> T[u]]
    BY <1>5 DEF Stepped, WakeUp
  <1>8. T[t] = [th[t] EXCEPT !.pending = NoAction]
    BY <1>5, <1>6 DEF Stepped, WakeUp
  <1>9. ASSUME NEW u \in 1..Len(prog), u # t, u \notin E PROVE T[u] = th[u]
    BY <1>5, <1>9 DEF Stepped, WakeUp
  <1>10. ASSUME NEW u \in 1..Len(prog), u \in E
         PROVE  \E v \in {"none", "0", "1", "ETIMEDOUT"} : T[u] = [th[u] EXCEPT !.enabled = "enabled", !.wakeup = TRUE, !.ret = v]
    <2>1. u # t /\ th[u] \in ThreadRecord
      BY <1>5, <1>6, <1>10
    <2>2. th[u].ret \in {"none", "0", "1", "ETIMEDOUT"}
      BY <2>1 DEF ThreadRecord
    <2>3. T[u] = [th[u] EXCEPT !.enabled = "enabled", !.wakeup = TRUE, 
                               !.ret = IF th[u].pending.kind = "timedwait" THEN "ETIMEDOUT" ELSE @]
      BY <2>1, <1>5, <1>10 DEF Stepped, WakeUp
    <2> QED BY <2>2, <2>3
  <1>11. ASSUME NEW u \in 1..Len(prog), u # t
         PROVE  /\ ThreadOK(CodeOf(prog, u), T[u]) /\ T[u].pending = th[u].pending /\ T[u].pc = th[u].pc
                /\ u > num_threads => T[u] = Unborn
    <2>1. CASE u \in E
      <3>1. PICK v \in {"none", "0", "1", "ETIMEDOUT"} : T[u] = [th[u] EXCEPT !.enabled = "enabled", !.wakeup = TRUE, !.ret = v]
        BY <2>1, <1>10
      <3>2. th[u].enabled = "sleep"
        BY <2>1 DEF Sleeping
      <3>3. th[u] # Unborn
        BY <3>2 DEF Unborn, NewThread
      <3>4. Len(CodeOf(prog, u)) \in Nat /\ ThreadOK(CodeOf(prog, u), th[u]) /\ ~(u > num_threads)
        BY <3>3, <1>4, <1>5
      <3>5. ThreadOK(CodeOf(prog, u), T[u]) /\ T[u].pending = th[u].pending /\ T[u].pc = th[u].pc
        <4>1. th[u] \in ThreadRecord
          BY <1>5
        <4>2. /\ T[u] \in ThreadRecord /\ T[u].pending = th[u].pending /\ T[u].pc = th[u].pc
              /\ T[u].state = th[u].state /\ T[u].enabled = "enabled"
          BY <4>1, <3>1 DEF ThreadRecord
        <4> QED BY <4>2, <3>2, <3>4, WokenOK
      <3> QED BY <3>4, <3>5
    <2>2. CASE u \notin E
      BY <2>2, <1>5, <1>9, <1>11
    <2> QED BY <2>1, <2>2
  <1>12. th[t].pc \in 1..Len(CodeOf(prog, t)) /\ th[t].pending = CodeOf(prog, t)[th[t].pc] /\ th[t].wakeup = FALSE
    <2>1. th[t] \in ThreadRecord /\ ThreadOK(CodeOf(prog, t), th[t])
      BY <1>5, <1>6
    <2> QED BY SMT, <2>1, <1>1, <1>4, <1>6 DEF ThreadOK, ThreadRecord
  <1>13. ThreadOK(CodeOf(prog, t), T[t])
    <2>1. th[t] \in ThreadRecord /\ ThreadOK(CodeOf(prog, t), th[t])
      BY <1>5, <1>6
    <2>2. NoAction \in Actions
      BY DEF Actions
    <2>3. /\ T[t] \in ThreadRecord /\ T[t].pending = NoAction /\ T[t].pc = th[t].pc /\ T[t].state = th[t].state
          /\ T[t].enabled = th[t].enabled /\ T[t].wakeup = th[t].wakeup
      BY <2>1, <2>2, <1>8 DEF ThreadRecord
    <2> QED BY <2>1, <2>3, <1>2, <1>12 DEF ThreadOK
  <1>14. ThreadsOK(prog, T, num_threads)
    <2>1. \A u \in 1..Len(prog) : ThreadOK(CodeOf(prog, u), T[u]) /\ (u > num_threads => T[u] = Unborn)
      BY SMT, <1>2, <1>4, <1>11, <1>13
    <2>2. \A u \in 1..Len(prog) : T[u] \in ThreadRecord
      BY <2>1 DEF ThreadOK
    <2> QED BY <2>1, <2>2, <1>7 DEF ThreadsOK
  <1>15. ASSUME RMWsApart(prog), NEW u \in 1..num_threads, u # t PROVE ~MidRMW(CodeOf(prog, u), T[u])
    <2>1. ~MidRMW(CodeOf(prog, u), th[u])
      BY <1>2, <1>15
    <2>2. T[u].pending = th[u].pending /\ T[u].pc = th[u].pc
      BY <1>4, <1>11, <1>15
    <2> QED BY <2>1, <2>2 DEF MidRMW
  <1>16. mode = "choose" /\ ~finished
    BY <1>1 DEF Selected, Inv
  <1> QED BY <1>1, <1>2, <1>8, <1>11, <1>12, <1>14, <1>15, <1>16 DEF SteppedFacts

\* What Wake does to the threads T
WakeFacts(p, T, n, S, U) ==
  /\ ThreadsOK(p, U, n)
  /\ \A u \in 1..Len(p) : U[u].pending = T[u].pending /\ U[u].pc = T[u].pc
  /\ \A u \in 1..Len(p) : u \notin S => U[u] = T[u]
  /\ \A u \in 1..Len(p) : u \in S => U[u].state = "READY" /\ U[u].enabled = "enabled" /\ U[u].wakeup = T[u].wakeup

\* Scheduler::wake of threads that wait for a mutex or a thread
LEMMA WakeOK ==
  ASSUME NEW p \in Programs, NEW n \in 1..Len(p), NEW T, ThreadsOK(p, T, n),
         NEW S, \A u \in 1..Len(p) : u \in S => u <= n,
         NEW U, U = Wake(T, S)
  PROVE  WakeFacts(p, T, n, S, U)
  <1>1. Len(p) \in Nat /\ n \in Nat
    BY SMT, CodeLengths
  <1>2. /\ T \in [1..Len(p) -> ThreadRecord]
        /\ \A u \in 1..Len(p) : ThreadOK(CodeOf(p, u), T[u]) /\ (u > n => T[u] = Unborn)
    BY DEF ThreadsOK
  <1>3. DOMAIN U = 1..Len(p) /\ U = [u \in DOMAIN U |-> U[u]]
    BY <1>2 DEF Wake
  <1>4. ASSUME NEW u \in 1..Len(p), u \notin S PROVE U[u] = T[u]
    BY <1>2, <1>4 DEF Wake
  <1>5. ASSUME NEW u \in 1..Len(p), u \in S
        PROVE  /\ U[u] \in ThreadRecord /\ U[u].pending = T[u].pending /\ U[u].pc = T[u].pc
               /\ U[u].state = "READY" /\ U[u].enabled = "enabled" /\ U[u].wakeup = T[u].wakeup
    <2>1. U[u] = [T[u] EXCEPT !.enabled = "enabled", !.state = "READY"]
      BY <1>2, <1>5 DEF Wake
    <2>2. T[u] \in ThreadRecord
      BY <1>2
    <2> QED BY <2>1, <2>2 DEF ThreadRecord
  <1>6. ASSUME NEW u \in 1..Len(p)
        PROVE  ThreadOK(CodeOf(p, u), U[u]) /\ U[u] \in ThreadRecord /\ (u > n => U[u] = Unborn)
    <2>1. CASE u \in S
      <3>1. ThreadOK(CodeOf(p, u), U[u])
        BY SMT, <2>1, <1>2, <1>5, EnabledOK
      <3> QED BY SMT, <2>1, <3>1, <1>1, <1>5
    <2>2. CASE u \notin S
      BY <2>2, <1>2, <1>4
    <2> QED BY <2>1, <2>2
  <1>7. ThreadsOK(p, U, n)
    BY <1>3, <1>6 DEF ThreadsOK
  <1> QED BY <1>4, <1>5, <1>7 DEF WakeFacts

\* Notified threads
LEMMA NotifiedOK ==
  ASSUME NEW p \in Programs, NEW n \in 1..Len(p), NEW T, ThreadsOK(p, T, n),
         NEW S, \A u \in 1..Len(p) : u \in S => u <= n /\ CanWait(CodeOf(p, u)),
         NEW U, U = Notified(T, S)
  PROVE  /\ ThreadsOK(p, U, n)
         /\ \A u \in 1..Len(p) : U[u].pending = T[u].pending /\ U[u].pc = T[u].pc
  <1> DEFINE R == {u \in S : T[u].state # "COMPLETED"}
             W == Wake(T, R)
  <1>1. Len(p) \in Nat /\ n \in Nat
    BY SMT, CodeLengths
  <1>2. /\ T \in [1..Len(p) -> ThreadRecord]
        /\ \A u \in 1..Len(p) : ThreadOK(CodeOf(p, u), T[u]) /\ (u > n => T[u] = Unborn)
    BY DEF ThreadsOK
  <1>3. \A u \in 1..Len(p) : u \in R => u <= n
    OBVIOUS
  <1>4. U = [u \in DOMAIN W |-> IF u \in S THEN [W[u] EXCEPT !.wakeup = TRUE] ELSE W[u]]
    BY DEF Notified
  <1> HIDE DEF R, W
  <1>5. /\ ThreadsOK(p, W, n)
        /\ \A u \in 1..Len(p) : W[u].pending = T[u].pending /\ W[u].pc = T[u].pc
    BY SMT, <1>3, WakeOK DEF W, WakeFacts
  <1>6. /\ W \in [1..Len(p) -> ThreadRecord]
        /\ \A u \in 1..Len(p) : ThreadOK(CodeOf(p, u), W[u]) /\ (u > n => W[u] = Unborn)
    BY <1>5 DEF ThreadsOK
  <1>7. DOMAIN U = 1..Len(p) /\ U = [u \in DOMAIN U |-> U[u]]
    BY <1>4, <1>6
  <1>8. ASSUME NEW u \in 1..Len(p)
        PROVE  /\ ThreadOK(CodeOf(p, u), U[u]) /\ U[u] \in ThreadRecord /\ (u > n => U[u] = Unborn)
               /\ U[u].pending = W[u].pending /\ U[u].pc = W[u].pc
    <2>1. CASE u \in S
      <3>1. U[u] = [W[u] EXCEPT !.wakeup = TRUE] /\ W[u] \in ThreadRecord
        BY <2>1, <1>4, <1>6
      <3>2. /\ U[u] \in ThreadRecord /\ U[u].pending = W[u].pending /\ U[u].pc = W[u].pc
            /\ U[u].state = W[u].state /\ U[u].enabled = W[u].enabled
        BY <3>1 DEF ThreadRecord
      <3>3. ThreadOK(CodeOf(p, u), W[u]) /\ CanWait(CodeOf(p, u)) /\ u <= n
        BY <2>1, <1>6
      <3>4. ThreadOK(CodeOf(p, u), U[u])
        BY <3>2, <3>3 DEF ThreadOK
      <3> QED BY SMT, <3>2, <3>3, <3>4, <1>1
    <2>2. CASE u \notin S
      <3>1. U[u] = W[u]
        BY <2>2, <1>4, <1>6
      <3> QED BY <3>1, <1>6
    <2> QED BY <2>1, <2>2
  <1>9. ThreadsOK(p, U, n)
    BY <1>7, <1>8 DEF ThreadsOK
  <1> QED BY <1>5, <1>8, <1>9

\* Sleepers leave the lists of condition variables, and nobody enters
LEMMA ListsOK ==
  ASSUME Inv, NEW T, NEW E
  PROVE  WaitersOK(prog, LeaveLists(T, E), num_threads)
  <1>1. Len(prog) \in Nat /\ num_threads \in 1..Len(prog) /\ WaitersOK(prog, waiters, num_threads)
    BY CodeFacts DEF Inv
  <1> DEFINE W == LeaveLists(T, E)
  <1>2. ASSUME NEW c \in CondVars, NEW t \in 1..Len(prog)
        PROVE  W[c][t] \in Nat /\ (W[c][t] > 0 => waiters[c][t] > 0)
    <2>1. waiters[c] \in [1..Len(prog) -> Nat] /\ waiters[c][t] \in Nat
      BY <1>1 DEF WaitersOK
    <2>2. W[c][t] = waiters[c][t] \/ (waiters[c][t] > 0 /\ W[c][t] = waiters[c][t] - 1)
      BY <2>1 DEF LeaveLists, Listed, Threads
    <2> QED BY SMT, <2>1, <2>2
  <1>3. DOMAIN W = CondVars /\ W = [c \in DOMAIN W |-> W[c]]
    BY DEF LeaveLists
  <1>4. \A c \in CondVars : DOMAIN W[c] = 1..Len(prog) /\ W[c] = [t \in DOMAIN W[c] |-> W[c][t]]
    BY DEF LeaveLists, Threads
  <1> HIDE DEF W
  <1>5. \A c \in CondVars : W[c] \in [1..Len(prog) -> Nat]
    BY <1>2, <1>4
  <1>6. W \in [CondVars -> [1..Len(prog) -> Nat]]
    BY <1>3, <1>5
  <1>7. WaitersOK(prog, W, num_threads)
    BY <1>1, <1>2, <1>6 DEF WaitersOK
  <1> QED BY <1>7 DEF W

\* Removing a thread from the enabled ones keeps its part of the invariant
LEMMA RetiredOK ==
  ASSUME NEW C, NEW r, ThreadOK(C, r)
  PROVE  ThreadOK(C, Retired(r))
  <1>1. CASE r.state \in {"BLOCKED", "COMPLETED", "FREED"}
    <2>1. Retired(r) = [r EXCEPT !.enabled = "disabled"] /\ r \in ThreadRecord
      BY <1>1 DEF Retired, ThreadOK
    <2>2. /\ Retired(r) \in ThreadRecord /\ Retired(r).pending = r.pending /\ Retired(r).pc = r.pc
          /\ Retired(r).state = r.state /\ Retired(r).enabled = "disabled" /\ Retired(r).wakeup = r.wakeup
      BY <2>1 DEF ThreadRecord
    <2> QED BY <2>2 DEF ThreadOK
  <1>2. CASE r.state \notin {"BLOCKED", "COMPLETED", "FREED"}
    BY <1>2 DEF Retired
  <1> QED BY <1>1, <1>2

\* After a step that does not end the execution the loop goes on
LEMMA TakenOK ==
  ASSUME Inv, num_threads' \in 1..Len(prog), NEW t, NEW T, NEW c \in 0..Len(prog),
         Taking(prog, t, T, num_threads', c), Taken(t, T, c), ~finished'
  PROVE  /\ Running(prog, th', locked', num_threads', chosen_thread', old', curr_thread_num', mode')
         /\ mode' \in {"user", "choose"} /\ bugs' = bugs
  <1> DEFINE n == num_threads'
             p == prog
             T1 == IF T[t].state = "BLOCKED" \/ Complete(T, t) THEN [T EXCEPT ![t].enabled = "disabled"] ELSE T
  <1>1. Proceed(T1, locked', c, Main, n) /\ bugs' = bugs
    BY DEF Taken
  <1>2. p \in Programs /\ Len(p) \in Nat /\ n \in 1..Len(p) /\ n \in Nat /\ old \in 1..Len(p) /\ t \in 1..n /\ t \in 1..Len(p)
        /\ c \in 0..Len(p)
    BY SMT, CodeLengths DEF Inv, Running, Taking
  <1>3. T \in [1..Len(p) -> ThreadRecord] /\ T[t] \in ThreadRecord
    BY <1>2 DEF Taking
  <1>4. T1[t] = Retired(T[t]) /\ DOMAIN T1 = 1..Len(p) /\ T1 = [u \in DOMAIN T1 |-> T1[u]]
    <2>1. CASE T[t].state \in {"BLOCKED", "COMPLETED", "FREED"}
      <3>1. T1 = [T EXCEPT ![t].enabled = "disabled"]
        BY <2>1 DEF Complete
      <3>2. Retired(T[t]) = [T[t] EXCEPT !.enabled = "disabled"]
        BY <2>1 DEF Retired
      <3> HIDE DEF T1
      <3> QED BY <3>1, <3>2, <1>2, <1>3
    <2>2. CASE T[t].state \notin {"BLOCKED", "COMPLETED", "FREED"}
      <3>1. T1 = T
        BY <2>2 DEF Complete
      <3>2. Retired(T[t]) = T[t]
        BY <2>2 DEF Retired
      <3> HIDE DEF T1
      <3> QED BY <3>1, <3>2, <1>2, <1>3
    <2> QED BY <2>1, <2>2
  <1>5. \A u \in 1..Len(p) : u # t => T1[u] = T[u]
    BY <1>3
  <1>6. T1[t].pending = T[t].pending /\ T1[t].pc = T[t].pc
    BY SMT, <1>3, <1>4 DEF Retired, ThreadRecord
  <1> HIDE DEF T1
  <1>7. \A u \in 1..Len(p) : ThreadOK(CodeOf(p, u), T1[u])
    BY <1>4, <1>5 DEF Taking
  <1>8. \A u \in 1..Len(p) : T1[u] \in ThreadRecord
    BY <1>7 DEF ThreadOK
  <1>9. \A u \in 1..Len(p) : u > n => T1[u] = Unborn
    BY SMT, <1>2, <1>5 DEF Taking
  <1>10. ThreadsOK(p, T1, n)
    BY <1>4, <1>7, <1>8, <1>9 DEF ThreadsOK
  <1>11. ASSUME c \in 1..n PROVE Steady(CodeOf(p, c), T1[c])
    <2>1. Steady(CodeOf(p, c), T[c]) /\ T[c].state # "BLOCKED"
      BY <1>11 DEF Taking
    <2>2. c = t => T1[c] = T[c]
      BY <2>1, <1>4 DEF Retired, Steady
    <2>3. c \in 1..Len(p)
      BY SMT, <1>2, <1>11
    <2> QED BY <2>1, <2>2, <2>3, <1>5
  <1>12. ASSUME RMWsApart(p), NEW u \in 1..n, MidRMW(CodeOf(p, u), T1[u]) PROVE c = u
    <2>1. u \in 1..Len(p)
      BY SMT, <1>2
    <2>2. MidRMW(CodeOf(p, u), T[u])
      BY <2>1, <1>5, <1>6, <1>12 DEF MidRMW
    <2> QED BY <2>2, <1>12 DEF Taking
  <1>13. Looped(p, T1, locked', n, c, 1)
    BY SMT, <1>11, <1>12 DEF Looped
  <1> HIDE DEF n, p
  <1>14. 1 \in 1..(n + 1) /\ Main = 1
    BY SMT, <1>2 DEF Main
  <1>15. /\ Running(p, th', locked', n, chosen_thread', old', curr_thread_num', mode')
         /\ mode' \in {"user", "choose"}
    BY <1>1, <1>2, <1>10, <1>13, <1>14, ProceedOK
  <1> QED BY <1>1, <1>15 DEF n, p

\* So the invariant is kept when the step was a proper one
LEMMA StepDone ==
  ASSUME Inv, UNCHANGED prog, num_threads' \in 1..Len(prog), WaitersOK(prog, waiters', num_threads'), ~finished',
         NEW t, NEW T, NEW c \in 0..Len(prog), Taking(prog, t, T, num_threads', c), Taken(t, T, c)
  PROVE  Inv'
  <1>1. /\ Running(prog, th', locked', num_threads', chosen_thread', old', curr_thread_num', mode')
        /\ mode' \in {"user", "choose"}
    BY TakenOK
  <1>2. EndIsJudged'
    BY <1>1 DEF EndIsJudged
  <1>3. Running(prog', th', locked', num_threads', chosen_thread', old', curr_thread_num', mode')
    BY <1>1
  <1>4. prog' \in Programs /\ num_threads' \in 1..Len(prog') /\ WaitersOK(prog', waiters', num_threads')
    BY DEF Inv
  <1> QED BY <1>1, <1>2, <1>3, <1>4 DEF Inv


\* A step that leaves the other threads their actions, and t no half of an RMW
LEMMA OwnStep ==
  ASSUME Inv, NEW t \in Threads, NEW E \in SUBSET Sleeping(th), NEW kind, kind # "none", Stepping(t, kind, E),
         NEW F \in [1..Len(prog) -> ThreadRecord],
         \A u \in 1..Len(prog) : u # t =>
            /\ ThreadOK(CodeOf(prog, u), F[u]) /\ (u > num_threads => F[u] = Unborn)
            /\ F[u].pending = Stepped(t, E)[u].pending /\ F[u].pc = Stepped(t, E)[u].pc,
         ThreadOK(CodeOf(prog, t), Retired(F[t])),
         ~MidRMW(CodeOf(prog, t), F[t]),
         Taken(t, F, NoThread),
         UNCHANGED num_threads, WaitersOK(prog, waiters', num_threads), ~finished'
  PROVE  Inv'
  <1> DEFINE T == Stepped(t, E)
  <1>1. SteppedFacts(t, kind, T)
    BY SteppedOK
  <1>2. /\ t \in 1..num_threads
        /\ RMWsApart(prog) => \A u \in 1..num_threads : u # t => ~MidRMW(CodeOf(prog, u), T[u])
    BY <1>1 DEF SteppedFacts
  <1>3. UNCHANGED prog /\ num_threads \in 1..Len(prog) /\ prog \in Programs
    BY DEF Stepping, Inv
  <1>4. Len(prog) \in Nat /\ num_threads \in Nat /\ t \in 1..Len(prog) /\ 1..num_threads \subseteq 1..Len(prog)
    <2>1. Len(prog) \in Nat /\ t \in 1..Len(prog)
      BY <1>2, <1>3, LiveInside, ProgramLength
    <2> QED BY <1>2, <1>3, <2>1, LiveInside, RangeFacts
  <1>5. \A u \in 1..Len(prog) : u # t => F[u].pending = T[u].pending /\ F[u].pc = T[u].pc
    OBVIOUS
  <1> HIDE DEF T
  <1>6. RMWsApart(prog) => \A u \in 1..num_threads : ~MidRMW(CodeOf(prog, u), F[u])
    BY <1>2, <1>4, <1>5 DEF MidRMW
  <1>7. \A u \in 1..Len(prog) : u > num_threads => F[u] = Unborn
    BY SMT, <1>2, <1>4
  <1>8. Taking(prog, t, F, num_threads', 0)
    BY SMTT(30), <1>2, <1>6, <1>7 DEF Taking
  <1>9. NoThread = 0 /\ 0 \in 0..Len(prog)
    BY SMT, <1>4 DEF NoThread
  <1>10. WaitersOK(prog, waiters', num_threads') /\ num_threads' \in 1..Len(prog) /\ Taken(t, F, 0)
    BY <1>3, <1>9
  <1> QED BY <1>3, <1>8, <1>9, <1>10, StepDone

\* A step after which thread t has no action and the others have theirs
LEMMA QuietStep ==
  ASSUME Inv, NEW t \in Threads, NEW E \in SUBSET Sleeping(th), NEW kind, kind \notin {"none", "rmwr"},
         Stepping(t, kind, E),
         NEW F, ThreadsOK(prog, F, num_threads),
         \A u \in 1..Len(prog) : F[u].pending = Stepped(t, E)[u].pending /\ F[u].pc = Stepped(t, E)[u].pc,
         Taken(t, F, NoThread),
         UNCHANGED num_threads, WaitersOK(prog, waiters', num_threads), finished' = finished
  PROVE  Inv'
  <1> DEFINE T == Stepped(t, E)
  <1>1. SteppedFacts(t, kind, T) /\ kind # "none"
    BY SteppedOK
  <1>2. /\ t \in 1..num_threads
        /\ T[t] = [th[t] EXCEPT !.pending = NoAction]
        /\ th[t].pc \in 1..Len(CodeOf(prog, t)) /\ th[t].pending = CodeOf(prog, t)[th[t].pc]
        /\ th[t].pending.kind = kind /\ ~finished
    BY <1>1 DEF SteppedFacts
  <1>3. t \in 1..Len(prog)
    BY DEF Threads
  <1>4. th[t] \in ThreadRecord
    BY <1>3 DEF Inv, Running, ThreadsOK
  <1>5. T[t].pending = NoAction /\ T[t].pc = th[t].pc
    BY <1>2, <1>4 DEF ThreadRecord
  <1>6. F[t].pending = NoAction /\ F[t].pc = th[t].pc
    BY <1>3, <1>5
  <1>7. ~MidRMW(CodeOf(prog, t), F[t])
    BY SMT, <1>2, <1>6 DEF MidRMW, NoAction, Plain, Call
  <1>8. F \in [1..Len(prog) -> ThreadRecord]
         /\ \A u \in 1..Len(prog) : ThreadOK(CodeOf(prog, u), F[u]) /\ (u > num_threads => F[u] = Unborn)
    BY DEF ThreadsOK
  <1>9. ThreadOK(CodeOf(prog, t), Retired(F[t]))
    BY <1>3, <1>8, RetiredOK
  <1> HIDE DEF T
  <1> QED BY <1>1, <1>2, <1>7, <1>8, <1>9, OwnStep, ZenonT(30)

\* A step after which t has another return value at most
LEMMA RetStep ==
  ASSUME Inv, NEW t \in Threads, NEW E \in SUBSET Sleeping(th), NEW kind, kind \notin {"none", "rmwr"},
         Stepping(t, kind, E),
         NEW v \in {"none", "0", "1", "ETIMEDOUT"},
         Taken(t, [Stepped(t, E) EXCEPT ![t].ret = v], NoThread),
         UNCHANGED <<num_threads, finished>>, waiters' = LeaveLists(th, E)
  PROVE  Inv'
  <1> DEFINE T == Stepped(t, E)
             F == [T EXCEPT ![t].ret = v]
  <1>1. SteppedFacts(t, kind, T) /\ Len(prog) \in Nat /\ num_threads \in 1..Len(prog)
    BY SteppedOK, CodeFacts DEF Inv
  <1>2. t \in 1..num_threads /\ ThreadsOK(prog, T, num_threads)
    BY <1>1 DEF SteppedFacts
  <1> HIDE DEF T
  <1>3. /\ T \in [1..Len(prog) -> ThreadRecord]
        /\ \A u \in 1..Len(prog) : ThreadOK(CodeOf(prog, u), T[u]) /\ (u > num_threads => T[u] = Unborn)
    BY <1>2 DEF ThreadsOK
  <1>4. t \in 1..Len(prog) /\ T[t] \in ThreadRecord
    BY <1>3 DEF Threads
  <1>5. F[t] = [T[t] EXCEPT !.ret = v] /\ \A u \in 1..Len(prog) : u # t => F[u] = T[u]
    BY <1>3, <1>4
  <1>6. DOMAIN F = 1..Len(prog) /\ F = [u \in DOMAIN F |-> F[u]]
    BY <1>3
  <1> HIDE DEF F
  <1>7. /\ F[t] \in ThreadRecord /\ F[t].pending = T[t].pending /\ F[t].pc = T[t].pc /\ F[t].state = T[t].state
        /\ F[t].enabled = T[t].enabled /\ F[t].wakeup = T[t].wakeup
    BY <1>4, <1>5 DEF ThreadRecord
  <1>8. ThreadOK(CodeOf(prog, t), F[t])
    BY ZenonT(30), <1>3, <1>4, <1>7 DEF ThreadOK
  <1>9. \A u \in 1..Len(prog) : ThreadOK(CodeOf(prog, u), F[u]) /\ (u > num_threads => F[u] = Unborn)
    BY SMT, <1>1, <1>2, <1>3, <1>5, <1>8
  <1>10. ThreadsOK(prog, F, num_threads)
    BY <1>6, <1>9 DEF ThreadsOK, ThreadOK
  <1>11. \A u \in 1..Len(prog) : F[u].pending = T[u].pending /\ F[u].pc = T[u].pc
    BY <1>5, <1>7
  <1>12. WaitersOK(prog, waiters', num_threads) /\ Taken(t, F, NoThread)
    BY ListsOK DEF F, T
  <1> QED BY <1>10, <1>11, <1>12, QuietStep DEF T

----------------------------------------------------------------------------
(* The steps *)

\* Accesses, yields, thread starts and joins
LEMMA AccessOK ==
  ASSUME Inv, NEW t \in Threads, NEW E \in SUBSET Sleeping(th), Access(t, E)
  PROVE  Inv'
  <1>1. PICK kind \in {"start", "join", "write", "yield", "rmw"} :
          /\ Stepping(t, kind, E)
          /\ UnchangedObjects(E)
          /\ Taken(t, [Stepped(t, E) EXCEPT ![t].ret = IF kind \in {"write", "rmw"} THEN "none" ELSE @], NoThread)
    BY DEF Access
  <1> DEFINE v == IF kind \in {"write", "rmw"} THEN "none" ELSE Stepped(t, E)[t].ret
  <1>2. kind \notin {"none", "rmwr"} /\ SteppedFacts(t, kind, Stepped(t, E))
    BY <1>1, SteppedOK
  <1>3. Stepped(t, E)[t] \in ThreadRecord
    BY <1>2 DEF SteppedFacts, ThreadsOK, Threads
  <1>4. v \in {"none", "0", "1", "ETIMEDOUT"}
    BY <1>3 DEF ThreadRecord
  <1>5. Taken(t, [Stepped(t, E) EXCEPT ![t].ret = v], NoThread)
    BY <1>1
  <1> HIDE DEF v
  <1> QED BY <1>1, <1>2, <1>4, <1>5, RetStep DEF UnchangedObjects

\* Locks and attempts to lock
LEMMA LockOK ==
  ASSUME Inv, NEW t \in Threads, NEW E \in SUBSET Sleeping(th), Lock(t, E)
  PROVE  Inv'
  <1>1. PICK kind \in {"lock", "trylock"} :
          LET m == th[t].pending.mu
              free == kind = "lock" \/ locked[m] = NoThread
          IN  /\ Stepping(t, kind, E)
              /\ waiters' = LeaveLists(th, E)
              /\ UNCHANGED <<num_threads, finished>>
              /\ Taken(t, [Stepped(t, E) EXCEPT ![t].ret = CASE kind = "lock" -> @
                                                             [] kind = "trylock" /\ free -> "1"
                                                             [] OTHER -> "0"], NoThread)
    BY DEF Lock
  <1> DEFINE free == kind = "lock" \/ locked[th[t].pending.mu] = NoThread
             v == CASE kind = "lock" -> Stepped(t, E)[t].ret
                    [] kind = "trylock" /\ free -> "1"
                    [] OTHER -> "0"
  <1>2. kind \notin {"none", "rmwr"} /\ SteppedFacts(t, kind, Stepped(t, E))
    BY <1>1, SteppedOK
  <1>3. Stepped(t, E)[t] \in ThreadRecord
    BY <1>2 DEF SteppedFacts, ThreadsOK, Threads
  <1>4. v \in {"none", "0", "1", "ETIMEDOUT"}
    BY <1>3 DEF ThreadRecord
  <1>5. Taken(t, [Stepped(t, E) EXCEPT ![t].ret = v], NoThread)
    BY <1>1
  <1> HIDE DEF v
  <1> QED BY <1>1, <1>2, <1>4, <1>5, RetStep

\* A timed wait whose deadline has passed
LEMMA TimedWaitExpiredOK ==
  ASSUME Inv, NEW t \in Threads, NEW E \in SUBSET Sleeping(th), TimedWaitExpired(t, E)
  PROVE  Inv'
  BY RetStep DEF TimedWaitExpired, UnchangedObjects

\* The first half of an RMW: its thread is to follow
LEMMA RMWReadOK ==
  ASSUME Inv, NEW t \in Threads, NEW E \in SUBSET Sleeping(th), RMWRead(t, E)
  PROVE  Inv'
  <1> DEFINE T == Stepped(t, E)
             F == [T EXCEPT ![t].ret = "none"]
  <1>1. Stepping(t, "rmwr", E) /\ UnchangedObjects(E) /\ Taken(t, F, t) /\ prog \in Programs
    BY DEF RMWRead, Inv
  <1>2. SteppedFacts(t, "rmwr", T) /\ Len(prog) \in Nat /\ num_threads \in 1..Len(prog)
    BY <1>1, SteppedOK, CodeFacts DEF Inv
  <1>3. /\ t \in 1..num_threads /\ t \in 1..Len(prog) /\ ThreadsOK(prog, T, num_threads)
        /\ T[t] = [th[t] EXCEPT !.pending = NoAction]
        /\ th[t].enabled = "enabled" /\ th[t].state = "READY" /\ th[t].wakeup = FALSE
        /\ th[t].pc \in 1..Len(CodeOf(prog, t)) /\ CodeOf(prog, t)[th[t].pc].kind = "rmwr"
        /\ RMWsApart(prog) => \A u \in 1..num_threads : u # t => ~MidRMW(CodeOf(prog, u), T[u])
        /\ ~finished
    BY <1>2 DEF SteppedFacts, Threads
  <1> HIDE DEF T
  <1>4. /\ T \in [1..Len(prog) -> ThreadRecord] /\ T[t] \in ThreadRecord /\ th[t] \in ThreadRecord
        /\ \A u \in 1..Len(prog) : ThreadOK(CodeOf(prog, u), T[u]) /\ (u > num_threads => T[u] = Unborn)
    BY <1>3 DEF ThreadsOK, Inv, Running
  <1>5. F[t] = [T[t] EXCEPT !.ret = "none"] /\ \A u \in 1..Len(prog) : u # t => F[u] = T[u]
    BY <1>3, <1>4
  <1>6. DOMAIN F = 1..Len(prog) /\ F = [u \in DOMAIN F |-> F[u]]
    BY <1>4
  <1> HIDE DEF F
  <1>7. /\ T[t].pending = NoAction /\ T[t].pc = th[t].pc /\ T[t].state = "READY"
        /\ T[t].enabled = "enabled" /\ T[t].wakeup = FALSE
    BY <1>3, <1>4 DEF ThreadRecord
  <1>8. /\ F[t] \in ThreadRecord /\ F[t].pending = NoAction /\ F[t].pc = th[t].pc /\ F[t].state = "READY"
        /\ F[t].enabled = "enabled" /\ F[t].wakeup = FALSE
    BY <1>4, <1>5, <1>7 DEF ThreadRecord
  <1>9. ThreadOK(CodeOf(prog, t), F[t])
    BY <1>3, <1>4, <1>7, <1>8 DEF ThreadOK
  <1>10. F \in [1..Len(prog) -> ThreadRecord]
    BY <1>4, <1>5, <1>6, <1>8
  <1>11. ThreadOK(CodeOf(prog, t), Retired(F[t]))
    BY <1>9, RetiredOK
  <1>12. Steady(CodeOf(prog, t), F[t])
    BY <1>3, <1>8 DEF Steady
  <1>13. RMWsApart(prog) => \A u \in 1..num_threads : MidRMW(CodeOf(prog, u), F[u]) => t = u
    BY SMT, <1>2, <1>3, <1>5
  <1>14. \A u \in 1..Len(prog) : u # t => ThreadOK(CodeOf(prog, u), F[u])
    BY <1>4, <1>5
  <1>15. \A u \in 1..Len(prog) : u > num_threads => F[u] = Unborn
    BY SMT, <1>2, <1>3, <1>4, <1>5
  <1>16. UNCHANGED <<prog, num_threads, finished>> /\ WaitersOK(prog, waiters', num_threads)
    BY <1>1, ListsOK DEF UnchangedObjects, Stepping
  <1>17. Taking(prog, t, F, num_threads', t)
    BY <1>3, <1>8, <1>10, <1>11, <1>12, <1>13, <1>14, <1>15, <1>16 DEF Taking
  <1>18. t \in 0..Len(prog) /\ ~finished' /\ WaitersOK(prog, waiters', num_threads') /\ num_threads' \in 1..Len(prog)
    BY SMT, <1>2, <1>3, <1>16
  <1> QED BY <1>1, <1>16, <1>17, <1>18, StepDone

\* The creation of a thread, which is to follow
LEMMA CreateThreadOK ==
  ASSUME Inv, NEW t \in Threads, NEW E \in SUBSET Sleeping(th), CreateThread(t, E)
  PROVE  Inv'
  <1> DEFINE T == Stepped(t, E)
             child == num_threads + 1
             F == [T EXCEPT ![child] = NewThread]
  <1>1. /\ Stepping(t, "create", E) /\ child \in Threads /\ num_threads' = child /\ waiters' = LeaveLists(th, E)
        /\ UNCHANGED finished /\ Taken(t, F, child) /\ prog \in Programs
    BY DEF CreateThread, Inv
  <1>2. SteppedFacts(t, "create", T) /\ Len(prog) \in Nat /\ num_threads \in 1..Len(prog)
    BY <1>1, SteppedOK, CodeFacts DEF Inv
  <1>3. /\ t \in 1..num_threads /\ t \in 1..Len(prog) /\ ThreadsOK(prog, T, num_threads)
        /\ T[t] = [th[t] EXCEPT !.pending = NoAction]
        /\ th[t].pc \in 1..Len(CodeOf(prog, t)) /\ CodeOf(prog, t)[th[t].pc].kind = "create"
        /\ RMWsApart(prog) => \A u \in 1..num_threads : u # t => ~MidRMW(CodeOf(prog, u), T[u])
        /\ ~finished
    BY <1>2 DEF SteppedFacts, Threads
  <1>4. child \in 1..Len(prog) /\ child # t /\ \A u \in 1..child : u = child \/ u \in 1..num_threads
    BY SMT, <1>1, <1>2, <1>3 DEF Threads
  <1> HIDE DEF T, child
  <1>5. /\ T \in [1..Len(prog) -> ThreadRecord] /\ T[t] \in ThreadRecord /\ th[t] \in ThreadRecord
        /\ \A u \in 1..Len(prog) : ThreadOK(CodeOf(prog, u), T[u]) /\ (u > num_threads => T[u] = Unborn)
    BY <1>3 DEF ThreadsOK, Inv, Running
  <1>6. F[child] = NewThread /\ \A u \in 1..Len(prog) : u # child => F[u] = T[u]
    BY <1>4, <1>5
  <1>7. DOMAIN F = 1..Len(prog) /\ F = [u \in DOMAIN F |-> F[u]]
    BY <1>5
  <1> HIDE DEF F
  <1>8. T[t].pending = NoAction /\ T[t].pc = th[t].pc
    BY <1>3, <1>5 DEF ThreadRecord
  <1>9. /\ NewThread \in ThreadRecord /\ NewThread.pending = NoAction /\ NewThread.pc = 0
        /\ NewThread.state = "CREATED" /\ NewThread.enabled = "enabled" /\ NewThread.wakeup = FALSE
    BY DEF NewThread, ThreadRecord, Actions
  <1>10. Len(CodeOf(prog, child)) \in Nat
    BY <1>1, <1>4, CodeFacts
  <1>11. ThreadOK(CodeOf(prog, child), NewThread) /\ Steady(CodeOf(prog, child), NewThread)
         /\ ~MidRMW(CodeOf(prog, child), NewThread)
    BY SMT, <1>9, <1>10 DEF ThreadOK, Steady, MidRMW, NoAction, Plain, Call
  <1>12. F \in [1..Len(prog) -> ThreadRecord]
    BY <1>5, <1>6, <1>7, <1>9
  <1>13. ~MidRMW(CodeOf(prog, t), F[t])
    <2>1. F[t].pending = NoAction /\ F[t].pc = th[t].pc
      BY <1>3, <1>4, <1>6, <1>8
    <2> QED BY SMT, <2>1, <1>3 DEF MidRMW, NoAction, Plain, Call
  <1>14. ThreadOK(CodeOf(prog, t), Retired(F[t]))
    BY <1>3, <1>4, <1>5, <1>6, RetiredOK
  <1>15. RMWsApart(prog) => \A u \in 1..child : MidRMW(CodeOf(prog, u), F[u]) => child = u
    <2>1. ASSUME RMWsApart(prog), NEW u \in 1..num_threads PROVE ~MidRMW(CodeOf(prog, u), F[u])
      <3>1. u # child /\ u \in 1..Len(prog)
        BY SMT, <1>2 DEF child
      <3>2. F[u] = T[u]
        BY <3>1, <1>6
      <3> QED BY <3>2, <2>1, <1>3, <1>13
    <2> QED BY <2>1, <1>4
  <1>16. \A u \in 1..Len(prog) : u # t => ThreadOK(CodeOf(prog, u), F[u])
    BY <1>5, <1>6, <1>11
  <1>17. \A u \in 1..Len(prog) : u > child => F[u] = Unborn
    <2>1. ASSUME NEW u \in 1..Len(prog), u > child PROVE F[u] = Unborn
      <3>1. u # child /\ u > num_threads
        BY SMT, <2>1, <1>2 DEF child
      <3> QED BY <3>1, <1>5, <1>6
    <2> QED BY <2>1
  <1>18. t \in 1..child /\ child \in 1..child /\ child \in 0..Len(prog)
    BY SMT, <1>2, <1>3, <1>4 DEF child
  <1>19. UNCHANGED prog
    BY <1>1 DEF Stepping
  <1>20. Taking(prog, t, F, child, child)
    BY <1>6, <1>9, <1>11, <1>12, <1>14, <1>15, <1>16, <1>17, <1>18 DEF Taking
  <1>21. WaitersOK(prog, waiters', child)
    <2>1. WaitersOK(prog, waiters', num_threads)
      BY <1>1, ListsOK
    <2>2. \A u \in 1..Len(prog) : u <= num_threads => u <= child
      BY SMT, <1>2 DEF child
    <2> QED BY <2>1, <2>2 DEF WaitersOK
  <1>22. num_threads' = child
    BY <1>1
  <1>23. Taking(prog, t, F, num_threads', child) /\ WaitersOK(prog, waiters', num_threads')
         /\ num_threads' \in 1..Len(prog) /\ ~finished'
    BY <1>20, <1>21, <1>22, <1>1, <1>3, <1>4
  <1> QED BY <1>1, <1>18, <1>19, <1>23, StepDone

\* What is known of the threads U when a step of t has woken others
WokenFacts(t, E, U) ==
  /\ t \in 1..num_threads /\ t \in 1..Len(prog)
  /\ ThreadsOK(prog, U, num_threads)
  /\ U[t] = [th[t] EXCEPT !.pending = NoAction]
  /\ \A u \in 1..Len(prog) : U[u].pending = Stepped(t, E)[u].pending /\ U[u].pc = Stepped(t, E)[u].pc

\* The threads an end of t or an unlock by t wakes: they have an action, so t is
\* not among them
LEMMA WaitersWoken ==
  ASSUME Inv, NEW t \in Threads, NEW E \in SUBSET Sleeping(th), NEW kind, kind # "none", Stepping(t, kind, E),
         NEW S, \A u \in S : u \in 1..num_threads /\ Stepped(t, E)[u].pending.kind \in {"lock", "join"},
         NEW U, U = Wake(Stepped(t, E), S)
  PROVE  WokenFacts(t, E, U)
  <1> DEFINE T == Stepped(t, E)
  <1>1. SteppedFacts(t, kind, T) /\ Len(prog) \in Nat /\ num_threads \in 1..Len(prog) /\ prog \in Programs
    BY SteppedOK, CodeFacts DEF Inv
  <1>2. /\ t \in 1..num_threads /\ t \in 1..Len(prog) /\ ThreadsOK(prog, T, num_threads)
        /\ T[t] = [th[t] EXCEPT !.pending = NoAction]
    BY <1>1 DEF SteppedFacts, Threads
  <1>3. U = Wake(T, S) /\ \A u \in S : u \in 1..num_threads /\ T[u].pending.kind \in {"lock", "join"}
    OBVIOUS
  <1> HIDE DEF T
  <1>4. th[t] \in ThreadRecord
    BY <1>2 DEF Inv, Running, ThreadsOK
  <1>5. T[t].pending = NoAction
    BY <1>2, <1>4 DEF ThreadRecord
  <1>6. t \notin S
    BY SMT, <1>3, <1>5 DEF NoAction, Plain, Call
  <1>7. \A u \in 1..Len(prog) : u \in S => u <= num_threads
    BY SMT, <1>1, <1>3
  <1>8. WakeFacts(prog, T, num_threads, S, U)
    BY <1>1, <1>2, <1>3, <1>7, WakeOK
  <1> QED BY <1>2, <1>6, <1>8 DEF T, WakeFacts, WokenFacts

\* An unlock
LEMMA UnlockOK ==
  ASSUME Inv, NEW t \in Threads, NEW E \in SUBSET Sleeping(th), Unlock(t, E)
  PROVE  Inv'
  <1> DEFINE T == Stepped(t, E)
             S == LockWaiters(T, t)
             U == Wake(T, S)
  <1>1. /\ Stepping(t, "unlock", E) /\ waiters' = LeaveLists(th, E) /\ UNCHANGED <<num_threads, finished>>
        /\ Taken(t, U, NoThread)
    BY DEF Unlock
  <1>2. \A u \in S : u \in 1..num_threads /\ Stepped(t, E)[u].pending.kind \in {"lock", "join"}
    BY DEF LockWaiters, Live
  <1>3. U = Wake(Stepped(t, E), S)
    OBVIOUS
  <1> HIDE DEF S, U, T
  <1>4. WokenFacts(t, E, U)
    BY <1>1, <1>2, <1>3, WaitersWoken, "unlock" # "none"
  <1>5. WaitersOK(prog, waiters', num_threads)
    BY <1>1, ListsOK
  <1>6. "unlock" \notin {"none", "rmwr"}
    OBVIOUS
  <1> QED BY <1>1, <1>4, <1>5, <1>6, QuietStep DEF WokenFacts

\* A thread t that gives up its action, but stays with it asleep or blocked
LEMMA ParkedStep ==
  ASSUME Inv, NEW t \in Threads, NEW E \in SUBSET Sleeping(th), NEW kind \in {"sleep", "wait", "timedwait"},
         Stepping(t, kind, E),
         NEW U, WokenFacts(t, E, U),
         NEW F, DOMAIN F = 1..Len(prog), F = [u \in DOMAIN F |-> F[u]],
         \A u \in 1..Len(prog) : u # t => F[u] = U[u],
         F[t] \in ThreadRecord, F[t].pending = th[t].pending, F[t].pc = th[t].pc, F[t].wakeup = FALSE,
         \/ F[t].enabled = "sleep" /\ F[t].state = "READY"
         \/ F[t].enabled = "disabled" /\ F[t].state = "BLOCKED",
         Taken(t, F, NoThread),
         UNCHANGED <<num_threads, finished>>, WaitersOK(prog, waiters', num_threads)
  PROVE  Inv'
  <1>1. SteppedFacts(t, kind, Stepped(t, E)) /\ kind # "none" /\ prog \in Programs
    BY SteppedOK DEF Inv
  <1>2. /\ t \in 1..num_threads /\ t \in 1..Len(prog) /\ ~finished
        /\ th[t].pc \in 1..Len(CodeOf(prog, t)) /\ th[t].pending = CodeOf(prog, t)[th[t].pc]
        /\ th[t].pending.kind = kind
    BY <1>1 DEF SteppedFacts, Threads
  <1>3. th[t] \in ThreadRecord /\ ThreadOK(CodeOf(prog, t), th[t])
    BY <1>2 DEF Inv, Running, ThreadsOK
  <1>4. /\ U \in [1..Len(prog) -> ThreadRecord]
        /\ \A u \in 1..Len(prog) : ThreadOK(CodeOf(prog, u), U[u]) /\ (u > num_threads => U[u] = Unborn)
        /\ \A u \in 1..Len(prog) : U[u].pending = Stepped(t, E)[u].pending /\ U[u].pc = Stepped(t, E)[u].pc
    BY DEF ThreadsOK, WokenFacts
  <1>5. F \in [1..Len(prog) -> ThreadRecord]
    BY <1>4
  <1>6. th[t].pending # NoAction
    BY SMT, <1>2 DEF NoAction, Plain, Call
  <1>7. ThreadOK(CodeOf(prog, t), F[t])
    BY <1>2, <1>3, <1>6 DEF ThreadOK
  <1>8. ThreadOK(CodeOf(prog, t), Retired(F[t]))
    BY <1>7, RetiredOK
  <1>9. ~MidRMW(CodeOf(prog, t), F[t])
    BY <1>2, <1>6 DEF MidRMW
  <1>10. \A u \in 1..Len(prog) : u # t =>
            /\ ThreadOK(CodeOf(prog, u), F[u]) /\ (u > num_threads => F[u] = Unborn)
            /\ F[u].pending = Stepped(t, E)[u].pending /\ F[u].pc = Stepped(t, E)[u].pc
    BY <1>4
  <1>11. ~finished' /\ UNCHANGED num_threads
    BY <1>2
  <1> QED BY <1>1, <1>5, <1>8, <1>9, <1>10, <1>11, OwnStep

\* A sleep
LEMMA SleepOK ==
  ASSUME Inv, NEW t \in Threads, NEW E \in SUBSET Sleeping(th), Sleep(t, E)
  PROVE  Inv'
  <1> DEFINE T == Stepped(t, E)
             F == [T EXCEPT ![t].pending = th[t].pending, ![t].enabled = "sleep"]
  <1>1. Stepping(t, "sleep", E) /\ UnchangedObjects(E) /\ Taken(t, F, NoThread)
    BY DEF Sleep
  <1>2. SteppedFacts(t, "sleep", T)
    BY <1>1, SteppedOK
  <1>3. t \in 1..Len(prog) /\ WokenFacts(t, E, T)
    BY <1>2 DEF SteppedFacts, Threads, WokenFacts
  <1>4. T[t] = [th[t] EXCEPT !.pending = NoAction] /\ th[t].state = "READY" /\ th[t].wakeup = FALSE
    BY <1>2 DEF SteppedFacts
  <1>5. WaitersOK(prog, waiters', num_threads) /\ UNCHANGED <<num_threads, finished>>
    BY <1>1, ListsOK DEF UnchangedObjects
  <1>6. T \in [1..Len(prog) -> ThreadRecord]
    BY <1>3 DEF WokenFacts, ThreadsOK
  <1>7. th[t] \in ThreadRecord
    BY <1>3 DEF ThreadsOK, Inv, Running
  <1> HIDE DEF T
  <1>8. DOMAIN F = 1..Len(prog) /\ F = [u \in DOMAIN F |-> F[u]]
    BY <1>6
  <1>9. F[t] = [T[t] EXCEPT !.pending = th[t].pending, !.enabled = "sleep"] /\ \A u \in 1..Len(prog) : u # t => F[u] = T[u]
    BY <1>3, <1>6
  <1>10. T[t].state = "READY" /\ T[t].wakeup = FALSE /\ T[t].pc = th[t].pc
    BY <1>4, <1>7 DEF ThreadRecord
  <1>11. T[t] \in ThreadRecord /\ th[t].pending \in Actions
    BY <1>3, <1>6, <1>7 DEF ThreadRecord
  <1> HIDE DEF F
  <1>12. /\ F[t] \in ThreadRecord /\ F[t].pending = th[t].pending /\ F[t].pc = T[t].pc /\ F[t].wakeup = T[t].wakeup
         /\ F[t].enabled = "sleep" /\ F[t].state = T[t].state
    <2>1. F[t] = [T[t] EXCEPT !.pending = th[t].pending, !.enabled = "sleep"]
      BY <1>9
    <2> QED BY <2>1, <1>11 DEF ThreadRecord
  <1>13. /\ \A u \in 1..Len(prog) : u # t => F[u] = T[u]
         /\ F[t].pc = th[t].pc /\ F[t].wakeup = FALSE /\ F[t].enabled = "sleep" /\ F[t].state = "READY"
         /\ "sleep" \in {"sleep", "wait", "timedwait"}
    BY <1>9, <1>10, <1>12
  <1> QED BY <1>1, <1>3, <1>5, <1>8, <1>12, <1>13, ParkedStep, ZenonT(30)

\* A wait, timed or not
LEMMA ParkOK ==
  ASSUME Inv, NEW t \in Threads, NEW E \in SUBSET Sleeping(th), NEW kind \in {"wait", "timedwait"}, Stepping(t, kind, E),
         NEW how \in {"sleep", "disabled"}, Park(t, E, how)
  PROVE  Inv'
  <1> DEFINE call == th[t].pending
             T == Stepped(t, E)
             S == LockWaiters(T, t)
             U == Wake(T, S)
             F == [U EXCEPT ![t].pending = call, ![t].enabled = how, ![t].state = IF how = "sleep" THEN @ ELSE "BLOCKED"]
             W == LeaveLists(th, E)
  <1>1. /\ waiters' = [W EXCEPT ![call.cv][t] = @ + 1] /\ UNCHANGED <<num_threads, finished>>
        /\ Taken(t, F, NoThread)
    BY DEF Park
  <1>2. \A u \in S : u \in 1..num_threads /\ Stepped(t, E)[u].pending.kind \in {"lock", "join"}
    BY DEF LockWaiters, Live
  <1>3. U = Wake(Stepped(t, E), S) /\ kind # "none"
    OBVIOUS
  <1>4. SteppedFacts(t, kind, T)
    BY <1>3, SteppedOK
  <1> HIDE DEF S
  <1>5. WokenFacts(t, E, U)
    BY <1>2, <1>3, WaitersWoken
  <1>6. WaitersOK(prog, W, num_threads)
    BY ListsOK
  <1> HIDE DEF U, W, T
  <1>7. /\ U[t] = [th[t] EXCEPT !.pending = NoAction] /\ th[t].state = "READY" /\ th[t].wakeup = FALSE
        /\ t \in 1..num_threads /\ t \in 1..Len(prog) /\ call.kind = kind
        /\ th[t].pc \in 1..Len(CodeOf(prog, t)) /\ call = CodeOf(prog, t)[th[t].pc]
    BY <1>4, <1>5 DEF SteppedFacts, WokenFacts
  <1>8. U \in [1..Len(prog) -> ThreadRecord]
    BY <1>5 DEF WokenFacts, ThreadsOK
  <1>9. th[t] \in ThreadRecord
    BY <1>7 DEF ThreadsOK, Inv, Running
  <1>10. DOMAIN F = 1..Len(prog) /\ F = [u \in DOMAIN F |-> F[u]]
    BY <1>8
  <1>11. /\ F[t] = [U[t] EXCEPT !.pending = call, !.enabled = how, !.state = IF how = "sleep" THEN @ ELSE "BLOCKED"]
         /\ \A u \in 1..Len(prog) : u # t => F[u] = U[u]
    BY <1>7, <1>8
  <1>12. U[t].state = "READY" /\ U[t].wakeup = FALSE /\ U[t].pc = th[t].pc
    <2>1. U[t] = [th[t] EXCEPT !.pending = NoAction]
      BY <1>7
    <2> QED BY <1>7, <1>9, <2>1 DEF ThreadRecord
  <1>13. U[t] \in ThreadRecord /\ call \in Actions
    BY <1>7, <1>8, <1>9 DEF ThreadRecord
  <1>14. WaitersOK(prog, waiters', num_threads)
    <2>1. CanWait(CodeOf(prog, t))
      BY <1>7 DEF CanWait
    <2>2. call.cv \in CondVars
      BY SMT, <1>7, <1>13 DEF Actions, Calls, Plain, Call, NoAction
    <2> DEFINE cv == call.cv
               B == 1..Len(prog)
               V == [W[cv] EXCEPT ![t] = @ + 1]
    <2>3. W \in [CondVars -> [B -> Nat]] /\ cv \in CondVars /\ t \in B
      BY <1>6, <1>7, <2>2 DEF WaitersOK
    <2>4. waiters' = [W EXCEPT ![cv] = V]
      BY <1>1, <2>3
    <2> HIDE DEF cv, B
    <2>7. W[cv] \in [B -> Nat]
      BY <2>3
    <2>8. V \in [B -> Nat] /\ \A u \in B : u # t => V[u] = W[cv][u]
      BY SMT, <2>3, <2>7
    <2> HIDE DEF V
    <2>9. waiters' \in [CondVars -> [B -> Nat]]
      BY <2>3, <2>4, <2>8
    <2>10. \A c \in CondVars, u \in B : u # t => waiters'[c][u] = W[c][u]
      BY <2>3, <2>4, <2>8
    <2>5. waiters' \in [CondVars -> [1..Len(prog) -> Nat]]
      BY <2>9 DEF B
    <2>6. ASSUME NEW c \in CondVars, NEW u \in 1..Len(prog), waiters'[c][u] > 0
          PROVE  u <= num_threads /\ CanWait(CodeOf(prog, u))
      <3>1. CASE u = t
        BY SMT, <3>1, <2>1, <1>7
      <3>2. CASE u # t
        <4>1. waiters'[c][u] = W[c][u]
          BY <2>10, <2>6, <3>2 DEF B
        <4> QED BY <4>1, <1>6, <2>6 DEF WaitersOK
      <3> QED BY <3>1, <3>2
    <2> QED BY <2>5, <2>6 DEF WaitersOK
  <1> HIDE DEF F, call
  <1>15. ASSUME NEW s, s = "READY" \/ s = "BLOCKED", F[t] = [U[t] EXCEPT !.pending = call, !.enabled = how, !.state = s]
         PROVE  /\ F[t] \in ThreadRecord /\ F[t].pending = call /\ F[t].pc = U[t].pc /\ F[t].wakeup = U[t].wakeup
                /\ F[t].enabled = how /\ F[t].state = s
    BY <1>13, <1>15 DEF ThreadRecord
  <1>16. /\ F[t] \in ThreadRecord /\ F[t].pending = call /\ F[t].pc = U[t].pc /\ F[t].wakeup = U[t].wakeup
         /\ F[t].enabled = how /\ F[t].state = IF how = "sleep" THEN "READY" ELSE "BLOCKED"
    BY <1>11, <1>12, <1>15
  <1>17. /\ F[t].pending = th[t].pending /\ F[t].pc = th[t].pc /\ F[t].wakeup = FALSE
         /\ \/ F[t].enabled = "sleep" /\ F[t].state = "READY"
            \/ F[t].enabled = "disabled" /\ F[t].state = "BLOCKED"
         /\ kind \in {"sleep", "wait", "timedwait"}
    BY <1>12, <1>16 DEF call
  <1>18. \A u \in 1..Len(prog) : u # t => F[u] = U[u]
    BY <1>11
  <1> QED BY <1>1, <1>5, <1>10, <1>14, <1>16, <1>17, <1>18, ParkedStep, ZenonT(30)

\* The code blocks on a condition variable
LEMMA WaitOK ==
  ASSUME Inv, NEW t \in Threads, NEW E \in SUBSET Sleeping(th), Wait(t, E) \/ TimedWait(t, E)
  PROVE  Inv'
  BY ParkOK DEF Wait, TimedWait

\* Who is in a condition variable's list is live and can wait
LEMMA ListedOK ==
  ASSUME NEW p, NEW n, NEW W, WaitersOK(p, W, n), NEW c \in CondVars, NEW u, u \in Listed(W[c])
  PROVE  u \in 1..Len(p) /\ u <= n /\ CanWait(CodeOf(p, u))
  BY DEF WaitersOK, Listed

\* A notification of the threads S
LEMMA NotifyStep ==
  ASSUME Inv, NEW t \in Threads, NEW E \in SUBSET Sleeping(th), NEW kind \in {"notify_one", "notify_all"}, Stepping(t, kind, E),
         NEW c \in CondVars, NEW S \in SUBSET Listed(LeaveLists(th, E)[c]),
         Taken(t, Notified(Stepped(t, E), S), NoThread),
         WaitersOK(prog, waiters', num_threads), UNCHANGED <<num_threads, finished>>
  PROVE  Inv'
  <1> DEFINE T == Stepped(t, E)
             F == Notified(T, S)
  <1>1. prog \in Programs /\ num_threads \in 1..Len(prog)
    BY DEF Inv
  <1>2. SteppedFacts(t, kind, T) /\ WaitersOK(prog, LeaveLists(th, E), num_threads)
    BY SteppedOK, ListsOK
  <1>3. ThreadsOK(prog, T, num_threads)
    BY <1>2 DEF SteppedFacts
  <1>4. \A u \in 1..Len(prog) : u \in S => u <= num_threads /\ CanWait(CodeOf(prog, u))
    BY <1>2, ListedOK
  <1>5. T = Stepped(t, E) /\ F = Notified(T, S) /\ Taken(t, F, NoThread) /\ kind \notin {"none", "rmwr"}
    OBVIOUS
  <1> HIDE DEF T, F
  <1>6. /\ ThreadsOK(prog, F, num_threads)
        /\ \A u \in 1..Len(prog) : F[u].pending = T[u].pending /\ F[u].pc = T[u].pc
    BY SMT, <1>1, <1>3, <1>4, <1>5, NotifiedOK
  <1> QED BY <1>5, <1>6, QuietStep

\* The lists with one entry, or one list, taken out
LEMMA ListsShrink ==
  ASSUME NEW p, NEW n, NEW W, WaitersOK(p, W, n), NEW V \in [CondVars -> [1..Len(p) -> Nat]],
         \A c \in CondVars : \A u \in 1..Len(p) : V[c][u] > 0 => W[c][u] > 0
  PROVE  WaitersOK(p, V, n)
  BY DEF WaitersOK

\* The condition variable of a notification
LEMMA NotifyFacts ==
  ASSUME Inv, NEW t \in Threads, NEW E \in SUBSET Sleeping(th), NEW kind \in {"notify_one", "notify_all"}, Stepping(t, kind, E)
  PROVE  th[t].pending.cv \in CondVars
  <1>1. th[t] \in ThreadRecord /\ th[t].pending.kind = kind
    BY DEF Inv, Running, ThreadsOK, Threads, Stepping
  <1>2. th[t].pending \in Actions
    BY <1>1 DEF ThreadRecord
  <1> QED BY SMT, <1>1, <1>2 DEF Actions, Calls, Plain, Call, NoAction

\* notify_all
LEMMA NotifyAllOK ==
  ASSUME Inv, NEW t \in Threads, NEW E \in SUBSET Sleeping(th), NotifyAll(t, E)
  PROVE  Inv'
  <1> DEFINE W == LeaveLists(th, E)
             c == th[t].pending.cv
             N == [u \in Threads |-> 0]
  <1>1. /\ Stepping(t, "notify_all", E) /\ waiters' = [W EXCEPT ![c] = N] /\ UNCHANGED <<num_threads, finished>>
        /\ Taken(t, Notified(Stepped(t, E), Listed(W[c])), NoThread)
    BY DEF NotifyAll
  <1>2. c \in CondVars /\ WaitersOK(prog, W, num_threads)
    BY <1>1, NotifyFacts, ListsOK
  <1>3. Listed(W[c]) \in SUBSET Listed(LeaveLists(th, E)[c]) /\ "notify_all" \in {"notify_one", "notify_all"}
    OBVIOUS
  <1>4. N \in [1..Len(prog) -> Nat] /\ \A u \in 1..Len(prog) : N[u] = 0
    BY DEF Threads
  <1> HIDE DEF c, N
  <1>5. WaitersOK(prog, waiters', num_threads)
    <2> HIDE DEF W
    <2>1. W \in [CondVars -> [1..Len(prog) -> Nat]]
      BY <1>2 DEF WaitersOK
    <2>2. waiters' \in [CondVars -> [1..Len(prog) -> Nat]]
      BY <1>1, <1>2, <1>4, <2>1
    <2>3. \A d \in CondVars : \A u \in 1..Len(prog) : waiters'[d][u] > 0 => W[d][u] > 0
      BY SMTT(30), <1>1, <1>2, <1>4, <2>1
    <2> QED BY <1>2, <2>2, <2>3, ListsShrink
  <1> QED BY <1>1, <1>2, <1>3, <1>5, NotifyStep

\* notify_one, of nobody or of someone in the list
LEMMA NotifyOneOK ==
  ASSUME Inv, NEW t \in Threads, NEW E \in SUBSET Sleeping(th), NotifyOne(t, E)
  PROVE  Inv'
  <1> DEFINE W == LeaveLists(th, E)
             c == th[t].pending.cv
  <1>1. /\ Stepping(t, "notify_one", E) /\ UNCHANGED <<num_threads, finished>>
        /\ \/ waiters' = W /\ Taken(t, Stepped(t, E), NoThread)
           \/ \E u \in Listed(W[c]) :
                waiters' = [W EXCEPT ![c][u] = @ - 1] /\ Taken(t, Notified(Stepped(t, E), {u}), NoThread)
    BY DEF NotifyOne
  <1>2. c \in CondVars /\ WaitersOK(prog, W, num_threads)
    BY <1>1, NotifyFacts, ListsOK
  <1>3. CASE waiters' = W /\ Taken(t, Stepped(t, E), NoThread)
    <2>1. SteppedFacts(t, "notify_one", Stepped(t, E))
      BY <1>1, SteppedOK
    <2>2. ThreadsOK(prog, Stepped(t, E), num_threads) /\ "notify_one" \notin {"none", "rmwr"}
      BY <2>1 DEF SteppedFacts
    <2> QED BY <1>1, <1>2, <1>3, <2>2, QuietStep
  <1>4. ASSUME NEW u \in Listed(W[c]), waiters' = [W EXCEPT ![c][u] = @ - 1], Taken(t, Notified(Stepped(t, E), {u}), NoThread)
        PROVE  Inv'
    <2>1. {u} \in SUBSET Listed(LeaveLists(th, E)[c]) /\ "notify_one" \in {"notify_one", "notify_all"}
      BY <1>4
    <2> HIDE DEF W, c
    <2>2. W \in [CondVars -> [1..Len(prog) -> Nat]]
      BY <1>2 DEF WaitersOK
    <2>3. u \in 1..Len(prog) /\ W[c][u] > 0 /\ W[c] \in [1..Len(prog) -> Nat]
      BY <1>2, <1>4, <2>2 DEF Listed
    <2> DEFINE V == [W[c] EXCEPT ![u] = @ - 1]
    <2>4. V \in [1..Len(prog) -> Nat] /\ \A x \in 1..Len(prog) : V[x] > 0 => W[c][x] > 0
      BY SMT, <2>3
    <2>5. waiters' = [W EXCEPT ![c] = V]
      BY <1>2, <1>4, <2>2
    <2> HIDE DEF V
    <2>6. waiters' \in [CondVars -> [1..Len(prog) -> Nat]]
      BY <1>2, <2>2, <2>4, <2>5
    <2>7. \A d \in CondVars : \A x \in 1..Len(prog) : waiters'[d][x] > 0 => W[d][x] > 0
      BY <1>2, <2>2, <2>4, <2>5
    <2>8. WaitersOK(prog, waiters', num_threads)
      BY <1>2, <2>6, <2>7, ListsShrink
    <2> QED BY <1>1, <1>2, <1>4, <2>1, <2>8, NotifyStep
  <1> QED BY <1>1, <1>3, <1>4

----------------------------------------------------------------------------
(* The end of threads and executions *)

\* finish_execution judges an end at which each disabled thread has completed or
\* has an action
LEMMA EndOK ==
  ASSUME Inv, UNCHANGED <<prog, num_threads>>, WaitersOK(prog, waiters', num_threads),
         NEW T, ThreadsOK(prog, T, num_threads), FinishExecution(T),
         \A t \in 1..num_threads : T[t].enabled = "disabled" => T[t].pending # NoAction \/ Complete(T, t),
         finished' \/ bugs # {} \/ \A t \in 1..num_threads : T[t].enabled = "disabled"
  PROVE  Inv'
  <1>1. th' = T /\ mode' = "done" /\ curr_thread_num' = Main /\ UNCHANGED <<chosen_thread, old>>
    BY DEF FinishExecution
  <1>2. chosen_thread \in 0..Len(prog) /\ old \in 1..Len(prog)
    BY DEF Inv, Running
  <1>3. Running(prog', th', locked', num_threads', chosen_thread', old', curr_thread_num', mode')
    BY <1>1, <1>2 DEF Running
  <1>4. EndIsJudged'
    <2>1. SUFFICES ASSUME bugs' = {}
                   PROVE  \/ \A t \in 1..num_threads : Complete(T, t)
                          \/ finished' /\ \E t \in 1..num_threads : T[t].enabled # "disabled"
      BY <1>1 DEF EndIsJudged, Live, Complete
    <2>2. bugs = {} /\ ~(IsCompleteExecution(T) /\ IsDeadlocked(T))
      BY <2>1 DEF FinishExecution
    <2>3. CASE \A t \in 1..num_threads : T[t].enabled = "disabled"
      BY <2>2, <2>3 DEF IsCompleteExecution, IsDeadlocked, Live
    <2>4. CASE ~\A t \in 1..num_threads : T[t].enabled = "disabled"
      BY <2>2, <2>4
    <2> QED BY <2>3, <2>4
  <1> QED BY <1>1, <1>3, <1>4 DEF Inv

\* finish_execution because a bug was reported or nobody can go on
LEMMA GiveUpOK ==
  ASSUME Inv, GiveUp
  PROVE  Inv'
  <1>1. /\ mode = "choose" /\ FinishExecution(th) /\ UNCHANGED <<prog, num_threads, waiters>>
        /\ bugs # {} \/ (Available(th) = {} /\ Sleeping(th) = {})
    BY DEF GiveUp
  <1>2. /\ ThreadsOK(prog, th, num_threads) /\ WaitersOK(prog, waiters, num_threads) /\ num_threads \in 1..Len(prog)
        /\ prog \in Programs /\ Looped(prog, th, locked, num_threads, chosen_thread, num_threads + 1)
    BY <1>1 DEF Inv, Running
  <1>3. num_threads \in Nat /\ Len(prog) \in Nat
    BY SMT, <1>2, CodeLengths
  <1>4. \A t \in 1..num_threads : Settled(th, locked, t)
    BY SMT, <1>2, <1>3 DEF Looped
  <1>5. \A t \in 1..num_threads : th[t].pending # NoAction \/ Complete(th, t)
    BY <1>4 DEF Settled
  <1>6. bugs # {} \/ \A t \in 1..num_threads : th[t].enabled = "disabled"
    <2>1. \A t \in 1..num_threads : t \in DOMAIN th /\ th[t].enabled \in {"enabled", "disabled", "sleep"}
      BY SMT, <1>2, <1>3 DEF ThreadsOK, ThreadRecord
    <2> QED BY <1>1, <2>1 DEF Available, Sleeping
  <1> QED BY <1>1, <1>2, <1>5, <1>6, EndOK

\* A thread that is not woken keeps its record when another steps
LEMMA SteppedOther ==
  ASSUME Inv, NEW t \in Threads, NEW E \in SUBSET Sleeping(th), NEW u \in 1..Len(prog), u # t
  PROVE  u \in E \/ Stepped(t, E)[u] = th[u]
  <1>1. DOMAIN th = 1..Len(prog)
    BY DEF Inv, Running, ThreadsOK
  <1> QED BY <1>1 DEF Stepped, WakeUp

\* The end of a thread
LEMMA FinishThreadOK ==
  ASSUME Inv, NEW t \in Threads, NEW E \in SUBSET Sleeping(th), FinishThread(t, E)
  PROVE  Inv'
  <1> DEFINE T == Stepped(t, E)
  <1>1. PICK kind \in {"finish", "exit"} :
          LET ends == kind = "finish" /\ t = Main
              T1 == IF ends THEN T ELSE Wake(T, Joiners(T, t))
          IN  /\ Stepping(t, kind, E)
              /\ waiters' = LeaveLists(th, E)
              /\ finished' = ends
              /\ UNCHANGED <<locked, num_threads>>
              /\ Taken(t, [T1 EXCEPT ![t].state = "COMPLETED"], NoThread)
    BY DEF FinishThread
  <1> DEFINE ends == kind = "finish" /\ t = Main
             S == IF ends THEN {} ELSE Joiners(T, t)
             U == IF ends THEN T ELSE Wake(T, Joiners(T, t))
             F == [U EXCEPT ![t].state = "COMPLETED"]
  <1>2. /\ Stepping(t, kind, E) /\ waiters' = LeaveLists(th, E) /\ finished' = ends
        /\ UNCHANGED <<locked, num_threads>> /\ Taken(t, F, NoThread)
    BY <1>1
  <1>3. kind # "none" /\ SteppedFacts(t, kind, T) /\ WaitersOK(prog, waiters', num_threads) /\ UNCHANGED prog
    BY <1>2, SteppedOK, ListsOK DEF Stepping
  <1>4. WokenFacts(t, E, U)
    <2>1. CASE ends
      BY <2>1, <1>3 DEF SteppedFacts, WokenFacts, Threads
    <2>2. CASE ~ends
      <3>1. \A u \in Joiners(T, t) : u \in 1..num_threads /\ Stepped(t, E)[u].pending.kind \in {"lock", "join"}
        BY DEF Joiners, Live
      <3>2. WokenFacts(t, E, Wake(T, Joiners(T, t)))
        <4> DEFINE J == Joiners(T, t)
                   V == Wake(T, J)
        <4>1. V = Wake(Stepped(t, E), J)
          OBVIOUS
        <4> HIDE DEF J, V
        <4>2. WokenFacts(t, E, V)
          BY <1>2, <1>3, <3>1, <4>1, WaitersWoken DEF J
        <4> QED BY <4>2 DEF V, J
      <3> QED BY <2>2, <3>2
    <2> QED BY <2>1, <2>2
  <1>5. /\ U[t] = [th[t] EXCEPT !.pending = NoAction] /\ t \in 1..num_threads /\ t \in 1..Len(prog)
        /\ ThreadsOK(prog, U, num_threads)
        /\ \A u \in 1..Len(prog) : U[u].pending = T[u].pending /\ U[u].pc = T[u].pc
    BY <1>4 DEF WokenFacts
  <1>6. /\ th[t].pc \in 1..Len(CodeOf(prog, t)) /\ th[t].pending = CodeOf(prog, t)[th[t].pc]
        /\ th[t].pending.kind = kind /\ th[t].wakeup = FALSE
    BY <1>3 DEF SteppedFacts
  <1>7. ends => U = T
    OBVIOUS
  <1> HIDE DEF U, T, ends
  <1>8. /\ U \in [1..Len(prog) -> ThreadRecord] /\ U[t] \in ThreadRecord /\ th[t] \in ThreadRecord
        /\ \A u \in 1..Len(prog) : ThreadOK(CodeOf(prog, u), U[u]) /\ (u > num_threads => U[u] = Unborn)
    <2>1. ThreadsOK(prog, th, num_threads)
      BY DEF Inv, Running
    <2> QED BY <1>5, <2>1 DEF ThreadsOK
  <1>9. F[t] = [U[t] EXCEPT !.state = "COMPLETED"] /\ \A u \in 1..Len(prog) : u # t => F[u] = U[u]
    BY <1>5, <1>8
  <1>10. DOMAIN F = 1..Len(prog) /\ F = [u \in DOMAIN F |-> F[u]]
    BY <1>8
  <1> HIDE DEF F
  <1>11. U[t].pending = NoAction /\ U[t].pc = th[t].pc /\ U[t].wakeup = FALSE
    <2>1. U[t] = [th[t] EXCEPT !.pending = NoAction]
      BY <1>5
    <2> QED BY <2>1, <1>6, <1>8 DEF ThreadRecord
  <1>12. /\ F[t] \in ThreadRecord /\ F[t].pending = NoAction /\ F[t].pc = th[t].pc /\ F[t].wakeup = FALSE
         /\ F[t].state = "COMPLETED"
    <2>1. F[t] = [U[t] EXCEPT !.state = "COMPLETED"]
      BY <1>9
    <2> QED BY <2>1, <1>8, <1>11 DEF ThreadRecord
  <1>13. F \in [1..Len(prog) -> ThreadRecord]
    BY <1>8, <1>9, <1>10, <1>12
  <1> DEFINE R == Retired(F[t])
  <1>14. /\ R \in ThreadRecord /\ R.pending = NoAction /\ R.pc = th[t].pc /\ R.wakeup = FALSE
         /\ R.state = "COMPLETED" /\ R.enabled = "disabled"
    <2>1. R = [F[t] EXCEPT !.enabled = "disabled"]
      BY <1>12 DEF Retired
    <2> QED BY <2>1, <1>12 DEF ThreadRecord
  <1>15. ThreadOK(CodeOf(prog, t), R)
    <2> HIDE DEF R
    <2> QED BY SMTT(30), <1>6, <1>14 DEF ThreadOK
  <1>16. ~MidRMW(CodeOf(prog, t), F[t])
    BY SMT, <1>6, <1>12 DEF MidRMW, NoAction, Plain, Call
  <1>17. CASE ~ends
    <2>1. \A u \in 1..Len(prog) : u # t =>
            /\ ThreadOK(CodeOf(prog, u), F[u]) /\ (u > num_threads => F[u] = Unborn)
            /\ F[u].pending = Stepped(t, E)[u].pending /\ F[u].pc = Stepped(t, E)[u].pc
      BY <1>5, <1>8, <1>9 DEF T
    <2>2. ~finished' /\ UNCHANGED num_threads
      BY <1>2, <1>17
    <2> QED BY <1>2, <1>3, <1>13, <1>15, <1>16, <2>1, <2>2, OwnStep
  <1>18. CASE ends
    <2> DEFINE Z == [F EXCEPT ![t].enabled = "disabled"]
    <2>1. FinishExecution(Z) /\ finished'
      <3>1. finished' /\ Complete(F, t)
        BY <1>2, <1>12, <1>18 DEF Complete
      <3> QED BY <1>2, <3>1 DEF Taken
    <2>2. Z[t] = R /\ (\A u \in 1..Len(prog) : u # t => Z[u] = F[u]) /\ DOMAIN Z = 1..Len(prog) /\ Z = [u \in DOMAIN Z |-> Z[u]]
      BY <1>5, <1>12, <1>13 DEF Retired
    <2> HIDE DEF Z, R
    <2>3. Z \in [1..Len(prog) -> ThreadRecord]
      BY <2>2, <1>13, <1>14
    <2>4. ThreadsOK(prog, Z, num_threads)
      <3>1. ASSUME NEW u \in 1..Len(prog) PROVE ThreadOK(CodeOf(prog, u), Z[u]) /\ (u > num_threads => Z[u] = Unborn)
        <4>1. CASE u = t
          <5>1. ~(t > num_threads)
            BY SMT, <1>5 DEF Inv
          <5> QED BY <4>1, <5>1, <2>2, <1>15
        <4>2. CASE u # t
          BY <4>2, <2>2, <1>8, <1>9
        <4> QED BY <4>1, <4>2
      <3> QED BY <2>3, <3>1 DEF ThreadsOK
    <2>5. ASSUME NEW u \in 1..num_threads PROVE Z[u].pending # NoAction \/ Complete(Z, u)
      <3>1. u \in 1..Len(prog) /\ prog \in Programs /\ th[u] \in ThreadRecord /\ ThreadOK(CodeOf(prog, u), th[u]) /\ Settled(th, locked, u)
        <4>1. num_threads \in 1..Len(prog) /\ prog \in Programs /\ mode = "choose"
          BY <1>2 DEF Inv, Stepping, Selected
        <4>2. Len(prog) \in Nat /\ num_threads \in Nat
          BY SMT, <4>1, CodeLengths
        <4>3. ThreadsOK(prog, th, num_threads) /\ Looped(prog, th, locked, num_threads, chosen_thread, num_threads + 1)
          BY <4>1 DEF Inv, Running
        <4> QED BY SMTT(30), <4>1, <4>2, <4>3 DEF ThreadsOK, Looped
      <3>2. CASE u = t
        BY <3>2, <2>2, <1>14 DEF Complete
      <3>3. CASE u # t /\ u \in E
        <4>1. th[u].pending # NoAction
          BY <3>1, <3>3, HasAction DEF Sleeping, ThreadOK
        <4>2. T[u].pending = th[u].pending
          BY <1>3, <3>1, <3>3 DEF SteppedFacts
        <4>3. Z[u] = F[u] /\ F[u].pending = T[u].pending
          BY <1>5, <1>9, <2>2, <3>1, <3>3
        <4> QED BY <4>1, <4>2, <4>3
      <3>4. CASE u # t /\ u \notin E
        <4>1. Z[u] = th[u]
          <5>1. Z[u] = F[u] /\ F[u] = U[u]
            BY <1>9, <2>2, <3>1, <3>4
          <5>2. T[u] = th[u]
            BY <3>1, <3>4, SteppedOther DEF T
          <5> QED BY <1>7, <1>18, <5>1, <5>2
        <4> QED BY <4>1, <3>1 DEF Settled, Complete
      <3> QED BY <3>2, <3>3, <3>4
    <2> QED BY <1>2, <1>3, <2>1, <2>4, <2>5, EndOK
  <1> QED BY <1>17, <1>18

----------------------------------------------------------------------------
(* The user side, and threads that are woken *)

\* The next call of the running thread: the first is the start of the thread,
\* and the halves of an RMW follow each other
LEMMA NextPCFacts ==
  ASSUME Inv, mode = "user", NextPC(old) <= Len(CodeOf(prog, old)),
         NEW C, C = CodeOf(prog, old), NEW k, k = th[old].pc, NEW q, q = NextPC(old)
  PROVE  /\ q \in 1..Len(C) /\ C[q] \in Actions
         /\ k = 0 => C[q].kind = "start"
         /\ k >= 1 /\ C[k].kind = "rmwr" => C[q].kind = "rmw"
         /\ C[q].kind = "rmw" => k >= 1 /\ C[k].kind = "rmwr"
  <1>1. prog \in Programs /\ old \in 1..Len(prog) /\ ThreadsOK(prog, th, num_threads)
    BY DEF Inv, Running
  <1>2. /\ Len(C) \in Nat /\ Len(C) >= 2 /\ C[1].kind = "start" /\ Paired(C)
        /\ \A j \in 1..Len(C) : C[j] \in Actions
    BY <1>1, CodeFacts
  <1>3. k \in Nat /\ k <= Len(C)
    BY <1>1 DEF ThreadsOK, ThreadOK, ThreadRecord
  <1>4. q = IF k > 0 /\ Failed(C[k], th[old].ret) THEN k + 1 + C[k].skip ELSE k + 1
    BY DEF NextPC, Code
  <1>8. q <= Len(C)
    OBVIOUS
  <1>5. CASE k = 0
    <2>1. q = 1 /\ 1 \in 1..Len(C) /\ ~(k >= 1)
      BY <1>2, <1>3, <1>4, <1>5, PositionsAfter
    <2> QED BY <2>1, <1>2, <1>5
  <1>6. CASE k > 0 /\ ~Failed(C[k], th[old].ret)
    <2>1. q = k + 1 /\ k \in 1..(Len(C) - 1) /\ q \in 1..Len(C) /\ k # 0 /\ k >= 1
      BY <1>2, <1>3, <1>4, <1>6, <1>8, PositionsAfter
    <2>2. C[k + 1].kind = "rmw" <=> C[k].kind = "rmwr"
      BY <2>1, <1>2 DEF Paired
    <2> QED BY <2>1, <2>2, <1>2
  <1>7. CASE k > 0 /\ Failed(C[k], th[old].ret)
    <2>1. q = k + 1 + C[k].skip /\ k \in 1..Len(C) /\ k # 0 /\ C[k].kind \in {"trylock", "timedwait"}
      BY <1>2, <1>3, <1>4, <1>7, PositionsAfter DEF Failed
    <2>2. C[k].skip \in Nat
      BY <2>1, <1>2, SkipNat
    <2>3. q \in 1..Len(C)
      <3> DEFINE d == C[k].skip
                 n == Len(C)
      <3>1. q = k + 1 + d /\ d \in Nat /\ k \in Nat /\ n \in Nat /\ q <= n
        BY <2>1, <2>2, <1>2, <1>3, <1>8
      <3> HIDE DEF d, n
      <3>2. q \in 1..n
        BY <3>1, SkipInside
      <3> QED BY <3>2 DEF n
    <2>4. C[q].kind # "rmw"
      BY <2>1, <2>3, <1>2 DEF Paired
    <2>5. k # 0 /\ C[k].kind # "rmwr"
      BY <2>1
    <2>6. C[q] \in Actions
      BY <2>3, <1>2
    <2> QED BY <2>3, <2>4, <2>5, <2>6, ZenonT(30)
  <1> QED BY SMTT(30), <1>3, <1>5, <1>6, <1>7

\* The running thread t has made a call, or reported a bug
LEMMA UserStep ==
  ASSUME Inv, mode = "user", NextPC(old) <= Len(CodeOf(prog, old)),
         NEW t, t = old, NEW C, C = CodeOf(prog, t), NEW q, q = NextPC(old),
         NEW T, DOMAIN T = 1..Len(prog), T = [u \in DOMAIN T |-> T[u]],
         \A u \in 1..Len(prog) : u # t => T[u] = th[u],
         T[t] \in ThreadRecord, T[t].state = "READY", T[t].pc = q,
         T[t].wakeup = th[t].wakeup, T[t].enabled = th[t].enabled,
         T[t].pending = C[q] \/ (T[t].pending = NoAction /\ C[q].kind = "assert")
  PROVE  ThreadsOK(prog, T, num_threads) /\ Looped(prog, T, locked, num_threads, chosen_thread, curr_thread_num)
  <1>1. /\ prog \in Programs /\ t \in 1..Len(prog) /\ ThreadsOK(prog, th, num_threads)
        /\ num_threads \in 1..Len(prog) /\ curr_thread_num \in 1..num_threads /\ t = curr_thread_num
        /\ th[t].pending = NoAction /\ ~Complete(th, t)
        /\ Looped(prog, th, locked, num_threads, chosen_thread, curr_thread_num)
    BY DEF Inv, Running
  <1>2. Len(prog) \in Nat /\ num_threads \in Nat /\ t \in Nat /\ 1..num_threads \subseteq 1..Len(prog)
    BY SMT, <1>1, CodeLengths
  <1>3. /\ q \in 1..Len(C) /\ C[q] \in Actions
        /\ th[t].pc = 0 => C[q].kind = "start"
        /\ th[t].pc >= 1 /\ C[th[t].pc].kind = "rmwr" => C[q].kind = "rmw"
        /\ C[q].kind = "rmw" => th[t].pc >= 1 /\ C[th[t].pc].kind = "rmwr"
    BY <1>1, NextPCFacts
  <1>4. th[t] \in ThreadRecord /\ ThreadOK(C, th[t])
    BY <1>1 DEF ThreadsOK
  <1>5. NoAction.kind = "none"
    BY DEF NoAction, Plain, Call
  <1>6. ThreadOK(C, T[t])
    BY SMTT(30), <1>1, <1>3, <1>4, <1>5 DEF ThreadOK
  <1>7. ThreadsOK(prog, T, num_threads)
    <2>1. T \in [1..Len(prog) -> ThreadRecord]
      BY <1>1 DEF ThreadsOK
    <2>2. \A u \in 1..Len(prog) : ThreadOK(CodeOf(prog, u), T[u]) /\ (u > num_threads => T[u] = Unborn)
      BY SMT, <1>1, <1>2, <1>6 DEF ThreadsOK
    <2> QED BY <2>1, <2>2 DEF ThreadsOK
  <1>8. ASSUME NEW u \in 1..(curr_thread_num - 1) PROVE Settled(T, locked, u)
    <2>1. u # t /\ u \in 1..Len(prog) /\ T[u] = th[u] /\ Settled(th, locked, u) /\ ThreadOK(CodeOf(prog, u), th[u])
      BY SMT, <1>1, <1>2 DEF Looped, ThreadsOK
    <2>2. \A x \in 1..Len(prog) : Complete(th, x) => Complete(T, x)
      BY <1>1 DEF Complete
    <2>3. CheckActionEnabled(th, locked, u) => CheckActionEnabled(T, locked, u)
      BY <1>1, <2>1, <2>2, StaysEnabled
    <2> QED BY <2>1, <2>3 DEF Settled, Complete
  <1>9. ASSUME chosen_thread \in 1..num_threads PROVE Steady(CodeOf(prog, chosen_thread), T[chosen_thread])
    <2>1. Steady(CodeOf(prog, chosen_thread), th[chosen_thread])
      BY <1>1, <1>9 DEF Looped
    <2>2. CASE chosen_thread # t
      BY <2>1, <2>2, <1>2, <1>9
    <2>3. CASE chosen_thread = t
      <3>1. th[t].enabled = "enabled" /\ (th[t].pc = 0 \/ C[th[t].pc].kind = "rmwr")
        BY <2>1, <2>3, <1>1 DEF Steady
      <3>2. C[q].kind \in {"start", "rmw"}
        BY SMTT(30), <3>1, <1>3, <1>4 DEF ThreadRecord
      <3>3. T[t].pending = C[q] /\ T[t].pending # NoAction
        BY <3>2, <1>5
      <3> QED BY <2>3, <3>1, <3>2, <3>3 DEF Steady
    <2> QED BY <2>2, <2>3
  <1>10. ASSUME RMWsApart(prog), NEW u \in 1..num_threads, MidRMW(CodeOf(prog, u), T[u]) PROVE chosen_thread = u
    <2>1. MidRMW(CodeOf(prog, u), th[u]) => chosen_thread = u
      BY <1>1, <1>10 DEF Looped
    <2>2. CASE u # t
      BY <2>1, <2>2, <1>2, <1>10
    <2>3. CASE u = t
      <3>1. C[q].kind = "rmw"
        BY <2>3, <1>5, <1>10 DEF MidRMW
      <3> QED BY <3>1, <2>1, <2>3, <1>1, <1>3 DEF MidRMW
    <2> QED BY <2>2, <2>3
  <1>11. Looped(prog, T, locked, num_threads, chosen_thread, curr_thread_num)
    BY <1>8, <1>9, <1>10 DEF Looped
  <1> QED BY <1>7, <1>11

\* The loop goes on with the threads T
LEMMA GoesOn ==
  ASSUME Inv, UNCHANGED <<prog, num_threads, locked, waiters, finished>>, mode \in {"user", "choose"},
         NEW T, NEW c \in 0..Len(prog), NEW first \in 1..(num_threads + 1),
         ThreadsOK(prog, T, num_threads), Looped(prog, T, locked, num_threads, c, first),
         Proceed(T, locked, c, first, num_threads)
  PROVE  Inv'
  <1>1. prog \in Programs /\ num_threads \in 1..Len(prog) /\ old \in 1..Len(prog) /\ ~finished
    BY DEF Inv, Running
  <1>2. Running(prog, th', locked, num_threads, chosen_thread', old', curr_thread_num', mode') /\ mode' \in {"user", "choose"}
    BY <1>1, ProceedOK
  <1>3. Running(prog', th', locked', num_threads', chosen_thread', old', curr_thread_num', mode')
    BY <1>2
  <1>4. WaitersOK(prog', waiters', num_threads') /\ EndIsJudged'
    BY <1>2 DEF Inv, EndIsJudged
  <1> QED BY <1>1, <1>2, <1>3, <1>4 DEF Inv

\* switch_thread: the running thread makes its next call
LEMMA SwitchThreadOK ==
  ASSUME Inv, SwitchThread
  PROVE  Inv'
  <1> DEFINE t == old
             q == NextPC(old)
             C == CodeOf(prog, t)
             T == [th EXCEPT ![t].state = "READY", ![t].pending = C[q], ![t].pc = q]
  <1>1. /\ mode = "user" /\ q <= Len(C) /\ UNCHANGED <<prog, num_threads, locked, waiters, finished>>
        /\ \/ /\ mode' = "hung" /\ th' = T
              /\ UNCHANGED <<chosen_thread, curr_thread_num, old, bugs>>
           \/ Proceed(T, locked, chosen_thread, curr_thread_num, num_threads)
    BY DEF SwitchThread, Code
  <1>2. /\ t \in 1..Len(prog) /\ th \in [1..Len(prog) -> ThreadRecord] /\ prog \in Programs /\ num_threads \in 1..Len(prog)
        /\ curr_thread_num \in 1..num_threads /\ chosen_thread \in 0..Len(prog) /\ old \in 1..Len(prog)
        /\ WaitersOK(prog, waiters, num_threads)
    BY <1>1 DEF Inv, Running, ThreadsOK
  <1>3. q \in 1..Len(C) /\ C[q] \in Actions
    BY <1>1, NextPCFacts
  <1>4. DOMAIN T = 1..Len(prog) /\ T = [u \in DOMAIN T |-> T[u]] /\ \A u \in 1..Len(prog) : u # t => T[u] = th[u]
    BY <1>2
  <1>5. T[t] = [th[t] EXCEPT !.state = "READY", !.pending = C[q], !.pc = q]
    BY <1>2
  <1>6. q \in Nat /\ th[t] \in ThreadRecord /\ q <= Len(CodeOf(prog, old))
    BY SMT, <1>1, <1>2, <1>3
  <1> HIDE DEF q, C, T, t
  <1>7. /\ T[t] \in ThreadRecord /\ T[t].state = "READY" /\ T[t].pc = q /\ T[t].pending = C[q]
        /\ T[t].wakeup = th[t].wakeup /\ T[t].enabled = th[t].enabled
    <2> DEFINE a == C[q]
    <2>1. a \in Actions /\ T[t] = [th[t] EXCEPT !.state = "READY", !.pending = a, !.pc = q]
      BY <1>3, <1>5
    <2> HIDE DEF a
    <2>2. T[t] \in ThreadRecord /\ T[t].state = "READY" /\ T[t].pc = q /\ T[t].pending = a
      BY <2>1, <1>6 DEF ThreadRecord
    <2>3. T[t].wakeup = th[t].wakeup /\ T[t].enabled = th[t].enabled
      BY <2>1, <1>6 DEF ThreadRecord
    <2> QED BY <2>2, <2>3 DEF a
  <1>8. t = old /\ C = CodeOf(prog, t) /\ q = NextPC(old)
    BY DEF t, C, q
  <1>9. ThreadsOK(prog, T, num_threads) /\ Looped(prog, T, locked, num_threads, chosen_thread, curr_thread_num)
    BY SMTT(30), <1>1, <1>4, <1>6, <1>7, <1>8, UserStep
  <1>10. CASE mode' = "hung" /\ th' = T /\ UNCHANGED <<chosen_thread, curr_thread_num, old, bugs>>
    <2>1. Running(prog', th', locked', num_threads', chosen_thread', old', curr_thread_num', mode')
      BY <1>1, <1>2, <1>9, <1>10 DEF Running
    <2>2. EndIsJudged'
      BY <1>10 DEF EndIsJudged
    <2> QED BY <1>1, <1>2, <1>10, <2>1, <2>2 DEF Inv
  <1>11. CASE Proceed(T, locked, chosen_thread, curr_thread_num, num_threads)
    <2>1. curr_thread_num \in 1..(num_threads + 1) /\ mode \in {"user", "choose"}
      BY SMT, <1>1, <1>2
    <2> QED BY <1>1, <1>2, <1>9, <1>11, <2>1, GoesOn
  <1> QED BY <1>1, <1>10, <1>11

\* assert_user_bug: the running thread goes on without an action
LEMMA AssertUserBugOK ==
  ASSUME Inv, AssertUserBug
  PROVE  Inv'
  <1> DEFINE t == old
             q == NextPC(old)
             C == CodeOf(prog, t)
             T == [th EXCEPT ![t].state = "READY", ![t].pc = q]
  <1>1. /\ mode = "user" /\ q <= Len(C) /\ C[q].kind = "assert" /\ UNCHANGED <<prog, num_threads, locked, waiters, finished>>
        /\ Proceed(T, locked, chosen_thread, curr_thread_num, num_threads)
    BY DEF AssertUserBug, Code
  <1>2. /\ t \in 1..Len(prog) /\ th \in [1..Len(prog) -> ThreadRecord] /\ num_threads \in 1..Len(prog)
        /\ curr_thread_num \in 1..num_threads /\ chosen_thread \in 0..Len(prog) /\ th[t].pending = NoAction
    BY <1>1 DEF Inv, Running, ThreadsOK
  <1>3. q \in 1..Len(C)
    BY <1>1, NextPCFacts
  <1>4. DOMAIN T = 1..Len(prog) /\ T = [u \in DOMAIN T |-> T[u]] /\ \A u \in 1..Len(prog) : u # t => T[u] = th[u]
    BY <1>2
  <1>5. T[t] = [th[t] EXCEPT !.state = "READY", !.pc = q]
    BY <1>2
  <1>6. q \in Nat /\ th[t] \in ThreadRecord /\ q <= Len(CodeOf(prog, old))
    BY SMT, <1>1, <1>2, <1>3
  <1> HIDE DEF q, C, T, t
  <1>7. /\ T[t] \in ThreadRecord /\ T[t].state = "READY" /\ T[t].pc = q /\ T[t].pending = th[t].pending
        /\ T[t].wakeup = th[t].wakeup /\ T[t].enabled = th[t].enabled
    BY <1>5, <1>6 DEF ThreadRecord
  <1>8. t = old /\ C = CodeOf(prog, t) /\ q = NextPC(old)
    BY DEF t, C, q
  <1>9. ThreadsOK(prog, T, num_threads) /\ Looped(prog, T, locked, num_threads, chosen_thread, curr_thread_num)
    BY SMTT(30), <1>1, <1>2, <1>4, <1>6, <1>7, <1>8, UserStep
  <1>10. curr_thread_num \in 1..(num_threads + 1) /\ mode \in {"user", "choose"}
    BY SMT, <1>1, <1>2
  <1> QED BY <1>1, <1>2, <1>9, <1>10, GoesOn

\* A thread t returns from a wait or a sleep without its action
LEMMA DroppedOK ==
  ASSUME Inv, UNCHANGED <<prog, num_threads, locked, waiters, finished>>, mode = "choose", NEW t \in 1..num_threads,
         NEW T, DOMAIN T = 1..Len(prog), T = [u \in DOMAIN T |-> T[u]],
         \A u \in 1..Len(prog) : u # t => T[u] = th[u],
         T[t] \in ThreadRecord, T[t].state = "READY", T[t].pending = NoAction, T[t].wakeup = FALSE,
         T[t].enabled = "enabled", T[t].pc = th[t].pc,
         RMWsApart(prog) => /\ th[t].pc >= 1 => CodeOf(prog, t)[th[t].pc].kind # "rmwr"
                            /\ \A u \in 1..num_threads : u # t => ~MidRMW(CodeOf(prog, u), th[u]),
         Proceed(T, locked, NoThread, Main, num_threads)
  PROVE  Inv'
  <1>1. prog \in Programs /\ num_threads \in 1..Len(prog) /\ ThreadsOK(prog, th, num_threads)
    BY DEF Inv, Running
  <1>2. Len(prog) \in Nat /\ num_threads \in Nat /\ t \in 1..Len(prog) /\ t \in Nat /\ 1..num_threads \subseteq 1..Len(prog)
    BY SMT, <1>1, CodeLengths
  <1>3. ThreadOK(CodeOf(prog, t), T[t])
    <2>1. ThreadOK(CodeOf(prog, t), th[t])
      BY <1>1, <1>2 DEF ThreadsOK
    <2> QED BY <2>1 DEF ThreadOK
  <1>4. ThreadsOK(prog, T, num_threads)
    <2>1. T \in [1..Len(prog) -> ThreadRecord]
      BY <1>1 DEF ThreadsOK
    <2>2. \A u \in 1..Len(prog) : ThreadOK(CodeOf(prog, u), T[u]) /\ (u > num_threads => T[u] = Unborn)
      BY SMTT(30), <1>1, <1>2, <1>3 DEF ThreadsOK
    <2> QED BY <2>1, <2>2 DEF ThreadsOK
  <1>5. ASSUME RMWsApart(prog), NEW u \in 1..num_threads PROVE ~MidRMW(CodeOf(prog, u), T[u])
    <2>1. CASE u = t
      BY SMT, <2>1, <1>5 DEF MidRMW, NoAction, Plain, Call
    <2>2. CASE u # t
      BY <2>2, <1>2, <1>5
    <2> QED BY <2>1, <2>2
  <1>6. Looped(prog, T, locked, num_threads, NoThread, Main)
    BY SMT, <1>5 DEF Looped, NoThread, Main
  <1>7. NoThread \in 0..Len(prog) /\ Main \in 1..(num_threads + 1) /\ mode \in {"user", "choose"}
    BY SMT, <1>1, <1>2 DEF NoThread, Main
  <1> QED BY <1>4, <1>6, <1>7, GoesOn

\* handleChosenThread resumes a notified thread
LEMMA ResumeWokenOK ==
  ASSUME Inv, NEW t \in Threads, ResumeWoken(t)
  PROVE  Inv'
  <1> DEFINE T == [th EXCEPT ![t].wakeup = FALSE, ![t].pending = NoAction]
             C == CodeOf(prog, t)
  <1>1. /\ Selected(t) /\ mode = "choose" /\ th[t].wakeup /\ UNCHANGED <<prog, num_threads, locked, waiters, finished>>
        /\ Proceed(T, locked, NoThread, Main, num_threads)
    BY DEF ResumeWoken, Selected
  <1>2. /\ t \in 1..num_threads /\ th[t].enabled = "enabled" /\ th[t].state = "READY" /\ th[t].pending # NoAction
        /\ RMWsApart(prog) => \A u \in 1..num_threads : MidRMW(CodeOf(prog, u), th[u]) => u = t
    BY <1>1, SelectedOK
  <1>3. t \in 1..Len(prog) /\ th \in [1..Len(prog) -> ThreadRecord] /\ th[t] \in ThreadRecord /\ ThreadOK(C, th[t])
    BY DEF Threads, Inv, Running, ThreadsOK
  <1>4. DOMAIN T = 1..Len(prog) /\ T = [u \in DOMAIN T |-> T[u]] /\ \A u \in 1..Len(prog) : u # t => T[u] = th[u]
    BY <1>3
  <1>5. T[t] = [th[t] EXCEPT !.wakeup = FALSE, !.pending = NoAction]
    BY <1>3
  <1>6. RMWsApart(prog) => /\ th[t].pc >= 1 => C[th[t].pc].kind # "rmwr"
                           /\ \A u \in 1..num_threads : u # t => ~MidRMW(CodeOf(prog, u), th[u])
    <2>1. th[t].pc \in Nat /\ th[t].pc <= Len(C) /\ th[t].pending = C[th[t].pc] /\ (CanWait(C) \/ th[t].pending.kind = "sleep")
      BY <1>1, <1>2, <1>3 DEF ThreadOK, ThreadRecord
    <2>2. Len(C) \in Nat
      BY <1>3, CodeFacts DEF Inv
    <2>3. RMWsApart(prog) /\ CanWait(C) => \A k \in 1..Len(C) : C[k].kind # "rmwr"
      BY <1>3 DEF RMWsApart
    <2> QED BY SMT, <1>2, <2>1, <2>2, <2>3
  <1>7. NoAction \in Actions
    BY DEF Actions
  <1> HIDE DEF T, C
  <1>8. T[t] \in ThreadRecord /\ T[t].wakeup = FALSE /\ T[t].pending = NoAction
    BY <1>3, <1>5, <1>7 DEF ThreadRecord
  <1>9. T[t].state = th[t].state /\ T[t].enabled = th[t].enabled /\ T[t].pc = th[t].pc
    BY <1>3, <1>5 DEF ThreadRecord
  <1> QED BY <1>1, <1>2, <1>4, <1>6, <1>8, <1>9, DroppedOK DEF C

\* handleChosenThread wakes a sleeping thread as nobody is enabled
LEMMA WakeSleeperOK ==
  ASSUME Inv, NEW t \in Threads, WakeSleeper(t)
  PROVE  Inv'
  <1> DEFINE T == [th EXCEPT ![t].enabled = "enabled", ![t].wakeup = FALSE, ![t].pending = NoAction]
             C == CodeOf(prog, t)
  <1>1. /\ mode = "choose" /\ chosen_thread = NoThread /\ t \in Sleeping(th)
        /\ UNCHANGED <<prog, num_threads, locked, waiters, finished>>
        /\ Proceed(T, locked, NoThread, Main, num_threads)
    BY DEF WakeSleeper
  <1>2. /\ t \in 1..Len(prog) /\ th \in [1..Len(prog) -> ThreadRecord] /\ th[t] \in ThreadRecord /\ ThreadOK(C, th[t])
        /\ (t > num_threads => th[t] = Unborn) /\ num_threads \in 1..Len(prog) /\ prog \in Programs
    BY DEF Threads, Inv, Running, ThreadsOK
  <1>3. Len(prog) \in Nat /\ num_threads \in Nat /\ t \in Nat /\ Len(C) \in Nat
    BY <1>2, CodeLengths, RangeFacts
  <1>4. /\ th[t].enabled = "sleep" /\ th[t].state = "READY" /\ th[t].pending.kind \in {"sleep", "wait", "timedwait"}
        /\ th[t].pending # NoAction
    BY <1>1, <1>2, HasAction DEF Sleeping, ThreadOK
  <1>5. t \in 1..num_threads
    <2>1. th[t] # Unborn
      BY <1>4 DEF Unborn, NewThread
    <2> QED BY <2>1, <1>2, <1>3, NotAbove
  <1>6. RMWsApart(prog) => /\ th[t].pc >= 1 => C[th[t].pc].kind # "rmwr"
                           /\ \A u \in 1..num_threads : u # t => ~MidRMW(CodeOf(prog, u), th[u])
    <2>1. Looped(prog, th, locked, num_threads, chosen_thread, num_threads + 1)
      BY <1>1 DEF Inv, Running
    <2>2. RMWsApart(prog) => \A u \in 1..num_threads : ~MidRMW(CodeOf(prog, u), th[u])
      BY SMT, <1>1, <1>3, <2>1 DEF Looped, NoThread
    <2>3. th[t].pending = C[th[t].pc]
      BY <1>2, <1>4 DEF ThreadOK
    <2> QED BY <1>4, <2>2, <2>3
  <1>7. DOMAIN T = 1..Len(prog) /\ T = [u \in DOMAIN T |-> T[u]] /\ \A u \in 1..Len(prog) : u # t => T[u] = th[u]
    BY <1>2
  <1>8. T[t] = [th[t] EXCEPT !.enabled = "enabled", !.wakeup = FALSE, !.pending = NoAction]
    BY <1>2
  <1>9. NoAction \in Actions
    BY DEF Actions
  <1>10. th[t] \in ThreadRecord
    BY <1>2
  <1> HIDE DEF T, C
  <1>11. T[t] \in ThreadRecord /\ T[t].wakeup = FALSE /\ T[t].pending = NoAction /\ T[t].enabled = "enabled"
    <2>1. T[t] \in ThreadRecord
      BY ZenonT(30), <1>8, <1>9, <1>10 DEF ThreadRecord
    <2>2. T[t].wakeup = FALSE /\ T[t].pending = NoAction /\ T[t].enabled = "enabled"
      BY <1>8, <1>10 DEF ThreadRecord
    <2> QED BY <2>1, <2>2
  <1>12. T[t].state = th[t].state /\ T[t].pc = th[t].pc
    BY <1>8, <1>10 DEF ThreadRecord
  <1> QED BY <1>1, <1>4, <1>5, <1>6, <1>7, <1>11, <1>12, DroppedOK DEF C

\* The threads at the start of an execution
LEMMA StartOK ==
  ASSUME NEW p \in Programs, NEW c \in 0..Len(p), NEW L,
         NEW T, T = [t \in 1..Len(p) |-> IF t = Main THEN [NewThread EXCEPT !.state = "RUNNING"] ELSE Unborn]
  PROVE  /\ 1 \in 1..Len(p) /\ WaitersOK(p, NoWaiters(p), 1)
         /\ Running(p, T, L, 1, c, Main, Main, "user")
  <1>1. Len(p) \in Nat /\ Len(p) >= 1
    BY SMT, ProgramAssumption
  <1>2. 1 \in 1..Len(p) /\ Main = 1
    BY SMT, <1>1 DEF Main
  <1>3. /\ T[1] = [NewThread EXCEPT !.state = "RUNNING"] /\ \A t \in 1..Len(p) : t # 1 => T[t] = Unborn
        /\ DOMAIN T = 1..Len(p) /\ T = [t \in DOMAIN T |-> T[t]]
    BY <1>2
  <1>4. NoAction \in Actions /\ NoAction.kind = "none"
    BY DEF Actions, NoAction, Plain, Call
  <1>5. /\ T[1] \in ThreadRecord /\ T[1].state = "RUNNING" /\ T[1].pending = NoAction /\ T[1].wakeup = FALSE
        /\ T[1].enabled = "enabled" /\ T[1].pc = 0
    <2> DEFINE r == T[1]
    <2>1. r = [NewThread EXCEPT !.state = "RUNNING"]
      BY <1>3
    <2> HIDE DEF r
    <2>2. r = [state |-> "RUNNING", pending |-> NoAction, wakeup |-> FALSE, ret |-> "none", enabled |-> "enabled", pc |-> 0]
      BY <2>1 DEF NewThread
    <2>3. r \in ThreadRecord
      BY <2>2, <1>4 DEF ThreadRecord
    <2>4. /\ r.state = "RUNNING" /\ r.pending = NoAction /\ r.wakeup = FALSE
          /\ r.enabled = "enabled" /\ r.pc = 0
      BY <2>2
    <2> QED BY <2>3, <2>4 DEF r
  <1>6. /\ Unborn \in ThreadRecord /\ Unborn.state = "CREATED" /\ Unborn.pending = NoAction /\ Unborn.wakeup = FALSE
        /\ Unborn.enabled = "disabled" /\ Unborn.pc = 0
    BY <1>4 DEF Unborn, NewThread, ThreadRecord
  <1>7. \A t \in 1..Len(p) : Len(CodeOf(p, t)) \in Nat
    BY CodeFacts
  <1>8. ThreadsOK(p, T, 1)
    <2>1. T \in [1..Len(p) -> ThreadRecord]
      BY <1>3, <1>5, <1>6
    <2>2. ASSUME NEW t \in 1..Len(p) PROVE ThreadOK(CodeOf(p, t), T[t]) /\ (t > 1 => T[t] = Unborn)
      <3>1. CASE t = 1
        BY SMTT(30), <3>1, <1>4, <1>5, <1>7 DEF ThreadOK
      <3>2. CASE t # 1
        <4>1. ThreadOK(CodeOf(p, t), Unborn)
          BY SMT, <1>4, <1>6, <1>7 DEF ThreadOK
        <4> QED BY <3>2, <4>1, <1>3
      <3> QED BY <3>1, <3>2
    <2> QED BY <2>1, <2>2 DEF ThreadsOK
  <1>9. Steady(CodeOf(p, 1), T[1])
    BY <1>5 DEF Steady
  <1>10. Looped(p, T, L, 1, c, 1)
    <2>1. \A t \in 1..1 : ~MidRMW(CodeOf(p, t), T[t])
      BY SMT, <1>4, <1>5 DEF MidRMW
    <2> QED BY SMT, <2>1, <1>9 DEF Looped
  <1>11. Running(p, T, L, 1, c, Main, Main, "user")
    BY SMTT(30), <1>2, <1>5, <1>8, <1>10 DEF Running, Complete
  <1>12. WaitersOK(p, NoWaiters(p), 1)
    BY SMT DEF WaitersOK, NoWaiters
  <1> QED BY <1>2, <1>11, <1>12

----------------------------------------------------------------------------
(* Theorems *)

\* The first execution starts right
LEMMA InitOK == Init => Inv
  <1>1. SUFFICES ASSUME NEW p \in Programs, InitFor(p)
                 PROVE  Inv
    BY DEF Init
  <1>2. NoThread \in 0..Len(p)
    BY SMT, ProgramAssumption DEF NoThread
  <1>3. /\ 1 \in 1..Len(p) /\ WaitersOK(p, NoWaiters(p), 1)
        /\ Running(p, th, locked, 1, NoThread, Main, Main, "user")
    BY <1>1, <1>2, StartOK DEF InitFor
  <1> QED BY <1>1, <1>3 DEF Inv, InitFor, EndIsJudged

\* The next execution starts right, though chosen_thread may be left from the last
LEMMA NextExecutionOK ==
  ASSUME Inv, NextExecution
  PROVE  Inv'
  <1>1. prog \in Programs /\ chosen_thread \in 0..Len(prog) /\ curr_thread_num = Main
    BY DEF Inv, Running, NextExecution
  <1>2. th' = [t \in 1..Len(prog) |-> IF t = Main THEN [NewThread EXCEPT !.state = "RUNNING"] ELSE Unborn]
    BY DEF NextExecution, Threads
  <1>3. /\ 1 \in 1..Len(prog) /\ WaitersOK(prog, NoWaiters(prog), 1)
        /\ Running(prog, th', locked', 1, chosen_thread, Main, Main, "user")
    BY <1>1, <1>2, StartOK
  <1>4. /\ mode' = "user" /\ prog' = prog /\ num_threads' = 1 /\ waiters' = NoWaiters(prog) /\ finished' = FALSE
        /\ chosen_thread' = chosen_thread /\ curr_thread_num' = Main /\ old' = Main
    BY <1>1 DEF NextExecution
  <1>5. EndIsJudged'
    BY <1>4 DEF EndIsJudged
  <1> QED BY <1>1, <1>3, <1>4, <1>5 DEF Inv

\* take_step keeps the invariant, whatever the action
LEMMA StepOK ==
  ASSUME Inv, NEW t \in Threads, NEW E \in SUBSET Sleeping(th), Step(t, E)
  PROVE  Inv'
  BY AccessOK, RMWReadOK, CreateThreadOK, FinishThreadOK, SleepOK, LockOK, UnlockOK, WaitOK, TimedWaitExpiredOK,
     NotifyAllOK, NotifyOneOK DEF Step

\* Every step of the run loop keeps the invariant
LEMMA NextOK ==
  ASSUME Inv, [Next]_vars
  PROVE  Inv'
  <1>1. CASE SwitchThread
    BY <1>1, SwitchThreadOK
  <1>2. CASE AssertUserBug
    BY <1>2, AssertUserBugOK
  <1>3. CASE GiveUp
    BY <1>3, GiveUpOK
  <1>4. CASE NextExecution
    BY <1>4, NextExecutionOK
  <1>5. CASE UseStaleChoice
    <2>1. /\ mode' = "segv"
          /\ UNCHANGED <<prog, th, num_threads, locked, waiters, chosen_thread, curr_thread_num, old, finished, bugs>>
      BY <1>5 DEF UseStaleChoice
    <2>2. Running(prog', th', locked', num_threads', chosen_thread', old', curr_thread_num', mode') /\ EndIsJudged'
      BY <2>1 DEF Inv, Running, EndIsJudged
    <2> QED BY <2>1, <2>2 DEF Inv
  <1>6. CASE UNCHANGED vars
    <2>1. UNCHANGED <<prog, th, num_threads, locked, waiters, chosen_thread, curr_thread_num, old, finished, bugs, mode>>
      BY <1>6 DEF vars
    <2>2. EndIsJudged'
      BY <2>1 DEF Inv, EndIsJudged, Live, Complete
    <2> QED BY <2>1, <2>2 DEF Inv
  <1>7. CASE HandleFault
    BY <1>6, <1>7 DEF HandleFault
  <1>8. ASSUME NEW t \in Threads, ResumeWoken(t) PROVE Inv'
    BY <1>8, ResumeWokenOK
  <1>9. ASSUME NEW t \in Threads, WakeSleeper(t) PROVE Inv'
    BY <1>9, WakeSleeperOK
  <1>10. ASSUME NEW t \in Threads, NEW E \in SUBSET Sleeping(th), Step(t, E) PROVE Inv'
    BY <1>10, StepOK
  <1> QED BY <1>1, <1>2, <1>3, <1>4, <1>5, <1>6, <1>7, <1>8, <1>9, <1>10 DEF Next

\* The invariant gives what take_step asserts of the thread it steps
LEMMA PickedFromInv == Inv => PickedCanStep
  <1>1. SUFFICES ASSUME Inv, mode = "choose", NEW t \in Available(th) \cup ({chosen_thread} \cap Live)
                 PROVE  /\ th[t].state = "READY" /\ th[t].pending # NoAction
                        /\ CheckActionEnabled(th, locked, t)
    BY DEF PickedCanStep
  <1>2. /\ num_threads \in 1..Len(prog) /\ prog \in Programs /\ ThreadsOK(prog, th, num_threads)
        /\ Looped(prog, th, locked, num_threads, chosen_thread, num_threads + 1)
    BY <1>1 DEF Inv, Running
  <1>3. Len(prog) \in Nat /\ num_threads \in Nat
    BY SMT, <1>2, CodeLengths
  <1>4. t \in 1..num_threads /\ th[t].enabled = "enabled" /\ ~Complete(th, t)
    <2>1. CASE t \in Available(th)
      <3>1. t \in 1..Len(prog) /\ th[t].enabled = "enabled" /\ ThreadOK(CodeOf(prog, t), th[t]) /\ (t > num_threads => th[t] = Unborn)
        BY <2>1, <1>2 DEF Available, ThreadsOK
      <3>2. th[t] # Unborn
        BY <3>1 DEF Unborn, NewThread
      <3>3. ~Complete(th, t)
        BY <3>1 DEF ThreadOK, Complete
      <3> QED BY SMT, <3>1, <3>2, <3>3, <1>3
    <2>2. CASE t = chosen_thread /\ t \in 1..num_threads
      BY <2>2, <1>2 DEF Looped, Steady, Complete
    <2> QED BY <2>1, <2>2 DEF Live
  <1>5. Settled(th, locked, t) /\ ThreadOK(CodeOf(prog, t), th[t])
    BY SMT, <1>2, <1>3, <1>4 DEF Looped, ThreadsOK
  <1> QED BY <1>4, <1>5 DEF Settled, ThreadOK

\* The two assertions of take_step (execution.cc:1746, 1748) hold of every
\* program: whichever thread is picked is ready, and its action is enabled
THEOREM PickedAlwaysCanStep == Spec => []PickedCanStep
  <1>1. Inv /\ [Next]_vars => Inv'
    BY NextOK
  <1> QED BY InitOK, <1>1, PickedFromInv, PTL DEF Spec

\* finish_execution judges every end of every program: without a report all
\* threads have completed, or main returned before a thread that could run
THEOREM EveryEndIsJudged == Spec => []EndIsJudged
  <1>1. Inv /\ [Next]_vars => Inv'
    BY NextOK
  <1>2. Inv => EndIsJudged
    BY DEF Inv
  <1> QED BY InitOK, <1>1, <1>2, PTL DEF Spec

\* action_select_next_thread: nothing comes between the two halves of an RMW, in
\* programs where no thread both waits for a condition variable and does RMWs.
\* (A notification that comes late, when its thread has gone on to an RMW, does
\* split it.)
THEOREM NoRMWIsSplit ==
  ASSUME \A p \in Programs : RMWsApart(p)
  PROVE  Spec => []RMWNotSplit
  <1>1. Inv /\ [Next]_vars => Inv'
    BY NextOK
  <1>2. Inv => RMWNotSplit
    <2>1. SUFFICES ASSUME Inv, mode = "choose", NEW t \in Live, th[t].pending.kind = "rmw"
                   PROVE  chosen_thread = t
      BY DEF RMWNotSplit
    <2>2. RMWsApart(prog) /\ Looped(prog, th, locked, num_threads, chosen_thread, num_threads + 1)
      BY <2>1 DEF Inv, Running
    <2> QED BY <2>1, <2>2 DEF Looped, MidRMW, Live
  <1> QED BY InitOK, <1>1, <1>2, PTL DEF Spec

----------------------------------------------------------------------------
(***************************************************************************)
(* Mutexes: who unlocks one holds it, and nobody is blocked for nothing,   *)
(* in programs that unlock only what they hold and do not wait for         *)
(* condition variables.                                                    *)
(***************************************************************************)

\* The call that a thread with record r and code C is about to perform
Position(C, r) ==
  IF r.pending # NoAction THEN r.pc
  ELSE IF r.pc > 0 /\ Failed(C[r.pc], r.ret) THEN r.pc + 1 + C[r.pc].skip ELSE r.pc + 1

HeldNow(C, r) == IF Position(C, r) <= Len(C) THEN Held(C, Position(C, r)) ELSE {}

\* A thread holds the mutexes it should hold
LocksOK(p, T, L) ==
  /\ L \in [Mutexes -> 0..Len(p)]
  /\ \A t \in 1..Len(p) : \A m \in HeldNow(CodeOf(p, t), T[t]) : L[m] = t

BlockedOK(p, T, L) ==
  \A t \in 1..Len(p) : T[t].state = "BLOCKED" /\ T[t].pending.kind \in {"lock", "join"} => ~CheckActionEnabled(T, L, t)

LockInv == LocksOK(prog, th, locked) /\ (~finished => BlockedOK(prog, th, locked))

----------------------------------------------------------------------------
(* What a thread holds *)

\* Nothing is held before the first call
LEMMA HeldFirst == \A C : Held(C, 1) = {}
  BY SMT DEF Held

\* What is held after call k was held before or is locked by it, and is not
\* unlocked by it
LEMMA HeldNext ==
  ASSUME NEW C, NEW k \in Nat, k >= 1, NEW m \in Held(C, k + 1)
  PROVE  \/ C[k].kind \in {"lock", "trylock"} /\ C[k].mu = m
         \/ m \in Held(C, k) /\ ~(C[k].kind = "unlock" /\ C[k].mu = m)
  <1>1. m \in Mutexes
    BY DEF Held
  <1>2. PICK j \in 1..k : /\ C[j].kind \in {"lock", "trylock"} /\ C[j].mu = m
                          /\ \A i \in (j + 1)..k : ~(C[i].kind = "unlock" /\ C[i].mu = m)
    BY SMT DEF Held
  <1>3. CASE j = k
    BY <1>2, <1>3
  <1>4. CASE j # k
    <2>1. j \in 1..(k - 1) /\ k \in (j + 1)..k /\ (j + 1)..(k - 1) \subseteq (j + 1)..k
      BY SMT, <1>4
    <2>2. m \in Held(C, k)
      BY <1>1, <1>2, <2>1 DEF Held
    <2> QED BY <1>2, <2>1, <2>2
  <1> QED BY <1>3, <1>4

\* What is held is a mutex
LEMMA HeldMutex == \A C, r : HeldNow(C, r) \subseteq Mutexes
  BY DEF HeldNow, Held

\* What a thread holds depends on its action, its call and its last result
LEMMA HeldSame ==
  ASSUME NEW C, NEW r, NEW s, s.pending = r.pending, s.pc = r.pc, s.ret = r.ret
  PROVE  HeldNow(C, s) = HeldNow(C, r)
  BY DEF HeldNow, Position

\* A thread that has its action holds what is held before the call
LEMMA HeldPending ==
  ASSUME NEW C, NEW r, r.pending # NoAction, r.pc <= Len(C)
  PROVE  HeldNow(C, r) = Held(C, r.pc)
  BY DEF HeldNow, Position

\* A thread whose call has succeeded holds at most what is held after the call
LEMMA HeldAfter ==
  ASSUME NEW C, NEW r, r.pending = NoAction, r.pc \in Nat, r.pc >= 1, ~Failed(C[r.pc], r.ret)
  PROVE  HeldNow(C, r) \subseteq Held(C, r.pc + 1)
  BY DEF HeldNow, Position

\* A join that is disabled stays so while its thread has not completed
LEMMA JoinDisabled ==
  ASSUME NEW T, NEW U, NEW L, NEW M, NEW t, T[t].pending.kind = "join", U[t].pending = T[t].pending,
         Complete(U, T[t].pending.tid) => Complete(T, T[t].pending.tid), ~CheckActionEnabled(T, L, t)
  PROVE  ~CheckActionEnabled(U, M, t)
  BY DEF CheckActionEnabled

\* A lock that is disabled stays so while its mutex keeps its owner
LEMMA LockDisabled ==
  ASSUME NEW T, NEW U, NEW L, NEW M, NEW t, T[t].pending.kind = "lock", U[t].pending = T[t].pending,
         M[T[t].pending.mu] = L[T[t].pending.mu], ~CheckActionEnabled(T, L, t)
  PROVE  ~CheckActionEnabled(U, M, t)
  BY DEF CheckActionEnabled

\* Whether an action is enabled depends on it, the mutexes and who has completed
LEMMA SameEnabled ==
  ASSUME NEW p, NEW T, NEW U, NEW L, NEW t \in 1..Len(p),
         T[t].pending.kind = "join" => T[t].pending.tid \in 1..Len(p),
         U[t].pending = T[t].pending,
         \A u \in 1..Len(p) : Complete(U, u) <=> Complete(T, u)
  PROVE  CheckActionEnabled(U, L, t) <=> CheckActionEnabled(T, L, t)
  <1>1. CASE T[t].pending.kind = "join"
    BY <1>1 DEF CheckActionEnabled
  <1>2. CASE T[t].pending.kind # "join"
    BY <1>2 DEF CheckActionEnabled
  <1> QED BY <1>1, <1>2

\* A thread joins one that the program has
LEMMA JoinTid ==
  ASSUME NEW p \in Programs, NEW T, NEW n, ThreadsOK(p, T, n), NEW t \in 1..Len(p), T[t].pending.kind = "join"
  PROVE  T[t].pending.tid \in 1..Len(p)
  <1>1. ThreadOK(CodeOf(p, t), T[t]) /\ Len(CodeOf(p, t)) \in Nat
    BY CodeFacts DEF ThreadsOK
  <1>2. T[t].pending # NoAction
    BY HasAction
  <1>3. T[t].pc \in 1..Len(CodeOf(p, t)) /\ T[t].pending = CodeOf(p, t)[T[t].pc]
    BY <1>1, <1>2, PendingAt
  <1> QED BY <1>3, CodeFacts

\* A thread locks, tries and unlocks mutexes
LEMMA LockMutex ==
  ASSUME Inv, NEW t \in 1..Len(prog), th[t].pending.kind \in {"lock", "trylock", "unlock"}
  PROVE  th[t].pending.mu \in Mutexes
  <1>1. prog \in Programs /\ ThreadOK(CodeOf(prog, t), th[t])
    BY DEF Inv, Running, ThreadsOK
  <1>2. Len(CodeOf(prog, t)) \in Nat /\ th[t].pending # NoAction
    BY <1>1, CodeLengths, HasAction
  <1>3. th[t].pc \in 1..Len(CodeOf(prog, t)) /\ th[t].pending = CodeOf(prog, t)[th[t].pc]
    BY <1>1, <1>2, PendingAt
  <1>4. th[t].pending \in Actions /\ th[t].pending.kind \notin {"none", "start", "finish"}
    BY <1>1, <1>3, CodeFacts
  <1>5. th[t].pending \in Calls
    BY SMT, <1>4 DEF Actions, NoAction, Plain, Call
  <1> QED BY <1>5 DEF Calls

----------------------------------------------------------------------------
(* The loop *)

\* What the loop changes of the threads T before the next step or call
KeptFacts(p, T, L, U) ==
  \A u \in 1..Len(p) :
    /\ U[u].pending = T[u].pending /\ U[u].pc = T[u].pc /\ U[u].ret = T[u].ret
    /\ Complete(U, u) <=> Complete(T, u)
    /\ U[u].state = "BLOCKED" => T[u].state = "BLOCKED" \/ ~CheckActionEnabled(T, L, u)

\* getNextThread frees, blocks and runs threads, and changes nothing else
LEMMA LoopKeeps ==
  ASSUME NEW p \in Programs, NEW T \in [1..Len(p) -> ThreadRecord], NEW L, NEW n \in 1..Len(p), NEW c, NEW first \in Nat, first >= 1,
         \A u \in 1..Len(p) : Complete(T, u) => T[u].pending = NoAction,
         Proceed(T, L, c, first, n)
  PROVE  KeptFacts(p, T, L, th')
  <1> DEFINE idle == {t \in first..n : ~Complete(T, t) /\ T[t].pending = NoAction}
             next == IF idle = {} THEN NoThread ELSE Lowest(idle)
             visited == {t \in first..n : idle = {} \/ t < next}
             considered == {t \in visited : T[t].pending # NoAction /\ T[t].enabled # "disabled"}
             blocked == Disabled(T, L, considered)
             after == [t \in DOMAIN T |->
                         CASE t \in visited /\ Freeable(T, t) -> [T[t] EXCEPT !.state = "FREED"]
                           [] t \in blocked -> [T[t] EXCEPT !.enabled = "disabled", !.state = "BLOCKED"]
                           [] OTHER -> T[t]]
  <1>1. IF next = NoThread THEN th' = after ELSE th' = [after EXCEPT ![next].state = "RUNNING"]
    <2>1. PICK r : /\ r = GetNextThread(T, L, c, first, n)
                   /\ IF r.next = NoThread THEN th' = r.th ELSE th' = [r.th EXCEPT ![r.next].state = "RUNNING"]
      BY DEF Proceed
    <2>2. r.next = next /\ r.th = after
      BY <2>1 DEF GetNextThread
    <2> QED BY <2>1, <2>2
  <1>2. Len(p) \in Nat /\ n \in Nat /\ first..n \subseteq 1..Len(p) /\ DOMAIN T = 1..Len(p)
    BY SMT, CodeLengths
  <1>3. next # NoThread => next \in first..n /\ ~Complete(T, next) /\ T[next].pending = NoAction /\ next \notin visited
    <2>1. idle \in SUBSET Nat
      BY SMT, <1>2
    <2>2. idle # {} => Lowest(idle) \in idle
      <3> HIDE DEF idle
      <3> QED BY <2>1, LowestIn
    <2>3. ASSUME next # NoThread PROVE next \in idle /\ next \notin visited
      <3>1. idle # {} /\ next \in idle /\ next \in Nat
        BY <2>1, <2>2, <2>3
      <3> HIDE DEF idle, next
      <3> QED BY SMT, <3>1
    <2> QED BY <2>3
  <1>4. \A t : t \in blocked => t \in visited /\ ~CheckActionEnabled(T, L, t) /\ T[t].pending # NoAction
    BY DEF Disabled
  <1>5. \A t \in visited : t \in 1..Len(p)
    BY <1>2
  <1> HIDE DEF idle, next, visited, considered, blocked
  <1>6. \A t \in blocked : T[t].state \notin {"COMPLETED", "FREED"}
    BY <1>4, <1>5 DEF Complete
  <1>7. ASSUME NEW u \in 1..Len(p)
        PROVE  \/ T[u].state = "COMPLETED" /\ after[u] = [T[u] EXCEPT !.state = "FREED"]
               \/ u \in blocked /\ after[u] = [T[u] EXCEPT !.enabled = "disabled", !.state = "BLOCKED"]
               \/ after[u] = T[u]
    <2>1. u \in DOMAIN T
      BY <1>2
    <2>2. CASE u \in visited /\ Freeable(T, u)
      <3>1. T[u].state = "COMPLETED"
        BY <2>2 DEF Freeable
      <3> QED BY SMTT(30), <2>1, <2>2, <3>1
    <2>3. CASE ~(u \in visited /\ Freeable(T, u)) /\ u \in blocked
      BY <2>1, <2>3
    <2>4. CASE ~(u \in visited /\ Freeable(T, u)) /\ u \notin blocked
      BY <2>1, <2>4
    <2> QED BY <2>2, <2>3, <2>4
  <1>8. DOMAIN after = 1..Len(p) /\ (next # NoThread => after[next] = T[next])
    <2>1. ASSUME next # NoThread PROVE after[next] = T[next]
      BY <2>1, <1>2, <1>3, <1>4
    <2> QED BY <1>2, <2>1
  <1> HIDE DEF after
  <1>9. ASSUME NEW u \in 1..Len(p)
        PROVE  \/ T[u].state = "COMPLETED" /\ th'[u] = [T[u] EXCEPT !.state = "FREED"]
               \/ u \in blocked /\ th'[u] = [T[u] EXCEPT !.enabled = "disabled", !.state = "BLOCKED"]
               \/ th'[u] = T[u]
               \/ ~Complete(T, u) /\ th'[u] = [T[u] EXCEPT !.state = "RUNNING"]
    <2>1. CASE next # NoThread /\ u = next
      BY <2>1, <1>1, <1>3, <1>8
    <2>2. CASE ~(next # NoThread /\ u = next)
      <3>1. th'[u] = after[u]
        BY <2>2, <1>1, <1>8
      <3> QED BY <3>1, <1>7
    <2> QED BY <2>1, <2>2
  <1>10. ASSUME NEW u \in 1..Len(p)
         PROVE  /\ th'[u].pending = T[u].pending /\ th'[u].pc = T[u].pc /\ th'[u].ret = T[u].ret
                /\ Complete(th', u) <=> Complete(T, u)
                /\ th'[u].state = "BLOCKED" => T[u].state = "BLOCKED" \/ ~CheckActionEnabled(T, L, u)
    <2>1. T[u] \in ThreadRecord
      OBVIOUS
    <2>2. CASE T[u].state = "COMPLETED" /\ th'[u] = [T[u] EXCEPT !.state = "FREED"]
      BY <2>1, <2>2 DEF ThreadRecord, Complete
    <2>3. CASE u \in blocked /\ th'[u] = [T[u] EXCEPT !.enabled = "disabled", !.state = "BLOCKED"]
      <3>1. th'[u].state = "BLOCKED" /\ th'[u].pending = T[u].pending /\ th'[u].pc = T[u].pc /\ th'[u].ret = T[u].ret
        BY <2>1, <2>3 DEF ThreadRecord
      <3>2. ~CheckActionEnabled(T, L, u) /\ ~Complete(T, u)
        BY <2>3, <1>4, <1>6 DEF Complete
      <3>3. ~Complete(th', u)
        BY <3>1 DEF Complete
      <3> QED BY <3>1, <3>2, <3>3
    <2>4. CASE th'[u] = T[u]
      BY <2>4 DEF Complete
    <2>5. CASE ~Complete(T, u) /\ th'[u] = [T[u] EXCEPT !.state = "RUNNING"]
      BY <2>1, <2>5 DEF ThreadRecord, Complete
    <2> QED BY <1>9, <2>2, <2>3, <2>4, <2>5
  <1> QED BY <1>10 DEF KeptFacts

\* The loop keeps who holds what, and blocks a thread for a reason
LEMMA LoopLocks ==
  ASSUME NEW p \in Programs, NEW T, NEW L, NEW n, KeptFacts(p, T, L, th'),
         LocksOK(p, T, L), BlockedOK(p, T, L), ThreadsOK(p, th', n)
  PROVE  LocksOK(p, th', L) /\ BlockedOK(p, th', L)
  <1>1. LocksOK(p, th', L)
    <2>1. ASSUME NEW u \in 1..Len(p) PROVE HeldNow(CodeOf(p, u), th'[u]) = HeldNow(CodeOf(p, u), T[u])
      BY HeldSame, ZenonT(30) DEF KeptFacts
    <2> QED BY <2>1 DEF LocksOK
  <1>2. ASSUME NEW u \in 1..Len(p), th'[u].state = "BLOCKED", th'[u].pending.kind \in {"lock", "join"}
        PROVE  ~CheckActionEnabled(th', L, u)
    <2>1. T[u].pending = th'[u].pending /\ \A v \in 1..Len(p) : Complete(T, v) <=> Complete(th', v)
      BY DEF KeptFacts
    <2>2. ~CheckActionEnabled(T, L, u)
      BY <1>2, <2>1 DEF KeptFacts, BlockedOK
    <2>3. th'[u].pending.kind = "join" => th'[u].pending.tid \in 1..Len(p)
      BY JoinTid
    <2> QED BY <2>1, <2>2, <2>3, SameEnabled
  <1> QED BY <1>1, <1>2 DEF BlockedOK

\* A completed thread has no action (Thread::complete, after its last step)
Rested(p, T) == \A u \in 1..Len(p) : Complete(T, u) => T[u].pending = NoAction

\* What take_step does once the action is performed keeps the locks as they are
LEMMA TakenLocks ==
  ASSUME Inv', UNCHANGED prog, NEW t \in 1..Len(prog), NEW F \in [1..Len(prog) -> ThreadRecord], NEW c,
         Taken(t, F, c), ~finished', Rested(prog, F), LocksOK(prog, F, locked'), BlockedOK(prog, F, locked')
  PROVE  LockInv'
  <1> DEFINE G == IF F[t].state = "BLOCKED" \/ Complete(F, t) THEN [F EXCEPT ![t].enabled = "disabled"] ELSE F
  <1>1. Proceed(G, locked', c, Main, num_threads')
    BY DEF Taken
  <1>2. /\ prog \in Programs /\ num_threads' \in 1..Len(prog) /\ ThreadsOK(prog, th', num_threads')
        /\ Main \in Nat /\ Main >= 1
    BY SMT DEF Inv, Running, Main
  <1>3. /\ G \in [1..Len(prog) -> ThreadRecord]
        /\ \A u \in 1..Len(prog) : /\ G[u].pending = F[u].pending /\ G[u].pc = F[u].pc /\ G[u].ret = F[u].ret
                                   /\ G[u].state = F[u].state
    <2>1. CASE F[t].state = "BLOCKED" \/ Complete(F, t)
      <3>1. G[t] = [F[t] EXCEPT !.enabled = "disabled"] /\ \A u \in 1..Len(prog) : u # t => G[u] = F[u]
        BY <2>1
      <3>2. DOMAIN G = 1..Len(prog) /\ G = [u \in DOMAIN G |-> G[u]]
        BY <2>1
      <3> HIDE DEF G
      <3>3. /\ G[t] \in ThreadRecord /\ G[t].pending = F[t].pending /\ G[t].pc = F[t].pc /\ G[t].ret = F[t].ret
            /\ G[t].state = F[t].state
        <4>1. F[t] \in ThreadRecord /\ G[t] = [F[t] EXCEPT !.enabled = "disabled"]
          BY <3>1
        <4> QED BY <4>1 DEF ThreadRecord
      <3>4. \A u \in 1..Len(prog) : G[u] \in ThreadRecord
        BY <3>1, <3>3
      <3> QED BY <3>1, <3>2, <3>3, <3>4
    <2>2. CASE ~(F[t].state = "BLOCKED" \/ Complete(F, t))
      <3>1. G = F
        BY <2>2
      <3> QED BY <3>1
    <2> QED BY <2>1, <2>2
  <1> HIDE DEF G
  <1>4. \A u \in 1..Len(prog) : Complete(G, u) <=> Complete(F, u)
    BY <1>3 DEF Complete
  <1>5. \A u \in 1..Len(prog) : Complete(G, u) => G[u].pending = NoAction
    BY <1>3, <1>4 DEF Rested
  <1>6. KeptFacts(prog, G, locked', th')
    BY <1>1, <1>2, <1>3, <1>5, LoopKeeps
  <1>7. LocksOK(prog, G, locked')
    <2>1. ASSUME NEW u \in 1..Len(prog) PROVE HeldNow(CodeOf(prog, u), G[u]) = HeldNow(CodeOf(prog, u), F[u])
      BY <1>3, HeldSame, ZenonT(30)
    <2> QED BY <2>1 DEF LocksOK
  <1>8. BlockedOK(prog, G, locked')
    <2>1. ASSUME NEW u \in 1..Len(prog), G[u].state = "BLOCKED", G[u].pending.kind \in {"lock", "join"}
          PROVE  ~CheckActionEnabled(G, locked', u)
      <3>1. ~CheckActionEnabled(F, locked', u)
        BY <2>1, <1>3 DEF BlockedOK
      <3>2. G[u].pending.kind = "join" => G[u].pending.tid \in 1..Len(prog)
        <4>1. G[u].pending = th'[u].pending
          BY <1>6 DEF KeptFacts
        <4> QED BY <4>1, <1>2, JoinTid
      <3>3. F[u].pending = G[u].pending /\ \A v \in 1..Len(prog) : Complete(F, v) <=> Complete(G, v)
        BY <1>3, <1>4
      <3> QED BY <3>1, <3>2, <3>3, SameEnabled
    <2> QED BY <2>1 DEF BlockedOK
  <1>9. LocksOK(prog, th', locked') /\ BlockedOK(prog, th', locked')
    BY <1>2, <1>6, <1>7, <1>8, LoopLocks
  <1> QED BY <1>9 DEF LockInv

\* The same when the loop goes on without a step
LEMMA ProceedLocks ==
  ASSUME Inv', UNCHANGED prog, NEW F \in [1..Len(prog) -> ThreadRecord], NEW c, NEW first \in Nat, first >= 1,
         Proceed(F, locked', c, first, num_threads'), Rested(prog, F), LocksOK(prog, F, locked'), BlockedOK(prog, F, locked')
  PROVE  LockInv'
  <1>1. prog \in Programs /\ num_threads' \in 1..Len(prog) /\ ThreadsOK(prog, th', num_threads')
    BY DEF Inv, Running
  <1>2. KeptFacts(prog, F, locked', th')
    BY <1>1, LoopKeeps DEF Rested
  <1>3. LocksOK(prog, th', locked') /\ BlockedOK(prog, th', locked')
    BY <1>1, <1>2, LoopLocks
  <1> QED BY <1>3 DEF LockInv

----------------------------------------------------------------------------
(* Steps *)

\* The threads other than t keep their action, their call and their result,
\* and are not blocked, ended or revived
Others(t, F) ==
  \A u \in 1..Len(prog) : u # t =>
    /\ F[u].pending = th[u].pending /\ F[u].pc = th[u].pc /\ F[u].ret = th[u].ret
    /\ Complete(F, u) <=> Complete(th, u)
    /\ F[u].state = "BLOCKED" => th[u].state = "BLOCKED"

\* A step of t that takes no mutex away from the others
LEMMA MovedHeld ==
  ASSUME Inv, LockInv, NEW t \in 1..Len(prog), NEW F, NEW L, Others(t, F),
         L \in [Mutexes -> 0..Len(prog)],
         \A m \in HeldNow(CodeOf(prog, t), F[t]) : L[m] = t,
         \A m \in Mutexes : L[m] = locked[m] \/ locked[m] = NoThread \/ locked[m] = t
  PROVE  LocksOK(prog, F, L)
  <1>1. LocksOK(prog, th, locked)
    BY DEF LockInv
  <1>3. ASSUME NEW u \in 1..Len(prog), u # t, NEW m \in HeldNow(CodeOf(prog, u), F[u]) PROVE L[m] = u
    <2>1. HeldNow(CodeOf(prog, u), F[u]) = HeldNow(CodeOf(prog, u), th[u])
      <3>1. F[u].pending = th[u].pending /\ F[u].pc = th[u].pc /\ F[u].ret = th[u].ret
        BY <1>3 DEF Others
      <3> QED BY <3>1, HeldSame
    <2>2. locked[m] = u
      BY <2>1, <1>1 DEF LocksOK
    <2>3. m \in Mutexes
      BY HeldMutex
    <2>4. u # NoThread
      BY CodeLengths, RangeFacts DEF Inv
    <2> QED BY <2>2, <2>3, <2>4, <1>3
  <1> QED BY <1>3 DEF LocksOK

\* The same when the step wakes those whose reason to wait it removes
LEMMA MovedLocks ==
  ASSUME Inv, LockInv, ~finished, NEW t \in 1..Len(prog), NEW F, NEW L, Others(t, F), F[t].state # "BLOCKED",
         Complete(F, t) => F[t].pending = NoAction,
         L \in [Mutexes -> 0..Len(prog)],
         \A m \in HeldNow(CodeOf(prog, t), F[t]) : L[m] = t,
         \A m \in Mutexes : L[m] = locked[m] \/ locked[m] = NoThread \/ locked[m] = t,
         \A u \in 1..Len(prog) : u # t /\ F[u].state = "BLOCKED" /\ F[u].pending.kind \in {"lock", "join"}
                                 /\ ~CheckActionEnabled(th, locked, u) => ~CheckActionEnabled(F, L, u)
  PROVE  Rested(prog, F) /\ LocksOK(prog, F, L) /\ BlockedOK(prog, F, L)
  <1>1. prog \in Programs /\ ThreadsOK(prog, th, num_threads) /\ LocksOK(prog, th, locked) /\ BlockedOK(prog, th, locked)
    BY DEF Inv, Running, LockInv
  <1>2. Rested(prog, F)
    <2>1. ASSUME NEW u \in 1..Len(prog), u # t, Complete(F, u) PROVE F[u].pending = NoAction
      <3>1. Complete(th, u) /\ F[u].pending = th[u].pending
        BY <2>1 DEF Others
      <3>2. ThreadOK(CodeOf(prog, u), th[u])
        BY <1>1 DEF ThreadsOK
      <3> QED BY <3>1, <3>2 DEF ThreadOK, Complete
    <2> QED BY <2>1 DEF Rested
  <1>4. LocksOK(prog, F, L)
    BY MovedHeld
  <1>5. BlockedOK(prog, F, L)
    <2>1. ASSUME NEW u \in 1..Len(prog), F[u].state = "BLOCKED", F[u].pending.kind \in {"lock", "join"}
          PROVE  ~CheckActionEnabled(F, L, u)
      <3>1. u # t
        BY <2>1
      <3>2. th[u].state = "BLOCKED" /\ th[u].pending.kind \in {"lock", "join"}
        BY <2>1, <3>1 DEF Others
      <3>3. ~CheckActionEnabled(th, locked, u)
        BY <3>2, <1>1 DEF BlockedOK
      <3> QED BY <2>1, <3>1, <3>3
    <2> QED BY <2>1 DEF BlockedOK
  <1> QED BY <1>2, <1>4, <1>5

\* The threads T when t has lost its action of this kind and sleepers are
\* woken, in a program without waits
StepKnown(t, kind, T) ==
  /\ t \in 1..Len(prog) /\ T \in [1..Len(prog) -> ThreadRecord] /\ prog \in Programs /\ UNCHANGED prog
  /\ \A u \in 1..Len(prog) : u # t =>
       T[u].pending = th[u].pending /\ T[u].pc = th[u].pc /\ T[u].ret = th[u].ret /\ T[u].state = th[u].state
  /\ T[t].pending = NoAction /\ T[t].pc = th[t].pc /\ T[t].state = "READY" /\ th[t].state = "READY"
  /\ th[t].pc \in Nat /\ th[t].pc >= 1 /\ th[t].pc <= Len(CodeOf(prog, t))
  /\ th[t].pending = CodeOf(prog, t)[th[t].pc] /\ th[t].pending.kind = kind /\ ~finished
  /\ \A m \in Held(CodeOf(prog, t), th[t].pc) : locked[m] = t

\* A thread of a program without waits makes no such call
LEMMA NeverWaits ==
  ASSUME NEW p \in Programs, Disciplined(p), NEW t \in 1..Len(p), NEW k \in 1..Len(CodeOf(p, t))
  PROVE  CodeOf(p, t)[k].kind # "wait" /\ CodeOf(p, t)[k].kind # "timedwait"
  <1>1. ~CanWait(CodeOf(p, t))
    BY DEF Disciplined
  <1> QED BY <1>1 DEF CanWait

\* Nor does it have such an action
LEMMA NoWaitPending ==
  ASSUME Inv, Disciplined(prog), NEW t \in 1..Len(prog)
  PROVE  th[t].pending.kind # "wait" /\ th[t].pending.kind # "timedwait"
  <1>1. prog \in Programs /\ ThreadOK(CodeOf(prog, t), th[t]) /\ Len(CodeOf(prog, t)) \in Nat
    BY CodeFacts DEF Inv, Running, ThreadsOK
  <1>2. CASE th[t].pending = NoAction
    BY <1>2, NoActionNone
  <1>3. CASE th[t].pending # NoAction
    <2>1. th[t].pc \in 1..Len(CodeOf(prog, t)) /\ th[t].pending = CodeOf(prog, t)[th[t].pc]
      BY <1>1, <1>3, PendingAt
    <2> QED BY <1>1, <2>1, NeverWaits
  <1> QED BY <1>2, <1>3

\* The sleepers that are woken keep all but their flags
LEMMA SteppedKnown ==
  ASSUME Inv, LockInv, Disciplined(prog), NEW t \in Threads, NEW E \in SUBSET Sleeping(th), NEW kind, kind # "none",
         Stepping(t, kind, E), NEW T, T = Stepped(t, E)
  PROVE  StepKnown(t, kind, T)
  <1>1. SteppedFacts(t, kind, T)
    BY SteppedOK
  <1>2. /\ ThreadsOK(prog, T, num_threads)
        /\ T[t] = [th[t] EXCEPT !.pending = NoAction]
        /\ th[t].state = "READY"
        /\ th[t].pc \in 1..Len(CodeOf(prog, t)) /\ th[t].pending = CodeOf(prog, t)[th[t].pc]
        /\ th[t].pending.kind = kind /\ ~finished
    BY <1>1 DEF SteppedFacts
  <1>3. prog \in Programs /\ th \in [1..Len(prog) -> ThreadRecord] /\ UNCHANGED prog
    BY DEF Inv, Running, ThreadsOK, Stepping
  <1>4. t \in 1..Len(prog) /\ T \in [1..Len(prog) -> ThreadRecord] /\ th[t] \in ThreadRecord
    BY <1>2, <1>3 DEF ThreadsOK, Threads
  <1>5. T[t].pending = NoAction /\ T[t].pc = th[t].pc /\ T[t].state = "READY"
    BY <1>2, <1>4 DEF ThreadRecord
  <1>6. ASSUME NEW u \in 1..Len(prog), u # t
        PROVE  T[u].pending = th[u].pending /\ T[u].pc = th[u].pc /\ T[u].ret = th[u].ret /\ T[u].state = th[u].state
    <2>1. CASE u \in E
      <3>1. th[u].pending.kind # "timedwait" /\ th[u] \in ThreadRecord
        BY <1>3, NoWaitPending
      <3>2. T[u] = [th[u] EXCEPT !.enabled = "enabled", !.wakeup = TRUE,
                                 !.ret = IF th[u].pending.kind = "timedwait" THEN "ETIMEDOUT" ELSE @]
        BY <2>1, <1>3, <1>6 DEF Stepped, WakeUp
      <3>3. T[u] = [th[u] EXCEPT !.enabled = "enabled", !.wakeup = TRUE, !.ret = th[u].ret]
        BY <3>1, <3>2
      <3> QED BY <3>1, <3>3 DEF ThreadRecord
    <2>2. CASE u \notin E
      BY <2>2, <1>6, SteppedOther
    <2> QED BY <2>1, <2>2
  <1>7. th[t].pc \in Nat /\ th[t].pc >= 1 /\ th[t].pc <= Len(CodeOf(prog, t))
    <2>1. Len(CodeOf(prog, t)) \in Nat
      BY <1>3, <1>4, CodeLengths
    <2> QED BY <1>2, <2>1, RangeFacts
  <1>8. th[t].pending # NoAction
    BY <1>2, HasAction
  <1>9. HeldNow(CodeOf(prog, t), th[t]) = Held(CodeOf(prog, t), th[t].pc)
    BY <1>7, <1>8, HeldPending
  <1>10. \A m \in Held(CodeOf(prog, t), th[t].pc) : locked[m] = t
    BY <1>4, <1>9 DEF LockInv, LocksOK
  <1> QED BY <1>2, <1>3, <1>4, <1>5, <1>6, <1>7, <1>10 DEF StepKnown

\* The threads F are T but for t
SameOthers(t, T, F) ==
  /\ F \in [1..Len(prog) -> ThreadRecord]
  /\ \A u \in 1..Len(prog) : u # t =>
       F[u].pending = T[u].pending /\ F[u].pc = T[u].pc /\ F[u].ret = T[u].ret /\ F[u].state = T[u].state

\* Mutexes change their owner only to t, and not from another
OnlyTakes(t) ==
  /\ locked' \in [Mutexes -> 0..Len(prog)]
  /\ \A m \in Mutexes : locked'[m] = locked[m] \/ ((locked[m] = NoThread \/ locked[m] = t) /\ locked'[m] = t)

\* A thread with record r has what it should hold
HoldsHeld(t, r) == \A m \in HeldNow(CodeOf(prog, t), r) : locked'[m] = t

\* A step whose threads F are T but for t, and that ends no thread
LEMMA PlainLocks ==
  ASSUME Inv, Inv', LockInv, NEW t, NEW kind, NEW T, StepKnown(t, kind, T),
         NEW F, NEW c, Taken(t, F, c), UNCHANGED finished, SameOthers(t, T, F), F[t].state = "READY",
         OnlyTakes(t), HoldsHeld(t, F[t])
  PROVE  LockInv'
  <1>0. /\ F \in [1..Len(prog) -> ThreadRecord] /\ locked' \in [Mutexes -> 0..Len(prog)]
        /\ \A m \in HeldNow(CodeOf(prog, t), F[t]) : locked'[m] = t
        /\ \A m \in Mutexes : locked'[m] = locked[m] \/ ((locked[m] = NoThread \/ locked[m] = t) /\ locked'[m] = t)
    BY DEF SameOthers, OnlyTakes, HoldsHeld
  <1>1. /\ t \in 1..Len(prog) /\ th[t].state = "READY" /\ ~finished /\ UNCHANGED prog /\ prog \in Programs
        /\ \A u \in 1..Len(prog) : u # t =>
             F[u].pending = th[u].pending /\ F[u].pc = th[u].pc /\ F[u].ret = th[u].ret /\ F[u].state = th[u].state
    BY ZenonT(30) DEF StepKnown, SameOthers
  <1>2. Others(t, F)
    BY <1>1 DEF Others, Complete
  <1>3. \A u \in 1..Len(prog) : Complete(F, u) <=> Complete(th, u)
    BY <1>1 DEF Complete
  <1>4. ASSUME NEW u \in 1..Len(prog), u # t, F[u].pending.kind \in {"lock", "join"}, ~CheckActionEnabled(th, locked, u)
        PROVE  ~CheckActionEnabled(F, locked', u)
    <2>1. F[u].pending = th[u].pending /\ ThreadsOK(prog, th, num_threads)
      BY <1>1, <1>4 DEF Inv, Running
    <2>2. CASE th[u].pending.kind = "join"
      <3>1. th[u].pending.tid \in 1..Len(prog)
        BY <2>1, <2>2, <1>1, JoinTid
      <3> QED BY <2>1, <2>2, <3>1, <1>3, <1>4, JoinDisabled
    <2>3. CASE th[u].pending.kind = "lock"
      <3>1. th[u].pending.mu \in Mutexes
        BY <2>3, <1>1, LockMutex
      <3>2. t # NoThread
        BY <1>1, CodeLengths, RangeFacts
      <3> QED BY <2>1, <2>3, <3>1, <3>2, <1>0, <1>1, <1>4 DEF CheckActionEnabled
    <2> QED BY <2>1, <2>2, <2>3, <1>4
  <1>5. /\ F[t].state # "BLOCKED" /\ ~Complete(F, t)
        /\ \A m \in Mutexes : locked'[m] = locked[m] \/ locked[m] = NoThread \/ locked[m] = t
    BY <1>0 DEF Complete
  <1>6. Rested(prog, F) /\ LocksOK(prog, F, locked') /\ BlockedOK(prog, F, locked')
    BY <1>0, <1>1, <1>2, <1>4, <1>5, MovedLocks
  <1> QED BY <1>0, <1>1, <1>6, TakenLocks

\* What a thread holds after its call k it held before, unless the call locked it
LEMMA OwnHeld ==
  ASSUME NEW p \in Programs, Disciplined(p), NEW t \in 1..Len(p), NEW r, NEW C, C = CodeOf(p, t), NEW k \in 1..Len(C),
         r.pending = NoAction, r.pc = k, NEW m \in HeldNow(C, r)
  PROVE  \/ m \in Held(C, k) /\ ~(C[k].kind = "unlock" /\ C[k].mu = m)
         \/ C[k].kind \in {"lock", "trylock"} /\ C[k].mu = m /\ ~Failed(C[k], r.ret)
  <1>1. Len(C) \in Nat /\ k \in Nat /\ k >= 1 /\ k > 0
    BY CodeLengths, RangeFacts
  <1>2. CASE ~Failed(C[k], r.ret)
    <2>1. m \in Held(C, k + 1)
      BY <1>1, <1>2, HeldAfter
    <2> QED BY <1>1, <1>2, <2>1, HeldNext
  <1>3. CASE Failed(C[k], r.ret)
    <2>1. C[k].kind = "trylock"
      BY <1>3, NeverWaits DEF Failed
    <2>2. Position(C, r) = k + 1 + C[k].skip
      BY <1>1, <1>3 DEF Position
    <2>3. m \in Held(C, k + 1 + C[k].skip) /\ k + 1 + C[k].skip <= Len(C)
      BY <2>2 DEF HeldNow
    <2>4. Held(C, k + 1 + C[k].skip) \subseteq Held(C, k)
      BY <2>1, <2>3 DEF Disciplined
    <2>5. C[k].kind # "unlock"
      BY <2>1
    <2> QED BY <2>3, <2>4, <2>5
  <1> QED BY <1>2, <1>3

\* It takes no mutex by another call
LEMMA QuietHeld ==
  ASSUME NEW p \in Programs, Disciplined(p), NEW t \in 1..Len(p), NEW r, NEW k \in 1..Len(CodeOf(p, t)),
         r.pending = NoAction, r.pc = k, CodeOf(p, t)[k].kind \notin {"lock", "trylock", "unlock"}
  PROVE  HeldNow(CodeOf(p, t), r) \subseteq Held(CodeOf(p, t), k)
  <1> DEFINE C == CodeOf(p, t)
  <1>1. ASSUME NEW m \in HeldNow(C, r) PROVE m \in Held(C, k)
    <2>1. \/ m \in Held(C, k) /\ ~(C[k].kind = "unlock" /\ C[k].mu = m)
          \/ C[k].kind \in {"lock", "trylock"} /\ C[k].mu = m /\ ~Failed(C[k], r.ret)
      BY SMTT(30), <1>1, OwnHeld
    <2> QED BY <2>1
  <1> QED BY <1>1

\* A step after which t has another return value at most, and may have locked
\* the mutex of its call
LEMMA RetLocks ==
  ASSUME Inv, Inv', LockInv, Disciplined(prog), NEW t, NEW kind, NEW T, StepKnown(t, kind, T),
         NEW v \in {"none", "0", "1", "ETIMEDOUT"}, NEW c, Taken(t, [T EXCEPT ![t].ret = v], c), UNCHANGED finished,
         OnlyTakes(t),
         kind \in {"lock", "trylock"} /\ ~Failed(th[t].pending, v) => locked'[th[t].pending.mu] = t
  PROVE  LockInv'
  <1> DEFINE F == [T EXCEPT ![t].ret = v]
             C == CodeOf(prog, t)
             k == th[t].pc
  <1>1. /\ t \in 1..Len(prog) /\ T \in [1..Len(prog) -> ThreadRecord] /\ prog \in Programs
        /\ T[t].pending = NoAction /\ T[t].pc = k /\ T[t].state = "READY"
        /\ k \in Nat /\ k >= 1 /\ k <= Len(C) /\ th[t].pending = C[k] /\ C[k].kind = kind
        /\ \A m \in Held(C, k) : locked[m] = t
    BY DEF StepKnown
  <1>2. F[t] = [T[t] EXCEPT !.ret = v] /\ \A u \in 1..Len(prog) : u # t => F[u] = T[u]
    BY <1>1
  <1>3. DOMAIN F = 1..Len(prog) /\ F = [u \in DOMAIN F |-> F[u]]
    BY <1>1
  <1>4. Taken(t, F, c)
    OBVIOUS
  <1> HIDE DEF F
  <1>5. F[t] \in ThreadRecord /\ F[t].pending = NoAction /\ F[t].pc = k /\ F[t].state = "READY" /\ F[t].ret = v
    <2>1. T[t] \in ThreadRecord /\ F[t] = [T[t] EXCEPT !.ret = v]
      BY <1>1, <1>2
    <2> QED BY <2>1, <1>1 DEF ThreadRecord
  <1>6. F \in [1..Len(prog) -> ThreadRecord]
    <2>1. \A u \in 1..Len(prog) : F[u] \in ThreadRecord
      BY <1>1, <1>2, <1>5
    <2> QED BY <2>1, <1>3
  <1>7. ASSUME NEW m \in HeldNow(C, F[t]) PROVE locked'[m] = t
    <2>1. m \in Mutexes /\ k \in 1..Len(C)
      <3>1. Len(C) \in Nat /\ m \in Mutexes
        BY <1>1, CodeLengths, HeldMutex
      <3> HIDE DEF C, k
      <3> QED BY <1>1, <3>1, InRange
    <2>2. \/ m \in Held(C, k)
          \/ C[k].kind \in {"lock", "trylock"} /\ C[k].mu = m /\ ~Failed(C[k], v)
      <3> HIDE DEF k
      <3>1. \/ m \in Held(C, k)
            \/ C[k].kind \in {"lock", "trylock"} /\ C[k].mu = m /\ ~Failed(C[k], F[t].ret)
        BY ZenonT(30), <1>1, <1>5, <1>7, <2>1, OwnHeld
      <3> QED BY <3>1, <1>5
    <2>3. CASE m \in Held(C, k)
      BY <2>1, <2>3, <1>1 DEF OnlyTakes
    <2>4. CASE C[k].kind \in {"lock", "trylock"} /\ C[k].mu = m /\ ~Failed(C[k], v)
      BY <2>4, <1>1
    <2> QED BY <2>2, <2>3, <2>4, ZenonT(30)
  <1>8. SameOthers(t, T, F)
    BY <1>2, <1>6 DEF SameOthers
  <1>9. HoldsHeld(t, F[t])
    BY <1>7 DEF HoldsHeld
  <1> QED BY <1>4, <1>5, <1>8, <1>9, PlainLocks

\* Accesses, yields, thread starts and joins
LEMMA AccessLocks ==
  ASSUME Inv, Inv', LockInv, Disciplined(prog), NEW t \in Threads, NEW E \in SUBSET Sleeping(th), Access(t, E)
  PROVE  LockInv'
  <1>1. PICK kind \in {"start", "join", "write", "yield", "rmw"} :
          /\ Stepping(t, kind, E)
          /\ UnchangedObjects(E)
          /\ Taken(t, [Stepped(t, E) EXCEPT ![t].ret = IF kind \in {"write", "rmw"} THEN "none" ELSE @], NoThread)
    BY DEF Access
  <1> DEFINE T == Stepped(t, E)
             v == IF kind \in {"write", "rmw"} THEN "none" ELSE T[t].ret
  <1>2. kind # "none" /\ kind \notin {"lock", "trylock"}
    OBVIOUS
  <1>3. StepKnown(t, kind, T)
    BY <1>1, <1>2, SteppedKnown
  <1>4. T[t] \in ThreadRecord
    BY <1>3 DEF StepKnown
  <1>5. v \in {"none", "0", "1", "ETIMEDOUT"}
    BY <1>4 DEF ThreadRecord
  <1>6. Taken(t, [T EXCEPT ![t].ret = v], NoThread)
    BY <1>1
  <1>7. UNCHANGED finished /\ OnlyTakes(t)
    BY <1>1 DEF UnchangedObjects, LockInv, LocksOK, OnlyTakes
  <1> HIDE DEF v, T
  <1> QED BY <1>2, <1>3, <1>5, <1>6, <1>7, RetLocks

\* The first half of an RMW
LEMMA RMWReadLocks ==
  ASSUME Inv, Inv', LockInv, Disciplined(prog), NEW t \in Threads, NEW E \in SUBSET Sleeping(th), RMWRead(t, E)
  PROVE  LockInv'
  <1> DEFINE T == Stepped(t, E)
  <1>1. StepKnown(t, "rmwr", T)
    BY SteppedKnown DEF RMWRead
  <1>2. Taken(t, [T EXCEPT ![t].ret = "none"], t) /\ "none" \in {"none", "0", "1", "ETIMEDOUT"} /\ "rmwr" \notin {"lock", "trylock"}
    BY DEF RMWRead
  <1>3. UNCHANGED finished /\ OnlyTakes(t)
    BY DEF RMWRead, UnchangedObjects, LockInv, LocksOK, OnlyTakes
  <1> HIDE DEF T
  <1> QED BY <1>1, <1>2, <1>3, RetLocks

\* Locks and attempts to lock: what is locked was free, or t's own and recursive
LEMMA LockLocks ==
  ASSUME Inv, Inv', LockInv, Disciplined(prog), NEW t \in Threads, NEW E \in SUBSET Sleeping(th), Lock(t, E)
  PROVE  LockInv'
  <1> DEFINE m == th[t].pending.mu
  <1>1. PICK kind \in {"lock", "trylock"} :
          LET free == kind = "lock" \/ locked[m] = NoThread
          IN  /\ Stepping(t, kind, E)
              /\ locked' = IF free THEN [locked EXCEPT ![m] = t] ELSE locked
              /\ UNCHANGED finished
              /\ Taken(t, [Stepped(t, E) EXCEPT ![t].ret = CASE kind = "lock" -> @
                                                             [] kind = "trylock" /\ free -> "1"
                                                             [] OTHER -> "0"], NoThread)
    BY DEF Lock
  <1> DEFINE T == Stepped(t, E)
             free == kind = "lock" \/ locked[m] = NoThread
             v == CASE kind = "lock" -> T[t].ret
                    [] kind = "trylock" /\ free -> "1"
                    [] OTHER -> "0"
  <1>2. kind # "none" /\ Stepping(t, kind, E)
    BY <1>1
  <1>3. StepKnown(t, kind, T)
    BY <1>2, SteppedKnown
  <1>4. T[t] \in ThreadRecord /\ t \in 1..Len(prog) /\ th[t].pending.kind = kind
    BY <1>3 DEF StepKnown
  <1>5. v \in {"none", "0", "1", "ETIMEDOUT"}
    BY <1>4 DEF ThreadRecord
  <1>6. Taken(t, [T EXCEPT ![t].ret = v], NoThread)
    BY <1>1
  <1>7. UNCHANGED finished /\ locked \in [Mutexes -> 0..Len(prog)] /\ locked' = IF free THEN [locked EXCEPT ![m] = t] ELSE locked
    BY <1>1 DEF LockInv, LocksOK
  <1>8. m \in Mutexes /\ t \in 0..Len(prog)
    <2>1. Len(prog) \in Nat
      BY <1>4, CodeLengths DEF Inv
    <2> QED BY <1>1, <1>4, <2>1, LockMutex, RangeFacts
  <1>9. free => locked[m] = NoThread \/ locked[m] = t
    <2>1. CheckActionEnabled(th, locked, t)
      <3>1. th[t].pending # NoAction /\ Selected(t)
        BY <1>2, <1>4, HasAction DEF Stepping
      <3> QED BY <3>1, SelectedOK
    <2> QED BY <2>1, <1>4 DEF CheckActionEnabled
  <1>10. ~free => Failed(th[t].pending, v)
    <2>1. ASSUME ~free PROVE kind = "trylock" /\ v = "0"
      BY <2>1
    <2> HIDE DEF v, free
    <2> QED BY <2>1, <1>4 DEF Failed
  <1> HIDE DEF v, T, m, free
  <1>11. locked' \in [Mutexes -> 0..Len(prog)]
    BY <1>7, <1>8
  <1>12. OnlyTakes(t)
    BY <1>7, <1>8, <1>9, <1>11, ZenonT(30) DEF OnlyTakes
  <1>13. ~Failed(th[t].pending, v) => locked'[th[t].pending.mu] = t
    BY <1>7, <1>8, <1>10 DEF m
  <1> QED BY <1>3, <1>5, <1>6, <1>7, <1>12, <1>13, RetLocks

\* A step that changes no mutex, after which t has no action
LEMMA QuietLocks ==
  ASSUME Inv, Inv', LockInv, Disciplined(prog), NEW t, NEW kind, kind \notin {"lock", "trylock"}, NEW T, StepKnown(t, kind, T),
         NEW F, NEW c, Taken(t, F, c), UNCHANGED <<finished, locked>>, SameOthers(t, T, F),
         F[t].state = "READY", F[t].pending = NoAction, F[t].pc = th[t].pc
  PROVE  LockInv'
  <1> DEFINE C == CodeOf(prog, t)
             k == th[t].pc
  <1>1. /\ t \in 1..Len(prog) /\ prog \in Programs
        /\ k \in Nat /\ k >= 1 /\ k <= Len(C) /\ th[t].pending = C[k] /\ C[k].kind = kind
        /\ \A m \in Held(C, k) : locked[m] = t
    BY DEF StepKnown
  <1>2. ASSUME NEW m \in HeldNow(C, F[t]) PROVE locked'[m] = t
    <2>1. k \in 1..Len(C) /\ F[t].pc = k
      <3>1. Len(C) \in Nat /\ F[t].pc = k
        BY <1>1, CodeLengths
      <3> HIDE DEF C, k
      <3> QED BY <1>1, <3>1, InRange
    <2>2. m \in Held(C, k)
      <3> HIDE DEF k
      <3> QED BY <1>1, <2>1, OwnHeld
    <2> QED BY <2>2, <1>1, ZenonT(30)
  <1>3. OnlyTakes(t) /\ HoldsHeld(t, F[t]) /\ UNCHANGED finished
    BY <1>2 DEF LockInv, LocksOK, OnlyTakes, HoldsHeld
  <1> QED BY <1>3, PlainLocks

\* A new thread has done nothing
LEMMA CreateThreadLocks ==
  ASSUME Inv, Inv', LockInv, Disciplined(prog), NEW t \in Threads, NEW E \in SUBSET Sleeping(th), CreateThread(t, E)
  PROVE  LockInv'
  <1> DEFINE T == Stepped(t, E)
             child == num_threads + 1
             F == [T EXCEPT ![child] = NewThread]
  <1>1. /\ Stepping(t, "create", E) /\ child \in 1..Len(prog) /\ UNCHANGED <<finished, locked>> /\ Taken(t, F, child)
        /\ prog \in Programs /\ num_threads \in 1..Len(prog) /\ ThreadsOK(prog, th, num_threads)
    BY DEF CreateThread, Inv, Running, Threads
  <1>2. StepKnown(t, "create", T) /\ SteppedFacts(t, "create", T)
    BY <1>1, SteppedKnown, SteppedOK
  <1>3. /\ t \in 1..Len(prog) /\ T \in [1..Len(prog) -> ThreadRecord]
        /\ T[t].pending = NoAction /\ T[t].pc = th[t].pc /\ T[t].state = "READY"
        /\ \A u \in 1..Len(prog) : u # t =>
             T[u].pending = th[u].pending /\ T[u].pc = th[u].pc /\ T[u].ret = th[u].ret /\ T[u].state = th[u].state
    BY <1>2 DEF StepKnown
  <1>4. t \in 1..num_threads
    BY <1>2 DEF SteppedFacts
  <1>5. child # t /\ child > num_threads
    BY SMTT(30), <1>1, <1>4, CodeLengths
  <1>6. th[child] = Unborn
    BY <1>1, <1>5 DEF ThreadsOK
  <1> HIDE DEF T, child
  <1>7. F[child] = NewThread /\ (\A u \in 1..Len(prog) : u # child => F[u] = T[u]) /\ DOMAIN F = 1..Len(prog) /\ F = [u \in DOMAIN F |-> F[u]]
    BY <1>1, <1>3
  <1> HIDE DEF F
  <1>8. /\ NewThread \in ThreadRecord /\ NewThread.pending = Unborn.pending /\ NewThread.pc = Unborn.pc
        /\ NewThread.ret = Unborn.ret /\ NewThread.state = Unborn.state
    BY DEF NewThread, Unborn, ThreadRecord, Actions
  <1>9. F \in [1..Len(prog) -> ThreadRecord]
    BY <1>3, <1>7, <1>8
  <1>10. SameOthers(t, T, F)
    <2>1. ASSUME NEW u \in 1..Len(prog), u # t
          PROVE  F[u].pending = T[u].pending /\ F[u].pc = T[u].pc /\ F[u].ret = T[u].ret /\ F[u].state = T[u].state
      <3>1. CASE u = child
        BY <3>1, <2>1, <1>3, <1>6, <1>7, <1>8
      <3>2. CASE u # child
        BY <3>2, <1>7
      <3> QED BY <3>1, <3>2
    <2> QED BY <2>1, <1>9 DEF SameOthers
  <1>11. F[t].state = "READY" /\ F[t].pending = NoAction /\ F[t].pc = th[t].pc
    BY <1>3, <1>5, <1>7
  <1>12. "create" \notin {"lock", "trylock"}
    OBVIOUS
  <1> QED BY <1>1, <1>2, <1>10, <1>11, <1>12, QuietLocks, ZenonT(30)

\* A sleeping thread keeps its action
LEMMA SleepLocks ==
  ASSUME Inv, Inv', LockInv, Disciplined(prog), NEW t \in Threads, NEW E \in SUBSET Sleeping(th), Sleep(t, E)
  PROVE  LockInv'
  <1> DEFINE T == Stepped(t, E)
             F == [T EXCEPT ![t].pending = th[t].pending, ![t].enabled = "sleep"]
  <1>1. Stepping(t, "sleep", E) /\ UNCHANGED <<finished, locked>> /\ Taken(t, F, NoThread)
    BY DEF Sleep, UnchangedObjects
  <1>2. StepKnown(t, "sleep", T)
    BY <1>1, SteppedKnown
  <1>3. /\ t \in 1..Len(prog) /\ T \in [1..Len(prog) -> ThreadRecord] /\ prog \in Programs
        /\ T[t].pc = th[t].pc /\ T[t].state = "READY" /\ th[t].pc <= Len(CodeOf(prog, t))
        /\ th[t].pending.kind = "sleep"
        /\ \A m \in Held(CodeOf(prog, t), th[t].pc) : locked[m] = t
    BY <1>2 DEF StepKnown
  <1>4. th[t] \in ThreadRecord /\ th[t].pending \in Actions
    <2>1. th[t] \in ThreadRecord
      BY <1>3 DEF Inv, Running, ThreadsOK
    <2> QED BY <2>1 DEF ThreadRecord
  <1> HIDE DEF T
  <1>5. /\ F[t] = [T[t] EXCEPT !.pending = th[t].pending, !.enabled = "sleep"]
        /\ \A u \in 1..Len(prog) : u # t => F[u] = T[u]
        /\ DOMAIN F = 1..Len(prog) /\ F = [u \in DOMAIN F |-> F[u]]
    BY <1>3
  <1> HIDE DEF F
  <1>6. F[t] \in ThreadRecord /\ F[t].pending = th[t].pending /\ F[t].pc = th[t].pc /\ F[t].state = "READY"
    <2>1. T[t] \in ThreadRecord /\ F[t] = [T[t] EXCEPT !.pending = th[t].pending, !.enabled = "sleep"]
      BY <1>3, <1>5
    <2> QED BY <2>1, <1>3, <1>4 DEF ThreadRecord
  <1>7. SameOthers(t, T, F)
    <2>1. \A u \in 1..Len(prog) : F[u] \in ThreadRecord
      BY <1>3, <1>5, <1>6
    <2>2. F \in [1..Len(prog) -> ThreadRecord]
      BY <1>5, <2>1
    <2> QED BY <1>5, <2>2 DEF SameOthers
  <1>8. HoldsHeld(t, F[t])
    <2>1. F[t].pending # NoAction
      BY <1>3, <1>6, HasAction
    <2>2. HeldNow(CodeOf(prog, t), F[t]) = Held(CodeOf(prog, t), th[t].pc)
      BY <1>3, <1>6, <2>1, HeldPending
    <2> QED BY ZenonT(30), <1>1, <1>3, <2>2 DEF HoldsHeld
  <1>9. OnlyTakes(t) /\ UNCHANGED finished
    BY <1>1 DEF LockInv, LocksOK, OnlyTakes
  <1> QED BY <1>1, <1>2, <1>6, <1>7, <1>8, <1>9, PlainLocks

\* In a program without waits a notification finds nobody
LEMMA NobodyListed ==
  ASSUME Inv, Disciplined(prog), NEW E \in SUBSET Sleeping(th), NEW c \in CondVars
  PROVE  Listed(LeaveLists(th, E)[c]) = {}
  <1>1. WaitersOK(prog, LeaveLists(th, E), num_threads)
    BY ListsOK
  <1>2. ASSUME NEW u \in Listed(LeaveLists(th, E)[c]) PROVE FALSE
    <2>1. u \in 1..Len(prog) /\ CanWait(CodeOf(prog, u))
      BY <1>1, ListedOK
    <2> QED BY <2>1 DEF Disciplined
  <1> QED BY <1>2

\* Notifications
LEMMA NotifyLocks ==
  ASSUME Inv, Inv', LockInv, Disciplined(prog), NEW t \in Threads, NEW E \in SUBSET Sleeping(th),
         NotifyAll(t, E) \/ NotifyOne(t, E)
  PROVE  LockInv'
  <1> DEFINE T == Stepped(t, E)
             c == th[t].pending.cv
             N == Listed(LeaveLists(th, E)[c])
  <1>1. PICK kind \in {"notify_one", "notify_all"} : 
          /\ Stepping(t, kind, E) /\ UNCHANGED <<finished, locked>>
          /\ Taken(t, T, NoThread) \/ Taken(t, Notified(T, N), NoThread) \/ N # {}
    <2>1. CASE NotifyAll(t, E)
      BY <2>1 DEF NotifyAll
    <2>2. CASE NotifyOne(t, E)
      BY <2>2 DEF NotifyOne
    <2> QED BY <2>1, <2>2
  <1>2. N = {}
    <2>1. c \in CondVars
      BY <1>1, NotifyFacts
    <2> QED BY <2>1, NobodyListed
  <1>3. kind # "none" /\ kind \notin {"lock", "trylock"}
    OBVIOUS
  <1>4. StepKnown(t, kind, T)
    BY <1>1, <1>3, SteppedKnown
  <1>5. T \in [1..Len(prog) -> ThreadRecord] /\ T[t].pending = NoAction /\ T[t].pc = th[t].pc /\ T[t].state = "READY"
    BY <1>4 DEF StepKnown
  <1> HIDE DEF T, N
  <1>6. Notified(T, N) = T
    <2>1. DOMAIN T = 1..Len(prog) /\ T = [u \in DOMAIN T |-> T[u]]
      BY <1>5
    <2>2. Wake(T, {u \in N : T[u].state # "COMPLETED"}) = T
      BY <1>2, <2>1 DEF Wake
    <2> QED BY <1>2, <2>1, <2>2 DEF Notified
  <1>7. SameOthers(t, T, T)
    BY <1>5 DEF SameOthers
  <1>8. Taken(t, T, NoThread)
    BY <1>1, <1>2, <1>6
  <1> QED BY <1>1, <1>3, <1>4, <1>5, <1>7, <1>8, QuietLocks

\* What Scheduler::wake makes of the threads T: who is woken is not blocked
WakeKnown(t, S, T, U) ==
  /\ U \in [1..Len(prog) -> ThreadRecord] /\ U[t] = T[t] /\ Others(t, U)
  /\ \A u \in 1..Len(prog) : U[u].state = "BLOCKED" => u \notin S

\* Only threads that have an action are woken, and these have not completed
LEMMA WakeLocks ==
  ASSUME Inv, NEW t, NEW kind, NEW T, StepKnown(t, kind, T),
         NEW S, \A u \in S : T[u].pending.kind \in {"lock", "join"}, NEW U, U = Wake(T, S)
  PROVE  WakeKnown(t, S, T, U)
  <1>1. /\ t \in 1..Len(prog) /\ T \in [1..Len(prog) -> ThreadRecord] /\ T[t].pending = NoAction
        /\ \A u \in 1..Len(prog) : u # t =>
             T[u].pending = th[u].pending /\ T[u].pc = th[u].pc /\ T[u].ret = th[u].ret /\ T[u].state = th[u].state
    BY DEF StepKnown
  <1>2. t \notin S
    BY <1>1, NoActionNone
  <1>3. DOMAIN U = 1..Len(prog) /\ U = [u \in DOMAIN U |-> U[u]]
    BY <1>1 DEF Wake
  <1>4. ASSUME NEW u \in 1..Len(prog), u \notin S PROVE U[u] = T[u]
    BY <1>1, <1>4 DEF Wake
  <1>5. ASSUME NEW u \in 1..Len(prog), u \in S
        PROVE  U[u] \in ThreadRecord /\ U[u].pending = T[u].pending /\ U[u].pc = T[u].pc /\ U[u].ret = T[u].ret /\ U[u].state = "READY"
    <2>1. U[u] = [T[u] EXCEPT !.enabled = "enabled", !.state = "READY"] /\ T[u] \in ThreadRecord
      BY <1>1, <1>5 DEF Wake
    <2> QED BY <2>1 DEF ThreadRecord
  <1>6. U \in [1..Len(prog) -> ThreadRecord]
    <2>1. \A u \in 1..Len(prog) : U[u] \in ThreadRecord
      BY <1>1, <1>4, <1>5
    <2> QED BY <1>3, <2>1
  <1>7. ASSUME NEW u \in 1..Len(prog), u # t
        PROVE  /\ U[u].pending = th[u].pending /\ U[u].pc = th[u].pc /\ U[u].ret = th[u].ret
               /\ Complete(U, u) <=> Complete(th, u)
               /\ U[u].state = "BLOCKED" => th[u].state = "BLOCKED"
    <2>1. CASE u \in S
      <3>1. th[u].pending # NoAction /\ ThreadOK(CodeOf(prog, u), th[u])
        <4>1. th[u].pending.kind \in {"lock", "join"}
          BY ZenonT(30), <2>1, <1>1, <1>7
        <4>2. th[u].pending # NoAction
          BY SMTT(30), <4>1 DEF NoAction, Plain, Call
        <4> QED BY <4>2 DEF Inv, Running, ThreadsOK
      <3>2. ~Complete(th, u)
        BY <3>1 DEF ThreadOK, Complete
      <3>3. U[u].pending = th[u].pending /\ U[u].pc = th[u].pc /\ U[u].ret = th[u].ret /\ U[u].state = "READY"
        BY <2>1, <1>1, <1>5, <1>7
      <3> QED BY <3>2, <3>3 DEF Complete
    <2>2. CASE u \notin S
      <3>1. U[u].pending = th[u].pending /\ U[u].pc = th[u].pc /\ U[u].ret = th[u].ret /\ U[u].state = th[u].state
        BY <2>2, <1>1, <1>4, <1>7
      <3> QED BY <3>1 DEF Complete
    <2> QED BY <2>1, <2>2, ZenonT(30)
  <1>8. Others(t, U)
    BY <1>7 DEF Others
  <1>9. U[t] = T[t] /\ \A u \in 1..Len(prog) : U[u].state = "BLOCKED" => u \notin S
    BY <1>1, <1>2, <1>4, <1>5
  <1> QED BY <1>6, <1>8, <1>9 DEF WakeKnown

\* Nobody unborn is blocked
LEMMA BlockedLive ==
  ASSUME Inv, NEW u \in 1..Len(prog), th[u].state = "BLOCKED"
  PROVE  u \in Live
  <1>1. /\ prog \in Programs /\ num_threads \in 1..Len(prog)
        /\ u > num_threads => th[u] = Unborn
    BY DEF Inv, Running, ThreadsOK
  <1>2. th[u] # Unborn
    BY DEF Unborn, NewThread
  <1>3. Len(prog) \in Nat
    BY <1>1, CodeFacts
  <1>4. ~(u > num_threads)
    BY <1>1, <1>2
  <1> QED BY <1>1, <1>3, <1>4, NotAbove DEF Live

\* An unlock frees the mutex, which was t's, and wakes who waits for it
LEMMA UnlockLocks ==
  ASSUME Inv, Inv', LockInv, Disciplined(prog), NEW t \in Threads, NEW E \in SUBSET Sleeping(th), Unlock(t, E)
  PROVE  LockInv'
  <1> DEFINE T == Stepped(t, E)
             S == LockWaiters(T, t)
             U == Wake(T, S)
             C == CodeOf(prog, t)
             k == th[t].pc
             m == th[t].pending.mu
  <1>1. /\ Stepping(t, "unlock", E) /\ UNCHANGED finished /\ Taken(t, U, NoThread)
        /\ locked' = [locked EXCEPT ![m] = NoThread]
    BY DEF Unlock
  <1>2. StepKnown(t, "unlock", T)
    BY <1>1, SteppedKnown
  <1>3. /\ t \in 1..Len(prog) /\ prog \in Programs /\ UNCHANGED prog /\ ~finished
        /\ T[t].pending = NoAction /\ T[t].pc = k /\ T[t].state = "READY"
        /\ k \in Nat /\ k >= 1 /\ k <= Len(C) /\ th[t].pending = C[k] /\ C[k].kind = "unlock"
        /\ \A x \in Held(C, k) : locked[x] = t
        /\ \A u \in 1..Len(prog) : u # t =>
             T[u].pending = th[u].pending /\ T[u].pc = th[u].pc /\ T[u].ret = th[u].ret /\ T[u].state = th[u].state
    BY ZenonT(30), <1>2 DEF StepKnown
  <1>4. k \in 1..Len(C)
    <2>1. Len(C) \in Nat
      BY <1>3, CodeLengths
    <2> HIDE DEF C, k
    <2> QED BY <1>3, <2>1, InRange
  <1>5. m \in Held(C, k) /\ m \in Mutexes /\ locked[m] = t
    <2>1. C[k].mu \in Held(C, k)
      BY <1>3, <1>4 DEF Disciplined
    <2>2. m \in Held(C, k) /\ Held(C, k) \subseteq Mutexes
      BY <2>1, <1>3, ZenonT(30) DEF Held
    <2> QED BY <2>2, <1>3
  <1>6. locked \in [Mutexes -> 0..Len(prog)] /\ NoThread \in 0..Len(prog) /\ t # NoThread
    <2>1. Len(prog) \in Nat
      BY <1>3, CodeLengths
    <2> QED BY <1>3, <2>1, RangeFacts, ZeroBelow DEF LockInv, LocksOK
  <1>7. \A u : u \in S <=> u \in Live /\ WaitingOn(T, locked, u) = t /\ T[u].pending.kind = "lock"
    BY DEF LockWaiters
  <1> HIDE DEF T, S
  <1>8. U = Wake(T, S) /\ \A u \in S : T[u].pending.kind \in {"lock", "join"}
    BY <1>7
  <1> HIDE DEF U
  <1>9. WakeKnown(t, S, T, U)
    BY <1>2, <1>8, WakeLocks
  <1>10. /\ U \in [1..Len(prog) -> ThreadRecord] /\ U[t] = T[t] /\ Others(t, U)
         /\ \A u \in 1..Len(prog) : U[u].state = "BLOCKED" => u \notin S
    BY <1>9 DEF WakeKnown
  <1>11. ASSUME NEW x \in HeldNow(C, U[t]) PROVE locked'[x] = t
    <2>1. x \in Held(C, k) /\ x # m
      <3>1. U[t].pending = NoAction /\ U[t].pc = k /\ m = C[k].mu
        BY <1>3, <1>10
      <3> HIDE DEF k, m
      <3> QED BY ZenonT(30), <1>3, <1>4, <1>11, <3>1, OwnHeld
    <2>2. x \in Mutexes /\ locked[x] = t
      BY <2>1, <1>3 DEF Held
    <2> QED BY <2>1, <2>2, <1>1, <1>6, ZenonT(30)
  <1>12. ASSUME NEW u \in 1..Len(prog), u # t, U[u].state = "BLOCKED", U[u].pending.kind \in {"lock", "join"},
                ~CheckActionEnabled(th, locked, u)
         PROVE  ~CheckActionEnabled(U, locked', u)
    <2>1. th[u].state = "BLOCKED" /\ U[u].pending = th[u].pending /\ u \notin S
      BY <1>10, <1>12 DEF Others
    <2>2. \A x \in 1..Len(prog) : Complete(U, x) <=> Complete(th, x)
      <3>1. th[t].state = "READY" /\ U[t].state = "READY"
        BY <1>2, <1>3, <1>10, ZenonT(30) DEF StepKnown
      <3>2. Complete(U, t) <=> Complete(th, t)
        BY <3>1 DEF Complete
      <3> QED BY <3>2, <1>10 DEF Others
    <2>3. CASE th[u].pending.kind = "join"
      <3>1. th[u].pending.tid \in 1..Len(prog)
        BY <2>3, <1>3, JoinTid DEF Inv, Running
      <3> QED BY <2>1, <2>2, <2>3, <3>1, <1>12, JoinDisabled
    <2>4. CASE th[u].pending.kind = "lock"
      <3>1. th[u].pending.mu \in Mutexes /\ u \in Live /\ T[u].pending = th[u].pending
        BY <2>1, <2>4, <1>3, <1>12, LockMutex, BlockedLive
      <3>2. th[u].pending.mu # m
        BY <2>1, <2>4, <3>1, <1>5, <1>7 DEF WaitingOn
      <3>3. locked'[th[u].pending.mu] = locked[th[u].pending.mu]
        BY <3>1, <3>2, <1>1, <1>6
      <3> QED BY <2>1, <2>4, <3>3, <1>12, LockDisabled
    <2> QED BY <2>1, <2>3, <2>4, <1>12, ZenonT(30)
  <1>13. /\ locked' \in [Mutexes -> 0..Len(prog)]
         /\ \A x \in Mutexes : locked'[x] = locked[x] \/ locked[x] = NoThread \/ locked[x] = t
    BY <1>1, <1>5, <1>6
  <1>14. U[t].state # "BLOCKED" /\ U[t].pending = NoAction
    BY <1>3, <1>10
  <1>15. Rested(prog, U) /\ LocksOK(prog, U, locked') /\ BlockedOK(prog, U, locked')
    BY <1>3, <1>10, <1>11, <1>12, <1>13, <1>14, MovedLocks, ZenonT(30)
  <1>16. ~finished' /\ UNCHANGED prog
    BY <1>1, <1>3
  <1> QED BY <1>1, <1>3, <1>10, <1>15, <1>16, TakenLocks

\* The end of t wakes who joins it, unless it ends the execution
LEMMA FinishThreadLocks ==
  ASSUME Inv, Inv', LockInv, Disciplined(prog), NEW t \in Threads, NEW E \in SUBSET Sleeping(th), FinishThread(t, E)
  PROVE  LockInv'
  <1> DEFINE T == Stepped(t, E)
             C == CodeOf(prog, t)
             k == th[t].pc
  <1>1. PICK kind \in {"finish", "exit"} :
          LET ends == kind = "finish" /\ t = Main
              T1 == IF ends THEN T ELSE Wake(T, Joiners(T, t))
          IN  /\ Stepping(t, kind, E)
              /\ finished' = ends
              /\ UNCHANGED locked
              /\ Taken(t, [T1 EXCEPT ![t].state = "COMPLETED"], NoThread)
    BY DEF FinishThread
  <1> DEFINE S == IF finished' THEN {} ELSE Joiners(T, t)
             U == Wake(T, S)
             F == [U EXCEPT ![t].state = "COMPLETED"]
  <1>2. Stepping(t, kind, E) /\ UNCHANGED locked /\ kind # "none" /\ kind \notin {"lock", "trylock", "unlock"}
    BY <1>1
  <1>3. StepKnown(t, kind, T)
    BY <1>2, SteppedKnown
  <1>4. /\ t \in 1..Len(prog) /\ T \in [1..Len(prog) -> ThreadRecord] /\ prog \in Programs /\ UNCHANGED prog /\ ~finished
        /\ T[t].pending = NoAction /\ T[t].pc = k
        /\ k \in Nat /\ k >= 1 /\ k <= Len(C) /\ th[t].pending = C[k] /\ C[k].kind = kind
        /\ \A x \in Held(C, k) : locked[x] = t
        /\ \A u \in 1..Len(prog) : u # t => T[u].pending = th[u].pending
    BY <1>3 DEF StepKnown
  <1>5. Taken(t, F, NoThread)
    <2>1. Wake(T, {}) = T
      <3>1. T = [u \in DOMAIN T |-> T[u]]
        BY <1>4
      <3> HIDE DEF T
      <3> QED BY <3>1 DEF Wake
    <2>2. U = IF kind = "finish" /\ t = Main THEN T ELSE Wake(T, Joiners(T, t))
      BY <1>1, <2>1
    <2> HIDE DEF T, U
    <2> QED BY <1>1, <2>2
  <1>6. /\ \A u \in S : T[u].pending.kind \in {"lock", "join"}
        /\ ~finished' => \A u \in Live : WaitingOn(T, locked, u) = t /\ T[u].pending.kind = "join" => u \in S
    BY DEF Joiners
  <1>7. U = Wake(T, S)
    OBVIOUS
  <1> HIDE DEF T, S, U
  <1>8. WakeKnown(t, S, T, U)
    BY <1>3, <1>6, <1>7, WakeLocks
  <1>9. /\ U \in [1..Len(prog) -> ThreadRecord] /\ U[t] = T[t] /\ Others(t, U)
        /\ \A u \in 1..Len(prog) : U[u].state = "BLOCKED" => u \notin S
    BY <1>8 DEF WakeKnown
  <1>10. /\ F[t] = [U[t] EXCEPT !.state = "COMPLETED"] /\ (\A u \in 1..Len(prog) : u # t => F[u] = U[u])
         /\ DOMAIN F = 1..Len(prog) /\ F = [u \in DOMAIN F |-> F[u]]
    BY <1>4, <1>9
  <1> HIDE DEF F
  <1>11. F[t] \in ThreadRecord /\ F[t].pending = NoAction /\ F[t].pc = k /\ F[t].state = "COMPLETED"
    <2>1. U[t] \in ThreadRecord /\ F[t] = [U[t] EXCEPT !.state = "COMPLETED"] /\ U[t].pending = NoAction /\ U[t].pc = k
      BY <1>4, <1>9, <1>10
    <2> QED BY <2>1 DEF ThreadRecord
  <1>12. F \in [1..Len(prog) -> ThreadRecord]
    <2>1. \A u \in 1..Len(prog) : F[u] \in ThreadRecord
      BY <1>9, <1>10, <1>11
    <2> QED BY <1>10, <2>1
  <1>13. Others(t, F)
    BY <1>9, <1>10, ZenonT(30) DEF Others, Complete
  <1>14. ASSUME NEW x \in HeldNow(C, F[t]) PROVE locked[x] = t
    <2>1. x \in Held(C, k)
      <3>1. k \in 1..Len(C)
        <4>1. Len(C) \in Nat
          BY <1>4, CodeLengths
        <4> HIDE DEF C, k
        <4> QED BY <1>4, <4>1, InRange
      <3> HIDE DEF k
      <3> QED BY ZenonT(30), <1>2, <1>4, <1>11, <1>14, <3>1, OwnHeld
    <2> QED BY <2>1, <1>4
  <1>15. locked \in [Mutexes -> 0..Len(prog)] /\ \A x \in Mutexes : locked[x] = locked[x]
    BY DEF LockInv, LocksOK
  <1>16. CASE finished'
    <2> DEFINE Z == [F EXCEPT ![t].enabled = "disabled"]
    <2>1. th' = Z
      <3>1. Complete(F, t)
        BY <1>11 DEF Complete
      <3> QED BY <1>5, <1>16, <3>1 DEF Taken, FinishExecution
    <2>2. LocksOK(prog, F, locked)
      BY <1>4, <1>13, <1>14, <1>15, MovedHeld
    <2>3. Z[t] = [F[t] EXCEPT !.enabled = "disabled"] /\ \A u \in 1..Len(prog) : u # t => Z[u] = F[u]
      BY <1>4, <1>12
    <2> HIDE DEF Z
    <2>4. Z[t].pending = F[t].pending /\ Z[t].pc = F[t].pc /\ Z[t].ret = F[t].ret
      BY <2>3, <1>11 DEF ThreadRecord
    <2>5. ASSUME NEW u \in 1..Len(prog) PROVE HeldNow(CodeOf(prog, u), Z[u]) = HeldNow(CodeOf(prog, u), F[u])
      <3>1. CASE u = t
        BY <3>1, <2>4, HeldSame
      <3>2. CASE u # t
        BY <3>2, <2>3
      <3> QED BY <3>1, <3>2
    <2>6. LocksOK(prog, Z, locked)
      BY <2>2, <2>5, ZenonT(30) DEF LocksOK
    <2> QED BY <1>2, <1>4, <1>16, <2>1, <2>6 DEF LockInv
  <1>17. CASE ~finished'
    <2>1. ASSUME NEW u \in 1..Len(prog), u # t, F[u].state = "BLOCKED", F[u].pending.kind \in {"lock", "join"},
                 ~CheckActionEnabled(th, locked, u)
          PROVE  ~CheckActionEnabled(F, locked, u)
      <3>1. th[u].state = "BLOCKED" /\ F[u].pending = th[u].pending /\ u \notin S /\ T[u].pending = th[u].pending
        BY <2>1, <1>4, <1>9, <1>10, <1>13 DEF Others
      <3>2. CASE th[u].pending.kind = "join"
        <4>1. th[u].pending.tid \in 1..Len(prog)
          BY <3>2, <1>4, JoinTid DEF Inv, Running
        <4>2. th[u].pending.tid # t
          <5>1. u \in Live
            BY <3>1, BlockedLive
          <5> QED BY <3>1, <3>2, <5>1, <1>6, <1>17 DEF WaitingOn
        <4>3. Complete(F, th[u].pending.tid) <=> Complete(th, th[u].pending.tid)
          BY <4>1, <4>2, <1>13 DEF Others
        <4> QED BY <2>1, <3>1, <3>2, <4>3, JoinDisabled
      <3>3. CASE th[u].pending.kind = "lock"
        BY <2>1, <3>1, <3>3, LockDisabled
      <3> QED BY <2>1, <3>1, <3>2, <3>3
    <2>2. F[t].state # "BLOCKED" /\ \A x \in Mutexes : locked[x] = locked[x] \/ locked[x] = NoThread \/ locked[x] = t
      BY <1>11
    <2>3. Rested(prog, F) /\ LocksOK(prog, F, locked) /\ BlockedOK(prog, F, locked)
      BY <1>4, <1>11, <1>13, <1>14, <1>15, <2>1, <2>2, MovedLocks
    <2> QED BY <1>2, <1>4, <1>5, <1>12, <1>17, <2>3, TakenLocks
  <1> QED BY <1>16, <1>17

----------------------------------------------------------------------------
(* The user side, and threads that are woken *)

\* The running thread, or one that is woken, moves on and holds no more than before
LEMMA UserLocks ==
  ASSUME Inv, LockInv, mode \in {"user", "choose"}, NEW t \in 1..Len(prog), ~Complete(th, t),
         NEW T, DOMAIN T = 1..Len(prog), T = [u \in DOMAIN T |-> T[u]],
         \A u \in 1..Len(prog) : u # t => T[u] = th[u],
         T[t] \in ThreadRecord, T[t].state = "READY",
         HeldNow(CodeOf(prog, t), T[t]) \subseteq HeldNow(CodeOf(prog, t), th[t])
  PROVE  T \in [1..Len(prog) -> ThreadRecord] /\ Rested(prog, T) /\ LocksOK(prog, T, locked) /\ BlockedOK(prog, T, locked)
  <1>1. /\ ~finished /\ LocksOK(prog, th, locked) /\ prog \in Programs /\ ThreadsOK(prog, th, num_threads)
        /\ \A u \in 1..Len(prog) : th[u] \in ThreadRecord
    BY DEF Inv, LockInv, Running, ThreadsOK
  <1>2. T \in [1..Len(prog) -> ThreadRecord]
    <2>1. \A u \in 1..Len(prog) : T[u] \in ThreadRecord
      BY <1>1
    <2> QED BY <2>1
  <1>3. Others(t, T)
    BY DEF Others, Complete
  <1>4. \A u \in 1..Len(prog) : Complete(T, u) <=> Complete(th, u)
    BY DEF Complete
  <1>5. ASSUME NEW u \in 1..Len(prog), u # t, ~CheckActionEnabled(th, locked, u)
        PROVE  ~CheckActionEnabled(T, locked, u)
    <2>1. th[u].pending.kind = "join" => th[u].pending.tid \in 1..Len(prog)
      BY <1>1, JoinTid
    <2>2. T[u].pending = th[u].pending
      BY <1>5
    <2> QED BY <2>1, <2>2, <1>4, <1>5, SameEnabled
  <1>6. /\ locked \in [Mutexes -> 0..Len(prog)]
        /\ \A m \in HeldNow(CodeOf(prog, t), T[t]) : locked[m] = t
    BY <1>1 DEF LocksOK
  <1>7. T[t].state # "BLOCKED" /\ ~Complete(T, t) /\ \A m \in Mutexes : locked[m] = locked[m] \/ locked[m] = NoThread \/ locked[m] = t
    BY DEF Complete
  <1>8. Rested(prog, T) /\ LocksOK(prog, T, locked) /\ BlockedOK(prog, T, locked)
    BY <1>1, <1>3, <1>5, <1>6, <1>7, MovedLocks
  <1> QED BY <1>2, <1>8

\* switch_thread: the running thread is where it was, and now has an action
LEMMA SwitchThreadLocks ==
  ASSUME Inv, Inv', LockInv, SwitchThread
  PROVE  LockInv'
  <1> DEFINE t == old
             q == NextPC(old)
             C == CodeOf(prog, t)
             T == [th EXCEPT ![t].state = "READY", ![t].pending = C[q], ![t].pc = q]
  <1>1. /\ mode = "user" /\ q <= Len(C) /\ UNCHANGED <<prog, num_threads, locked, finished>>
        /\ \/ th' = T
           \/ Proceed(T, locked, chosen_thread, curr_thread_num, num_threads)
    BY DEF SwitchThread, Code
  <1>2. /\ t \in 1..Len(prog) /\ th \in [1..Len(prog) -> ThreadRecord] /\ prog \in Programs /\ num_threads \in 1..Len(prog)
        /\ curr_thread_num \in 1..num_threads /\ th[t].pending = NoAction /\ ~Complete(th, t)
    BY <1>1 DEF Inv, Running, ThreadsOK
  <1>3. q \in 1..Len(C) /\ C[q] \in Actions /\ C[q].kind # "none"
    <2>1. q \in 1..Len(C) /\ C[q] \in Actions
      BY <1>1, NextPCFacts
    <2> QED BY <2>1, <1>2, CodeFacts
  <1>4. DOMAIN T = 1..Len(prog) /\ T = [u \in DOMAIN T |-> T[u]] /\ \A u \in 1..Len(prog) : u # t => T[u] = th[u]
    BY <1>2
  <1>5. T[t] = [th[t] EXCEPT !.state = "READY", !.pending = C[q], !.pc = q]
    BY <1>2
  <1>6. q \in Nat /\ th[t] \in ThreadRecord /\ curr_thread_num \in Nat /\ curr_thread_num >= 1
    <2>1. Len(C) \in Nat /\ Len(prog) \in Nat /\ th[t] \in ThreadRecord
      BY <1>2, CodeLengths
    <2> HIDE DEF q, C, t
    <2>2. num_threads \in Nat
      BY <1>2, <2>1, RangeFacts
    <2> QED BY <1>2, <1>3, <2>1, <2>2, RangeFacts
  <1>7. q = Position(C, th[t])
    BY <1>2 DEF NextPC, Position, Code
  <1> HIDE DEF q, C, T, t
  <1>8. T[t] \in ThreadRecord /\ T[t].state = "READY" /\ T[t].pc = q /\ T[t].pending = C[q]
    <2> DEFINE a == C[q]
    <2>1. a \in Actions /\ T[t] = [th[t] EXCEPT !.state = "READY", !.pending = a, !.pc = q]
      BY <1>3, <1>5
    <2> HIDE DEF a
    <2>2. T[t] \in ThreadRecord
      BY <2>1, <1>6 DEF ThreadRecord
    <2>3. T[t].state = "READY" /\ T[t].pc = q /\ T[t].pending = a
      BY <2>1, <1>6 DEF ThreadRecord
    <2> QED BY <2>2, <2>3 DEF a
  <1>9. HeldNow(C, T[t]) \subseteq HeldNow(C, th[t])
    <2>1. T[t].pending # NoAction
      BY <1>3, <1>8, HasAction
    <2> QED BY ZenonT(30), <2>1, <1>1, <1>7, <1>8 DEF HeldNow, Position
  <1>10. T \in [1..Len(prog) -> ThreadRecord] /\ Rested(prog, T) /\ LocksOK(prog, T, locked) /\ BlockedOK(prog, T, locked)
    BY <1>1, <1>2, <1>4, <1>8, <1>9, UserLocks DEF C
  <1>11. CASE th' = T
    BY <1>1, <1>10, <1>11 DEF LockInv
  <1>12. CASE Proceed(T, locked, chosen_thread, curr_thread_num, num_threads)
    <2>1. Proceed(T, locked', chosen_thread, curr_thread_num, num_threads') /\ UNCHANGED prog
          /\ LocksOK(prog, T, locked') /\ BlockedOK(prog, T, locked')
      BY <1>1, <1>10, <1>12
    <2> QED BY <2>1, <1>6, <1>10, ProceedLocks
  <1> QED BY <1>1, <1>11, <1>12

\* A thread whose call is neither a lock nor an unlock is past it, without an action
LEMMA PassedLocks ==
  ASSUME Inv, Inv', LockInv, Disciplined(prog), UNCHANGED <<prog, num_threads, locked, finished>>, mode \in {"user", "choose"},
         NEW t \in 1..Len(prog), ~Complete(th, t),
         NEW T, DOMAIN T = 1..Len(prog), T = [u \in DOMAIN T |-> T[u]],
         \A u \in 1..Len(prog) : u # t => T[u] = th[u],
         T[t] \in ThreadRecord, T[t].state = "READY", T[t].pending = NoAction,
         NEW q \in 1..Len(CodeOf(prog, t)), T[t].pc = q, q = Position(CodeOf(prog, t), th[t]),
         CodeOf(prog, t)[q].kind \notin {"lock", "trylock", "unlock"},
         NEW c, NEW first \in Nat, first >= 1, Proceed(T, locked, c, first, num_threads)
  PROVE  LockInv'
  <1> DEFINE C == CodeOf(prog, t)
  <1>1. prog \in Programs
    BY DEF Inv
  <1>2. q <= Len(C)
    BY <1>1, CodeLengths, RangeFacts
  <1>3. HeldNow(C, th[t]) = Held(C, q)
    BY <1>2 DEF HeldNow
  <1>4. HeldNow(C, T[t]) \subseteq Held(C, q)
    BY ZenonT(30), <1>1, QuietHeld
  <1>5. T \in [1..Len(prog) -> ThreadRecord] /\ Rested(prog, T) /\ LocksOK(prog, T, locked) /\ BlockedOK(prog, T, locked)
    <2>1. HeldNow(C, T[t]) \subseteq HeldNow(C, th[t])
      BY <1>3, <1>4
    <2> QED BY <2>1, UserLocks
  <1>6. Proceed(T, locked', c, first, num_threads') /\ LocksOK(prog, T, locked') /\ BlockedOK(prog, T, locked')
    BY <1>5
  <1> QED BY <1>5, <1>6, ProceedLocks

\* assert_user_bug: the running thread goes on without an action
LEMMA AssertUserBugLocks ==
  ASSUME Inv, Inv', LockInv, Disciplined(prog), AssertUserBug
  PROVE  LockInv'
  <1> DEFINE t == old
             q == NextPC(old)
             C == CodeOf(prog, t)
             T == [th EXCEPT ![t].state = "READY", ![t].pc = q]
  <1>1. /\ mode = "user" /\ q <= Len(C) /\ C[q].kind = "assert" /\ UNCHANGED <<prog, num_threads, locked, finished>>
        /\ Proceed(T, locked, chosen_thread, curr_thread_num, num_threads)
    BY DEF AssertUserBug, Code
  <1>2. /\ t \in 1..Len(prog) /\ th \in [1..Len(prog) -> ThreadRecord] /\ prog \in Programs /\ num_threads \in 1..Len(prog)
        /\ curr_thread_num \in 1..num_threads /\ th[t].pending = NoAction /\ ~Complete(th, t)
    BY <1>1 DEF Inv, Running, ThreadsOK
  <1>3. q \in 1..Len(C)
    BY <1>1, NextPCFacts
  <1>4. DOMAIN T = 1..Len(prog) /\ T = [u \in DOMAIN T |-> T[u]] /\ \A u \in 1..Len(prog) : u # t => T[u] = th[u]
    BY <1>2
  <1>5. T[t] = [th[t] EXCEPT !.state = "READY", !.pc = q]
    BY <1>2
  <1>6. q \in Nat /\ th[t] \in ThreadRecord /\ curr_thread_num \in Nat /\ curr_thread_num >= 1
    <2>1. Len(C) \in Nat /\ Len(prog) \in Nat /\ th[t] \in ThreadRecord
      BY <1>2, CodeLengths
    <2> HIDE DEF q, C, t
    <2>2. num_threads \in Nat
      BY <1>2, <2>1, RangeFacts
    <2> QED BY <1>2, <1>3, <2>1, <2>2, RangeFacts
  <1>7. q = Position(C, th[t])
    BY <1>2 DEF NextPC, Position, Code
  <1>8. C[q].kind \notin {"lock", "trylock", "unlock"} /\ mode \in {"user", "choose"}
    BY <1>1
  <1> HIDE DEF q, C, T, t
  <1>9. T[t] \in ThreadRecord /\ T[t].state = "READY" /\ T[t].pc = q /\ T[t].pending = NoAction
    <2>1. T[t] \in ThreadRecord /\ T[t].state = "READY" /\ T[t].pc = q /\ T[t].pending = th[t].pending
      BY <1>5, <1>6 DEF ThreadRecord
    <2> QED BY <2>1, <1>2
  <1> QED BY <1>1, <1>2, <1>3, <1>4, <1>6, <1>7, <1>8, <1>9, PassedLocks DEF C

\* A thread of a program without waits that is woken or wakes was sleeping
LEMMA DroppedLocks ==
  ASSUME Inv, Inv', LockInv, Disciplined(prog), UNCHANGED <<prog, num_threads, locked, finished>>, mode = "choose",
         NEW t \in 1..Len(prog), th[t].pending.kind = "sleep", th[t].state = "READY",
         NEW T, DOMAIN T = 1..Len(prog), T = [u \in DOMAIN T |-> T[u]],
         \A u \in 1..Len(prog) : u # t => T[u] = th[u],
         T[t] \in ThreadRecord, T[t].state = th[t].state, T[t].pending = NoAction, T[t].pc = th[t].pc,
         Proceed(T, locked, NoThread, Main, num_threads)
  PROVE  LockInv'
  <1> DEFINE C == CodeOf(prog, t)
             q == th[t].pc
  <1>1. prog \in Programs /\ ThreadOK(C, th[t]) /\ ~Complete(th, t) /\ th[t].pending # NoAction
    BY HasAction DEF Inv, Running, ThreadsOK, Complete
  <1>2. Len(C) \in Nat
    BY <1>1, CodeFacts
  <1>3. q \in 1..Len(C) /\ th[t].pending = C[q]
    BY SMT, <1>1, <1>2, PendingAt
  <1>4. q = Position(C, th[t])
    BY <1>1 DEF Position
  <1>5. C[q].kind \notin {"lock", "trylock", "unlock"} /\ Main \in Nat /\ Main >= 1 /\ mode \in {"user", "choose"}
    BY <1>3, MainIsFirst
  <1>6. T[t].state = "READY" /\ T[t].pc = q
    OBVIOUS
  <1> HIDE DEF q
  <1> QED BY <1>1, <1>3, <1>4, <1>5, <1>6, PassedLocks

\* handleChosenThread resumes a sleeper whose time has come
LEMMA ResumeWokenLocks ==
  ASSUME Inv, Inv', LockInv, Disciplined(prog), NEW t \in Threads, ResumeWoken(t)
  PROVE  LockInv'
  <1> DEFINE T == [th EXCEPT ![t].wakeup = FALSE, ![t].pending = NoAction]
  <1>1. /\ Selected(t) /\ mode = "choose" /\ th[t].wakeup /\ UNCHANGED <<prog, num_threads, locked, finished>>
        /\ Proceed(T, locked, NoThread, Main, num_threads)
    BY DEF ResumeWoken, Selected
  <1>2. th[t].state = "READY"
    BY <1>1, SelectedOK
  <1>3. t \in 1..Len(prog) /\ th \in [1..Len(prog) -> ThreadRecord] /\ th[t] \in ThreadRecord /\ ThreadOK(CodeOf(prog, t), th[t])
    BY DEF Threads, Inv, Running, ThreadsOK
  <1>4. th[t].pending.kind = "sleep"
    <2>1. ~CanWait(CodeOf(prog, t))
      BY <1>3 DEF Disciplined
    <2> QED BY <2>1, <1>1, <1>3 DEF ThreadOK
  <1>5. DOMAIN T = 1..Len(prog) /\ T = [u \in DOMAIN T |-> T[u]] /\ \A u \in 1..Len(prog) : u # t => T[u] = th[u]
    BY <1>3
  <1>6. T[t] = [th[t] EXCEPT !.wakeup = FALSE, !.pending = NoAction]
    BY <1>3
  <1>7. NoAction \in Actions
    BY DEF Actions
  <1> HIDE DEF T
  <1>8. T[t] \in ThreadRecord /\ T[t].pending = NoAction
    BY <1>3, <1>6, <1>7, ZenonT(30) DEF ThreadRecord
  <1>9. T[t].state = th[t].state /\ T[t].pc = th[t].pc
    BY <1>3, <1>6 DEF ThreadRecord
  <1> QED BY <1>1, <1>2, <1>3, <1>4, <1>5, <1>8, <1>9, DroppedLocks

\* handleChosenThread wakes a sleeping thread as nobody is enabled
LEMMA WakeSleeperLocks ==
  ASSUME Inv, Inv', LockInv, Disciplined(prog), NEW t \in Threads, WakeSleeper(t)
  PROVE  LockInv'
  <1> DEFINE T == [th EXCEPT ![t].enabled = "enabled", ![t].wakeup = FALSE, ![t].pending = NoAction]
  <1>1. /\ mode = "choose" /\ t \in Sleeping(th) /\ UNCHANGED <<prog, num_threads, locked, finished>>
        /\ Proceed(T, locked, NoThread, Main, num_threads)
    BY DEF WakeSleeper
  <1>2. t \in 1..Len(prog) /\ th \in [1..Len(prog) -> ThreadRecord] /\ th[t] \in ThreadRecord /\ ThreadOK(CodeOf(prog, t), th[t])
    BY DEF Threads, Inv, Running, ThreadsOK
  <1>3. th[t].state = "READY" /\ th[t].pending.kind \in {"sleep", "wait", "timedwait"}
    BY <1>1, <1>2 DEF Sleeping, ThreadOK
  <1>4. th[t].pending.kind = "sleep"
    BY <1>2, <1>3, NoWaitPending
  <1>5. DOMAIN T = 1..Len(prog) /\ T = [u \in DOMAIN T |-> T[u]] /\ \A u \in 1..Len(prog) : u # t => T[u] = th[u]
    BY <1>2
  <1>6. T[t] = [th[t] EXCEPT !.enabled = "enabled", !.wakeup = FALSE, !.pending = NoAction]
    BY <1>2
  <1>7. NoAction \in Actions
    BY DEF Actions
  <1> HIDE DEF T
  <1>8. T[t] \in ThreadRecord /\ T[t].pending = NoAction
    <2>1. th[t] \in ThreadRecord
      BY <1>2
    <2>2. T[t].pending = NoAction
      BY <2>1, <1>6 DEF ThreadRecord
    <2> QED BY <2>1, <2>2, <1>6, <1>7 DEF ThreadRecord
  <1>9. T[t].state = th[t].state /\ T[t].pc = th[t].pc
    BY <1>2, <1>6 DEF ThreadRecord
  <1> QED BY <1>1, <1>2, <1>3, <1>4, <1>5, <1>8, <1>9, DroppedLocks

----------------------------------------------------------------------------
(* All steps *)

\* At the start of an execution nobody holds or waits for anything
LEMMA StartLocks ==
  ASSUME NEW p \in Programs, NEW T, T = [t \in 1..Len(p) |-> IF t = Main THEN [NewThread EXCEPT !.state = "RUNNING"] ELSE Unborn],
         NEW L, L = [m \in Mutexes |-> NoThread]
  PROVE  LocksOK(p, T, L) /\ BlockedOK(p, T, L)
  <1>1. Len(p) \in Nat
    BY ProgramLength
  <1>2. L \in [Mutexes -> 0..Len(p)]
    BY <1>1, ZeroBelow
  <1>3. ASSUME NEW t \in 1..Len(p)
        PROVE  T[t].pending = NoAction /\ T[t].pc = 0 /\ T[t].state # "BLOCKED"
    <2>1. CASE t = Main
      <3>1. T[t] = [NewThread EXCEPT !.state = "RUNNING"]
        BY <2>1
      <3> QED BY <3>1 DEF NewThread
    <2>2. CASE t # Main
      <3>1. T[t] = Unborn
        BY <2>2
      <3> QED BY <3>1 DEF Unborn, NewThread
    <2> QED BY <2>1, <2>2
  <1>4. ASSUME NEW t \in 1..Len(p) PROVE HeldNow(CodeOf(p, t), T[t]) = {}
    <2>1. Position(CodeOf(p, t), T[t]) = 1
      BY <1>3, MainIsFirst DEF Position
    <2> QED BY <2>1, HeldFirst DEF HeldNow
  <1>5. LocksOK(p, T, L)
    BY <1>2, <1>4 DEF LocksOK
  <1>6. BlockedOK(p, T, L)
    BY <1>3 DEF BlockedOK
  <1> QED BY <1>5, <1>6

\* At the start
LEMMA InitLocks == Init => LockInv
  <1>1. SUFFICES ASSUME Init PROVE LockInv
    OBVIOUS
  <1>2. /\ prog \in Programs /\ locked = [m \in Mutexes |-> NoThread]
        /\ th = [t \in 1..Len(prog) |-> IF t = Main THEN [NewThread EXCEPT !.state = "RUNNING"] ELSE Unborn]
    BY <1>1 DEF Init, InitFor
  <1> QED BY <1>2, StartLocks DEF LockInv

\* A program without waits does not wait
LEMMA WaitNever ==
  ASSUME Inv, Disciplined(prog), NEW t \in Threads, NEW E
  PROVE  ~Wait(t, E) /\ ~TimedWait(t, E) /\ ~TimedWaitExpired(t, E)
  <1>1. t \in 1..Len(prog)
    BY DEF Threads
  <1>2. th[t].pending.kind # "wait" /\ th[t].pending.kind # "timedwait"
    BY <1>1, NoWaitPending
  <1> QED BY <1>2 DEF Wait, TimedWait, TimedWaitExpired, Stepping

\* Every step of the run loop keeps who holds what, and blocks for a reason
LEMMA NextLocks ==
  ASSUME Inv, Inv', LockInv, Disciplined(prog), [Next]_vars
  PROVE  LockInv'
  <1>1. CASE SwitchThread
    BY <1>1, SwitchThreadLocks
  <1>2. CASE AssertUserBug
    BY <1>2, AssertUserBugLocks
  <1>3. CASE UNCHANGED <<prog, th, locked, finished>>
    BY <1>3 DEF LockInv
  <1>4. CASE GiveUp
    BY <1>3, <1>4 DEF GiveUp, FinishExecution
  <1>5. CASE NextExecution
    <2>1. /\ prog' = prog /\ locked' = [m \in Mutexes |-> NoThread] /\ prog \in Programs
          /\ th' = [t \in 1..Len(prog) |-> IF t = Main THEN [NewThread EXCEPT !.state = "RUNNING"] ELSE Unborn]
      BY <1>5 DEF NextExecution, Inv, Threads
    <2>2. LocksOK(prog, th', locked') /\ BlockedOK(prog, th', locked')
      BY <2>1, StartLocks
    <2> QED BY <2>1, <2>2 DEF LockInv
  <1>6. CASE UseStaleChoice
    BY <1>3, <1>6 DEF UseStaleChoice
  <1>7. CASE UNCHANGED vars
    BY <1>3, <1>7 DEF vars
  <1>8. CASE HandleFault
    BY <1>7, <1>8 DEF HandleFault
  <1>9. ASSUME NEW t \in Threads, ResumeWoken(t) PROVE LockInv'
    BY <1>9, ResumeWokenLocks
  <1>10. ASSUME NEW t \in Threads, WakeSleeper(t) PROVE LockInv'
    BY <1>10, WakeSleeperLocks
  <1>11. ASSUME NEW t \in Threads, NEW E \in SUBSET Sleeping(th), Step(t, E) PROVE LockInv'
    BY <1>11, AccessLocks, RMWReadLocks, CreateThreadLocks, FinishThreadLocks, SleepLocks, LockLocks, UnlockLocks,
       WaitNever, NotifyLocks DEF Step
  <1> QED BY <1>1, <1>2, <1>4, <1>5, <1>6, <1>7, <1>8, <1>9, <1>10, <1>11 DEF Next

\* The invariant gives what is said of unlocks
LEMMA HolderFromInv ==
  ASSUME Inv, LockInv, Disciplined(prog)
  PROVE  UnlockedByHolder
  <1>1. ASSUME NEW t \in Live PROVE t \in 1..Len(prog) /\ prog \in Programs /\ ThreadOK(CodeOf(prog, t), th[t])
    <2>1. prog \in Programs /\ num_threads \in 1..Len(prog) /\ ThreadsOK(prog, th, num_threads)
      BY DEF Inv, Running
    <2>2. t \in 1..Len(prog)
      BY <2>1, ProgramLength, LiveInside DEF Live
    <2> QED BY <2>1, <2>2 DEF ThreadsOK
  <1>2. ASSUME NEW t \in Live, th[t].pending.kind = "unlock" PROVE locked[th[t].pending.mu] = t
    <2> DEFINE C == CodeOf(prog, t)
               k == th[t].pc
    <2>1. th[t].pending # NoAction /\ Len(C) \in Nat
      BY <1>1, <1>2, CodeLengths, HasAction
    <2>2. k \in 1..Len(C) /\ th[t].pending = C[k] /\ k <= Len(C)
      <3>1. k \in 1..Len(C) /\ th[t].pending = C[k]
        BY <1>1, <1>2, <2>1, PendingAt
      <3> QED BY <3>1, <2>1, RangeFacts
    <2>3. C[k].mu \in Held(C, k)
      BY <1>1, <1>2, <2>2 DEF Disciplined
    <2>4. HeldNow(C, th[t]) = Held(C, k)
      BY <2>1, <2>2, HeldPending
    <2> QED BY <1>1, <2>2, <2>3, <2>4, ZenonT(30) DEF LockInv, LocksOK
  <1>3. \A t \in Live : th[t].pending.kind \notin {"wait", "timedwait"}
    BY <1>1, NoWaitPending
  <1> QED BY <1>2, <1>3 DEF UnlockedByHolder

\* Who unlocks a mutex holds it (pthread.cc, mutex.cc): every lock that returned
\* did take the mutex and nobody took it away, in programs that unlock only what
\* they lock and do not wait for condition variables.  (After a late notification
\* or an expired timed wait a thread goes on without the mutex.)
THEOREM HolderUnlocks ==
  ASSUME \A p \in Programs : Disciplined(p)
  PROVE  Spec => []UnlockedByHolder
  <1>1. Inv => Disciplined(prog)
    BY DEF Inv
  <1>2. Inv /\ [Next]_vars => Inv'
    BY NextOK
  <1>3. Inv /\ LockInv /\ [Next]_vars => LockInv'
    BY <1>1, <1>2, NextLocks
  <1>4. Inv /\ LockInv => UnlockedByHolder
    BY <1>1, HolderFromInv
  <1> QED BY InitOK, InitLocks, <1>2, <1>3, <1>4, PTL DEF Spec

\* No wakeup is lost (execution.cc:457): who is blocked in lock or join waits for
\* a mutex that is held or a thread that has not ended, in the same programs
THEOREM NoWakeupIsLost ==
  ASSUME \A p \in Programs : Disciplined(p)
  PROVE  Spec => []BlockedForAReason
  <1>1. Inv => Disciplined(prog)
    BY DEF Inv
  <1>2. Inv /\ [Next]_vars => Inv'
    BY NextOK
  <1>3. Inv /\ LockInv /\ [Next]_vars => LockInv'
    BY <1>1, <1>2, NextLocks
  <1>4. Inv /\ LockInv => BlockedForAReason
    <2>1. SUFFICES ASSUME Inv, LockInv, ~finished, NEW t \in Live, th[t].state = "BLOCKED", th[t].pending.kind \in {"lock", "join"}
                   PROVE  ~CheckActionEnabled(th, locked, t)
      BY DEF BlockedForAReason
    <2>2. prog \in Programs /\ num_threads \in 1..Len(prog)
      BY <2>1 DEF Inv
    <2>3. t \in 1..Len(prog)
      BY <2>1, <2>2, ProgramLength, LiveInside DEF Live
    <2> QED BY <2>1, <2>3 DEF LockInv, BlockedOK
  <1> QED BY InitOK, InitLocks, <1>2, <1>3, <1>4, PTL DEF Spec
=============================================================================
