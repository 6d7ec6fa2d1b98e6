------------------------------ MODULE Scheduler ------------------------------
(***************************************************************************)
(* The run loop of the tester: model.cc, schedule.cc, the thread state of  *)
(* threads.cc, and the blocking operations of execution.cc (threads,       *)
(* mutexes, condition variables, timed waits, sleeps).                     *)
(*                                                                         *)
(* A user thread runs until it calls switch_thread with its next action,   *)
(* which becomes its pending action.  Threads without a pending action run *)
(* first, lowest number first; when every live thread has one, the run     *)
(* loop picks a thread and takes its step.  Everything happens in one OS   *)
(* thread, so a call of switch_thread and a turn of the loop are atomic.   *)
(* What a memory access reads is the subject of module Execution; here an  *)
(* access is an action that is always enabled.                             *)
(***************************************************************************)
EXTENDS Naturals, Sequences

CONSTANTS
  Programs,   \* the programs under test: a sequence of calls for each thread
  Mutexes, CondVars,
  Recursive   \* the mutexes of type PTHREAD_MUTEX_RECURSIVE

VARIABLES
  prog,             \* the program under test
  th,               \* thread -> its Thread object and its entry of Scheduler::enabled
  num_threads,      \* how many threads have been created
  locked,           \* mutex -> the thread in state->locked, or NoThread
  waiters,          \* condition variable -> how often each thread is in its list of condvar_waiters_map
  chosen_thread,    \* the thread to step next, when it is already decided
  curr_thread_num,  \* where getNextThread starts
  old,              \* the thread on whose stack the run loop executes
  finished,         \* isFinished: main returned
  bugs,             \* the bugs reported in this execution
  mode              \* "user", "choose", "done", "hung" or "segv"

vars == <<prog, th, num_threads, locked, waiters, chosen_thread, curr_thread_num, old, finished, bugs, mode>>

NoThread == 0
Main == 1
Threads == 1..Len(prog)

\* A call that reaches switch_thread.  If it fails the program leaves out the
\* next skip calls: pthread_cond_timedwait does not relock after ETIMEDOUT,
\* and a program does not unlock what trylock did not lock.
Call(kind, mu, cv, tid, skip) == [kind |-> kind, mu |-> mu, cv |-> cv, tid |-> tid, skip |-> skip]
Plain(kind) == Call(kind, "-", "-", NoThread, 0)
NoAction == Plain("none")

Kinds == {"none", "start", "finish", "exit", "create", "join", "sleep", "write", "yield", "rmwr", "rmw", "assert",
          "lock", "trylock", "unlock", "wait", "timedwait", "notify_one", "notify_all"}

\* The calls of the library as the actions they hand to switch_thread (thrd_*
\* and std::mutex make the same ones); waiting relocks as a second action
pthread_create == Plain("create")
pthread_join(t) == Call("join", "-", "-", t, 0)
sched_yield == Plain("yield")
pthread_exit == Plain("exit")
nanosleep == Plain("sleep")
mutex_lock(m) == Call("lock", m, "-", NoThread, 0)
pthread_mutex_trylock(m, skip) == Call("trylock", m, "-", NoThread, skip)
pthread_mutex_unlock(m) == Call("unlock", m, "-", NoThread, 0)
condition_variable_wait(c, m) == <<Call("wait", m, c, NoThread, 0), mutex_lock(m)>>
pthread_cond_timedwait(c, m) == <<Call("timedwait", m, c, NoThread, 1), mutex_lock(m)>>
pthread_cond_signal(c) == Call("notify_one", "-", c, NoThread, 0)
pthread_cond_broadcast(c) == Call("notify_all", "-", c, NoThread, 0)
atomic_rmw == <<Plain("rmwr"), Plain("rmw")>>

\* thread_startup and modelexit put an action before and after the program's
CodeOf(p, t) == <<Plain("start")>> \o p[t] \o <<Plain("finish")>>
Code(t) == CodeOf(prog, t)

\* The calls a program can make
Calls ==
  {c \in [kind : Kinds \ {"none", "start", "finish"}, mu : Mutexes \cup {"-"}, cv : CondVars \cup {"-"}, tid : Nat, skip : Nat] :
     /\ c.kind \in {"lock", "trylock", "unlock", "wait", "timedwait"} => c.mu \in Mutexes
     /\ c.kind \in {"wait", "timedwait", "notify_one", "notify_all"} => c.cv \in CondVars}

\* An RMW is made of two calls that follow each other, and no failed call jumps
\* between them
Paired(C) ==
  /\ \A k \in 1..(Len(C) - 1) : C[k + 1].kind = "rmw" <=> C[k].kind = "rmwr"
  /\ \A k, l \in 1..Len(C) : C[k].kind \in {"trylock", "timedwait"} /\ l = k + 1 + C[k].skip => C[l].kind # "rmw"

\* Main is the first thread, and a thread joins one that the program has
ASSUME ProgramAssumption ==
  \A p \in Programs :
    /\ p \in Seq(Seq(Calls)) /\ Len(p) >= 1
    /\ \A t \in 1..Len(p) :
         /\ Paired(CodeOf(p, t))
         /\ \A k \in 1..Len(p[t]) : p[t][k].kind = "join" => p[t][k].tid \in 1..Len(p)

\* A Thread object as its constructor leaves it, and before it exists
NewThread == [state |-> "CREATED", pending |-> NoAction, wakeup |-> FALSE, ret |-> "none", enabled |-> "enabled", pc |-> 0]
Unborn == [NewThread EXCEPT !.enabled = "disabled"]

NoWaiters(p) == [c \in CondVars |-> [t \in 1..Len(p) |-> 0]]

InitFor(p) ==
  /\ prog = p
  /\ th = [t \in 1..Len(p) |-> IF t = Main THEN [NewThread EXCEPT !.state = "RUNNING"] ELSE Unborn]
  /\ num_threads = 1
  /\ locked = [m \in Mutexes |-> NoThread]
  /\ waiters = NoWaiters(p)
  /\ chosen_thread = NoThread
  /\ curr_thread_num = Main
  /\ old = Main
  /\ finished = FALSE
  /\ bugs = {}
  /\ mode = "user"

Init == \E p \in Programs : InitFor(p)

----------------------------------------------------------------------------
(* Questions about threads.  T is a value of th, L a value of locked. *)

Complete(T, t) == T[t].state \in {"COMPLETED", "FREED"}
Live == 1..num_threads
Available(T) == {t \in DOMAIN T : T[t].enabled = "enabled"}
Sleeping(T) == {t \in DOMAIN T : T[t].enabled = "sleep"}

CheckActionEnabledLockFree(T, L, t) == TRUE

CheckActionEnabled(T, L, t) ==
  LET a == T[t].pending
  IN  CASE a.kind = "lock" -> L[a.mu] = NoThread \/ (L[a.mu] = t /\ a.mu \in Recursive)
        [] a.kind = "join" -> Complete(T, a.tid)
        [] OTHER -> TRUE

WaitingOn(T, L, t) ==
  LET a == T[t].pending
  IN  CASE a.kind = "lock" -> L[a.mu]
        [] a.kind = "join" -> a.tid
        [] OTHER -> NoThread

\* is_waiting_on(t, t): follows the chain of waits until it ends or meets t.
\* A chain that runs into a cycle without t is followed for ever.
IsWaitingOn(T, L, t) ==
  LET hop[k \in Nat] ==
        IF k = 0 THEN WaitingOn(T, L, t)
        ELSE LET u == hop[k - 1] IN IF u \in {NoThread, t} THEN u ELSE WaitingOn(T, L, u)
      relocks == WaitingOn(T, L, t) = t /\ T[t].pending.kind = "lock" /\ T[t].pending.mu \in Recursive
      end == hop[Len(prog)]
  IN  CASE relocks -> "no"
        [] ~relocks /\ end = t -> "yes"
        [] ~relocks /\ end = NoThread -> "no"
        [] OTHER -> "hangs"

Lowest(S) == CHOOSE t \in S : \A u \in S : t <= u

\* Actions getNextThread lets go first (writes stand for relaxed and release stores)
Prioritised(a) == a.kind \in {"write", "create", "start", "finish"}

----------------------------------------------------------------------------
(* getNextThread: from thread first on, the first live thread without a    *)
(* pending action is the next to run.  On the way, completed threads are   *)
(* freed, disabled actions put their thread to sleep, and the first        *)
(* prioritised action decides chosen_thread.                               *)

\* The stack of t may be freed: t has completed and the loop does not run on it
Freeable(T, t) == T[t].state = "COMPLETED" /\ t # old

DisabledNone(T, L, S) == {}

Disabled(T, L, S) == {t \in S : ~CheckActionEnabled(T, L, t)}

GetNextThread(T, L, chosen, first, last) ==
  LET idle == {t \in first..last : ~Complete(T, t) /\ T[t].pending = NoAction}
      next == IF idle = {} THEN NoThread ELSE Lowest(idle)
      visited == {t \in first..last : idle = {} \/ t < next}
      considered == {t \in visited : T[t].pending # NoAction /\ T[t].enabled # "disabled"}
      blocked == Disabled(T, L, considered)
      first_ones == {t \in considered \ blocked : Prioritised(T[t].pending)}
  IN  [next   |-> next,
       chosen |-> IF chosen # NoThread \/ first_ones = {} THEN chosen ELSE Lowest(first_ones),
       th     |-> [t \in DOMAIN T |->
                     CASE t \in visited /\ Freeable(T, t) -> [T[t] EXCEPT !.state = "FREED"]
                       [] t \in blocked -> [T[t] EXCEPT !.enabled = "disabled", !.state = "BLOCKED"]
                       [] OTHER -> T[t]]]

\* Run the next thread, or go on to choose a step when there is none (the
\* singletons make TLC evaluate an argument once)
Proceed(T, L, chosen, first, last) ==
  \E T0 \in {T} : \E r \in {GetNextThread(T0, L, chosen, first, last)} :
      /\ chosen_thread' = r.chosen
      /\ IF r.next = NoThread
         THEN /\ th' = r.th
              /\ mode' = "choose"
              /\ curr_thread_num' = first
              /\ UNCHANGED old
         ELSE /\ th' = [r.th EXCEPT ![r.next].state = "RUNNING"]
              /\ mode' = "user"
              /\ curr_thread_num' = r.next
              /\ old' = r.next

----------------------------------------------------------------------------
(* The user side: thread old returns from its last call and makes the next *)

Failed(call, ret) ==
  \/ call.kind = "timedwait" /\ ret = "ETIMEDOUT"
  \/ call.kind = "trylock" /\ ret = "0"

NextPC(t) ==
  LET k == th[t].pc
      call == Code(t)[k]
  IN  IF k > 0 /\ Failed(call, th[t].ret) THEN k + 1 + call.skip ELSE k + 1

\* (A thread past its last call was brought back after it completed; what
\* it does then is undefined and not followed.)
SwitchThread ==
  LET t == old
      pc == NextPC(t)
      call == Code(t)[pc]
  IN  /\ mode = "user"
      /\ pc <= Len(Code(t)) /\ call.kind # "assert"
      /\ UNCHANGED <<prog, num_threads, locked, waiters, finished>>
      /\ \E T \in {[th EXCEPT ![t].state = "READY", ![t].pending = call, ![t].pc = pc]} :
         LET waits == IsWaitingOn(T, locked, t)
         IN  IF waits = "hangs"
             THEN /\ mode' = "hung"
                  /\ th' = T
                  /\ UNCHANGED <<chosen_thread, curr_thread_num, old, bugs>>
             ELSE /\ bugs' = IF waits = "yes" THEN bugs \cup {"waits on itself"} ELSE bugs
                  /\ Proceed(T, locked, chosen_thread, curr_thread_num, num_threads)

\* assert_user_bug: reports the bug and switches with no action at all
AssertUserBug ==
  LET t == old
      T == [th EXCEPT ![t].state = "READY", ![t].pc = NextPC(t)]
  IN  /\ mode = "user"
      /\ NextPC(t) <= Len(Code(t)) /\ Code(t)[NextPC(t)].kind = "assert"
      /\ UNCHANGED <<prog, num_threads, locked, waiters, finished>>
      /\ bugs' = bugs \cup {"assertion"}
      /\ Proceed(T, locked, chosen_thread, curr_thread_num, num_threads)

----------------------------------------------------------------------------
(* The end of an execution and the next one *)

IsCompleteExecution(T) == \A t \in Live : T[t].enabled = "disabled"
IsDeadlocked(T) == (\A t \in Live : T[t].enabled = "disabled") /\ \E t \in Live : T[t].pending # NoAction

FinishExecutionUnchecked(T) ==
  /\ th' = T
  /\ mode' = "done"
  /\ UNCHANGED <<bugs, chosen_thread, curr_thread_num, old>>

\* finish_execution with the threads as in T
FinishExecution(T) ==
  /\ th' = T
  /\ mode' = "done"
  /\ bugs' = IF (IsCompleteExecution(T) \/ bugs # {}) /\ IsDeadlocked(T) THEN bugs \cup {"deadlock"} ELSE bugs
  /\ curr_thread_num' = Main
  /\ UNCHANGED <<chosen_thread, old>>

\* reset_to_initial_state: the snapshot is taken before main starts.  Threads
\* and the execution are on heaps that are rolled back; the ModelChecker
\* object is not (MEMALLOC), so chosen_thread and curr_thread_num keep the
\* values finishRunExecution left.
NextExecution ==
  /\ mode = "done"
  /\ mode' = "user"
  /\ prog' = prog
  /\ th' = [t \in Threads |-> IF t = Main THEN [NewThread EXCEPT !.state = "RUNNING"] ELSE Unborn]
  /\ num_threads' = 1
  /\ locked' = [m \in Mutexes |-> NoThread]
  /\ waiters' = NoWaiters(prog)
  /\ UNCHANGED <<chosen_thread, curr_thread_num>>
  /\ old' = Main
  /\ finished' = FALSE
  /\ bugs' = {}

\* handleChosenThread ends the execution: a bug was reported, or no thread is
\* enabled or asleep
GiveUp ==
  /\ mode = "choose"
  /\ bugs # {} \/ (chosen_thread = NoThread /\ Available(th) = {} /\ Sleeping(th) = {})
  /\ FinishExecution(th)
  /\ UNCHANGED <<prog, num_threads, locked, waiters, finished>>

----------------------------------------------------------------------------
(* select_next_thread, and threads that return from a wait or a sleep *)

Selected(t) ==
  /\ mode = "choose"
  /\ bugs = {}
  /\ IF chosen_thread # NoThread THEN t = chosen_thread ELSE t \in Available(th)

\* handleChosenThread takes the pending action of a thread that this execution
\* has not created: the pointer is left from an earlier one, and the pages it
\* points to are those of the snapshot, where there was no thread yet
UseStaleChoice ==
  /\ mode = "choose"
  /\ bugs = {}
  /\ chosen_thread > num_threads
  /\ mode' = "segv"
  /\ UNCHANGED <<prog, th, num_threads, locked, waiters, chosen_thread, curr_thread_num, old, finished, bugs>>

\* mprot_handle_pf, the handler of SIGSEGV, never returns
HandleFault == mode = "segv" /\ UNCHANGED vars

ResumeWokenAgain(t) ==
  /\ Selected(t)
  /\ th[t].wakeup
  /\ Proceed(th, locked, NoThread, Main, num_threads)
  /\ UNCHANGED <<prog, num_threads, locked, waiters, finished, bugs>>

\* A woken thread drops its pending action and runs
ResumeWoken(t) ==
  /\ Selected(t)
  /\ th[t].wakeup
  /\ Proceed([th EXCEPT ![t].wakeup = FALSE, ![t].pending = NoAction], locked, NoThread, Main, num_threads)
  /\ UNCHANGED <<prog, num_threads, locked, waiters, finished, bugs>>

\* Nothing is enabled: some sleeping thread is woken, whatever its deadline
WakeSleeper(t) ==
  /\ mode = "choose"
  /\ bugs = {}
  /\ chosen_thread = NoThread /\ Available(th) = {}
  /\ t \in Sleeping(th)
  /\ Proceed([th EXCEPT ![t].enabled = "enabled", ![t].wakeup = FALSE, ![t].pending = NoAction],
             locked, NoThread, Main, num_threads)
  /\ UNCHANGED <<prog, num_threads, locked, waiters, finished, bugs>>

----------------------------------------------------------------------------
(* take_step.  First wake_up_sleeping_actions: the sleepers E whose time   *)
(* has come are enabled and leave the condition variable's list.           *)

WakeUp(T, E) ==
  [t \in DOMAIN T |->
     IF t \notin E THEN T[t]
     ELSE [T[t] EXCEPT !.enabled = "enabled", !.wakeup = TRUE,
                       !.ret = IF T[t].pending.kind = "timedwait" THEN "ETIMEDOUT" ELSE @]]

Listed(list) == {t \in DOMAIN list : list[t] > 0}

LeaveLists(T, E) ==
  [c \in CondVars |-> [t \in Threads |->
     IF /\ t \in E \cap Listed(waiters[c])
        /\ T[t].pending.kind \in {"wait", "timedwait"} /\ T[t].pending.cv = c
     THEN waiters[c][t] - 1 ELSE waiters[c][t]]]

\* Scheduler::wake
Wake(T, S) ==
  [t \in DOMAIN T |-> IF t \in S THEN [T[t] EXCEPT !.enabled = "enabled", !.state = "READY"] ELSE T[t]]

\* A thread t takes its pending action; the conjuncts of the action give the
\* new mutexes, lists, number of threads and finished, T the new threads and
\* next the thread that must be stepped next
Taken(t, T, next) ==
  \E T0 \in {T} : \E T1 \in {IF T0[t].state = "BLOCKED" \/ Complete(T0, t) THEN [T0 EXCEPT ![t].enabled = "disabled"] ELSE T0} :
      IF finished' THEN FinishExecution(T1)
      ELSE /\ Proceed(T1, locked', next, Main, num_threads')
           /\ UNCHANGED bugs

\* Thread t's action may be taken, with the sleepers E woken first; T is th
\* after both
Stepping(t, kind, E) ==
  /\ Selected(t)
  /\ ~th[t].wakeup
  /\ th[t].pending.kind = kind
  /\ UNCHANGED prog

Stepped(t, E) == WakeUp([th EXCEPT ![t].pending = NoAction], E)

UnchangedObjects(E) ==
  /\ waiters' = LeaveLists(th, E)
  /\ UNCHANGED <<locked, num_threads, finished>>

\* Accesses, yields, thread starts and joins change nothing here; a write
\* resets the return value, and the first half of an RMW must be followed by
\* the second
Access(t, E) ==
  \E kind \in {"start", "join", "write", "yield", "rmw"} :
    /\ Stepping(t, kind, E)
    /\ UnchangedObjects(E)
    /\ Taken(t, [Stepped(t, E) EXCEPT ![t].ret = IF kind \in {"write", "rmw"} THEN "none" ELSE @], NoThread)

RMWReadUnpinned(t, E) ==
  /\ Stepping(t, "rmwr", E)
  /\ UnchangedObjects(E)
  /\ Taken(t, Stepped(t, E), NoThread)

RMWRead(t, E) ==
  /\ Stepping(t, "rmwr", E)
  /\ UnchangedObjects(E)
  /\ Taken(t, [Stepped(t, E) EXCEPT ![t].ret = "none"], t)

\* (A program has at most as many threads as prog has sequences.)
CreateThread(t, E) ==
  LET child == num_threads + 1
  IN  /\ Stepping(t, "create", E)
      /\ child \in Threads
      /\ num_threads' = child
      /\ waiters' = LeaveLists(th, E)
      /\ UNCHANGED <<locked, finished>>
      /\ Taken(t, [Stepped(t, E) EXCEPT ![child] = NewThread], child)

\* Threads blocked in a join of t
Joiners(T, t) == {u \in Live : WaitingOn(T, locked, u) = t /\ T[u].pending.kind = "join"}

\* main's return ends the execution; any other thread's end wakes its joiners
FinishThread(t, E) ==
  \E kind \in {"finish", "exit"} :
    LET T == Stepped(t, E)
        ends == kind = "finish" /\ t = Main
        T1 == IF ends THEN T ELSE Wake(T, Joiners(T, t))
    IN  /\ Stepping(t, kind, E)
        /\ waiters' = LeaveLists(th, E)
        /\ finished' = ends
        /\ UNCHANGED <<locked, num_threads>>
        /\ Taken(t, [T1 EXCEPT ![t].state = "COMPLETED"], NoThread)

Sleep(t, E) ==
  /\ Stepping(t, "sleep", E)
  /\ UnchangedObjects(E)
  /\ Taken(t, [Stepped(t, E) EXCEPT ![t].pending = th[t].pending, ![t].enabled = "sleep"], NoThread)

----------------------------------------------------------------------------
(* process_mutex *)

Lock(t, E) ==
  \E kind \in {"lock", "trylock"} :
    LET m == th[t].pending.mu
        free == kind = "lock" \/ locked[m] = NoThread
    IN  /\ Stepping(t, kind, E)
        /\ locked' = IF free THEN [locked EXCEPT ![m] = t] ELSE locked
        /\ waiters' = LeaveLists(th, E)
        /\ UNCHANGED <<num_threads, finished>>
        /\ Taken(t, [Stepped(t, E) EXCEPT ![t].ret = CASE kind = "lock" -> @
                                                       [] kind = "trylock" /\ free -> "1"
                                                       [] OTHER -> "0"], NoThread)

LockWaitersNone(T, t) == {}

\* The threads an unlock by t wakes: those whose lock is held by t
LockWaiters(T, t) == {u \in Live : WaitingOn(T, locked, u) = t /\ T[u].pending.kind = "lock"}

Unlock(t, E) ==
  LET T == Stepped(t, E)
  IN  /\ Stepping(t, "unlock", E)
      /\ locked' = [locked EXCEPT ![th[t].pending.mu] = NoThread]
      /\ waiters' = LeaveLists(th, E)
      /\ UNCHANGED <<num_threads, finished>>
      /\ Taken(t, Wake(T, LockWaiters(T, t)), NoThread)

\* Release the mutex and wait: in the sleep set, from where the thread may be
\* woken at any time, or blocked until it is notified
Park(t, E, how) ==
  LET call == th[t].pending
      T == Stepped(t, E)
  IN  /\ locked' = [locked EXCEPT ![call.mu] = NoThread]
      /\ waiters' = [LeaveLists(th, E) EXCEPT ![call.cv][t] = @ + 1]
      /\ UNCHANGED <<num_threads, finished>>
      /\ Taken(t, [Wake(T, LockWaiters(T, t)) EXCEPT ![t].pending = call, ![t].enabled = how,
                                                     ![t].state = IF how = "sleep" THEN @ ELSE "BLOCKED"], NoThread)

Wait(t, E) ==
  /\ Stepping(t, "wait", E)
  /\ \E how \in {"sleep", "disabled"} : Park(t, E, how)

TimedWait(t, E) ==
  /\ Stepping(t, "timedwait", E)
  /\ Park(t, E, "sleep")

\* The deadline has passed before the wait begins: the mutex is not released
TimedWaitExpired(t, E) ==
  /\ Stepping(t, "timedwait", E)
  /\ UnchangedObjects(E)
  /\ Taken(t, [Stepped(t, E) EXCEPT ![t].ret = "ETIMEDOUT"], NoThread)

\* Notified threads are marked; completed ones are not put back to work
Notified(T, S) ==
  LET W == Wake(T, {u \in S : T[u].state # "COMPLETED"})
  IN  [u \in DOMAIN W |-> IF u \in S THEN [W[u] EXCEPT !.wakeup = TRUE] ELSE W[u]]

NotifyAll(t, E) ==
  LET c == th[t].pending.cv
      lists == LeaveLists(th, E)
  IN  /\ Stepping(t, "notify_all", E)
      /\ waiters' = [lists EXCEPT ![c] = [u \in Threads |-> 0]]
      /\ UNCHANGED <<locked, num_threads, finished>>
      /\ Taken(t, Notified(Stepped(t, E), Listed(lists[c])), NoThread)

NotifyOne(t, E) ==
  LET c == th[t].pending.cv
      lists == LeaveLists(th, E)
  IN  /\ Stepping(t, "notify_one", E)
      /\ UNCHANGED <<locked, num_threads, finished>>
      /\ \/ /\ Listed(lists[c]) = {}
            /\ waiters' = lists
            /\ Taken(t, Stepped(t, E), NoThread)
         \/ \E u \in Listed(lists[c]) :
              /\ waiters' = [lists EXCEPT ![c][u] = @ - 1]
              /\ Taken(t, Notified(Stepped(t, E), {u}), NoThread)

Step(t, E) ==
  \/ Access(t, E)
  \/ RMWRead(t, E)
  \/ CreateThread(t, E)
  \/ FinishThread(t, E)
  \/ Sleep(t, E)
  \/ Lock(t, E)
  \/ Unlock(t, E)
  \/ Wait(t, E)
  \/ TimedWait(t, E)
  \/ TimedWaitExpired(t, E)
  \/ NotifyAll(t, E)
  \/ NotifyOne(t, E)

Next ==
  \/ SwitchThread
  \/ AssertUserBug
  \/ GiveUp
  \/ NextExecution
  \/ UseStaleChoice
  \/ HandleFault
  \/ \E t \in Threads : ResumeWoken(t)
  \/ \E t \in Threads : WakeSleeper(t)
  \/ \E t \in Threads, E \in SUBSET Sleeping(th) : Step(t, E)

\* The loop is the only thing that runs: it goes on as long as it can
Spec == Init /\ [][Next]_vars /\ WF_vars(Next)

----------------------------------------------------------------------------
(* Properties *)

\* Every variable has its type, and no thread beyond num_threads has run
TypeOK ==
  /\ prog \in Programs
  /\ num_threads \in Threads
  /\ \A t \in Threads :
       /\ th[t].state \in {"CREATED", "RUNNING", "READY", "BLOCKED", "COMPLETED", "FREED"}
       /\ th[t].pending.kind \in Kinds \ {"assert"}
       /\ th[t].wakeup \in BOOLEAN
       /\ th[t].ret \in {"none", "0", "1", "ETIMEDOUT"}
       /\ th[t].enabled \in {"enabled", "disabled", "sleep"}
       /\ th[t].pc \in 0..Len(Code(t))
       /\ t > num_threads => th[t] = Unborn
  /\ \A m \in Mutexes : locked[m] \in Threads \cup {NoThread}
  /\ \A c \in CondVars : waiters[c] \in [Threads -> Nat]
  /\ chosen_thread \in Threads \cup {NoThread}
  /\ curr_thread_num \in Threads
  /\ old \in Threads
  /\ finished \in BOOLEAN
  /\ bugs \subseteq {"waits on itself", "deadlock", "assertion"}
  /\ mode \in {"user", "choose", "done", "hung", "segv"}

\* The two assertions of take_step (execution.cc:1746, 1748): whichever thread
\* select_next_thread or getNextThread picks is ready, and its pending action
\* is enabled.  getNextThread disables a thread one pass earlier than the loop
\* picks one, so the check could be stale.  A chosen thread of an earlier
\* execution is the subject of ChosenExists.
PickedCanStep ==
  mode = "choose" =>
    \A t \in Available(th) \cup ({chosen_thread} \cap Live) :
      /\ th[t].state = "READY"
      /\ th[t].pending # NoAction
      /\ CheckActionEnabled(th, locked, t)

\* The mutexes that a thread which makes its call k has locked, its tries having
\* succeeded, and not unlocked
Held(C, k) ==
  {m \in Mutexes : \E j \in 1..(k - 1) :
     /\ C[j].kind \in {"lock", "trylock"} /\ C[j].mu = m
     /\ \A i \in (j + 1)..(k - 1) : ~(C[i].kind = "unlock" /\ C[i].mu = m)}

\* No thread of the program waits for a condition variable, each unlocks only
\* what it holds, and none relies on a mutex after a try that failed
CanWait(C) == \E k \in 1..Len(C) : C[k].kind \in {"wait", "timedwait"}
Disciplined(p) ==
  \A t \in 1..Len(p) : LET C == CodeOf(p, t) IN
    /\ ~CanWait(C)
    /\ \A k \in 1..Len(C) :
         /\ C[k].kind = "unlock" => C[k].mu \in Held(C, k)
         /\ C[k].kind = "trylock" /\ k + 1 + C[k].skip <= Len(C) => Held(C, k + 1 + C[k].skip) \subseteq Held(C, k)

\* A thread that is about to unlock a mutex, or to wait with it, holds it: every
\* call of lock that returned did take the mutex, also the relock after a wait
\* (conditionvariable.cc:26), and nobody took it away since.  This is so until
\* a timed wait expires, after which there is no relock (pthread.cc:188).
UnlockedByHolder ==
  (\A t \in Live : th[t].ret # "ETIMEDOUT") =>
    \A t \in Live :
      /\ th[t].pending.kind = "unlock" => locked[th[t].pending.mu] = t
      /\ th[t].pending.kind \in {"wait", "timedwait"} /\ th[t].enabled = "enabled" /\ ~th[t].wakeup
           => locked[th[t].pending.mu] = t

\* No lost wakeup: a thread blocked in lock or join waits for a mutex that is
\* held or a thread that runs (execution.cc:457: the unlock operation has to
\* re-enable all of the threads that are waiting on the lock).  Once main has
\* returned nobody is woken any more, not even who joins main.
BlockedForAReason ==
  ~finished => \A t \in Live : th[t].state = "BLOCKED" /\ th[t].pending.kind \in {"lock", "join"} => ~CheckActionEnabled(th, locked, t)

\* No thread both waits for a condition variable and does RMWs
RMWsApart(p) ==
  \A t \in 1..Len(p) : CanWait(CodeOf(p, t)) => \A k \in 1..Len(CodeOf(p, t)) : CodeOf(p, t)[k].kind # "rmwr"

\* An RMW is not split (action_select_next_thread): once the first half is
\* done, the second half is the next step, whatever other threads may do.
RMWNotSplit ==
  mode = "choose" => \A t \in Live : th[t].pending.kind = "rmw" => chosen_thread = t

\* Threads that wait for each other in a circle are reported (switch_thread)
\* as soon as the last of them waits; relocking a recursive mutex is no circle.
CircleReported ==
  mode # "done" /\ bugs = {} =>
    \A S \in SUBSET Live \ {{}} :
      \E t \in S : WaitingOn(th, locked, t) \notin S \/ CheckActionEnabled(th, locked, t)

\* An execution that ends without a report has run every thread to its end, or
\* main returned while some thread could still run (finish_execution).
EndIsJudged ==
  mode = "done" /\ bugs = {} =>
    \/ \A t \in Live : Complete(th, t)
    \/ finished /\ \E t \in Live : th[t].enabled # "disabled"

\* Deadlock is reported (is_deadlocked) only if no unfinished thread can ever
\* move again: it waits for a held mutex, a live thread or a notification.
NoFalseDeadlock ==
  mode = "done" /\ "deadlock" \in bugs =>
    \A t \in Live : ~Complete(th, t) =>
       IF th[t].pending.kind \in {"wait", "timedwait"} THEN ~th[t].wakeup ELSE ~CheckActionEnabled(th, locked, t)

\* The loop never continues on the stack of a thread whose stack it freed, and
\* never frees the stack it runs on (getNextThread's thr != old).
StackAlive == mode \in {"user", "choose"} => th[old].state # "FREED"

\* A completed thread stays completed (the assertion of Thread::set_state)
CompletedForGood ==
  [][mode # "done" => \A t \in Threads : Complete(th, t) => Complete(th, t)']_vars

\* Every execution ends: programs without loops cannot keep the run loop busy,
\* because each turn of it steps, resumes or ends something.  (An execution
\* that starts with a stale choice ends in the handler of the fault.)
ExecutionsEnd == []<>(mode \in {"done", "segv"})

\* reset_to_initial_state "resets all model-checker data structures"
\* (model.cc:115): an execution never steps a thread of an earlier one.
ChosenExists == mode = "choose" /\ bugs = {} => chosen_thread <= num_threads

\* assert_user_bug bails out (model.cc:213): after a failed assertion the
\* thread makes no further call.
AssertBailsOut ==
  [][\A t \in Threads : th[t].pc > 0 /\ Code(t)[th[t].pc].kind = "assert" => th'[t].pc <= th[t].pc]_vars

=============================================================================
