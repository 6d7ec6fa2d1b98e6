---------------------------- MODULE MCScheduler ----------------------------
(* Programs for the run loop *)
EXTENDS Scheduler

Cre == pthread_create
Joi(t) == pthread_join(t)
Lck(m) == mutex_lock(m)
Try(m, skip) == pthread_mutex_trylock(m, skip)
Unl(m) == pthread_mutex_unlock(m)
CWait(c, m) == condition_variable_wait(c, m)
TWait(c, m) == pthread_cond_timedwait(c, m)
One(c) == pthread_cond_signal(c)
All(c) == pthread_cond_broadcast(c)
RMW == atomic_rmw
Yld == sched_yield
Slp == nanosleep
Exi == pthread_exit

Main2 == <<Cre, Cre, Joi(2), Joi(3)>>
Main3 == <<Cre, Cre, Cre, Joi(2), Joi(3), Joi(4)>>

\* Locks in every order, so that circles can form, with tries and a join by
\* another thread than main
LockPrograms ==
  LET Body == {<<Lck("m"), Lck("n"), Unl("n"), Unl("m")>>,
               <<Lck("n"), Lck("m"), Unl("m"), Unl("n")>>,
               <<Plain("write"), Lck("m"), Yld, Unl("m")>>,
               <<Lck("m"), Try("n", 1), Unl("n"), Unl("m")>>,
               RMW \o <<Lck("m"), Unl("m")>>}
      Third == Body \cup {<<Lck("m"), Joi(2), Unl("m")>>, <<Slp, Lck("n"), Unl("n"), Exi>>}
  IN  {<<Main3, <<Lck("m"), Lck("n"), Unl("n"), Unl("m")>>, b, c>> : b \in Body, c \in Third}
        \cup {<<Main2, a, b>> : a \in Body, b \in Third}
        \cup {<<<<Cre, Joi(2)>>, <<Lck("r"), Lck("r"), Unl("r")>>>>}
        \cup {<<<<Cre, Exi>>, a>> : a \in Body} \cup {<<<<Cre, Yld>>, a>> : a \in Body}

\* Waiters and notifiers that never block while a waiter sleeps
WaitPrograms ==
  LET Waiter == <<Lck("m")>> \o CWait("c", "m") \o <<Unl("m")>>
      Notifier == {<<Lck("m"), One("c"), Unl("m")>>, <<Lck("m"), All("c"), Unl("m")>>, <<One("c"), One("c")>>}
  IN  {<<Main3, Waiter, b, c>> : b \in Notifier \cup {Waiter}, c \in Notifier}

\* Timed waits with one other thread
TimedPrograms ==
  LET Timed == {<<Lck("m")>> \o TWait("c", "m") \o <<Unl("m")>>, <<Lck("m")>> \o TWait("c", "m") \o TWait("c", "m") \o <<Unl("m")>>}
      Other == {<<Lck("m"), One("c"), Unl("m")>>, <<Plain("write"), All("c")>>, <<Slp, Plain("assert"), Plain("write")>>}
  IN  {<<Main2, a, b>> : a \in Timed, b \in Other}

\* The programs on which the run loop does what it promises
AllPrograms == LockPrograms \cup WaitPrograms \cup TimedPrograms

\* No RMW of these can be split by a notification, and those with locks only
\* use them as they should
ASSUME AllProgramsAssumption == (\A p \in AllPrograms : RMWsApart(p)) /\ \A p \in LockPrograms : Disciplined(p)

\* A notifier that sleeps with the mutex
SleepyNotifier == {<<Main2, <<Lck("m")>> \o CWait("c", "m") \o <<Unl("m")>>, <<Lck("m"), Slp, One("c"), Unl("m")>>>>}

\* Two waits in a row, and a notifier that sleeps before each notification
LateNotifier == {<<Main2, <<Lck("m")>> \o CWait("c", "m") \o <<Unl("m")>>, <<Slp, Slp, One("c")>>>>}

\* The same with an RMW after the wait
WaiterRMW == {<<Main2, <<Lck("m")>> \o CWait("c", "m") \o <<Unl("m")>> \o RMW, <<Slp, Slp, One("c")>>>>}

\* A timed wait among three users of the mutex
TimedUsers == {<<Main3, <<Lck("m")>> \o TWait("c", "m") \o <<Unl("m")>>, <<Lck("m"), Unl("m")>>, <<Lck("m"), Unl("m")>>>>}

\* Two threads that lock a recursive mutex, one of them twice
Relock == {<<Main2, <<Lck("r"), Lck("r"), Unl("r")>>, <<Yld, Lck("r"), Unl("r")>>>>}

\* An assertion that fails while another thread is about to store
AssertAmidStores == {<<<<Cre, Plain("write"), Plain("assert"), Yld>>, <<Plain("write")>>>>}

FailedAssertion == {<<<<Plain("assert"), Yld>>>>}

\* Programs on which the run loop disagrees with its documents
Disagreements ==
  SleepyNotifier \cup LateNotifier \cup WaiterRMW \cup TimedUsers \cup Relock \cup AssertAmidStores \cup FailedAssertion
=============================================================================
