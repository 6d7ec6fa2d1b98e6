------------------------------ MODULE Snapshot ------------------------------
(***************************************************************************)
(* Executions as processes: snapshot.cc, and the part of ModelChecker that *)
(* goes from one execution to the next.                                    *)
(*                                                                         *)
(* take_snapshot leaves the process in fork_loop, which forks a child for  *)
(* each execution and waits for it.  Parent and child share the snapshot   *)
(* record and the heap of model_malloc, with the ModelChecker object on    *)
(* it; all else the child has in private, as it was at the snapshot.       *)
(*                                                                         *)
(* What an execution does is the subject of the other modules: here it is  *)
(* a number of actions, after which it ends with or without a bug, with    *)
(* all threads done, some blocked, or some that could go on.               *)
(***************************************************************************)
EXTENDS Integers

CONSTANTS
  MaxExecutions,   \* the values of the option -x
  Threshold,       \* params.checkthreshold, the option -f
  MaxActions,      \* bound: actions of an execution
  MaxKills,        \* bound: how often a child ends before its time
  MaxTotal         \* bound: executions in all (not reached)

ASSUME BoundsAssumption ==
  MaxExecutions \subseteq Nat /\ Threshold \in Nat \ {0} /\ MaxActions \in Nat /\ MaxKills \in Nat /\ MaxTotal \in Nat

VARIABLES
  maxexecutions, nofork,            \* params
  mIDToRollback, currSnapShotID,    \* the shared record
  execution_number, stats, checkfree,  \* the ModelChecker object, shared
  parent,       \* "loop", "wait", "gone" (no fork: the child is the process), "success" or "failure"
  snapshotid,   \* of the process in fork_loop
  child,        \* "none", "forked", "running", "recorded", "spinning", "exited"
  seq, bug,     \* the child's sequence number, and has it reported a bug?
  kills,        \* how many children ended before their time
  begun         \* how many executions began (auxiliary)

params == <<maxexecutions, nofork>>
record == <<mIDToRollback, currSnapShotID>>
checker == <<execution_number, stats, checkfree>>
private == <<seq, bug>>
vars == <<params, record, checker, parent, snapshotid, child, private, kills, begun>>

NoRollback == -1

\* How an execution may end
Ends == {"complete", "deadlocked", "unfinished"}

\* createSharedMemory; startChecker up to the call of take_snapshot, which
\* enters fork_loop.  checkfree is not set by the constructor; the page is new.
Init ==
  /\ maxexecutions \in MaxExecutions
  /\ nofork \in BOOLEAN
  /\ mIDToRollback = NoRollback
  /\ currSnapShotID = 0
  /\ execution_number = 1
  /\ stats = [num_total |-> 0, num_buggy_executions |-> 0, num_complete |-> 0]
  /\ checkfree = 0
  /\ parent = "loop"
  /\ snapshotid = 0
  /\ child = "none"
  /\ seq = 0
  /\ bug = FALSE
  /\ kills = 0
  /\ begun = 0

-----------------------------------------------------------------------------
(* fork_loop *)

\* A child starts from the snapshot
Fork ==
  /\ parent = "loop"
  /\ ~nofork
  /\ stats.num_total < MaxTotal
  /\ currSnapShotID' = snapshotid + 1
  /\ parent' = "wait"
  /\ child' = "forked"
  /\ seq' = 0
  /\ bug' = FALSE
  /\ UNCHANGED <<params, mIDToRollback, checker, snapshotid, kills, begun>>

\* fork returns -1, for which waitpid knows no child
ForkFails ==
  /\ parent = "loop"
  /\ ~nofork
  /\ stats.num_total < MaxTotal
  /\ currSnapShotID' = snapshotid + 1
  /\ parent' = "failure"
  /\ UNCHANGED <<params, mIDToRollback, checker, snapshotid, child, private, kills, begun>>

RunUnforked ==
  /\ parent = "loop"
  /\ nofork
  /\ parent' = "gone"
  /\ child' = "forked"
  /\ UNCHANGED <<params, record, checker, snapshotid, private, kills, begun>>

\* Faulty variant: any end of the child is a reason to go on
WaitForAny ==
  /\ parent = "wait"
  /\ child = "exited"
  /\ parent' = "loop"
  /\ UNCHANGED <<params, record, checker, snapshotid, child, private, kills, begun>>

\* waitpid returns the child; without a request to roll back all is over.  An
\* interrupted waitpid is called again, which changes nothing.
Wait ==
  /\ parent = "wait"
  /\ child = "exited"
  /\ parent' = IF mIDToRollback # snapshotid THEN "success" ELSE "loop"
  /\ UNCHANGED <<params, record, checker, snapshotid, child, private, kills, begun>>

\* An unforked process is its own parent
LeaveUnforked ==
  /\ parent = "gone"
  /\ child = "exited"
  /\ parent' = "success"
  /\ UNCHANGED <<params, record, checker, snapshotid, child, private, kills, begun>>

-----------------------------------------------------------------------------
(* The child *)

\* take_snapshot returns in the child
TakeSnapshot ==
  /\ child = "forked"
  /\ mIDToRollback' = NoRollback
  /\ child' = "running"
  /\ begun' = begun + 1
  /\ UNCHANGED <<params, currSnapShotID, checker, parent, snapshotid, private, kills>>

\* A turn of startRunExecution: collectActions when it is due, then an action
Act ==
  /\ child = "running"
  /\ ~bug
  /\ seq < MaxActions
  /\ seq' = seq + 1
  /\ checkfree' = IF seq > checkfree THEN checkfree + Threshold ELSE checkfree
  /\ UNCHANGED <<params, record, execution_number, stats, parent, snapshotid, child, bug, kills, begun>>

\* assert_bug
ReportBug ==
  /\ child = "running"
  /\ ~bug
  /\ bug' = TRUE
  /\ UNCHANGED <<params, record, checker, parent, snapshotid, child, seq, kills, begun>>

\* record_stats, with finish_execution's search for a deadlock
Verdict(end) ==
  IF bug \/ end = "deadlocked" THEN "buggy" ELSE IF end = "complete" THEN "complete" ELSE "incomplete"

Counted(end) ==
  [num_total |-> stats.num_total + 1,
   num_buggy_executions |-> stats.num_buggy_executions + (IF Verdict(end) = "buggy" THEN 1 ELSE 0),
   num_complete |-> stats.num_complete + (IF Verdict(end) = "complete" THEN 1 ELSE 0)]

\* finish_execution up to its last statement
RecordStats(end) ==
  /\ child = "running"
  /\ stats' = Counted(end)
  /\ execution_number' = execution_number + 1
  /\ child' = "recorded"
  /\ UNCHANGED <<params, record, checkfree, parent, snapshotid, private, kills, begun>>

\* Faulty variant: the number that was counted up already is compared
MoreExecutionsLate == execution_number < maxexecutions

\* Faulty variant: there is always one more
MoreExecutionsEver == TRUE

\* finishRunExecution asks before finish_execution counts up
MoreExecutions == execution_number - 1 < maxexecutions

\* reset_to_initial_state, or the end of finishRunExecution
RollBack ==
  /\ child = "recorded"
  /\ mIDToRollback' = IF MoreExecutions THEN snapshotid ELSE mIDToRollback
  /\ child' = "exited"
  /\ UNCHANGED <<params, currSnapShotID, checker, parent, snapshotid, private, kills, begun>>

\* A failed ASSERT of the tester (_Exit), or a signal at any time
Killed ==
  /\ child \in {"forked", "running", "recorded"}
  /\ child' = "exited"
  /\ kills' = kills + 1
  /\ kills < MaxKills
  /\ UNCHANGED <<params, record, checker, parent, snapshotid, private, begun>>

\* SIGSEGV in the program under test: mprot_handle_pf does not return
Fault ==
  /\ child = "running"
  /\ child' = "spinning"
  /\ UNCHANGED <<params, record, checker, parent, snapshotid, private, kills, begun>>

Next ==
  \/ Fork \/ ForkFails \/ RunUnforked \/ Wait \/ LeaveUnforked
  \/ TakeSnapshot \/ Act \/ ReportBug \/ (\E end \in Ends : RecordStats(end)) \/ RollBack
  \/ Killed \/ Fault

\* The operating system runs every process that can run
Fairness ==
  /\ WF_vars(Fork \/ ForkFails \/ RunUnforked \/ Wait \/ LeaveUnforked)
  /\ WF_vars(TakeSnapshot \/ Act \/ RollBack \/ \E end \in Ends : RecordStats(end))

Spec == Init /\ [][Next]_vars /\ Fairness

-----------------------------------------------------------------------------
(* Properties *)

\* fork_loop forks again only when every execution that began was finished and
\* counted: one that was cut short, by a failed assertion of the tester or a
\* signal, is never taken for one that asked for the next (snapshot.cc:165).
Accounted == parent = "loop" => stats.num_total = begun /\ execution_number = begun + 1

\* If no child ends before its time, a tool that ends well has run as many
\* executions as the option -x asks for, and at least one: the count survives
\* the processes, and the comparison is not off by one (model.cc:427).
AllExecuted ==
  parent = "success" /\ kills = 0 /\ ~nofork => stats.num_total = IF maxexecutions = 0 THEN 1 ELSE maxexecutions

\* The tool ends, whatever way its children end, unless the program under test
\* faults: then the handler spins and the parent waits for it (model.cc:39).
ToolEnds == <>(parent \in {"success", "failure"} \/ child = "spinning")

\* The option -f is the "Frequency to free actions" (main.cc:60): at any time
\* the next collection is at most that many actions away.
CollectsAtFrequency == child = "running" => checkfree <= seq + Threshold
=============================================================================
