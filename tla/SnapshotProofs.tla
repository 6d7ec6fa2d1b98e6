--------------------------- MODULE SnapshotProofs ---------------------------
(***************************************************************************)
(* Proofs about the loop over executions, for every number of executions   *)
(* that may be asked for and every number of children that end before      *)
(* their time.                                                             *)
(*                                                                         *)
(* The two properties speak of the parent between two children.  They hold *)
(* because of what the shared record and the shared counters mean in each  *)
(* state of the child, which is the inductive invariant.                   *)
(***************************************************************************)
EXTENDS Snapshot, TLAPS

\* How many executions were counted (record_stats, model.cc:238)
N == stats.num_total

\* Variables have their types as far as the argument needs them
Types ==
  /\ maxexecutions \in Nat /\ nofork \in BOOLEAN /\ snapshotid = 0
  /\ mIDToRollback \in {NoRollback, snapshotid}
  /\ N \in Nat /\ begun \in Nat /\ kills \in Nat /\ execution_number = N + 1
  /\ parent \in {"loop", "wait", "gone", "success", "failure"}
  /\ child \in {"none", "forked", "running", "recorded", "spinning", "exited"}

\* Where the parent is while the child is alive or has ended, and when it may
\* leave the loop (fork_loop)
ParentAgrees ==
  /\ parent = "loop" => child = "none" \/ (child = "exited" /\ mIDToRollback = snapshotid)
  /\ parent \in {"wait", "gone"} => child # "none"
  /\ parent = "gone" => nofork
  /\ parent = "success" /\ ~nofork => child = "exited" /\ mIDToRollback # snapshotid

\* A request to roll back stands only when the last child that began was
\* counted (fork_take_snapshot withdraws it, fork_roll_back makes it)
CountsAgree ==
  /\ child \in {"none", "forked", "recorded"} => N = begun
  /\ child \in {"running", "spinning"} => N + 1 = begun
  /\ child \in {"running", "spinning", "recorded"} => mIDToRollback = NoRollback
  /\ child = "exited" /\ mIDToRollback = snapshotid => N = begun

\* As long as no child was cut short: before an execution more are wanted or it
\* is the first, after it not more than that many were run (finishRunExecution)
Wanted == N = 0 \/ N < maxexecutions

QuotaAgrees ==
  kills = 0 =>
    /\ child \in {"none", "forked", "running", "spinning"} => Wanted
    /\ child = "recorded" => N > 0 /\ (N = 1 \/ N <= maxexecutions)
    /\ child = "exited" /\ mIDToRollback = snapshotid => Wanted
    /\ child = "exited" /\ mIDToRollback # snapshotid =>
         N = IF maxexecutions = 0 THEN 1 ELSE maxexecutions

IInv == Types /\ ParentAgrees /\ CountsAgree /\ QuotaAgrees

-----------------------------------------------------------------------------
\* The inductive invariant holds when take_snapshot is first called.
LEMMA InitIInv == Init => IInv
  BY BoundsAssumption DEF Init, IInv, Types, ParentAgrees, CountsAgree, QuotaAgrees, Wanted, N, NoRollback

\* Every step of fork_loop and of a child, the ends before its time included,
\* preserves it.
LEMMA NextIInv == IInv /\ [Next]_vars => IInv'
<1> SUFFICES ASSUME IInv, [Next]_vars PROVE IInv'
  BY Zenon
<1> USE DEF IInv, Types, ParentAgrees, CountsAgree, QuotaAgrees, Wanted, N, NoRollback,
            params, record, checker, private
<1>1. CASE Fork
  BY <1>1, Zenon DEF Fork
<1>2. CASE ForkFails
  BY <1>2, Zenon DEF ForkFails
<1>3. CASE RunUnforked
  BY <1>3, Zenon DEF RunUnforked
<1>4. CASE Wait
  BY <1>4, Zenon DEF Wait
<1>5. CASE LeaveUnforked
  BY <1>5, Zenon DEF LeaveUnforked
<1>6. CASE TakeSnapshot
  BY <1>6 DEF TakeSnapshot
<1>7. CASE Act
  BY <1>7, Zenon DEF Act
<1>8. CASE ReportBug
  BY <1>8, Zenon DEF ReportBug
<1>9. ASSUME NEW end \in Ends, RecordStats(end) PROVE IInv'
  <2>1. stats'.num_total = stats.num_total + 1
    BY <1>9, Zenon DEF RecordStats, Counted
  <2> QED
    BY <1>9, <2>1 DEF RecordStats
<1>10. CASE RollBack
  BY <1>10 DEF RollBack, MoreExecutions
<1>11. CASE Killed
  BY <1>11 DEF Killed
<1>12. CASE Fault
  BY <1>12, Zenon DEF Fault
<1>13. CASE UNCHANGED vars
  BY <1>13 DEF vars
<1> QED
  BY <1>1, <1>2, <1>3, <1>4, <1>5, <1>6, <1>7, <1>8, <1>9, <1>10, <1>11, <1>12, <1>13, Zenon DEF Next

\* fork_loop forks again only when every execution that began was finished and
\* counted, however many children are killed and whenever (snapshot.cc:165).
THEOREM AccountedAlways == Spec => []Accounted
<1>1. IInv => Accounted
  BY Zenon DEF IInv, Types, ParentAgrees, CountsAgree, N, Accounted
<1> QED
  BY <1>1, InitIInv, NextIInv, PTL DEF Spec

\* A tool that ends well, none of whose children was cut short, has run exactly
\* as many executions as were asked for, and at least one (model.cc:427).
THEOREM AllExecutedAlways == Spec => []AllExecuted
<1>1. IInv => AllExecuted
  BY Zenon DEF IInv, Types, ParentAgrees, QuotaAgrees, N, AllExecuted
<1> QED
  BY <1>1, InitIInv, NextIInv, PTL DEF Spec
=============================================================================
