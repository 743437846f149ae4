---------------------------- MODULE JobLifecycle ----------------------------
(***************************************************************************)
(* What a plugin promises about the statuses of its jobs, with no calls,   *)
(* timers or goroutines: a job is submitted once and starts Pending, the   *)
(* scheduler moves it on, an operation moves a job that has the status it  *)
(* is valid for, and a terminal status is final.                           *)
(***************************************************************************)
EXTENDS JobStatuses

VARIABLE status   \* the status of each job that was submitted

Submit(j) ==
  /\ j \notin DOMAIN status
  /\ status' = [i \in DOMAIN status \cup {j} |-> IF i = j THEN "Pending" ELSE status[i]]

Move(j, to) == status' = [status EXCEPT ![j] = to]

\* The scheduler starts the job, fails to, or sees it end.
Proceed(j) ==
  \/ status[j] = "Pending" /\ \E to \in {"Running", "Failed"} : Move(j, to)
  \/ status[j] = "Running" /\ Move(j, "Finished")

\* The status an operation leads to.
Result(op) ==
  CASE op = "Cancel"  -> "Canceled"
    [] op = "Stop"    -> "Finished"
    [] op = "Kill"    -> "Killed"
    [] op = "Suspend" -> "Suspended"
    [] OTHER          -> "Running"

Control(j, op) == status[j] = ValidForStatus(op) /\ Move(j, Result(op))

LifecycleInit == status = [j \in {} |-> "Pending"]

LifecycleNext ==
  \/ \E j \in DOMAIN status' : Submit(j)
  \/ \E j \in DOMAIN status : Proceed(j) \/ \E op \in Operations : Control(j, op)

LifecycleSpec == LifecycleInit /\ [][LifecycleNext]_status

=============================================================================
