----------------------------- MODULE JobStatuses -----------------------------
(***************************************************************************)
(* The statuses of a job, the operations on it and the filters that select *)
(* jobs (api/types.go).                                                    *)
(***************************************************************************)
EXTENDS Integers

Statuses == {"Pending", "Running", "Suspended", "Canceled", "Failed", "Finished", "Killed"}

Operations == {"Suspend", "Resume", "Stop", "Kill", "Cancel"}

\* TerminalStatus: the job's status will not change in the future.
TerminalStatus(status) == status \in {"Canceled", "Failed", "Finished", "Killed"}

\* ValidForStatus: the status a job must have for the operation.
ValidForStatus(op) ==
  CASE op \in {"Suspend", "Stop", "Kill"} -> "Running"
    [] op = "Resume"                      -> "Suspended"
    [] OTHER                              -> "Pending"

\* JobFilter.Includes. A filter has sets of tags and of statuses, empty for any,
\* and bounds on the time of submission, <<>> for none.
Includes(filter, job) ==
  /\ filter.start = <<>> \/ job.submitted >= filter.start[1]
  /\ filter.end = <<>> \/ job.submitted <= filter.end[1]
  /\ filter.statuses = {} \/ job.status \in filter.statuses
  /\ filter.tags \subseteq job.tags

=============================================================================
