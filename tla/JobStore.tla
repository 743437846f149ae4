------------------------------ MODULE JobStore ------------------------------
(***************************************************************************)
(* The content side of the job cache: inMemoryStore (cache/store.go) and   *)
(* the operations of JobCache (cache/cache.go) that read and write it, with*)
(* time. Each is one critical section of the store's lock, except Prune,   *)
(* which iterates under the read lock and deletes afterwards.              *)
(*                                                                         *)
(* Of a job's fields, status stands for those an update overwrites         *)
(* (Status, StatusMsg, StatusCode), host for those it may leave out (Pid,  *)
(* Host, ExitCode, Submitted; "" is left out), and updated for LastUpdated *)
(* (0 is nil). Times are positive.                                         *)
(***************************************************************************)
EXTENDS Naturals

CONSTANTS
  JobIDs, Users, Owner,
  Status, Terminal, Hosts,
  Moves,     \* the <<from, to>> status changes the plugin makes
  Stamped,   \* whether a plugin stamps LastUpdated: a subset of BOOLEAN
  Interval,  \* the argument of Prune
  MaxTime    \* bound: the clock

ASSUME StoreAssumption ==
  /\ "*" \notin Users /\ Owner \in [JobIDs -> Users]
  /\ "absent" \notin Status
  /\ Terminal \subseteq Status /\ Terminal # {} /\ Moves \subseteq Status \X Status
  /\ "" \notin Hosts
  /\ Stamped \subseteq BOOLEAN
  /\ Interval \in Nat /\ MaxTime \in Nat \ {0}

VARIABLES
  now,      \* the clock
  jobs,     \* inMemoryStore.jobs; absent if there is none
  cutoff,   \* of the running Prune, 0 if none runs
  yielded,  \* its candidates
  changed   \* history: when status or host of a job was last set or changed, or the
            \* plugin last stamped it

storeVars == <<now, jobs, cutoff, yielded, changed>>

absent == [status |-> "absent", host |-> "", updated |-> 0]
Job == [status : Status, host : Hosts \cup {""}, updated : Nat]

Has(j) == jobs[j] # absent

StoreInit ==
  /\ now = 1
  /\ jobs = [j \in JobIDs |-> absent]
  /\ cutoff = 0 /\ yielded = {}
  /\ changed = [j \in JobIDs |-> 0]

-----------------------------------------------------------------------------
\* Mutants of syncJob2: a field left out is cleared; LastUpdated is refreshed
\* whether or not it was given.
syncJob2_Overwrite(job, in) == [in EXCEPT !.updated = IF @ # 0 THEN @ ELSE now]

syncJob2_AlwaysNow(job, in) ==
  [status |-> in.status, host |-> IF in.host # "" THEN in.host ELSE job.host,
   updated |-> now]

\* syncJob2: the stored job after an update. A LastUpdated that is given is
\* taken; otherwise a change sets it to the present.
syncJob2(job, in) ==
  LET host == IF in.host # "" THEN in.host ELSE job.host
      same == in.status = job.status /\ host = job.host
  IN  [status  |-> in.status, host |-> host,
       updated |-> IF in.updated # 0 THEN in.updated
                   ELSE IF same THEN job.updated ELSE now]

\* Lookup's and Update's check: the user sees the job.
Visible(user, j) == Has(j) /\ user \in {"*", Owner[j]}

\* Jobs and JobsForUser: a user's jobs with one of the given statuses (any, if
\* none is given).
JobsForUser(user, statuses) ==
  {j \in JobIDs : Visible(user, j) /\ (statuses = {} \/ jobs[j].status \in statuses)}

\* The store's job becomes job, given the plugin's in.
Put(j, in, job) ==
  /\ jobs' = [jobs EXCEPT ![j] = job]
  /\ changed' = [changed EXCEPT ![j] =
       IF /\ job.status = jobs[j].status /\ job.host = jobs[j].host
          /\ in.updated # now
       THEN @ ELSE now]
  /\ UNCHANGED <<now, cutoff, yielded>>

\* AddOrUpdate: a copy of a new job, the merge with an existing one.
AddOrUpdate(j, in) ==
  /\ Has(j) => <<jobs[j].status, in.status>> \in Moves
  /\ Put(j, in, IF Has(j) THEN syncJob2(jobs[j], in) ELSE in)

\* Update: the callback gets a snapshot of the job, changes it and returns it,
\* LastUpdated and all. Nothing happens to a job the user does not see.
Update(user, j, st, stamp) ==
  /\ Visible(user, j)
  /\ <<jobs[j].status, st>> \in Moves
  /\ LET in == [jobs[j] EXCEPT !.status = st, !.updated = IF stamp THEN now ELSE @]
     IN  Put(j, in, syncJob2(jobs[j], in))

\* Prune computes its cutoff ...
PruneBegin ==
  /\ cutoff = 0 /\ now > Interval
  /\ cutoff' = now - Interval
  /\ UNCHANGED <<now, jobs, yielded, changed>>

\* Mutant of PruneScan: jobs of any status are candidates.
PruneScan_AnyStatus ==
  /\ cutoff # 0 /\ yielded = {}
  /\ yielded' \in SUBSET {j \in JobsForUser("*", {}) :
                            jobs[j].updated # 0 /\ jobs[j].updated <= cutoff}
  /\ UNCHANGED <<now, jobs, cutoff, changed>>

\* ... the iterator yields stale jobs, some or all of them (the caller may
\* break) ...
PruneScan ==
  /\ cutoff # 0 /\ yielded = {}
  /\ yielded' \in SUBSET {j \in JobsForUser("*", Terminal) :
                            jobs[j].updated # 0 /\ jobs[j].updated <= cutoff}
  /\ UNCHANGED <<now, jobs, cutoff, changed>>

\* ... and deletes each of them afterwards.
PruneDelete(j) ==
  /\ j \in yielded
  /\ jobs' = [jobs EXCEPT ![j] = absent]
  /\ yielded' = yielded \ {j}
  /\ UNCHANGED <<now, cutoff, changed>>

\* The iterator, which may be ranged over again, is dropped.
PruneEnd ==
  /\ cutoff # 0 /\ yielded = {}
  /\ cutoff' = 0
  /\ UNCHANGED <<now, jobs, yielded, changed>>

ClockTicks ==
  /\ now < MaxTime
  /\ now' = now + 1
  /\ UNCHANGED <<jobs, cutoff, yielded, changed>>

\* What a plugin passes in: a fresh job object, with or without a host and a
\* time stamp.
Input(st, h, stamp) == [status |-> st, host |-> h, updated |-> IF stamp THEN now ELSE 0]

StoreNext ==
  \/ \E j \in JobIDs, st \in Status, h \in Hosts \cup {""}, stamp \in Stamped :
       AddOrUpdate(j, Input(st, h, stamp))
  \/ \E u \in Users \cup {"*"}, j \in JobIDs, st \in Status, stamp \in Stamped :
       Update(u, j, st, stamp)
  \/ PruneBegin \/ PruneScan \/ PruneEnd
  \/ \E j \in JobIDs : PruneDelete(j)
  \/ ClockTicks

StoreSpec == StoreInit /\ [][StoreNext]_storeVars

-----------------------------------------------------------------------------
StoreTypeOK ==
  /\ now \in 1 .. MaxTime
  /\ jobs \in [JobIDs -> Job \cup {absent}]
  /\ cutoff \in 0 .. MaxTime /\ yielded \subseteq JobIDs
  /\ changed \in [JobIDs -> 0 .. MaxTime]

\* No sequence of partial updates takes from a cached job a field it has: an
\* update that leaves the field out keeps it (syncJob2).
FieldsKept ==
  [][\A j \in JobIDs : Has(j) /\ Has(j)' /\ jobs[j].host # "" => jobs'[j].host # ""]_storeVars

TerminalIsFinal == \A m \in Moves : m[1] \in Terminal => m[2] \in Terminal

\* A job leaves the cache only while it is terminal, though Prune deletes
\* what it yielded without a second look: this holds for plugins that never
\* take a job out of a terminal status, polled and stamped as they like.
OnlyTerminalLeave ==
  [][TerminalIsFinal =>
       \A j \in JobIDs : Has(j) /\ ~Has(j)' => jobs[j].status \in Terminal]_storeVars

\* Polling does not keep a job alive: an update that changes nothing and has
\* no stamp of the plugin's leaves LastUpdated alone, so that it is never later
\* than the job's last change or stamp and Prune is never put off by it.
PollingLeavesStamp ==
  \A j \in JobIDs : Has(j) => jobs[j].updated <= changed[j]

\* Prune yields jobs that "have not been updated in the given interval"
\* (cache.go:398): a job that is deleted has not changed for so long.
PrunedAreStale ==
  [][\A j \in JobIDs : Has(j) /\ ~Has(j)' => changed[j] + Interval <= now]_storeVars

=============================================================================
