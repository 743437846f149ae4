----------------------------- MODULE MCJobCache -----------------------------
(* Values of the constants of JobCache for TLC.                            *)
EXTENDS JobCache, TLC

CONSTANTS j1, j2, s1, c1, c2

MCOwner == (j1 :> "alice") @@ (j2 :> "bob")

OneOwner == (j1 :> "alice")

\* Any change of status, the resurrection of a terminal job included: nothing
\* in the cache forbids it.
AnyMove == Status \X Status

\* The lifecycle the guide documents: a terminal status is final.
LifecycleMoves ==
  (Status \X Status) \cap
    {<<"Pending", "Running">>, <<"Pending", "Finished">>, <<"Running", "Finished">>}

\* One call of each kind for the first job; the second belongs to another
\* user, so its updates must pass by.
MCCalls ==
  { [op |-> "StreamJobStatus",   user |-> "alice", id |-> j1],
    [op |-> "StreamJobStatuses", user |-> "alice", id |-> j1],
    [op |-> "RunningJobContext", user |-> "alice", id |-> j1] }

\* The same calls, two of them by the administrator ("*").
MixedCalls ==
  { [op |-> "StreamJobStatus",   user |-> "alice", id |-> j1],
    [op |-> "StreamJobStatuses", user |-> "*", id |-> j1],
    [op |-> "RunningJobContext", user |-> "*", id |-> j1] }

StatusCalls == { [op |-> "StreamJobStatus", user |-> "alice", id |-> j1] }

RunningCalls == { [op |-> "RunningJobContext", user |-> "alice", id |-> j1] }

=============================================================================
