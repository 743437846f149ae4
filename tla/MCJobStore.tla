----------------------------- MODULE MCJobStore -----------------------------
(* Values of the constants of JobStore for TLC.                            *)
EXTENDS JobStore, TLC

CONSTANTS j1, j2

OneOwner == j1 :> "alice"

MCOwner == (j1 :> "alice") @@ (j2 :> "bob")

\* The lifecycle the guide documents, with updates that repeat a status: a
\* terminal status is final.
LifecycleMoves ==
  {<<"Pending", "Running">>, <<"Pending", "Finished">>, <<"Running", "Finished">>}
    \cup {<<st, st>> : st \in Status}

=============================================================================
