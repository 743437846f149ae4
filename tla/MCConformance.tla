--------------------------- MODULE MCConformance ---------------------------
(* Values of the constants of Conformance for TLC.                         *)
EXTENDS Conformance

CONSTANTS sub1, sub2, ctl, output, guest, rival

MCUserOf == [c \in Calls |-> "alice"]
MCTargets == [c \in Controllers \cup Streams |-> {1, 2, 3}]
MCTagSets == [c \in Submitters |-> {{}}]
AllTests == DOMAIN Scripts \ {"SuspendResume"}

=============================================================================
