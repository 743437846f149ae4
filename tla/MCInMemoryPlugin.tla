-------------------------- MODULE MCInMemoryPlugin --------------------------
(* Values of the constants of InMemoryPlugin for TLC.                      *)
EXTENDS InMemoryPlugin

CONSTANTS sub1, sub2, ctl1, ctl2, output, util

MCUserOf == [c \in Calls |-> IF c = sub2 THEN "bob" ELSE IF c = ctl2 THEN "*" ELSE "alice"]
MCTargets == [c \in Controllers \cup Streams |-> IF c = output THEN {2} ELSE {1}]
MCTagSets == [c \in Submitters |-> {IF c = sub1 THEN {} ELSE {"long-running"}}]

=============================================================================
