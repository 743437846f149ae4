------------------------------ MODULE MCRuntime ------------------------------
(* Values of the constants of Runtime for TLC.                             *)
EXTENDS Runtime, TLC

CONSTANTS stream, cancel, get, boot, control

Fields == [type |-> "GetJob", id |-> 0, major |-> 3, user |-> "alice", jobUser |-> "",
           wildcard |-> FALSE, validOp |-> TRUE, cancel |-> FALSE]

\* cancel has the ID of stream, and control is to be refused.
AllReq ==
  (stream  :> [Fields EXCEPT !.type = "StreamJob", !.id = 1]) @@
  (cancel  :> [Fields EXCEPT !.type = "StreamJob", !.id = 1, !.cancel = TRUE]) @@
  (get     :> [Fields EXCEPT !.id = 3]) @@
  (boot    :> [Fields EXCEPT !.type = "Bootstrap", !.id = 4]) @@
  (control :> [Fields EXCEPT !.type = "ControlJob", !.id = 7, !.validOp = FALSE])

MCReq == [r \in Requests |-> AllReq[r]]

=============================================================================
