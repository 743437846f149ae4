---------------------------- MODULE MCProtocol ----------------------------
(* Protocol with one request of each type, and bodies of every kind.       *)
EXTENDS Protocol, TLC

Types == <<"Heartbeat", "Bootstrap", "SubmitJob", "Job", "JobStatus", "JobOutput", "JobResourceUtil",
           "ControlJob", "JobNetwork", "ClusterInfo", "SetLoadBalancerNodes", "ConfigReload">>
MCRequests == {[id |-> i, type |-> Types[i]] : i \in DOMAIN Types}

\* A heartbeat, a request for a job, one without ID, no JSON, an unknown type and
\* fields that do not fit.
MCRaw ==
  LET raw(json, type, id, fields) == [json |-> json, type |-> type, id |-> id, fields |-> fields] IN
  (<<1>>       :> raw(TRUE, <<0>>, <<5>>, FALSE)) @@
  (<<0, 1>>    :> raw(TRUE, <<3>>, <<6>>, TRUE)) @@
  (<<2, 0, 1>> :> raw(TRUE, <<3>>, <<>>, TRUE)) @@
  (<<0>>       :> raw(FALSE, <<>>, <<>>, FALSE)) @@
  (<<2, 2>>    :> raw(TRUE, <<77>>, <<7>>, TRUE)) @@
  (<<1, 1, 1>> :> raw(TRUE, <<2>>, <<8>>, FALSE))

MCInts == [x80 |-> 80, x443 |-> 443]
MCWords == {<<>>, <<"tcp">>, <<"/data">>, <<"a", "=", "b">>, <<"/a", ":", "/b">>, <<"a", "/", "b">>}
MCRooted == {"/data", "/a", "/b", "/"}

=============================================================================
