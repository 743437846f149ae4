--------------------------- MODULE ResponseWriter ---------------------------
(***************************************************************************)
(* The responses that defaultResponseWriter (launcher/launcher.go) makes   *)
(* with the constructors of internal/protocol/rpc.go and sends: the IDs    *)
(* and numbers in them, by which the Launcher tells what they answer. Each *)
(* writing goroutine has a request; a plugin may write to a stream from    *)
(* two. A method draws a response ID, then a sequence number, then sends:  *)
(* each is a step of its own.                                              *)
(***************************************************************************)
EXTENDS Integers, Sequences, FiniteSets

CONSTANTS
  Writers,   \* goroutines that write
  Requests,  \* the requests there may be: their ID and type
  RespCap,   \* capacity of the response channel
  MaxWrites  \* bound: responses that a goroutine writes

StreamTypes == {"JobStatus", "JobOutput", "JobResourceUtil"}
RequestKinds ==
  StreamTypes \cup {"Heartbeat", "Bootstrap", "SubmitJob", "Job", "ControlJob", "JobNetwork", "ClusterInfo",
                   "SetLoadBalancerNodes", "ConfigReload"}

ASSUME WriterAssumption ==
  /\ Requests \subseteq [id : Nat, type : RequestKinds]
  /\ \A q, r \in Requests : q.id = r.id => q = r
  /\ RespCap \in Nat \ {0} /\ MaxWrites \in Nat

IDs == {r.id : r \in Requests}

VARIABLES
  req,      \* the request of each goroutine
  counter,  \* responseCounter
  seqID,    \* streamStore: the SeqID of each record, <<>> without one
  at,       \* each goroutine: its place and the response it is making
  writes,   \* responses it has begun
  ch, wire  \* the response channel, and what has been encoded

vars == <<req, counter, seqID, at, writes, ch, wire>>

New(type, requestID, responseID) ==
  [type |-> type, requestId |-> requestID, responseId |-> responseID,
   sequences |-> <<>>, seqId |-> 0, complete |-> FALSE]

-----------------------------------------------------------------------------
(* The constructors.                                                       *)

NewHeartbeatResponse == New("Heartbeat", 0, 0)
NewErrorResponse(requestID) == New("Error", requestID, 0)
NewBootstrapResponse(requestID, responseID) == New("Bootstrap", requestID, responseID)
NewJobStateResponse(requestID, responseID) == New("JobState", requestID, responseID)
NewJobStatusStreamResponse(responseID) == New("JobStatus", 0, responseID)
NewJobOutputStreamResponse(requestID, responseID) == New("JobOutput", requestID, responseID)
NewJobResourceResponse(responseID, complete) ==
  [New("JobResourceUtil", 0, responseID) EXCEPT !.complete = complete]
NewControlJobResponse(requestID, responseID) == New("ControlJob", requestID, responseID)
NewJobNetworkResponse(requestID, responseID) == New("JobNetwork", requestID, responseID)
NewClusterInfoResponse(requestID, responseID) == New("ClusterInfo", requestID, responseID)
NewSetLoadBalancerNodesResponse(requestID, responseID) ==
  New("SetLoadBalancerNodes", requestID, responseID)
NewConfigReloadResponse(requestID, responseID) == New("ConfigReload", requestID, responseID)

-----------------------------------------------------------------------------
(* The methods of the writer.                                              *)

\* The methods that are called for a type of request. Errors may be written for
\* any but a heartbeat. Closing a status stream writes nothing.
Methods(type) ==
  CASE type = "Heartbeat" -> {"WriteHeartbeat"}
    [] type = "Bootstrap" -> {"WriteBootstrap", "WriteError"}
    [] type \in {"SubmitJob", "Job"} -> {"WriteJobs", "WriteError"}
    [] type = "JobStatus" -> {"WriteJobStatus", "WriteError"}
    [] type = "JobOutput" -> {"WriteJobOutput", "Close", "WriteError"}
    [] type = "JobResourceUtil" -> {"WriteJobResourceUtil", "Close", "WriteError"}
    [] type = "ControlJob" -> {"WriteControlJob", "WriteError"}
    [] type = "JobNetwork" -> {"WriteJobNetwork", "WriteError"}
    [] type = "ClusterInfo" -> {"WriteClusterInfo", "WriteError"}
    [] type = "SetLoadBalancerNodes" -> {"WriteSetLoadBalancerNodes"}
    [] type = "ConfigReload" -> {"WriteConfigReload"}

\* Methods that take no response ID.
Unnumbered == {"WriteHeartbeat", "WriteError"}

\* The response of a method before its sequence number is drawn.
Response(method, r, id) ==
  CASE method = "WriteHeartbeat"  -> NewHeartbeatResponse
    [] method = "WriteError"      -> NewErrorResponse(r.id)
    [] method = "WriteBootstrap"  -> NewBootstrapResponse(r.id, id)
    [] method = "WriteJobs"       -> NewJobStateResponse(r.id, id)
    [] method = "WriteJobStatus"  -> NewJobStatusStreamResponse(id)
    [] method = "WriteJobOutput"  -> NewJobOutputStreamResponse(r.id, id)
    [] method = "WriteJobResourceUtil" -> NewJobResourceResponse(id, FALSE)
    [] method = "WriteControlJob" -> NewControlJobResponse(r.id, id)
    [] method = "WriteJobNetwork" -> NewJobNetworkResponse(r.id, id)
    [] method = "WriteClusterInfo" -> NewClusterInfoResponse(r.id, id)
    [] method = "WriteSetLoadBalancerNodes" -> NewSetLoadBalancerNodesResponse(r.id, id)
    [] method = "WriteConfigReload" -> NewConfigReloadResponse(r.id, id)
    [] method = "Close" /\ r.type = "JobOutput" ->
         [NewJobOutputStreamResponse(r.id, id) EXCEPT !.complete = TRUE]
    [] method = "Close" /\ r.type = "JobResourceUtil" -> NewJobResourceResponse(id, TRUE)

\* A goroutine with nothing to send.
Idle == [at |-> "idle"]

\* nextResponseID is atomic.
nextResponseID(method) == counter' = IF method \in Unnumbered THEN counter ELSE counter + 1

\* A method is called and makes its response; by and drawn are history.
Write(w, method) ==
  /\ at[w].at = "idle" /\ writes[w] < MaxWrites /\ method \in Methods(req[w].type)
  /\ nextResponseID(method)
  /\ at' = [at EXCEPT ![w] =
       [at   |-> IF req[w].type \in StreamTypes /\ method # "WriteError" THEN "number" ELSE "send",
        resp |-> Response(method, req[w], counter), by |-> w, drawn |-> method \notin Unnumbered]]
  /\ writes' = [writes EXCEPT ![w] = @ + 1]
  /\ UNCHANGED <<req, seqID, ch, wire>>

\* Mutant of Numbered: only running streams name their request.
Numbered_NotLast(resp, requestID, n) ==
  IF resp.type = "JobOutput" \/ resp.complete THEN [resp EXCEPT !.seqId = n]
  ELSE [resp EXCEPT !.sequences = <<[requestId |-> requestID, seqId |-> n]>>]

\* Where the sequence number goes.
Numbered(resp, requestID, n) ==
  IF resp.type = "JobOutput" THEN [resp EXCEPT !.seqId = n]
  ELSE [resp EXCEPT !.sequences = <<[requestId |-> requestID, seqId |-> n]>>]

\* Mutant of SequenceID: the number is read before the increment is stored.
SequenceID_Early(i, n) ==
  /\ n = IF seqID[i] = <<>> THEN 0 ELSE seqID[i][1]
  /\ seqID' = [seqID EXCEPT ![i] = IF @ = <<>> THEN @ ELSE <<@[1] + 1>>]

\* streamStore.SequenceID: the next number, 0 if there is no record.
SequenceID(i, n) ==
  /\ n = IF seqID[i] = <<>> THEN 0 ELSE seqID[i][1] + 1
  /\ seqID' = [seqID EXCEPT ![i] = IF @ = <<>> THEN @ ELSE <<n>>]

Number(w) ==
  LET i == req[w].id IN
  /\ at[w].at = "number"
  /\ \E n \in 0 .. MaxWrites * Cardinality(Writers) :
       /\ SequenceID(i, n)
       /\ at' = [at EXCEPT ![w].at = "send", ![w].resp = Numbered(@, i, n)]
  /\ UNCHANGED <<req, counter, writes, ch, wire>>

\* The send blocks while the channel is full.
sendResponse(w) ==
  /\ at[w].at = "send" /\ Len(ch) < RespCap
  /\ ch' = Append(ch, [at[w] EXCEPT !.at = "sent"])
  /\ at' = [at EXCEPT ![w] = Idle]
  /\ UNCHANGED <<req, counter, seqID, writes, wire>>

\* streamStore.Cancel, called for a cancellation.
Cancel(i) ==
  /\ seqID[i] # <<>> /\ seqID' = [seqID EXCEPT ![i] = <<>>]
  /\ UNCHANGED <<req, counter, at, writes, ch, wire>>

\* The writer goroutine of Serve.
Encode ==
  /\ ch # <<>> /\ ch' = Tail(ch) /\ wire' = Append(wire, Head(ch))
  /\ UNCHANGED <<req, counter, seqID, at, writes>>

-----------------------------------------------------------------------------
\* Every stream's record was made by Start before the plugin was called. Two
\* goroutines may serve the same request if it is a stream.
Init ==
  /\ req \in [Writers -> Requests]
  /\ \A v, w \in Writers : v # w /\ req[v] = req[w] => req[v].type \in StreamTypes
  /\ counter = 0
  /\ seqID = [i \in IDs |-> IF \E w \in Writers : req[w].id = i /\ req[w].type \in StreamTypes THEN <<0>> ELSE <<>>]
  /\ at = [w \in Writers |-> Idle] /\ writes = [w \in Writers |-> 0]
  /\ ch = <<>> /\ wire = <<>>

Next ==
  \/ \E w \in Writers : (\E method \in Methods(req[w].type) : Write(w, method)) \/ Number(w) \/ sendResponse(w)
  \/ \E i \in IDs : Cancel(i)
  \/ Encode

Spec == Init /\ [][Next]_vars

-----------------------------------------------------------------------------
(* Safety.                                                                 *)

\* The responses that were sent, the ones on the wire first.
Sent == wire \o ch

ResponseTypes ==
  {"Heartbeat", "Error", "Bootstrap", "JobState", "JobStatus", "JobOutput", "JobResourceUtil", "ControlJob",
   "JobNetwork", "ClusterInfo", "SetLoadBalancerNodes", "ConfigReload"}
Resps ==
  [type : ResponseTypes, requestId : Nat, responseId : Nat, sequences : Seq([requestId : Nat, seqId : Nat]),
   seqId : Nat, complete : BOOLEAN]
Items(place) == [at : {place}, resp : Resps, by : Writers, drawn : BOOLEAN]

TypeOK ==
  /\ req \in [Writers -> Requests] /\ counter \in Nat
  /\ seqID \in [IDs -> Seq(Nat)] /\ \A i \in IDs : Len(seqID[i]) <= 1
  /\ at \in [Writers -> {Idle} \cup Items("number") \cup Items("send")] /\ writes \in [Writers -> 0 .. MaxWrites]
  /\ ch \in Seq(Items("sent")) /\ wire \in Seq(Items("sent")) /\ Len(ch) <= RespCap

\* The request that a response names: those of status and resource streams name
\* it with the sequence number, and have request ID 0.
Addressee(resp) ==
  IF resp.type \in {"JobStatus", "JobResourceUtil"}
  THEN {resp.sequences[k].requestId : k \in DOMAIN resp.sequences} ELSE {resp.requestId}

\* Whatever a plugin writes, and wherever it comes on the wire, the Launcher can
\* tell which request it answers (a heartbeat answers all).
ResponsesAddressed ==
  \A k \in DOMAIN wire : wire[k].resp.type = "Heartbeat" \/ Addressee(wire[k].resp) = {req[wire[k].by].id}

\* The number in a response of a stream.
NumberOf(resp) == IF resp.type = "JobOutput" THEN resp.seqId ELSE resp.sequences[1].seqId

\* A response with a response ID; a response of a stream with its number.
HasID(m, n) == m.drawn /\ m.resp.responseId = n
OfStream(m, i) == req[m.by].id = i /\ m.resp.type \in StreamTypes
HasNumber(m, i, n) == OfStream(m, i) /\ NumberOf(m.resp) = n

\* One response, either sent or with a goroutine yet.
ExactlyOne(places, writers) ==
  \/ writers = {} /\ \E k \in places : places = {k}
  \/ places = {} /\ \E w \in writers : writers = {w}

\* No two responses have the same response ID, of those that have one, and none
\* is skipped, although goroutines draw them concurrently.
IDsUsedOnce ==
  LET holders == {w \in Writers : at[w].at # "idle"} IN
  /\ \A n \in 0 .. counter - 1 : ExactlyOne({k \in DOMAIN Sent : HasID(Sent[k], n)}, {w \in holders : HasID(at[w], n)})
  /\ \A k \in DOMAIN Sent : Sent[k].drawn => Sent[k].resp.responseId < counter
  /\ \A w \in holders : at[w].drawn => at[w].resp.responseId < counter

\* The numbers of a stream that has not been canceled are 1, 2, 3, ... without gap
\* or repetition, completions included, though two goroutines write it.
StreamNumbersUsedOnce ==
  LET holders == {w \in Writers : at[w].at = "send"} IN
  \A i \in {i \in IDs : seqID[i] # <<>>} :
    /\ \A n \in 1 .. seqID[i][1] :
         ExactlyOne({k \in DOMAIN Sent : HasNumber(Sent[k], i, n)}, {w \in holders : HasNumber(at[w], i, n)})
    /\ \A k \in DOMAIN Sent : OfStream(Sent[k], i) => NumberOf(Sent[k].resp) \in 1 .. seqID[i][1]
    /\ \A w \in holders : OfStream(at[w], i) => NumberOf(at[w].resp) \in 1 .. seqID[i][1]

\* Each number is used for one response: response IDs from the start, and the
\* sequence numbers of each stream.
NumbersUsedOnce == IDsUsedOnce /\ StreamNumbersUsedOnce

-----------------------------------------------------------------------------
(* What the documentation says and the code does not do.                   *)

\* "Monotonically increasing response ID (first must be 0)" (docs/API.md:53).
ResponseIDsIncrease ==
  \A k \in 1 .. Len(wire) - 1 :
    wire[k].drawn /\ wire[k + 1].drawn => wire[k].resp.responseId < wire[k + 1].resp.responseId

=============================================================================
