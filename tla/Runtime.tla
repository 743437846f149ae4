------------------------------- MODULE Runtime -------------------------------
(***************************************************************************)
(* The request handler of launcher.Runtime (createHandler, the response    *)
(* writer and streamStore in launcher/launcher.go, metricsLoop in          *)
(* launcher/metrics.go), run by Communicator.Serve: what each goroutine of *)
(* Communicator does for each kind of request. Requests of a stream and    *)
(* of its cancellation carry the same request ID.                          *)
(***************************************************************************)
EXTENDS Communicator

CONSTANTS
  Req,        \* the fields of each request that the handler looks at
  IDs,        \* request IDs
  Major,      \* api.APIVersion.Major
  Metering,   \* metricsInterval > 0
  none,       \* no stream record, no sequence ID
  MaxTicks    \* bound: ticks of the metrics ticker

Types == {"Heartbeat", "Bootstrap", "SubmitJob", "ControlJob", "StreamJob", "GetJob",
          "SetLoadBalancerNodes", "ConfigReload"}

\* What createHandler does with a request: "cancel" a stream, "refuse" it with
\* an error, "answer" it itself, "call" the plugin, do so and then answer
\* ("bootstrap", "hook"), or start a "stream". GetJob stands for the plain
\* plugin methods, StreamJob for the streaming ones. A plugin without the
\* optional method of a hook is one whose method returns at once.
Route(q) ==
  CASE q.type = "Heartbeat" -> "answer"
    [] q.type \in {"SetLoadBalancerNodes", "ConfigReload"} -> "hook"
    [] q.type = "Bootstrap"  -> IF q.major = Major THEN "bootstrap" ELSE "refuse"
    [] q.type = "SubmitJob"  -> IF q.jobUser = "" /\ q.user \in {"*", ""} THEN "refuse" ELSE "call"
    [] q.type = "ControlJob" -> IF q.wildcard \/ ~q.validOp THEN "refuse" ELSE "call"
    [] q.type = "StreamJob"  -> IF q.cancel THEN "cancel" ELSE "stream"
    [] OTHER                 -> "call"

Kind(r) == Route(Req[r])

ASSUME RuntimeAssumption ==
  /\ \A r \in Requests : Req[r].type \in Types /\ Req[r].id \in IDs
  /\ Streams = {r \in Requests : Kind(r) = "stream"}
  /\ MaxTicks \in Nat /\ Metering \in BOOLEAN
  /\ none \notin Requests /\ none \notin Nat /\ "metrics" \notin Requests

\* The Launcher gives every request an ID of its own, and a cancellation that of
\* its stream.
ASSUME StreamIDs == \A q, r \in Streams : Req[q].id = Req[r].id => q = r

VARIABLES
  stage,      \* how far the handler of each request is
  streams,    \* streamStore.streams: the request whose Start made the record
  seqID,      \* the record's SeqID
  held,       \* the stream context a handler holds, named by its Start
  canceled,   \* stream contexts that Cancel has canceled
  label,      \* the sequence ID of each response of a request, none if it has none
  loops,      \* metricsLoop goroutines started
  stopped,    \* metricsLoop goroutines that returned
  ticks,      \* responses they offered
  called,     \* history: plugin methods entered, in order
  booted,     \* history: requests whose Bootstrap has returned
  panicked    \* a goroutine sent on the closed response channel

storeVars   == <<streams, seqID, held, canceled>>
metricsVars == <<loops, stopped, ticks, panicked>>
rtVars == <<vars, stage, storeVars, label, metricsVars, called, booted>>

RtInit ==
  /\ Init
  /\ stage = [r \in Requests |-> "new"]
  /\ streams = [i \in IDs |-> none] /\ seqID = [i \in IDs |-> 0]
  /\ held = [r \in Requests |-> none] /\ canceled = {}
  /\ label = [r \in Requests |-> <<>>]
  /\ loops = 0 /\ stopped = 0 /\ ticks = 0 /\ panicked = FALSE
  /\ called = {} /\ booted = {}

-----------------------------------------------------------------------------
(* streamStore.                                                            *)

\* Start: the record's context if there is one, a new record otherwise.
Start(r) ==
  LET i == Req[r].id IN
  IF streams[i] # none
  THEN /\ held' = [held EXCEPT ![r] = streams[i]]
       /\ UNCHANGED <<streams, seqID, canceled>>
  ELSE /\ streams' = [streams EXCEPT ![i] = r]
       /\ seqID' = [seqID EXCEPT ![i] = 0]
       /\ held' = [held EXCEPT ![r] = r]
       /\ UNCHANGED canceled

\* Mutant of CancelStream: the context is not canceled.
CancelStream_DeleteOnly(i) ==
  /\ streams' = [streams EXCEPT ![i] = none]
  /\ UNCHANGED <<seqID, held, canceled>>

\* streamStore.Cancel: cancels and deletes the record, if there is one.
CancelStream(i) ==
  /\ canceled' = canceled \cup ({streams[i]} \ {none})
  /\ streams' = [streams EXCEPT ![i] = none]
  /\ UNCHANGED <<seqID, held>>

\* Mutant of SequenceID: the counter is not incremented.
SequenceID_Stuck(i, n) ==
  /\ n = IF streams[i] # none THEN seqID[i] + 1 ELSE 0
  /\ UNCHANGED storeVars

\* SequenceID: the next number of the record, 0 if there is none.
SequenceID(i, n) ==
  /\ n = IF streams[i] # none THEN seqID[i] + 1 ELSE 0
  /\ seqID' = IF streams[i] # none THEN [seqID EXCEPT ![i] = n] ELSE seqID
  /\ UNCHANGED <<streams, held, canceled>>

-----------------------------------------------------------------------------
(* The handler.                                                            *)

\* A cancellation ends the handler at once, with no response.
EnterCancel(r) ==
  /\ stage[r] = "new" /\ Kind(r) = "cancel"
  /\ Return(r)
  /\ CancelStream(Req[r].id)
  /\ UNCHANGED <<stage, label, metricsVars, called, booted>>

\* A stream begins with Start; then, as for a plain call, the plugin's method
\* is entered. A request the runtime answers itself gets its one response.
Enter(r) ==
  /\ handler[r] = "run" /\ stage[r] = "new" /\ Kind(r) # "cancel"
  /\ stage' = [stage EXCEPT ![r] =
       IF Kind(r) \in {"answer", "refuse"} THEN "reply" ELSE "plugin"]
  /\ called' = IF Kind(r) \in {"answer", "refuse"} THEN called ELSE called \cup {r}
  /\ IF Kind(r) = "stream" THEN Start(r) ELSE UNCHANGED storeVars
  /\ UNCHANGED <<vars, label, metricsVars, booted>>

\* The plugin, or the runtime in its stead, writes a response: a stream draws
\* the next sequence number (errors carry none), then comes the send that may
\* block. SyncNodes and ReloadConfig have no response writer; Bootstrap leaves
\* room under the bound for the reply that follows it.
Write(r) ==
  /\ stage[r] \in {"plugin", "reply"}
  /\ stage[r] = "plugin" =>
       Kind(r) # "hook" /\ (Kind(r) = "bootstrap" => sent[r] + 1 < MaxSend)
  /\ Begin(r)
  /\ \/ /\ Kind(r) = "stream"
        /\ \E n \in {0, seqID[Req[r].id] + 1} :
             /\ SequenceID(Req[r].id, n)
             /\ label' = [label EXCEPT ![r] = Append(@, n)]
     \/ /\ label' = [label EXCEPT ![r] = Append(@, none)]
        /\ UNCHANGED storeVars
  /\ stage' = [stage EXCEPT ![r] = IF @ = "reply" THEN "replied" ELSE @]
  /\ UNCHANGED <<metricsVars, called, booted>>

\* w.ch <- resp
SendResponse(r) ==
  /\ Send(r)
  /\ UNCHANGED <<stage, storeVars, label, metricsVars, called, booted>>

\* Mutant of MethodReturns: the loop is started before the response.
MethodReturns_Metering(r) ==
  /\ Kind(r) \in {"bootstrap", "hook"}
  /\ handler[r] = "run" /\ stage[r] = "plugin"
  /\ stage' = [stage EXCEPT ![r] = "reply"]
  /\ booted' = IF Kind(r) = "bootstrap" THEN booted \cup {r} ELSE booted
  /\ loops' = IF Kind(r) = "bootstrap" /\ Metering THEN 1 ELSE loops
  /\ UNCHANGED <<vars, storeVars, label, stopped, ticks, panicked, called>>

\* Bootstrap, SyncNodes or ReloadConfig returns; the runtime's reply is next.
MethodReturns(r) ==
  /\ Kind(r) \in {"bootstrap", "hook"}
  /\ handler[r] = "run" /\ stage[r] = "plugin"
  /\ stage' = [stage EXCEPT ![r] = "reply"]
  /\ booted' = IF Kind(r) = "bootstrap" THEN booted \cup {r} ELSE booted
  /\ UNCHANGED <<vars, storeVars, label, metricsVars, called>>

\* The method returns; the handler of a bootstrap request has by then sent
\* its response and starts the metrics loop, once.
Finish(r) ==
  /\ stage[r] = IF Kind(r) \in {"call", "stream"} THEN "plugin" ELSE "replied"
  /\ Return(r)
  /\ loops' = IF Kind(r) = "bootstrap" /\ Metering THEN 1 ELSE loops
  /\ UNCHANGED <<stage, storeVars, label, stopped, ticks, panicked, called, booted>>

\* metricsLoop, case <-ticker.C: metricsOnce offers a response without
\* blocking. With the context canceled either case may be taken.
Tick ==
  /\ stopped < loops /\ ticks < MaxTicks
  /\ ticks' = ticks + 1
  /\ panicked' = respClosed
  /\ respCh' = IF ~respClosed /\ Len(respCh) < RespCap
               THEN Append(respCh, <<"metrics", ticks + 1>>) ELSE respCh
  /\ UNCHANGED <<ctx, readerVars, handler, sent, writerVars, mainVars, errVars,
                 stage, storeVars, label, loops, stopped, called, booted>>

\* case <-ctx.Done()
TickStop ==
  /\ stopped < loops /\ ctx
  /\ stopped' = stopped + 1
  /\ UNCHANGED <<vars, stage, storeVars, label, loops, ticks, panicked, called, booted>>

-----------------------------------------------------------------------------
\* The Launcher cancels a stream after it asked for it.
Expected(r) ==
  Kind(r) = "cancel" =>
    \E s \in read : Kind(s) = "stream" /\ Req[s].id = Req[r].id

ServeStep ==
  /\ \/ \E r \in Requests : Expected(r) /\ ReadRequest(r)
     \/ ReadEnd \/ ReadError \/ ReadFail \/ Writer \/ Main \/ Cancel
  /\ UNCHANGED <<stage, storeVars, label, metricsVars, called, booted>>

HandlerStep(r) ==
  \/ EnterCancel(r) \/ Enter(r) \/ Write(r) \/ SendResponse(r)
  \/ MethodReturns(r) \/ Finish(r)

RtNext == ~panicked /\ (ServeStep \/ Tick \/ TickStop \/ \E r \in Requests : HandlerStep(r))

RtSpec == RtInit /\ [][RtNext]_rtVars

\* As in Communicator. The context of a stream is canceled with the plugin's
\* or by Cancel, and a streaming method then returns.
StreamDone(r) == ctx \/ held[r] \in canceled

RtFairness ==
  /\ WF_rtVars(ServeStep /\ (ReadFail \/ Writer \/ Main))
  /\ WF_rtVars(ServeStep /\ Writer)
  /\ SF_rtVars(ServeStep /\ LeaveCanceled) /\ SF_rtVars(ServeStep /\ Dispatch)
  /\ \A r \in Requests :
       /\ WF_rtVars(EnterCancel(r)) /\ WF_rtVars(Enter(r)) /\ WF_rtVars(SendResponse(r))
       /\ WF_rtVars(MethodReturns(r))
       /\ WF_rtVars(stage[r] = "reply" /\ Write(r))
       /\ WF_rtVars((Kind(r) = "stream" => StreamDone(r)) /\ Finish(r))

RtFairSpec == RtSpec /\ RtFairness

-----------------------------------------------------------------------------
(* Safety.                                                                 *)

RtTypeOK ==
  /\ stage \in [Requests -> {"new", "plugin", "reply", "replied"}]
  /\ streams \in [IDs -> Requests \cup {none}] /\ seqID \in [IDs -> Nat]
  /\ held \in [Requests -> Requests \cup {none}] /\ canceled \subseteq Requests
  /\ label \in [Requests -> Seq(Nat \cup {none})]
  /\ stopped \in 0 .. loops /\ loops \in Nat /\ ticks \in 0 .. MaxTicks
  /\ called \subseteq Requests /\ booted \subseteq Requests
  /\ Len(respCh) <= RespCap

\* The numbers that the responses of a stream carry, on the wire up to place i.
Numbers(r, i) ==
  {label[r][wire[k][2]] : k \in {k \in 1 .. i : wire[k][1] = r}} \ {none, 0}

\* On the wire the sequence IDs of a stream count 1, 2, 3, ... in the order
\* the responses are read, until the stream is canceled: before the number n
\* the Launcher has read those below n, each of them, and no other. SequenceID,
\* the response channel and the writer together neither skip, repeat nor swap
\* one.
StreamInSequence ==
  \A r \in Streams : \A i \in DOMAIN wire : LET n == label[r][wire[i][2]] IN
    wire[i][1] = r /\ n \notin {none, 0} => Numbers(r, i - 1) = 1 .. n - 1

\* Every metrics response is written after a bootstrap response, whichever
\* goroutine gets to the response channel first.
MetricsAfterBootstrap ==
  \A i \in DOMAIN wire : wire[i][1] = "metrics" =>
    \E k \in 1 .. i - 1 : LET r == wire[k][1] IN
      r \in Requests /\ Kind(r) = "bootstrap" /\ r \in booted

-----------------------------------------------------------------------------
(* Liveness.                                                               *)

\* A stream whose record the Launcher's cancellation has removed ends, even
\* while the response channel is full and other streams keep writing.
CanceledStreamEnds ==
  \A r \in Streams :
    held[r] # none /\ streams[Req[r].id] = none ~> handler[r] = "done"

\* A request the runtime answers or refuses itself is answered, though
\* streams are open, unless the plugin shuts down.
RuntimeAnswers ==
  \A r \in Requests :
    r \in read /\ Kind(r) \in {"answer", "refuse"} ~>
      (\E i \in DOMAIN wire : wire[i][1] = r) \/ main # "select"

-----------------------------------------------------------------------------
(* What the documentation says and the code does not do.                   *)

\* "When the Launcher sends a cancel request for a stream, the SDK cancels the
\* corresponding context" (docs/ARCHITECTURE.md:290).
CancelReachesStream ==
  \A c, r \in Requests :
    Kind(c) = "cancel" /\ r \in Streams /\ Req[c].id = Req[r].id /\ handler[c] = "done"
      ~> held[r] \in canceled \/ handler[r] = "done" \/ main # "select"

\* "Each includes a sequence ID to maintain ordering" (docs/API.md:99): no
\* response of a stream is numbered 0.
StreamNumbered ==
  \A r \in Streams : \A k \in DOMAIN label[r] : label[r][k] # 0

\* "No other methods will be called before it returns" (of Bootstrap,
\* launcher/launcher.go:223).
BootstrapFirst ==
  \A r \in called : Kind(r) # "bootstrap" => booted # {}

\* The metrics loop "stops when ctx is canceled" (launcher/metrics.go:147) and
\* so never sends on the response channel that shutdown closes.
MetricsStops == ~panicked

=============================================================================
