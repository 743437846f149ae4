---------------------------- MODULE Communicator ----------------------------
(***************************************************************************)
(* Communicator.Serve (internal/protocol/communicator.go): a reader        *)
(* goroutine decodes requests into a bounded channel, the main loop starts *)
(* one handler goroutine per request, handlers send responses to a bounded *)
(* channel, and a writer goroutine encodes them. Errors travel through a   *)
(* channel of capacity 1, and shutdown waits for the handlers, closes the  *)
(* response channel and waits for the writer.                              *)
(*                                                                         *)
(* Handlers are plugin code: one sends any number of responses up to       *)
(* MaxSend, blocking while the channel is full, and returns; a handler in  *)
(* Streams is only sure to return once its context is canceled. The k-th   *)
(* response of request r is <<r, k>>.                                      *)
(***************************************************************************)
EXTENDS Naturals, Sequences, Functions

CONSTANTS
  Requests,   \* requests the Launcher may send, each once
  Streams,    \* those whose handler runs until it is canceled
  Failing,    \* those whose responses the encoder or the pipe may refuse
  ReqCap,     \* capacity of reqCh (100 in the code)
  RespCap,    \* capacity of respCh (100 in the code)
  MaxSend     \* bound: responses one handler sends

ErrCap == 1

ASSUME CommunicatorAssumption ==
  /\ Streams \subseteq Requests
  /\ Failing \subseteq Requests
  /\ ReqCap \in Nat /\ RespCap \in Nat /\ MaxSend \in Nat

VARIABLES
  ctx,        \* the context given to Serve is canceled
  reader,     \* where the reader goroutine is
  reqCh,      \* decoded requests
  read,       \* history: the requests queued
  handler,    \* where the goroutine of each request is
  sent,       \* responses each handler has sent
  respCh,     \* responses on their way to the writer
  respClosed, \* respCh is closed
  writer,     \* where the writer goroutine is
  wire,       \* history: responses encoded, in order
  errCh,      \* errors of the reader ("read") and of the writer ("write")
  failed,     \* history: the errors that occurred
  main,       \* where Serve itself is
  left,       \* why it left its loop
  err         \* its local err, and after the return its result

readerVars  == <<reader, reqCh, read>>
handlerVars == <<handler, sent, respCh>>
writerVars  == <<writer, wire>>
mainVars    == <<main, left, err, respClosed>>
errVars     == <<errCh, failed>>
vars == <<ctx, readerVars, handlerVars, writerVars, mainVars, errVars>>

ReaderAt  == {"read", "fail", "closed"}
HandlerAt == {"none", "run", "send", "done"}
WriterAt  == {"range", "fail", "done", "exited"}
MainAt    == {"select", "wait", "join", "returned"}
Errors    == {"read", "write"}

Init ==
  /\ ctx = FALSE
  /\ reader = "read" /\ reqCh = <<>> /\ read = {}
  /\ handler = [r \in Requests |-> "none"]
  /\ sent = [r \in Requests |-> 0]
  /\ respCh = <<>> /\ respClosed = FALSE
  /\ writer = "range" /\ wire = <<>>
  /\ errCh = <<>> /\ failed = {}
  /\ main = "select" /\ left = "no" /\ err = "nil"

-----------------------------------------------------------------------------
(* The reader goroutine.                                                   *)

\* More and Request return a request, and it is queued when there is room. A
\* request held while the channel is full is as good as not read yet.
ReadRequest(r) ==
  /\ reader = "read"
  /\ r \notin read
  /\ Len(reqCh) < ReqCap
  /\ reqCh' = Append(reqCh, r)
  /\ read' = read \cup {r}
  /\ UNCHANGED <<ctx, reader, handlerVars, writerVars, mainVars, errVars>>

\* More returns false, or Request nil. At the end of the stream Err() is nil
\* and reqCh is closed ...
ReadEnd ==
  /\ reader = "read"
  /\ reader' = "closed"
  /\ UNCHANGED <<ctx, reqCh, read, handlerVars, writerVars, mainVars, errVars>>

\* ... after a read error or an invalid message it is not,
ReadError ==
  /\ reader = "read"
  /\ reader' = "fail"
  /\ failed' = failed \cup {"read"}
  /\ UNCHANGED <<ctx, reqCh, read, handlerVars, writerVars, mainVars, errCh>>

\* and the error is sent before reqCh is closed.
ReadFail ==
  /\ reader = "fail"
  /\ Len(errCh) < ErrCap
  /\ errCh' = Append(errCh, "read")
  /\ reader' = "closed"
  /\ UNCHANGED <<ctx, reqCh, read, handlerVars, writerVars, mainVars, failed>>

-----------------------------------------------------------------------------
(* The handler goroutines.                                                 *)

\* A handler is about to send a response ...
Begin(r) ==
  /\ handler[r] = "run"
  /\ sent[r] < MaxSend
  /\ handler' = [handler EXCEPT ![r] = "send"]
  /\ UNCHANGED <<ctx, readerVars, sent, respCh, writerVars, mainVars, errVars>>

\* ... and does so when the channel has room.
Send(r) ==
  /\ handler[r] = "send"
  /\ Len(respCh) < RespCap
  /\ respCh' = Append(respCh, <<r, sent[r] + 1>>)
  /\ sent' = [sent EXCEPT ![r] = @ + 1]
  /\ handler' = [handler EXCEPT ![r] = "run"]
  /\ UNCHANGED <<ctx, readerVars, writerVars, mainVars, errVars>>

\* The handler returns: wg.Done().
Return(r) ==
  /\ handler[r] = "run"
  /\ handler' = [handler EXCEPT ![r] = "done"]
  /\ UNCHANGED <<ctx, readerVars, sent, respCh, writerVars, mainVars, errVars>>

-----------------------------------------------------------------------------
(* The writer goroutine.                                                   *)

\* One turn of the range loop: the response is encoded, or it is not and the
\* loop is left.
Encode ==
  /\ writer = "range"
  /\ respCh # <<>>
  /\ respCh' = Tail(respCh)
  /\ \/ wire' = Append(wire, Head(respCh)) /\ UNCHANGED <<writer, failed>>
     \/ /\ Head(respCh)[1] \in Failing
        /\ writer' = "fail"
        /\ failed' = failed \cup {"write"}
        /\ UNCHANGED wire
  /\ UNCHANGED <<ctx, readerVars, handler, sent, mainVars, errCh>>

\* errCh <- err
WriteFail ==
  /\ writer = "fail"
  /\ Len(errCh) < ErrCap
  /\ errCh' = Append(errCh, "write")
  /\ writer' = "done"
  /\ UNCHANGED <<ctx, readerVars, handlerVars, wire, mainVars, failed>>

\* The range loop ends when the channel is closed and drained.
WriteEnd ==
  /\ writer = "range"
  /\ respCh = <<>> /\ respClosed
  /\ writer' = "done"
  /\ UNCHANGED <<ctx, readerVars, handlerVars, wire, mainVars, errVars>>

-----------------------------------------------------------------------------
(* Serve itself.                                                           *)

\* Mutant of Dispatch: the handler is called by the loop itself.
Dispatch_Inline ==
  /\ main = "select"
  /\ reqCh # <<>>
  /\ \A r \in Requests : handler[r] \in {"none", "done"}
  /\ handler' = [handler EXCEPT ![Head(reqCh)] = "run"]
  /\ reqCh' = Tail(reqCh)
  /\ UNCHANGED <<ctx, reader, read, sent, respCh, writerVars, mainVars, errVars>>

\* case req, ok := <-reqCh with a request: wg.Add(1) and a new goroutine.
Dispatch ==
  /\ main = "select"
  /\ reqCh # <<>>
  /\ handler' = [handler EXCEPT ![Head(reqCh)] = "run"]
  /\ reqCh' = Tail(reqCh)
  /\ UNCHANGED <<ctx, reader, read, sent, respCh, writerVars, mainVars, errVars>>

\* case <-ctx.Done()
LeaveCanceled ==
  /\ main = "select"
  /\ ctx
  /\ main' = "wait" /\ left' = "canceled"
  /\ UNCHANGED <<ctx, readerVars, handlerVars, writerVars, err, respClosed, errVars>>

\* case err = <-errCh
LeaveFailed ==
  /\ main = "select"
  /\ errCh # <<>>
  /\ err' = Head(errCh) /\ errCh' = Tail(errCh)
  /\ main' = "wait" /\ left' = "failed"
  /\ UNCHANGED <<ctx, readerVars, handlerVars, writerVars, respClosed, failed>>

\* Mutant of LeaveEnded: the channel may still hold requests.
LeaveEnded_Early ==
  /\ main = "select"
  /\ reader = "closed"
  /\ main' = "wait" /\ left' = "ended"
  /\ UNCHANGED <<ctx, readerVars, handlerVars, writerVars, err, respClosed, errVars>>

\* case req, ok := <-reqCh with ok false: closed and drained.
LeaveEnded ==
  /\ main = "select"
  /\ reader = "closed" /\ reqCh = <<>>
  /\ main' = "wait" /\ left' = "ended"
  /\ UNCHANGED <<ctx, readerVars, handlerVars, writerVars, err, respClosed, errVars>>

\* Mutants of CloseResponses: handlers are not waited for; the channel is not
\* closed.
CloseResponses_NoWait ==
  /\ main = "wait"
  /\ respClosed' = TRUE
  /\ main' = "join"
  /\ UNCHANGED <<ctx, readerVars, handlerVars, writerVars, left, err, errVars>>

CloseResponses_LeftOpen ==
  /\ main = "wait"
  /\ \A r \in Requests : handler[r] \in {"none", "done"}
  /\ main' = "join"
  /\ UNCHANGED <<ctx, readerVars, handlerVars, writerVars, left, err, respClosed, errVars>>

\* wg.Wait(), close(respCh)
CloseResponses ==
  /\ main = "wait"
  /\ \A r \in Requests : handler[r] \in {"none", "done"}
  /\ respClosed' = TRUE
  /\ main' = "join"
  /\ UNCHANGED <<ctx, readerVars, handlerVars, writerVars, left, err, errVars>>

\* Mutants of ServeReturn: errors that came in during shutdown are not looked
\* at; the writer is not waited for.
ServeReturn_NoCheck ==
  /\ main = "join"
  /\ writer = "done" /\ writer' = "exited"
  /\ main' = "returned"
  /\ UNCHANGED <<ctx, readerVars, handlerVars, wire, left, err, respClosed, errVars>>

ServeReturn_NoJoin ==
  /\ main = "join"
  /\ main' = "returned"
  /\ UNCHANGED <<ctx, readerVars, handlerVars, writerVars, left, err, respClosed, errVars>>

\* <-done, and the return: the error that ended the loop, or one that came in
\* during shutdown.
ServeReturn ==
  /\ main = "join"
  /\ writer = "done" /\ writer' = "exited"
  /\ main' = "returned"
  /\ IF err = "nil" /\ errCh # <<>>
     THEN err' = Head(errCh) /\ errCh' = Tail(errCh)
     ELSE UNCHANGED <<err, errCh>>
  /\ UNCHANGED <<ctx, readerVars, handlerVars, wire, left, respClosed, failed>>

\* The caller cancels the context, at any time.
Cancel ==
  /\ ~ctx
  /\ ctx' = TRUE
  /\ UNCHANGED <<readerVars, handlerVars, writerVars, mainVars, errVars>>

-----------------------------------------------------------------------------
Reader == (\E r \in Requests : ReadRequest(r)) \/ ReadEnd \/ ReadError \/ ReadFail
Handler(r) == Begin(r) \/ Send(r) \/ Return(r)
Writer == Encode \/ WriteFail \/ WriteEnd
Main == Dispatch \/ LeaveCanceled \/ LeaveFailed \/ LeaveEnded \/ CloseResponses \/ ServeReturn

Next == Reader \/ Writer \/ Main \/ Cancel \/ \E r \in Requests : Handler(r)

Spec == Init /\ [][Next]_vars

\* Goroutines that can run do run; a select whose case stays ready takes it
\* sooner or later; the Launcher reads what is written. Nothing makes the
\* Launcher send or end its stream, nor the caller cancel. A handler returns
\* unless it is a stream whose context is not canceled.
Fairness ==
  /\ WF_vars(ReadFail)
  /\ WF_vars(Writer)
  /\ WF_vars(Main) /\ SF_vars(LeaveCanceled) /\ SF_vars(LeaveFailed) /\ SF_vars(Dispatch)
  /\ \A r \in Requests :
       WF_vars(Send(r)) /\ WF_vars((r \notin Streams \/ ctx) /\ Return(r))

FairSpec == Spec /\ Fairness

-----------------------------------------------------------------------------
(* Safety.                                                                 *)

\* The metrics loop of Runtime sends responses too, to no request.
Response == (Requests \cup {"metrics"}) \X (Nat \ {0})

TypeOK ==
  /\ ctx \in BOOLEAN
  /\ reader \in ReaderAt /\ reqCh \in Seq(Requests) /\ read \subseteq Requests
  /\ Len(reqCh) <= ReqCap
  /\ handler \in [Requests -> HandlerAt] /\ sent \in [Requests -> Nat]
  /\ respCh \in Seq(Response) /\ Len(respCh) <= RespCap
  /\ respClosed \in BOOLEAN
  /\ writer \in WriterAt /\ wire \in Seq(Response)
  /\ errCh \in Seq(Errors) /\ Len(errCh) <= ErrCap /\ failed \subseteq Errors
  /\ main \in MainAt /\ left \in {"no", "canceled", "failed", "ended"}
  /\ err \in {"nil"} \cup Errors

\* No handler goroutine can panic by sending on the closed response channel,
\* however Serve came to leave its loop: after close(respCh) none runs, and
\* none is started.
NoSendOnClosed ==
  respClosed => main # "select" /\ \A r \in Requests : handler[r] \in {"none", "done"}

\* The Launcher sees the responses to one request in the order its handler
\* sent them and none twice, whatever the other handlers send in between.
WireInOrder ==
  \A i, k \in DOMAIN wire : i < k /\ wire[i][1] = wire[k][1] => wire[i][2] < wire[k][2]

\* When Serve returns and the writer met no error, every response any handler
\* sent has been encoded: shutdown drains respCh before it returns.
ResponsesFlushed ==
  main = "returned" /\ "write" \notin failed =>
    \A r \in Requests : \A k \in 1 .. sent[r] : <<r, k>> \in Range(wire)

\* When Serve returns because the request stream ended, every request read
\* from it was handled to the end.
RequestsServed ==
  main = "returned" /\ left = "ended" => \A r \in read : handler[r] = "done"

\* Serve does not return nil after an encoding error, nor after a read error
\* that ended the request stream, even if it left its loop before it saw it.
FailureReported ==
  main = "returned" /\ ("write" \in failed \/ (left = "ended" /\ "read" \in failed)) =>
    err # "nil"

-----------------------------------------------------------------------------
(* Liveness.                                                               *)

\* "The plugin runs until the context is cancelled" (docs/ARCHITECTURE.md:216)
\* and not for ever after that: Serve returns. It does where no response fails
\* to encode, and may not where one does.
CancelStopsServe == ctx ~> main = "returned"

\* A request that was read is handled to the end, or Serve is shutting down:
\* no stream and no slow handler holds up the requests behind it.
RequestsHandled ==
  \A r \in Requests \ Streams : r \in read ~> handler[r] = "done" \/ main # "select"

\* "encoding errors are handled by the protocol layer and will cause the
\* plugin to terminate" (launcher/launcher.go:294).
EncodingErrorTerminates == "write" \in failed ~> main = "returned"

=============================================================================
