---------------------------- MODULE RuntimeProofs ----------------------------
(***************************************************************************)
(* Proofs about Communicator and Runtime for any set of requests, any      *)
(* capacities and any failing responses. First Serve, with handlers that   *)
(* may do anything. Then the same with those of Runtime, although the      *)
(* metrics loop, which Serve does not know of, sends on the response       *)
(* channel too. Last that metrics come after a bootstrap response.         *)
(***************************************************************************)
EXTENDS Runtime, TLAPS

-----------------------------------------------------------------------------
(* Sequences used as Go channels.                                          *)

\* A send on a channel adds one element at its end.
LEMMA AppendFacts ==
  ASSUME NEW S, NEW q \in Seq(S), NEW e \in S
  PROVE  /\ Append(q, e) \in Seq(S)
         /\ Len(Append(q, e)) = Len(q) + 1
         /\ DOMAIN Append(q, e) = 1 .. Len(q) + 1
         /\ DOMAIN q = 1 .. Len(q)
         /\ \A i \in DOMAIN q : Append(q, e)[i] = q[i]
         /\ Append(q, e)[Len(q) + 1] = e
  OBVIOUS

\* A receive from a channel takes its first element.
LEMMA TailFacts ==
  ASSUME NEW S, NEW q \in Seq(S), q # <<>>
  PROVE  /\ Head(q) \in S
         /\ Head(q) = q[1]
         /\ 1 \in DOMAIN q
         /\ Tail(q) \in Seq(S)
         /\ DOMAIN q = 1 .. Len(q)
         /\ DOMAIN Tail(q) = 1 .. Len(q) - 1
         /\ \A i \in DOMAIN Tail(q) : i + 1 \in DOMAIN q /\ Tail(q)[i] = q[i + 1]
  OBVIOUS

\* What a channel holds after a send.
LEMMA AppendRange ==
  ASSUME NEW S, NEW q \in Seq(S), NEW e \in S
  PROVE  Range(Append(q, e)) = Range(q) \cup {e}
<1> DEFINE a == Append(q, e)
<1>1. /\ Len(q) \in Nat
      /\ DOMAIN q = 1 .. Len(q) /\ DOMAIN a = 1 .. Len(q) + 1
      /\ \A i \in DOMAIN q : a[i] = q[i]
      /\ a[Len(q) + 1] = e
  BY AppendFacts
<1> HIDE DEF a
<1>2. /\ \A i \in DOMAIN a : i \in DOMAIN q \/ i = Len(q) + 1
      /\ \A i \in DOMAIN q : i \in DOMAIN a
      /\ Len(q) + 1 \in DOMAIN a
  BY <1>1
<1>3. Range(a) = Range(q) \cup {e}
  BY <1>1, <1>2 DEF Range
<1> QED
  BY <1>3 DEF a

\* What a channel holds before a receive.
LEMMA TailRange ==
  ASSUME NEW S, NEW q \in Seq(S), q # <<>>
  PROVE  Range(q) = {Head(q)} \cup Range(Tail(q))
<1> DEFINE t == Tail(q)
<1>1. /\ Len(q) \in Nat
      /\ Head(q) = q[1] /\ 1 \in DOMAIN q
      /\ DOMAIN q = 1 .. Len(q) /\ DOMAIN t = 1 .. Len(q) - 1
      /\ \A i \in DOMAIN t : i + 1 \in DOMAIN q /\ t[i] = q[i + 1]
  BY TailFacts
<1> HIDE DEF t
<1>2. \A i \in DOMAIN q : i = 1 \/ (i - 1 \in DOMAIN t /\ t[i - 1] = q[i])
  BY <1>1
<1>3. Range(q) \subseteq {Head(q)} \cup Range(t)
  BY <1>1, <1>2 DEF Range
<1>4. {Head(q)} \cup Range(t) \subseteq Range(q)
  BY <1>1 DEF Range
<1> QED
  BY <1>3, <1>4 DEF t

-----------------------------------------------------------------------------
(* Serve.                                                                  *)

\* A step of Serve, by name.
LEMMA StepCases ==
  ASSUME [Next]_vars
  PROVE  \/ \E r \in Requests : ReadRequest(r)
         \/ ReadEnd \/ ReadError \/ ReadFail
         \/ \E r \in Requests : Begin(r)
         \/ \E r \in Requests : Send(r)
         \/ \E r \in Requests : Return(r)
         \/ Encode \/ WriteFail \/ WriteEnd
         \/ Dispatch \/ LeaveCanceled \/ LeaveFailed \/ LeaveEnded
         \/ CloseResponses \/ ServeReturn
         \/ Cancel
         \/ UNCHANGED vars
  BY DEF Next, Reader, Handler, Writer, Main

LEMMA TypeInit == Init => TypeOK
<1> SUFFICES ASSUME Init
             PROVE  TypeOK
  OBVIOUS
<1> USE CommunicatorAssumption DEF Init
<1>1. reqCh \in Seq(Requests) /\ Len(reqCh) <= ReqCap
  OBVIOUS
<1>2. respCh \in Seq(Response) /\ Len(respCh) <= RespCap /\ wire \in Seq(Response)
  OBVIOUS
<1>3. errCh \in Seq(Errors) /\ Len(errCh) <= ErrCap
  BY DEF ErrCap
<1>4. handler \in [Requests -> HandlerAt] /\ sent \in [Requests -> Nat]
  BY DEF HandlerAt
<1> QED
  BY <1>1, <1>2, <1>3, <1>4 DEF TypeOK, ReaderAt, WriterAt, MainAt

LEMMA TypeStep == TypeOK /\ [Next]_vars => TypeOK'
<1> SUFFICES ASSUME TypeOK, [Next]_vars
             PROVE  TypeOK'
  OBVIOUS
<1> USE CommunicatorAssumption DEF TypeOK, readerVars, handlerVars, writerVars, mainVars, errVars
<1>1. ASSUME NEW r \in Requests, ReadRequest(r)
      PROVE  TypeOK'
  <2>1. reqCh' \in Seq(Requests) /\ Len(reqCh') = Len(reqCh) + 1
    BY <1>1, AppendFacts DEF ReadRequest
  <2> QED
    BY <1>1, <2>1 DEF ReadRequest
<1>2. CASE ReadEnd
  BY <1>2 DEF ReadEnd, ReaderAt
<1>3. CASE ReadError
  BY <1>3 DEF ReadError, ReaderAt, Errors
<1>4. CASE WriteEnd
  BY <1>4 DEF WriteEnd, WriterAt
<1>5. CASE LeaveCanceled \/ LeaveEnded
  BY <1>5 DEF LeaveCanceled, LeaveEnded, MainAt
<1>6. CASE CloseResponses
  BY <1>6 DEF CloseResponses, MainAt
<1>7. CASE Cancel
  BY <1>7 DEF Cancel
<1>8. CASE ReadFail \/ WriteFail
  <2>1. errCh' \in Seq(Errors) /\ Len(errCh') = Len(errCh) + 1
    <3>1. "read" \in Errors /\ "write" \in Errors
      BY DEF Errors
    <3>2. \A e \in Errors : /\ Append(errCh, e) \in Seq(Errors)
                            /\ Len(Append(errCh, e)) = Len(errCh) + 1
      BY AppendFacts
    <3> QED
      BY <1>8, <3>1, <3>2 DEF ReadFail, WriteFail
  <2> QED
    BY <1>8, <2>1 DEF ReadFail, WriteFail, ErrCap, ReaderAt, WriterAt
<1>9. ASSUME NEW r \in Requests, Begin(r) \/ Return(r)
      PROVE  TypeOK'
  BY <1>9 DEF Begin, Return, HandlerAt
<1>10. ASSUME NEW r \in Requests, Send(r)
      PROVE  TypeOK'
  <2>1. <<r, sent[r] + 1>> \in Response
    BY DEF Response
  <2>2. respCh' \in Seq(Response) /\ Len(respCh') = Len(respCh) + 1
    BY <1>10, <2>1, AppendFacts DEF Send
  <2> QED
    BY <1>10, <2>2 DEF Send, HandlerAt
<1>11. CASE Encode
  <2>1. Head(respCh) \in Response /\ respCh' \in Seq(Response) /\ Len(respCh') <= RespCap
    BY <1>11, TailFacts DEF Encode
  <2>2. wire' \in Seq(Response)
    <3>1. Append(wire, Head(respCh)) \in Seq(Response)
      BY <2>1, AppendFacts
    <3> QED
      BY <1>11, <3>1 DEF Encode
  <2> QED
    BY <1>11, <2>1, <2>2 DEF Encode, WriterAt, Errors
<1>12. CASE Dispatch
  <2>1. Head(reqCh) \in Requests /\ reqCh' \in Seq(Requests) /\ Len(reqCh') <= ReqCap
    BY <1>12, TailFacts DEF Dispatch
  <2> QED
    BY <1>12, <2>1 DEF Dispatch, HandlerAt
<1>13. CASE LeaveFailed \/ ServeReturn
  <2>1. errCh # <<>> => Head(errCh) \in Errors /\ Tail(errCh) \in Seq(Errors) /\ Len(Tail(errCh)) <= ErrCap
    BY TailFacts DEF ErrCap
  <2> QED
    BY <1>13, <2>1 DEF LeaveFailed, ServeReturn, WriterAt, MainAt
<1>14. CASE UNCHANGED vars
  BY <1>14 DEF vars
<1> QED
  BY <1>1, <1>2, <1>3, <1>4, <1>5, <1>6, <1>7, <1>8, <1>9, <1>10, <1>11, <1>12, <1>13,
     <1>14, StepCases

\* Every variable of Serve keeps its type and no channel exceeds its capacity.
THEOREM TypeCorrect == Spec => []TypeOK
  BY TypeInit, TypeStep, PTL DEF Spec

-----------------------------------------------------------------------------
(* Shutdown.                                                               *)

\* respCh is closed, and no handler is left or can be started, exactly from
\* close(respCh) on; Serve returns once it has joined the writer.
Closing ==
  /\ respClosed <=> main \in {"join", "returned"}
  /\ respClosed => \A r \in Requests : handler[r] \in {"none", "done"}
  /\ main = "returned" <=> writer = "exited"
  /\ main = "select" => left = "no" /\ err = "nil"

\* A request read is queued or has its goroutine, and Serve takes the stream
\* for ended only when nothing is queued.
Served ==
  /\ \A r \in read : r \in Range(reqCh) \/ handler[r] # "none"
  /\ left = "ended" => reader = "closed" /\ reqCh = <<>>

\* An error that occurred is about to be sent, is in errCh, or was taken.
Reported ==
  /\ writer = "fail" => "write" \in failed
  /\ "write" \in failed => writer = "fail" \/ errCh # <<>> \/ err # "nil"
  /\ "read" \in failed => reader = "fail" \/ errCh # <<>> \/ err # "nil"
  /\ FailureReported

\* While the writer met no error, every response is written or in respCh, and
\* the writer stops only with respCh closed and drained.
Flushed ==
  "write" \notin failed =>
    /\ \A r \in Requests : \A k \in 1 .. sent[r] : <<r, k>> \in Range(wire) \cup Range(respCh)
    /\ writer \in {"done", "exited"} => respCh = <<>> /\ respClosed

ShutdownInv == TypeOK /\ Closing /\ Served /\ Reported /\ Flushed

LEMMA ShutdownInit == Init => ShutdownInv
<1> SUFFICES ASSUME Init
             PROVE  ShutdownInv
  OBVIOUS
<1>1. Closing /\ Served /\ Reported
  BY DEF Init, Closing, Served, Reported, FailureReported
<1>2. Flushed
  BY DEF Init, Flushed
<1> QED
  BY <1>1, <1>2, TypeInit DEF ShutdownInv

LEMMA ClosingStep == TypeOK /\ Closing /\ [Next]_vars => Closing'
<1> SUFFICES ASSUME TypeOK, Closing, [Next]_vars
             PROVE  Closing'
  OBVIOUS
<1> USE DEF Closing, readerVars, handlerVars, writerVars, mainVars, errVars
<1>1. ASSUME NEW r \in Requests, ReadRequest(r)
      PROVE  Closing'
  BY <1>1 DEF ReadRequest
<1>2. CASE ReadEnd \/ ReadError \/ ReadFail \/ Cancel
  BY <1>2 DEF ReadEnd, ReadError, ReadFail, Cancel
<1>3. ASSUME NEW r \in Requests, Begin(r) \/ Send(r) \/ Return(r)
      PROVE  Closing'
  BY <1>3 DEF Begin, Send, Return, TypeOK
<1>4. CASE Encode \/ WriteFail \/ WriteEnd
  BY <1>4 DEF Encode, WriteFail, WriteEnd
<1>5. CASE Dispatch
  BY <1>5 DEF Dispatch
<1>6. CASE LeaveCanceled \/ LeaveEnded
  BY <1>6 DEF LeaveCanceled, LeaveEnded
<1>7. CASE LeaveFailed
  BY <1>7 DEF LeaveFailed
<1>8. CASE CloseResponses
  BY <1>8 DEF CloseResponses
<1>9. CASE ServeReturn
  BY <1>9 DEF ServeReturn
<1>10. CASE UNCHANGED vars
  BY <1>10 DEF vars
<1> QED
  BY <1>1, <1>2, <1>3, <1>4, <1>5, <1>6, <1>7, <1>8, <1>9, <1>10, StepCases

LEMMA ServedStep == TypeOK /\ Closing /\ Served /\ [Next]_vars => Served'
<1> SUFFICES ASSUME TypeOK, Closing, Served, [Next]_vars
             PROVE  Served'
  OBVIOUS
<1> USE DEF Served, readerVars, handlerVars, writerVars, mainVars, errVars
<1>1. ASSUME NEW r \in Requests, ReadRequest(r)
      PROVE  Served'
  <2>1. Range(reqCh') = Range(reqCh) \cup {r}
    BY <1>1, AppendRange DEF ReadRequest, TypeOK
  <2> QED
    BY <1>1, <2>1 DEF ReadRequest
<1>2. CASE ReadEnd \/ ReadError \/ ReadFail \/ Cancel
  BY <1>2 DEF ReadEnd, ReadError, ReadFail, Cancel
<1>3. ASSUME NEW r \in Requests, Begin(r) \/ Send(r) \/ Return(r)
      PROVE  Served'
  BY <1>3 DEF Begin, Send, Return, TypeOK
<1>4. CASE Encode \/ WriteFail \/ WriteEnd
  BY <1>4 DEF Encode, WriteFail, WriteEnd
<1>5. CASE Dispatch
  <2>1. Range(reqCh) = {Head(reqCh)} \cup Range(reqCh') /\ Head(reqCh) \in Requests
    BY <1>5, TailRange, TailFacts DEF Dispatch, TypeOK
  <2> QED
    BY <1>5, <2>1 DEF Dispatch, Closing, TypeOK
<1>6. CASE LeaveCanceled \/ LeaveEnded \/ LeaveFailed \/ CloseResponses \/ ServeReturn
  BY <1>6 DEF LeaveCanceled, LeaveEnded, LeaveFailed, CloseResponses, ServeReturn
<1>7. CASE UNCHANGED vars
  BY <1>7 DEF vars
<1> QED
  BY <1>1, <1>2, <1>3, <1>4, <1>5, <1>6, <1>7, StepCases

LEMMA ReportedStep == TypeOK /\ Closing /\ Served /\ Reported /\ [Next]_vars => Reported'
<1> SUFFICES ASSUME TypeOK, Closing, Served, Reported, [Next]_vars
             PROVE  Reported'
  OBVIOUS
<1> USE DEF Reported, FailureReported, readerVars, handlerVars, writerVars, mainVars, errVars
<1>1. ASSUME NEW r \in Requests, ReadRequest(r) \/ Begin(r) \/ Send(r) \/ Return(r)
      PROVE  Reported'
  BY <1>1 DEF ReadRequest, Begin, Send, Return
<1>2. CASE ReadEnd \/ Dispatch \/ Cancel
  BY <1>2 DEF ReadEnd, Dispatch, Cancel
<1>3. CASE ReadError
  BY <1>3 DEF ReadError, Served
<1>4. CASE ReadFail \/ WriteFail
  <2>1. errCh' # <<>>
    BY <1>4, AppendFacts DEF ReadFail, WriteFail, TypeOK, Errors
  <2> QED
    BY <1>4, <2>1 DEF ReadFail, WriteFail
<1>5. CASE Encode
  BY <1>5 DEF Encode, Closing
<1>6. CASE WriteEnd
  BY <1>6 DEF WriteEnd
<1>7. CASE LeaveCanceled \/ LeaveEnded \/ CloseResponses
  BY <1>7 DEF LeaveCanceled, LeaveEnded, CloseResponses, Closing
<1>8. CASE LeaveFailed \/ ServeReturn
  <2>1. errCh # <<>> => Head(errCh) # "nil"
    <3>1. errCh # <<>> => Head(errCh) \in Errors
      BY TailFacts DEF TypeOK
    <3> QED
      BY <3>1 DEF Errors
  <2> QED
    BY <1>8, <2>1 DEF LeaveFailed, ServeReturn, Served
<1>9. CASE UNCHANGED vars
  BY <1>9 DEF vars
<1> QED
  BY <1>1, <1>2, <1>3, <1>4, <1>5, <1>6, <1>7, <1>8, <1>9, StepCases

LEMMA FlushedStep == TypeOK /\ Closing /\ Reported /\ Flushed /\ [Next]_vars => Flushed'
<1> SUFFICES ASSUME TypeOK, Closing, Reported, Flushed, [Next]_vars
             PROVE  Flushed'
  OBVIOUS
<1> USE DEF Flushed, readerVars, handlerVars, writerVars, mainVars, errVars
<1>1. ASSUME NEW r \in Requests, ReadRequest(r) \/ Begin(r) \/ Return(r)
      PROVE  Flushed'
  BY <1>1 DEF ReadRequest, Begin, Return
<1>2. CASE ReadEnd \/ ReadFail \/ Dispatch \/ Cancel
  BY <1>2 DEF ReadEnd, ReadFail, Dispatch, Cancel
<1>3. CASE ReadError
  BY <1>3 DEF ReadError
<1>4. ASSUME NEW r \in Requests, Send(r)
      PROVE  Flushed'
  <2>1. Range(respCh') = Range(respCh) \cup {<<r, sent[r] + 1>>}
    <3>1. <<r, sent[r] + 1>> \in Response /\ respCh \in Seq(Response)
      BY DEF TypeOK, Response
    <3> QED
      BY <1>4, <3>1, AppendRange DEF Send
  <2>2. \A q \in Requests : \A k \in 1 .. sent'[q] : k \in 1 .. sent[q] \/ (q = r /\ k = sent[r] + 1)
    BY <1>4 DEF Send, TypeOK
  <2>3. ~respClosed
    BY <1>4 DEF Send, Closing
  <2>4. "write" \notin failed => writer \notin {"done", "exited"}
    BY <2>3
  <2>5. "write" \notin failed' =>
          \A q \in Requests : \A k \in 1 .. sent'[q] : <<q, k>> \in Range(wire') \cup Range(respCh')
    BY <1>4, <2>1, <2>2 DEF Send
  <2> QED
    BY <1>4, <2>4, <2>5 DEF Send
<1>5. CASE Encode
  <2>1. Range(respCh) = {Head(respCh)} \cup Range(respCh') /\ Head(respCh) \in Response
    BY <1>5, TailRange, TailFacts DEF Encode, TypeOK
  <2>2. "write" \notin failed' => wire' = Append(wire, Head(respCh)) /\ UNCHANGED <<writer, failed, sent>>
    BY <1>5 DEF Encode
  <2>3. Range(Append(wire, Head(respCh))) = Range(wire) \cup {Head(respCh)}
    BY <2>1, AppendRange DEF TypeOK
  <2>4. writer = "range"
    BY <1>5 DEF Encode
  <2> QED
    BY <2>1, <2>2, <2>3, <2>4
<1>6. CASE WriteFail
  BY <1>6 DEF WriteFail, Reported
<1>7. CASE WriteEnd
  BY <1>7 DEF WriteEnd
<1>8. CASE LeaveCanceled \/ LeaveEnded \/ LeaveFailed \/ CloseResponses
  BY <1>8 DEF LeaveCanceled, LeaveEnded, LeaveFailed, CloseResponses
<1>9. CASE ServeReturn
  BY <1>9 DEF ServeReturn
<1>10. CASE UNCHANGED vars
  BY <1>10 DEF vars
<1> QED
  BY <1>1, <1>2, <1>3, <1>4, <1>5, <1>6, <1>7, <1>8, <1>9, <1>10, StepCases

LEMMA ShutdownStep == ShutdownInv /\ [Next]_vars => ShutdownInv'
  BY TypeStep, ClosingStep, ServedStep, ReportedStep, FlushedStep DEF ShutdownInv

LEMMA Shutdown == Spec => []ShutdownInv
  BY ShutdownInit, ShutdownStep, PTL DEF Spec

LEMMA ShutdownGives ==
  ASSUME ShutdownInv
  PROVE  NoSendOnClosed /\ RequestsServed /\ FailureReported /\ ResponsesFlushed
<1> USE DEF ShutdownInv
<1>1. Range(<<>>) = {}
  BY DEF Range
<1>2. NoSendOnClosed
  BY DEF Closing, NoSendOnClosed
<1>3. RequestsServed
  BY <1>1 DEF TypeOK, Closing, Served, RequestsServed
<1>4. FailureReported
  BY DEF Reported
<1>5. ResponsesFlushed
  BY <1>1 DEF Closing, Flushed, ResponsesFlushed
<1> QED
  BY <1>2, <1>3, <1>4, <1>5

\* A handler goroutine never sends on the closed response channel: Serve closes
\* it after wg.Wait() and starts none after it left its loop.
THEOREM SafeClose == Spec => []NoSendOnClosed
  BY ShutdownGives, Shutdown, PTL

\* A stream that ended had all its requests handled when Serve returns.
THEOREM AllServed == Spec => []RequestsServed
  BY ShutdownGives, Shutdown, PTL

\* Serve does not return nil over an error it has to report.
THEOREM AllReported == Spec => []FailureReported
  BY ShutdownGives, Shutdown, PTL

\* Shutdown drains the response channel before Serve returns.
THEOREM AllFlushed == Spec => []ResponsesFlushed
  BY ShutdownGives, Shutdown, PTL

-----------------------------------------------------------------------------
(* Order.                                                                  *)

\* The responses in q to one request are in the order their handler sent them.
Ordered(q) == \A i, k \in DOMAIN q : i < k /\ q[i][1] = q[k][1] => q[i][2] < q[k][2]

\* Written, then queued, then not yet sent.
OrderInv ==
  /\ TypeOK
  /\ Ordered(wire) /\ Ordered(respCh)
  /\ \A w \in Range(wire), c \in Range(respCh) : w[1] = c[1] => w[2] < c[2]
  /\ \A e \in Range(wire) \cup Range(respCh) : e[1] \in Requests /\ e[2] <= sent[e[1]]

LEMMA AppendOrdered ==
  ASSUME NEW q \in Seq(Response), NEW e \in Response, Ordered(q),
         \A x \in Range(q) : x[1] = e[1] => x[2] < e[2]
  PROVE  Ordered(Append(q, e))
<1> DEFINE a == Append(q, e)
<1>1. /\ Len(q) \in Nat
      /\ DOMAIN q = 1 .. Len(q) /\ DOMAIN a = 1 .. Len(q) + 1
      /\ \A i \in DOMAIN q : a[i] = q[i]
      /\ a[Len(q) + 1] = e
  BY AppendFacts
<1> HIDE DEF a
<1>2. \A i \in DOMAIN q : q[i] \in Range(q)
  BY DEF Range
<1>3. ASSUME NEW i \in DOMAIN a, NEW k \in DOMAIN a, i < k, a[i][1] = a[k][1]
      PROVE  a[i][2] < a[k][2]
  <2>1. i \in DOMAIN q
    BY <1>1, <1>3
  <2>2. CASE k \in DOMAIN q
    BY <1>1, <1>3, <2>1, <2>2 DEF Ordered
  <2>3. CASE k = Len(q) + 1
    BY <1>1, <1>2, <1>3, <2>1, <2>3
  <2> QED
    BY <1>1, <2>2, <2>3
<1> QED
  BY <1>3 DEF Ordered, a

LEMMA TailOrdered ==
  ASSUME NEW q \in Seq(Response), q # <<>>, Ordered(q)
  PROVE  /\ Ordered(Tail(q))
         /\ \A x \in Range(Tail(q)) : x[1] = Head(q)[1] => Head(q)[2] < x[2]
<1> DEFINE t == Tail(q)
<1>1. /\ Len(q) \in Nat
      /\ Head(q) = q[1] /\ 1 \in DOMAIN q
      /\ DOMAIN q = 1 .. Len(q) /\ DOMAIN t = 1 .. Len(q) - 1
      /\ \A i \in DOMAIN t : i + 1 \in DOMAIN q /\ t[i] = q[i + 1]
  BY TailFacts
<1> HIDE DEF t
<1>2. Ordered(t)
  BY <1>1 DEF Ordered
<1>3. \A i \in DOMAIN t : q[i + 1][1] = q[1][1] => q[1][2] < q[i + 1][2]
  BY <1>1 DEF Ordered
<1>4. \A x \in Range(t) : x[1] = Head(q)[1] => Head(q)[2] < x[2]
  BY <1>1, <1>3 DEF Range
<1> QED
  BY <1>2, <1>4 DEF t

LEMMA OrderInit == Init => OrderInv
<1> SUFFICES ASSUME Init
             PROVE  OrderInv
  OBVIOUS
<1>1. Range(<<>>) = {} /\ Ordered(<<>>)
  BY DEF Range, Ordered
<1> QED
  BY <1>1, TypeInit DEF Init, OrderInv

LEMMA OrderStep == OrderInv /\ [Next]_vars => OrderInv'
<1> SUFFICES ASSUME OrderInv, [Next]_vars
             PROVE  OrderInv'
  OBVIOUS
<1> USE DEF OrderInv
<1>1. TypeOK'
  BY TypeStep
<1>2. ASSUME NEW r \in Requests, Send(r)
      PROVE  OrderInv'
  <2> DEFINE e == <<r, sent[r] + 1>>
  <2>1. sent[r] \in Nat /\ e \in Response
    BY DEF TypeOK, Response
  <2>2. respCh' = Append(respCh, e) /\ wire' = wire /\ sent' = [sent EXCEPT ![r] = @ + 1]
    BY <1>2 DEF Send, writerVars
  <2>3. e[1] = r /\ e[2] = sent[r] + 1
    OBVIOUS
  <2> HIDE DEF e
  <2>4. Range(respCh') = Range(respCh) \cup {e}
    BY <2>1, <2>2, AppendRange DEF TypeOK
  <2>5. \A x \in Range(wire) \cup Range(respCh) : x[1] \in Requests /\ x[2] \in Nat /\ sent[x[1]] \in Nat
    <3>1. \A x \in Range(wire) \cup Range(respCh) : x \in Response
      BY DEF TypeOK, Range
    <3>2. \A x \in Response : x[2] \in Nat
      BY DEF Response
    <3> QED
      BY <3>1, <3>2 DEF TypeOK
  <2>6. \A q \in Requests : sent[q] \in Nat /\ sent'[q] \in Nat /\ sent[q] <= sent'[q]
    BY <2>2 DEF TypeOK
  <2>7. \A x \in Range(wire) \cup Range(respCh) : x[1] = e[1] => x[2] < e[2]
    BY <2>1, <2>3, <2>5
  <2>8. Ordered(respCh')
    BY <2>1, <2>2, <2>7, AppendOrdered DEF TypeOK
  <2>9. e[1] \in Requests /\ e[2] <= sent'[e[1]]
    BY <2>1, <2>2, <2>3 DEF TypeOK
  <2>10. \A x \in Range(wire) \cup Range(respCh) : x[2] <= sent'[x[1]]
    BY <2>5, <2>6
  <2> QED
    BY <1>1, <2>2, <2>4, <2>5, <2>7, <2>8, <2>9, <2>10
<1>3. CASE Encode
  <2>1. /\ Range(respCh) = {Head(respCh)} \cup Range(respCh') /\ Head(respCh) \in Response
        /\ respCh' = Tail(respCh)
    BY <1>3, TailRange, TailFacts DEF Encode, TypeOK
  <2>2. /\ Ordered(respCh')
        /\ \A x \in Range(respCh') : x[1] = Head(respCh)[1] => Head(respCh)[2] < x[2]
    BY <1>3, TailOrdered DEF Encode, TypeOK
  <2>3. sent' = sent
    BY <1>3 DEF Encode
  <2>4. CASE wire' = wire
    BY <1>1, <2>1, <2>2, <2>3, <2>4
  <2>5. CASE wire' = Append(wire, Head(respCh))
    <3>1. Range(wire') = Range(wire) \cup {Head(respCh)}
      BY <2>1, <2>5, AppendRange DEF TypeOK
    <3>2. Ordered(wire')
      BY <2>1, <2>5, AppendOrdered DEF TypeOK
    <3> QED
      BY <1>1, <2>1, <2>2, <2>3, <3>1, <3>2
  <2> QED
    BY <1>3, <2>4, <2>5 DEF Encode
<1>4. CASE UNCHANGED <<sent, respCh, wire>>
  BY <1>1, <1>4
<1>5. (\A r \in Requests : ~Send(r)) /\ ~Encode => UNCHANGED <<sent, respCh, wire>>
  BY StepCases
     DEF ReadRequest, ReadEnd, ReadError, ReadFail, Begin, Return, WriteFail, WriteEnd, Dispatch,
         LeaveCanceled, LeaveFailed, LeaveEnded, CloseResponses, ServeReturn, Cancel, vars,
         handlerVars, writerVars
<1> QED
  BY <1>2, <1>3, <1>4, <1>5

\* Responses to one request reach the Launcher in order and once, for any
\* number of handlers and any channel capacity.
THEOREM WireOrder == Spec => []WireInOrder
<1>1. OrderInv => WireInOrder
  BY DEF OrderInv, Ordered, WireInOrder
<1> QED
  BY <1>1, OrderInit, OrderStep, PTL DEF Spec

-----------------------------------------------------------------------------
(* Serve with the handlers of Runtime.                                     *)

\* A step of the runtime is one of Serve, or changes nothing of it, or it is a
\* tick of the metrics loop.
LEMMA RtStepCases ==
  ASSUME [RtNext]_rtVars
  PROVE  [Next]_vars \/ Tick
<1>1. CASE ServeStep
  BY <1>1 DEF ServeStep, Next, Reader
<1>2. ASSUME NEW r \in Requests, HandlerStep(r)
      PROVE  [Next]_vars
  <2>1. CASE EnterCancel(r)
    BY <2>1 DEF EnterCancel, Next, Handler
  <2>2. CASE Enter(r)
    BY <2>2 DEF Enter
  <2>3. CASE Write(r)
    BY <2>3 DEF Write, Next, Handler
  <2>4. CASE SendResponse(r)
    BY <2>4 DEF SendResponse, Next, Handler
  <2>5. CASE MethodReturns(r)
    BY <2>5 DEF MethodReturns
  <2>6. CASE Finish(r)
    BY <2>6 DEF Finish, Next, Handler
  <2> QED
    BY <1>2, <2>1, <2>2, <2>3, <2>4, <2>5, <2>6 DEF HandlerStep
<1>3. CASE TickStop
  BY <1>3 DEF TickStop
<1>4. CASE UNCHANGED rtVars
  BY <1>4 DEF rtVars
<1> QED
  BY <1>1, <1>2, <1>3, <1>4 DEF RtNext

\* A tick adds a response to the channel, unless it is full or closed.
LEMMA TickFacts ==
  ASSUME TypeOK, ticks \in Nat, Tick
  PROVE  /\ UNCHANGED <<ctx, readerVars, handler, sent, writerVars, mainVars, errVars>>
         /\ ticks' \in Nat
         /\ respCh' \in Seq(Response) /\ Len(respCh') <= RespCap
         /\ \/ respCh' = respCh
            \/ /\ ~respClosed /\ respCh' = Append(respCh, <<"metrics", ticks + 1>>)
               /\ Range(respCh') = Range(respCh) \cup {<<"metrics", ticks + 1>>}
<1>1. <<"metrics", ticks + 1>> \in Response
  BY DEF Response
<1>2. respCh \in Seq(Response) /\ Len(respCh) \in Nat /\ RespCap \in Nat
  BY CommunicatorAssumption DEF TypeOK
<1>3. CASE respCh' = respCh
  BY <1>3 DEF Tick, TypeOK
<1>4. CASE ~respClosed /\ Len(respCh) < RespCap /\ respCh' = Append(respCh, <<"metrics", ticks + 1>>)
  <2>1. respCh' \in Seq(Response) /\ Len(respCh') = Len(respCh) + 1
    BY <1>1, <1>2, <1>4, AppendFacts
  <2>2. Range(respCh') = Range(respCh) \cup {<<"metrics", ticks + 1>>}
    BY <1>1, <1>2, <1>4, AppendRange
  <2>3. Len(respCh') <= RespCap
    BY <1>2, <1>4, <2>1
  <2>4. ticks' \in Nat /\ UNCHANGED <<ctx, readerVars, handler, sent, writerVars, mainVars, errVars>>
    BY DEF Tick
  <2> QED
    BY <1>4, <2>1, <2>2, <2>3, <2>4
<1> QED
  BY <1>3, <1>4 DEF Tick

LEMMA TickShutdown ==
  ASSUME ShutdownInv, ticks \in Nat, Tick
  PROVE  ShutdownInv'
<1> USE DEF ShutdownInv, readerVars, writerVars, mainVars, errVars
<1>1. TypeOK'
  BY TickFacts DEF TypeOK
<1>2. Closing' /\ Served' /\ Reported'
  BY TickFacts DEF Closing, Served, Reported, FailureReported
<1>3. Flushed'
  BY TickFacts DEF Flushed
<1> QED
  BY <1>1, <1>2, <1>3

RtShutdownInv == ShutdownInv /\ ticks \in Nat

LEMMA RtShutdown == RtSpec => []RtShutdownInv
<1>1. RtInit => RtShutdownInv
  BY ShutdownInit DEF RtInit, RtShutdownInv
<1>2. RtShutdownInv /\ [RtNext]_rtVars => RtShutdownInv'
  <2> SUFFICES ASSUME RtShutdownInv, [RtNext]_rtVars
               PROVE  RtShutdownInv'
    OBVIOUS
  <2>1. ticks' \in Nat
    <3>1. ASSUME NEW r \in Requests, HandlerStep(r)
          PROVE  ticks' = ticks
      BY <3>1 DEF HandlerStep, EnterCancel, Enter, Write, SendResponse, MethodReturns, Finish, metricsVars
    <3>2. ServeStep \/ TickStop \/ UNCHANGED rtVars => ticks' = ticks
      BY DEF ServeStep, TickStop, rtVars, metricsVars
    <3>3. Tick => ticks' = ticks + 1
      BY DEF Tick
    <3> QED
      BY <3>1, <3>2, <3>3 DEF RtNext, RtShutdownInv
  <2>2. ShutdownInv'
    BY RtStepCases, ShutdownStep, TickShutdown DEF RtShutdownInv
  <2> QED
    BY <2>1, <2>2 DEF RtShutdownInv
<1> QED
  BY <1>1, <1>2, PTL DEF RtSpec

\* With the handlers of Runtime: none of them sends on the closed response
\* channel (the metrics loop may, which nothing waits for).
THEOREM RtSafeClose == RtSpec => []NoSendOnClosed
  BY ShutdownGives, RtShutdown, PTL DEF RtShutdownInv

\* With the handlers of Runtime: a stream of requests that ended had them all
\* handled when Serve returns.
THEOREM RtAllServed == RtSpec => []RequestsServed
  BY ShutdownGives, RtShutdown, PTL DEF RtShutdownInv

\* With the handlers of Runtime: Serve does not return nil over an error.
THEOREM RtAllReported == RtSpec => []FailureReported
  BY ShutdownGives, RtShutdown, PTL DEF RtShutdownInv

\* With the handlers of Runtime: shutdown drains the response channel, with the
\* metrics responses in between, before Serve returns.
THEOREM RtAllFlushed == RtSpec => []ResponsesFlushed
  BY ShutdownGives, RtShutdown, PTL DEF RtShutdownInv

-----------------------------------------------------------------------------
(* The bootstrap response and the metrics loop.                            *)

\* The handler of r has called Bootstrap, and it returned.
Boots(r) == r \in Requests /\ Kind(r) = "bootstrap" /\ r \in booted

\* A request is queued once, and its handler runs afterwards.
Once ==
  /\ \A r \in Requests \ read : handler[r] = "none"
  /\ \A i, k \in DOMAIN reqCh : reqCh[i] = reqCh[k] => i = k
  /\ \A r \in Range(reqCh) : r \in read /\ handler[r] = "none"

\* The runtime replies to a bootstrap request after Bootstrap returned, and the
\* metrics loop is started after the reply was sent.
Replied ==
  /\ stage \in [Requests -> {"new", "plugin", "reply", "replied"}] /\ loops \in Nat /\ stopped \in Nat
  /\ \A r \in Requests : handler[r] = "none" => stage[r] = "new"
  /\ \A r \in Requests : Kind(r) = "bootstrap" /\ stage[r] \in {"reply", "replied"} => r \in booted
  /\ \A r \in Requests : stage[r] = "replied" => handler[r] = "send" \/ sent[r] > 0
  /\ loops > 0 => \E r \in Requests : Boots(r) /\ sent[r] > 0

\* A response to a bootstrap request precedes place i of q or is written.
Heralds(q, i) == (\E k \in DOMAIN wire : Boots(wire[k][1])) \/ (\E k \in 1 .. i - 1 : Boots(q[k][1]))

\* While the writer goes on, each metrics response in the channel has one that
\* will be written, or was, before it.
Heralded ==
  /\ MetricsAfterBootstrap
  /\ writer = "range" =>
       /\ "write" \notin failed
       /\ \A i \in DOMAIN respCh : respCh[i][1] = "metrics" => Heralds(respCh, i)

BootInv == RtShutdownInv /\ Once /\ Replied /\ Heralded

LEMMA BootInit == RtInit => BootInv
<1> SUFFICES ASSUME RtInit
             PROVE  BootInv
  OBVIOUS
<1>1. RtShutdownInv
  BY ShutdownInit DEF RtInit, RtShutdownInv
<1>2. Range(<<>>) = {} /\ DOMAIN <<>> = {}
  BY DEF Range
<1>3. Once /\ Replied
  BY <1>2 DEF RtInit, Init, Once, Replied
<1>4. Heralded
  BY <1>2 DEF RtInit, Init, Heralded, MetricsAfterBootstrap
<1> QED
  BY <1>1, <1>3, <1>4 DEF BootInv

LEMMA OnceStep ==
  ASSUME TypeOK, Once, [Next]_vars
  PROVE  Once'
<1> USE DEF readerVars, handlerVars, writerVars, mainVars, errVars
<1>1. ASSUME NEW r \in Requests, ReadRequest(r)
      PROVE  Once'
  <2>1. /\ Len(reqCh) \in Nat /\ DOMAIN reqCh = 1 .. Len(reqCh) /\ DOMAIN reqCh' = 1 .. Len(reqCh) + 1
        /\ \A i \in DOMAIN reqCh : reqCh'[i] = reqCh[i]
        /\ reqCh'[Len(reqCh) + 1] = r
    <3>1. reqCh \in Seq(Requests) /\ Len(reqCh) \in Nat /\ reqCh' = Append(reqCh, r)
      BY <1>1 DEF ReadRequest, TypeOK
    <3> QED
      BY <3>1, AppendFacts
  <2>2. \A i \in DOMAIN reqCh : reqCh[i] \in Range(reqCh)
    BY DEF Range
  <2>3. \A i \in DOMAIN reqCh : reqCh[i] # r
    BY <1>1, <2>2 DEF Once, ReadRequest
  <2>4. \A i, k \in DOMAIN reqCh' : reqCh'[i] = reqCh'[k] => i = k
    BY <2>1, <2>3 DEF Once
  <2>5. Range(reqCh') = Range(reqCh) \cup {r}
    BY <1>1, AppendRange DEF ReadRequest, TypeOK
  <2> QED
    BY <1>1, <2>4, <2>5 DEF ReadRequest, Once
<1>2. CASE Dispatch
  <2> DEFINE h == Head(reqCh)
  <2>1. /\ Len(reqCh) \in Nat /\ h = reqCh[1] /\ 1 \in DOMAIN reqCh /\ h \in Requests
        /\ DOMAIN reqCh = 1 .. Len(reqCh) /\ DOMAIN reqCh' = 1 .. Len(reqCh) - 1
        /\ \A i \in DOMAIN reqCh' : i + 1 \in DOMAIN reqCh /\ reqCh'[i] = reqCh[i + 1]
    BY <1>2, TailFacts DEF Dispatch, TypeOK
  <2>2. handler' = [handler EXCEPT ![h] = "run"] /\ read' = read
    BY <1>2 DEF Dispatch
  <2> HIDE DEF h
  <2>3. \A i, k \in DOMAIN reqCh' : reqCh'[i] = reqCh'[k] => i = k
    BY <2>1 DEF Once
  <2>4. \A i \in DOMAIN reqCh' : reqCh[i + 1] # h
    BY <2>1 DEF Once
  <2>5. \A i \in DOMAIN reqCh : reqCh[i] \in Range(reqCh)
    BY DEF Range
  <2>6. h \in read /\ \A r \in Range(reqCh') : r \in Range(reqCh) /\ r # h
    BY <2>1, <2>4, <2>5 DEF Range, Once
  <2> QED
    BY <2>2, <2>3, <2>6 DEF Once, TypeOK
<1>3. ASSUME NEW r \in Requests, Begin(r) \/ Send(r) \/ Return(r)
      PROVE  Once'
  <2>1. handler[r] # "none" /\ UNCHANGED <<reqCh, read>> /\ \A q \in Requests : q # r => handler'[q] = handler[q]
    BY <1>3 DEF Begin, Send, Return, TypeOK
  <2>2. \A q \in Range(reqCh) : q \in Requests
    <3>1. reqCh \in Seq(Requests)
      BY DEF TypeOK
    <3>2. \A i \in DOMAIN reqCh : reqCh[i] \in Requests
      BY <3>1
    <3> QED
      BY <3>2 DEF Range
  <2> QED
    BY <2>1, <2>2 DEF Once
<1>4. CASE UNCHANGED <<reqCh, read, handler>>
  BY <1>4 DEF Once
<1>5. ReadEnd \/ ReadError \/ ReadFail \/ Writer \/ LeaveCanceled \/ LeaveFailed \/ LeaveEnded
        \/ CloseResponses \/ ServeReturn \/ Cancel \/ UNCHANGED vars
        => UNCHANGED <<reqCh, read, handler>>
  BY DEF ReadEnd, ReadError, ReadFail, Writer, Encode, WriteFail, WriteEnd, LeaveCanceled, LeaveFailed,
     LeaveEnded, CloseResponses, ServeReturn, Cancel, vars
<1> QED
  BY <1>1, <1>2, <1>3, <1>4, <1>5, StepCases DEF Writer

\* What a step of Serve leaves alone unless it sends or encodes.
LEMMA WriterFacts ==
  ASSUME [Next]_vars
  PROVE  /\ writer' = "range" => writer = "range"
         /\ writer' = "range" /\ "write" \in failed' => "write" \in failed
         /\ (\A r \in Requests : ~Send(r)) /\ ~Encode => UNCHANGED <<sent, respCh, wire>>
<1> USE DEF readerVars, handlerVars, writerVars, mainVars, errVars
<1>1. CASE Encode
  BY <1>1 DEF Encode
<1>2. ASSUME NEW r \in Requests, Send(r)
      PROVE  UNCHANGED <<writer, failed>>
  BY <1>2 DEF Send
<1>3. ASSUME NEW r \in Requests, ReadRequest(r) \/ Begin(r) \/ Return(r)
      PROVE  UNCHANGED <<writer, failed, sent, respCh, wire>>
  BY <1>3 DEF ReadRequest, Begin, Return
<1>4. CASE ReadEnd \/ ReadError \/ ReadFail \/ WriteFail \/ WriteEnd
  BY <1>4 DEF ReadEnd, ReadError, ReadFail, WriteFail, WriteEnd
<1>5. CASE Dispatch \/ LeaveCanceled \/ LeaveFailed \/ LeaveEnded \/ CloseResponses \/ Cancel \/ UNCHANGED vars
  BY <1>5 DEF Dispatch, LeaveCanceled, LeaveFailed, LeaveEnded, CloseResponses, Cancel, vars
<1>6. CASE ServeReturn
  BY <1>6 DEF ServeReturn
<1> QED
  BY <1>1, <1>2, <1>3, <1>4, <1>5, <1>6, StepCases

\* Bootstrap's return is for good, and so is a response that was sent.
LEMMA BootsStay ==
  ASSUME Replied, booted \subseteq booted', sent \in [Requests -> Nat], sent' \in [Requests -> Nat],
         \A r \in Requests : sent[r] <= sent'[r]
  PROVE  /\ \A r : Boots(r) => Boots(r)'
         /\ loops > 0 => \E r \in Requests : Boots(r)' /\ sent'[r] > 0
<1>1. \A r : Boots(r) => Boots(r)'
  BY DEF Boots
<1>2. ASSUME loops > 0
      PROVE  \E r \in Requests : Boots(r)' /\ sent'[r] > 0
  <2>1. PICK r \in Requests : Boots(r) /\ sent[r] > 0
    BY <1>2 DEF Replied
  <2>2. sent[r] \in Nat /\ sent'[r] \in Nat /\ sent[r] <= sent'[r]
    OBVIOUS
  <2>3. sent'[r] > 0
    BY <2>1, <2>2
  <2> QED
    BY <1>1, <2>1, <2>3
<1> QED
  BY <1>1, <1>2

LEMMA RepliedStep ==
  ASSUME TypeOK, TypeOK', Once, Replied, [RtNext]_rtVars
  PROVE  Replied' /\ \A r : Boots(r) => Boots(r)'
<1> USE DEF readerVars, handlerVars, writerVars, mainVars, errVars, storeVars, metricsVars
<1>0. sent \in [Requests -> Nat] /\ sent' \in [Requests -> Nat] /\ handler \in [Requests -> HandlerAt]
  BY DEF TypeOK
<1>1. CASE UNCHANGED <<stage, handler, sent, loops, booted>> /\ stopped' \in Nat
  <2>1. \A r : Boots(r) <=> Boots(r)'
    BY <1>1 DEF Boots
  <2> QED
    BY <1>1, <2>1 DEF Replied
<1>2. CASE Dispatch /\ UNCHANGED <<stage, loops, stopped, booted>>
  <2>1. PICK h \in Requests : h = Head(reqCh) /\ handler[h] = "none"
    <3>1. Head(reqCh) \in Requests /\ Head(reqCh) \in Range(reqCh)
      BY <1>2, TailFacts DEF Dispatch, TypeOK, Range
    <3> QED
      BY <3>1 DEF Once
  <2>2. handler' = [handler EXCEPT ![h] = "run"] /\ sent' = sent
    BY <1>2, <2>1 DEF Dispatch
  <2>3. \A r : Boots(r) <=> Boots(r)'
    BY <1>2 DEF Boots
  <2>4. stage[h] = "new"
    BY <2>1 DEF Replied
  <2> QED
    BY <1>0, <1>2, <2>2, <2>3, <2>4 DEF Replied
<1>3. CASE ServeStep /\ ~Dispatch
  <2>1. UNCHANGED <<stage, loops, stopped, booted>>
    BY <1>3 DEF ServeStep
  <2>2. UNCHANGED <<handler, sent>>
    BY <1>3 DEF ServeStep, ReadRequest, ReadEnd, ReadError, ReadFail, Writer, Encode, WriteFail, WriteEnd,
       Main, LeaveCanceled, LeaveFailed, LeaveEnded, CloseResponses, ServeReturn, Cancel
  <2> QED
    BY <1>1, <2>1, <2>2 DEF Replied
<1>4. CASE TickStop \/ Tick
  <2>1. CASE TickStop
    <3>1. UNCHANGED <<stage, handler, sent, loops, booted>> /\ stopped' = stopped + 1
      BY <2>1 DEF TickStop, vars
    <3>2. stopped' \in Nat
      BY <3>1 DEF Replied
    <3> QED
      BY <1>1, <3>1, <3>2
  <2>2. CASE Tick
    <3>1. UNCHANGED <<stage, handler, sent, loops, stopped, booted>>
      BY <2>2 DEF Tick
    <3> QED
      BY <1>1, <3>1 DEF Replied
  <2> QED
    BY <1>4, <2>1, <2>2
<1>5. ASSUME NEW r \in Requests, HandlerStep(r)
      PROVE  Replied' /\ \A q : Boots(q) => Boots(q)'
  <2>0. booted \subseteq booted' /\ (\A q \in Requests : sent[q] <= sent'[q]) /\ stopped' = stopped
    <3>1. EnterCancel(r) \/ Write(r) \/ Finish(r) => UNCHANGED <<booted, sent, stopped>>
      BY DEF EnterCancel, Write, Finish, Begin, Return
    <3>2. Enter(r) => UNCHANGED <<booted, sent, stopped>>
      BY DEF Enter, vars
    <3>3. MethodReturns(r) => booted \subseteq booted' /\ UNCHANGED <<sent, stopped>>
      BY DEF MethodReturns, vars
    <3>4. SendResponse(r) => sent' = [sent EXCEPT ![r] = @ + 1] /\ UNCHANGED <<booted, stopped>>
      BY DEF SendResponse, Send
    <3>5. \A q \in Requests : sent[q] \in Nat
      BY <1>0
    <3> QED
      BY <1>0, <1>5, <3>1, <3>2, <3>3, <3>4, <3>5 DEF HandlerStep
  <2>1. /\ \A q : Boots(q) => Boots(q)'
        /\ loops > 0 => \E q \in Requests : Boots(q)' /\ sent'[q] > 0
    BY <1>0, <2>0, BootsStay
  <2>2. CASE EnterCancel(r)
    BY <1>0, <2>1, <2>2 DEF EnterCancel, Return, Replied
  <2>3. CASE Enter(r)
    BY <1>0, <2>1, <2>3 DEF Enter, vars, Replied
  <2>4. CASE Write(r)
    BY <1>0, <2>1, <2>4 DEF Write, Begin, Replied
  <2>5. CASE SendResponse(r)
    <3>1. /\ handler[r] = "send" /\ handler' = [handler EXCEPT ![r] = "run"]
          /\ sent' = [sent EXCEPT ![r] = @ + 1] /\ UNCHANGED <<stage, loops, stopped, booted>>
      BY <2>5 DEF SendResponse, Send
    <3>2. sent'[r] > 0 /\ handler'[r] = "run"
      BY <1>0, <3>1
    <3>3. \A q \in Requests : q # r => sent'[q] = sent[q] /\ handler'[q] = handler[q]
      BY <1>0, <3>1
    <3> QED
      BY <2>1, <3>1, <3>2, <3>3 DEF Replied
  <2>6. CASE MethodReturns(r)
    BY <1>0, <2>1, <2>6 DEF MethodReturns, vars, Replied
  <2>7. CASE Finish(r)
    <3>1. /\ handler[r] = "run" /\ handler' = [handler EXCEPT ![r] = "done"]
          /\ UNCHANGED <<stage, sent, booted, stopped>>
      BY <2>7 DEF Finish, Return
    <3>2. CASE loops' = loops
      BY <1>0, <2>1, <3>1, <3>2 DEF Replied
    <3>3. CASE loops' = 1 /\ Kind(r) = "bootstrap"
      <4>1. stage[r] = "replied"
        BY <2>7, <3>3 DEF Finish
      <4>2. Boots(r)' /\ sent'[r] > 0
        BY <3>1, <3>3, <4>1 DEF Replied, Boots
      <4> QED
        BY <1>0, <2>1, <3>1, <3>3, <4>2 DEF Replied
    <3> QED
      BY <2>7, <3>2, <3>3 DEF Finish
  <2> QED
    BY <1>5, <2>2, <2>3, <2>4, <2>5, <2>6, <2>7 DEF HandlerStep
<1>6. CASE UNCHANGED rtVars
  BY <1>1, <1>6 DEF rtVars, vars, Replied
<1>7. ServeStep /\ Dispatch => UNCHANGED <<stage, loops, stopped, booted>>
  BY DEF ServeStep
<1> QED
  BY <1>2, <1>3, <1>4, <1>5, <1>6, <1>7 DEF RtNext

\* A send keeps the metrics responses heralded if what it adds is.
LEMMA HeraldedSend ==
  ASSUME TypeOK, Heralded, NEW e \in Response, respCh' = Append(respCh, e),
         UNCHANGED <<wire, writer, failed>>, \A r : Boots(r) => Boots(r)',
         writer = "range" /\ e[1] = "metrics" => Heralds(respCh, Len(respCh) + 1)
  PROVE  Heralded'
<1>1. /\ Len(respCh) \in Nat /\ DOMAIN respCh = 1 .. Len(respCh) /\ DOMAIN respCh' = 1 .. Len(respCh) + 1
      /\ \A i \in DOMAIN respCh : respCh'[i] = respCh[i]
      /\ respCh'[Len(respCh) + 1] = e
  <2>1. respCh \in Seq(Response) /\ Len(respCh) \in Nat
    BY DEF TypeOK
  <2> DEFINE a == Append(respCh, e)
  <2>a. a = Append(respCh, e)
    OBVIOUS
  <2> HIDE DEF a
  <2>2. /\ DOMAIN respCh = 1 .. Len(respCh) /\ DOMAIN a = 1 .. Len(respCh) + 1
        /\ \A i \in DOMAIN respCh : a[i] = respCh[i]
        /\ a[Len(respCh) + 1] = e
    BY <2>1, <2>a, AppendFacts
  <2>3. respCh' = a
    BY <2>a
  <2> QED
    BY <2>1, <2>2, <2>3
<1>2. ASSUME NEW i \in DOMAIN respCh', Heralds(respCh, i)
      PROVE  Heralds(respCh, i)'
  <2>1. \A k \in 1 .. i - 1 : k \in DOMAIN respCh
    BY <1>1
  <2> QED
    BY <1>1, <1>2, <2>1 DEF Heralds
<1>3. ASSUME NEW i \in DOMAIN respCh', writer = "range", respCh'[i][1] = "metrics"
      PROVE  Heralds(respCh, i)
  <2>1. i \in DOMAIN respCh \/ i = Len(respCh) + 1
    BY <1>1
  <2> QED
    BY <1>1, <1>3, <2>1 DEF Heralded
<1>4. MetricsAfterBootstrap'
  BY DEF Heralded, MetricsAfterBootstrap, Boots
<1> QED
  BY <1>2, <1>3, <1>4 DEF Heralded

\* The writer takes the responses in order, so it keeps them heralded.
LEMMA HeraldedEncode ==
  ASSUME TypeOK, Heralded, Encode, \A r : Boots(r) => Boots(r)'
  PROVE  Heralded'
<1>1. CASE UNCHANGED wire /\ writer' = "fail"
  BY <1>1 DEF Heralded, MetricsAfterBootstrap, Boots
<1>2. CASE wire' = Append(wire, Head(respCh)) /\ UNCHANGED <<writer, failed>>
  <2>1. respCh # <<>> /\ respCh' = Tail(respCh) /\ writer = "range"
    BY DEF Encode
  <2>2. /\ Len(respCh) \in Nat /\ Head(respCh) = respCh[1] /\ 1 \in DOMAIN respCh
        /\ DOMAIN respCh = 1 .. Len(respCh) /\ DOMAIN respCh' = 1 .. Len(respCh) - 1
        /\ \A i \in DOMAIN respCh' : i + 1 \in DOMAIN respCh /\ respCh'[i] = respCh[i + 1]
        /\ Head(respCh) \in Response
    BY <2>1, TailFacts DEF TypeOK
  <2>3. /\ Len(wire) \in Nat /\ DOMAIN wire = 1 .. Len(wire) /\ DOMAIN wire' = 1 .. Len(wire) + 1
        /\ \A i \in DOMAIN wire : wire'[i] = wire[i]
        /\ wire'[Len(wire) + 1] = respCh[1]
    <3>1. wire \in Seq(Response) /\ Len(wire) \in Nat
      BY DEF TypeOK
    <3> DEFINE a == Append(wire, Head(respCh))
    <3>2. /\ DOMAIN wire = 1 .. Len(wire) /\ DOMAIN a = 1 .. Len(wire) + 1
          /\ \A i \in DOMAIN wire : a[i] = wire[i]
          /\ a[Len(wire) + 1] = Head(respCh)
      <4>1. PICK h \in Response : h = Head(respCh)
        BY <2>2
      <4>2. a = Append(wire, h)
        BY <4>1
      <4> HIDE DEF a
      <4>3. /\ DOMAIN wire = 1 .. Len(wire) /\ DOMAIN a = 1 .. Len(wire) + 1
            /\ \A i \in DOMAIN wire : a[i] = wire[i]
            /\ a[Len(wire) + 1] = h
        BY <3>1, <4>2, AppendFacts
      <4> QED
        BY <4>1, <4>3
    <3>3. wire' = a
      BY <1>2
    <3> HIDE DEF a
    <3> QED
      BY <2>2, <3>1, <3>2, <3>3
  <2>4. ASSUME NEW i \in DOMAIN wire', wire'[i][1] = "metrics"
        PROVE  \E k \in 1 .. i - 1 : Boots(wire[k][1]) /\ k \in DOMAIN wire
    <3>1. CASE i \in DOMAIN wire
      <4>1. PICK k \in 1 .. i - 1 : Boots(wire[k][1])
        BY <2>3, <2>4, <3>1 DEF Heralded, MetricsAfterBootstrap, Boots
      <4> QED
        BY <2>3, <3>1, <4>1
    <3>2. CASE i = Len(wire) + 1
      <4>1. Heralds(respCh, 1)
        BY <2>1, <2>2, <2>3, <2>4, <3>2 DEF Heralded
      <4>2. PICK k \in DOMAIN wire : Boots(wire[k][1])
        <5>1. 1 .. 1 - 1 = {}
          OBVIOUS
        <5> QED
          BY <4>1, <5>1 DEF Heralds
      <4>3. k \in 1 .. i - 1
        BY <2>3, <3>2
      <4> QED
        BY <4>2, <4>3
    <3>3. i \in DOMAIN wire \/ i = Len(wire) + 1
      BY <2>3
    <3> QED
      BY <3>1, <3>2, <3>3
  <2>5. MetricsAfterBootstrap'
    <3> SUFFICES ASSUME NEW i \in DOMAIN wire', wire'[i][1] = "metrics"
                 PROVE  \E k \in 1 .. i - 1 : Boots(wire[k][1])'
      BY DEF MetricsAfterBootstrap, Boots
    <3>1. PICK k \in 1 .. i - 1 : Boots(wire[k][1]) /\ k \in DOMAIN wire
      BY <2>4
    <3>2. Boots(wire[k][1])'
      <4>1. wire'[k] = wire[k]
        BY <2>3, <3>1
      <4> QED
        BY <3>1, <4>1 DEF Boots
    <3> QED
      BY <3>2
  <2>6. ASSUME NEW i \in DOMAIN respCh', respCh'[i][1] = "metrics"
        PROVE  Heralds(respCh, i)'
    <3>1. Heralds(respCh, i + 1)
      BY <2>1, <2>2, <2>6 DEF Heralded
    <3>2. CASE \E k \in DOMAIN wire : Boots(wire[k][1])
      BY <2>3, <3>2 DEF Heralds
    <3>3. ASSUME NEW k \in 1 .. i, Boots(respCh[k][1])
          PROVE  Heralds(respCh, i)'
      <4>1. CASE k = 1
        <5>1. Len(wire) + 1 \in DOMAIN wire' /\ wire'[Len(wire) + 1][1] = respCh[k][1]
          BY <2>3, <4>1
        <5> QED
          BY <3>3, <5>1 DEF Heralds
      <4>2. CASE k # 1
        <5>1. k - 1 \in 1 .. i - 1 /\ k - 1 \in DOMAIN respCh' /\ respCh'[k - 1] = respCh[k]
          BY <2>2, <4>2
        <5> QED
          BY <3>3, <5>1 DEF Heralds
      <4> QED
        BY <4>1, <4>2
    <3>4. (i + 1) - 1 = i
      BY <2>2
    <3> QED
      BY <3>1, <3>2, <3>3, <3>4 DEF Heralds
  <2> QED
    BY <1>2, <2>1, <2>5, <2>6 DEF Heralded
<1> QED
  BY <1>1, <1>2 DEF Encode

LEMMA HeraldedStep ==
  ASSUME BootInv, TypeOK', [RtNext]_rtVars
  PROVE  Heralded'
<1> USE DEF BootInv, RtShutdownInv, ShutdownInv
<1>1. \A r : Boots(r) => Boots(r)'
  BY RepliedStep
<1>2. ASSUME NEW r \in Requests, Send(r)
      PROVE  Heralded'
  <2>1. <<r, sent[r] + 1>> \in Response
    <3>1. sent[r] + 1 \in Nat \ {0}
      BY DEF TypeOK
    <3> QED
      BY <3>1 DEF Response
  <2>2. respCh' = Append(respCh, <<r, sent[r] + 1>>) /\ UNCHANGED <<wire, writer, failed>>
    BY <1>2 DEF Send, writerVars, errVars
  <2>3. <<r, sent[r] + 1>>[1] # "metrics"
    BY RuntimeAssumption
  <2> QED
    BY <1>1, <2>1, <2>2, <2>3, HeraldedSend
<1>3. CASE Encode
  BY <1>1, <1>3, HeraldedEncode
<1>4. CASE Tick
  <2>1. UNCHANGED <<wire, writer, failed>> /\ <<"metrics", ticks + 1>> \in Response
    BY <1>4, TickFacts DEF writerVars, errVars, Response
  <2>2. CASE respCh' = respCh
    BY <1>1, <2>1, <2>2 DEF Heralded, MetricsAfterBootstrap, Heralds, Boots
  <2>3. CASE respCh' = Append(respCh, <<"metrics", ticks + 1>>)
    <3>1. ASSUME writer = "range"
          PROVE  Heralds(respCh, Len(respCh) + 1)
      <4>1. PICK r \in Requests : Boots(r) /\ sent[r] > 0
        <5>1. stopped < loops /\ stopped \in Nat /\ loops \in Nat
          BY <1>4 DEF Tick, Replied
        <5>2. loops > 0
          BY <5>1
        <5> QED
          BY <5>2 DEF Replied
      <4>2. 1 \in 1 .. sent[r]
        BY <4>1 DEF TypeOK
      <4>3. <<r, 1>> \in Range(wire) \cup Range(respCh)
        BY <3>1, <4>2 DEF Heralded, Flushed
      <4>4. CASE <<r, 1>> \in Range(wire)
        <5>1. PICK k \in DOMAIN wire : wire[k] = <<r, 1>>
          BY <4>4 DEF Range
        <5>2. Boots(wire[k][1])
          BY <4>1, <5>1
        <5> QED
          BY <5>2 DEF Heralds
      <4>5. CASE <<r, 1>> \in Range(respCh)
        <5>1. PICK k \in DOMAIN respCh : respCh[k] = <<r, 1>>
          BY <4>5 DEF Range
        <5>2. k \in 1 .. (Len(respCh) + 1) - 1
          <6>1. respCh \in Seq(Response)
            BY DEF TypeOK
          <6> QED
            BY <6>1
        <5>3. Boots(respCh[k][1])
          BY <4>1, <5>1
        <5> QED
          BY <5>2, <5>3 DEF Heralds
      <4> QED
        BY <4>3, <4>4, <4>5
    <3> QED
      BY <1>1, <2>1, <2>3, <3>1, HeraldedSend
  <2> QED
    BY <1>4, <2>2, <2>3, TickFacts
<1>5. CASE [Next]_vars /\ (\A r \in Requests : ~Send(r)) /\ ~Encode
  <2>1. /\ UNCHANGED <<respCh, wire>> /\ (writer' = "range" => writer = "range")
        /\ writer' = "range" /\ "write" \in failed' => "write" \in failed
    BY <1>5, WriterFacts
  <2> QED
    BY <1>1, <2>1 DEF Heralded, MetricsAfterBootstrap, Heralds, Boots
<1> QED
  BY <1>2, <1>3, <1>4, <1>5, RtStepCases

LEMMA BootInvariant == RtSpec => []BootInv
<1>1. BootInv /\ RtShutdownInv' /\ [RtNext]_rtVars => BootInv'
  <2> SUFFICES ASSUME BootInv, RtShutdownInv', [RtNext]_rtVars
               PROVE  BootInv'
    OBVIOUS
  <2> USE DEF BootInv, RtShutdownInv, ShutdownInv
  <2>1. Once'
    <3>1. CASE [Next]_vars
      BY <3>1, OnceStep
    <3>2. CASE Tick
      BY <3>2, TickFacts DEF Once, readerVars
    <3> QED
      BY <3>1, <3>2, RtStepCases
  <2>2. Replied'
    BY RepliedStep
  <2>3. Heralded'
    BY HeraldedStep
  <2> QED
    BY <2>1, <2>2, <2>3
<1> QED
  BY <1>1, BootInit, RtShutdown, PTL DEF RtSpec

\* For any requests, however the handlers, the metrics loop and the writer are
\* interleaved, and whether or not a write fails: a metrics response is written
\* only after a response to a bootstrap request whose Bootstrap returned.
THEOREM RtBootFirst == RtSpec => []MetricsAfterBootstrap
<1>1. BootInv => MetricsAfterBootstrap
  BY DEF BootInv, Heralded
<1> QED
  BY <1>1, BootInvariant, PTL

=============================================================================
