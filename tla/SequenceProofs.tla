--------------------------- MODULE SequenceProofs ---------------------------
(***************************************************************************)
(* A proof about Runtime for any requests, streams and capacity: on the    *)
(* wire the sequence IDs of a stream count 1, 2, 3, ..., whichever         *)
(* goroutines write, until the stream is canceled.                         *)
(***************************************************************************)
EXTENDS RuntimeProofs

-----------------------------------------------------------------------------
(* The labels of the responses that a handler makes.                       *)

\* The numbers among the labels of the first m responses that the handler of r
\* made.
Made(r, m) == {label[r][j] : j \in 1 .. m} \ {none, 0}

\* The record of a stream holds the last number that was drawn from it, and the
\* numbers are drawn in order.
DrawnInOrder(r) ==
  /\ streams[Req[r].id] # none => Made(r, Len(label[r])) = 1 .. seqID[Req[r].id]
  /\ \A m \in 1 .. Len(label[r]) : label[r][m] \notin {none, 0} => Made(r, m - 1) = 1 .. label[r][m] - 1

\* A response is labeled before it is sent.
Labeled ==
  /\ streams \in [IDs -> Streams \cup {none}] /\ seqID \in [IDs -> Nat]
  /\ label \in [Requests -> Seq(Nat \cup {none})]
  /\ stage \in [Requests -> {"new", "plugin", "reply", "replied"}]
  /\ \A r \in Requests : Len(label[r]) = IF handler[r] = "send" THEN sent[r] + 1 ELSE sent[r]
  /\ \A r \in Requests : stage[r] = "new" => label[r] = <<>>
  /\ \A i \in IDs : streams[i] # none => Req[streams[i]].id = i /\ stage[streams[i]] # "new"

Labels == Labeled /\ \A r \in Streams : DrawnInOrder(r)

LEMMA StreamFacts == Streams \subseteq Requests /\ \A r \in Requests : Req[r].id \in IDs
  BY RuntimeAssumption

LEMMA LabelsInit == RtInit => Labels
<1> SUFFICES ASSUME RtInit
             PROVE  Labels
  OBVIOUS
<1>1. \A r \in Requests : label[r] = <<>> /\ Len(label[r]) = 0 /\ sent[r] = 0 /\ handler[r] = "none"
  BY DEF RtInit, Init
<1>2. /\ streams \in [IDs -> Streams \cup {none}] /\ seqID \in [IDs -> Nat]
      /\ label \in [Requests -> Seq(Nat \cup {none})]
      /\ \A i \in IDs : streams[i] = none
  BY DEF RtInit
<1>3. Labeled
  BY <1>1, <1>2 DEF RtInit, Labeled
<1>4. \A r \in Streams : DrawnInOrder(r)
  BY <1>1, <1>2, StreamFacts DEF DrawnInOrder
<1> QED
  BY <1>3, <1>4 DEF Labels

\* The labels that a stream has, and its record unless it is gone, are kept.
LEMMA DrawnKept ==
  ASSUME NEW r, DrawnInOrder(r), label'[r] = label[r],
         streams'[Req[r].id] # none => streams[Req[r].id] # none /\ seqID'[Req[r].id] = seqID[Req[r].id]
  PROVE  DrawnInOrder(r)'
<1>1. \A m : Made(r, m)' = Made(r, m)
  BY DEF Made
<1>2. Made(r, Len(label[r]))' = Made(r, Len(label[r]))
  BY DEF Made
<1> QED
  BY <1>1, <1>2 DEF DrawnInOrder

\* Nothing is labeled or sent.
LEMMA LabelsQuiet ==
  ASSUME Labels, UNCHANGED <<stage, seqID, label, sent>>,
         \A r \in Requests : handler'[r] = "send" <=> handler[r] = "send",
         streams' \in [IDs -> Streams \cup {none}], \A i \in IDs : streams'[i] \in {streams[i], none}
  PROVE  Labels'
<1>1. Labeled'
  <2>1. Labeled
    BY DEF Labels
  <2>2. \A r \in Requests : Len(label'[r]) = IF handler'[r] = "send" THEN sent'[r] + 1 ELSE sent'[r]
    BY <2>1 DEF Labeled
  <2>3. \A i \in IDs : streams'[i] # none => Req[streams'[i]].id = i /\ stage'[streams'[i]] # "new"
    BY <2>1 DEF Labeled
  <2> QED
    BY <2>1, <2>2, <2>3 DEF Labeled
<1>2. ASSUME NEW r \in Streams
      PROVE  DrawnInOrder(r)'
  <2>1. Req[r].id \in IDs /\ DrawnInOrder(r)
    BY StreamFacts DEF Labels
  <2> QED
    BY <2>1, DrawnKept
<1> QED
  BY <1>1, <1>2 DEF Labels

LEMMA LabelsEnter ==
  ASSUME TypeOK, Labels, NEW r \in Requests, Enter(r)
  PROVE  Labels'
<1>0. UNCHANGED <<label, handler, sent>>
  BY DEF Enter, vars, handlerVars
<1>1. stage[r] = "new" /\ \E x \in {"plugin", "reply"} : stage' = [stage EXCEPT ![r] = x]
  BY DEF Enter
<1>a. Labeled
  BY DEF Labels
<1>2. /\ stage' \in [Requests -> {"new", "plugin", "reply", "replied"}] /\ stage'[r] # "new"
      /\ \A q \in Requests : stage'[q] = "new" => stage[q] = "new"
      /\ \A q \in Requests : q # r => stage'[q] = stage[q]
  BY <1>1, <1>a DEF Labeled
<1>3. /\ \A q \in Requests : Len(label'[q]) = IF handler'[q] = "send" THEN sent'[q] + 1 ELSE sent'[q]
      /\ \A q \in Requests : stage'[q] = "new" => label'[q] = <<>>
      /\ label' \in [Requests -> Seq(Nat \cup {none})]
  BY <1>0, <1>2, <1>a DEF Labeled
<1>5. CASE UNCHANGED storeVars
  <2>1. \A i \in IDs : streams'[i] # none => Req[streams'[i]].id = i /\ stage'[streams'[i]] # "new"
    <3>1. \A i \in IDs : streams[i] # none => streams[i] \in Requests
      BY <1>a, StreamFacts DEF Labeled
    <3> QED
      BY <1>2, <1>5, <1>a, <3>1 DEF Labeled, storeVars
  <2>2. Labeled'
    BY <1>2, <1>3, <1>5, <1>a, <2>1 DEF Labeled, storeVars
  <2>3. ASSUME NEW q \in Streams
        PROVE  DrawnInOrder(q)'
    BY <1>0, <1>5, DrawnKept DEF storeVars, Labels
  <2> QED
    BY <2>2, <2>3 DEF Labels
<1>6. CASE Kind(r) = "stream" /\ Start(r)
  <2> DEFINE i == Req[r].id
  <2>1. r \in Streams /\ i \in IDs
    BY <1>6, RuntimeAssumption
  <2>2. streams[i] = none
    <3>1. CASE streams[i] # none
      <4>1. streams[i] \in Streams /\ Req[streams[i]].id = i /\ stage[streams[i]] # "new"
        BY <1>a, <2>1, <3>1 DEF Labeled
      <4> QED
        BY <1>1, <2>1, <4>1, StreamIDs
    <3> QED
      BY <3>1
  <2>3. streams' = [streams EXCEPT ![i] = r] /\ seqID' = [seqID EXCEPT ![i] = 0]
    BY <2>2, <1>6 DEF Start
  <2>4. label[r] = <<>> /\ Len(label[r]) = 0
    BY <1>1, <1>a DEF Labeled
  <2>5. streams' \in [IDs -> Streams \cup {none}] /\ seqID' \in [IDs -> Nat]
        /\ streams'[i] = r /\ seqID'[i] = 0
        /\ \A k \in IDs : k # i => streams'[k] = streams[k] /\ seqID'[k] = seqID[k]
    BY <1>a, <2>1, <2>3 DEF Labeled
  <2>6. \A k \in IDs : streams'[k] # none => Req[streams'[k]].id = k /\ stage'[streams'[k]] # "new"
    <3>1. \A k \in IDs : streams[k] # none => /\ streams[k] \in Requests
                                              /\ Req[streams[k]].id = k /\ stage[streams[k]] # "new"
      BY <1>a, StreamFacts DEF Labeled
    <3> QED
      BY <1>2, <2>5, <3>1
  <2>7. Labeled'
    BY <1>2, <1>3, <2>5, <2>6 DEF Labeled
  <2>8. ASSUME NEW q \in Streams
        PROVE  DrawnInOrder(q)'
    <3>1. CASE q = r
      <4>1. label'[q] = <<>> /\ Len(label'[q]) = 0 /\ seqID'[Req[q].id] = 0
        BY <1>0, <2>4, <2>5, <3>1
      <4>2. Made(q, Len(label[q]))' = {}
        BY <4>1 DEF Made
      <4> QED
        BY <4>1, <4>2 DEF DrawnInOrder
    <3>2. CASE q # r
      <4>1. Req[q].id \in IDs /\ Req[q].id # i
        BY <2>1, <3>2, StreamFacts, StreamIDs
      <4>2. DrawnInOrder(q)
        BY DEF Labels
      <4> QED
        BY <1>0, <2>5, <4>1, <4>2, DrawnKept
    <3> QED
      BY <3>1, <3>2
  <2> QED
    BY <2>7, <2>8 DEF Labels
<1> QED
  BY <1>5, <1>6 DEF Enter

\* The response that a handler makes is labeled: with the next number of its
\* stream, or with none.
LEMMA WriteFacts ==
  ASSUME TypeOK, Labeled, NEW r \in Requests, Write(r)
  PROVE  \E n \in Nat \cup {none} :
           /\ label' = [label EXCEPT ![r] = Append(@, n)]
           /\ handler[r] = "run" /\ handler' = [handler EXCEPT ![r] = "send"]
           /\ UNCHANGED <<sent, respCh, wire, writer, streams>>
           /\ \/ n \in {none, 0} /\ UNCHANGED seqID
              \/ /\ r \in Streams /\ streams[Req[r].id] # none /\ n \notin {none, 0}
                 /\ n = seqID[Req[r].id] + 1 /\ seqID' = [seqID EXCEPT ![Req[r].id] = n]
<1>0. handler[r] = "run" /\ handler' = [handler EXCEPT ![r] = "send"] /\ UNCHANGED <<sent, respCh, wire, writer>>
  BY DEF Write, Begin, writerVars
<1>1. Req[r].id \in IDs /\ seqID[Req[r].id] \in Nat /\ none \notin Nat
  BY RuntimeAssumption DEF Labeled
<1>2. CASE label' = [label EXCEPT ![r] = Append(@, none)] /\ UNCHANGED storeVars
  BY <1>0, <1>2 DEF storeVars
<1>3. ASSUME Kind(r) = "stream", NEW n \in {0, seqID[Req[r].id] + 1}, SequenceID(Req[r].id, n),
             label' = [label EXCEPT ![r] = Append(@, n)]
      PROVE  /\ n \in Nat /\ UNCHANGED streams
             /\ \/ n \in {none, 0} /\ UNCHANGED seqID
                \/ /\ r \in Streams /\ streams[Req[r].id] # none /\ n \notin {none, 0}
                   /\ n = seqID[Req[r].id] + 1 /\ seqID' = [seqID EXCEPT ![Req[r].id] = n]
  <2>1. r \in Streams
    BY <1>3, RuntimeAssumption
  <2>2. CASE streams[Req[r].id] # none
    BY <1>1, <1>3, <2>1, <2>2 DEF SequenceID
  <2>3. CASE streams[Req[r].id] = none
    BY <1>1, <1>3, <2>1, <2>3 DEF SequenceID
  <2> QED
    BY <2>2, <2>3
<1> QED
  BY <1>0, <1>2, <1>3 DEF Write

\* The labels of what was made before stay the same.
LEMMA LabelKept ==
  ASSUME Labeled, NEW r \in Requests, NEW n \in Nat \cup {none}, label' = [label EXCEPT ![r] = Append(@, n)]
  PROVE  /\ label' \in [Requests -> Seq(Nat \cup {none})] /\ Len(label[r]) \in Nat
         /\ Len(label'[r]) = Len(label[r]) + 1 /\ label'[r][Len(label[r]) + 1] = n
         /\ \A j \in 1 .. Len(label[r]) : label'[r][j] = label[r][j]
         /\ \A q \in Requests : q # r => label'[q] = label[q]
<1>0. label \in [Requests -> Seq(Nat \cup {none})]
  BY DEF Labeled
<1>1. label[r] \in Seq(Nat \cup {none}) /\ label'[r] = Append(label[r], n)
  BY <1>0
<1>2. Append(label[r], n) \in Seq(Nat \cup {none})
  BY <1>1, AppendFacts
<1>3. label' \in [Requests -> Seq(Nat \cup {none})]
  BY <1>0, <1>2
<1>4. /\ Len(label'[r]) = Len(label[r]) + 1 /\ label'[r][Len(label[r]) + 1] = n /\ Len(label[r]) \in Nat
      /\ \A j \in 1 .. Len(label[r]) : label'[r][j] = label[r][j]
  BY <1>1
<1>5. \A q \in Requests : q # r => label'[q] = label[q]
  BY <1>0
<1> QED
  BY <1>3, <1>4, <1>5

LEMMA OneMore == \A k \in Nat : (1 .. k) \cup {k + 1} = 1 .. k + 1
  OBVIOUS

\* One more response: its number, if it has one, is added to those made.
LEMMA MadeOneMore ==
  ASSUME NEW r, NEW m \in Nat
  PROVE  Made(r, m + 1) = Made(r, m) \cup ({label[r][m + 1]} \ {none, 0})
<1>1. \A k : k \in 1 .. m + 1 <=> k \in 1 .. m \/ k = m + 1
  OBVIOUS
<1> QED
  BY <1>1 DEF Made

LEMMA LabelsWrite ==
  ASSUME TypeOK, Labels, NEW r \in Requests, Write(r)
  PROVE  Labels'
<1>a. Labeled
  BY DEF Labels
<1>1. PICK n \in Nat \cup {none} :
           /\ label' = [label EXCEPT ![r] = Append(@, n)]
           /\ handler[r] = "run" /\ handler' = [handler EXCEPT ![r] = "send"]
           /\ UNCHANGED <<sent, respCh, wire, writer, streams>>
           /\ \/ n \in {none, 0} /\ UNCHANGED seqID
              \/ /\ r \in Streams /\ streams[Req[r].id] # none /\ n \notin {none, 0}
                 /\ n = seqID[Req[r].id] + 1 /\ seqID' = [seqID EXCEPT ![Req[r].id] = n]
  BY <1>a, WriteFacts
<1>b. PICK L \in Nat : L = Len(label[r])
  BY <1>1, <1>a, LabelKept
<1>2. /\ label' \in [Requests -> Seq(Nat \cup {none})]
      /\ Len(label'[r]) = L + 1 /\ label'[r][L + 1] = n
      /\ \A j \in 1 .. L : label'[r][j] = label[r][j]
      /\ \A q \in Requests : q # r => label'[q] = label[q]
  BY <1>1, <1>a, <1>b, LabelKept
<1>3. \A i \in IDs : seqID[i] \in Nat
  BY <1>a DEF Labeled
<1>4. /\ stage' \in [Requests -> {"new", "plugin", "reply", "replied"}] /\ stage[r] # "new"
      /\ \A q \in Requests : stage'[q] = "new" <=> stage[q] = "new"
  <2>1. stage[r] \in {"plugin", "reply"} /\ stage' = [stage EXCEPT ![r] = IF @ = "reply" THEN "replied" ELSE @]
    BY DEF Write
  <2> QED
    BY <1>a, <2>1 DEF Labeled
<1>5. \A q \in Requests : Len(label'[q]) = IF handler'[q] = "send" THEN sent'[q] + 1 ELSE sent'[q]
  <2>1. handler \in [Requests -> HandlerAt]
    BY DEF TypeOK
  <2>2. \A q \in Requests : Len(label[q]) = IF handler[q] = "send" THEN sent[q] + 1 ELSE sent[q]
    BY <1>a DEF Labeled
  <2> QED
    BY <1>1, <1>b, <1>2, <2>1, <2>2
<1>6. streams' \in [IDs -> Streams \cup {none}] /\ seqID' \in [IDs -> Nat]
  <2>1. CASE UNCHANGED seqID
    BY <1>1, <1>a, <2>1 DEF Labeled
  <2>2. CASE n = seqID[Req[r].id] + 1 /\ seqID' = [seqID EXCEPT ![Req[r].id] = n]
    <3>1. n \in Nat
      BY <1>3, <2>2, StreamFacts
    <3> QED
      BY <1>1, <1>a, <2>2, <3>1 DEF Labeled
  <2> QED
    BY <1>1, <2>1, <2>2
<1>7. /\ \A q \in Requests : stage'[q] = "new" => label'[q] = <<>>
      /\ \A i \in IDs : streams'[i] # none => Req[streams'[i]].id = i /\ stage'[streams'[i]] # "new"
  <2>1. \A i \in IDs : streams[i] # none => streams[i] \in Requests
    BY <1>a, StreamFacts DEF Labeled
  <2> QED
    BY <1>1, <1>2, <1>4, <1>a, <2>1 DEF Labeled
<1>8. Labeled'
  BY <1>2, <1>4, <1>5, <1>6, <1>7 DEF Labeled
<1>9. ASSUME NEW q \in Streams, q # r
      PROVE  DrawnInOrder(q)'
  <2>1. seqID'[Req[q].id] = seqID[Req[q].id]
    <3>1. r \in Streams => Req[q].id # Req[r].id
      BY <1>9, StreamIDs
    <3> QED
      BY <1>1, <1>a, <3>1, StreamFacts DEF Labeled
  <2>2. label'[q] = label[q] /\ DrawnInOrder(q)
    BY <1>2, <1>9, StreamFacts DEF Labels
  <2> QED
    BY <1>1, <2>1, <2>2, DrawnKept
<1>10. ASSUME r \in Streams
       PROVE  DrawnInOrder(r)'
  <2>1. \A m \in 0 .. L : Made(r, m)' = Made(r, m)
    <3> SUFFICES ASSUME NEW m \in 0 .. L
                 PROVE  Made(r, m)' = Made(r, m)
      OBVIOUS
    <3>1. \A j \in 1 .. m : label'[r][j] = label[r][j]
      BY <1>2
    <3> QED
      BY <3>1 DEF Made
  <2>2. Made(r, L + 1)' = Made(r, L) \cup ({n} \ {none, 0})
    <3>1. \A k : k \in 1 .. L + 1 <=> k \in 1 .. L \/ k = L + 1
      OBVIOUS
    <3> QED
      BY <1>2, <3>1 DEF Made
  <2>3. DrawnInOrder(r)
    BY <1>10 DEF Labels
  <2>4. Made(r, Len(label[r]))' = Made(r, L) \cup ({n} \ {none, 0})
    <3>1. Made(r, Len(label[r]))' = Made(r, L + 1)'
      BY <1>2 DEF Made
    <3> QED
      BY <2>2, <3>1
  <2>5. streams[Req[r].id] # none => Made(r, L) = 1 .. seqID[Req[r].id]
    BY <1>b, <2>3 DEF DrawnInOrder
  <2>6. streams'[Req[r].id] # none => Made(r, Len(label[r]))' = 1 .. seqID'[Req[r].id]
    <3>1. CASE n \in {none, 0}
      <4>1. seqID' = seqID /\ {n} \ {none, 0} = {}
        BY <1>1, <3>1
      <4> QED
        BY <1>1, <2>4, <2>5, <4>1
    <3>2. CASE n \notin {none, 0}
      <4>1. /\ seqID[Req[r].id] \in Nat /\ n = seqID[Req[r].id] + 1 /\ {n} \ {none, 0} = {n}
            /\ seqID'[Req[r].id] = n /\ streams[Req[r].id] # none
        BY <1>1, <1>3, <1>6, <1>a, <3>2, StreamFacts DEF Labeled
      <4>2. (1 .. seqID[Req[r].id]) \cup {n} = 1 .. n
        BY <4>1, OneMore
      <4> QED
        BY <2>4, <2>5, <4>1, <4>2
    <3> QED
      BY <3>1, <3>2
  <2>7. ASSUME NEW m \in 1 .. L + 1, label'[r][m] \notin {none, 0}
        PROVE  Made(r, m - 1)' = 1 .. label'[r][m] - 1
    <3>1. CASE m \in 1 .. L
      <4>1. m - 1 \in 0 .. L /\ label'[r][m] = label[r][m] /\ m \in 1 .. Len(label[r])
        BY <1>2, <1>b, <3>1
      <4> QED
        BY <2>1, <2>3, <2>7, <4>1 DEF DrawnInOrder
    <3>2. CASE m = L + 1
      <4>1. m - 1 = L /\ label'[r][m] = n /\ Made(r, L)' = Made(r, L)
        BY <1>2, <2>1, <3>2
      <4>2. n = seqID[Req[r].id] + 1 /\ streams[Req[r].id] # none /\ seqID[Req[r].id] \in Nat
        BY <1>1, <1>3, <2>7, <4>1, StreamFacts
      <4>3. seqID[Req[r].id] = n - 1
        BY <4>2
      <4> QED
        BY <2>5, <4>1, <4>2, <4>3
    <3> QED
      BY <2>7, <3>1, <3>2
  <2> QED
    BY <1>2, <2>6, <2>7 DEF DrawnInOrder
<1> QED
  BY <1>8, <1>9, <1>10 DEF Labels

LEMMA LabelsStep ==
  ASSUME TypeOK, Once, Labels, [RtNext]_rtVars
  PROVE  Labels'
<1> USE DEF handlerVars, storeVars
<1>0. handler \in [Requests -> HandlerAt] /\ sent \in [Requests -> Nat]
  BY DEF TypeOK
<1>a. Labeled
  BY DEF Labels
<1>b. streams \in [IDs -> Streams \cup {none}]
  BY <1>a DEF Labeled
<1>1. CASE ServeStep
  <2>1. UNCHANGED <<stage, streams, seqID, label>>
    BY <1>1 DEF ServeStep
  <2>2. CASE Dispatch
    <3>1. Head(reqCh) \in Requests /\ handler[Head(reqCh)] = "none"
      <4>1. Head(reqCh) \in Requests /\ Head(reqCh) \in Range(reqCh)
        BY <2>2, TailFacts DEF Dispatch, TypeOK, Range
      <4> QED
        BY <4>1 DEF Once
    <3>2. handler' = [handler EXCEPT ![Head(reqCh)] = "run"] /\ sent' = sent
      BY <2>2 DEF Dispatch
    <3>3. \A r \in Requests : handler'[r] = "send" <=> handler[r] = "send"
      BY <1>0, <3>1, <3>2
    <3> QED
      BY <2>1, <3>2, <3>3, <1>b, LabelsQuiet
  <2>3. CASE ~Dispatch
    <3>1. UNCHANGED <<handler, sent>>
      BY <1>1, <2>3 DEF ServeStep, ReadRequest, ReadEnd, ReadError, ReadFail, Writer, Encode, WriteFail, WriteEnd,
         Main, LeaveCanceled, LeaveFailed, LeaveEnded, CloseResponses, ServeReturn, Cancel
    <3> QED
      BY <2>1, <3>1, <1>b, LabelsQuiet
  <2> QED
    BY <2>2, <2>3
<1>2. CASE Tick \/ TickStop \/ UNCHANGED rtVars
  <2>1. UNCHANGED <<stage, streams, seqID, label, handler, sent>>
    BY <1>2 DEF Tick, TickStop, rtVars, vars
  <2> QED
    BY <2>1, <1>b, LabelsQuiet
<1>3. ASSUME NEW r \in Requests, HandlerStep(r)
      PROVE  Labels'
  <2>1. CASE EnterCancel(r)
    <3>1. UNCHANGED <<stage, label, seqID, sent>> /\ \A q \in Requests : handler'[q] = "send" <=> handler[q] = "send"
      BY <1>0, <2>1 DEF EnterCancel, CancelStream, Return
    <3>2. streams' = [streams EXCEPT ![Req[r].id] = none]
      BY <2>1 DEF EnterCancel, CancelStream
    <3>3. streams' \in [IDs -> Streams \cup {none}] /\ \A i \in IDs : streams'[i] \in {streams[i], none}
      BY <1>b, <3>2
    <3> QED
      BY <3>1, <3>3, LabelsQuiet
  <2>2. CASE Enter(r)
    BY <2>2, LabelsEnter
  <2>3. CASE Write(r)
    BY <2>3, LabelsWrite
  <2>4. CASE SendResponse(r)
    <3>1. /\ handler[r] = "send" /\ handler' = [handler EXCEPT ![r] = "run"] /\ sent' = [sent EXCEPT ![r] = @ + 1]
          /\ UNCHANGED <<stage, streams, seqID, label>>
      BY <2>4 DEF SendResponse, Send
    <3>2. \A q \in Requests : Len(label[q]) = IF handler'[q] = "send" THEN sent'[q] + 1 ELSE sent'[q]
      BY <1>0, <1>a, <3>1 DEF Labeled
    <3>3. Labeled'
      BY <1>a, <3>1, <3>2 DEF Labeled
    <3> QED
      BY <3>1, <3>3, DrawnKept DEF Labels
  <2>5. CASE MethodReturns(r)
    <3>1. /\ stage[r] = "plugin" /\ stage' = [stage EXCEPT ![r] = "reply"]
          /\ UNCHANGED <<streams, seqID, label, handler, sent>>
      BY <2>5 DEF MethodReturns, vars
    <3>2. /\ stage' \in [Requests -> {"new", "plugin", "reply", "replied"}]
          /\ \A q \in Requests : stage'[q] = "new" <=> stage[q] = "new"
      BY <1>a, <3>1 DEF Labeled
    <3>3. \A i \in IDs : streams[i] # none => Req[streams[i]].id = i /\ stage'[streams[i]] # "new"
      BY <1>a, <3>2, StreamFacts DEF Labeled
    <3>4. Labeled'
      BY <1>a, <3>1, <3>2, <3>3 DEF Labeled
    <3> QED
      BY <3>1, <3>4, DrawnKept DEF Labels
  <2>6. CASE Finish(r)
    <3>1. UNCHANGED <<stage, label, streams, seqID, sent>>
          /\ \A q \in Requests : handler'[q] = "send" <=> handler[q] = "send"
      BY <1>0, <2>6 DEF Finish, Return
    <3> QED
      BY <3>1, <1>b, LabelsQuiet
  <2> QED
    BY <1>3, <2>1, <2>2, <2>3, <2>4, <2>5, <2>6 DEF HandlerStep
<1> QED
  BY <1>1, <1>2, <1>3 DEF RtNext

-----------------------------------------------------------------------------
(* The labels of the responses that are sent.                              *)

\* The responses on the wire and then in the channel, and the numbers of those
\* of r up to place p.
OutLen == Len(wire) + Len(respCh)
OutAt(p) == IF p <= Len(wire) THEN wire[p] ELSE respCh[p - Len(wire)]
Out(r, p) == {label[r][OutAt(k)[2]] : k \in {k \in 1 .. p : OutAt(k)[1] = r}} \ {none, 0}

\* Through the channel the numbers go on as on the wire, up to the last one that
\* was sent.
SentInOrder(r) ==
  /\ \A p \in 1 .. OutLen : OutAt(p)[1] = r /\ label[r][OutAt(p)[2]] \notin {none, 0} =>
       Out(r, p - 1) = 1 .. label[r][OutAt(p)[2]] - 1
  /\ Out(r, OutLen) = Made(r, sent[r])

SentLabels == \A e \in Range(wire) \cup Range(respCh) : e[1] \in Requests => e[2] <= sent[e[1]]

\* While the writer goes on, what it writes next is in order.
Sequenced ==
  /\ SentLabels /\ StreamInSequence
  /\ writer = "range" => \A r \in Streams : SentInOrder(r)

LEMMA SequencedInit == RtInit => Sequenced
<1> SUFFICES ASSUME RtInit
             PROVE  Sequenced
  OBVIOUS
<1>1. wire = <<>> /\ respCh = <<>> /\ sent = [r \in Requests |-> 0]
  BY DEF RtInit, Init
<1>2. Range(wire) = {} /\ Range(respCh) = {} /\ DOMAIN wire = {} /\ OutLen = 0
  BY <1>1 DEF Range, OutLen
<1>3. ASSUME NEW r \in Streams
      PROVE  SentInOrder(r)
  <2>1. Out(r, OutLen) = {} /\ Made(r, sent[r]) = {}
    BY <1>1, <1>2, StreamFacts DEF Out, Made
  <2> QED
    BY <1>2, <2>1 DEF SentInOrder
<1> QED
  BY <1>2, <1>3 DEF Sequenced, SentLabels, StreamInSequence

\* What was sent has a label.
LEMMA OutFacts ==
  ASSUME TypeOK, SentLabels
  PROVE  /\ Len(wire) \in Nat /\ OutLen \in Nat /\ DOMAIN wire = 1 .. Len(wire) /\ Len(wire) <= OutLen
         /\ \A p \in 1 .. OutLen : OutAt(p)[1] \in Requests => OutAt(p)[2] \in 1 .. sent[OutAt(p)[1]]
<1>1. wire \in Seq(Response) /\ respCh \in Seq(Response) /\ sent \in [Requests -> Nat]
  BY DEF TypeOK
<1>2. /\ Len(wire) \in Nat /\ Len(respCh) \in Nat /\ OutLen = Len(wire) + Len(respCh)
      /\ DOMAIN wire = 1 .. Len(wire) /\ DOMAIN respCh = 1 .. Len(respCh)
  BY <1>1 DEF OutLen
<1>3. \A p \in 1 .. OutLen : OutAt(p) \in Range(wire) \cup Range(respCh) /\ OutAt(p) \in Response
  <2> SUFFICES ASSUME NEW p \in 1 .. OutLen
               PROVE  OutAt(p) \in Range(wire) \cup Range(respCh) /\ OutAt(p) \in Response
    OBVIOUS
  <2>1. CASE p <= Len(wire)
    <3>1. p \in DOMAIN wire
      BY <1>2, <2>1
    <3> QED
      BY <1>1, <2>1, <3>1 DEF OutAt, Range
  <2>2. CASE ~(p <= Len(wire))
    <3>1. p - Len(wire) \in DOMAIN respCh
      BY <1>2, <2>2
    <3> QED
      BY <1>1, <2>2, <3>1 DEF OutAt, Range
  <2> QED
    BY <2>1, <2>2
<1>4. \A e \in Response : e[2] \in Nat \ {0}
  BY DEF Response
<1>5. ASSUME NEW p \in 1 .. OutLen, OutAt(p)[1] \in Requests
      PROVE  OutAt(p)[2] \in 1 .. sent[OutAt(p)[1]]
  <2>1. OutAt(p)[2] <= sent[OutAt(p)[1]]
    BY <1>3, <1>5 DEF SentLabels
  <2>2. OutAt(p)[2] \in Nat \ {0} /\ sent[OutAt(p)[1]] \in Nat
    BY <1>1, <1>3, <1>4, <1>5
  <2> QED
    BY <2>1, <2>2
<1> QED
  BY <1>2, <1>5

\* On the wire the numbers of the whole are those of the wire.
LEMMA WireNumbers ==
  ASSUME Len(wire) \in Nat, NEW r, NEW i \in 0 .. Len(wire)
  PROVE  Out(r, i) = Numbers(r, i)
<1>1. \A k \in 1 .. i : OutAt(k) = wire[k]
  BY DEF OutAt
<1> QED
  BY <1>1 DEF Out, Numbers

LEMMA NextWireNumbers ==
  ASSUME Len(wire)' \in Nat, NEW r, NEW i \in 0 .. Len(wire)'
  PROVE  Out(r, i)' = Numbers(r, i)'
<1>1. \A k \in 1 .. i : OutAt(k)' = wire'[k]
  BY DEF OutAt
<1>2. {k \in 1 .. i : OutAt(k)'[1] = r} = {k \in 1 .. i : wire'[k][1] = r}
  BY <1>1
<1>3. Out(r, i)' = {label'[r][wire'[k][2]] : k \in {k \in 1 .. i : wire'[k][1] = r}} \ {none, 0}
  BY <1>1, <1>2 DEF Out
<1> QED
  BY <1>3 DEF Numbers

\* A step that keeps the first n places and the labels of what was sent.
Keeps(n) ==
  /\ \A p \in 1 .. n : OutAt(p)' = OutAt(p)
  /\ \A r \in Requests : \A j \in 1 .. sent[r] : label'[r][j] = label[r][j]

LEMMA OutKept ==
  ASSUME TypeOK, SentLabels, NEW n \in 0 .. OutLen, Keeps(n), NEW r \in Requests, NEW p \in 0 .. n
  PROVE  /\ Out(r, p)' = Out(r, p)
         /\ Made(r, sent[r]) = {label'[r][j] : j \in 1 .. sent[r]} \ {none, 0}
<1>1. n \in Nat /\ \A k \in 1 .. p : k \in 1 .. n /\ k \in 1 .. OutLen
  BY OutFacts
<1>2. ASSUME NEW k \in 1 .. p
      PROVE  OutAt(k)' = OutAt(k) /\ (OutAt(k)[1] = r => label'[r][OutAt(k)[2]] = label[r][OutAt(k)[2]])
  BY <1>1, OutFacts DEF Keeps
<1>3. Out(r, p)' = Out(r, p)
  BY <1>2 DEF Out
<1>4. Made(r, sent[r]) = {label'[r][j] : j \in 1 .. sent[r]} \ {none, 0}
  BY DEF Made, Keeps
<1> QED
  BY <1>3, <1>4

\* The order so far is kept too.
LEMMA OrderKept ==
  ASSUME TypeOK, SentLabels, NEW n \in 0 .. OutLen, Keeps(n), NEW r \in Requests, SentInOrder(r),
         NEW p \in 1 .. n, OutAt(p)'[1] = r, label'[r][OutAt(p)'[2]] \notin {none, 0}
  PROVE  Out(r, p - 1)' = 1 .. label'[r][OutAt(p)'[2]] - 1
<1>0. OutLen \in Nat /\ n \in Nat /\ n <= OutLen
  BY OutFacts
<1>1. p \in 1 .. OutLen /\ p - 1 \in 0 .. n /\ OutAt(p)' = OutAt(p)
  BY <1>0 DEF Keeps
<1>2. label'[r][OutAt(p)[2]] = label[r][OutAt(p)[2]]
  BY <1>1, OutFacts DEF Keeps
<1>3. Out(r, p - 1)' = Out(r, p - 1)
  BY <1>1, OutKept
<1>4. Out(r, p - 1) = 1 .. label[r][OutAt(p)[2]] - 1
  BY <1>1, <1>2 DEF SentInOrder
<1> QED
  BY <1>1, <1>2, <1>3, <1>4

\* What is on the wire stays in order.
LEMMA WireKept ==
  ASSUME TypeOK, SentLabels, StreamInSequence, wire' = wire, Keeps(Len(wire))
  PROVE  StreamInSequence'
<1> SUFFICES ASSUME NEW r \in Streams, NEW i \in DOMAIN wire, wire[i][1] = r, label'[r][wire[i][2]] \notin {none, 0}
             PROVE  Numbers(r, i - 1)' = 1 .. label'[r][wire[i][2]] - 1
  BY DEF StreamInSequence
<1>0. DOMAIN wire = 1 .. Len(wire) /\ Len(wire) \in Nat /\ Len(wire) <= OutLen /\ OutLen \in Nat
  BY OutFacts
<1>1. /\ i \in 1 .. Len(wire) /\ Len(wire) \in Nat /\ Len(wire) \in 0 .. OutLen /\ OutLen \in Nat
      /\ i \in 1 .. OutLen /\ i - 1 \in 0 .. Len(wire) /\ r \in Requests
  BY <1>0, StreamFacts
<1>2. OutAt(i) = wire[i]
  BY <1>1 DEF OutAt
<1>3. label'[r][wire[i][2]] = label[r][wire[i][2]]
  <2>1. wire[i][2] \in 1 .. sent[r]
    BY <1>1, <1>2, OutFacts
  <2> QED
    BY <1>1, <2>1 DEF Keeps
<1>4. Numbers(r, i - 1)' = Numbers(r, i - 1)
  <2>1. Out(r, i - 1)' = Out(r, i - 1)
    BY <1>1, OutKept
  <2>2. Out(r, i - 1) = Numbers(r, i - 1)
    BY <1>1, WireNumbers
  <2>3. Out(r, i - 1)' = Numbers(r, i - 1)'
    BY <1>1, NextWireNumbers
  <2> QED
    BY <2>1, <2>2, <2>3
<1>5. Numbers(r, i - 1) = 1 .. label[r][wire[i][2]] - 1
  BY <1>3 DEF StreamInSequence
<1> QED
  BY <1>3, <1>4, <1>5

\* Nothing is sent or written.
LEMMA SequencedQuiet ==
  ASSUME TypeOK, Sequenced, UNCHANGED <<wire, respCh, sent>>, writer' = "range" => writer = "range",
         \A r \in Requests : \A j \in 1 .. sent[r] : label'[r][j] = label[r][j]
  PROVE  Sequenced'
<1>1. SentLabels /\ StreamInSequence
  BY DEF Sequenced
<1>2. OutLen' = OutLen /\ \A p : OutAt(p)' = OutAt(p)
  BY DEF OutLen, OutAt
<1>3. /\ \A n : Keeps(n)
      /\ OutLen \in Nat /\ OutLen \in 0 .. OutLen
  BY <1>1, <1>2, OutFacts DEF Keeps
<1>4. SentLabels'
  BY <1>1 DEF SentLabels, Range
<1>5. StreamInSequence'
  BY <1>1, <1>3, WireKept
<1>6. ASSUME writer' = "range", NEW r \in Streams
      PROVE  SentInOrder(r)'
  <2>1. r \in Requests /\ SentInOrder(r)
    BY <1>6, StreamFacts DEF Sequenced
  <2>2. Out(r, OutLen)' = Out(r, OutLen)
    <3>1. Out(r, OutLen)' = {label'[r][OutAt(k)[2]] : k \in {k \in 1 .. OutLen : OutAt(k)[1] = r}} \ {none, 0}
      BY <1>2 DEF Out
    <3>2. \A k \in 1 .. OutLen : OutAt(k)[1] = r => label'[r][OutAt(k)[2]] = label[r][OutAt(k)[2]]
      BY <1>1, <2>1, OutFacts
    <3> QED
      BY <3>1, <3>2 DEF Out
  <2>3. Made(r, sent[r])' = Made(r, sent[r])
    BY <2>1 DEF Made
  <2>4. ASSUME NEW p \in 1 .. OutLen, OutAt(p)'[1] = r, label'[r][OutAt(p)'[2]] \notin {none, 0}
        PROVE  Out(r, p - 1)' = 1 .. label'[r][OutAt(p)'[2]] - 1
    BY <1>1, <1>3, <2>1, <2>4, OrderKept
  <2>5. Out(r, OutLen)' = Made(r, sent[r])'
    BY <2>1, <2>2, <2>3 DEF SentInOrder
  <2> QED
    BY <1>2, <2>4, <2>5 DEF SentInOrder
<1> QED
  BY <1>4, <1>5, <1>6 DEF Sequenced

\* A response is sent: a metrics response, or the next one of a handler.
Sends(e) ==
  /\ respCh' = Append(respCh, e) /\ UNCHANGED <<wire, writer, label>>
  /\ \/ e[1] = "metrics" /\ UNCHANGED sent
     \/ \E q \in Requests : e = <<q, sent[q] + 1>> /\ sent' = [sent EXCEPT ![q] = @ + 1] /\ handler[q] = "send"

LEMMA SentFacts ==
  ASSUME TypeOK, Labeled, NEW e \in Response, Sends(e), NEW r \in Requests
  PROVE  /\ sent[r] \in Nat
         /\ e[1] = r => /\ e[2] = sent[r] + 1 /\ sent'[r] = sent[r] + 1 /\ Len(label[r]) = sent[r] + 1
         /\ e[1] # r => sent'[r] = sent[r]
<1>1. sent \in [Requests -> Nat] /\ "metrics" \notin Requests
  BY RuntimeAssumption DEF TypeOK
<1>2. CASE e[1] = "metrics" /\ UNCHANGED sent
  BY <1>1, <1>2
<1>3. ASSUME NEW q \in Requests, e = <<q, sent[q] + 1>>, sent' = [sent EXCEPT ![q] = @ + 1], handler[q] = "send"
      PROVE  /\ e[1] = r => e[2] = sent[r] + 1 /\ sent'[r] = sent[r] + 1 /\ Len(label[r]) = sent[r] + 1
             /\ e[1] # r => sent'[r] = sent[r]
  <2>1. e[1] = q /\ e[2] = sent[q] + 1
    BY <1>3
  <2>2. Len(label[q]) = sent[q] + 1
    BY <1>3 DEF Labeled
  <2> QED
    BY <1>1, <1>3, <2>1, <2>2
<1> QED
  BY <1>1, <1>2, <1>3 DEF Sends

LEMMA SequencedSend ==
  ASSUME TypeOK, Labels, Sequenced, NEW e \in Response, Sends(e)
  PROVE  Sequenced'
<1>0. SentLabels /\ StreamInSequence /\ Labeled
  BY DEF Sequenced, Labels
<1>1. PICK N \in Nat : N = OutLen
  BY <1>0, OutFacts
<1>2. UNCHANGED <<wire, writer, label>> /\ Len(wire) \in Nat /\ Len(wire) <= N
  BY <1>0, <1>1, OutFacts DEF Sends
<1>3. /\ OutLen' = N + 1 /\ OutAt(N + 1)' = e
      /\ \A p \in 1 .. N : OutAt(p)' = OutAt(p)
  <2>1. respCh \in Seq(Response) /\ Len(respCh) \in Nat /\ N = Len(wire) + Len(respCh)
    BY <1>1 DEF TypeOK, OutLen
  <2>2. /\ Len(respCh') = Len(respCh) + 1 /\ respCh'[Len(respCh) + 1] = e
        /\ \A i \in 1 .. Len(respCh) : respCh'[i] = respCh[i]
    BY <2>1 DEF Sends
  <2>3. OutLen' = N + 1
    BY <1>2, <2>1, <2>2 DEF OutLen
  <2>4. OutAt(N + 1)' = e
    BY <1>2, <2>1, <2>2 DEF OutAt
  <2>5. \A p \in 1 .. N : OutAt(p)' = OutAt(p)
    BY <1>2, <2>1, <2>2 DEF OutAt
  <2> QED
    BY <2>3, <2>4, <2>5
<1>4. \A n \in 0 .. N : Keeps(n) /\ n \in 0 .. OutLen
  BY <1>1, <1>2, <1>3 DEF Keeps
<1>5. ASSUME writer = "range", NEW r \in Streams
      PROVE  SentInOrder(r)'
  <2>0. r \in Requests /\ SentInOrder(r) /\ DrawnInOrder(r)
    BY <1>5, StreamFacts DEF Sequenced, Labels
  <2>1. Out(r, N)' = Out(r, N) /\ Out(r, N) = Made(r, sent[r])
    <3>1. N \in 0 .. N
      OBVIOUS
    <3>2. Out(r, N)' = Out(r, N)
      BY <1>0, <1>4, <2>0, <3>1, OutKept
    <3> QED
      BY <1>1, <2>0, <3>2 DEF SentInOrder
  <2>2. ASSUME NEW p \in 1 .. N, OutAt(p)'[1] = r, label'[r][OutAt(p)'[2]] \notin {none, 0}
        PROVE  Out(r, p - 1)' = 1 .. label'[r][OutAt(p)'[2]] - 1
    <3>1. N \in 0 .. N
      OBVIOUS
    <3> QED
      BY <1>0, <1>4, <2>0, <2>2, <3>1, OrderKept
  <2>3. Out(r, N + 1)' = Out(r, N) \cup (IF e[1] = r THEN {label[r][e[2]]} \ {none, 0} ELSE {})
    <3>1. \A k : k \in 1 .. N + 1 <=> k \in 1 .. N \/ k = N + 1
      OBVIOUS
    <3>2. Out(r, N + 1)' = Out(r, N)' \cup (IF e[1] = r THEN {label'[r][e[2]]} \ {none, 0} ELSE {})
      BY <1>3, <3>1 DEF Out
    <3> QED
      BY <1>2, <2>1, <3>2
  <2>4. CASE e[1] # r
    <3>1. sent'[r] = sent[r]
      BY <1>0, <2>0, <2>4, SentFacts
    <3>2. Made(r, sent[r])' = Made(r, sent[r])
      BY <1>2, <3>1 DEF Made
    <3>3. Out(r, N + 1)' = Made(r, sent[r])'
      BY <2>1, <2>3, <2>4, <3>2
    <3>4. OutAt(N + 1)'[1] # r
      BY <1>3, <2>4
    <3>5. \A p \in 1 .. N + 1 : p \in 1 .. N \/ p = N + 1
      OBVIOUS
    <3>6. ASSUME NEW p \in 1 .. N + 1, OutAt(p)'[1] = r, label'[r][OutAt(p)'[2]] \notin {none, 0}
          PROVE  Out(r, p - 1)' = 1 .. label'[r][OutAt(p)'[2]] - 1
      <4>1. p \in 1 .. N
        BY <3>4, <3>5, <3>6
      <4> QED
        BY <2>2, <3>6, <4>1
    <3> QED
      BY <1>3, <3>3, <3>6 DEF SentInOrder
  <2>5. CASE e[1] = r
    <3>1. PICK m \in Nat : m = sent[r] /\ e[2] = m + 1 /\ sent'[r] = m + 1 /\ Len(label[r]) = m + 1
      BY <1>0, <2>0, <2>5, SentFacts
    <3>2. Made(r, sent[r])' = Made(r, m + 1)
      BY <1>2, <3>1 DEF Made
    <3>3. Out(r, N + 1)' = Made(r, sent[r])'
      <4>1. Made(r, m + 1) = Made(r, m) \cup ({label[r][m + 1]} \ {none, 0})
        BY MadeOneMore
      <4>2. Out(r, N + 1)' = Made(r, m) \cup ({label[r][m + 1]} \ {none, 0})
        BY <2>1, <2>3, <2>5, <3>1
      <4> QED
        BY <3>2, <4>1, <4>2
    <3>4. label[r][m + 1] \notin {none, 0} => Made(r, m) = 1 .. label[r][m + 1] - 1
      <4>1. m + 1 \in 1 .. Len(label[r]) /\ (m + 1) - 1 = m
        BY <3>1
      <4> QED
        BY <2>0, <4>1 DEF DrawnInOrder
    <3>5. label'[r][OutAt(N + 1)'[2]] \notin {none, 0} => Out(r, N)' = 1 .. label'[r][OutAt(N + 1)'[2]] - 1
      BY <1>2, <1>3, <2>1, <3>1, <3>4
    <3>6. ASSUME NEW p \in 1 .. N + 1, OutAt(p)'[1] = r, label'[r][OutAt(p)'[2]] \notin {none, 0}
          PROVE  Out(r, p - 1)' = 1 .. label'[r][OutAt(p)'[2]] - 1
      <4>1. CASE p \in 1 .. N
        BY <2>2, <3>6, <4>1
      <4>2. CASE p = N + 1
        <5>1. p - 1 = N
          BY <4>2
        <5> QED
          BY <3>5, <3>6, <4>2, <5>1
      <4> QED
        BY <4>1, <4>2
    <3> QED
      BY <1>3, <3>3, <3>6 DEF SentInOrder
  <2> QED
    BY <2>4, <2>5
<1>6. StreamInSequence'
  <2>1. Len(wire) \in 0 .. N
    BY <1>2
  <2> QED
    BY <1>0, <1>2, <1>4, <2>1, WireKept
<1>7. SentLabels'
  <2>1. Range(wire)' = Range(wire) /\ Range(respCh)' = Range(respCh) \cup {e}
    <3>1. Range(wire)' = Range(wire) /\ Range(respCh)' = Range(respCh')
      BY <1>2 DEF Range
    <3>2. Range(respCh') = Range(respCh) \cup {e}
      BY AppendRange DEF Sends, TypeOK
    <3> QED
      BY <3>1, <3>2
  <2>2. ASSUME NEW x \in Range(wire) \cup Range(respCh), x[1] \in Requests
        PROVE  x[2] <= sent'[x[1]]
    <3>1. x \in Response
      <4>1. wire \in Seq(Response) /\ respCh \in Seq(Response)
        BY DEF TypeOK
      <4> QED
        BY <4>1 DEF Range
    <3>2. x[2] \in Nat
      BY <3>1 DEF Response
    <3>3. x[2] <= sent[x[1]]
      BY <1>0, <2>2 DEF SentLabels
    <3>4. /\ sent[x[1]] \in Nat
          /\ sent'[x[1]] = sent[x[1]] \/ sent'[x[1]] = sent[x[1]] + 1
      BY <1>0, <2>2, SentFacts
    <3> QED
      BY <3>2, <3>3, <3>4
  <2>3. e[1] \in Requests => e[2] <= sent'[e[1]]
    <3> SUFFICES ASSUME e[1] \in Requests
                 PROVE  e[2] <= sent'[e[1]]
      OBVIOUS
    <3>1. e[2] = sent[e[1]] + 1 /\ sent'[e[1]] = sent[e[1]] + 1 /\ sent[e[1]] \in Nat
      BY <1>0, SentFacts
    <3> QED
      BY <3>1
  <2> QED
    BY <2>1, <2>2, <2>3 DEF SentLabels
<1> QED
  BY <1>2, <1>5, <1>6, <1>7 DEF Sequenced

LEMMA SequencedEncode ==
  ASSUME TypeOK, Sequenced, Encode, UNCHANGED label
  PROVE  Sequenced'
<1>0. SentLabels /\ StreamInSequence
  BY DEF Sequenced
<1>1. respCh # <<>> /\ respCh' = Tail(respCh) /\ writer = "range" /\ sent' = sent
  BY DEF Encode
<1>2. respCh \in Seq(Response) /\ wire \in Seq(Response)
  BY DEF TypeOK
<1>3. Range(respCh) = {Head(respCh)} \cup Range(respCh') /\ Head(respCh) \in Response
  BY <1>1, <1>2, TailRange, TailFacts
<1>4. CASE UNCHANGED wire /\ writer' = "fail"
  <2>1. \A r, i : Numbers(r, i)' = Numbers(r, i)
    BY <1>4 DEF Numbers
  <2>2. StreamInSequence'
    BY <1>0, <1>4, <2>1 DEF StreamInSequence
  <2>3. Range(wire)' = Range(wire) /\ Range(respCh)' = Range(respCh')
    BY <1>4 DEF Range
  <2>4. SentLabels'
    BY <1>0, <1>1, <1>3, <2>3 DEF SentLabels
  <2> QED
    BY <1>4, <2>2, <2>4 DEF Sequenced
<1>5. CASE wire' = Append(wire, Head(respCh)) /\ UNCHANGED <<writer, failed>>
  <2>1. PICK N \in Nat : N = OutLen
    BY <1>0, OutFacts
  <2>2. PICK w \in Nat : w = Len(wire)
    BY <1>2
  <2>3. /\ OutLen' = N /\ Len(wire') = w + 1 /\ w + 1 <= N /\ DOMAIN wire' = 1 .. w + 1
        /\ \A p \in 1 .. N : OutAt(p)' = OutAt(p)
    <3>1. Len(respCh) \in Nat /\ N = w + Len(respCh) /\ Len(respCh) > 0
      BY <1>1, <1>2, <2>1, <2>2 DEF OutLen
    <3>2. /\ Len(wire') = w + 1 /\ wire'[w + 1] = respCh[1] /\ DOMAIN wire' = 1 .. w + 1
          /\ \A i \in 1 .. w : wire'[i] = wire[i]
      BY <1>2, <1>3, <1>5, <2>2
    <3>3. Len(respCh') = Len(respCh) - 1 /\ \A i \in 1 .. Len(respCh) - 1 : respCh'[i] = respCh[i + 1]
      BY <1>1, <1>2
    <3>4. ASSUME NEW p \in 1 .. N
          PROVE  OutAt(p)' = OutAt(p)
      <4>1. CASE p <= w
        BY <2>2, <3>1, <3>2, <4>1 DEF OutAt
      <4>2. CASE p = w + 1
        BY <2>2, <3>1, <3>2, <4>2 DEF OutAt
      <4>3. CASE p > w + 1
        <5>1. /\ p - (w + 1) \in 1 .. Len(respCh) - 1 /\ (p - (w + 1)) + 1 = p - w
              /\ ~(p <= w + 1) /\ ~(p <= w)
          BY <3>1, <4>3
        <5>2. OutAt(p) = respCh[p - w] /\ OutAt(p)' = respCh'[p - (w + 1)]
          BY <2>2, <3>2, <5>1 DEF OutAt
        <5> QED
          BY <3>3, <5>1, <5>2
      <4> QED
        BY <4>1, <4>2, <4>3
    <3>5. OutLen' = N
      BY <3>1, <3>2, <3>3 DEF OutLen
    <3>6. w + 1 <= N
      BY <3>1
    <3> QED
      BY <3>2, <3>4, <3>5, <3>6
  <2>4. \A n \in 0 .. N : Keeps(n) /\ n \in 0 .. OutLen
    BY <2>1, <2>3 DEF Keeps
  <2>5. N \in 0 .. N /\ Keeps(N) /\ N \in 0 .. OutLen
    BY <2>4
  <2>6. ASSUME NEW r \in Streams, NEW p \in 1 .. N, OutAt(p)'[1] = r, label'[r][OutAt(p)'[2]] \notin {none, 0}
        PROVE  Out(r, p - 1)' = 1 .. label'[r][OutAt(p)'[2]] - 1
    <3>1. r \in Requests /\ SentInOrder(r)
      BY <1>1, StreamFacts DEF Sequenced
    <3> QED
      BY <1>0, <2>5, <2>6, <3>1, OrderKept
  <2>7. StreamInSequence'
    <3> SUFFICES ASSUME NEW r \in Streams, NEW i \in DOMAIN wire', wire'[i][1] = r,
                        label'[r][wire'[i][2]] \notin {none, 0}
                 PROVE  Numbers(r, i - 1)' = 1 .. label'[r][wire'[i][2]] - 1
      BY DEF StreamInSequence
    <3>1. i \in 1 .. N /\ i \in 1 .. w + 1 /\ i - 1 \in 0 .. w + 1
      BY <2>3
    <3>2. \A k \in 1 .. w + 1 : OutAt(k)' = wire'[k]
      BY <2>3 DEF OutAt
    <3>3. Out(r, i - 1)' = Numbers(r, i - 1)'
      BY <2>3, <3>1, NextWireNumbers
    <3> QED
      BY <2>6, <3>1, <3>2, <3>3
  <2>8. SentLabels'
    <3>1. Range(wire)' = Range(wire) \cup {Head(respCh)}
      <4>1. Range(wire)' = Range(wire')
        BY DEF Range
      <4> QED
        BY <1>2, <1>3, <1>5, <4>1, AppendRange
    <3>2. Range(respCh)' = Range(respCh')
      BY DEF Range
    <3> QED
      BY <1>0, <1>1, <1>3, <3>1, <3>2 DEF SentLabels
  <2>9. ASSUME NEW r \in Streams
        PROVE  SentInOrder(r)'
    <3>1. Out(r, N)' = Out(r, N) /\ Out(r, N) = Made(r, sent[r])
      <4>1. r \in Requests /\ SentInOrder(r)
        BY <1>1, StreamFacts DEF Sequenced
      <4>2. Out(r, N)' = Out(r, N)
        BY <1>0, <2>5, <4>1, OutKept
      <4> QED
        BY <2>1, <4>1, <4>2 DEF SentInOrder
    <3>2. Made(r, sent[r])' = Made(r, sent[r])
      BY <1>1 DEF Made
    <3> QED
      BY <2>3, <2>6, <3>1, <3>2 DEF SentInOrder
  <2> QED
    BY <2>7, <2>8, <2>9 DEF Sequenced
<1> QED
  BY <1>4, <1>5 DEF Encode

LEMMA SequencedStep ==
  ASSUME TypeOK, ticks \in Nat, Labels, Sequenced, [RtNext]_rtVars
  PROVE  Sequenced'
<1> USE DEF writerVars
<1>1. ASSUME UNCHANGED <<wire, respCh, sent, label>>, writer' = "range" => writer = "range"
      PROVE  Sequenced'
  BY <1>1, SequencedQuiet
<1>a. Labeled
  BY DEF Labels
<1>2. CASE ServeStep
  <2>1. UNCHANGED label
    BY <1>2 DEF ServeStep
  <2>2. CASE Encode
    BY <2>1, <2>2, SequencedEncode
  <2>3. CASE ~Encode
    <3>1. [Next]_vars /\ \A r \in Requests : ~Send(r)
      <4>1. [Next]_vars
        BY <1>2 DEF ServeStep, Next, Reader
      <4>2. ASSUME NEW r \in Requests, Send(r)
            PROVE  FALSE
        <5>1. sent'[r] # sent[r]
          <6>1. sent' = [sent EXCEPT ![r] = @ + 1]
            BY <4>2 DEF Send
          <6>2. sent \in [Requests -> Nat]
            BY DEF TypeOK
          <6> QED
            BY <6>1, <6>2
        <5>2. sent' = sent
          BY <1>2 DEF ServeStep, ReadRequest, ReadEnd, ReadError, ReadFail, Writer, Encode, WriteFail, WriteEnd,
             Main, Dispatch, LeaveCanceled, LeaveFailed, LeaveEnded, CloseResponses, ServeReturn, Cancel, handlerVars
        <5> QED
          BY <5>1, <5>2
      <4> QED
        BY <4>1, <4>2
    <3> QED
      BY <1>1, <2>1, <2>3, <3>1, WriterFacts
  <2> QED
    BY <2>2, <2>3
<1>3. CASE Tick
  <2>1. UNCHANGED <<wire, writer, label, sent>>
    BY <1>3 DEF Tick
  <2>2. CASE respCh' = respCh
    BY <1>1, <2>1, <2>2
  <2>3. CASE respCh' = Append(respCh, <<"metrics", ticks + 1>>)
    <3>1. <<"metrics", ticks + 1>> \in Response
      BY DEF Response
    <3>2. Sends(<<"metrics", ticks + 1>>)
      BY <2>1, <2>3 DEF Sends
    <3> QED
      BY <3>1, <3>2, SequencedSend
  <2> QED
    BY <1>3, <2>2, <2>3 DEF Tick
<1>4. CASE TickStop \/ UNCHANGED rtVars
  BY <1>1, <1>4 DEF TickStop, rtVars, vars, handlerVars
<1>5. ASSUME NEW r \in Requests, HandlerStep(r)
      PROVE  Sequenced'
  <2>1. CASE EnterCancel(r) \/ Finish(r)
    BY <1>1, <2>1 DEF EnterCancel, Finish, Return
  <2>2. CASE Enter(r) \/ MethodReturns(r)
    BY <1>1, <2>2 DEF Enter, MethodReturns, vars, handlerVars
  <2>3. CASE Write(r)
    <3>1. PICK n \in Nat \cup {none} :
            /\ label' = [label EXCEPT ![r] = Append(@, n)]
            /\ handler[r] = "run" /\ UNCHANGED <<sent, respCh, wire, writer>>
      BY <1>a, <2>3, WriteFacts
    <3>2. /\ \A j \in 1 .. Len(label[r]) : label'[r][j] = label[r][j]
          /\ \A q \in Requests : q # r => label'[q] = label[q]
      BY <1>a, <3>1, LabelKept
    <3>3. Len(label[r]) = sent[r]
      BY <1>a, <3>1 DEF Labeled
    <3> QED
      BY <3>1, <3>2, <3>3, SequencedQuiet
  <2>4. CASE SendResponse(r)
    <3>1. <<r, sent[r] + 1>> \in Response
      <4>1. sent[r] + 1 \in Nat \ {0}
        BY DEF TypeOK
      <4> QED
        BY <4>1 DEF Response
    <3>2. Sends(<<r, sent[r] + 1>>)
      BY <2>4 DEF SendResponse, Send, Sends
    <3> QED
      BY <3>1, <3>2, SequencedSend
  <2> QED
    BY <1>5, <2>1, <2>2, <2>3, <2>4 DEF HandlerStep
<1> QED
  BY <1>2, <1>3, <1>4, <1>5 DEF RtNext

SequenceInv == BootInv /\ Labels /\ Sequenced

\* The sequence IDs of a stream count 1, 2, 3, ... on the wire until the stream
\* is canceled, for any requests whose streams have IDs of their own: whatever
\* the other handlers and the metrics loop send in between, however full the
\* channel is and wherever the writer fails.
THEOREM RtStreamOrder == RtSpec => []StreamInSequence
<1>1. RtInit => SequenceInv
  BY BootInit, LabelsInit, SequencedInit DEF SequenceInv
<1>2. SequenceInv /\ BootInv' /\ [RtNext]_rtVars => SequenceInv'
  BY LabelsStep, SequencedStep DEF SequenceInv, BootInv, RtShutdownInv, ShutdownInv
<1>3. SequenceInv => StreamInSequence
  BY DEF SequenceInv, Sequenced
<1> QED
  BY <1>1, <1>2, <1>3, BootInvariant, PTL DEF RtSpec

=============================================================================
