------------------------ MODULE ResponseWriterProofs ------------------------
(***************************************************************************)
(* Proofs about ResponseWriter for any goroutines, requests and capacity:  *)
(* every response on the wire names the request it answers, and no         *)
(* response ID or sequence number is used twice or skipped.                *)
(***************************************************************************)
EXTENDS ResponseWriter, TLAPS

-----------------------------------------------------------------------------
(* Sequences used as Go channels.                                          *)

\* A send on a channel adds one element at its end.
LEMMA AppendFacts ==
  ASSUME NEW S, NEW q \in Seq(S), NEW e \in S
  PROVE  /\ Append(q, e) \in Seq(S)
         /\ Len(Append(q, e)) = Len(q) + 1
         /\ DOMAIN Append(q, e) = 1 .. Len(q) + 1
         /\ DOMAIN q = 1 .. Len(q)
         /\ \A i \in DOMAIN q : Append(q, e)[i] = q[i]
         /\ Append(q, e)[Len(q) + 1] = e
  OBVIOUS

-----------------------------------------------------------------------------
(* What has been sent.                                                     *)

LEMMA CatFacts ==
  ASSUME NEW S, NEW q \in Seq(S), NEW t \in Seq(S)
  PROVE  /\ DOMAIN (q \o t) = 1 .. Len(q) + Len(t) /\ Len(q \o t) = Len(q) + Len(t)
         /\ \A k \in 1 .. Len(q) + Len(t) : (q \o t)[k] = IF k <= Len(q) THEN q[k] ELSE t[k - Len(q)]
OBVIOUS

LEMMA SentFacts ==
  ASSUME TypeOK
  PROVE  /\ Len(Sent) \in Nat /\ DOMAIN Sent = 1 .. Len(Sent)
         /\ \A k \in DOMAIN Sent : Sent[k] \in Items("sent")
         /\ \A k \in DOMAIN wire : k \in DOMAIN Sent /\ Sent[k] = wire[k]
<1>1. wire \in Seq(Items("sent")) /\ ch \in Seq(Items("sent"))
  BY DEF TypeOK
<1>2. /\ wire \o ch \in Seq(Items("sent")) /\ Len(wire \o ch) = Len(wire) + Len(ch)
      /\ \A k \in 1 .. Len(wire) : (wire \o ch)[k] = wire[k]
  BY <1>1
<1> QED
  BY <1>1, <1>2 DEF Sent

LEMMA SentAppend ==
  ASSUME TypeOK, NEW e \in Items("sent"), ch' = Append(ch, e), UNCHANGED wire
  PROVE  /\ DOMAIN Sent' = 1 .. Len(Sent) + 1 /\ Sent'[Len(Sent) + 1] = e
         /\ \A k \in 1 .. Len(Sent) : Sent'[k] = Sent[k]
<1>1. wire \in Seq(Items("sent")) /\ ch \in Seq(Items("sent"))
  BY DEF TypeOK
<1>2. /\ ch' \in Seq(Items("sent")) /\ Len(ch') = Len(ch) + 1 /\ ch'[Len(ch) + 1] = e
      /\ \A k \in 1 .. Len(ch) : ch'[k] = ch[k]
  BY <1>1
<1>3. /\ Len(wire) \in Nat /\ Len(ch) \in Nat /\ Len(Sent) = Len(wire) + Len(ch)
      /\ \A k \in 1 .. Len(wire) + Len(ch) : Sent[k] = IF k <= Len(wire) THEN wire[k] ELSE ch[k - Len(wire)]
  BY <1>1 DEF Sent
<1>4. /\ DOMAIN Sent' = 1 .. Len(wire) + Len(ch')
      /\ \A k \in 1 .. Len(wire) + Len(ch') : Sent'[k] = IF k <= Len(wire) THEN wire[k] ELSE ch'[k - Len(wire)]
  <2>1. Sent' = wire \o ch'
    BY DEF Sent
  <2> QED
    BY <1>1, <1>2, <2>1, CatFacts
<1>5. DOMAIN Sent' = 1 .. Len(Sent) + 1
  BY <1>2, <1>3, <1>4
<1>6. Sent'[Len(Sent) + 1] = e
  <2>1. /\ Len(Sent) + 1 \in 1 .. Len(wire) + Len(ch') /\ ~(Len(Sent) + 1 <= Len(wire))
        /\ (Len(Sent) + 1) - Len(wire) = Len(ch) + 1
    BY <1>2, <1>3
  <2> QED
    BY <1>2, <1>4, <2>1
<1>7. ASSUME NEW k \in 1 .. Len(Sent)
      PROVE  Sent'[k] = Sent[k]
  <2>1. k \in 1 .. Len(wire) + Len(ch') /\ (~(k <= Len(wire)) => k - Len(wire) \in 1 .. Len(ch))
    BY <1>2, <1>3
  <2> QED
    BY <1>2, <1>3, <1>4, <2>1
<1> QED
  BY <1>5, <1>6, <1>7

LEMMA SentSame ==
  ASSUME TypeOK, ch # <<>>, ch' = Tail(ch), wire' = Append(wire, Head(ch))
  PROVE  DOMAIN Sent' = DOMAIN Sent /\ \A k \in DOMAIN Sent : Sent'[k] = Sent[k]
<1>1. wire \in Seq(Items("sent")) /\ ch \in Seq(Items("sent"))
  BY DEF TypeOK
<1>2. /\ ch' \in Seq(Items("sent")) /\ Len(ch') = Len(ch) - 1 /\ Len(ch) > 0 /\ Head(ch) \in Items("sent")
      /\ \A k \in 1 .. Len(ch) - 1 : ch'[k] = ch[k + 1]
  BY <1>1
<1>3. /\ wire' \in Seq(Items("sent")) /\ Len(wire') = Len(wire) + 1 /\ wire'[Len(wire) + 1] = ch[1]
      /\ \A k \in 1 .. Len(wire) : wire'[k] = wire[k]
  BY <1>1, <1>2
<1>4. /\ Len(wire) \in Nat /\ Len(ch) \in Nat /\ DOMAIN Sent = 1 .. Len(wire) + Len(ch)
      /\ \A k \in 1 .. Len(wire) + Len(ch) : Sent[k] = IF k <= Len(wire) THEN wire[k] ELSE ch[k - Len(wire)]
  BY <1>1 DEF Sent
<1>5. /\ DOMAIN Sent' = 1 .. Len(wire') + Len(ch')
      /\ \A k \in 1 .. Len(wire') + Len(ch') : Sent'[k] = IF k <= Len(wire') THEN wire'[k] ELSE ch'[k - Len(wire')]
  BY <1>2, <1>3 DEF Sent
<1>6. DOMAIN Sent' = DOMAIN Sent
  BY <1>2, <1>3, <1>4, <1>5
<1>7. ASSUME NEW k \in DOMAIN Sent
      PROVE  Sent'[k] = Sent[k]
  <2>1. CASE k <= Len(wire)
    <3>1. k \in 1 .. Len(wire) /\ k <= Len(wire') /\ k \in 1 .. Len(wire') + Len(ch')
      BY <1>2, <1>3, <1>4, <2>1
    <3> QED
      BY <1>3, <1>4, <1>5, <2>1, <3>1
  <2>2. CASE k = Len(wire) + 1
    BY <1>2, <1>3, <1>4, <1>5, <2>2
  <2>3. CASE k > Len(wire) + 1
    <3>1. /\ k - Len(wire') \in 1 .. Len(ch) - 1 /\ (k - Len(wire')) + 1 = k - Len(wire)
          /\ ~(k <= Len(wire')) /\ ~(k <= Len(wire))
      BY <1>3, <1>4, <2>3
    <3> QED
      BY <1>2, <1>4, <1>5, <1>6, <3>1
  <2> QED
    BY <1>4, <2>1, <2>2, <2>3
<1> QED
  BY <1>6, <1>7

-----------------------------------------------------------------------------
(* The request that a response names.                                      *)

Addressed(m) == m.resp.type = "Heartbeat" \/ Addressee(m.resp) = {req[m.by].id}

\* A response of a stream names its request once it has its number, any other
\* from the start.
Named ==
  /\ \A w \in Writers : at[w].at = "number" =>
       /\ at[w].by = w /\ req[w].type \in StreamTypes /\ at[w].resp.type = req[w].type
       /\ at[w].resp.type = "JobOutput" => at[w].resp.requestId = req[w].id
  /\ \A w \in Writers : at[w].at = "send" => at[w].by = w /\ Addressed(at[w])
  /\ \A k \in DOMAIN Sent : Addressed(Sent[k])

\* What a method makes for a request of its type.
LEMMA ResponseFacts ==
  ASSUME NEW r \in Requests, NEW method \in Methods(r.type), NEW id \in Nat
  PROVE  LET resp == Response(method, r, id) IN
         /\ resp \in Resps /\ (method \notin Unnumbered => resp.responseId = id)
         /\ IF r.type \in StreamTypes /\ method # "WriteError"
            THEN resp.type = r.type /\ (resp.type = "JobOutput" => resp.requestId = r.id)
            ELSE resp.type \notin StreamTypes /\ (resp.type = "Heartbeat" \/ resp.requestId = r.id)
<1>1. r.id \in Nat /\ r.type \in RequestKinds
  BY WriterAssumption
<1>2. <<>> \in Seq([requestId : Nat, seqId : Nat])
  OBVIOUS
<1> DEFINE resp == Response(method, r, id)
<1> HIDE DEF resp
<1>3. ASSUME NEW t \in ResponseTypes, NEW i \in Nat, NEW n \in Nat, NEW b \in BOOLEAN,
             resp \in {New(t, i, n), [New(t, i, n) EXCEPT !.complete = b]}
      PROVE  resp \in Resps /\ resp.type = t /\ resp.requestId = i /\ resp.responseId = n
  <2>1. CASE resp = New(t, i, n)
    BY <1>2, <2>1 DEF New, Resps
  <2>2. CASE resp = [New(t, i, n) EXCEPT !.complete = b]
    BY <1>2, <2>2 DEF New, Resps
  <2> QED
    BY <1>3, <2>1, <2>2
<1> SUFFICES /\ resp \in Resps /\ (method \notin Unnumbered => resp.responseId = id)
               /\ IF r.type \in StreamTypes /\ method # "WriteError"
                  THEN resp.type = r.type /\ (resp.type = "JobOutput" => resp.requestId = r.id)
                  ELSE resp.type \notin StreamTypes /\ (resp.type = "Heartbeat" \/ resp.requestId = r.id)
  BY DEF resp
<1> USE DEF ResponseTypes
<1> USE DEF StreamTypes, Unnumbered
<1>4. CASE method = "WriteError"
  <2>1. resp = New("Error", r.id, 0)
    BY <1>4 DEF resp, Response, NewErrorResponse
  <2> QED
    BY <1>1, <1>3, <1>4, <2>1
<1>5. CASE r.type = "Heartbeat"
  <2>1. method = "WriteHeartbeat"
    BY <1>5 DEF Methods
  <2>2. resp = New("Heartbeat", 0, 0)
    BY <2>1 DEF resp, Response, NewHeartbeatResponse
  <2> QED
    BY <1>3, <1>5, <2>1, <2>2
<1>6. CASE r.type = "Bootstrap" /\ method # "WriteError"
  <2>1. method = "WriteBootstrap"
    BY <1>6 DEF Methods
  <2>2. resp = New("Bootstrap", r.id, id)
    BY <2>1 DEF resp, Response, NewBootstrapResponse
  <2> QED
    BY <1>1, <1>3, <1>6, <2>1, <2>2
<1>7. CASE r.type \in {"SubmitJob", "Job"} /\ method # "WriteError"
  <2>1. method = "WriteJobs"
    BY <1>7 DEF Methods
  <2>2. resp = New("JobState", r.id, id)
    BY <2>1 DEF resp, Response, NewJobStateResponse
  <2>3. resp \in Resps /\ resp.type = "JobState" /\ resp.requestId = r.id /\ resp.responseId = id
    BY <1>1, <1>3, <2>2
  <2> QED
    BY <1>7, <2>1, <2>3
<1>8. CASE r.type = "JobStatus" /\ method # "WriteError"
  <2>1. method = "WriteJobStatus"
    BY <1>8 DEF Methods
  <2>2. resp = New("JobStatus", 0, id)
    BY <2>1 DEF resp, Response, NewJobStatusStreamResponse
  <2> QED
    BY <1>1, <1>3, <1>8, <2>1, <2>2
<1>9. CASE r.type = "JobOutput" /\ method # "WriteError"
  <2>1. method \in {"WriteJobOutput", "Close"}
    BY <1>9 DEF Methods
  <2>2. \/ resp = New("JobOutput", r.id, id)
        \/ resp = [New("JobOutput", r.id, id) EXCEPT !.complete = TRUE]
    BY <1>9, <2>1 DEF resp, Response, NewJobOutputStreamResponse
  <2> QED
    BY <1>1, <1>3, <1>9, <2>1, <2>2
<1>10. CASE r.type = "JobResourceUtil" /\ method # "WriteError"
  <2>1. method \in {"WriteJobResourceUtil", "Close"}
    BY <1>10 DEF Methods
  <2>2. \E b \in BOOLEAN : resp = [New("JobResourceUtil", 0, id) EXCEPT !.complete = b]
    BY <1>10, <2>1 DEF resp, Response, NewJobResourceResponse
  <2>3. resp \in Resps /\ resp.type = "JobResourceUtil" /\ resp.responseId = id
    <3>1. PICK b \in BOOLEAN : resp = [New("JobResourceUtil", 0, id) EXCEPT !.complete = b]
      BY <2>2
    <3>2. "JobResourceUtil" \in ResponseTypes /\ 0 \in Nat
      OBVIOUS
    <3> QED
      BY <1>3, <3>1, <3>2
  <2> QED
    BY <1>10, <2>1, <2>3
<1>11. CASE r.type \in {"ControlJob", "JobNetwork", "ClusterInfo", "SetLoadBalancerNodes", "ConfigReload"}
            /\ method # "WriteError"
  <2>1. /\ r.type = "ControlJob" => method = "WriteControlJob"
        /\ r.type = "JobNetwork" => method = "WriteJobNetwork"
        /\ r.type = "ClusterInfo" => method = "WriteClusterInfo"
        /\ r.type = "SetLoadBalancerNodes" => method = "WriteSetLoadBalancerNodes"
        /\ r.type = "ConfigReload" => method = "WriteConfigReload"
    BY <1>11 DEF Methods
  <2>2. resp = New(r.type, r.id, id) /\ method \notin Unnumbered
    BY <1>11, <2>1 DEF resp, Response, NewControlJobResponse, NewJobNetworkResponse, NewClusterInfoResponse,
       NewSetLoadBalancerNodesResponse, NewConfigReloadResponse
  <2> QED
    BY <1>1, <1>3, <1>11, <2>2 DEF RequestKinds
<1> QED
  BY <1>1, <1>4, <1>5, <1>6, <1>7, <1>8, <1>9, <1>10, <1>11 DEF RequestKinds

-----------------------------------------------------------------------------
(* What a step does.                                                       *)

\* A response that goroutine w begins to make.
Fresh(m, w) ==
  /\ m \in Items("number") \cup Items("send") /\ m.by = w
  /\ m.drawn => m.resp.responseId = counter
  /\ m.at = "number" => /\ req[w].type \in StreamTypes /\ m.resp.type = req[w].type
                        /\ m.resp.type = "JobOutput" => m.resp.requestId = req[w].id
  /\ m.at = "send" => m.resp.type \notin StreamTypes /\ (m.resp.type = "Heartbeat" \/ m.resp.requestId = req[w].id)

LEMMA WriteFacts ==
  ASSUME TypeOK, NEW w \in Writers, NEW method \in Methods(req[w].type), Write(w, method)
  PROVE  \E m : /\ Fresh(m, w) /\ at[w].at = "idle" /\ at' = [at EXCEPT ![w] = m]
               /\ counter' = IF m.drawn THEN counter + 1 ELSE counter
<1>1. req[w] \in Requests /\ counter \in Nat
  BY DEF TypeOK
<1> DEFINE resp == Response(method, req[w], counter)
<1>2. /\ resp \in Resps /\ (method \notin Unnumbered => resp.responseId = counter)
      /\ IF req[w].type \in StreamTypes /\ method # "WriteError"
         THEN resp.type = req[w].type /\ (resp.type = "JobOutput" => resp.requestId = req[w].id)
         ELSE resp.type \notin StreamTypes /\ (resp.type = "Heartbeat" \/ resp.requestId = req[w].id)
  BY <1>1, ResponseFacts
<1> HIDE DEF resp
<1>3. PICK place \in {"number", "send"}, b \in BOOLEAN :
        /\ place = IF req[w].type \in StreamTypes /\ method # "WriteError" THEN "number" ELSE "send"
        /\ b = (method \notin Unnumbered)
  OBVIOUS
<1> DEFINE m == [at |-> place, resp |-> resp, by |-> w, drawn |-> b]
<1>4. at[w].at = "idle" /\ at' = [at EXCEPT ![w] = m]
      /\ counter' = IF method \in Unnumbered THEN counter ELSE counter + 1
  BY <1>3 DEF Write, nextResponseID, resp
<1>5. m \in Items("number") \cup Items("send") /\ m.at = place /\ m.by = w /\ m.resp = resp /\ m.drawn = b
  BY <1>2 DEF Items
<1> HIDE DEF m
<1>6. Fresh(m, w)
  BY <1>2, <1>3, <1>5 DEF Fresh
<1>7. counter' = IF m.drawn THEN counter + 1 ELSE counter
  BY <1>3, <1>4, <1>5
<1> QED
  BY <1>4, <1>6, <1>7

\* The response m0 of goroutine w with its number.
Given(m, m0, w, n) ==
  /\ m \in Items("send") /\ m.by = m0.by /\ m.drawn = m0.drawn
  /\ m.resp.responseId = m0.resp.responseId /\ m.resp.type = m0.resp.type
  /\ NumberOf(m.resp) = n /\ Addressee(m.resp) = {req[w].id}

LEMMA NumberFacts ==
  ASSUME TypeOK, Named, NEW w \in Writers, Number(w)
  PROVE  \E n \in Nat : \E m :
           /\ at[w].at = "number" /\ Given(m, at[w], w, n) /\ at' = [at EXCEPT ![w] = m] /\ SequenceID(req[w].id, n)
<1>1. PICK n \in Nat :
        /\ SequenceID(req[w].id, n)
        /\ at' = [at EXCEPT ![w].at = "send", ![w].resp = Numbered(@, req[w].id, n)]
  <2>1. PICK n : /\ SequenceID(req[w].id, n)
                 /\ at' = [at EXCEPT ![w].at = "send", ![w].resp = Numbered(@, req[w].id, n)]
    BY DEF Number
  <2>2. req[w].id \in IDs
    BY DEF TypeOK, IDs
  <2>3. n \in Nat
    <3>1. seqID[req[w].id] \in Seq(Nat) /\ Len(seqID[req[w].id]) \in Nat
      BY <2>2 DEF TypeOK
    <3>2. seqID[req[w].id] # <<>> => seqID[req[w].id][1] \in Nat
      BY <3>1
    <3> QED
      BY <2>1, <3>2 DEF SequenceID
  <2> QED
    BY <2>1, <2>3
<1>2. /\ at[w].at = "number" /\ at[w] \in Items("number") /\ at[w].resp.type \in StreamTypes
      /\ at[w].resp.type = "JobOutput" => at[w].resp.requestId = req[w].id
  <2>1. at[w].at = "number"
    BY DEF Number
  <2>2. at[w] \in {Idle} \cup Items("number") \cup Items("send")
    BY DEF TypeOK
  <2>3. at[w] \in Items("number")
    BY <2>1, <2>2 DEF Items, Idle
  <2> QED
    BY <2>1, <2>3 DEF Named
<1>3. req[w].id \in Nat
  BY WriterAssumption DEF TypeOK
<1> DEFINE resp == Numbered(at[w].resp, req[w].id, n)
           m == [at[w] EXCEPT !.at = "send", !.resp = resp]
<1>4. /\ resp \in Resps /\ resp.responseId = at[w].resp.responseId /\ resp.type = at[w].resp.type
      /\ NumberOf(resp) = n /\ Addressee(resp) = {req[w].id}
  <2>1. at[w].resp \in Resps
    BY <1>2 DEF Items
  <2>2. CASE at[w].resp.type = "JobOutput"
    BY <1>2, <2>1, <2>2 DEF Numbered, Resps, NumberOf, Addressee
  <2>3. CASE at[w].resp.type \in {"JobStatus", "JobResourceUtil"}
    <3> DEFINE s == <<[requestId |-> req[w].id, seqId |-> n]>>
    <3>1. /\ s \in Seq([requestId : Nat, seqId : Nat]) /\ DOMAIN s = {1}
          /\ s[1].requestId = req[w].id /\ s[1].seqId = n
      BY <1>3
    <3> HIDE DEF s
    <3>2. resp = [at[w].resp EXCEPT !.sequences = s]
      BY <2>3 DEF Numbered, s
    <3>3. /\ resp \in Resps /\ resp.responseId = at[w].resp.responseId /\ resp.type = at[w].resp.type
          /\ resp.sequences = s
      BY <2>1, <3>1, <3>2 DEF Resps
    <3>4. {s[k].requestId : k \in DOMAIN s} = {req[w].id}
      BY <3>1
    <3> QED
      BY <2>3, <3>1, <3>3, <3>4 DEF NumberOf, Addressee
  <2> QED
    BY <1>2, <2>2, <2>3 DEF StreamTypes
<1> HIDE DEF resp
<1>5. /\ m \in Items("send") /\ m.by = at[w].by /\ m.drawn = at[w].drawn /\ m.resp = resp
  BY <1>2, <1>4 DEF Items
<1>6. at' = [at EXCEPT ![w] = m]
  BY <1>1 DEF TypeOK, resp
<1> HIDE DEF m
<1>7. Given(m, at[w], w, n)
  BY <1>4, <1>5 DEF Given
<1> QED
  BY <1>1, <1>2, <1>6, <1>7

\* The response e leaves goroutine w for the channel.
Moved(e, w) ==
  /\ e \in Items("sent") /\ e.by = at[w].by /\ e.drawn = at[w].drawn /\ e.resp = at[w].resp
  /\ at[w].at = "send" /\ at' = [at EXCEPT ![w] = Idle]
  /\ DOMAIN Sent' = 1 .. Len(Sent) + 1 /\ Sent'[Len(Sent) + 1] = e
  /\ \A k \in 1 .. Len(Sent) : Sent'[k] = Sent[k]

LEMMA MoveFacts ==
  ASSUME TypeOK, NEW w \in Writers, sendResponse(w)
  PROVE  \E e : Moved(e, w) /\ ch' \in Seq(Items("sent")) /\ Len(ch') <= RespCap
<1>1. at[w].at = "send" /\ at[w] \in Items("send")
  BY DEF sendResponse, TypeOK, Items, Idle
<1> DEFINE e == [at[w] EXCEPT !.at = "sent"]
<1>2. e \in Items("sent") /\ e.by = at[w].by /\ e.drawn = at[w].drawn /\ e.resp = at[w].resp
  BY <1>1 DEF Items
<1>3. ch' = Append(ch, e) /\ UNCHANGED wire /\ at' = [at EXCEPT ![w] = Idle] /\ Len(ch) < RespCap
  BY DEF sendResponse
<1> HIDE DEF e
<1>4. ch' \in Seq(Items("sent")) /\ Len(ch') = Len(ch) + 1 /\ Len(ch) \in Nat /\ RespCap \in Nat
  BY <1>2, <1>3, WriterAssumption DEF TypeOK
<1>5. Moved(e, w)
  BY <1>1, <1>2, <1>3, SentAppend DEF Moved
<1> QED
  BY <1>3, <1>4, <1>5

-----------------------------------------------------------------------------
(* Types and addresses.                                                    *)

AddressInv == TypeOK /\ Named

LEMMA AddressInit == Init => AddressInv
<1> SUFFICES ASSUME Init
             PROVE  AddressInv
  OBVIOUS
<1>1. wire = <<>> /\ ch = <<>> /\ DOMAIN Sent = {}
  BY DEF Init, Sent
<1>2. seqID \in [IDs -> Seq(Nat)] /\ \A i \in IDs : Len(seqID[i]) <= 1
  BY DEF Init
<1>3. at \in [Writers -> {Idle}] /\ \A w \in Writers : at[w].at = "idle"
  BY DEF Init, Idle
<1>4. writes \in [Writers -> 0 .. MaxWrites] /\ Len(ch) <= RespCap
  BY <1>1, WriterAssumption DEF Init
<1>5. TypeOK
  BY <1>1, <1>2, <1>3, <1>4 DEF Init, TypeOK
<1>6. Named
  BY <1>1, <1>3 DEF Named
<1> QED
  BY <1>5, <1>6 DEF AddressInv

LEMMA AddressStep == AddressInv /\ [Next]_vars => AddressInv'
<1> SUFFICES ASSUME TypeOK, Named, [Next]_vars
             PROVE  TypeOK' /\ Named'
  BY DEF AddressInv
<1>1. ASSUME NEW w \in Writers, NEW method \in Methods(req[w].type), Write(w, method)
      PROVE  TypeOK' /\ Named'
  <2>1. PICK m : /\ Fresh(m, w) /\ at' = [at EXCEPT ![w] = m]
                 /\ counter' = IF m.drawn THEN counter + 1 ELSE counter
    BY <1>1, WriteFacts
  <2>2. /\ writes[w] < MaxWrites /\ writes' = [writes EXCEPT ![w] = @ + 1]
        /\ UNCHANGED <<req, seqID, ch, wire>> /\ Sent' = Sent
    BY <1>1 DEF Write, Sent
  <2>3. /\ m \in Items("number") \cup Items("send") /\ at'[w] = m /\ \A v \in Writers : v # w => at'[v] = at[v]
        /\ at' \in [Writers -> {Idle} \cup Items("number") \cup Items("send")]
    BY <2>1 DEF Fresh, TypeOK
  <2>4. writes' \in [Writers -> 0 .. MaxWrites] /\ counter' \in Nat
    <3>1. writes[w] + 1 \in 0 .. MaxWrites
      BY <2>2, WriterAssumption DEF TypeOK
    <3> QED
      BY <2>1, <2>2, <3>1 DEF TypeOK
  <2>5. TypeOK'
    BY <2>2, <2>3, <2>4 DEF TypeOK
  <2>6. m.at = "send" => Addressed(m)
    BY <2>1 DEF Fresh, Addressed, Addressee, StreamTypes
  <2>7. \A x : Addressed(x)' <=> Addressed(x)
    BY <2>2 DEF Addressed
  <2>8. Named'
    BY <2>1, <2>2, <2>3, <2>6, <2>7 DEF Named, Fresh
  <2> QED
    BY <2>5, <2>8
<1>2. ASSUME NEW w \in Writers, Number(w)
      PROVE  TypeOK' /\ Named'
  <2>1. PICK n \in Nat : \E m : Given(m, at[w], w, n) /\ at' = [at EXCEPT ![w] = m] /\ SequenceID(req[w].id, n)
    BY <1>2, NumberFacts
  <2>2. PICK m : at[w].at = "number" /\ Given(m, at[w], w, n) /\ at' = [at EXCEPT ![w] = m]
    BY <1>2, <2>1 DEF Number
  <2>3. UNCHANGED <<req, counter, writes, ch, wire>> /\ Sent' = Sent
    BY <1>2 DEF Number, Sent
  <2>4. /\ m \in Items("send") /\ m.at = "send" /\ at'[w] = m /\ \A v \in Writers : v # w => at'[v] = at[v]
        /\ at' \in [Writers -> {Idle} \cup Items("number") \cup Items("send")]
    BY <2>2 DEF Given, TypeOK, Items
  <2>5. seqID' \in [IDs -> Seq(Nat)] /\ \A i \in IDs : Len(seqID'[i]) <= 1
    <3> DEFINE s == <<n>>
    <3>1. s \in Seq(Nat) /\ Len(s) <= 1
      OBVIOUS
    <3>2. seqID' = [seqID EXCEPT ![req[w].id] = IF @ = <<>> THEN @ ELSE s]
      BY <2>1 DEF SequenceID
    <3> HIDE DEF s
    <3>3. seqID \in [IDs -> Seq(Nat)] /\ \A i \in IDs : Len(seqID[i]) <= 1
      BY DEF TypeOK
    <3>4. \A i \in IDs : seqID'[i] \in {seqID[i], s}
      BY <3>2, <3>3
    <3>5. \A i \in IDs : seqID'[i] \in Seq(Nat) /\ Len(seqID'[i]) <= 1
      BY <3>1, <3>3, <3>4
    <3> QED
      BY <3>2, <3>3, <3>5
  <2>6. TypeOK'
    BY <2>3, <2>4, <2>5 DEF TypeOK
  <2>7. m.by = w /\ Addressed(m)
    BY <2>2 DEF Given, Named, Addressed
  <2>8. \A x : Addressed(x)' <=> Addressed(x)
    BY <2>3 DEF Addressed
  <2>9. Named'
    BY <2>3, <2>4, <2>7, <2>8 DEF Named
  <2> QED
    BY <2>6, <2>9
<1>3. ASSUME NEW w \in Writers, sendResponse(w)
      PROVE  TypeOK' /\ Named'
  <2>1. PICK e : Moved(e, w) /\ ch' \in Seq(Items("sent")) /\ Len(ch') <= RespCap
    BY <1>3, MoveFacts
  <2>2. UNCHANGED <<req, counter, seqID, writes, wire>>
    BY <1>3 DEF sendResponse
  <2>3. /\ at' \in [Writers -> {Idle} \cup Items("number") \cup Items("send")] /\ at'[w].at = "idle"
        /\ \A v \in Writers : v # w => at'[v] = at[v]
    BY <2>1 DEF Moved, TypeOK, Idle
  <2>4. TypeOK'
    BY <2>1, <2>2, <2>3 DEF TypeOK
  <2>5. \A x : Addressed(x)' <=> Addressed(x)
    BY <2>2 DEF Addressed
  <2>6. Addressed(e)
    BY <2>1 DEF Moved, Named, Addressed
  <2>7. \A k \in DOMAIN Sent' : Addressed(Sent'[k])
    <3>1. Len(Sent) \in Nat /\ DOMAIN Sent = 1 .. Len(Sent)
      BY SentFacts
    <3> QED
      BY <2>1, <2>6, <3>1 DEF Moved, Named
  <2>8. Named'
    <3>1. \A k \in DOMAIN Sent' : Addressed(Sent[k])'
      BY <2>2, <2>7 DEF Addressed
    <3> QED
      BY <2>2, <2>3, <2>5, <3>1 DEF Named
  <2> QED
    BY <2>4, <2>8
<1>4. ASSUME NEW i \in IDs, Cancel(i)
      PROVE  TypeOK' /\ Named'
  <2>1. seqID' = [seqID EXCEPT ![i] = <<>>] /\ UNCHANGED <<req, counter, at, writes, ch, wire>> /\ Sent' = Sent
    BY <1>4 DEF Cancel, Sent
  <2>2. seqID' \in [IDs -> Seq(Nat)] /\ \A k \in IDs : Len(seqID'[k]) <= 1
    BY <2>1 DEF TypeOK
  <2>3. TypeOK'
    BY <2>1, <2>2 DEF TypeOK
  <2>4. Named'
    BY <2>1 DEF Named, Addressed
  <2> QED
    BY <2>3, <2>4
<1>5. CASE Encode
  <2>1. ch # <<>> /\ ch' = Tail(ch) /\ wire' = Append(wire, Head(ch)) /\ UNCHANGED <<req, counter, seqID, at, writes>>
    BY <1>5 DEF Encode
  <2>2. DOMAIN Sent' = DOMAIN Sent /\ \A k \in DOMAIN Sent : Sent'[k] = Sent[k]
    BY <2>1, SentSame
  <2>3. ch' \in Seq(Items("sent")) /\ wire' \in Seq(Items("sent")) /\ Len(ch') <= RespCap
    <3>1. ch \in Seq(Items("sent")) /\ wire \in Seq(Items("sent")) /\ Len(ch) <= RespCap /\ RespCap \in Nat
      BY WriterAssumption DEF TypeOK
    <3>2. Head(ch) \in Items("sent") /\ Tail(ch) \in Seq(Items("sent"))
          /\ Len(Tail(ch)) = Len(ch) - 1 /\ Len(ch) \in Nat
      BY <2>1, <3>1
    <3>3. Append(wire, Head(ch)) \in Seq(Items("sent"))
      BY <3>1, <3>2, AppendFacts
    <3> QED
      BY <2>1, <3>1, <3>2, <3>3
  <2>4. TypeOK'
    BY <2>1, <2>3 DEF TypeOK
  <2>5. \A k \in DOMAIN Sent' : Addressed(Sent[k])'
    BY <2>1, <2>2 DEF Named, Addressed
  <2>6. Named'
    BY <2>1, <2>5 DEF Named, Addressed
  <2> QED
    BY <2>4, <2>6
<1>6. CASE UNCHANGED vars
  <2>1. TypeOK'
    BY <1>6 DEF vars, TypeOK
  <2>2. Sent' = Sent
    BY <1>6 DEF vars, Sent
  <2>3. Named'
    BY <1>6, <2>2 DEF vars, Named, Addressed
  <2> QED
    BY <2>1, <2>3
<1> QED
  BY <1>1, <1>2, <1>3, <1>4, <1>5, <1>6 DEF Next

LEMMA AddressInvariant == Spec => []AddressInv
BY AddressInit, AddressStep, PTL DEF Spec

\* The writer's variables keep their types and the channel its capacity.
THEOREM TypeCorrect == Spec => []TypeOK
BY AddressInvariant, PTL DEF AddressInv

\* Every response on the wire names the request of the goroutine that wrote it,
\* whichever method made it and whatever other goroutines write in between: the
\* constructors for status and resource streams leave it out, and the sequence
\* number that is drawn before the send brings it.
THEOREM AllAddressed == Spec => []ResponsesAddressed
<1>1. AddressInv => ResponsesAddressed
  BY SentFacts DEF AddressInv, Named, Addressed, ResponsesAddressed
<1> QED
  BY <1>1, AddressInvariant, PTL

-----------------------------------------------------------------------------
(* Response IDs.                                                           *)

\* The places and goroutines that have a response ID.
SentID(k, n) == k \in DOMAIN Sent /\ HasID(Sent[k], n)
HeldID(w, n) == w \in Writers /\ at[w].at # "idle" /\ HasID(at[w], n)

\* IDs are below the counter, each is somewhere, and nowhere else.
IDInv ==
  /\ \A n, k : SentID(k, n) => n \in 0 .. counter - 1
  /\ \A n, w : HeldID(w, n) => n \in 0 .. counter - 1
  /\ \A n \in 0 .. counter - 1 : (\E k : SentID(k, n)) \/ (\E w : HeldID(w, n))
  /\ \A n, k, l : SentID(k, n) /\ SentID(l, n) => k = l
  /\ \A n, v, w : HeldID(v, n) /\ HeldID(w, n) => v = w
  /\ \A n, k, w : ~(SentID(k, n) /\ HeldID(w, n))

LEMMA IDInit == Init => IDInv
<1> SUFFICES ASSUME Init
             PROVE  IDInv
  OBVIOUS
<1>1. DOMAIN Sent = {} /\ 0 .. counter - 1 = {}
  BY DEF Init, Sent
<1>2. \A w \in Writers : at[w].at = "idle"
  BY DEF Init, Idle
<1> QED
  BY <1>1, <1>2 DEF IDInv, SentID, HeldID

LEMMA IDStep == AddressInv /\ IDInv /\ [Next]_vars => IDInv'
<1> SUFFICES ASSUME TypeOK, Named, IDInv, [Next]_vars
             PROVE  IDInv'
  BY DEF AddressInv
<1>0. counter \in Nat /\ Len(Sent) \in Nat /\ DOMAIN Sent = 1 .. Len(Sent)
  BY SentFacts DEF TypeOK
<1>s. ASSUME counter' = counter, DOMAIN Sent' = DOMAIN Sent, \A k \in DOMAIN Sent : Sent'[k] = Sent[k],
             \A w, n : HeldID(w, n)' <=> HeldID(w, n)
      PROVE  IDInv'
  <2>1. \A k, n : SentID(k, n)' <=> SentID(k, n)
    BY <1>s DEF SentID, HasID
  <2> QED
    BY <1>s, <2>1 DEF IDInv
<1>1. ASSUME NEW w \in Writers, NEW method \in Methods(req[w].type), Write(w, method)
      PROVE  IDInv'
  <2>1. PICK m : /\ Fresh(m, w) /\ at[w].at = "idle" /\ at' = [at EXCEPT ![w] = m]
                 /\ counter' = IF m.drawn THEN counter + 1 ELSE counter
    BY <1>1, WriteFacts
  <2>2. Sent' = Sent
    BY <1>1 DEF Write, Sent
  <2>3. at'[w] = m /\ m.at # "idle" /\ \A v \in Writers : v # w => at'[v] = at[v]
    BY <2>1 DEF Fresh, TypeOK, Items
  <2>4. \A v, n : HeldID(v, n)' <=> HeldID(v, n) \/ (v = w /\ m.drawn /\ n = counter)
    BY <2>1, <2>3 DEF HeldID, HasID, Fresh
  <2>5. CASE ~m.drawn
    BY <1>s, <2>1, <2>2, <2>4, <2>5
  <2>6. CASE m.drawn
    <3>1. \A k, n : SentID(k, n)' <=> SentID(k, n)
      BY <2>2 DEF SentID, HasID
    <3>2. counter' = counter + 1 /\ \A v, n : HeldID(v, n)' <=> HeldID(v, n) \/ (v = w /\ n = counter)
      BY <2>1, <2>4, <2>6
    <3>3. \A n : ~HeldID(w, n)
      BY <2>1 DEF HeldID
    <3>4. /\ 0 .. counter' - 1 = (0 .. counter - 1) \cup {counter} /\ counter \notin 0 .. counter - 1
      BY <1>0, <3>2
    <3> QED
      BY <3>1, <3>2, <3>3, <3>4 DEF IDInv
  <2> QED
    BY <2>5, <2>6
<1>2. ASSUME NEW w \in Writers, Number(w)
      PROVE  IDInv'
  <2>1. PICK n \in Nat : \E m : at[w].at = "number" /\ Given(m, at[w], w, n) /\ at' = [at EXCEPT ![w] = m]
    BY <1>2, NumberFacts
  <2>2. PICK m : at[w].at = "number" /\ Given(m, at[w], w, n) /\ at' = [at EXCEPT ![w] = m]
    BY <2>1
  <2>3. Sent' = Sent /\ counter' = counter
    BY <1>2 DEF Number, Sent
  <2>4. at'[w] = m /\ m.at # "idle" /\ \A v \in Writers : v # w => at'[v] = at[v]
    BY <2>2 DEF Given, TypeOK, Items
  <2>5. \A v, k : HeldID(v, k)' <=> HeldID(v, k)
    BY <2>2, <2>4 DEF HeldID, HasID, Given
  <2> QED
    BY <1>s, <2>3, <2>5
<1>3. ASSUME NEW w \in Writers, sendResponse(w)
      PROVE  IDInv'
  <2>1. PICK e : Moved(e, w)
    BY <1>3, MoveFacts
  <2>2. counter' = counter
    BY <1>3 DEF sendResponse
  <2>3. at'[w].at = "idle" /\ \A v \in Writers : v # w => at'[v] = at[v]
    BY <2>1 DEF Moved, TypeOK, Idle
  <2>4. \A v, n : HeldID(v, n)' <=> HeldID(v, n) /\ v # w
    BY <2>3 DEF HeldID, HasID
  <2>5. \A n : HasID(e, n) <=> HeldID(w, n)
    BY <2>1 DEF Moved, HeldID, HasID
  <2>6. \A k, n : SentID(k, n)' <=> SentID(k, n) \/ (k = Len(Sent) + 1 /\ HeldID(w, n))
    <3>1. DOMAIN Sent' = DOMAIN Sent \cup {Len(Sent) + 1} /\ Len(Sent) + 1 \notin DOMAIN Sent
      BY <1>0, <2>1 DEF Moved
    <3>2. Sent'[Len(Sent) + 1] = e /\ \A k \in DOMAIN Sent : Sent'[k] = Sent[k]
      BY <1>0, <2>1 DEF Moved
    <3>3. \A k, n : SentID(k, n)' <=> k \in DOMAIN Sent' /\ HasID(Sent'[k], n)
      BY DEF SentID, HasID
    <3> QED
      BY <2>5, <3>1, <3>2, <3>3 DEF SentID
  <2>7. \A n : ~SentID(Len(Sent) + 1, n)
    BY <1>0 DEF SentID
  <2> QED
    BY <2>2, <2>4, <2>6, <2>7 DEF IDInv
<1>4. ASSUME NEW i \in IDs, Cancel(i)
      PROVE  IDInv'
  BY <1>4, <1>s DEF Cancel, Sent, HeldID, HasID
<1>5. CASE Encode
  <2>1. UNCHANGED <<counter, at>> /\ ch # <<>> /\ ch' = Tail(ch) /\ wire' = Append(wire, Head(ch))
    BY <1>5 DEF Encode
  <2>2. DOMAIN Sent' = DOMAIN Sent /\ \A k \in DOMAIN Sent : Sent'[k] = Sent[k]
    BY <2>1, SentSame
  <2>3. \A v, n : HeldID(v, n)' <=> HeldID(v, n)
    BY <2>1 DEF HeldID, HasID
  <2> QED
    BY <1>s, <2>1, <2>2, <2>3
<1>6. CASE UNCHANGED vars
  BY <1>6, <1>s DEF vars, Sent, HeldID, HasID
<1> QED
  BY <1>1, <1>2, <1>3, <1>4, <1>5, <1>6 DEF Next

-----------------------------------------------------------------------------
(* Sequence numbers.                                                       *)

\* The places and goroutines that have a number of a stream.
SentNumber(k, i, n) == k \in DOMAIN Sent /\ HasNumber(Sent[k], i, n)
HeldNumber(w, i, n) == w \in Writers /\ at[w].at = "send" /\ HasNumber(at[w], i, n)

\* The numbers drawn for a stream: each is somewhere, and nowhere else.
StreamInv(i) ==
  /\ \A n, k : SentNumber(k, i, n) => n \in 1 .. seqID[i][1]
  /\ \A n, w : HeldNumber(w, i, n) => n \in 1 .. seqID[i][1]
  /\ \A n \in 1 .. seqID[i][1] : (\E k : SentNumber(k, i, n)) \/ (\E w : HeldNumber(w, i, n))
  /\ \A n, k, l : SentNumber(k, i, n) /\ SentNumber(l, i, n) => k = l
  /\ \A n, v, w : HeldNumber(v, i, n) /\ HeldNumber(w, i, n) => v = w
  /\ \A n, k, w : ~(SentNumber(k, i, n) /\ HeldNumber(w, i, n))

NumberInv == \A i \in IDs : seqID[i] # <<>> => StreamInv(i)

LEMMA NumberInit == Init => NumberInv
<1> SUFFICES ASSUME Init, NEW i \in IDs, seqID[i] # <<>>
             PROVE  StreamInv(i)
  BY DEF NumberInv
<1>1. DOMAIN Sent = {} /\ \A w \in Writers : at[w].at = "idle"
  BY DEF Init, Sent, Idle
<1>2. seqID[i][1] = 0
  BY DEF Init
<1>3. 1 .. seqID[i][1] = {}
  BY <1>2
<1> QED
  BY <1>1, <1>3 DEF StreamInv, SentNumber, HeldNumber

LEMMA NumberStep == AddressInv /\ NumberInv /\ [Next]_vars => NumberInv'
<1> SUFFICES ASSUME TypeOK, Named, NumberInv, [Next]_vars, NEW i \in IDs, seqID'[i] # <<>>
             PROVE  StreamInv(i)'
  BY DEF AddressInv, NumberInv
<1>0. Len(Sent) \in Nat /\ DOMAIN Sent = 1 .. Len(Sent)
  BY SentFacts
<1>r. req' = req
  BY DEF Next, vars, Write, Number, sendResponse, Cancel, Encode
<1>s. ASSUME seqID'[i] = seqID[i], DOMAIN Sent' = DOMAIN Sent, \A k \in DOMAIN Sent : Sent'[k] = Sent[k],
             \A w, n : HeldNumber(w, i, n)' <=> HeldNumber(w, i, n)
      PROVE  StreamInv(i)'
  <2>1. \A k, n : SentNumber(k, i, n)' <=> SentNumber(k, i, n)
    BY <1>r, <1>s DEF SentNumber, HasNumber, OfStream
  <2>2. StreamInv(i)
    BY <1>s DEF NumberInv
  <2>3. \A w, n : HeldNumber(w, i, n)' <=> HeldNumber(w, i, n)
    BY <1>s
  <2>4. seqID'[i][1] = seqID[i][1]
    BY <1>s
  <2> QED
    BY <2>1, <2>2, <2>3, <2>4 DEF StreamInv
<1>1. ASSUME NEW w \in Writers, NEW method \in Methods(req[w].type), Write(w, method)
      PROVE  StreamInv(i)'
  <2>1. PICK m : Fresh(m, w) /\ at[w].at = "idle" /\ at' = [at EXCEPT ![w] = m]
    BY <1>1, WriteFacts
  <2>2. Sent' = Sent /\ seqID' = seqID
    BY <1>1 DEF Write, Sent
  <2>3. at'[w] = m /\ \A v \in Writers : v # w => at'[v] = at[v]
    BY <2>1 DEF TypeOK
  <2>4. \A v, n : HeldNumber(v, i, n)' <=> HeldNumber(v, i, n)
    BY <1>r, <2>1, <2>3 DEF HeldNumber, HasNumber, OfStream, Fresh
  <2> QED
    BY <1>s, <2>2, <2>4
<1>2. ASSUME NEW w \in Writers, Number(w)
      PROVE  StreamInv(i)'
  <2>1. PICK n \in Nat : \E m : /\ at[w].at = "number" /\ Given(m, at[w], w, n) /\ at' = [at EXCEPT ![w] = m]
                               /\ SequenceID(req[w].id, n)
    BY <1>2, NumberFacts
  <2>2. PICK m : at[w].at = "number" /\ Given(m, at[w], w, n) /\ at' = [at EXCEPT ![w] = m] /\ SequenceID(req[w].id, n)
    BY <2>1
  <2>3. Sent' = Sent
    BY <1>2 DEF Number, Sent
  <2>4. /\ at'[w] = m /\ m.at = "send" /\ \A v \in Writers : v # w => at'[v] = at[v]
        /\ m.by = w /\ m.resp.type \in StreamTypes /\ NumberOf(m.resp) = n
    <3>1. at[w].by = w /\ at[w].resp.type \in StreamTypes
      BY <2>2 DEF Named
    <3>2. m \in Items("send") /\ m.by = w /\ m.resp.type \in StreamTypes /\ NumberOf(m.resp) = n
      BY <2>2, <3>1 DEF Given
    <3>3. m.at = "send"
      BY <3>2 DEF Items
    <3> QED
      BY <2>2, <3>2, <3>3 DEF TypeOK
  <2>5. \A v, k : HeldNumber(v, i, k)' <=> HeldNumber(v, i, k) \/ (v = w /\ req[w].id = i /\ k = n)
    BY <1>r, <2>2, <2>4 DEF HeldNumber, HasNumber, OfStream
  <2>6. seqID \in [IDs -> Seq(Nat)]
    BY DEF TypeOK
  <2>7. CASE req[w].id # i
    <3>1. seqID'[i] = seqID[i]
      BY <2>2, <2>6, <2>7 DEF SequenceID
    <3> QED
      BY <1>s, <2>3, <2>5, <2>7, <3>1
  <2>8. CASE req[w].id = i
    <3>1. seqID[i] # <<>>
      BY <2>2, <2>6, <2>8 DEF SequenceID
    <3>2. seqID[i][1] \in Nat /\ n = seqID[i][1] + 1
      BY <2>2, <2>6, <2>8, <3>1 DEF SequenceID
    <3>3. seqID'[i] = <<n>>
      BY <2>2, <2>6, <2>8, <3>1 DEF SequenceID
    <3>4. seqID'[i][1] = n
      BY <3>3
    <3>5. 1 .. seqID'[i][1] = (1 .. seqID[i][1]) \cup {n} /\ n \notin 1 .. seqID[i][1]
      BY <3>2, <3>4
    <3>6. \A k, l : SentNumber(k, i, l)' <=> SentNumber(k, i, l)
      BY <1>r, <2>3 DEF SentNumber, HasNumber, OfStream
    <3>7. \A k : ~HeldNumber(w, i, k)
      BY <2>2 DEF HeldNumber
    <3>8. StreamInv(i)
      BY <3>1 DEF NumberInv
    <3>9. /\ \A l, k : SentNumber(k, i, l)' => l \in 1 .. seqID'[i][1]
          /\ \A l, v : HeldNumber(v, i, l)' => l \in 1 .. seqID'[i][1]
      BY <2>5, <3>5, <3>6, <3>8 DEF StreamInv
    <3>10. \A l \in 1 .. seqID'[i][1] : (\E k : SentNumber(k, i, l)') \/ (\E v : HeldNumber(v, i, l)')
      BY <2>5, <2>8, <3>5, <3>6, <3>8 DEF StreamInv
    <3>11. \A l, k, j : SentNumber(k, i, l)' /\ SentNumber(j, i, l)' => k = j
      BY <3>6, <3>8 DEF StreamInv
    <3>12. \A l, u, v : HeldNumber(u, i, l)' /\ HeldNumber(v, i, l)' => u = v
      BY <2>5, <3>5, <3>8 DEF StreamInv
    <3>13. \A l, k, v : ~(SentNumber(k, i, l)' /\ HeldNumber(v, i, l)')
      BY <2>5, <3>5, <3>6, <3>8 DEF StreamInv
    <3> QED
      BY <3>9, <3>10, <3>11, <3>12, <3>13 DEF StreamInv
  <2> QED
    BY <2>7, <2>8
<1>3. ASSUME NEW w \in Writers, sendResponse(w)
      PROVE  StreamInv(i)'
  <2>1. PICK e : Moved(e, w)
    BY <1>3, MoveFacts
  <2>2. seqID' = seqID
    BY <1>3 DEF sendResponse
  <2>3. at'[w].at = "idle" /\ \A v \in Writers : v # w => at'[v] = at[v]
    BY <2>1 DEF Moved, TypeOK, Idle
  <2>4. \A v, n : HeldNumber(v, i, n)' <=> HeldNumber(v, i, n) /\ v # w
    BY <1>r, <2>3 DEF HeldNumber, HasNumber, OfStream
  <2>5. \A n : HasNumber(e, i, n) <=> HeldNumber(w, i, n)
    BY <2>1 DEF Moved, HeldNumber, HasNumber, OfStream
  <2>6. \A k, n : SentNumber(k, i, n)' <=> SentNumber(k, i, n) \/ (k = Len(Sent) + 1 /\ HeldNumber(w, i, n))
    <3>1. DOMAIN Sent' = DOMAIN Sent \cup {Len(Sent) + 1} /\ Len(Sent) + 1 \notin DOMAIN Sent
      BY <1>0, <2>1 DEF Moved
    <3>2. Sent'[Len(Sent) + 1] = e /\ \A k \in DOMAIN Sent : Sent'[k] = Sent[k]
      BY <1>0, <2>1 DEF Moved
    <3>3. \A k, n : SentNumber(k, i, n)' <=> k \in DOMAIN Sent' /\ HasNumber(Sent'[k], i, n)
      BY <1>r DEF SentNumber, HasNumber, OfStream
    <3> QED
      BY <2>5, <3>1, <3>2, <3>3 DEF SentNumber
  <2>7. \A n : ~SentNumber(Len(Sent) + 1, i, n)
    BY <1>0 DEF SentNumber
  <2>8. StreamInv(i)
    BY <2>2 DEF NumberInv
  <2>9. PICK drawn : drawn = 1 .. seqID[i][1] /\ drawn = 1 .. seqID'[i][1]
    BY <2>2
  <2>10. /\ \A n, k : SentNumber(k, i, n)' => n \in drawn
         /\ \A n, v : HeldNumber(v, i, n)' => n \in drawn
    BY <2>4, <2>6, <2>8, <2>9 DEF StreamInv
  <2>11. \A n \in drawn : (\E k : SentNumber(k, i, n)') \/ (\E v : HeldNumber(v, i, n)')
    BY <2>4, <2>6, <2>8, <2>9 DEF StreamInv
  <2>12. /\ \A n, k, l : SentNumber(k, i, n)' /\ SentNumber(l, i, n)' => k = l
         /\ \A n, u, v : HeldNumber(u, i, n)' /\ HeldNumber(v, i, n)' => u = v
         /\ \A n, k, v : ~(SentNumber(k, i, n)' /\ HeldNumber(v, i, n)')
    BY <2>4, <2>6, <2>7, <2>8 DEF StreamInv
  <2> QED
    BY <2>9, <2>10, <2>11, <2>12 DEF StreamInv
<1>4. ASSUME NEW j \in IDs, Cancel(j)
      PROVE  StreamInv(i)'
  <2>1. seqID' = [seqID EXCEPT ![j] = <<>>] /\ at' = at /\ Sent' = Sent
    BY <1>4 DEF Cancel, Sent
  <2>2. seqID'[i] = seqID[i]
    BY <2>1 DEF TypeOK
  <2>3. \A v, n : HeldNumber(v, i, n)' <=> HeldNumber(v, i, n)
    BY <1>r, <2>1 DEF HeldNumber, HasNumber, OfStream
  <2> QED
    BY <1>s, <2>1, <2>2, <2>3
<1>5. CASE Encode
  <2>1. UNCHANGED <<seqID, at>> /\ ch # <<>> /\ ch' = Tail(ch) /\ wire' = Append(wire, Head(ch))
    BY <1>5 DEF Encode
  <2>2. DOMAIN Sent' = DOMAIN Sent /\ \A k \in DOMAIN Sent : Sent'[k] = Sent[k]
    BY <2>1, SentSame
  <2>3. \A v, n : HeldNumber(v, i, n)' <=> HeldNumber(v, i, n)
    BY <1>r, <2>1 DEF HeldNumber, HasNumber, OfStream
  <2> QED
    BY <1>s, <2>1, <2>2, <2>3
<1>6. CASE UNCHANGED vars
  BY <1>6, <1>s DEF vars, Sent, HeldNumber, HasNumber, OfStream
<1> QED
  BY <1>1, <1>2, <1>3, <1>4, <1>5, <1>6 DEF Next

LEMMA NumbersInvariant == Spec => [](AddressInv /\ IDInv /\ NumberInv)
BY AddressInit, IDInit, NumberInit, AddressStep, IDStep, NumberStep, PTL DEF Spec

LEMMA OneOf ==
  ASSUME NEW A, NEW B, A # {} \/ B # {}, \A k, l \in A : k = l, \A v, w \in B : v = w,
         \A k \in A, w \in B : FALSE
  PROVE  ExactlyOne(A, B)
<1>1. CASE A # {}
  BY <1>1 DEF ExactlyOne
<1>2. CASE A = {}
  BY <1>2 DEF ExactlyOne
<1> QED
  BY <1>1, <1>2

\* However goroutines interleave drawing an ID, drawing a number and sending, the
\* writer gives each response ID to one response and skips none, and the numbers
\* of a stream that is not canceled are 1, 2, 3, ... each on one response, either
\* sent or in the hands of a goroutine that will send it.
THEOREM UsedOnce == Spec => []NumbersUsedOnce
<1>1. AddressInv /\ IDInv => IDsUsedOnce
  <2> SUFFICES ASSUME TypeOK, IDInv
               PROVE  IDsUsedOnce
    BY DEF AddressInv
  <2> DEFINE holders == {w \in Writers : at[w].at # "idle"}
  <2>1. ASSUME NEW n \in 0 .. counter - 1
        PROVE  ExactlyOne({k \in DOMAIN Sent : HasID(Sent[k], n)}, {w \in holders : HasID(at[w], n)})
    <3> DEFINE A == {k \in DOMAIN Sent : HasID(Sent[k], n)}
               B == {w \in holders : HasID(at[w], n)}
    <3>1. \A x : (x \in A <=> SentID(x, n)) /\ (x \in B <=> HeldID(x, n))
      BY DEF SentID, HeldID
    <3> HIDE DEF A, B
    <3>2. A # {} \/ B # {}
      BY <3>1 DEF IDInv
    <3>3. /\ \A k, l \in A : k = l
          /\ \A v, w \in B : v = w
          /\ \A k \in A, w \in B : FALSE
      BY <3>1 DEF IDInv
    <3>4. ExactlyOne(A, B)
      BY <3>2, <3>3, OneOf
    <3> QED
      BY <3>4 DEF A, B
  <2>2. \A k \in DOMAIN Sent : Sent[k].drawn => Sent[k].resp.responseId \in 0 .. counter - 1
    BY DEF IDInv, SentID, HasID
  <2>3. \A w \in holders : at[w].drawn => at[w].resp.responseId \in 0 .. counter - 1
    BY DEF IDInv, HeldID, HasID
  <2>4. \A n \in 0 .. counter - 1 : n < counter
    BY DEF TypeOK
  <2> QED
    BY <2>1, <2>2, <2>3, <2>4 DEF IDsUsedOnce
<1>2. NumberInv => StreamNumbersUsedOnce
  <2> SUFFICES ASSUME NumberInv
               PROVE  StreamNumbersUsedOnce
    OBVIOUS
  <2> DEFINE holders == {w \in Writers : at[w].at = "send"}
  <2>1. ASSUME NEW i \in IDs, seqID[i] # <<>>
        PROVE  /\ \A n \in 1 .. seqID[i][1] :
                    ExactlyOne({k \in DOMAIN Sent : HasNumber(Sent[k], i, n)}, {w \in holders : HasNumber(at[w], i, n)})
               /\ \A k \in DOMAIN Sent : OfStream(Sent[k], i) => NumberOf(Sent[k].resp) \in 1 .. seqID[i][1]
               /\ \A w \in holders : OfStream(at[w], i) => NumberOf(at[w].resp) \in 1 .. seqID[i][1]
    <3>1. StreamInv(i)
      BY <2>1 DEF NumberInv
    <3>2. ASSUME NEW n \in 1 .. seqID[i][1]
          PROVE  ExactlyOne({k \in DOMAIN Sent : HasNumber(Sent[k], i, n)}, {w \in holders : HasNumber(at[w], i, n)})
      <4> DEFINE A == {k \in DOMAIN Sent : HasNumber(Sent[k], i, n)}
                 B == {w \in holders : HasNumber(at[w], i, n)}
      <4>1. \A x : (x \in A <=> SentNumber(x, i, n)) /\ (x \in B <=> HeldNumber(x, i, n))
        BY DEF SentNumber, HeldNumber
      <4> HIDE DEF A, B
      <4>2. A # {} \/ B # {}
        BY <3>1, <4>1 DEF StreamInv
      <4>3. /\ \A k, l \in A : k = l
            /\ \A v, w \in B : v = w
            /\ \A k \in A, w \in B : FALSE
        BY <3>1, <4>1 DEF StreamInv
      <4>4. ExactlyOne(A, B)
        BY <4>2, <4>3, OneOf
      <4> QED
        BY <4>4 DEF A, B
    <3>3. \A k \in DOMAIN Sent : OfStream(Sent[k], i) => NumberOf(Sent[k].resp) \in 1 .. seqID[i][1]
      BY <3>1 DEF StreamInv, SentNumber, HasNumber
    <3>4. \A w \in holders : OfStream(at[w], i) => NumberOf(at[w].resp) \in 1 .. seqID[i][1]
      BY <3>1 DEF StreamInv, HeldNumber, HasNumber
    <3> QED
      BY <3>2, <3>3, <3>4
  <2> QED
    BY <2>1 DEF StreamNumbersUsedOnce
<1>3. AddressInv /\ IDInv /\ NumberInv => NumbersUsedOnce
  BY <1>1, <1>2 DEF NumbersUsedOnce
<1> QED
  BY <1>3, NumbersInvariant, PTL

=============================================================================
