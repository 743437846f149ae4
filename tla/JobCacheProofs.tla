--------------------------- MODULE JobCacheProofs ---------------------------
(***************************************************************************)
(* Proofs about JobCache for every value of its constants: any number of   *)
(* jobs, subscribers and closers, any capacities and any bound.            *)
(***************************************************************************)
EXTENDS JobCache, TLAPS

-----------------------------------------------------------------------------
(* Sequences used as Go channels.                                          *)

\* A send on a channel adds one element at its end.
LEMMA AppendFacts ==
  ASSUME NEW S, NEW q \in Seq(S), NEW e \in S
  PROVE  /\ Append(q, e) \in Seq(S)
         /\ Len(Append(q, e)) = Len(q) + 1
         /\ DOMAIN Append(q, e) = 1 .. Len(q) + 1
         /\ DOMAIN q = 1 .. Len(q)
         /\ \A i \in DOMAIN q : Append(q, e)[i] = q[i]
         /\ Append(q, e)[Len(q) + 1] = e
  OBVIOUS

\* A receive from a channel takes its first element.
LEMMA TailFacts ==
  ASSUME NEW S, NEW q \in Seq(S), q # <<>>
  PROVE  /\ Head(q) \in S
         /\ Head(q) = q[1]
         /\ 1 \in DOMAIN q
         /\ Tail(q) \in Seq(S)
         /\ DOMAIN q = 1 .. Len(q)
         /\ DOMAIN Tail(q) = 1 .. Len(q) - 1
         /\ \A i \in DOMAIN Tail(q) : i + 1 \in DOMAIN q /\ Tail(q)[i] = q[i + 1]
  OBVIOUS

\* What a channel holds after a send.
LEMMA AppendRange ==
  ASSUME NEW S, NEW q \in Seq(S), NEW e \in S
  PROVE  Range(Append(q, e)) = Range(q) \cup {e}
<1> DEFINE a == Append(q, e)
<1>1. /\ Len(q) \in Nat
      /\ DOMAIN q = 1 .. Len(q) /\ DOMAIN a = 1 .. Len(q) + 1
      /\ \A i \in DOMAIN q : a[i] = q[i]
      /\ a[Len(q) + 1] = e
  BY AppendFacts
<1> HIDE DEF a
<1>2. /\ \A i \in DOMAIN a : i \in DOMAIN q \/ i = Len(q) + 1
      /\ \A i \in DOMAIN q : i \in DOMAIN a
      /\ Len(q) + 1 \in DOMAIN a
  BY <1>1
<1>3. Range(a) = Range(q) \cup {e}
  BY <1>1, <1>2 DEF Range
<1> QED
  BY <1>3 DEF a

\* What a channel holds before a receive.
LEMMA TailRange ==
  ASSUME NEW S, NEW q \in Seq(S), q # <<>>
  PROVE  Range(q) = {Head(q)} \cup Range(Tail(q))
<1> DEFINE t == Tail(q)
<1>1. /\ Len(q) \in Nat
      /\ Head(q) = q[1] /\ 1 \in DOMAIN q
      /\ DOMAIN q = 1 .. Len(q) /\ DOMAIN t = 1 .. Len(q) - 1
      /\ \A i \in DOMAIN t : i + 1 \in DOMAIN q /\ t[i] = q[i + 1]
  BY TailFacts
<1> HIDE DEF t
<1>2. \A i \in DOMAIN q : i = 1 \/ (i - 1 \in DOMAIN t /\ t[i - 1] = q[i])
  BY <1>1
<1>3. Range(q) \subseteq {Head(q)} \cup Range(t)
  BY <1>1, <1>2 DEF Range
<1>4. {Head(q)} \cup Range(t) \subseteq Range(q)
  BY <1>1 DEF Range
<1> QED
  BY <1>3, <1>4 DEF t

-----------------------------------------------------------------------------
(* Which steps change what.                                                *)

\* A step is a commit, a step of one of the other parts, or changes nothing.
LEMMA StepCases ==
  ASSUME [Next]_vars
  PROVE  \/ \E j \in JobIDs, st \in Status : Commit(j, st)
         \/ PruneScan
         \/ \E j \in JobIDs : PruneDelete(j)
         \/ SvcReceive \/ processUpdate \/ SvcStop \/ closeSubscribers \/ SvcExit
         \/ \E c \in Closers : CloseBegin(c) \/ CloseReturn(c)
         \/ \E s \in Subs : CallStep(s) \/ CancelParent(s)
         \/ UNCHANGED vars
  BY DEF Next, Writer, Service, AddOrUpdate, Update

-----------------------------------------------------------------------------
(* Type correctness.                                                       *)

\* The types are inductive on their own.
LEMMA TypeStep == TypeOK /\ [Next]_vars => TypeOK'
<1> SUFFICES ASSUME TypeOK, [Next]_vars
             PROVE  TypeOK'
  OBVIOUS
<1> USE ConstantsAssumption DEF TypeOK
<1>1. CASE \E j \in JobIDs, st \in Status : Commit(j, st)
  <2> PICK j \in JobIDs, st \in Status : Commit(j, st)
    BY <1>1
  <2> DEFINE e == [id |-> j, status |-> st]
  <2>1. /\ log' \in Seq([id : JobIDs, status : Status])
        /\ Len(log') = Len(log) + 1
    BY AppendFacts DEF Commit
  <2>2. store' \in [JobIDs -> Nat] /\ \A i \in JobIDs : store'[i] <= Len(log')
    BY <2>1 DEF Commit
  <2>3. ch' \in Seq(Nat)
    <3>1. Append(ch, Len(log) + 1) \in Seq(Nat)
      OBVIOUS
    <3> QED
      BY <3>1 DEF Commit, notify
  <2>4. lost' \in [Subs -> SUBSET Nat]
    <3>1. Len(log) + 1 \in Nat
      OBVIOUS
    <3> QED
      BY <3>1 DEF Commit, notify
  <2> QED
    BY <2>1, <2>2, <2>3, <2>4 DEF Commit, callVars
<1>2. CASE PruneScan
  BY <1>2 DEF PruneScan, callVars, chanVars
<1>3. CASE \E j \in JobIDs : PruneDelete(j)
  BY <1>3 DEF PruneDelete, callVars, chanVars
<1>4. CASE SvcReceive
  BY <1>4, TailFacts DEF SvcReceive, callVars, chanVars
<1>5. CASE processUpdate
  <2>1. buf' \in [Subs -> Seq(Nat)]
    BY <1>5, AppendFacts DEF processUpdate, Notify
  <2>2. registered' \subseteq Subs /\ closes' \in [Subs -> Nat]
    BY <1>5 DEF processUpdate, Notify
  <2>3. lost' \in [Subs -> SUBSET Nat]
    BY <1>5 DEF processUpdate, Notify
  <2> QED
    BY <1>5, <2>1, <2>2, <2>3 DEF processUpdate, Notify, callVars
<1>6. CASE SvcStop \/ closeSubscribers \/ SvcExit
  <2>1. CASE SvcStop
    BY <2>1 DEF SvcStop, callVars, chanVars
  <2>2. CASE closeSubscribers
    <3>1. closes' \in [Subs -> Nat]
      BY <2>2 DEF closeSubscribers
    <3> QED
      BY <2>2, <3>1 DEF closeSubscribers, callVars
  <2>3. CASE SvcExit
    BY <2>3 DEF SvcExit, callVars, chanVars
  <2> QED
    BY <1>6, <2>1, <2>2, <2>3
<1>7. CASE \E c \in Closers : CloseBegin(c) \/ CloseReturn(c)
  BY <1>7 DEF CloseBegin, CloseReturn, callVars, chanVars
<1>8. ASSUME NEW s \in Subs, CallStep(s) \/ CancelParent(s)
      PROVE  TypeOK'
  <2>1. CASE Lookup(s)
    <3>1. snap' \in [Subs -> SUBSET Nat]
      <4>1. call[s].id \in JobIDs
        OBVIOUS
      <4>2. {store[j] : j \in {i \in JobIDs : Visible(call[s].user, i)}} \in SUBSET Nat
        OBVIOUS
      <4>3. {store[call[s].id]} \in SUBSET Nat
        BY <4>1
      <4> QED
        BY <2>1, <4>2, <4>3 DEF Lookup
    <3>2. pc' \in [Subs -> {"idle", "subscribe", "recheck", "loop", "ended", "refused"}]
      BY <2>1 DEF Lookup
    <3> QED
      BY <2>1, <3>1, <3>2 DEF Lookup, cacheVars, chanVars
  <2>2. CASE subscribe(s)
    <3>1. pc' \in [Subs -> {"idle", "subscribe", "recheck", "loop", "ended", "refused"}]
      BY <2>2 DEF subscribe
    <3>2. closes' \in [Subs -> Nat]
      <4>1. closes' = closes \/ closes' = [closes EXCEPT ![s] = @ + 1]
        BY <2>2 DEF subscribe
      <4>2. closes \in [Subs -> Nat]
        OBVIOUS
      <4> HIDE DEF TypeOK
      <4> QED
        BY <4>1, <4>2
    <3>3. mark' \in [Subs -> Nat]
      BY <2>2 DEF subscribe
    <3>4. registered' \subseteq Subs
      BY <2>2 DEF subscribe
    <3> QED
      BY <2>2, <3>1, <3>2, <3>3, <3>4 DEF subscribe, cacheVars
  <2>3. CASE Recheck(s)
    BY <2>3 DEF Recheck, cacheVars, chanVars
  <2>4. CASE Receive(s)
    <3>1. buf' \in [Subs -> Seq(Nat)] /\ got' \in [Subs -> Seq(Nat)]
      BY <2>4, TailFacts, AppendFacts DEF Receive
    <3> QED
      BY <2>4, <3>1 DEF Receive, cacheVars
  <2>5. CASE ReceiveClosed(s) \/ CtxDone(s) \/ CancelParent(s)
    BY <2>5 DEF ReceiveClosed, CtxDone, CancelParent, cacheVars, chanVars
  <2> QED
    BY <1>8, <2>1, <2>2, <2>3, <2>4, <2>5 DEF CallStep
<1>9. CASE UNCHANGED vars
  BY <1>9 DEF vars, cacheVars, callVars, chanVars
<1> QED
  BY <1>1, <1>2, <1>3, <1>4, <1>5, <1>6, <1>7, <1>8, <1>9, StepCases

\* The types hold when the cache is created.
LEMMA TypeInit == Init => TypeOK
<1> SUFFICES ASSUME Init
             PROVE  TypeOK
  OBVIOUS
<1>1. /\ log \in Seq([id : JobIDs, status : Status])
      /\ Len(log) = 0
      /\ ch \in Seq(Nat)
  BY DEF Init
<1>2. store \in [JobIDs -> Nat] /\ \A j \in JobIDs : store[j] <= Len(log)
  BY <1>1 DEF Init
<1>3. buf \in [Subs -> Seq(Nat)] /\ got \in [Subs -> Seq(Nat)]
  BY DEF Init
<1>4. snap \in [Subs -> SUBSET Nat] /\ lost \in [Subs -> SUBSET Nat]
  BY DEF Init
<1> QED
  BY <1>1, <1>2, <1>3, <1>4 DEF Init, TypeOK

\* Every variable of the cache keeps its type, and the store never points
\* past the committed history.
THEOREM TypeCorrect == Spec => []TypeOK
  BY TypeInit, TypeStep, PTL DEF Spec

-----------------------------------------------------------------------------
(* Channels and shutdown.                                                  *)

\* Where a channel can be: a call that has not subscribed has an open channel
\* on no list; one that waits has a channel on a list or a closed one.
Channels ==
  \A s \in Subs :
    /\ pc[s] \in {"idle", "subscribe"} => s \notin registered /\ closes[s] = 0
    /\ pc[s] \in {"recheck", "loop"} => s \in registered \/ closes[s] = 1

\* How far shutdown has come: who may rely on stop, on the empty lists and on
\* the exit of the service goroutine.
Shutdown ==
  /\ svc \in {"closing", "closed", "exited"} => stop
  /\ svc \in {"closed", "exited"} => registered = {}
  /\ \A c \in Closers : closer[c] # "idle" => stop
  /\ \A c \in Closers : closer[c] = "returned" => svc = "exited"
  /\ stop => \E c \in Closers : closer[c] \in {"waiting", "returned"}

ChannelInv == TypeOK /\ NoChannelPanic /\ Channels /\ Shutdown

LEMMA ChannelInit == Init => ChannelInv
<1>1. Init => TypeOK
  BY TypeInit
<1> QED
  BY <1>1 DEF Init, ChannelInv, NoChannelPanic, Channels, Shutdown

\* A channel is closed once because whoever closes it takes it off its list
\* or never put it there; stop is checked under the lock that empties the
\* lists, so a call subscribes before that or finds stop closed.
LEMMA ChannelStep == ChannelInv /\ [Next]_vars => ChannelInv'
<1> SUFFICES ASSUME ChannelInv, [Next]_vars
             PROVE  ChannelInv'
  OBVIOUS
<1>0. TypeOK /\ TypeOK'
  BY TypeStep DEF ChannelInv
<1> USE <1>0 DEF TypeOK, ChannelInv, NoChannelPanic, Channels, Shutdown
<1>1. CASE \/ \E j \in JobIDs, st \in Status : Commit(j, st)
           \/ PruneScan
           \/ \E j \in JobIDs : PruneDelete(j)
  BY <1>1 DEF Commit, PruneScan, PruneDelete, callVars, chanVars
<1>2. CASE SvcReceive \/ SvcStop \/ SvcExit
  BY <1>2 DEF SvcReceive, SvcStop, SvcExit, callVars, chanVars
<1>3. CASE processUpdate
  <2>1. /\ UNCHANGED <<stop, closer, pc>> /\ svc' = "select"
        /\ \E dead \in SUBSET registered :
             /\ registered' = registered \ dead
             /\ closes' = [s \in Subs |-> IF s \in dead THEN closes[s] + 1 ELSE closes[s]]
    BY <1>3 DEF processUpdate, Notify, callVars
  <2> HIDE DEF TypeOK
  <2>2. PICK dead \in SUBSET registered :
          /\ registered' = registered \ dead
          /\ closes' = [s \in Subs |-> IF s \in dead THEN closes[s] + 1 ELSE closes[s]]
    BY <2>1
  <2>3. ASSUME NEW s \in Subs
        PROVE  /\ closes'[s] <= IF s \in registered' THEN 0 ELSE 1
               /\ s \notin registered => s \notin registered' /\ closes'[s] = closes[s]
               /\ s \in registered => s \in registered' \/ closes'[s] = 1
    <3>1. closes[s] \in Nat /\ closes[s] <= IF s \in registered THEN 0 ELSE 1
      BY DEF TypeOK
    <3>2. s \in dead => s \in registered /\ s \notin registered' /\ closes'[s] = closes[s] + 1
      BY <2>2
    <3>3. s \notin dead => closes'[s] = closes[s] /\ (s \in registered <=> s \in registered')
      BY <2>2
    <3> QED
      BY <3>1, <3>2, <3>3
  <2>4. NoChannelPanic' /\ Channels'
    BY <2>1, <2>3
  <2>5. Shutdown'
    <3> HIDE DEF Channels, NoChannelPanic
    <3>1. UNCHANGED <<stop, closer>> /\ svc' = "select" /\ svc = "process"
      BY <1>3, <2>1 DEF processUpdate
    <3> QED
      BY <3>1
  <2> QED
    BY <2>4, <2>5
<1>4. CASE closeSubscribers
  BY <1>4 DEF closeSubscribers, callVars
<1>5. CASE \E c \in Closers : CloseBegin(c) \/ CloseReturn(c)
  <2> PICK c \in Closers : CloseBegin(c) \/ CloseReturn(c)
    BY <1>5
  <2>1. CASE CloseBegin(c)
    BY <2>1 DEF CloseBegin, callVars, chanVars
  <2>2. CASE CloseReturn(c)
    BY <2>2 DEF CloseReturn, callVars, chanVars
  <2> QED
    BY <2>1, <2>2
<1>6. ASSUME NEW s \in Subs, CallStep(s) \/ CancelParent(s)
      PROVE  ChannelInv'
  <2>1. CASE Lookup(s)
    <3>1. /\ UNCHANGED <<stop, svc, closer, registered, closes>>
          /\ pc[s] = "idle" /\ pc'[s] \in {"subscribe", "ended", "refused"}
          /\ \A t \in Subs \ {s} : pc'[t] = pc[t]
      BY <2>1 DEF Lookup, cacheVars, chanVars
    <3> HIDE DEF TypeOK
    <3> QED
      BY <3>1
  <2>2. CASE subscribe(s)
    <3>1. s \notin registered /\ closes[s] = 0
      BY <2>2 DEF subscribe
    <3>2. pc' = [pc EXCEPT ![s] = pc'[s]] /\ pc'[s] \in {"recheck", "loop"}
      BY <2>2 DEF subscribe
    <3>3. CASE stop
      <4>1. closes' = [closes EXCEPT ![s] = 1] /\ registered' = registered
        BY <2>2, <3>1, <3>3 DEF subscribe
      <4>2. /\ UNCHANGED <<stop, svc, closer>> /\ pc[s] = "subscribe" /\ closes'[s] = 1
            /\ \A t \in Subs \ {s} : pc'[t] = pc[t] /\ closes'[t] = closes[t]
        BY <2>2, <3>2, <4>1 DEF subscribe, cacheVars
      <4> HIDE DEF TypeOK
      <4> QED
        BY <3>1, <3>2, <3>3, <4>1, <4>2
    <3>4. CASE ~stop
      <4>1. registered' = registered \cup {s} /\ closes' = closes
        BY <2>2, <3>4 DEF subscribe
      <4>2. /\ UNCHANGED <<stop, svc, closer>> /\ pc[s] = "subscribe"
            /\ \A t \in Subs \ {s} : pc'[t] = pc[t]
        BY <2>2, <3>2 DEF subscribe, cacheVars
      <4> HIDE DEF TypeOK
      <4> QED
        BY <3>1, <3>2, <3>4, <4>1, <4>2
    <3> QED
      BY <3>3, <3>4
  <2>3. CASE Recheck(s)
    <3>1. /\ UNCHANGED <<stop, svc, closer, registered, closes>>
          /\ pc[s] = "recheck" /\ pc'[s] \in {"loop", "refused"}
          /\ \A t \in Subs \ {s} : pc'[t] = pc[t]
      BY <2>3 DEF Recheck, cacheVars, chanVars
    <3> HIDE DEF TypeOK
    <3> QED
      BY <3>1
  <2>4. CASE Receive(s)
    <3>1. /\ UNCHANGED <<stop, svc, closer, registered, closes>>
          /\ pc[s] = "loop" /\ pc'[s] \in {"loop", "ended"}
          /\ \A t \in Subs \ {s} : pc'[t] = pc[t]
      BY <2>4 DEF Receive, cacheVars
    <3> HIDE DEF TypeOK
    <3> QED
      BY <3>1
  <2>5. CASE ReceiveClosed(s) \/ CtxDone(s) \/ CancelParent(s)
    <3>1. /\ UNCHANGED <<stop, svc, closer, registered, closes>>
          /\ pc'[s] = pc[s] \/ pc'[s] = "ended"
          /\ \A t \in Subs \ {s} : pc'[t] = pc[t]
      BY <2>5 DEF ReceiveClosed, CtxDone, CancelParent, cacheVars, chanVars
    <3> HIDE DEF TypeOK
    <3> QED
      BY <3>1
  <2> QED
    BY <1>6, <2>1, <2>2, <2>3, <2>4, <2>5 DEF CallStep
<1>7. CASE UNCHANGED vars
  BY <1>7 DEF vars, cacheVars, callVars, chanVars
<1> QED
  BY <1>1, <1>2, <1>3, <1>4, <1>5, <1>6, <1>7, StepCases

\* No order of cancellations, subscriptions, notifications and calls of Close
\* makes the cache send on or close a closed channel.
THEOREM ChannelSafety == Spec => []NoChannelPanic
<1>1. ChannelInv => NoChannelPanic
  BY DEF ChannelInv
<1> QED
  BY <1>1, ChannelInit, ChannelStep, PTL DEF Spec

\* When any call of Close has returned, the service goroutine is gone and no
\* call is left waiting on a channel nobody will close.
THEOREM CloseCompleteness == Spec => []CloseReleasesReaders
<1>1. ChannelInv => CloseReleasesReaders
  BY DEF ChannelInv, TypeOK, Channels, Shutdown, CloseReleasesReaders
<1> QED
  BY <1>1, ChannelInit, ChannelStep, PTL DEF Spec

-----------------------------------------------------------------------------
(* Delivery.                                                               *)

\* The elements of a channel increase strictly.
Sorted(q) == \A i, k \in DOMAIN q : i < k => q[i] < q[k]

\* Sending an element larger than those queued keeps a channel sorted.
LEMMA SendFacts ==
  ASSUME NEW q \in Seq(Nat), NEW e \in Nat
  PROVE  /\ Range(q) \subseteq Nat
         /\ Range(Append(q, e)) = Range(q) \cup {e}
         /\ Sorted(q) /\ (\A m \in Range(q) : m < e) => Sorted(Append(q, e))
<1> DEFINE a == Append(q, e)
<1>1. /\ Len(q) \in Nat
      /\ DOMAIN q = 1 .. Len(q) /\ DOMAIN a = 1 .. Len(q) + 1
      /\ \A i \in DOMAIN q : a[i] = q[i]
      /\ a[Len(q) + 1] = e
  BY AppendFacts
<1> HIDE DEF a
<1>2. /\ \A i \in DOMAIN a : i \in DOMAIN q \/ i = Len(q) + 1
      /\ \A i \in DOMAIN q : i \in DOMAIN a
      /\ Len(q) + 1 \in DOMAIN a
  BY <1>1
<1>3. Range(q) \subseteq Nat
  BY DEF Range
<1>4. Range(a) = Range(q) \cup {e}
  BY AppendRange DEF a
<1>5. ASSUME Sorted(q), \A m \in Range(q) : m < e, NEW i \in DOMAIN a, NEW k \in DOMAIN a, i < k
      PROVE  a[i] < a[k]
  <2>1. i \in DOMAIN q
    BY <1>1, <1>5
  <2>2. CASE k \in DOMAIN q
    BY <1>1, <1>5, <2>1, <2>2 DEF Sorted
  <2>3. CASE k = Len(q) + 1
    <3>1. q[i] < e
      BY <1>5, <2>1 DEF Range
    <3> QED
      BY <1>1, <2>1, <2>3, <3>1
  <2> QED
    BY <1>2, <2>2, <2>3
<1> QED
  BY <1>3, <1>4, <1>5 DEF Sorted, a

\* Receiving takes the smallest element of a sorted channel.
LEMMA ReceiveFacts ==
  ASSUME NEW q \in Seq(Nat), q # <<>>
  PROVE  /\ Head(q) \in Nat
         /\ Range(q) = {Head(q)} \cup Range(Tail(q))
         /\ Sorted(q) => /\ Sorted(Tail(q))
                         /\ \A m \in Range(Tail(q)) : Head(q) < m
<1> DEFINE t == Tail(q)
<1>1. /\ Len(q) \in Nat
      /\ Head(q) \in Nat /\ Head(q) = q[1] /\ 1 \in DOMAIN q
      /\ DOMAIN q = 1 .. Len(q) /\ DOMAIN t = 1 .. Len(q) - 1
      /\ \A i \in DOMAIN t : i + 1 \in DOMAIN q /\ t[i] = q[i + 1]
  BY TailFacts
<1> HIDE DEF t
<1>3. Range(q) = {Head(q)} \cup Range(t)
  BY TailRange DEF t
<1>4. ASSUME Sorted(q)
      PROVE  Sorted(t) /\ \A m \in Range(t) : Head(q) < m
  <2>1. Sorted(t)
    BY <1>1, <1>4 DEF Sorted
  <2>2. \A i \in DOMAIN t : Head(q) < t[i]
    <3>1. ASSUME NEW i \in DOMAIN t
          PROVE  i + 1 \in DOMAIN q /\ 1 < i + 1 /\ t[i] = q[i + 1]
      BY <1>1
    <3> QED
      BY <1>1, <1>4, <3>1 DEF Sorted
  <2> QED
    BY <2>1, <2>2 DEF Range
<1> QED
  BY <1>1, <1>3, <1>4 DEF t

\* Updates are positions of the history, and the store points to a change of
\* the job itself.
Positions ==
  /\ \A j \in JobIDs : store[j] # 0 => log[store[j]].id = j
  /\ Range(ch) \subseteq 1 .. Len(log)
  /\ held \in 0 .. Len(log)
  /\ svc = "process" <=> held # 0
  /\ \A s \in Subs :
       /\ Range(buf[s]) \subseteq 1 .. Len(log)
       /\ Range(got[s]) \subseteq 1 .. Len(log)
       /\ mark[s] <= Len(log)

\* The channel, the update being processed, a subscriber's channel and what
\* it has received hold, in this order, ever older changes.
InOrder ==
  /\ Sorted(ch)
  /\ \A k \in Range(ch) : held < k
  /\ \A s \in Subs :
       /\ Sorted(buf[s]) /\ Sorted(got[s])
       /\ \A m \in Range(buf[s]) \cup Range(got[s]) :
            /\ \A k \in Range(ch) : m < k
            /\ held # 0 => m < held
       /\ \A m \in Range(got[s]), k \in Range(buf[s]) : m < k

\* Only updates a subscription is for reach its channel.
Matching ==
  \A s \in Subs : \A m \in Range(buf[s]) \cup Range(got[s]) : Match(call[s], log[m].id)

\* A RunningJobContext whose goroutine waits has received no terminal update,
\* and if its job is terminal now it became so after the subscription.
Watching ==
  \A s \in Subs :
    /\ pc[s] \in {"idle", "subscribe", "recheck"} => got[s] = <<>>
    /\ call[s].op = "RunningJobContext" /\ pc[s] = "loop" =>
         /\ \A m \in Range(got[s]) : ~TerminalStatus(m)
         /\ LET n == store[call[s].id] IN
            n # 0 /\ TerminalStatus(n) => mark[s] < n

DeliveryInv ==
  ChannelInv /\ Positions /\ InOrder /\ Matching /\ UpdatesAccounted /\ Watching

LEMMA DeliveryInit == Init => DeliveryInv
<1> SUFFICES ASSUME Init
             PROVE  DeliveryInv
  OBVIOUS
<1>1. /\ Range(ch) = {} /\ Sorted(ch)
      /\ \A s \in Subs : /\ Range(buf[s]) = {} /\ Range(got[s]) = {}
                         /\ Sorted(buf[s]) /\ Sorted(got[s])
  BY DEF Init, Sorted, Range
<1>2. Positions
  BY <1>1 DEF Init, Positions
<1>3. InOrder /\ Matching
  BY <1>1 DEF InOrder, Matching
<1>4. UpdatesAccounted /\ Watching
  BY <1>1 DEF Init, UpdatesAccounted, Watching
<1> QED
  BY <1>2, <1>3, <1>4, ChannelInit DEF DeliveryInv

\* A commit adds one change, newer than all others, to the history and to the
\* channel, or records it as lost.
LEMMA CommitDelivery ==
  ASSUME DeliveryInv, ChannelInv', NEW j \in JobIDs, NEW st \in Status, Commit(j, st)
  PROVE  DeliveryInv'
<1> DEFINE n == Len(log) + 1
<1>0. /\ log \in Seq([id : JobIDs, status : Status]) /\ Len(log) \in Nat
      /\ ch \in Seq(Nat) /\ store \in [JobIDs -> Nat]
      /\ \A i \in JobIDs : store[i] <= Len(log)
      /\ call \in [Subs -> Calls] /\ mark \in [Subs -> Nat] /\ held \in Nat
      /\ registered \subseteq Subs /\ lost \in [Subs -> SUBSET Nat]
  BY DEF DeliveryInv, ChannelInv, TypeOK
<1>1. /\ log' = Append(log, [id |-> j, status |-> st])
      /\ store' = [store EXCEPT ![j] = n]
      /\ UNCHANGED <<held, svc, registered, buf, call, pc, got, mark>>
  BY DEF Commit, callVars
<1>2. /\ n \in Nat /\ n > Len(log) /\ Len(log') = n
      /\ log'[n] = [id |-> j, status |-> st]
      /\ \A i \in 1 .. Len(log) : log'[i] = log[i]
      /\ \A i : i \in 1 .. n <=> i \in 1 .. Len(log) \/ i = n
  BY <1>0, <1>1, AppendFacts
<1>3. \/ ch' = Append(ch, n) /\ lost' = lost
      \/ ch' = ch /\ lost' = [s \in Subs |-> lost[s] \cup {n}]
  BY DEF Commit, notify
<1>4. /\ \A m \in Range(ch) : m < n
      /\ \A s \in Subs : \A m \in Range(buf[s]) \cup Range(got[s]) : m < n
      /\ held < n
  <2>1. \A m \in 1 .. Len(log) : m < n
    BY <1>0
  <2>2. held < n
    BY <1>0 DEF DeliveryInv, Positions
  <2> QED
    BY <2>1, <2>2 DEF DeliveryInv, Positions
<1> HIDE DEF n
<1>5. /\ Range(ch) \subseteq Range(ch') /\ Range(ch') \subseteq Range(ch) \cup {n}
      /\ Sorted(ch')
      /\ ch' = Append(ch, n) => n \in Range(ch')
  BY <1>0, <1>2, <1>3, <1>4, SendFacts DEF DeliveryInv, InOrder
<1>6. Positions'
  <2>1. \A i \in JobIDs : store'[i] # 0 => log'[store'[i]].id = i
    <3> SUFFICES ASSUME NEW i \in JobIDs, store'[i] # 0
                 PROVE  log'[store'[i]].id = i
      OBVIOUS
    <3>1. CASE i = j
      <4>1. store'[i] = n
        BY <1>0, <1>1, <3>1
      <4> QED
        BY <1>2, <3>1, <4>1
    <3>2. CASE i # j
      <4>1. store'[i] = store[i]
        BY <1>0, <1>1, <3>2
      <4>2. store[i] \in 1 .. Len(log)
        BY <1>0, <4>1
      <4> QED
        BY <1>2, <4>1, <4>2 DEF DeliveryInv, Positions
    <3> QED
      BY <3>1, <3>2
  <2>2. 1 .. Len(log) \subseteq 1 .. n /\ n \in 1 .. n /\ 0 .. Len(log) \subseteq 0 .. n
    <3>1. Len(log) \in Nat /\ n = Len(log) + 1
      BY <1>0 DEF n
    <3> QED
      BY <3>1
  <2>3. \A s \in Subs : mark[s] <= n
    <3> SUFFICES ASSUME NEW s \in Subs
                 PROVE  mark[s] <= n
      OBVIOUS
    <3>1. mark[s] <= Len(log)
      BY DEF DeliveryInv, Positions
    <3>2. mark[s] \in Nat /\ Len(log) \in Nat /\ n = Len(log) + 1
      BY <1>0 DEF n
    <3> QED
      BY <3>1, <3>2
  <2>4. Range(ch') \subseteq 1 .. n /\ held \in 0 .. n
    BY <1>5, <2>2 DEF DeliveryInv, Positions
  <2>5. \A s \in Subs : Range(buf[s]) \subseteq 1 .. n /\ Range(got[s]) \subseteq 1 .. n
    BY <2>2 DEF DeliveryInv, Positions
  <2> QED
    BY <1>1, <1>2, <2>1, <2>3, <2>4, <2>5 DEF DeliveryInv, Positions
<1>7. InOrder'
  BY <1>1, <1>4, <1>5 DEF DeliveryInv, InOrder
<1>8. Matching'
  <2>1. \A s \in Subs : \A m \in Range(buf[s]) \cup Range(got[s]) :
          Match(call[s], log'[m].id)
    BY <1>2 DEF DeliveryInv, Positions, Matching
  <2> QED
    BY <1>1, <2>1 DEF Matching, Match
<1>9. UpdatesAccounted'
  <2> SUFFICES ASSUME NEW s \in registered, NEW m \in (mark[s] + 1) .. n,
                      Match(call[s], log'[m].id)
               PROVE  m \in Range(ch') \cup Held \cup Range(buf[s])
                            \cup Range(got[s]) \cup lost'[s]
    BY <1>1, <1>2 DEF UpdatesAccounted, Match, Held
  <2>1. CASE m = n
    BY <1>0, <1>3, <1>5, <2>1
  <2>2. CASE m # n
    <3>1. m \in (mark[s] + 1) .. Len(log) /\ m \in 1 .. Len(log)
      <4>1. mark[s] \in Nat /\ Len(log) \in Nat /\ n = Len(log) + 1
        BY <1>0 DEF n
      <4> QED
        BY <2>2, <4>1
    <3>2. Match(call[s], log[m].id)
      BY <1>2, <3>1
    <3> QED
      BY <1>0, <1>3, <1>5, <3>1, <3>2 DEF DeliveryInv, UpdatesAccounted
  <2> QED
    BY <2>1, <2>2
<1>10. Watching'
  <2>1. ASSUME NEW s \in Subs, call[s].op = "RunningJobContext", pc[s] = "loop"
        PROVE  /\ \A m \in Range(got[s]) : ~(log'[m].status \in Terminal)
               /\ LET k == store'[call[s].id] IN
                  k # 0 /\ log'[k].status \in Terminal => mark[s] < k
    <3>1. \A m \in Range(got[s]) : ~(log'[m].status \in Terminal)
      BY <1>2, <2>1 DEF DeliveryInv, Positions, Watching, TerminalStatus
    <3>2. mark[s] < n /\ call[s].id \in JobIDs
      <4>1. mark[s] <= Len(log)
        BY DEF DeliveryInv, Positions
      <4>2. mark[s] \in Nat /\ Len(log) \in Nat /\ n = Len(log) + 1
        BY <1>0 DEF n
      <4>3. \A c \in Calls : c.id \in JobIDs
        BY ConstantsAssumption
      <4>4. mark[s] < n
        BY <4>1, <4>2
      <4>5. call[s].id \in JobIDs
        BY <1>0, <4>3
      <4> QED
        BY <4>4, <4>5
    <3>3. store'[call[s].id] = IF call[s].id = j THEN n ELSE store[call[s].id]
      BY <1>0, <1>1, <3>2
    <3>4. store[call[s].id] # 0 => log'[store[call[s].id]] = log[store[call[s].id]]
      BY <1>0, <1>2, <3>2
    <3> QED
      BY <2>1, <3>1, <3>2, <3>3, <3>4 DEF DeliveryInv, Watching, TerminalStatus
  <2> QED
    BY <1>1, <2>1 DEF DeliveryInv, Watching, TerminalStatus
<1> QED
  BY <1>6, <1>7, <1>8, <1>9, <1>10 DEF DeliveryInv

\* The service goroutine takes the oldest queued update.
LEMMA SvcReceiveDelivery ==
  ASSUME DeliveryInv, ChannelInv', SvcReceive
  PROVE  DeliveryInv'
<1>0. ch \in Seq(Nat) /\ ch # <<>> /\ held \in Nat /\ svc = "select" /\ held = 0
  BY DEF DeliveryInv, ChannelInv, TypeOK, SvcReceive, Positions
<1>1. /\ held' = Head(ch) /\ ch' = Tail(ch) /\ svc' = "process"
      /\ UNCHANGED <<log, store, registered, buf, lost, call, pc, got, mark>>
  BY DEF SvcReceive, callVars, chanVars
<1>2. /\ Range(ch) = {held'} \cup Range(ch') /\ Sorted(ch')
      /\ \A m \in Range(ch') : held' < m
  BY <1>0, <1>1, ReceiveFacts DEF DeliveryInv, InOrder
<1>3. held' \in 1 .. Len(log)
  BY <1>2 DEF DeliveryInv, Positions
<1>4. Positions'
  BY <1>1, <1>2, <1>3 DEF DeliveryInv, Positions
<1>5. InOrder'
  BY <1>1, <1>2 DEF DeliveryInv, InOrder
<1>6. Matching' /\ Watching'
  BY <1>1 DEF DeliveryInv, Matching, Match, Watching, TerminalStatus
<1>7. UpdatesAccounted'
  <2>1. Held' = {held'} /\ Held = {}
    BY <1>0, <1>3 DEF Held
  <2> QED
    BY <1>1, <1>2, <2>1 DEF DeliveryInv, UpdatesAccounted, Match
<1> QED
  BY <1>4, <1>5, <1>6, <1>7 DEF DeliveryInv

\* Fan-out: each subscriber of the job that is not canceled gets the update
\* or misses it.
LEMMA ProcessDelivery ==
  ASSUME DeliveryInv, ChannelInv', processUpdate
  PROVE  DeliveryInv'
<1> DEFINE matched == {s \in registered : Match(call[s], log[held].id)}
           dead    == {s \in matched : CtxErr(s)}
           room    == {s \in matched \ dead : Len(buf[s]) < SubCap}
<1>0. /\ held \in Nat /\ held # 0 /\ held \in 1 .. Len(log)
      /\ buf \in [Subs -> Seq(Nat)] /\ lost \in [Subs -> SUBSET Nat]
      /\ registered \subseteq Subs
  <2>1. /\ held \in Nat /\ buf \in [Subs -> Seq(Nat)] /\ lost \in [Subs -> SUBSET Nat]
        /\ registered \subseteq Subs /\ Len(log) \in Nat
    BY DEF DeliveryInv, ChannelInv, TypeOK
  <2>2. svc = "process"
    BY DEF processUpdate, Notify
  <2>3. held # 0 /\ held \in 0 .. Len(log)
    BY <2>2 DEF DeliveryInv, Positions
  <2> QED
    BY <2>1, <2>3
<1>1. /\ held' = 0 /\ svc' = "select"
      /\ UNCHANGED <<log, store, ch, call, pc, got, mark>>
      /\ registered' = registered \ dead
      /\ buf' = [s \in Subs |-> IF s \in room THEN Append(buf[s], held) ELSE buf[s]]
      /\ \A s \in matched \ (dead \cup room) : lost'[s] = lost[s] \cup {held}
      /\ \A s \in Subs : lost[s] \subseteq lost'[s]
  BY <1>0 DEF processUpdate, Notify, callVars
<1>2. room \subseteq registered' /\ room \subseteq matched /\ room \subseteq Subs
  BY <1>0, <1>1
<1> HIDE DEF dead, room
<1>3. ASSUME NEW s \in Subs
      PROVE  /\ s \in room => Range(buf'[s]) = Range(buf[s]) \cup {held}
             /\ s \notin room => buf'[s] = buf[s]
             /\ Sorted(buf'[s])
  <2>1. Sorted(buf[s]) /\ \A m \in Range(buf[s]) : m < held
    BY <1>0 DEF DeliveryInv, InOrder
  <2>2. CASE s \in room
    <3>1. buf'[s] = Append(buf[s], held)
      BY <1>1, <2>2
    <3> QED
      BY <1>0, <2>1, <2>2, <3>1, SendFacts
  <2>3. CASE s \notin room
    BY <1>1, <2>1, <2>3
  <2> QED
    BY <2>2, <2>3
<1>4. \A s \in Subs : Range(buf[s]) \subseteq Range(buf'[s])
                     /\ Range(buf'[s]) \subseteq Range(buf[s]) \cup {held}
  BY <1>3
<1>5. Positions'
  <2>1. 0 \in 0 .. Len(log)
    BY <1>0 DEF DeliveryInv, ChannelInv, TypeOK
  <2>2. \A s \in Subs : Range(buf'[s]) \subseteq 1 .. Len(log)
    BY <1>0, <1>4 DEF DeliveryInv, Positions
  <2> QED
    BY <1>1, <2>1, <2>2 DEF DeliveryInv, Positions
<1>6. InOrder'
  <2>1. \A k \in Range(ch) : 0 < k
    BY DEF DeliveryInv, Positions
  <2>2. ASSUME NEW s \in Subs
        PROVE  /\ \A m \in Range(buf'[s]) : \A k \in Range(ch) : m < k
               /\ \A m \in Range(got[s]), k \in Range(buf'[s]) : m < k
    BY <1>0, <1>4 DEF DeliveryInv, InOrder
  <2> QED
    BY <1>1, <1>3, <2>1, <2>2 DEF DeliveryInv, InOrder
<1>7. Matching'
  <2>1. \A s \in room : Match(call[s], log[held].id)
    BY <1>2
  <2>2. \A s \in Subs : \A m \in Range(buf'[s]) \cup Range(got[s]) : Match(call[s], log[m].id)
    BY <1>3, <2>1 DEF DeliveryInv, Matching
  <2> QED
    BY <1>1, <2>2 DEF Matching, Match
<1>8. UpdatesAccounted'
  <2> SUFFICES ASSUME NEW s \in registered', NEW m \in (mark[s] + 1) .. Len(log),
                      Match(call[s], log[m].id)
               PROVE  m \in Range(ch) \cup Range(buf'[s]) \cup Range(got[s]) \cup lost'[s]
    BY <1>1 DEF UpdatesAccounted, Match, Held
  <2>1. s \in registered /\ s \in Subs /\ s \notin dead
    BY <1>0, <1>1
  <2>2. m \in Range(ch) \cup {held} \cup Range(buf[s]) \cup Range(got[s]) \cup lost[s]
    BY <1>0, <2>1 DEF DeliveryInv, UpdatesAccounted, Held
  <2>3. CASE m = held
    BY <1>1, <1>3, <2>1, <2>3
  <2>4. CASE m # held
    BY <1>1, <1>4, <2>1, <2>2, <2>4
  <2> QED
    BY <2>3, <2>4
<1>9. Watching'
  BY <1>1 DEF DeliveryInv, Watching, TerminalStatus
<1> QED
  BY <1>5, <1>6, <1>7, <1>8, <1>9 DEF DeliveryInv

\* A call takes the oldest update of its own channel.
LEMMA ReceiveDelivery ==
  ASSUME DeliveryInv, ChannelInv', NEW s \in Subs, Receive(s)
  PROVE  DeliveryInv'
<1> DEFINE n == Head(buf[s])
<1>0. /\ buf \in [Subs -> Seq(Nat)] /\ got \in [Subs -> Seq(Nat)] /\ pc[s] = "loop"
      /\ pc \in [Subs -> {"idle", "subscribe", "recheck", "loop", "ended", "refused"}]
  BY DEF DeliveryInv, ChannelInv, TypeOK, Receive
<1>1. /\ UNCHANGED <<log, store, ch, held, svc, registered, lost, call, mark>>
      /\ buf' = [buf EXCEPT ![s] = Tail(buf[s])]
      /\ got' = [got EXCEPT ![s] = Append(got[s], n)]
      /\ pc'[s] = "ended" \/ (pc'[s] = "loop" /\
                                ~(call[s].op = "RunningJobContext" /\ TerminalStatus(n)))
      /\ \A t \in Subs : t # s => pc'[t] = pc[t]
  BY <1>0 DEF Receive, cacheVars
<1>2. /\ Range(buf[s]) = {n} \cup Range(buf'[s]) /\ Sorted(buf'[s])
      /\ n \in Nat /\ \A m \in Range(buf'[s]) : n < m
  <2>1. buf[s] \in Seq(Nat) /\ buf[s] # <<>> /\ buf'[s] = Tail(buf[s])
    BY <1>0, <1>1 DEF Receive
  <2>2. Sorted(buf[s])
    BY DEF DeliveryInv, InOrder
  <2> QED
    BY <2>1, <2>2, ReceiveFacts
<1>3. Range(got'[s]) = Range(got[s]) \cup {n} /\ Sorted(got'[s])
  <2>1. \A m \in Range(got[s]) : m < n
    BY <1>2 DEF DeliveryInv, InOrder
  <2> QED
    BY <1>0, <1>1, <1>2, <2>1, SendFacts DEF DeliveryInv, InOrder
<1>4. \A t \in Subs : t # s => buf'[t] = buf[t] /\ got'[t] = got[t]
  BY <1>0, <1>1
<1> HIDE DEF n
<1>5. \A t \in Subs : /\ Range(buf'[t]) \subseteq Range(buf[t])
                      /\ Range(buf'[t]) \cup Range(got'[t]) = Range(buf[t]) \cup Range(got[t])
  BY <1>2, <1>3, <1>4
<1>6. Positions'
  <2>1. \A t \in Subs : Range(buf'[t]) \subseteq 1 .. Len(log) /\ Range(got'[t]) \subseteq 1 .. Len(log)
    BY <1>5 DEF DeliveryInv, Positions
  <2> QED
    BY <1>1, <2>1 DEF DeliveryInv, Positions
<1>7. InOrder'
  <2>1. ASSUME NEW t \in Subs
        PROVE  /\ Sorted(buf'[t]) /\ Sorted(got'[t])
               /\ \A m \in Range(got'[t]), k \in Range(buf'[t]) : m < k
    <3>1. CASE t = s
      BY <1>2, <1>3, <3>1 DEF DeliveryInv, InOrder
    <3>2. CASE t # s
      BY <1>4, <3>2 DEF DeliveryInv, InOrder
    <3> QED
      BY <3>1, <3>2
  <2>2. \A t \in Subs : \A m \in Range(buf'[t]) \cup Range(got'[t]) :
          (\A k \in Range(ch) : m < k) /\ (held # 0 => m < held)
    BY <1>5 DEF DeliveryInv, InOrder
  <2> QED
    BY <1>1, <2>1, <2>2 DEF DeliveryInv, InOrder
<1>8. Matching'
  <2>1. \A t \in Subs : \A m \in Range(buf'[t]) \cup Range(got'[t]) : Match(call[t], log[m].id)
    BY <1>5 DEF DeliveryInv, Matching
  <2> QED
    BY <1>1, <2>1 DEF Matching, Match
<1>9. UpdatesAccounted'
  <2> SUFFICES ASSUME NEW t \in registered, NEW m \in (mark[t] + 1) .. Len(log),
                      Match(call[t], log[m].id)
               PROVE  m \in Range(ch) \cup Held \cup Range(buf'[t]) \cup Range(got'[t]) \cup lost[t]
    BY <1>1 DEF UpdatesAccounted, Match, Held
  <2>1. t \in Subs
    BY DEF DeliveryInv, ChannelInv, TypeOK
  <2>2. m \in Range(ch) \cup Held \cup (Range(buf[t]) \cup Range(got[t])) \cup lost[t]
    BY DEF DeliveryInv, UpdatesAccounted
  <2> QED
    BY <1>5, <2>1, <2>2
<1>10. Watching'
  <2>1. ASSUME NEW t \in Subs
        PROVE  /\ pc'[t] \in {"idle", "subscribe", "recheck"} => got'[t] = <<>>
               /\ call[t].op = "RunningJobContext" /\ pc'[t] = "loop" =>
                    \A m \in Range(got'[t]) : ~TerminalStatus(m)
               /\ pc'[t] = "loop" => pc[t] = "loop"
    BY <1>0, <1>1, <1>3, <1>4 DEF DeliveryInv, Watching
  <2> QED
    BY <1>1, <2>1 DEF DeliveryInv, Watching, TerminalStatus
<1> QED
  BY <1>6, <1>7, <1>8, <1>9, <1>10 DEF DeliveryInv

\* A new subscription owes nothing yet: mark is the length of the history. It
\* has received nothing, and RunningJobContext looks at the store once more
\* before it waits.
LEMMA SubscribeDelivery ==
  ASSUME DeliveryInv, ChannelInv', NEW s \in Subs, subscribe(s) \/ Recheck(s)
  PROVE  DeliveryInv'
<1>0. /\ pc \in [Subs -> {"idle", "subscribe", "recheck", "loop", "ended", "refused"}]
      /\ mark \in [Subs -> Nat] /\ Len(log) \in Nat /\ registered \subseteq Subs
      /\ pc[s] \in {"subscribe", "recheck"} /\ got[s] = <<>>
  <2>1. pc[s] \in {"subscribe", "recheck"}
    BY DEF subscribe, Recheck
  <2>2. got[s] = <<>>
    BY <2>1 DEF DeliveryInv, Watching
  <2> QED
    BY <2>1, <2>2 DEF DeliveryInv, ChannelInv, TypeOK
<1>1. UNCHANGED <<log, store, ch, held, svc, call, buf, got, lost>>
  BY DEF subscribe, Recheck, cacheVars, chanVars
<1>2. /\ registered' \subseteq registered \cup {s}
      /\ \A t \in Subs : t # s => mark'[t] = mark[t] /\ pc'[t] = pc[t]
      /\ mark'[s] = Len(log) \/ (mark'[s] = mark[s] /\ registered' = registered)
  BY <1>0 DEF subscribe, Recheck, cacheVars, chanVars
<1>3. Positions'
  <2>1. \A t \in Subs : mark'[t] <= Len(log)
    <3> SUFFICES ASSUME NEW t \in Subs
                 PROVE  mark'[t] <= Len(log)
      OBVIOUS
    <3>1. mark'[t] = Len(log) \/ mark'[t] = mark[t]
      BY <1>2
    <3>2. mark[t] <= Len(log) /\ Len(log) \in Nat
      BY <1>0 DEF DeliveryInv, Positions
    <3> QED
      BY <3>1, <3>2
  <2> QED
    BY <1>1, <2>1 DEF DeliveryInv, Positions
<1>4. InOrder' /\ Matching'
  BY <1>1 DEF DeliveryInv, InOrder, Matching, Match
<1>5. UpdatesAccounted'
  <2> SUFFICES ASSUME NEW t \in registered', NEW m \in (mark'[t] + 1) .. Len(log),
                      Match(call[t], log[m].id)
               PROVE  m \in Range(ch) \cup Held \cup Range(buf[t]) \cup Range(got[t]) \cup lost[t]
    BY <1>1 DEF UpdatesAccounted, Match, Held
  <2>1. mark'[t] # Len(log)
    <3>1. Len(log) \in Nat
      BY <1>0
    <3> QED
      BY <3>1
  <2>2. t \in registered /\ mark'[t] = mark[t]
    BY <1>0, <1>2, <2>1
  <2> QED
    BY <2>2 DEF DeliveryInv, UpdatesAccounted
<1>6. Watching'
  <2>1. ASSUME call[s].op = "RunningJobContext", pc'[s] = "loop"
        PROVE  ~TerminalStatus(store[call[s].id])
    BY <1>0, <2>1 DEF subscribe, Recheck
  <2>2. \A m \in Range(got[s]) : FALSE
    BY <1>0 DEF Range
  <2> QED
    BY <1>0, <1>1, <1>2, <2>1, <2>2 DEF DeliveryInv, Watching, TerminalStatus
<1> QED
  BY <1>3, <1>4, <1>5, <1>6 DEF DeliveryInv

\* Every other step leaves what a waiting call was promised as it is.
LEMMA QuietDelivery ==
  ASSUME DeliveryInv, ChannelInv',
         UNCHANGED <<log, ch, held, buf, got, mark, lost, call>>,
         svc' = svc \/ (svc # "process" /\ svc' # "process"),
         registered' \subseteq registered,
         \A j \in JobIDs : store'[j] \in {0, store[j]},
         \A s \in Subs : pc'[s] = pc[s] \/ (pc'[s] \notin {"recheck", "loop"} /\ got[s] = <<>>)
                         \/ pc'[s] \in {"ended", "refused"}
  PROVE  DeliveryInv'
<1>1. Positions'
  BY DEF DeliveryInv, Positions
<1>2. InOrder' /\ Matching'
  BY DEF DeliveryInv, InOrder, Matching, Match
<1>3. UpdatesAccounted'
  BY DEF DeliveryInv, UpdatesAccounted, Match, Held
<1>4. Watching'
  <2>1. \A s \in Subs : call[s].id \in JobIDs
    <3>1. call \in [Subs -> Calls]
      BY DEF DeliveryInv, ChannelInv, TypeOK
    <3>2. \A c \in Calls : c.id \in JobIDs
      BY ConstantsAssumption
    <3> QED
      BY <3>1, <3>2
  <2> QED
    BY <2>1 DEF DeliveryInv, Watching, TerminalStatus
<1> QED
  BY <1>1, <1>2, <1>3, <1>4 DEF DeliveryInv

\* Each step of the cache preserves the delivery invariant.
LEMMA DeliveryStep == DeliveryInv /\ [Next]_vars => DeliveryInv'
<1> SUFFICES ASSUME DeliveryInv, [Next]_vars
             PROVE  DeliveryInv'
  OBVIOUS
<1>0. ChannelInv /\ ChannelInv' /\ TypeOK /\ TypeOK'
  BY ChannelStep DEF DeliveryInv, ChannelInv
<1>1. CASE \E j \in JobIDs, st \in Status : Commit(j, st)
  BY <1>0, <1>1, CommitDelivery
<1>2. CASE PruneScan \/ \E j \in JobIDs : PruneDelete(j)
  BY <1>0, <1>2, QuietDelivery DEF PruneScan, PruneDelete, callVars, chanVars, TypeOK
<1>3. CASE SvcReceive \/ processUpdate
  BY <1>0, <1>3, SvcReceiveDelivery, ProcessDelivery
<1>4. CASE SvcStop \/ closeSubscribers \/ SvcExit
  BY <1>0, <1>4, QuietDelivery DEF SvcStop, closeSubscribers, SvcExit, callVars, chanVars
<1>5. CASE \E c \in Closers : CloseBegin(c) \/ CloseReturn(c)
  BY <1>0, <1>5, QuietDelivery DEF CloseBegin, CloseReturn, callVars, chanVars
<1>6. ASSUME NEW s \in Subs, CallStep(s) \/ CancelParent(s)
      PROVE  DeliveryInv'
  <2>1. CASE Receive(s) \/ subscribe(s) \/ Recheck(s)
    BY <1>0, <2>1, ReceiveDelivery, SubscribeDelivery
  <2>2. CASE Lookup(s)
    <3>1. got[s] = <<>>
      BY <2>2 DEF Lookup, DeliveryInv, Watching
    <3>2. /\ pc'[s] \in {"subscribe", "ended", "refused"}
          /\ \A t \in Subs : t # s => pc'[t] = pc[t]
          /\ UNCHANGED <<log, ch, held, buf, got, mark, lost, call, svc, registered, store>>
      BY <1>0, <2>2 DEF Lookup, cacheVars, chanVars, TypeOK
    <3> QED
      BY <1>0, <3>1, <3>2, QuietDelivery
  <2>3. CASE ReceiveClosed(s) \/ CtxDone(s) \/ CancelParent(s)
    BY <1>0, <2>3, QuietDelivery
       DEF ReceiveClosed, CtxDone, CancelParent, cacheVars, chanVars, TypeOK
  <2> QED
    BY <1>6, <2>1, <2>2, <2>3 DEF CallStep
<1>7. CASE UNCHANGED vars
  BY <1>0, <1>7, QuietDelivery DEF vars, cacheVars, callVars, chanVars
<1> QED
  BY <1>1, <1>2, <1>3, <1>4, <1>5, <1>6, <1>7, StepCases

\* A subscriber is shown changes in the order they were committed, none twice,
\* and only of jobs it subscribed to: the service goroutine and the two kinds
\* of channel never reorder, duplicate or misroute an update.
THEOREM DeliveryOrder == Spec => []OrderedDelivery
<1>1. DeliveryInv => OrderedDelivery
  <2> SUFFICES ASSUME DeliveryInv, NEW s \in Subs
               PROVE  /\ \A i, k \in DOMAIN got[s] : i < k => got[s][i] < got[s][k]
                      /\ \A i \in DOMAIN got[s] :
                           got[s][i] \in DOMAIN log /\ Match(call[s], log[got[s][i]].id)
    BY DEF OrderedDelivery
  <2>1. \A i \in DOMAIN got[s] : got[s][i] \in Range(got[s])
    BY DEF Range
  <2>2. DOMAIN log = 1 .. Len(log)
    BY DEF DeliveryInv, ChannelInv, TypeOK
  <2> QED
    BY <2>1, <2>2 DEF DeliveryInv, Positions, InOrder, Sorted, Matching
<1> QED
  BY <1>1, DeliveryInit, DeliveryStep, PTL DEF Spec

\* An update is lost to a subscriber only at one of the two full channels.
THEOREM DeliveryAccounts == Spec => []UpdatesAccounted
<1>1. DeliveryInv => UpdatesAccounted
  BY DEF DeliveryInv
<1> QED
  BY <1>1, DeliveryInit, DeliveryStep, PTL DEF Spec

\* RunningJobContext has no window in which the end of a job goes unseen.
THEOREM NoForgottenEnd == Spec => []TerminalNotForgotten
<1>1. DeliveryInv => TerminalNotForgotten
  <2> SUFFICES ASSUME DeliveryInv, NEW s \in Subs, call[s].op = "RunningJobContext",
                      pc[s] = "loop", closes[s] = 0, store[call[s].id] # 0,
                      TerminalStatus(store[call[s].id])
               PROVE  store[call[s].id] \in Range(ch) \cup Held \cup Range(buf[s]) \cup lost[s]
    BY DEF TerminalNotForgotten
  <2> DEFINE n == store[call[s].id]
  <2>1. s \in registered
    BY DEF DeliveryInv, ChannelInv, Channels
  <2>2. call[s].id \in JobIDs /\ n \in Nat /\ n <= Len(log) /\ mark[s] \in Nat /\ Len(log) \in Nat
    BY ConstantsAssumption DEF DeliveryInv, ChannelInv, TypeOK
  <2>3. mark[s] < n /\ n \notin Range(got[s])
    BY DEF DeliveryInv, Watching
  <2>4. Match(call[s], log[n].id)
    BY <2>2 DEF DeliveryInv, Positions, Match
  <2>5. n \in (mark[s] + 1) .. Len(log)
    BY <2>2, <2>3
  <2> HIDE DEF n
  <2>6. n \in Range(ch) \cup Held \cup Range(buf[s]) \cup Range(got[s]) \cup lost[s]
    BY <2>1, <2>4, <2>5 DEF DeliveryInv, UpdatesAccounted
  <2> QED
    BY <2>3, <2>6 DEF n
<1> QED
  BY <1>1, DeliveryInit, DeliveryStep, PTL DEF Spec

-----------------------------------------------------------------------------
(* Refinement.                                                             *)

LEMMA FeedInitial == Init => Feed!FeedInit
  BY DEF Init, Feed!FeedInit

\* A commit publishes, a receive shows, and no other step is visible.
LEMMA FeedStep == DeliveryInv /\ [Next]_vars => [Feed!FeedNext]_(Feed!feedVars)
<1> SUFFICES ASSUME DeliveryInv, [Next]_vars
             PROVE  Feed!FeedNext \/ UNCHANGED Feed!feedVars
  OBVIOUS
<1> DEFINE Wants(c) == [s \in Subs |-> {j \in JobIDs : Match(c[s], j)}]
<1>0. call' = call => Wants(call)' = Wants(call)
  BY DEF Match
<1>1. ASSUME NEW j \in JobIDs, NEW st \in Status, Commit(j, st)
      PROVE  Feed!Publish
  BY <1>0, <1>1 DEF Commit, callVars, Feed!Publish, Feed!Change
<1>2. ASSUME NEW s \in Subs, Receive(s)
      PROVE  Feed!Show(s)
  <2> DEFINE n == Head(buf[s])
  <2>0. got \in [Subs -> Seq(Nat)] /\ buf[s] \in Seq(Nat) /\ buf[s] # <<>> /\ DOMAIN log = 1 .. Len(log)
    <3>1. got \in [Subs -> Seq(Nat)] /\ buf \in [Subs -> Seq(Nat)] /\ DOMAIN log = 1 .. Len(log)
      BY <1>2 DEF DeliveryInv, ChannelInv, TypeOK
    <3>2. buf[s] # <<>>
      BY <1>2 DEF Receive
    <3> QED
      BY <3>1, <3>2
  <2>1. n \in Range(buf[s])
    BY <2>0, ReceiveFacts
  <2>2. n \in DOMAIN log /\ Match(call[s], log[n].id) /\ log[n].id \in JobIDs
    <3>1. n \in DOMAIN log
      BY <2>0, <2>1 DEF DeliveryInv, Positions
    <3>2. log[n].id \in JobIDs
      <4> DEFINE R == [id : JobIDs, status : Status]
      <4>1. log \in Seq(R)
        BY DEF DeliveryInv, ChannelInv, TypeOK
      <4>2. \A r \in R : r.id \in JobIDs
        OBVIOUS
      <4> HIDE DEF R, n
      <4>3. log[n] \in R
        BY <3>1, <4>1
      <4> QED
        BY <4>2, <4>3
    <3> QED
      BY <2>1, <3>1, <3>2 DEF DeliveryInv, Matching
  <2>3. \A i \in DOMAIN got[s] : got[s][i] < n
    BY <2>1 DEF DeliveryInv, InOrder, Range
  <2>4. got' = [got EXCEPT ![s] = Append(got[s], n)] /\ log' = log /\ call' = call
    BY <1>2 DEF Receive, cacheVars
  <2> HIDE DEF n
  <2> QED
    BY <1>0, <2>2, <2>3, <2>4 DEF Feed!Show
<1>3. UNCHANGED <<log, call, got>> => UNCHANGED Feed!feedVars
  BY <1>0 DEF Feed!feedVars
<1>4. CASE PruneScan \/ \E j \in JobIDs : PruneDelete(j)
  BY <1>3, <1>4 DEF PruneScan, PruneDelete, callVars
<1>5. CASE SvcReceive \/ processUpdate \/ SvcStop \/ closeSubscribers \/ SvcExit
  BY <1>3, <1>5 DEF SvcReceive, processUpdate, SvcStop, closeSubscribers, SvcExit, callVars
<1>6. CASE \E c \in Closers : CloseBegin(c) \/ CloseReturn(c)
  BY <1>3, <1>6 DEF CloseBegin, CloseReturn, callVars
<1>7. ASSUME NEW s \in Subs, CallStep(s) \/ CancelParent(s), ~Receive(s)
      PROVE  UNCHANGED Feed!feedVars
  BY <1>3, <1>7 DEF CallStep, Lookup, subscribe, Recheck, ReceiveClosed, CtxDone,
                    CancelParent, cacheVars
<1>8. CASE UNCHANGED vars
  BY <1>3, <1>8 DEF vars, cacheVars, callVars
<1> QED
  BY <1>1, <1>2, <1>4, <1>5, <1>6, <1>7, <1>8, StepCases DEF Feed!FeedNext

\* The cache implements StatusFeed: whatever is queued, dropped, canceled,
\* pruned or closed, each subscriber sees a part of one history, in order.
THEOREM Refinement == Spec => ImplementsFeed
  BY FeedInitial, FeedStep, DeliveryInit, DeliveryStep, PTL
     DEF Spec, ImplementsFeed, Feed!FeedSpec

=============================================================================
