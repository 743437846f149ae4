------------------------- MODULE StoreMetricsProofs -------------------------
(***************************************************************************)
(* Proofs about two components that have nothing to do with each other:    *)
(* JobStore, for any jobs, statuses, hosts and interval, and Metrics, for  *)
(* any number of goroutines, any instances, values and buckets, and any    *)
(* capacity of the channel.                                                *)
(***************************************************************************)
EXTENDS JobStore, Metrics, TLAPS

-----------------------------------------------------------------------------
(* Metrics.                                                                *)

Callers == Drainers \cup {Loop}

\* The types of what the proofs are about.
MetricsTypes ==
  /\ mu \in Observers \cup {none} /\ current \in Insts
  /\ value \in Seq(Values)
  /\ DOMAIN inst = Insts /\ inst = [i \in Insts |-> inst[i]]
  /\ obs \in [Observers -> {<<>>} \cup (Insts \X Values)]
  /\ drain = [d \in Callers |-> drain[d]]
  /\ \E S : ch \in Seq(S)

\* An observer that is about to record holds the lock, and the current instance.
Locked == \A o \in Observers : obs[o] # <<>> => mu = o /\ obs[o][1] = current

\* An instance that was swapped out is one caller's, and is not current; one
\* that is nobody's is empty. Callers have drained observations only between
\* reading and passing them on.
Owned ==
  /\ \A d \in Callers :
       /\ drain[d].at = "swapped" => drain[d].inst \in Insts \ {current}
       /\ drain[d].at # "drained" => drain[d].of = {}
       /\ \A e \in Callers :
            drain[d].at = "swapped" /\ drain[e].at = "swapped" /\ drain[d].inst = drain[e].inst => d = e
  /\ \A i \in Insts :
       i # current /\ (\A d \in Callers : drain[d].at = "swapped" => drain[d].inst # i) => inst[i] = {}

-----------------------------------------------------------------------------
(* The ledger: where observations are.                                     *)

Cur == inst[current]
Hold == [d \in Callers |-> IF drain[d].at = "swapped" THEN inst[drain[d].inst] ELSE drain[d].of]
Sent == [n \in DOMAIN ch |-> ch[n].of]
Ends == {"reported", "lost", "taken"}
Gone == [g \in Ends |-> CASE g = "reported" -> reported [] g = "lost" -> lost [] OTHER -> taken]

\* No observation is at two places.
Apart(cur, hold, sent, gone) ==
  /\ \A k \in cur : /\ \A d \in DOMAIN hold : k \notin hold[d]
                    /\ \A n \in DOMAIN sent : k \notin sent[n]
                    /\ \A g \in Ends : k \notin gone[g]
  /\ \A d \in DOMAIN hold : \A k \in hold[d] :
       /\ \A e \in DOMAIN hold : k \in hold[e] => e = d
       /\ \A n \in DOMAIN sent : k \notin sent[n]
       /\ \A g \in Ends : k \notin gone[g]
  /\ \A n \in DOMAIN sent : \A k \in sent[n] :
       /\ \A m \in DOMAIN sent : k \in sent[m] => m = n
       /\ \A g \in Ends : k \notin gone[g]
  /\ \A g, h \in Ends : \A k \in gone[g] : k \in gone[h] => g = h

\* Every observation is at some place, and nothing else is.
Somewhere(k, cur, hold, sent, gone) ==
  \/ k \in cur
  \/ \E d \in DOMAIN hold : k \in hold[d]
  \/ \E n \in DOMAIN sent : k \in sent[n]
  \/ \E g \in Ends : k \in gone[g]
Covers(cur, hold, sent, gone, all) ==
  /\ \A k \in all : Somewhere(k, cur, hold, sent, gone)
  /\ \A k : Somewhere(k, cur, hold, sent, gone) => k \in all

Ledger(cur, hold, sent, gone, all) == Apart(cur, hold, sent, gone) /\ Covers(cur, hold, sent, gone, all)

\* Record enters an observation.
LEMMA Enter ==
  ASSUME NEW cur, NEW hold, NEW sent, NEW gone, NEW all, Ledger(cur, hold, sent, gone, all), NEW x, x \notin all
  PROVE  Ledger(cur \cup {x}, hold, sent, gone, all \cup {x})
  BY DEF Ledger, Apart, Covers, Somewhere

\* Swap gives the current observations to a caller that has none.
LEMMA HandOver ==
  ASSUME NEW cur, NEW C, NEW hold, hold = [e \in C |-> hold[e]], NEW sent, NEW gone, NEW all,
         Ledger(cur, hold, sent, gone, all),
         NEW d \in C, hold[d] = {}
  PROVE  Ledger({}, [hold EXCEPT ![d] = cur], sent, gone, all)
  BY DEF Ledger, Apart, Covers, Somewhere

\* A caller's observations are gone.
LEMMA Leave ==
  ASSUME NEW cur, NEW C, NEW hold, hold = [e \in C |-> hold[e]], NEW sent, NEW gone, gone = [g \in Ends |-> gone[g]],
         NEW all, Ledger(cur, hold, sent, gone, all), NEW d \in C, NEW g \in Ends
  PROVE  Ledger(cur, [hold EXCEPT ![d] = {}], sent, [gone EXCEPT ![g] = @ \cup hold[d]], all)
<1> DEFINE left == [hold EXCEPT ![d] = {}]
           after == [gone EXCEPT ![g] = @ \cup hold[d]]
<1>1. DOMAIN hold = C /\ DOMAIN left = C /\ left[d] = {} /\ \A e \in C : e # d => left[e] = hold[e]
  OBVIOUS
<1>2. after[g] = gone[g] \cup hold[d] /\ \A h \in Ends : h # g => after[h] = gone[h]
  OBVIOUS
<1> HIDE DEF left, after
<1>3. Apart(cur, left, sent, after)
  BY <1>1, <1>2 DEF Ledger, Apart
<1>4. Covers(cur, left, sent, after, all)
  BY <1>1, <1>2 DEF Ledger, Covers, Somewhere
<1> QED
  BY <1>3, <1>4 DEF Ledger, left, after

\* A caller's observations are sent.
LEMMA Dispatch ==
  ASSUME NEW cur, NEW hold, NEW sent, NEW gone, NEW all, Ledger(cur, hold, sent, gone, all),
         NEW N \in Nat, DOMAIN sent = 1 .. N, NEW d \in DOMAIN hold,
         NEW new, DOMAIN new = 1 .. (N + 1), new[N + 1] = hold[d], \A n \in 1 .. N : new[n] = sent[n],
         NEW left, DOMAIN left = DOMAIN hold, left[d] = {}, \A e \in DOMAIN hold : e # d => left[e] = hold[e]
  PROVE  Ledger(cur, left, new, gone, all)
  BY DEF Ledger, Apart, Covers, Somewhere

\* What was sent first arrives.
LEMMA Arrive ==
  ASSUME NEW cur, NEW hold, NEW sent, NEW gone, gone = [g \in Ends |-> gone[g]], NEW all,
         Ledger(cur, hold, sent, gone, all), NEW N \in Nat, DOMAIN sent = 1 .. (N + 1),
         NEW new, DOMAIN new = 1 .. N, \A n \in 1 .. N : new[n] = sent[n + 1]
  PROVE  Ledger(cur, hold, new, [gone EXCEPT !["reported"] = @ \cup sent[1]], all)
<1> DEFINE after == [gone EXCEPT !["reported"] = @ \cup sent[1]]
<1>1. after["reported"] = gone["reported"] \cup sent[1] /\ \A h \in Ends : h # "reported" => after[h] = gone[h]
  BY DEF Ends
<1>2. 1 \in DOMAIN sent /\ \A n \in DOMAIN new : n + 1 \in DOMAIN sent /\ n + 1 # 1 /\ new[n] = sent[n + 1]
  OBVIOUS
<1>3. \A n \in DOMAIN sent : n # 1 => n - 1 \in DOMAIN new /\ sent[n] = new[n - 1]
  OBVIOUS
<1>4. \A n, m \in DOMAIN new : n + 1 = m + 1 => n = m
  OBVIOUS
<1>5. "reported" \in Ends
  BY DEF Ends
<1> HIDE DEF after
<1>6. Apart(cur, hold, new, after)
  <2>1. \A k \in cur : /\ \A d \in DOMAIN hold : k \notin hold[d]
                       /\ \A n \in DOMAIN new : k \notin new[n]
                       /\ \A g \in Ends : k \notin after[g]
    BY <1>1, <1>2, <1>5 DEF Ledger, Apart
  <2>2. \A d \in DOMAIN hold : \A k \in hold[d] :
          /\ \A e \in DOMAIN hold : k \in hold[e] => e = d
          /\ \A n \in DOMAIN new : k \notin new[n]
          /\ \A g \in Ends : k \notin after[g]
    BY <1>1, <1>2, <1>5 DEF Ledger, Apart
  <2>3. \A n \in DOMAIN new : \A k \in new[n] :
          /\ \A m \in DOMAIN new : k \in new[m] => m = n
          /\ \A g \in Ends : k \notin after[g]
    BY <1>1, <1>2, <1>4, <1>5 DEF Ledger, Apart
  <2>4. \A g, h \in Ends : \A k \in after[g] : k \in after[h] => g = h
    BY <1>1, <1>2, <1>5 DEF Ledger, Apart
  <2> QED
    BY <2>1, <2>2, <2>3, <2>4 DEF Apart
<1>7. Covers(cur, hold, new, after, all)
  <2>1. ASSUME NEW k, Somewhere(k, cur, hold, sent, gone)
        PROVE  Somewhere(k, cur, hold, new, after)
    BY <1>1, <1>3, <1>5, <2>1 DEF Somewhere
  <2>2. ASSUME NEW k, Somewhere(k, cur, hold, new, after)
        PROVE  Somewhere(k, cur, hold, sent, gone)
    BY <1>1, <1>2, <1>5, <2>2 DEF Somewhere
  <2> QED
    BY <2>1, <2>2 DEF Ledger, Covers
<1> QED
  BY <1>6, <1>7 DEF Ledger, after

-----------------------------------------------------------------------------
(* The inductive invariant.                                                *)

MetricsInv == MetricsTypes /\ Locked /\ Owned /\ Ledger(Cur, Hold, Sent, Gone, DOMAIN value)

LEMMA MetricsInit == Init => MetricsInv
<1> SUFFICES ASSUME Init PROVE MetricsInv
  OBVIOUS
<1>1. MetricsTypes
  BY MetricsAssumption DEF Init, MetricsTypes, Callers
<1>2. Locked /\ Owned
  BY DEF Init, Locked, Owned, Callers, Idle
<1>3. /\ Cur = {} /\ DOMAIN Sent = {} /\ DOMAIN value = {}
      /\ \A d \in DOMAIN Hold : Hold[d] = {}
      /\ \A g \in Ends : Gone[g] = {}
  BY MetricsAssumption DEF Init, Cur, Hold, Sent, Gone, Ends, Callers, Idle
<1>4. Ledger(Cur, Hold, Sent, Gone, DOMAIN value)
  BY <1>3 DEF Ledger, Apart, Covers, Somewhere
<1> QED
  BY <1>1, <1>2, <1>4 DEF MetricsInv

\* What the ledger is made of.
LEMMA LedgerShape ==
  /\ Hold = [d \in Callers |-> Hold[d]] /\ Gone = [g \in Ends |-> Gone[g]]
  /\ Gone["reported"] = reported /\ Gone["lost"] = lost /\ Gone["taken"] = taken
  BY DEF Hold, Gone, Ends

LEMMA ObserveStep ==
  ASSUME MetricsInv, NEW o \in Observers, NEW v \in Values, Observe(o, v)
  PROVE  MetricsInv'
<1> USE DEF MetricsInv
<1>1. MetricsTypes'
  BY DEF MetricsTypes, Observe
<1>2. Locked'
  BY MetricsAssumption DEF Locked, MetricsTypes, Observe
<1>3. Owned' /\ Cur' = Cur /\ Hold' = Hold /\ Sent' = Sent /\ Gone' = Gone /\ value' = value
  BY DEF Owned, Cur, Hold, Sent, Gone, Observe
<1> QED
  BY <1>1, <1>2, <1>3

\* An observer records in the instance that is current, as no Swap can have
\* come between.
LEMMA RecordStep ==
  ASSUME MetricsInv, NEW o \in Observers, Record(o)
  PROVE  MetricsInv'
<1> USE DEF MetricsInv
<1> DEFINE x == Len(value) + 1
<1>1. obs[o][1] = current /\ mu = o /\ current \in Insts /\ obs[o][2] \in Values
  BY DEF Record, Locked, MetricsTypes
<1>2. value' \in Seq(Values) /\ DOMAIN value' = DOMAIN value \cup {x} /\ x \notin DOMAIN value
  BY <1>1 DEF Record, MetricsTypes
<1> HIDE DEF x
<1>3. inst' = [inst EXCEPT ![current] = @ \cup {x}] /\ UNCHANGED <<current, drain, ch, reported, lost, taken>>
  BY <1>1 DEF Record, x
<1>4. MetricsTypes'
  <2>1. obs' \in [Observers -> {<<>>} \cup (Insts \X Values)] /\ mu' \in Observers \cup {none}
    BY DEF MetricsTypes, Record
  <2>2. DOMAIN inst' = Insts /\ inst' = [i \in Insts |-> inst'[i]]
    BY <1>3 DEF MetricsTypes
  <2>3. (\E S : ch \in Seq(S))'
    BY <1>3 DEF MetricsTypes
  <2> QED
    BY <1>2, <1>3, <2>1, <2>2, <2>3 DEF MetricsTypes
<1>5. Locked'
  BY <1>1 DEF Locked, MetricsTypes, Record
<1>6. Owned'
  BY <1>1, <1>3 DEF Owned, MetricsTypes
<1>7. Cur' = Cur \cup {x}
  BY <1>1, <1>3 DEF Cur, MetricsTypes
<1>8. Hold' = Hold
  BY <1>1, <1>3 DEF Hold, Owned, MetricsTypes
<1>9. Sent' = Sent /\ Gone' = Gone
  BY <1>3 DEF Sent, Gone
<1> QED
  BY <1>2, <1>4, <1>5, <1>6, <1>7, <1>8, <1>9, Enter

LEMMA SwapStep ==
  ASSUME MetricsInv, NEW d \in Callers, drain[d].at \in {"idle", "metrics"}, NEW i \in Insts, Swap(d, i)
  PROVE  MetricsInv'
<1> USE DEF MetricsInv
<1> DEFINE new == [Idle EXCEPT !.at = "swapped", !.inst = current]
<1>1. new.at = "swapped" /\ new.inst = current /\ new.of = {}
  BY DEF Idle
<1> HIDE DEF new
<1>2. /\ drain' = [drain EXCEPT ![d] = new] /\ current' = i /\ mu = none /\ i \in Insts
      /\ UNCHANGED <<mu, inst, value, obs, ch, reported, lost, taken>>
  BY DEF Swap, new
<1>3. i # current /\ \A e \in Callers : drain[e].inst # i
  BY DEF Swap, Fresh, Used, MetricsTypes
<1>4. \A o \in Observers : obs[o] = <<>>
  BY <1>2, MetricsAssumption DEF Locked
<1>5. MetricsTypes'
  BY <1>2 DEF MetricsTypes
<1>6. Locked'
  BY <1>2, <1>4 DEF Locked
<1>7. drain'[d] = new /\ \A e \in Callers : e # d => drain'[e] = drain[e]
  BY <1>2 DEF MetricsTypes
<1>8. Owned'
  <2>1. \A e \in Callers :
          /\ drain'[e].at = "swapped" => drain'[e].inst \in Insts \ {current'}
          /\ drain'[e].at # "drained" => drain'[e].of = {}
    BY <1>1, <1>2, <1>3, <1>7 DEF Owned, MetricsTypes
  <2>2. \A e, f \in Callers : drain'[e].at = "swapped" /\ drain'[f].at = "swapped"
                               /\ drain'[e].inst = drain'[f].inst => e = f
    BY <1>1, <1>7 DEF Owned
  <2>3. ASSUME NEW j \in Insts, j # current', \A e \in Callers : drain'[e].at = "swapped" => drain'[e].inst # j
        PROVE  inst'[j] = {}
    <3>1. j # current
      BY <1>1, <1>7, <2>3
    <3>2. \A e \in Callers : drain[e].at = "swapped" => drain[e].inst # j
      BY <1>7, <2>3
    <3> QED
      BY <1>2, <3>1, <3>2 DEF Owned
  <2> QED
    BY <2>1, <2>2, <2>3 DEF Owned
<1>9. Cur' = {}
  BY <1>2, <1>3 DEF Cur, Owned
<1>10. Hold' = [Hold EXCEPT ![d] = Cur] /\ Hold[d] = {}
  BY <1>1, <1>2, <1>7 DEF Hold, Cur, Owned
<1>11. Sent' = Sent /\ Gone' = Gone /\ value' = value
  BY <1>2 DEF Sent, Gone
<1> HIDE DEF MetricsInv
<1>12. Ledger(Cur, Hold, Sent, Gone, DOMAIN value)
  BY DEF MetricsInv
<1>13. Ledger({}, [Hold EXCEPT ![d] = Cur], Sent, Gone, DOMAIN value)
  BY <1>10, <1>12, HandOver, LedgerShape
<1> QED
  BY <1>5, <1>6, <1>8, <1>9, <1>10, <1>11, <1>13 DEF MetricsInv

\* Reading moves nothing.
LEMMA ReadStep ==
  ASSUME MetricsInv, NEW d \in Callers, Read(d)
  PROVE  MetricsInv'
<1> USE DEF MetricsInv
<1> DEFINE of == inst[drain[d].inst]
           new == [at |-> "drained", inst |-> none, of |-> of, sample |-> Sample(of)]
<1>1. new.at = "drained" /\ new.of = of
  OBVIOUS
<1> HIDE DEF new
<1>2. /\ drain' = [drain EXCEPT ![d] = new] /\ inst' = [inst EXCEPT ![drain[d].inst] = {}]
      /\ UNCHANGED <<mu, current, value, obs, ch, reported, lost, taken>> /\ drain[d].at = "swapped"
  BY DEF Read, new
<1>3. drain[d].inst \in Insts \ {current}
  BY <1>2 DEF Owned
<1>4. drain'[d] = new /\ \A e \in Callers : e # d => drain'[e] = drain[e]
  BY <1>2 DEF MetricsTypes
<1>5. inst'[drain[d].inst] = {} /\ \A i \in Insts : i # drain[d].inst => inst'[i] = inst[i]
  BY <1>2, <1>3 DEF MetricsTypes
<1>6. MetricsTypes'
  BY <1>2 DEF MetricsTypes
<1>7. Locked'
  BY <1>2 DEF Locked
<1>8. Owned'
  BY <1>1, <1>2, <1>3, <1>4, <1>5 DEF Owned
<1>9. Cur' = Cur
  BY <1>2, <1>3, <1>5 DEF Cur, MetricsTypes
<1>10. ASSUME NEW e \in Callers PROVE Hold'[e] = Hold[e]
  <2>1. CASE e = d
    BY <1>1, <1>2, <1>4, <2>1 DEF Hold
  <2>2. CASE e # d /\ drain[e].at = "swapped"
    <3>1. drain[e].inst \in Insts /\ drain[e].inst # drain[d].inst
      BY <1>2, <2>2 DEF Owned
    <3> QED
      BY <1>4, <1>5, <2>2, <3>1 DEF Hold
  <2>3. CASE e # d /\ drain[e].at # "swapped"
    BY <1>4, <2>3 DEF Hold
  <2> QED
    BY <2>1, <2>2, <2>3
<1>11. Hold' = Hold
  BY <1>10 DEF Hold
<1>12. Sent' = Sent /\ Gone' = Gone /\ value' = value
  BY <1>2 DEF Sent, Gone
<1> QED
  BY <1>6, <1>7, <1>8, <1>9, <1>11, <1>12

\* A caller of Drain, which has read the instance or has none, passes on what it
\* has drained.
LEMMA PassOn ==
  ASSUME MetricsInv, NEW d \in Callers, NEW new, drain' = [drain EXCEPT ![d] = new], drain[d].at # "swapped",
         new.at \notin {"swapped", "drained"}, new.of = {}, UNCHANGED hist
  PROVE  /\ drain' = [e \in Callers |-> drain'[e]]
         /\ Locked' /\ Owned' /\ Cur' = Cur /\ value' = value
         /\ Hold[d] = drain[d].of /\ Hold' = [Hold EXCEPT ![d] = {}]
<1> USE DEF MetricsInv, hist
<1>1. drain'[d] = new /\ \A e \in Callers : e # d => drain'[e] = drain[e]
  BY DEF MetricsTypes
<1>2. Locked' /\ Cur' = Cur /\ value' = value
  BY DEF Locked, Cur
<1>3. Owned'
  BY <1>1 DEF Owned
<1>4. Hold[d] = drain[d].of /\ Hold' = [Hold EXCEPT ![d] = {}]
  <2>1. Hold[d] = drain[d].of /\ Hold'[d] = {}
    BY <1>1 DEF Hold
  <2>2. \A e \in Callers : e # d => Hold'[e] = Hold[e]
    BY <1>1 DEF Hold
  <2>3. Hold' = [e \in Callers |-> Hold'[e]] /\ Hold = [e \in Callers |-> Hold[e]]
    BY DEF Hold
  <2> QED
    BY <2>1, <2>2, <2>3
<1> QED
  BY <1>2, <1>3, <1>4 DEF MetricsTypes

\* The plugin keeps a sample, or the loop loses one.
LEMMA GoneStep ==
  ASSUME MetricsInv, NEW d \in Callers, NEW g \in {"lost", "taken"}, NEW at \in {"idle", "offering"},
         drain' = [drain EXCEPT ![d] = [Idle EXCEPT !.at = at]], drain[d].at # "swapped",
         \/ g = "lost" /\ lost' = lost \cup drain[d].of /\ taken' = taken
         \/ g = "taken" /\ taken' = taken \cup drain[d].of /\ lost' = lost,
         UNCHANGED <<hist, ch, reported>>
  PROVE  MetricsInv'
<1> DEFINE new == [Idle EXCEPT !.at = at]
<1>1. new.at \notin {"swapped", "drained"} /\ new.of = {}
  BY DEF Idle
<1> HIDE DEF new
<1>2. drain' = [drain EXCEPT ![d] = new]
  BY DEF new
<1>3. /\ drain' = [e \in Callers |-> drain'[e]]
      /\ Locked' /\ Owned' /\ Cur' = Cur /\ value' = value
      /\ Hold[d] = drain[d].of /\ Hold' = [Hold EXCEPT ![d] = {}]
  BY <1>1, <1>2, PassOn
<1>4. MetricsTypes'
  BY <1>3 DEF MetricsInv, MetricsTypes, hist
<1>5. Sent' = Sent
  BY DEF Sent
<1>6. Gone' = [Gone EXCEPT ![g] = @ \cup Hold[d]]
  BY <1>3 DEF Gone, Ends
<1>7. Ledger(Cur, Hold, Sent, Gone, DOMAIN value) /\ g \in Ends
  BY DEF MetricsInv, Ends
<1>8. Ledger(Cur, [Hold EXCEPT ![d] = {}], Sent, [Gone EXCEPT ![g] = @ \cup Hold[d]], DOMAIN value)
  BY <1>7, Leave, LedgerShape
<1> QED
  BY <1>3, <1>4, <1>5, <1>6, <1>8 DEF MetricsInv

LEMMA OfferStep ==
  ASSUME MetricsInv, Offer
  PROVE  MetricsInv'
<1> DEFINE e == [of |-> drain[Loop].of, sample |-> drain[Loop].sample]
<1>0. Loop \in Callers /\ Idle.at = "idle" /\ Idle.of = {} /\ drain[Loop].at # "swapped" /\ UNCHANGED hist
  BY DEF Callers, Idle, Offer, Offering
<1>1. drain' = [drain EXCEPT ![Loop] = Idle] /\ ch' = Append(ch, e) /\ UNCHANGED <<reported, lost, taken>>
  BY DEF Offer
<1>2. e.of = drain[Loop].of
  OBVIOUS
<1> HIDE DEF e
<1>3. /\ drain' = [d \in Callers |-> drain'[d]]
      /\ Locked' /\ Owned' /\ Cur' = Cur /\ value' = value
      /\ Hold[Loop] = drain[Loop].of /\ Hold' = [Hold EXCEPT ![Loop] = {}]
  BY <1>0, <1>1, PassOn
<1>4. PICK S : ch \in Seq(S)
  BY DEF MetricsInv, MetricsTypes
<1>5. /\ ch' \in Seq(S \cup {e}) /\ Len(ch) \in Nat
      /\ DOMAIN ch = 1 .. Len(ch) /\ DOMAIN ch' = 1 .. (Len(ch) + 1)
      /\ ch'[Len(ch) + 1] = e /\ \A n \in 1 .. Len(ch) : ch'[n] = ch[n]
  <2>1. ch \in Seq(S \cup {e})
    BY <1>4
  <2> QED
    BY <1>1, <2>1
<1>6. MetricsTypes'
  <2>1. \E T : ch' \in Seq(T)
    BY <1>5
  <2> QED
    BY <1>0, <1>3, <2>1 DEF MetricsInv, MetricsTypes, hist
<1>7. /\ DOMAIN Sent = 1 .. Len(ch) /\ DOMAIN Sent' = 1 .. (Len(ch) + 1)
      /\ Sent'[Len(ch) + 1] = Hold[Loop] /\ \A n \in 1 .. Len(ch) : Sent'[n] = Sent[n]
  BY <1>2, <1>3, <1>5 DEF Sent
<1>8. Gone' = Gone
  BY <1>1 DEF Gone
<1>9. Ledger(Cur, Hold, Sent, Gone, DOMAIN value)
  BY DEF MetricsInv
<1>10. Ledger(Cur, [Hold EXCEPT ![Loop] = {}], Sent', Gone, DOMAIN value)
  <2>1. PICK N \in Nat : N = Len(ch)
    BY <1>5
  <2>2. PICK new : new = Sent'
    OBVIOUS
  <2>3. /\ DOMAIN Sent = 1 .. N /\ DOMAIN new = 1 .. (N + 1)
        /\ new[N + 1] = Hold[Loop] /\ \A n \in 1 .. N : new[n] = Sent[n]
    BY <1>7, <2>1, <2>2
  <2>4. PICK left : left = [Hold EXCEPT ![Loop] = {}]
    OBVIOUS
  <2>5. /\ Loop \in DOMAIN Hold /\ DOMAIN left = DOMAIN Hold
        /\ left[Loop] = {} /\ \A d \in DOMAIN Hold : d # Loop => left[d] = Hold[d]
    BY <1>0, <2>4 DEF Hold
  <2>6. Ledger(Cur, left, new, Gone, DOMAIN value)
    BY <1>9, <2>1, <2>3, <2>5, Dispatch
  <2> QED
    BY <2>2, <2>4, <2>6
<1> QED
  BY <1>3, <1>6, <1>8, <1>10 DEF MetricsInv

LEMMA TakeStep ==
  ASSUME MetricsInv, Take
  PROVE  MetricsInv'
<1>1. PICK S : ch \in Seq(S)
  BY DEF MetricsInv, MetricsTypes
<1>2. PICK N \in Nat : Len(ch) = N + 1
  <2>1. Len(ch) \in Nat /\ Len(ch) # 0
    BY <1>1 DEF Take
  <2>2. Len(ch) - 1 \in Nat /\ Len(ch) = (Len(ch) - 1) + 1
    BY <2>1
  <2> QED
    BY <2>2
<1>3. /\ ch' \in Seq(S) /\ DOMAIN ch = 1 .. (N + 1) /\ DOMAIN ch' = 1 .. N
      /\ Head(ch) = ch[1] /\ \A n \in 1 .. N : ch'[n] = ch[n + 1]
  BY <1>1, <1>2 DEF Take
<1>4. /\ reported' = reported \cup ch[1].of
      /\ UNCHANGED <<mu, current, inst, value, obs, drain, lost, taken>>
  BY <1>3 DEF Take, hist
<1>5. MetricsTypes'
  <2>1. \E T : ch' \in Seq(T)
    BY <1>3
  <2> QED
    BY <1>4, <2>1 DEF MetricsInv, MetricsTypes
<1>6. Locked' /\ Owned' /\ Cur' = Cur /\ Hold' = Hold
  BY <1>4 DEF MetricsInv, Locked, Owned, Cur, Hold
<1>7. /\ DOMAIN Sent = 1 .. (N + 1) /\ DOMAIN Sent' = 1 .. N
      /\ Sent[1] = ch[1].of /\ \A n \in 1 .. N : Sent'[n] = Sent[n + 1]
  BY <1>3 DEF Sent
<1>8. Gone' = [Gone EXCEPT !["reported"] = @ \cup Sent[1]]
  BY <1>4, <1>7 DEF Gone, Ends
<1>9. Ledger(Cur, Hold, Sent, Gone, DOMAIN value)
  BY DEF MetricsInv
<1>10. Ledger(Cur, Hold, Sent', [Gone EXCEPT !["reported"] = @ \cup Sent[1]], DOMAIN value)
  BY <1>7, <1>9, Arrive, LedgerShape
<1> QED
  BY <1>4, <1>5, <1>6, <1>8, <1>10 DEF MetricsInv

\* The steps that touch no observation.
LEMMA QuietStep ==
  ASSUME MetricsInv, Tick \/ LoopReturns \/ Second \/ Cancel \/ UNCHANGED vars
  PROVE  MetricsInv'
<1>1. ASSUME NEW at \in {"metrics", "stopped"}, drain' = [drain EXCEPT ![Loop] = [Idle EXCEPT !.at = at]],
             drain[Loop].at = "idle", UNCHANGED <<hist, ch, reported, lost, taken>>
      PROVE  MetricsInv'
  <2> DEFINE new == [Idle EXCEPT !.at = at]
  <2>1. new.at \notin {"swapped", "drained"} /\ new.of = {}
    BY DEF Idle
  <2> HIDE DEF new
  <2>2. drain' = [drain EXCEPT ![Loop] = new] /\ Loop \in Callers
    BY <1>1 DEF new, Callers
  <2>3. /\ drain' = [e \in Callers |-> drain'[e]]
        /\ Locked' /\ Owned' /\ Cur' = Cur /\ value' = value
        /\ Hold[Loop] = drain[Loop].of /\ Hold' = [Hold EXCEPT ![Loop] = {}]
    BY <1>1, <2>1, <2>2, PassOn
  <2>4. Hold' = Hold
    BY <1>1, <2>2, <2>3, LedgerShape DEF MetricsInv, Owned
  <2>5. MetricsTypes'
    BY <1>1, <2>3 DEF MetricsInv, MetricsTypes, hist
  <2>6. Sent' = Sent /\ Gone' = Gone
    BY <1>1 DEF Sent, Gone
  <2> QED
    BY <2>3, <2>4, <2>5, <2>6 DEF MetricsInv
<1>2. ASSUME UNCHANGED <<hist, drain, ch, reported, lost, taken>>
      PROVE  MetricsInv'
  BY <1>2 DEF MetricsInv, MetricsTypes, Locked, Owned, Cur, Hold, Sent, Gone, hist
<1> QED
  BY <1>1, <1>2 DEF Tick, LoopReturns, Second, Cancel, vars

LEMMA MetricsStep == MetricsInv /\ [Next]_vars => MetricsInv'
<1> SUFFICES ASSUME MetricsInv, [Next]_vars
             PROVE  MetricsInv'
  OBVIOUS
<1>1. ASSUME NEW d \in Drainers, OwnStep(d)
      PROVE  MetricsInv'
  <2>1. d \in Callers
    BY DEF Callers
  <2>2. ASSUME NEW i \in Insts, OwnDrain(d, i)
        PROVE  MetricsInv'
    BY <2>1, <2>2, SwapStep DEF OwnDrain
  <2>3. CASE OwnDrained(d)
    <3>1. drain' = [drain EXCEPT ![d] = [Idle EXCEPT !.at = "idle"]]
      BY <2>3 DEF OwnDrained, Idle
    <3> QED
      BY <2>1, <2>3, <3>1, GoneStep DEF OwnDrained
  <2> QED
    BY <1>1, <2>1, <2>2, <2>3, ReadStep DEF OwnStep
<1>2. CASE LoopStep
  <2>1. Loop \in Callers
    BY DEF Callers
  <2>2. ASSUME NEW i \in Insts, Metrics(i)
        PROVE  MetricsInv'
    BY <2>1, <2>2, SwapStep DEF Metrics
  <2>3. CASE NoMetrics
    BY <2>1, <2>3, GoneStep DEF NoMetrics
  <2>4. CASE Drop
    <3>1. drain' = [drain EXCEPT ![Loop] = [Idle EXCEPT !.at = "idle"]] /\ drain[Loop].at # "swapped"
      BY <2>4 DEF Drop, Offering, Idle
    <3> QED
      BY <2>1, <2>4, <3>1, GoneStep DEF Drop
  <2> QED
    BY <1>2, <2>1, <2>2, <2>3, <2>4, ReadStep, OfferStep, QuietStep DEF LoopStep
<1> QED
  BY <1>1, <1>2, ObserveStep, RecordStep, TakeStep, QuietStep DEF Next

\* An observation is at one place at any time: it is reported once, or lost once
\* with a response or to a panic, however many goroutines observe and drain.
THEOREM Conservation == Spec => []ObservationsCounted
<1>1. MetricsInv => ObservationsCounted
  <2> SUFFICES ASSUME MetricsInv, NEW k \in DOMAIN value
               PROVE  \E h \in Homes(k) : Homes(k) = {h}
    BY DEF ObservationsCounted
  <2>1. /\ Apart(Cur, Hold, Sent, Gone) /\ Somewhere(k, Cur, Hold, Sent, Gone)
        /\ DOMAIN drain = Callers /\ DOMAIN Hold = Callers /\ DOMAIN Sent = DOMAIN ch
    BY DEF MetricsInv, MetricsTypes, Ledger, Covers, Hold, Sent
  <2>2. Homes(k) =
          (IF k \in Cur THEN {<<"current">>} ELSE {})
          \cup {<<"drain", d>> : d \in {d \in Callers : k \in Hold[d]}}
          \cup {<<"ch", n>> : n \in {n \in DOMAIN Sent : k \in Sent[n]}}
          \cup (IF k \in Gone["reported"] THEN {<<"reported">>} ELSE {})
          \cup (IF k \in Gone["lost"] THEN {<<"lost">>} ELSE {})
          \cup (IF k \in Gone["taken"] THEN {<<"taken">>} ELSE {})
    <3>1. \A d \in Callers : k \in Hold[d] <=>
            k \in drain[d].of \/ (drain[d].at = "swapped" /\ k \in inst[drain[d].inst])
      BY DEF Hold, MetricsInv, Owned
    <3>2. {d \in DOMAIN drain : k \in drain[d].of \/ (drain[d].at = "swapped" /\ k \in inst[drain[d].inst])}
            = {d \in Callers : k \in Hold[d]}
      BY <2>1, <3>1
    <3>3. {n \in DOMAIN ch : k \in ch[n].of} = {n \in DOMAIN Sent : k \in Sent[n]}
      BY DEF Sent
    <3> QED
      BY <3>2, <3>3, LedgerShape, Zenon DEF Homes, Cur
  <2>3. CASE k \in Cur
    <3>1. Homes(k) = {<<"current">>}
      BY <2>1, <2>2, <2>3 DEF Apart, Ends
    <3> QED
      BY <3>1
  <2>4. ASSUME NEW d \in Callers, k \in Hold[d]
        PROVE  Homes(k) = {<<"drain", d>>}
    <3>0. /\ k \notin Cur
          /\ \A e \in Callers : k \in Hold[e] => e = d
          /\ \A n \in DOMAIN Sent : k \notin Sent[n]
          /\ \A g \in Ends : k \notin Gone[g]
      BY <2>1, <2>4 DEF Apart
    <3>1. {e \in Callers : k \in Hold[e]} = {d} /\ {n \in DOMAIN Sent : k \in Sent[n]} = {}
      BY <2>4, <3>0
    <3> QED
      BY <2>2, <3>0, <3>1 DEF Ends
  <2>5. ASSUME NEW n \in DOMAIN Sent, k \in Sent[n]
        PROVE  Homes(k) = {<<"ch", n>>}
    <3>0. /\ k \notin Cur
          /\ \A d \in Callers : k \notin Hold[d]
          /\ \A m \in DOMAIN Sent : k \in Sent[m] => m = n
          /\ \A g \in Ends : k \notin Gone[g]
      BY <2>1, <2>5 DEF Apart
    <3>1. {m \in DOMAIN Sent : k \in Sent[m]} = {n} /\ {d \in Callers : k \in Hold[d]} = {}
      BY <2>5, <3>0
    <3> QED
      BY <2>2, <3>0, <3>1 DEF Ends
  <2>6. ASSUME NEW g \in Ends, k \in Gone[g]
        PROVE  Homes(k) = {<<g>>}
    <3>0. /\ k \notin Cur
          /\ \A d \in Callers : k \notin Hold[d]
          /\ \A n \in DOMAIN Sent : k \notin Sent[n]
          /\ \A h \in Ends : k \in Gone[h] => h = g
      BY <2>1, <2>6 DEF Apart
    <3> QED
      BY <2>2, <2>6, <3>0 DEF Ends
  <2> QED
    BY <2>1, <2>3, <2>4, <2>5, <2>6 DEF Somewhere
<1> QED
  BY <1>1, MetricsInit, MetricsStep, PTL DEF Spec

-----------------------------------------------------------------------------
(* The job store.                                                          *)

\* A step that writes a job: AddOrUpdate or Update, by what it puts in.
Written(j, in) ==
  \/ \E st \in Status, h \in Hosts \cup {""}, stamp \in Stamped :
       in = Input(st, h, stamp) /\ AddOrUpdate(j, in)
  \/ \E u \in Users \cup {"*"}, st \in Status, stamp \in Stamped :
       /\ in = [jobs[j] EXCEPT !.status = st, !.updated = IF stamp THEN now ELSE @]
       /\ Update(u, j, st, stamp)

LEMMA StepCases ==
  ASSUME [StoreNext]_storeVars
  PROVE  \/ \E j \in JobIDs : \E in : Written(j, in)
         \/ PruneBegin \/ PruneScan \/ PruneEnd
         \/ \E j \in JobIDs : PruneDelete(j)
         \/ ClockTicks
         \/ UNCHANGED storeVars
  BY DEF StoreNext, Written

\* What a write does: the job becomes the input if it is new and its merge
\* with the input otherwise, and moves as the plugin moves jobs.
LEMMA WriteFacts ==
  ASSUME StoreTypeOK, NEW j \in JobIDs, NEW in, Written(j, in)
  PROVE  /\ in \in Job
         /\ in.updated \in {0, now, jobs[j].updated}
         /\ Put(j, in, IF Has(j) THEN syncJob2(jobs[j], in) ELSE in)
         /\ Has(j) => <<jobs[j].status, in.status>> \in Moves
<1>1. now \in Nat /\ jobs[j] \in Job \cup {absent}
  <2>1. MaxTime \in Nat
    BY StoreAssumption
  <2> QED
    BY <2>1 DEF StoreTypeOK
<1>2. ASSUME NEW st \in Status, NEW h \in Hosts \cup {""}, NEW stamp \in Stamped,
             in = Input(st, h, stamp), AddOrUpdate(j, in)
      PROVE  /\ in \in Job
             /\ in.updated \in {0, now}
             /\ Put(j, in, IF Has(j) THEN syncJob2(jobs[j], in) ELSE in)
             /\ Has(j) => <<jobs[j].status, in.status>> \in Moves
  <2>1. in = [status |-> st, host |-> h, updated |-> IF stamp THEN now ELSE 0]
    BY <1>2 DEF Input
  <2>2. in \in Job
    BY <1>1, <2>1 DEF Job
  <2>3. in.updated \in {0, now}
    BY <2>1
  <2> QED
    BY <1>2, <2>2, <2>3 DEF AddOrUpdate
<1>3. ASSUME NEW u \in Users \cup {"*"}, NEW st \in Status, NEW stamp \in Stamped,
             in = [jobs[j] EXCEPT !.status = st, !.updated = IF stamp THEN now ELSE @],
             Update(u, j, st, stamp)
      PROVE  /\ in \in Job
             /\ in.updated \in {now, jobs[j].updated}
             /\ Put(j, in, IF Has(j) THEN syncJob2(jobs[j], in) ELSE in)
             /\ Has(j) => <<jobs[j].status, in.status>> \in Moves
  <2>1. Has(j) /\ jobs[j] \in Job
    BY <1>1, <1>3 DEF Update, Visible, Has
  <2>2. in \in Job /\ in.status = st
    BY <1>1, <1>3, <2>1 DEF Job
  <2>3. in.updated = IF stamp THEN now ELSE jobs[j].updated
    BY <1>3, <2>1 DEF Job
  <2> QED
    BY <1>3, <2>1, <2>2, <2>3 DEF Update
<1> QED
  BY <1>2, <1>3 DEF Written

\* The merge keeps a job a job, takes its status, and does not lose its host.
LEMMA SyncFacts ==
  ASSUME NEW job \in Job, NEW in \in Job, now \in Nat
  PROVE  /\ syncJob2(job, in) \in Job
         /\ syncJob2(job, in).status = in.status
         /\ job.host # "" => syncJob2(job, in).host # ""
         /\ syncJob2(job, in).updated \in {in.updated, job.updated, now}
         /\ in.updated \in {0, job.updated} =>
              \/ syncJob2(job, in).updated = job.updated
              \/ /\ syncJob2(job, in).updated = now
                 /\ ~(syncJob2(job, in).status = job.status /\ syncJob2(job, in).host = job.host)
<1> DEFINE new == syncJob2(job, in)
<1>1. /\ new.status = in.status
      /\ new.host = IF in.host # "" THEN in.host ELSE job.host
      /\ new.updated = IF in.updated # 0 THEN in.updated
                       ELSE IF in.status = job.status /\ new.host = job.host
                            THEN job.updated ELSE now
  BY DEF syncJob2
<1>2. new \in Job
  BY DEF syncJob2, Job
<1> HIDE DEF new
<1>3. job.updated \in Nat /\ in.updated \in Nat
  BY DEF Job
<1> QED
  BY <1>1, <1>2, <1>3 DEF new

\* How a write changes the store.
LEMMA PutFacts ==
  ASSUME StoreTypeOK, NEW j \in JobIDs, NEW in, NEW job, Put(j, in, job)
  PROVE  /\ jobs'[j] = job
         /\ \A i \in JobIDs \ {j} : jobs'[i] = jobs[i] /\ changed'[i] = changed[i]
         /\ changed'[j] = IF /\ job.status = jobs[j].status /\ job.host = jobs[j].host
                             /\ in.updated # now
                          THEN changed[j] ELSE now
         /\ UNCHANGED <<now, cutoff, yielded>>
  BY DEF StoreTypeOK, Put

-----------------------------------------------------------------------------
(* Types.                                                                  *)

LEMMA Bounds == StoreTypeOK => now \in Nat /\ 1 <= now /\ now <= MaxTime /\ MaxTime \in Nat /\ Interval \in Nat
<1>1. MaxTime \in Nat /\ Interval \in Nat
  BY StoreAssumption
<1> QED
  BY <1>1 DEF StoreTypeOK

LEMMA TypeInit == StoreInit => StoreTypeOK
<1>1. MaxTime \in Nat \ {0}
  BY StoreAssumption
<1> QED
  BY <1>1 DEF StoreInit, StoreTypeOK

LEMMA TypeStep == StoreTypeOK /\ [StoreNext]_storeVars => StoreTypeOK'
<1> SUFFICES ASSUME StoreTypeOK, [StoreNext]_storeVars
             PROVE  StoreTypeOK'
  OBVIOUS
<1>1. ASSUME NEW j \in JobIDs, NEW in, Written(j, in)
      PROVE  StoreTypeOK'
  <2>1. in \in Job /\ now \in 0 .. MaxTime /\ jobs[j] \in Job \cup {absent} /\ now \in Nat
    <3>1. in \in Job
      BY <1>1, WriteFacts
    <3>2. now \in 0 .. MaxTime /\ now \in Nat
      BY Bounds
    <3> QED
      BY <3>1, <3>2 DEF StoreTypeOK
  <2> DEFINE job == IF Has(j) THEN syncJob2(jobs[j], in) ELSE in
  <2>2. Put(j, in, job)
    BY <1>1, WriteFacts
  <2>3. job \in Job
    BY <2>1, SyncFacts DEF Has
  <2> HIDE DEF job
  <2> QED
    BY <2>1, <2>2, <2>3 DEF Put, StoreTypeOK
<1>2. CASE PruneBegin
  BY <1>2, Bounds DEF PruneBegin, StoreTypeOK
<1>3. CASE PruneScan
  BY <1>3 DEF PruneScan, JobsForUser, StoreTypeOK
<1>4. CASE PruneEnd
  BY <1>4, Bounds DEF PruneEnd, StoreTypeOK
<1>5. ASSUME NEW j \in JobIDs, PruneDelete(j)
      PROVE  StoreTypeOK'
  BY <1>5 DEF PruneDelete, StoreTypeOK
<1>6. CASE ClockTicks
  BY <1>6, Bounds DEF ClockTicks, StoreTypeOK
<1>7. CASE UNCHANGED storeVars
  BY <1>7 DEF storeVars, StoreTypeOK
<1> QED
  BY <1>1, <1>2, <1>3, <1>4, <1>5, <1>6, <1>7, StepCases

\* The store holds well-formed jobs and nothing else, at any time.
THEOREM StoreTypeCorrect == StoreSpec => []StoreTypeOK
  BY TypeInit, TypeStep, PTL DEF StoreSpec

-----------------------------------------------------------------------------
(* Updates.                                                                *)

\* Steps that write no job leave every job as it is, or delete it.
LEMMA OtherSteps ==
  ASSUME StoreTypeOK, [StoreNext]_storeVars, NEW j \in JobIDs, jobs'[j] # jobs[j],
         \A in : ~Written(j, in)
  PROVE  j \in yielded /\ PruneDelete(j)
<1>1. ASSUME NEW i \in JobIDs, NEW in, Written(i, in)
      PROVE  FALSE
  <2>1. i # j
    BY <1>1
  <2>2. Put(i, in, IF Has(i) THEN syncJob2(jobs[i], in) ELSE in)
    BY <1>1, WriteFacts
  <2> QED
    BY <2>1, <2>2, PutFacts
<1>2. ASSUME NEW i \in JobIDs, PruneDelete(i)
      PROVE  j \in yielded /\ PruneDelete(j)
  BY <1>2 DEF PruneDelete, StoreTypeOK
<1>3. PruneBegin \/ PruneScan \/ PruneEnd \/ ClockTicks \/ UNCHANGED storeVars => jobs' = jobs
  BY DEF PruneBegin, PruneScan, PruneEnd, ClockTicks, storeVars
<1> QED
  BY <1>1, <1>2, <1>3, StepCases

\* No update takes a host, once known, from a job that stays in the cache.
THEOREM KeepsFields == StoreSpec => FieldsKept
<1>1. ASSUME StoreTypeOK, [StoreNext]_storeVars, NEW j \in JobIDs, Has(j), Has(j)', jobs[j].host # ""
      PROVE  jobs'[j].host # ""
  <2>1. ASSUME NEW in, Written(j, in)
        PROVE  jobs'[j].host # ""
    <3>1. jobs'[j] = syncJob2(jobs[j], in)
      <4>1. Put(j, in, syncJob2(jobs[j], in))
        BY <1>1, <2>1, WriteFacts
      <4> QED
        BY <1>1, <2>1, <4>1, PutFacts
    <3>2. jobs[j] \in Job /\ in \in Job /\ now \in Nat
      BY <1>1, <2>1, WriteFacts, Bounds DEF StoreTypeOK, Has
    <3>3. syncJob2(jobs[j], in).host # ""
      BY <1>1, <3>2, SyncFacts
    <3> QED
      BY <3>1, <3>3
  <2>2. ASSUME PruneDelete(j)
        PROVE  FALSE
    BY <1>1, <2>2 DEF PruneDelete, StoreTypeOK, Has
  <2> QED
    BY <1>1, <2>1, <2>2, OtherSteps
<1>2. StoreTypeOK /\ [StoreNext]_storeVars =>
        [\A j \in JobIDs : Has(j) /\ Has(j)' /\ jobs[j].host # "" => jobs'[j].host # ""]_storeVars
  BY <1>1
<1> QED
  BY <1>2, StoreTypeCorrect, PTL DEF StoreSpec, FieldsKept

\* LastUpdated of a job is never later than its last change or stamp, nor that
\* than the present.
StampInv ==
  /\ StoreTypeOK
  /\ \A j \in JobIDs : changed[j] <= now
  /\ PollingLeavesStamp

LEMMA StampInit == StoreInit => StampInv
<1>1. StoreInit => \A j \in JobIDs : ~Has(j)
  BY DEF StoreInit, Has
<1>2. StoreInit => \A j \in JobIDs : changed[j] <= now
  <2> SUFFICES ASSUME StoreInit, NEW j \in JobIDs
               PROVE  changed[j] <= now
    OBVIOUS
  <2>1. now \in Nat /\ now = 1 /\ changed[j] \in Nat /\ changed[j] = 0
    BY DEF StoreInit
  <2> QED
    BY <2>1
<1> QED
  BY <1>1, <1>2, TypeInit DEF StampInv, PollingLeavesStamp

LEMMA StampStep == StampInv /\ [StoreNext]_storeVars => StampInv'
<1> SUFFICES ASSUME StampInv, [StoreNext]_storeVars
             PROVE  StampInv'
  OBVIOUS
<1>1. StoreTypeOK /\ StoreTypeOK' /\ now \in Nat /\ \A k \in JobIDs : changed[k] \in Nat
  <2>1. StoreTypeOK /\ StoreTypeOK' /\ now \in Nat /\ MaxTime \in Nat
    BY TypeStep, Bounds DEF StampInv
  <2> QED
    BY <2>1 DEF StoreTypeOK
<1>2. ASSUME NEW i \in JobIDs, NEW in, Written(i, in)
      PROVE  StampInv'
  <2>0. StoreTypeOK /\ now \in Nat
    BY <1>1
  <2>1. PICK job : /\ job = IF Has(i) THEN syncJob2(jobs[i], in) ELSE in
                   /\ Put(i, in, job) /\ in \in Job /\ in.updated \in {0, now, jobs[i].updated}
    BY <1>2, <2>0, WriteFacts
  <2>2. /\ jobs'[i] = job /\ now' = now
        /\ \A k \in JobIDs \ {i} : jobs'[k] = jobs[k] /\ changed'[k] = changed[k]
        /\ changed'[i] = IF /\ job.status = jobs[i].status /\ job.host = jobs[i].host
                            /\ in.updated # now
                         THEN changed[i] ELSE now
    <3>1. Put(i, in, job)
      BY <2>1
    <3> QED
      BY <2>0, <3>1, PutFacts
  <2>3. changed[i] \in Nat /\ changed[i] <= now /\ changed'[i] \in {changed[i], now}
    BY <1>1, <2>2 DEF StampInv
  <2>4. \A k \in JobIDs : changed'[k] <= now'
    <3>1. changed'[i] <= now'
      BY <2>0, <2>2, <2>3
    <3>2. \A k \in JobIDs \ {i} : changed'[k] <= now'
      BY <2>2 DEF StampInv
    <3> QED
      BY <3>1, <3>2
  <2>5. job.updated <= changed'[i]
    <3>1. CASE ~Has(i)
      <4>1. job = in /\ jobs[i] = absent /\ absent.updated = 0
        BY <2>1, <3>1 DEF Has, absent
      <4>2. job.updated \in {0, now} /\ (job.updated = now => changed'[i] = now)
        BY <2>1, <2>2, <4>1
      <4> QED
        BY <2>0, <2>3, <4>2
    <3>2. CASE Has(i)
      <4>1. jobs[i] \in Job /\ job = syncJob2(jobs[i], in)
        BY <2>0, <2>1, <3>2 DEF StoreTypeOK, Has
      <4>2. jobs[i].updated \in Nat /\ jobs[i].updated <= changed[i]
        BY <3>2, <4>1 DEF StampInv, PollingLeavesStamp, Job
      <4>3. /\ job.updated \in {in.updated, jobs[i].updated, now}
            /\ in.updated \in {0, jobs[i].updated} =>
                 \/ job.updated = jobs[i].updated
                 \/ /\ job.updated = now
                    /\ ~(job.status = jobs[i].status /\ job.host = jobs[i].host)
        <5>1. PICK old : old = jobs[i]
          OBVIOUS
        <5>2. old \in Job /\ in \in Job /\ now \in Nat
          BY <2>0, <2>1, <4>1, <5>1
        <5>3. job = syncJob2(old, in)
          BY <4>1, <5>1
        <5>4. /\ syncJob2(old, in).updated \in {in.updated, old.updated, now}
              /\ in.updated \in {0, old.updated} =>
                   \/ syncJob2(old, in).updated = old.updated
                   \/ /\ syncJob2(old, in).updated = now
                      /\ ~(syncJob2(old, in).status = old.status /\ syncJob2(old, in).host = old.host)
          BY ONLY <5>2, SyncFacts
        <5> QED
          BY ONLY <5>1, <5>3, <5>4
      <4>4. CASE changed'[i] = now
        <5>1. job.updated \in {0, now, jobs[i].updated}
          BY <2>1, <4>3
        <5> QED
          BY <2>0, <2>3, <4>2, <4>4, <5>1
      <4>5. CASE changed'[i] # now
        <5>1. changed'[i] = changed[i] /\ in.updated \in {0, jobs[i].updated}
              /\ job.status = jobs[i].status /\ job.host = jobs[i].host
          BY <2>1, <2>2, <4>5
        <5>2. job.updated = jobs[i].updated
          BY <4>3, <5>1
        <5> QED
          BY <4>2, <5>1, <5>2
      <4> QED
        BY <4>4, <4>5
    <3> QED
      BY <3>1, <3>2
  <2>6. PollingLeavesStamp'
    BY <2>2, <2>5 DEF StampInv, PollingLeavesStamp, Has
  <2> QED
    BY <1>1, <2>4, <2>6 DEF StampInv
<1>3. ASSUME NEW i \in JobIDs, PruneDelete(i)
      PROVE  StampInv'
  BY <1>1, <1>3 DEF PruneDelete, StampInv, PollingLeavesStamp, Has, StoreTypeOK
<1>4. CASE ClockTicks
  <2>1. now' = now + 1 /\ UNCHANGED <<jobs, changed>>
    BY <1>4 DEF ClockTicks
  <2>2. \A k \in JobIDs : changed'[k] <= now'
    BY <1>1, <2>1 DEF StampInv
  <2>3. PollingLeavesStamp'
    BY <2>1 DEF StampInv, PollingLeavesStamp, Has
  <2> QED
    BY <1>1, <2>2, <2>3 DEF StampInv
<1>5. CASE PruneBegin \/ PruneScan \/ PruneEnd \/ UNCHANGED storeVars
  BY <1>1, <1>5 DEF PruneBegin, PruneScan, PruneEnd, storeVars, StampInv, PollingLeavesStamp, Has
<1> QED
  BY <1>2, <1>3, <1>4, <1>5, StepCases

\* Updates that change nothing and carry no stamp do not put off Prune, whatever
\* stamps the plugin sets on others.
THEOREM PollingKeepsStamp == StoreSpec => []PollingLeavesStamp
<1>1. StampInv => PollingLeavesStamp
  BY DEF StampInv
<1> QED
  BY <1>1, StampInit, StampStep, PTL DEF StoreSpec

-----------------------------------------------------------------------------
(* Pruning.                                                                *)

\* The candidates of a running Prune are jobs that are still terminal.
PruneInv ==
  /\ StoreTypeOK
  /\ TerminalIsFinal => \A j \in yielded : Has(j) /\ jobs[j].status \in Terminal

LEMMA PruneStep == PruneInv /\ [StoreNext]_storeVars => PruneInv'
<1> SUFFICES ASSUME TerminalIsFinal, PruneInv, [StoreNext]_storeVars
             PROVE  PruneInv'
  BY TypeStep DEF PruneInv
<1>1. StoreTypeOK /\ StoreTypeOK' /\ now \in Nat
  BY TypeStep, Bounds DEF PruneInv
<1>2. ASSUME NEW i \in JobIDs, NEW in, Written(i, in)
      PROVE  PruneInv'
  <2> DEFINE job == IF Has(i) THEN syncJob2(jobs[i], in) ELSE in
  <2>1. Put(i, in, job) /\ in \in Job /\ (Has(i) => <<jobs[i].status, in.status>> \in Moves)
    BY <1>1, <1>2, WriteFacts
  <2>2. /\ jobs'[i] = job /\ yielded' = yielded
        /\ \A k \in JobIDs \ {i} : jobs'[k] = jobs[k]
    BY <1>1, <2>1, PutFacts
  <2>3. ASSUME i \in yielded
        PROVE  job \in Job /\ job.status \in Terminal
    <3>1. Has(i) /\ jobs[i] \in Job /\ jobs[i].status \in Terminal
      BY <1>1, <2>3 DEF PruneInv, StoreTypeOK, Has
    <3>2. job \in Job /\ job.status = in.status
      BY <1>1, <2>1, <3>1, SyncFacts
    <3>3. in.status \in Terminal
      <4> DEFINE m == <<jobs[i].status, in.status>>
      <4>1. m \in Moves /\ m[1] = jobs[i].status /\ m[2] = in.status
        BY <2>1, <3>1
      <4> HIDE DEF m
      <4> QED
        BY <3>1, <4>1 DEF TerminalIsFinal
    <3> QED
      BY <3>2, <3>3
  <2> HIDE DEF job
  <2>4. absent \notin Job
    <3>1. absent.status = "absent" /\ "absent" \notin Status
      BY StoreAssumption DEF absent
    <3> QED
      BY <3>1 DEF Job
  <2>5. \A k \in yielded' : Has(k)' /\ jobs'[k].status \in Terminal
    BY <1>1, <2>2, <2>3, <2>4 DEF PruneInv, Has, StoreTypeOK
  <2> QED
    BY <1>1, <2>5 DEF PruneInv
<1>3. CASE PruneScan
  <2>1. /\ jobs' = jobs
        /\ yielded' \subseteq JobsForUser("*", Terminal)
    BY <1>3 DEF PruneScan
  <2>2. \A k \in JobsForUser("*", Terminal) : Has(k) /\ (Terminal = {} \/ jobs[k].status \in Terminal)
    BY DEF JobsForUser, Visible
  <2>3. Terminal # {}
    BY StoreAssumption
  <2> QED
    BY <1>1, <2>1, <2>2, <2>3 DEF PruneInv, Has
<1>4. ASSUME NEW i \in JobIDs, PruneDelete(i)
      PROVE  PruneInv'
  BY <1>1, <1>4 DEF PruneDelete, PruneInv, StoreTypeOK, Has
<1>5. CASE PruneBegin \/ PruneEnd \/ ClockTicks \/ UNCHANGED storeVars
  BY <1>1, <1>5 DEF PruneBegin, PruneEnd, ClockTicks, storeVars, PruneInv, Has
<1> QED
  BY <1>2, <1>3, <1>4, <1>5, StepCases

\* A job that leaves the cache is terminal at that moment, for plugins that
\* never take a job out of a terminal status.
THEOREM PruneTerminal == StoreSpec => OnlyTerminalLeave
<1>1. StoreInit => PruneInv
  <2>1. StoreInit => yielded = {}
    BY DEF StoreInit
  <2> QED
    BY <2>1, TypeInit DEF PruneInv
<1>2. ASSUME PruneInv, TerminalIsFinal, [StoreNext]_storeVars, NEW j \in JobIDs, Has(j), ~Has(j)'
      PROVE  jobs[j].status \in Terminal
  <2>1. \A in : ~Written(j, in)
    <3> SUFFICES ASSUME NEW in, Written(j, in)
                 PROVE  FALSE
      OBVIOUS
    <3>1. StoreTypeOK /\ jobs[j] \in Job /\ in \in Job /\ now \in Nat
      BY <1>2, WriteFacts, Bounds DEF PruneInv, StoreTypeOK, Has
    <3>2. jobs'[j] = syncJob2(jobs[j], in)
      <4>1. Put(j, in, syncJob2(jobs[j], in))
        BY <1>2, <3>1, WriteFacts
      <4> QED
        BY <1>2, <3>1, <4>1, PutFacts
    <3>3. absent \notin Job
      <4>1. absent.status = "absent" /\ "absent" \notin Status
        BY StoreAssumption DEF absent
      <4> QED
        BY <4>1 DEF Job
    <3>4. syncJob2(jobs[j], in) \in Job
      BY <3>1, SyncFacts
    <3> QED
      BY <1>2, <3>2, <3>3, <3>4 DEF Has
  <2>2. jobs'[j] # jobs[j]
    BY <1>2 DEF Has
  <2> QED
    BY <1>2, <2>1, <2>2, OtherSteps DEF PruneInv
<1>3. PruneInv /\ [StoreNext]_storeVars =>
        [TerminalIsFinal =>
           \A j \in JobIDs : Has(j) /\ ~Has(j)' => jobs[j].status \in Terminal]_storeVars
  BY <1>2
<1> QED
  BY <1>1, <1>3, PruneStep, PTL DEF StoreSpec, OnlyTerminalLeave

=============================================================================
