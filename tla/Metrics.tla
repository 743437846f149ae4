------------------------------ MODULE Metrics ------------------------------
(***************************************************************************)
(* launcher/metrics.go: a plugin's goroutines observe latencies in a       *)
(* Histogram while the metrics loop, on each tick, has the plugin drain it *)
(* and offers the sample to the response channel. Another goroutine of the *)
(* plugin may call Drain too. A prometheus histogram is an instance with   *)
(* the set of observations recorded in it; an observation is its position  *)
(* in value. One action per critical section or channel operation.         *)
(***************************************************************************)
EXTENDS Integers, Sequences, FiniteSets, FiniteSetsExt

CONSTANTS
  Observers,  \* goroutines that call Observe
  Drainers,   \* goroutines of the plugin that call Drain themselves
  Loop,       \* the metrics loop
  Values,     \* values observed, in units of the smallest bucket
  NaN, Inf,   \* math.NaN, math.Inf
  Buckets,    \* h.buckets
  Insts,      \* prometheus histograms, numbered
  ChCap,      \* capacity of the response channel
  none,       \* nobody
  MaxObs      \* bound: observations recorded

\* What NewHistogram accepts.
ValidBuckets(b) ==
  /\ b # <<>>
  /\ \A i \in DOMAIN b : b[i] > 0 /\ (i > 1 => b[i - 1] < b[i])

ASSUME MetricsAssumption ==
  /\ ValidBuckets(Buckets) /\ ChCap \in Nat /\ MaxObs \in Nat
  /\ Loop \notin Drainers /\ none \notin Observers \cup Insts /\ 1 \in Insts

VARIABLES
  mu, current,  \* Histogram.mu (its holder) and Histogram.current
  inst,         \* the observations recorded in each instance
  value,        \* history: the values recorded
  obs,          \* the instance and the value each observer is about to record
  drain,        \* each caller of Drain: its place, the instance swapped out,
                \* the observations drained and the sample made of them
  tick,         \* the ticker's channel holds a tick
  ch,           \* the response channel: metrics responses
  done,         \* ctx is canceled
  reported,     \* history: observations in samples the writer took
  lost,         \* history: observations lost with a drop or a panic
  taken         \* history: observations drained by the plugin for itself

hist == <<mu, current, inst, value, obs>>
vars == <<hist, drain, tick, ch, done, reported, lost, taken>>

Idle == [at |-> "idle", inst |-> none, of |-> {}, sample |-> <<>>]

Init ==
  /\ mu = none /\ current = 1 /\ inst = [i \in Insts |-> {}] /\ value = <<>>
  /\ obs = [o \in Observers |-> <<>>]
  /\ drain = [d \in Drainers \cup {Loop} |-> Idle]
  /\ tick = FALSE /\ ch = <<>> /\ done = FALSE
  /\ reported = {} /\ lost = {} /\ taken = {}

-----------------------------------------------------------------------------
(* Observe.                                                                *)

\* Values that are NaN, infinite or negative are ignored.
Valid(v) == v \notin {NaN, Inf} /\ v >= 0

\* Observe takes the lock, holding h.current.
Observe(o, v) ==
  /\ obs[o] = <<>> /\ Valid(v) /\ mu = none /\ Len(value) < MaxObs
  /\ mu' = o /\ obs' = [obs EXCEPT ![o] = <<current, v>>]
  /\ UNCHANGED <<current, inst, value, drain, tick, ch, done, reported, lost, taken>>

\* It records the value and unlocks.
Record(o) ==
  /\ obs[o] # <<>>
  /\ value' = Append(value, obs[o][2])
  /\ inst' = [inst EXCEPT ![obs[o][1]] = @ \cup {Len(value) + 1}]
  /\ obs' = [obs EXCEPT ![o] = <<>>] /\ mu' = none
  /\ UNCHANGED <<current, drain, tick, ch, done, reported, lost, taken>>

-----------------------------------------------------------------------------
(* Drain.                                                                  *)

\* old.Write: the cumulative count of each bucket, bounds included.
Cumulative(of) == [i \in DOMAIN Buckets |-> Cardinality({k \in of : value[k] <= Buckets[i]})]

\* Mutant of Sample: the counts stay cumulative.
Sample_Cumulative(of) ==
  IF of = {} THEN <<>>
  ELSE <<[buckets |-> Cumulative(of), sum |-> MapThenSumSet(LAMBDA k : value[k], of)]>>

\* The sample of a drained instance: counts per bucket, and the sum of all
\* observations. None (nil) if there are no observations.
Sample(of) ==
  LET cum == Cumulative(of) IN
  IF of = {} THEN <<>>
  ELSE <<[buckets |-> [i \in DOMAIN cum |-> cum[i] - (IF i = 1 THEN 0 ELSE cum[i - 1])],
          sum |-> MapThenSumSet(LAMBDA k : value[k], of)]>>

\* A new instance: numbers that nobody refers to any more are used again.
Used == {current} \cup {drain[d].inst : d \in DOMAIN drain} \cup {obs[o][1] : o \in {o \in Observers : obs[o] # <<>>}}
Fresh(i) == i \notin Used /\ \A j \in Insts : j < i => j \in Used

\* Mutant of Swap: the lock is not taken.
Swap_Unlocked(d, i) ==
  /\ Fresh(i)
  /\ drain' = [drain EXCEPT ![d] = [Idle EXCEPT !.at = "swapped", !.inst = current]]
  /\ current' = i /\ UNCHANGED inst
  /\ UNCHANGED <<mu, value, obs, tick, ch, done, reported, lost, taken>>

\* Under the lock, a new instance takes the place of the current one.
Swap(d, i) ==
  /\ mu = none /\ Fresh(i)
  /\ drain' = [drain EXCEPT ![d] = [Idle EXCEPT !.at = "swapped", !.inst = current]]
  /\ current' = i /\ UNCHANGED inst
  /\ UNCHANGED <<mu, value, obs, tick, ch, done, reported, lost, taken>>

\* Without it, the old instance is read, and is garbage then.
Read(d) ==
  LET of == inst[drain[d].inst] IN
  /\ drain[d].at = "swapped"
  /\ drain' = [drain EXCEPT ![d] = [at |-> "drained", inst |-> none, of |-> of, sample |-> Sample(of)]]
  /\ inst' = [inst EXCEPT ![drain[d].inst] = {}]
  /\ UNCHANGED <<mu, current, value, obs, tick, ch, done, reported, lost, taken>>

\* The plugin's own goroutine calls Drain, and has the sample.
OwnDrain(d, i) == drain[d].at = "idle" /\ Swap(d, i)

OwnDrained(d) ==
  /\ drain[d].at = "drained"
  /\ taken' = taken \cup drain[d].of
  /\ drain' = [drain EXCEPT ![d] = Idle]
  /\ UNCHANGED <<hist, tick, ch, done, reported, lost>>

-----------------------------------------------------------------------------
(* The metrics loop.                                                       *)

\* An interval passes: the ticker's channel holds one tick at most.
Second ==
  /\ ~tick /\ tick' = TRUE
  /\ UNCHANGED <<hist, drain, ch, done, reported, lost, taken>>

\* metricsLoop receives a tick and calls metricsOnce.
Tick ==
  /\ drain[Loop].at = "idle" /\ tick
  /\ tick' = FALSE
  /\ drain' = [drain EXCEPT ![Loop] = [Idle EXCEPT !.at = "metrics"]]
  /\ UNCHANGED <<hist, ch, done, reported, lost, taken>>

LoopReturns ==
  /\ drain[Loop].at = "idle" /\ done
  /\ drain' = [drain EXCEPT ![Loop] = [Idle EXCEPT !.at = "stopped"]]
  /\ UNCHANGED <<hist, tick, ch, done, reported, lost, taken>>

\* The plugin's Metrics calls Drain.
Metrics(i) == drain[Loop].at = "metrics" /\ Swap(Loop, i)

\* Metrics panics before or after it drained, or there is no such method:
\* collectPluginMetrics returns zero metrics.
NoMetrics ==
  /\ drain[Loop].at \in {"metrics", "drained"}
  /\ drain' = [drain EXCEPT ![Loop] = [Idle EXCEPT !.at = "offering"]]
  /\ lost' = lost \cup drain[Loop].of
  /\ UNCHANGED <<hist, tick, ch, done, reported, taken>>

Offering == drain[Loop].at \in {"drained", "offering"}

\* metricsOnce sends the response if there is room,
Offer ==
  /\ Offering /\ Len(ch) < ChCap
  /\ ch' = Append(ch, [of |-> drain[Loop].of, sample |-> drain[Loop].sample])
  /\ drain' = [drain EXCEPT ![Loop] = Idle]
  /\ UNCHANGED <<hist, tick, done, reported, lost, taken>>

\* Mutant of Drop: the loop returns when the channel is full.
Drop_Return ==
  /\ Offering /\ Len(ch) = ChCap
  /\ lost' = lost \cup drain[Loop].of
  /\ drain' = [drain EXCEPT ![Loop] = [Idle EXCEPT !.at = "stopped"]]
  /\ UNCHANGED <<hist, tick, ch, done, reported, taken>>

\* and drops it otherwise.
Drop ==
  /\ Offering /\ Len(ch) = ChCap
  /\ lost' = lost \cup drain[Loop].of
  /\ drain' = [drain EXCEPT ![Loop] = Idle]
  /\ UNCHANGED <<hist, tick, ch, done, reported, taken>>

\* The writer goroutine of Serve takes a response.
Take ==
  /\ ch # <<>>
  /\ ch' = Tail(ch) /\ reported' = reported \cup Head(ch).of
  /\ UNCHANGED <<hist, drain, tick, done, lost, taken>>

Cancel ==
  /\ ~done /\ done' = TRUE
  /\ UNCHANGED <<hist, drain, tick, ch, reported, lost, taken>>

-----------------------------------------------------------------------------
LoopStep == Tick \/ LoopReturns \/ (\E i \in Insts : Metrics(i)) \/ NoMetrics \/ Read(Loop) \/ Offer \/ Drop
OwnStep(d) == (\E i \in Insts : OwnDrain(d, i)) \/ Read(d) \/ OwnDrained(d)

Next ==
  \/ \E o \in Observers : (\E v \in Values : Observe(o, v)) \/ Record(o)
  \/ \E d \in Drainers : OwnStep(d)
  \/ LoopStep \/ Second \/ Take \/ Cancel

Spec == Init /\ [][Next]_vars

\* Time passes and goroutines run; a lock that is free again and again is taken
\* (sync.Mutex does not starve), and so is Drain called: Metrics does not always
\* panic. The writer goroutine writes on.
Fairness ==
  /\ WF_vars(Second) /\ WF_vars(Take) /\ WF_vars(LoopStep) /\ SF_vars(\E i \in Insts : Metrics(i))
  /\ \A o \in Observers : WF_vars(Record(o))
  /\ \A d \in Drainers : WF_vars(Read(d)) /\ WF_vars(OwnDrained(d))

FairSpec == Spec /\ Fairness

-----------------------------------------------------------------------------
(* Safety.                                                                 *)

Places == {"idle", "metrics", "swapped", "drained", "offering", "stopped"}

TypeOK ==
  /\ mu \in Observers \cup {none} /\ current \in Insts
  /\ inst \in [Insts -> SUBSET (1 .. Len(value))] /\ Len(value) <= MaxObs
  /\ \A o \in Observers : obs[o] = <<>> \/ obs[o] = <<current, obs[o][2]>>
  /\ \A d \in DOMAIN drain :
       /\ drain[d].at \in Places /\ drain[d].inst \in Insts \cup {none}
       /\ drain[d].of \in SUBSET (1 .. Len(value))
  /\ tick \in BOOLEAN
  /\ Len(ch) <= ChCap /\ done \in BOOLEAN

\* Where an observation is: in the current instance, with a caller of Drain, in
\* the response channel, written, lost with a response that was dropped or a
\* panic, or with the plugin.
Homes(k) ==
  (IF k \in inst[current] THEN {<<"current">>} ELSE {})
  \cup {<<"drain", d>> : d \in {d \in DOMAIN drain : k \in drain[d].of
            \/ (drain[d].at = "swapped" /\ k \in inst[drain[d].inst])}}
  \cup {<<"ch", n>> : n \in {n \in DOMAIN ch : k \in ch[n].of}}
  \cup (IF k \in reported THEN {<<"reported">>} ELSE {})
  \cup (IF k \in lost THEN {<<"lost">>} ELSE {}) \cup (IF k \in taken THEN {<<"taken">>} ELSE {})

\* Every observation that Observe recorded is at one place: it is reported once
\* or lost once, however Observe and calls of Drain interleave. (Drain swaps
\* under the lock under which Observe records, and reads after it.)
ObservationsCounted == \A k \in DOMAIN value : \E h \in Homes(k) : Homes(k) = {h}

\* A sample that was made counts, per bucket, the values above the bucket's
\* predecessor up to its own bound, though it was read from cumulative counts
\* outside the lock; values beyond the last bound are in the sum alone; and
\* there is a sample just when there are observations.
Exact(of, sample) ==
  IF of = {} THEN sample = <<>> ELSE
  /\ \A i \in DOMAIN Buckets :
       sample[1].buckets[i] = Cardinality({k \in of :
         value[k] <= Buckets[i] /\ IF i = 1 THEN value[k] >= 0 ELSE value[k] > Buckets[i - 1]})
  /\ sample[1].sum = MapThenSumSet(LAMBDA k : value[k], of)
SamplesExact ==
  /\ \A n \in DOMAIN ch : Exact(ch[n].of, ch[n].sample)
  /\ \A d \in DOMAIN drain : Exact(drain[d].of, drain[d].sample)

-----------------------------------------------------------------------------
(* Liveness.                                                               *)

\* Until cancellation, every observation leaves the histogram, although
\* responses are dropped and Metrics panics now and then.
ObservationsLeave ==
  \A k \in 1 .. MaxObs : k \in DOMAIN value ~> k \in reported \cup lost \cup taken \/ done

=============================================================================
