------------------------------ MODULE JobCache ------------------------------
(***************************************************************************)
(* The publish/subscribe side of cache.JobCache (cache/cache.go): status   *)
(* changes are committed to the store and offered to a bounded channel, a  *)
(* service goroutine fans them out to subscriber channels, and             *)
(* StreamJobStatus, StreamJobStatuses and RunningJobContext read those.    *)
(*                                                                         *)
(* A status change is named by its position in log, the history of all     *)
(* committed changes: an update in a channel is such a position, and the   *)
(* store keeps for each job the position that gave it its present status.  *)
(* Critical sections (the store's lock, r.mu) are single actions: neither  *)
(* lock is ever taken while the other is held. A response a call writes is *)
(* taken to be accepted at once.                                           *)
(***************************************************************************)
EXTENDS Naturals, Sequences, Functions

CONSTANTS
  JobIDs,     \* job identifiers
  Users,      \* user names, other than the wildcard "*"
  Owner,      \* the user each job belongs to (Job.User never changes)
  Status,     \* job statuses
  Terminal,   \* the statuses api.TerminalStatus accepts
  Moves,      \* the <<from, to>> status changes the plugin makes
  Subs,       \* calls that subscribe, each with a channel of its own
  Calls,      \* the calls a subscriber may make
  Closers,    \* goroutines that call Close
  ChCap,      \* capacity of JobCache.ch (64 in the code)
  SubCap,     \* capacity of a subscriber's channel (1 in the code)
  MaxLog      \* bound: committed status changes in one behaviour

CallOps == {"StreamJobStatus", "StreamJobStatuses", "RunningJobContext"}

ASSUME ConstantsAssumption ==
  /\ "*" \notin Users
  /\ Owner \in [JobIDs -> Users]
  /\ Terminal \subseteq Status
  /\ Moves \subseteq Status \X Status
  /\ Calls \subseteq [op : CallOps, user : Users \cup {"*"}, id : JobIDs]
  /\ ChCap \in Nat /\ SubCap \in Nat /\ MaxLog \in Nat

VARIABLES
  log,        \* history: every committed status change, oldest first
  store,      \* position in log of a job's present status, 0 if not cached
  pruning,    \* jobs that a running Prune has yielded and will delete
  ch,         \* JobCache.ch
  stop,       \* JobCache.stop is closed
  svc,        \* where the service goroutine is
  held,       \* the update it is processing, 0 if none
  closer,     \* where each caller of Close is
  call,       \* the call each subscriber made
  pc,         \* where that call is
  parent,     \* the context passed to the call is canceled
  own,        \* RunningJobContext has called its own cancel()
  registered, \* subscribers on the list of some subManager
  buf,        \* the subscriber's channel
  closes,     \* how many times close() was called on that channel
  snap,       \* positions written from the store before subscribing
  got,        \* positions received from the channel, in order
  mark,       \* history: length of log when the call subscribed
  lost        \* history: positions dropped before they reached the channel

cacheVars == <<log, store, pruning, ch, stop, svc, held, closer>>
callVars  == <<call, pc, parent, own, snap, got, mark>>
chanVars  == <<registered, buf, closes, lost>>
vars      == <<cacheVars, callVars, chanVars>>

-----------------------------------------------------------------------------
(* Helpers.                                                                *)

Held == IF held = 0 THEN {} ELSE {held}

TerminalStatus(n) == log[n].status \in Terminal

\* The context given to Subscribe: canceled with its parent or by cancel().
CtxErr(s) == parent[s] \/ own[s]

\* Whose updates a subscription is for: the lists r.updates, updatesByUser
\* and updatesByID.
Match(c, id) ==
  IF c.op = "StreamJobStatuses" THEN c.user \in {"*", Owner[id]} ELSE c.id = id

\* The user check of Lookup and Update.
Visible(user, id) == store[id] # 0 /\ user \in {"*", Owner[id]}

-----------------------------------------------------------------------------
Init ==
  /\ log = <<>>
  /\ store = [j \in JobIDs |-> 0]
  /\ pruning = {}
  /\ ch = <<>>
  /\ stop = FALSE
  /\ svc = "select"
  /\ held = 0
  /\ closer = [c \in Closers |-> "idle"]
  /\ call \in [Subs -> Calls]
  /\ pc = [s \in Subs |-> "idle"]
  /\ parent = [s \in Subs |-> FALSE]
  /\ own = [s \in Subs |-> FALSE]
  /\ registered = {}
  /\ buf = [s \in Subs |-> <<>>]
  /\ closes = [s \in Subs |-> 0]
  /\ snap = [s \in Subs |-> {}]
  /\ got = [s \in Subs |-> <<>>]
  /\ mark = [s \in Subs |-> 0]
  /\ lost = [s \in Subs |-> {}]

-----------------------------------------------------------------------------
(* Writers of the store.                                                   *)

\* notify: a non-blocking send. The update is queued, or dropped because the
\* channel is full, or discarded because stop is closed (either of the last
\* and the first when both are ready).
notify(n) ==
  \/ /\ Len(ch) < ChCap
     /\ ch' = Append(ch, n)
     /\ UNCHANGED lost
  \/ /\ stop \/ Len(ch) >= ChCap
     /\ lost' = [s \in Subs |-> lost[s] \cup {n}]
     /\ UNCHANGED ch

\* The store's Update callback, under its write lock: the change is committed
\* and offered to the service goroutine in one critical section.
Commit(j, st) ==
  /\ Len(log) < MaxLog
  /\ log' = Append(log, [id |-> j, status |-> st])
  /\ store' = [store EXCEPT ![j] = Len(log) + 1]
  /\ notify(Len(log) + 1)
  /\ UNCHANGED <<pruning, stop, svc, held, closer, callVars,
                 registered, buf, closes>>

\* Caches a new job. An existing one is notified only if its status differs;
\* an equal status changes nothing here.
AddOrUpdate(j, st) ==
  /\ store[j] # 0 => <<log[store[j]].status, st>> \in Moves
  /\ IF store[j] = 0 \/ log[store[j]].status # st
     THEN Commit(j, st)
     ELSE UNCHANGED vars

\* Update(user, id, fn) where fn sets the status.
Update(user, j, st) ==
  /\ Visible(user, j)
  /\ <<log[store[j]].status, st>> \in Moves
  /\ IF log[store[j]].status # st
     THEN Commit(j, st)
     ELSE UNCHANGED vars

\* Prune: the iteration collects terminal jobs that its caller accepts (their
\* age is modelled in JobStore) ...
PruneScan ==
  /\ pruning = {}
  /\ \E S \in SUBSET {j \in JobIDs : store[j] # 0 /\ TerminalStatus(store[j])} :
       /\ S # {}
       /\ pruning' = S
  /\ UNCHANGED <<log, store, ch, stop, svc, held, closer, callVars, chanVars>>

\* ... and afterwards each is deleted, with no second look and no update sent.
PruneDelete(j) ==
  /\ j \in pruning
  /\ pruning' = pruning \ {j}
  /\ store' = [store EXCEPT ![j] = 0]
  /\ UNCHANGED <<log, ch, stop, svc, held, closer, callVars, chanVars>>

-----------------------------------------------------------------------------
(* The service goroutine.                                                  *)

\* Mutant of SvcReceive: the update stays in the channel.
SvcReceive_Peek ==
  /\ svc = "select"
  /\ ch # <<>>
  /\ held' = Head(ch)
  /\ svc' = "process"
  /\ UNCHANGED <<log, store, pruning, ch, stop, closer, callVars, chanVars>>

\* case u := <-r.ch
SvcReceive ==
  /\ svc = "select"
  /\ ch # <<>>
  /\ held' = Head(ch)
  /\ ch' = Tail(ch)
  /\ svc' = "process"
  /\ UNCHANGED <<log, store, pruning, stop, closer, callVars, chanVars>>

\* Notify: a subscriber whose context is canceled is closed and removed; the
\* others get the update if their channel has room and miss it otherwise.
Notify(matched, u) ==
  LET dead == {s \in matched : CtxErr(s)}
      room == {s \in matched \ dead : Len(buf[s]) < SubCap}
      full == matched \ (dead \cup room)
  IN  /\ registered' = registered \ dead
      /\ closes' = [s \in Subs |-> IF s \in dead THEN closes[s] + 1 ELSE closes[s]]
      /\ buf' = [s \in Subs |-> IF s \in room THEN Append(buf[s], u) ELSE buf[s]]
      /\ lost' = [s \in Subs |-> IF s \in full THEN lost[s] \cup {u} ELSE lost[s]]

\* Mutant of processUpdate: only the subscribers of the user are notified.
processUpdate_UsersOnly ==
  /\ svc = "process"
  /\ Notify({s \in registered : call[s].op = "StreamJobStatuses" /\ Match(call[s], log[held].id)}, held)
  /\ svc' = "select"
  /\ held' = 0
  /\ UNCHANGED <<log, store, pruning, ch, stop, closer, callVars>>

\* processUpdate, under r.mu: Notify on the three kinds of subscriber list.
processUpdate ==
  /\ svc = "process"
  /\ Notify({s \in registered : Match(call[s], log[held].id)}, held)
  /\ svc' = "select"
  /\ held' = 0
  /\ UNCHANGED <<log, store, pruning, ch, stop, closer, callVars>>

\* case <-r.stop
SvcStop ==
  /\ svc = "select"
  /\ stop
  /\ svc' = "closing"
  /\ UNCHANGED <<log, store, pruning, ch, stop, held, closer, callVars, chanVars>>

\* The deferred closeSubscribers: every remaining channel is closed.
closeSubscribers ==
  /\ svc = "closing"
  /\ closes' = [s \in Subs |-> IF s \in registered THEN closes[s] + 1 ELSE closes[s]]
  /\ registered' = {}
  /\ svc' = "closed"
  /\ UNCHANGED <<log, store, pruning, ch, stop, held, closer, callVars, buf, lost>>

\* Mutant of SvcExit: done is closed only once the channel is drained.
SvcExit_Drained ==
  /\ svc = "closed"
  /\ ch = <<>>
  /\ svc' = "exited"
  /\ UNCHANGED <<log, store, pruning, ch, stop, held, closer, callVars, chanVars>>

\* The deferred close(r.done).
SvcExit ==
  /\ svc = "closed"
  /\ svc' = "exited"
  /\ UNCHANGED <<log, store, pruning, ch, stop, held, closer, callVars, chanVars>>

-----------------------------------------------------------------------------
(* Close.                                                                  *)

\* closeOnce lets the first caller close stop; later callers wait for it.
CloseBegin(c) ==
  /\ closer[c] = "idle"
  /\ closer' = [closer EXCEPT ![c] = IF stop THEN "blocked" ELSE "waiting"]
  /\ stop' = TRUE
  /\ UNCHANGED <<log, store, pruning, ch, svc, held, callVars, chanVars>>

\* <-r.done, then the return; closeOnce releases the others afterwards.
CloseReturn(c) ==
  /\ \/ closer[c] = "waiting" /\ svc = "exited"
     \/ closer[c] = "blocked" /\ \A d \in Closers : closer[d] # "waiting"
  /\ closer' = [closer EXCEPT ![c] = "returned"]
  /\ UNCHANGED <<log, store, pruning, ch, stop, svc, held, callVars, chanVars>>

-----------------------------------------------------------------------------
(* Subscribing calls.                                                      *)

\* The first step of each call, a read of the store under its read lock.
\* StreamJobStatus writes the job's status and is done if it is terminal;
\* RunningJobContext refuses a job that is terminal; both refuse a job the
\* user cannot see. StreamJobStatuses writes all jobs of the user.
Lookup(s) ==
  LET c == call[s]
      n == store[c.id]
  IN  /\ pc[s] = "idle"
      /\ \/ /\ c.op = "StreamJobStatuses"
            /\ snap' = [snap EXCEPT ![s] =
                  {store[j] : j \in {i \in JobIDs : Visible(c.user, i)}}]
            /\ pc' = [pc EXCEPT ![s] = "subscribe"]
         \/ /\ c.op = "StreamJobStatus"
            /\ Visible(c.user, c.id)
            /\ snap' = [snap EXCEPT ![s] = {n}]
            /\ pc' = [pc EXCEPT ![s] =
                  IF TerminalStatus(n) THEN "ended" ELSE "subscribe"]
         \/ /\ c.op = "RunningJobContext"
            /\ Visible(c.user, c.id)
            /\ pc' = [pc EXCEPT ![s] =
                  IF TerminalStatus(n) THEN "refused" ELSE "subscribe"]
            /\ UNCHANGED snap
         \/ /\ c.op # "StreamJobStatuses"
            /\ ~Visible(c.user, c.id)
            /\ pc' = [pc EXCEPT ![s] = "refused"]
            /\ UNCHANGED snap
      /\ UNCHANGED <<cacheVars, call, parent, own, got, mark, chanVars>>

\* Mutants of subscribe: stop is not looked at; the return after close(ch) is
\* missing.
subscribe_Unchecked(s) ==
  /\ pc[s] = "subscribe"
  /\ registered' = registered \cup {s}
  /\ mark' = [mark EXCEPT ![s] = Len(log)]
  /\ pc' = [pc EXCEPT ![s] =
        IF call[s].op = "RunningJobContext" THEN "recheck" ELSE "loop"]
  /\ UNCHANGED <<cacheVars, call, parent, own, snap, got, buf, closes, lost>>

subscribe_NoReturn(s) ==
  /\ pc[s] = "subscribe"
  /\ closes' = [closes EXCEPT ![s] = IF stop THEN @ + 1 ELSE @]
  /\ registered' = registered \cup {s}
  /\ mark' = [mark EXCEPT ![s] = Len(log)]
  /\ pc' = [pc EXCEPT ![s] =
        IF call[s].op = "RunningJobContext" THEN "recheck" ELSE "loop"]
  /\ UNCHANGED <<cacheVars, call, parent, own, snap, got, buf, lost>>

\* subscribeToID and subscribeToUser, under r.mu: once stop is closed the
\* channel is closed at once, otherwise it joins its subManager's list.
subscribe(s) ==
  /\ pc[s] = "subscribe"
  /\ IF stop
     THEN /\ closes' = [closes EXCEPT ![s] = @ + 1]
          /\ UNCHANGED registered
     ELSE /\ registered' = registered \cup {s}
          /\ UNCHANGED closes
  /\ mark' = [mark EXCEPT ![s] = Len(log)]
  /\ pc' = [pc EXCEPT ![s] =
        IF call[s].op = "RunningJobContext" THEN "recheck" ELSE "loop"]
  /\ UNCHANGED <<cacheVars, call, parent, own, snap, got, buf, lost>>

\* Mutant of Recheck: the second Lookup is missing.
Recheck_Missing(s) ==
  /\ pc[s] = "recheck"
  /\ pc' = [pc EXCEPT ![s] = "loop"]
  /\ UNCHANGED <<cacheVars, call, parent, own, snap, got, mark, chanVars>>

\* RunningJobContext's second Lookup.
Recheck(s) ==
  LET c == call[s]
      running == Visible(c.user, c.id) /\ ~TerminalStatus(store[c.id])
  IN  /\ pc[s] = "recheck"
      /\ pc' = [pc EXCEPT ![s] = IF running THEN "loop" ELSE "refused"]
      /\ own' = [own EXCEPT ![s] = ~running]
      /\ UNCHANGED <<cacheVars, call, parent, snap, got, mark, chanVars>>

\* case u, ok := <-ch with a value: a stream writes it and goes on, the
\* goroutine of RunningJobContext cancels its context if it is terminal.
Receive(s) ==
  LET ends == /\ call[s].op = "RunningJobContext"
              /\ TerminalStatus(Head(buf[s]))
  IN  /\ pc[s] = "loop"
      /\ buf[s] # <<>>
      /\ got' = [got EXCEPT ![s] = Append(@, Head(buf[s]))]
      /\ buf' = [buf EXCEPT ![s] = Tail(@)]
      /\ pc' = [pc EXCEPT ![s] = IF ends THEN "ended" ELSE "loop"]
      /\ own' = [own EXCEPT ![s] = ends]
      /\ UNCHANGED <<cacheVars, call, parent, snap, mark, registered, closes, lost>>

\* case u, ok := <-ch with ok false: the channel is closed and drained.
ReceiveClosed(s) ==
  /\ pc[s] = "loop"
  /\ buf[s] = <<>>
  /\ closes[s] > 0
  /\ pc' = [pc EXCEPT ![s] = "ended"]
  /\ own' = [own EXCEPT ![s] = call[s].op = "RunningJobContext"]
  /\ UNCHANGED <<cacheVars, call, parent, snap, got, mark, chanVars>>

\* Mutant of CtxDone: RunningJobContext does not watch its parent.
CtxDone_StreamsOnly(s) ==
  /\ pc[s] = "loop"
  /\ parent[s]
  /\ call[s].op # "RunningJobContext"
  /\ pc' = [pc EXCEPT ![s] = "ended"]
  /\ UNCHANGED <<cacheVars, call, parent, own, snap, got, mark, chanVars>>

\* case <-ctx.Done() (a stream) and case <-parent.Done() (RunningJobContext).
CtxDone(s) ==
  /\ pc[s] = "loop"
  /\ parent[s]
  /\ pc' = [pc EXCEPT ![s] = "ended"]
  /\ own' = [own EXCEPT ![s] = call[s].op = "RunningJobContext"]
  /\ UNCHANGED <<cacheVars, call, parent, snap, got, mark, chanVars>>

\* The caller's context is canceled, at any time.
CancelParent(s) ==
  /\ ~parent[s]
  /\ parent' = [parent EXCEPT ![s] = TRUE]
  /\ UNCHANGED <<cacheVars, call, pc, own, snap, got, mark, chanVars>>

-----------------------------------------------------------------------------
Writer ==
  \/ \E j \in JobIDs, st \in Status : AddOrUpdate(j, st)
  \/ \E c \in Calls, j \in JobIDs, st \in Status : Update(c.user, j, st)
  \/ PruneScan
  \/ \E j \in JobIDs : PruneDelete(j)

Service == SvcReceive \/ processUpdate \/ SvcStop \/ closeSubscribers \/ SvcExit

CallStep(s) ==
  Lookup(s) \/ subscribe(s) \/ Recheck(s) \/ Receive(s) \/ ReceiveClosed(s) \/ CtxDone(s)

Next ==
  \/ Writer
  \/ Service
  \/ \E c \in Closers : CloseBegin(c) \/ CloseReturn(c)
  \/ \E s \in Subs : CallStep(s) \/ CancelParent(s)

Spec == Init /\ [][Next]_vars

\* Goroutines that can run do run, and a select whose case stays ready picks
\* it sooner or later (Go chooses among ready cases at random). Nothing makes
\* a writer, a canceler or a caller of Close act, nor a call begin.
Fairness ==
  /\ WF_vars(Service)
  /\ SF_vars(SvcStop)
  /\ \A c \in Closers : WF_vars(CloseReturn(c))
  /\ \A s \in Subs :
       /\ WF_vars(pc[s] # "idle" /\ CallStep(s))
       /\ SF_vars(CtxDone(s))

FairSpec == Spec /\ Fairness

-----------------------------------------------------------------------------
(* Safety.                                                                 *)

TypeOK ==
  /\ log \in Seq([id : JobIDs, status : Status])
  /\ store \in [JobIDs -> Nat]
  /\ \A j \in JobIDs : store[j] <= Len(log)
  /\ pruning \subseteq JobIDs
  /\ ch \in Seq(Nat)
  /\ stop \in BOOLEAN
  /\ svc \in {"select", "process", "closing", "closed", "exited"}
  /\ held \in Nat
  /\ closer \in [Closers -> {"idle", "waiting", "blocked", "returned"}]
  /\ call \in [Subs -> Calls]
  /\ pc \in [Subs -> {"idle", "subscribe", "recheck", "loop", "ended", "refused"}]
  /\ parent \in [Subs -> BOOLEAN]
  /\ own \in [Subs -> BOOLEAN]
  /\ registered \subseteq Subs
  /\ buf \in [Subs -> Seq(Nat)]
  /\ closes \in [Subs -> Nat]
  /\ snap \in [Subs -> SUBSET Nat]
  /\ got \in [Subs -> Seq(Nat)]
  /\ mark \in [Subs -> Nat]
  /\ lost \in [Subs -> SUBSET Nat]

\* No goroutine of the cache can panic on a channel: a channel still on some
\* subscriber list (the only ones Notify sends on or closes) is open, and no
\* channel is closed twice, whatever the order of cancellation, subscription
\* and Close.
NoChannelPanic ==
  \A s \in Subs : closes[s] <= IF s \in registered THEN 0 ELSE 1

\* What a caller of Close may rely on once any call of it has returned: the
\* service goroutine is gone, no list holds a subscriber, and every channel a
\* call may still wait on is closed, so that no reader waits for ever.
CloseReleasesReaders ==
  (\E c \in Closers : closer[c] = "returned") =>
    /\ svc = "exited"
    /\ registered = {}
    /\ \A s \in Subs : pc[s] \in {"recheck", "loop"} => closes[s] = 1

\* A subscriber receives updates in the order they were committed, none twice
\* and none of a job that its subscription is not for.
OrderedDelivery ==
  \A s \in Subs :
    /\ \A i, k \in DOMAIN got[s] : i < k => got[s][i] < got[s][k]
    /\ \A i \in DOMAIN got[s] :
         got[s][i] \in DOMAIN log /\ Match(call[s], log[got[s][i]].id)

\* No update is lost silently: for a subscriber on a list, a change committed
\* since it subscribed is still on its way, was received, or met a full
\* channel (the two drops that notify and Notify log).
UpdatesAccounted ==
  \A s \in registered : \A n \in (mark[s] + 1) .. Len(log) :
    Match(call[s], log[n].id) =>
      n \in Range(ch) \cup Held \cup Range(buf[s]) \cup Range(got[s]) \cup lost[s]

\* The second Lookup of RunningJobContext closes the window between the first
\* Lookup and the subscription: while its goroutine waits on an open channel
\* and the job is terminal, the change that made it so is still on its way,
\* unless it met a full channel.
TerminalNotForgotten ==
  \A s \in Subs :
    LET n == store[call[s].id] IN
    /\ call[s].op = "RunningJobContext" /\ pc[s] = "loop"
    /\ ~CtxErr(s) /\ closes[s] = 0
    /\ n # 0 /\ TerminalStatus(n)
    => n \in Range(ch) \cup Held \cup Range(buf[s]) \cup lost[s]

-----------------------------------------------------------------------------
(* Liveness.                                                               *)

\* Every call of Close returns, concurrent and repeated ones included.
CloseReturns ==
  \A c \in Closers : closer[c] # "idle" ~> closer[c] = "returned"

\* A subscribing call ends once its context is canceled or Close was called,
\* however many updates keep coming: calls on a list, those subscribing at the
\* time and those that come later.
CallsEnd ==
  \A s \in Subs :
    (stop \/ parent[s]) /\ pc[s] # "idle" ~> pc[s] \in {"ended", "refused"}

-----------------------------------------------------------------------------
(* The abstract specification the cache implements.                        *)

Feed == INSTANCE StatusFeed WITH
  history <- log,
  wants   <- [s \in Subs |-> {j \in JobIDs : Match(call[s], j)}],
  shown   <- got

\* Queues, drops, cancellation, Prune and Close together still show every
\* subscriber a part of the committed history, in order: the cache implements
\* StatusFeed.
ImplementsFeed == Feed!FeedSpec

-----------------------------------------------------------------------------
(* What the documentation says and the code does not do.                   *)

JobTerminal(s) ==
  store[call[s].id] # 0 /\ TerminalStatus(store[call[s].id])

\* "RunningJobContext returns a context that is canceled when a job is no
\* longer running" (cache.go:239).
RunningContextCanceled ==
  \A s \in Subs :
    call[s].op = "RunningJobContext" /\ pc[s] = "loop" /\ JobTerminal(s) ~> CtxErr(s)

\* StreamJobStatus "automatically closes when job reaches terminal state or
\* context is cancelled" (docs/API.md:1117).
StreamEndsWithJob ==
  \A s \in Subs :
    call[s].op = "StreamJobStatus" /\ pc[s] = "loop" /\ JobTerminal(s)
      ~> pc[s] = "ended"

\* The status a stream of one job wrote last.
LastWritten(s) ==
  IF got[s] = <<>> THEN snap[s] ELSE {got[s][Len(got[s])]}

\* StreamJobStatus "will send an update whenever the job's status changes"
\* (docs/GUIDE.md:411): while it streams, the status it wrote last comes to
\* be the job's.
StreamShowsLatest ==
  \A s \in Subs :
    call[s].op = "StreamJobStatus" /\ pc[s] = "loop"
      ~> \/ LastWritten(s) = {store[call[s].id]}
         \/ pc[s] = "ended"
         \/ store[call[s].id] = 0

=============================================================================
