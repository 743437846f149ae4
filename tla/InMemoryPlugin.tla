--------------------------- MODULE InMemoryPlugin ---------------------------
(***************************************************************************)
(* The example plugin (examples/inmemory/main.go): concurrent calls of its *)
(* methods, the goroutine that simulates each job, the goroutine of each   *)
(* output stream, and shutdown. A call of the job cache is one step, a     *)
(* critical section of its store. The status streams are the cache's and   *)
(* modelled in JobCache. A response is taken to be accepted at once.       *)
(***************************************************************************)
EXTENDS JobStatuses, Integers, Sequences, FiniteSets

CONSTANTS
  Submitters, Controllers, Outputs, Utils,   \* calls of SubmitJob, ControlJob,
                                             \* GetJobOutput, GetJobResourceUtil
  Users, UserOf,   \* the user of each call, "*" for an administrator
  Targets,         \* bound: the jobs each ControlJob or stream call may be about
  TagSets,         \* bound: the tags each SubmitJob call may give its job
  JobIDs,          \* job IDs; "job-%d" is written %d
  Chunks,          \* lines of output that GetJobOutput sends (3)
  MaxUtil          \* bound: what is recorded of a GetJobResourceUtil call

Streams == Outputs \cup Utils
Calls == Submitters \cup Controllers \cup Streams

\* Tags are strings, of which the plugin knows one.
Tags == STRING \cup {"long-running"}

ASSUME PluginAssumption ==
  /\ Outputs \cap Utils = {} /\ Controllers \cap Streams = {}
  /\ UserOf \in [Calls -> Users \cup {"*"}] /\ "*" \notin Users
  /\ \A c \in Submitters : UserOf[c] \in Users /\ TagSets[c] \subseteq SUBSET Tags
  /\ Targets \in [Controllers \cup Streams -> SUBSET JobIDs]
  /\ JobIDs \subseteq Nat /\ Chunks \in Nat /\ MaxUtil \in Nat

VARIABLES
  nextID,    \* InMemoryPlugin.nextID
  jobs,      \* the cached jobs, by ID
  life,      \* where the goroutine of a job is
  submit,    \* where each SubmitJob call is, its job's tags, the ID it drew
  control,   \* the operation each ControlJob call performed, and its response
  about,     \* the job each ControlJob or stream call is about
  stream,    \* where each stream call is
  out,       \* what it has written; of samples in a row, one is recorded
  canceled,  \* the stream calls whose context is canceled
  server,    \* Serve: "up", "leaving" (context canceled), "closed" (response
             \* channel closed)
  panicked   \* a goroutine sent on the closed response channel

jobVars    == <<nextID, jobs, life, submit>>
streamVars == <<stream, out, canceled, panicked>>
vars == <<jobVars, control, about, streamVars, server>>

None == [op |-> "none", answer |-> "none"]

Init ==
  /\ nextID = 0
  /\ jobs = [j \in {} |-> 0] /\ life = [j \in {} |-> "asleep"]
  /\ submit = [c \in Submitters |-> [at |-> "called", id |-> 0, tags |-> {}]]
  /\ control = [c \in Controllers |-> None]
  /\ about = [c \in Controllers \cup Streams |-> 0]
  /\ stream = [s \in Streams |-> "idle"]
  /\ out = [s \in Streams |-> <<>>] /\ canceled = {}
  /\ server = "up" /\ panicked = FALSE

\* JobCache.Lookup and Update: the user sees the job.
Visible(user, j) == j \in DOMAIN jobs /\ user \in {"*", jobs[j].owner}

\* The response of GetJob, empty for JobNotFound, and that of GetJobs.
GetJob(user, j) == IF Visible(user, j) THEN <<jobs[j]>> ELSE <<>>
GetJobs(user, filter) == {j \in DOMAIN jobs : Visible(user, j) /\ Includes(filter, jobs[j])}

\* f with k mapped to v.
With(f, k, v) == [i \in DOMAIN f \cup {k} |-> IF i = k THEN v ELSE f[i]]

-----------------------------------------------------------------------------
(* SubmitJob and simulateJobLifecycle.                                     *)

\* Mutant of NewID: the counter is read and not incremented.
NewID_Stuck(c, tags) ==
  /\ server = "up" /\ submit[c].at = "called"
  /\ submit' = [submit EXCEPT ![c] = [at |-> "drawn", id |-> nextID + 1, tags |-> tags]]
  /\ UNCHANGED <<nextID, jobs, life, control, about, streamVars, server>>

\* atomic.AddInt32
NewID(c, tags) ==
  /\ server = "up" /\ submit[c].at = "called"
  /\ nextID' = nextID + 1
  /\ submit' = [submit EXCEPT ![c] = [at |-> "drawn", id |-> nextID + 1, tags |-> tags]]
  /\ UNCHANGED <<jobs, life, control, about, streamVars, server>>

\* AddOrUpdate; the store returns no errors. exit and reason are empty where
\* the code has nil and "".
AddJob(c) ==
  /\ submit[c].at = "drawn"
  /\ jobs' = With(jobs, submit[c].id,
       [status |-> "Pending", exit |-> <<>>, reason |-> <<>>,
        owner |-> UserOf[c], tags |-> submit[c].tags])
  /\ submit' = [submit EXCEPT ![c].at = "stored"]
  /\ UNCHANGED <<nextID, life, control, about, streamVars, server>>

\* WriteJob finds the job; then the goroutine of the job is started.
SubmitReturns(c) ==
  /\ submit[c].at = "stored"
  /\ life' = With(life, submit[c].id, "asleep")
  /\ submit' = [submit EXCEPT ![c].at = "returned"]
  /\ UNCHANGED <<nextID, jobs, control, about, streamVars, server>>


\* The first Update of simulateJobLifecycle, after 500 ms.
StartJob(j) ==
  /\ j \in DOMAIN life /\ life[j] = "asleep"
  /\ jobs' = IF jobs[j].status = "Pending" THEN [jobs EXCEPT ![j].status = "Running"] ELSE jobs
  /\ life' = [life EXCEPT ![j] = IF "long-running" \in jobs[j].tags THEN "done" ELSE "started"]
  /\ UNCHANGED <<nextID, submit, control, about, streamVars, server>>

\* Mutant of FinishJob: the status is not checked again after the sleep.
FinishJob_Unchecked(j) ==
  /\ j \in DOMAIN life /\ life[j] = "started"
  /\ jobs' = [jobs EXCEPT ![j].status = "Finished", ![j].exit = <<0>>]
  /\ life' = [life EXCEPT ![j] = "done"]
  /\ UNCHANGED <<nextID, submit, control, about, streamVars, server>>

\* The second Update, after another 4.5 s.
FinishJob(j) ==
  /\ j \in DOMAIN life /\ life[j] = "started"
  /\ jobs' = IF jobs[j].status = "Running"
             THEN [jobs EXCEPT ![j].status = "Finished", ![j].exit = <<0>>] ELSE jobs
  /\ life' = [life EXCEPT ![j] = "done"]
  /\ UNCHANGED <<nextID, submit, control, about, streamVars, server>>

-----------------------------------------------------------------------------
(* ControlJob.                                                             *)

\* Mutant of Perform: a canceled job is given an exit code.
Perform_CancelCode(c, op, job) ==
  CASE op = "Stop"   -> [job EXCEPT !.status = "Finished", !.exit = <<143>>]
    [] op = "Kill"   -> [job EXCEPT !.status = "Killed", !.exit = <<137>>, !.reason = <<c>>]
    [] op = "Cancel" -> [job EXCEPT !.status = "Canceled", !.exit = <<143>>]

\* The operation on a job of the required status.
Perform(c, op, job) ==
  CASE op = "Stop"   -> [job EXCEPT !.status = "Finished", !.exit = <<143>>]
    [] op = "Kill"   -> [job EXCEPT !.status = "Killed", !.exit = <<137>>, !.reason = <<c>>]
    [] op = "Cancel" -> [job EXCEPT !.status = "Canceled"]

\* The response of ControlJob, given the job it finds.
Verdict(c, j, op) ==
  IF ~Visible(UserOf[c], j) THEN "notFound"
  ELSE IF jobs[j].status # ValidForStatus(op) THEN "invalidState"
  ELSE IF op \in {"Suspend", "Resume"} THEN "notSupported"
  ELSE "success"

\* Mutant of ControlJob: the status is checked before the Update.
ControlJob_Unlocked(c, j, op) ==
  /\ server # "closed"
  /\ \/ /\ control[c] = None
        /\ LET v == Verdict(c, j, op) IN
             control' = [control EXCEPT ![c] =
               IF v = "success" THEN [op |-> op, answer |-> "checked"]
               ELSE [op |-> "none", answer |-> v]]
        /\ UNCHANGED jobs
     \/ /\ control[c] = [op |-> op, answer |-> "checked"]
        /\ jobs' = [jobs EXCEPT ![j] = Perform(c, op, @)]
        /\ control' = [control EXCEPT ![c].answer = "success"]
  /\ about' = [about EXCEPT ![c] = j]
  /\ UNCHANGED <<nextID, life, submit, streamVars, server>>

\* ControlJob: one Update, whose callback validates and performs the operation.
ControlJob(c, j, op) ==
  /\ server = "up" /\ control[c] = None
  /\ LET v == Verdict(c, j, op) IN
       /\ control' = [control EXCEPT ![c] =
            [op |-> IF v = "success" THEN op ELSE "none", answer |-> v]]
       /\ jobs' = IF v = "success" THEN [jobs EXCEPT ![j] = Perform(c, op, @)] ELSE jobs
  /\ about' = [about EXCEPT ![c] = j]
  /\ UNCHANGED <<nextID, life, submit, streamVars, server>>

-----------------------------------------------------------------------------
(* GetJobOutput and GetJobResourceUtil.                                    *)

\* The call writes ms, and goes on at place at. A send on the closed response
\* channel panics.
Emit(s, ms, at) ==
  /\ stream' = [stream EXCEPT ![s] = at]
  /\ panicked' = (server = "closed")
  /\ out' = IF server = "closed" THEN out ELSE [out EXCEPT ![s] = @ \o ms]
  /\ UNCHANGED <<jobVars, control, about, canceled, server>>

Call(s, j, at) ==
  /\ server = "up" /\ stream[s] = "idle"
  /\ about' = [about EXCEPT ![s] = j]
  /\ stream' = [stream EXCEPT ![s] = at]

\* GetJobOutput looks the job up, starts a goroutine and returns.
GetJobOutput(s, j) ==
  LET found == Visible(UserOf[s], j) IN
  /\ Call(s, j, IF found THEN "ticking" ELSE "done")
  /\ out' = IF found THEN out ELSE [out EXCEPT ![s] = <<"error">>]
  /\ UNCHANGED <<jobVars, control, canceled, server, panicked>>

\* case <-ticker.C
OutputTick(s) ==
  /\ stream[s] = "ticking" /\ Len(out[s]) < Chunks
  /\ Emit(s, <<"chunk">>, "ticking")

\* Mutant of OutputDone: the goroutine goes on after a cancellation.
OutputDone_NoReturn(s) ==
  /\ stream[s] = "ticking" /\ (Len(out[s]) = Chunks \/ s \in canceled)
  /\ Emit(s, <<"complete">>, IF Len(out[s]) >= Chunks THEN "done" ELSE "ticking")

\* The loop ends, or case <-ctx.Done(): the deferred Close.
OutputDone(s) ==
  /\ stream[s] = "ticking" /\ (Len(out[s]) = Chunks \/ s \in canceled)
  /\ Emit(s, <<"complete">>, "done")

GetJobResourceUtil(s, j) ==
  /\ Call(s, j, "polling")
  /\ UNCHANGED <<jobVars, control, out, canceled, server, panicked>>

\* The call writes a sample, and a completion if done.
Sample(s, done) ==
  LET new == (IF out[s] # <<>> /\ out[s][Len(out[s])] = "util" THEN <<>> ELSE <<"util">>)
               \o (IF done THEN <<"complete">> ELSE <<>>)
  IN  Emit(s, IF Len(out[s] \o new) <= MaxUtil THEN new ELSE <<>>, "waiting")

\* Mutant of Poll: Close is not called for a job that is done.
Poll_NoClose(s) ==
  /\ stream[s] \in {"polling", "waiting"}
  /\ IF Visible(UserOf[s], about[s]) THEN Sample(s, FALSE) ELSE Emit(s, <<"error">>, "done")

\* An iteration of the loop of GetJobResourceUtil, up to the select; the next
\* one follows case <-ticker.C.
Poll(s) ==
  /\ stream[s] \in {"polling", "waiting"}
  /\ IF Visible(UserOf[s], about[s])
     THEN Sample(s, TerminalStatus(jobs[about[s]].status))
     ELSE Emit(s, <<"error">>, "done")

\* case <-ctx.Done()
PollDone(s) ==
  /\ stream[s] = "waiting" /\ s \in canceled
  /\ stream' = [stream EXCEPT ![s] = "done"]
  /\ UNCHANGED <<jobVars, control, about, out, canceled, server, panicked>>

\* The Launcher cancels a stream.
CancelStream(s) ==
  /\ stream[s] \notin {"idle", "done"} /\ s \notin canceled
  /\ canceled' = canceled \cup {s}
  /\ UNCHANGED <<jobVars, control, about, stream, out, server, panicked>>

-----------------------------------------------------------------------------
(* main: the context is canceled; Serve waits for the methods it called    *)
(* (not for the goroutines they started) and closes the response channel.  *)

Shutdown ==
  /\ server = "up" /\ server' = "leaving"
  /\ canceled' = canceled \cup {s \in Streams : stream[s] \notin {"idle", "done"}}
  /\ UNCHANGED <<jobVars, control, about, stream, out, panicked>>

ServeReturns ==
  /\ server = "leaving" /\ server' = "closed"
  /\ \A c \in Submitters : submit[c].at \in {"called", "returned"}
  /\ \A s \in Utils : stream[s] \in {"idle", "done"}
  /\ UNCHANGED <<jobVars, control, about, streamVars>>

-----------------------------------------------------------------------------
SubmitStep(c) == (\E tags \in TagSets[c] : NewID(c, tags)) \/ AddJob(c) \/ SubmitReturns(c)
JobStep(j) == StartJob(j) \/ FinishJob(j)
OutputStep(s) == OutputTick(s) \/ OutputDone(s)
UtilStep(s) == Poll(s) \/ PollDone(s)

Next ==
  /\ ~panicked
  /\ \/ \E c \in Submitters : SubmitStep(c)
     \/ \E j \in DOMAIN life : JobStep(j)
     \/ \E c \in Controllers, op \in Operations : \E j \in Targets[c] : ControlJob(c, j, op)
     \/ \E s \in Outputs : (\E j \in Targets[s] : GetJobOutput(s, j)) \/ OutputStep(s)
     \/ \E s \in Utils : (\E j \in Targets[s] : GetJobResourceUtil(s, j)) \/ UtilStep(s)
     \/ \E s \in Streams : CancelStream(s)
     \/ Shutdown \/ ServeReturns

Spec == Init /\ [][Next]_vars

\* A goroutine that can run does run, a sleep and a ticker's interval end, and
\* a select with a ready case takes one. Nothing makes a client call, cancel or
\* shut down.
Fairness ==
  /\ \A c \in Submitters : WF_vars(~panicked /\ (AddJob(c) \/ SubmitReturns(c)))
  /\ \A j \in JobIDs : WF_vars(~panicked /\ JobStep(j))
  /\ \A s \in Outputs : WF_vars(~panicked /\ OutputStep(s))
  /\ \A s \in Utils : WF_vars(~panicked /\ UtilStep(s))

FairSpec == Spec /\ Fairness

-----------------------------------------------------------------------------
(* Safety.                                                                 *)

Job == [status : Statuses, exit : {<<>>, <<0>>, <<137>>, <<143>>},
        reason : {<<>>} \cup {<<c>> : c \in Controllers}, owner : Users, tags : SUBSET Tags]

TypeOK ==
  /\ nextID \in Nat
  /\ DOMAIN jobs \subseteq 1 .. nextID /\ \A j \in DOMAIN jobs : jobs[j] \in Job
  /\ DOMAIN life \subseteq DOMAIN jobs
  /\ \A j \in DOMAIN life : life[j] \in {"asleep", "started", "done"}
  /\ submit \in [Submitters -> [at : {"called", "drawn", "stored", "returned"}, id : Nat,
                                tags : SUBSET Tags]]
  /\ control \in [Controllers -> [op : Operations \cup {"none"}, answer :
       {"none", "notFound", "invalidState", "notSupported", "success"}]]
  /\ about \in [Controllers \cup Streams -> JobIDs \cup {0}]
  /\ stream \in [Streams -> {"idle", "ticking", "polling", "waiting", "done"}]
  /\ \A s \in Streams : Len(out[s]) <= IF s \in Outputs THEN Chunks + 1 ELSE MaxUtil
  /\ canceled \subseteq Streams /\ server \in {"up", "leaving", "closed"} /\ panicked \in BOOLEAN

\* A ControlJob call that reported success decided how the job ended, for good:
\* neither the job's goroutine, waking up from its sleep, nor another call
\* undoes it, and no second call on the job reports success.
ControlIsFinal ==
  \A c \in Controllers : control[c].answer = "success" =>
    /\ jobs[about[c]] = Perform(c, control[c].op, jobs[about[c]])
    /\ \A d \in Controllers : control[d].answer = "success" /\ about[d] = about[c] => d = c

\* The exit code tells how a job ended: there is one exactly when it Finished
\* or was Killed, 0 only if it ended by itself and is not long-running, another
\* only if some ControlJob call succeeded.
ExitCodeTells ==
  \A j \in DOMAIN jobs : LET job == jobs[j] IN
    /\ job.exit # <<>> <=> job.status \in {"Finished", "Killed"}
    /\ job.exit = <<0>> => "long-running" \notin job.tags /\ job.status = "Finished"
    /\ TerminalStatus(job.status) /\ job.exit # <<0>> =>
         \E c \in Controllers : control[c].answer = "success" /\ about[c] = j

\* Every SubmitJob call that returned has a job of its own in the cache, with
\* its user and its tags, however the calls overlap.
SubmissionsKept ==
  \A c \in Submitters : submit[c].at \in {"stored", "returned"} =>
    /\ submit[c].id \in DOMAIN jobs
    /\ jobs[submit[c].id].owner = UserOf[c] /\ jobs[submit[c].id].tags = submit[c].tags
    /\ \A d \in Submitters : submit[d].at # "called" /\ submit[d].id = submit[c].id => d = c

\* An output stream is all its lines, or fewer if it was canceled, and then
\* one completion with nothing after it; or a single error.
OutputWellFormed ==
  \A s \in Outputs : \A i \in DOMAIN out[s] :
    /\ out[s][i] \in {"complete", "error"} => i = Len(out[s])
    /\ out[s][i] = "complete" => i = Chunks + 1 \/ s \in canceled
    /\ out[s][i] = "error" => i = 1

\* The statuses of the jobs follow the documented life cycle: the plugin
\* implements JobLifecycle, whatever its goroutines and calls do.
Lifecycle == INSTANCE JobLifecycle WITH status <- [j \in DOMAIN jobs |-> jobs[j].status]

ImplementsLifecycle == Lifecycle!LifecycleSpec

-----------------------------------------------------------------------------
(* Liveness.                                                               *)


\* A stream of output that was opened is ended with a completion or an error,
\* unless the response channel was closed, and a resource utilization stream
\* reports the end of its job, unless it is canceled first.
StreamsReportEnd ==
  /\ \A s \in Outputs :
       stream[s] # "idle" ~>
         (out[s] # <<>> /\ out[s][Len(out[s])] \in {"complete", "error"}) \/ server = "closed"
  /\ \A s \in Utils :
       (stream[s] # "idle" /\ about[s] \in DOMAIN jobs
          /\ TerminalStatus(jobs[about[s]].status))
         ~> "complete" \in {out[s][i] : i \in DOMAIN out[s]} \/ stream[s] = "done"
              \/ panicked

-----------------------------------------------------------------------------
(* What the documentation says and the code does not do.                   *)

\* "Stopping when the job reaches a terminal status"
\* (examples/inmemory/main.go:204, of GetJobResourceUtil): nothing follows the
\* completion.
UtilStops ==
  \A s \in Utils : \A i \in DOMAIN out[s] : out[s][i] = "complete" => i = Len(out[s])

\* "Stream output in a background goroutine. This is safe because
\* StreamResponseWriter is thread-safe" (examples/inmemory/main.go:153).
OutputGoroutineSafe == ~panicked

=============================================================================
