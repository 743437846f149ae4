---------------------------- MODULE Conformance ----------------------------
(***************************************************************************)
(* The conformance suite (conformance/) run against the example plugin. A  *)
(* test is a script of steps; each step is the body of a helper or an      *)
(* assertion of the code. The plugin, a status stream of the job cache and *)
(* other clients of the same plugin run at the same time. Sleeps are left  *)
(* to interleaving: a timeout may elapse whenever a step waits.            *)
(***************************************************************************)
EXTENDS InMemoryPlugin

CONSTANTS
  Tests,       \* the tests that may be run
  User,        \* the user they are run as
  Guests,      \* calls made by other clients
  SlowJobs,    \* a job that is not long-running runs longer than a poll takes
  MayTimeOut,  \* whether timeouts elapse
  Bogus,       \* an ID the plugin never issues
  \* Profile
  StopStatus, StopExitCodes, KillStatus, KillExitCodes

ASSUME SuiteAssumption ==
  /\ Guests \subseteq Calls /\ Bogus \in JobIDs /\ User \in Users
  /\ {SlowJobs, MayTimeOut} \subseteq BOOLEAN
  /\ {StopStatus, KillStatus} \subseteq Statuses
  /\ StopExitCodes # {} /\ KillExitCodes # {}

VARIABLES
  test, pc,   \* the test that is run, and the step it is at
  result,     \* what it has reported: a subset of {"failed", "skipped", "late"};
              \* "late" if a timeout elapsed
  mine,       \* the IDs of the jobs it submitted
  seen,       \* the job that the last wait returned
  watch,      \* its status stream: place, updates written, whether one is
              \* buffered, whether the context is canceled
  before,     \* countBefore
  feed        \* updates that the cache has yet to hand to the stream

suiteVars == <<test, pc, result, mine, seen, before>>
allVars == <<vars, suiteVars, watch, feed>>

-----------------------------------------------------------------------------
(* The tests. onFail is what a failing step does: t.Fatalf, t.Errorf,      *)
(* t.Skipf or nothing.                                                     *)

Any == [tags |-> {}, statuses |-> {}, start |-> <<>>, end |-> <<>>]
WithTags(tags) == [Any EXCEPT !.tags = tags]
Ended == {s \in Statuses : TerminalStatus(s)}

Submit(tags)            == [do |-> "submit", tags |-> tags, onFail |-> "fatal"]
WaitFor(statuses, fail) == [do |-> "wait", statuses |-> statuses, onFail |-> fail]
Control(op, id, want, fail) ==
  [do |-> "control", op |-> op, id |-> id, want |-> want, onFail |-> fail]
Expect(status, codes)   == [do |-> "expect", status |-> status, codes |-> codes,
                            onFail |-> "error"]
Check(what)             == [do |-> "check", what |-> what, onFail |-> "error"]
Listed(filter, has, hasNot) ==
  [do |-> "list", filter |-> filter, has |-> has, hasNot |-> hasNot, onFail |-> "error"]
Do(what)                == [do |-> what, onFail |-> "error"]

Running == WaitFor({"Running"}, "fatal")
Long    == Submit({"long-running"})

RunStopJob ==
  <<Long, Running, Do("openStatus"), Control("Stop", 1, TRUE, "fatal"), WaitFor(Ended, "fatal"),
    Expect(StopStatus, StopExitCodes)>>

RunKillJob ==
  <<Long, Running, Control("Kill", 1, TRUE, "fatal"), WaitFor(Ended, "fatal"),
    Expect(KillStatus, KillExitCodes)>>

RunCancelJob ==
  <<Long, Control("Cancel", 1, TRUE, "skip"), WaitFor({"Canceled"}, "fatal"),
    Expect("Canceled", {})>>

RunSuspendResume ==
  <<Long, Running, Control("Suspend", 1, TRUE, "fatal"), WaitFor({"Suspended"}, "fatal"),
    Control("Resume", 1, TRUE, "fatal"), Running, Expect("Running", {}),
    Control("Stop", 1, TRUE, "ignore")>>

RunOutputStream == <<Submit({}), Do("openOutput"), Do("awaitOutput")>>

RunStatusStream == <<Submit({}), Do("openStatus"), Do("awaitStatus")>>

RunStreamCancellation ==
  <<Submit({}), Do("openStatus"), Do("mark"), Do("cancel"), Do("join"), Do("quiet")>>

RunFieldFiltering == <<Submit({}), Check("found")>>

RunControlInvalidState ==
  <<Submit({}), WaitFor(Ended, "fatal"), Control("Stop", 1, FALSE, "error")>>

testLaunchWorkflow ==
  <<Check("cluster"), Submit({"launch"}), WaitFor({"Running"}, "error"), Check("network"),
    Do("openOutput"), Do("awaitOutput")>>

testListWorkflow ==
  <<Submit({"t", "a"}), Submit({"t", "b"}), WaitFor(Ended, "ignore"),
    Listed([Any EXCEPT !.tags = {"t"}, !.statuses = Ended], {}, {}),
    Listed(WithTags({"a"}), {1}, {2})>>

testSubmitInvariants == <<Submit({"a", "b"}), Check("tags"), Submit({}), Check("distinct")>>

testGetJobInvariants == <<Submit({}), Check("found"), Check("bogus")>>

testGetJobsInvariants ==
  <<Submit({"a", "b"}), Submit({"a"}), Listed(WithTags({"a"}), {1, 2}, {}),
    Listed(WithTags({"a", "b"}), {1}, {}), Listed([Any EXCEPT !.statuses = {"Running"}], {}, {}),
    Listed(WithTags({"z"}), {}, {1, 2})>>

testClusterInfoInvariants == <<Check("cluster")>>

testLifecycleInvariants == <<Submit({}), WaitFor(Ended, "fatal"), Check("same")>>

testErrorInvariants == <<Check("bogus"), Control("Stop", 0, FALSE, "error")>>

\* Run, RunWorkflows and the scenarios by themselves; Helper is a plugin's own
\* test that calls WaitForStatus.
Scripts ==
  [Launch |-> testLaunchWorkflow, Stop |-> RunStopJob, Kill |-> RunKillJob,
   Cancel |-> RunCancelJob, List |-> testListWorkflow, SuspendResume |-> RunSuspendResume,
   OutputStream |-> RunOutputStream, StatusStream |-> RunStatusStream,
   StreamCancellation |-> RunStreamCancellation, FieldFiltering |-> RunFieldFiltering,
   ControlInvalidState |-> RunControlInvalidState, Submit |-> testSubmitInvariants,
   GetJob |-> testGetJobInvariants, GetJobs |-> testGetJobsInvariants,
   ClusterInfo |-> testClusterInfoInvariants, Lifecycle |-> testLifecycleInvariants,
   Errors |-> testErrorInvariants, Helper |-> <<Submit({}), WaitFor({"Finished"}, "fatal")>>]

-----------------------------------------------------------------------------
SuiteInit ==
  /\ Init
  /\ test \in Tests /\ pc = 1 /\ result = {} /\ mine = <<>> /\ seen = <<>> /\ before = 0
  /\ watch = [at |-> "idle", count |-> 0, buffered |-> FALSE, canceled |-> FALSE]
  /\ feed = 0

Step == Scripts[test][pc]
Over == pc > Len(Scripts[test])
At(do) == ~Over /\ Step.do = do

\* The step ends, well or not, having seen what it reports.
Report(ok, more) ==
  LET fail == IF ok THEN "ignore" ELSE Step.onFail IN
  /\ pc' = IF fail \in {"fatal", "skip"} THEN Len(Scripts[test]) + 1 ELSE pc + 1
  /\ result' = result \cup more \cup
       CASE fail \in {"fatal", "error"} -> {"failed"}
         [] fail = "skip"               -> {"skipped"}
         [] OTHER                       -> {}

Watches == {t \in DOMAIN Scripts : \E k \in DOMAIN Scripts[t] : Scripts[t][k].do = "openStatus"}

\* The updates that a step of the plugin commits go to the cache's service;
\* they are not followed where nobody watches.
Commits ==
  feed' = IF test \notin Watches THEN 0 ELSE feed + Cardinality({j \in DOMAIN jobs' :
    jobs'[j].owner = User /\ (j \in DOMAIN jobs => jobs'[j].status # jobs[j].status)})

ID(k) == IF k = 0 THEN Bogus ELSE mine[k]

\* SubmitJob: the call, and its return.
CallSubmit ==
  LET free == {c \in Submitters \ Guests : submit[c].at = "called"} IN
  /\ At("submit")
  /\ \A d \in Submitters \ Guests : submit[d].at \in {"called", "returned"}
  /\ free # {} /\ NewID(CHOOSE c \in free : TRUE, Step.tags)
  /\ UNCHANGED <<suiteVars, watch, feed>>

SubmitJob(c) ==
  /\ c \in Submitters \ Guests
  /\ SubmitReturns(c)
  /\ Report(submit[c].id \in DOMAIN jobs, {})
  /\ mine' = Append(mine, submit[c].id)
  /\ UNCHANGED <<test, seen, before, watch, feed>>

\* Mutants of PollJob: a wait takes the job in any status; a wait gives up as
\* soon as it sees the job in a status other than Pending.
PollJob_Any ==
  /\ At("wait")
  /\ LET got == GetJob(User, mine[1]) IN Report(got # <<>>, {}) /\ seen' = got
  /\ UNCHANGED <<vars, test, mine, before, watch, feed>>

PollJob_Hasty ==
  /\ At("wait")
  /\ LET got == GetJob(User, mine[1])
         ok == got # <<>> /\ got[1].status \in Step.statuses
     IN  /\ \/ ok
            \/ got = <<>> \/ got[1].status # "Pending"
         /\ Report(ok, {})
         /\ seen' = IF ok THEN got ELSE seen
  /\ UNCHANGED <<vars, test, mine, before, watch, feed>>

\* A poll of WaitForStatus, or of WaitForTerminalStatus, that ends the wait.
PollJob ==
  /\ At("wait")
  /\ LET got == GetJob(User, mine[1])
         ok == got # <<>> /\ got[1].status \in Step.statuses
     IN  /\ \/ ok
            \/ got = <<>>
            \/ TerminalStatus(got[1].status) /\ Step.statuses \cap Ended = {}
         /\ Report(ok, {})
         /\ seen' = IF ok THEN got ELSE seen
  /\ UNCHANGED <<vars, test, mine, before, watch, feed>>

\* ctx.Done() or the deadline of a loop.
Timeout ==
  /\ MayTimeOut
  /\ At("wait") \/ At("awaitOutput") \/ At("awaitStatus") \/ At("join")
  /\ Report(FALSE, {"late"})
  /\ UNCHANGED <<vars, test, mine, seen, before, watch, feed>>

\* ControlJob, and what the test makes of the response.
CallControl(c) ==
  /\ At("control") /\ c \in Controllers \ Guests
  /\ ControlJob(c, ID(Step.id), Step.op)
  /\ Report((Verdict(c, ID(Step.id), Step.op) = "success") = Step.want, {})
  /\ Commits
  /\ UNCHANGED <<test, mine, seen, before, watch>>

\* The assertions on what GetJob, GetJobs, GetJobNetwork and a wait returned.
Holds(step) ==
  CASE step.do = "expect" ->
         /\ seen[1].status = step.status
         /\ step.codes = {} \/ seen[1].exit \in {<<code>> : code \in step.codes}
    [] step.do = "list" ->
         LET found == GetJobs(User, step.filter) IN
         /\ \A k \in step.has : mine[k] \in found
         /\ \A k \in step.hasNot : mine[k] \notin found
         /\ \A j \in found : step.filter.tags \subseteq jobs[j].tags
         /\ Ended \subseteq step.filter.statuses => \A j \in found : TerminalStatus(jobs[j].status)
    [] OTHER ->
         CASE step.what = "cluster"              -> TRUE
           [] step.what \in {"found", "network"} -> GetJob(User, mine[1]) # <<>>
           [] step.what = "tags"     -> {"a", "b"} \subseteq jobs[mine[1]].tags
           [] step.what = "distinct" -> mine[1] # mine[2]
           [] step.what = "bogus"    -> GetJob(User, Bogus) = <<>>
           [] step.what = "same"     -> jobs[mine[1]].status = seen[1].status

Assert ==
  /\ At("expect") \/ At("list") \/ At("check")
  /\ Report(Holds(Step), {})
  /\ UNCHANGED <<vars, test, mine, seen, before, watch, feed>>

\* CollectOutputStream, and the loop that waits for output.
CollectOutputStream(s) ==
  /\ At("openOutput") /\ GetJobOutput(s, mine[1])
  /\ Report(TRUE, {})
  /\ UNCHANGED <<test, mine, seen, before, watch, feed>>

AwaitOutput ==
  /\ At("awaitOutput") /\ \E s \in Outputs \ Guests : \E i \in DOMAIN out[s] : out[s][i] = "chunk"
  /\ Report(TRUE, {})
  /\ UNCHANGED <<vars, test, mine, seen, before, watch, feed>>

-----------------------------------------------------------------------------
(* The status stream: what the test does with it, and the goroutine of     *)
(* CollectStatusStream in StreamJobStatuses.                               *)

CollectStatusStream ==
  /\ At("openStatus") /\ Report(TRUE, {})
  /\ watch' = [watch EXCEPT !.at = "called"]
  /\ UNCHANGED <<vars, test, mine, seen, before, feed>>

AwaitStatus ==
  /\ At("awaitStatus") /\ watch.count > 0
  /\ Report(TRUE, {})
  /\ UNCHANGED <<vars, test, mine, seen, before, watch, feed>>

\* countBefore := sw.StatusCount(); then cancel().
Mark ==
  /\ At("mark") /\ Report(TRUE, {}) /\ before' = watch.count
  /\ UNCHANGED <<vars, test, mine, seen, watch, feed>>

CancelWatch ==
  /\ At("cancel") /\ Report(TRUE, {})
  /\ watch' = [watch EXCEPT !.canceled = TRUE]
  /\ UNCHANGED <<vars, test, mine, seen, before, feed>>

\* <-done, and the check of countAfter.
Join ==
  /\ At("join") /\ watch.at = "done" /\ Report(TRUE, {})
  /\ UNCHANGED <<vars, test, mine, seen, before, watch, feed>>

Quiet ==
  /\ At("quiet") /\ Report(watch.count <= before + 1, {})
  /\ UNCHANGED <<vars, test, mine, seen, before, watch, feed>>

\* The deferred cancel of a test that is over; <-done follows.
Cleanup ==
  /\ Over
  /\ \/ /\ watch.at # "idle" /\ ~watch.canceled
        /\ watch' = [watch EXCEPT !.canceled = TRUE]
        /\ UNCHANGED vars
     \/ (\E s \in Outputs : CancelStream(s)) /\ UNCHANGED watch
  /\ UNCHANGED <<suiteVars, feed>>

\* Mutant of WatchStep: the stream does not watch its context.
WatchStep_Deaf ==
  /\ \/ watch.at = "called" /\ watch' = [watch EXCEPT !.at = "listed",
          !.count = @ + Cardinality(GetJobs(User, Any))]
     \/ watch.at = "listed" /\ watch' = [watch EXCEPT !.at = "open"]
     \/ watch.at = "open" /\ watch.buffered
          /\ watch' = [watch EXCEPT !.at = "writing", !.buffered = FALSE]
     \/ watch.at = "writing" /\ watch' = [watch EXCEPT !.at = "open", !.count = @ + 1]
  /\ UNCHANGED <<vars, suiteVars, feed>>

\* The jobs there are, the subscription, an update, the end.
WatchStep ==
  /\ \/ watch.at = "called" /\ watch' = [watch EXCEPT !.at = "listed",
          !.count = @ + Cardinality(GetJobs(User, Any))]
     \/ watch.at = "listed" /\ watch' = [watch EXCEPT !.at = "open"]
     \/ watch.at = "open" /\ watch.buffered
          /\ watch' = [watch EXCEPT !.at = "writing", !.buffered = FALSE]
     \/ watch.at = "writing" /\ watch' = [watch EXCEPT !.at = "open", !.count = @ + 1]
     \/ watch.at = "open" /\ watch.canceled /\ watch' = [watch EXCEPT !.at = "done"]
  /\ UNCHANGED <<vars, suiteVars, feed>>

\* The cache's service: an update goes to a subscriber that is not canceled and
\* has room.
ProcessUpdate ==
  /\ feed > 0 /\ feed' = feed - 1
  /\ watch' = IF watch.at \in {"open", "writing"} /\ ~watch.canceled
              THEN [watch EXCEPT !.buffered = TRUE] ELSE watch
  /\ UNCHANGED <<vars, suiteVars>>

-----------------------------------------------------------------------------
(* The plugin's own steps, and those of other clients: they submit a job,  *)
(* or end one of the test's.                                               *)

\* A job is polled before it ends where SlowJobs says so.
Awaited == \E k \in pc .. Len(Scripts[test]) :
  Scripts[test][k].do = "wait" /\ Scripts[test][k].statuses = {"Running"}

PluginStep ==
  /\ \/ \E c \in Submitters : AddJob(c)
     \/ \E j \in DOMAIN life : StartJob(j) \/ (~(SlowJobs /\ Awaited) /\ FinishJob(j))
     \/ \E s \in Outputs : OutputStep(s)
  /\ Commits
  /\ UNCHANGED <<suiteVars, watch>>

GuestStep ==
  /\ ~Over
  /\ \/ \E c \in Submitters \cap Guests : SubmitReturns(c) \/ \E tags \in TagSets[c] : NewID(c, tags)
     \/ \E c \in Controllers \cap Guests, op \in Operations, k \in DOMAIN mine :
          Verdict(c, mine[k], op) = "success" /\ ControlJob(c, mine[k], op)
  /\ Commits
  /\ UNCHANGED <<suiteVars, watch>>

SuiteStep ==
  \/ CallSubmit \/ \E c \in Submitters : SubmitJob(c)
  \/ \E c \in Controllers : CallControl(c)
  \/ \E s \in Outputs : CollectOutputStream(s)
  \/ PollJob \/ Assert \/ AwaitOutput \/ CollectStatusStream \/ AwaitStatus
  \/ Mark \/ CancelWatch \/ Join \/ Quiet \/ Cleanup

SuiteNext == SuiteStep \/ Timeout \/ WatchStep \/ ProcessUpdate \/ PluginStep \/ GuestStep

\* The goroutines run, and timeouts elapse; other clients do as they like.
SuiteSpec ==
  /\ SuiteInit /\ [][SuiteNext]_allVars
  /\ WF_allVars(SuiteStep) /\ WF_allVars(Timeout) /\ WF_allVars(WatchStep)
  /\ WF_allVars(ProcessUpdate) /\ WF_allVars(PluginStep)

-----------------------------------------------------------------------------
(* Safety.                                                                 *)

SuiteTypeOK ==
  /\ TypeOK
  /\ test \in Tests /\ pc \in 1 .. Len(Scripts[test]) + 1
  /\ result \subseteq {"failed", "skipped", "late"}
  /\ mine \in Seq(JobIDs) /\ Len(mine) <= Cardinality(Submitters)
  /\ Len(seen) <= 1 /\ (seen # <<>> => seen[1] \in Job)
  /\ watch.at \in {"idle", "called", "listed", "open", "writing", "done"}
  /\ watch.count \in Nat /\ before \in Nat /\ feed \in Nat

\* The suite accepts the example plugin, in every schedule: a test fails only
\* if a timeout elapsed, another client ended a job of the test, or, in
\* StreamCancellation, more updates were in flight than it allows for.
NoFalseAlarm ==
  "failed" \in result =>
    \/ "late" \in result
    \/ test = "StreamCancellation" /\ watch.count > before + 1
    \/ \E c \in Controllers \cap Guests, k \in DOMAIN mine :
         control[c].answer = "success" /\ about[c] = mine[k]

\* A test of an operation that passes has seen the operation work: the job
\* has ended, for good, with the status and the exit code of the profile.
PassIsEarned ==
  Over /\ result = {} =>
    LET ends(status, codes) ==
          jobs[mine[1]].status = status /\ jobs[mine[1]].exit \in {<<code>> : code \in codes}
    IN  /\ test = "Stop" => ends(StopStatus, StopExitCodes)
        /\ test = "Kill" => ends(KillStatus, KillExitCodes)
        /\ test = "Cancel" => jobs[mine[1]].status = "Canceled"
        /\ test \in {"Lifecycle", "ControlInvalidState"} => TerminalStatus(jobs[mine[1]].status)

-----------------------------------------------------------------------------
(* Liveness.                                                               *)

\* Every test ends, its status stream included, whatever other clients do.
TestsEnd == <>(Over /\ watch.at \in {"idle", "done"})

-----------------------------------------------------------------------------
(* What the documentation says and the code does not do.                   *)

\* "or an error if ... the job enters a terminal status that is not the
\* expected one" (conformance/helpers.go:107, of WaitForStatus): without the
\* help of a timeout.
WaitNoticesEnd ==
  (At("wait") /\ TerminalStatus(jobs[mine[1]].status) /\ jobs[mine[1]].status \notin Step.statuses)
    ~> ~At("wait")

\* "Allow at most one in-flight update that was already being written"
\* (conformance/scenarios.go:576): no more than one is written after the
\* cancellation.
OneInFlight == At("quiet") => watch.count <= before + 1

=============================================================================
