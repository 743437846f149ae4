-------------------------- MODULE ConformanceProofs --------------------------
(***************************************************************************)
(* Proofs about Conformance, for any profile, any clients beside the suite *)
(* and any bounds: the tests that say something of an operation.           *)
(***************************************************************************)
EXTENDS Conformance, InMemoryPluginProofs

\* The tests of operations, the length of their scripts, the place of the wait
\* that their verdict is about, and the statuses that it takes.
Earning == {"Stop", "Kill", "Cancel", "Lifecycle", "ControlInvalidState"}
Length(t) == IF t = "Stop" THEN 6 ELSE IF t = "Kill" THEN 5 ELSE IF t = "Cancel" THEN 4 ELSE 3
WaitAt(t) == IF t = "Stop" THEN 5 ELSE IF t = "Kill" THEN 4 ELSE IF t = "Cancel" THEN 3 ELSE 2
Wanted(t) == IF t = "Cancel" THEN {"Canceled"} ELSE Ended

\* What the proof needs of step k of the script of t: the first submits, each
\* failure is reported, and after that wait nothing but assertions and calls.
StepOK(t, k, step) ==
  /\ step.onFail \in {"fatal", "error", "skip"}
  /\ k = 1 => step.do = "submit" /\ step.tags \in SUBSET Tags
  /\ k # 1 => step.do \in {"wait", "openStatus", "control", "expect", "check"}
  /\ step.do = "control" => step.id = 1 /\ step.op \in Operations
  /\ k = WaitAt(t) => step.do = "wait" /\ step.statuses = Wanted(t)
  /\ k > WaitAt(t) => step.do # "wait"
  /\ t = "Stop" /\ k = 6 => step.do = "expect" /\ step.status = StopStatus /\ step.codes = StopExitCodes
  /\ t = "Kill" /\ k = 5 => step.do = "expect" /\ step.status = KillStatus /\ step.codes = KillExitCodes

\* The steps that the scripts are made of.
LEMMA SubmitOK ==
  ASSUME NEW t \in Earning, NEW tags \in SUBSET Tags
  PROVE  StepOK(t, 1, Submit(tags))
<1>1. Submit(tags).do = "submit" /\ Submit(tags).onFail = "fatal" /\ Submit(tags).tags = tags
  BY DEF Submit
<1>2. 1 # WaitAt(t) /\ ~(1 > WaitAt(t))
  BY DEF WaitAt
<1> QED
  BY <1>1, <1>2 DEF StepOK

LEMMA WaitOK ==
  ASSUME NEW t \in Earning, NEW k \in 2 .. WaitAt(t), NEW ss, k = WaitAt(t) => ss = Wanted(t)
  PROVE  StepOK(t, k, WaitFor(ss, "fatal"))
<1> DEFINE w == WaitFor(ss, "fatal")
<1>1. w.do = "wait" /\ w.onFail = "fatal" /\ w.statuses = ss
  BY DEF WaitFor
<1>2. k # 1 /\ ~(k > WaitAt(t)) /\ ~(t = "Stop" /\ k = 6) /\ ~(t = "Kill" /\ k = 5)
  BY DEF WaitAt
<1> HIDE DEF w
<1>3. StepOK(t, k, w)
  BY <1>1, <1>2 DEF StepOK
<1> QED
  BY <1>3 DEF w

\* A step that is no wait, and not the last one of Stop or Kill.
LEMMA OtherOK ==
  ASSUME NEW t \in Earning, NEW k \in 2 .. Length(t), k # WaitAt(t), t \in {"Stop", "Kill"} => k # Length(t),
         NEW step, step.do \in {"openStatus", "control", "expect", "check"}, step.onFail \in {"fatal", "error", "skip"},
         step.do = "control" => step.id = 1 /\ step.op \in Operations
  PROVE  StepOK(t, k, step)
<1>1. k # 1 /\ ~(t = "Stop" /\ k = 6) /\ ~(t = "Kill" /\ k = 5)
  BY DEF Length
<1> QED
  BY <1>1 DEF StepOK

LEMMA ScriptFacts ==
  ASSUME NEW t \in Earning
  PROVE  /\ Len(Scripts[t]) = Length(t)
         /\ \A k \in 1 .. Length(t) : StepOK(t, k, Scripts[t][k])
<1>1. {} \in SUBSET Tags /\ {"long-running"} \in SUBSET Tags
  BY DEF Tags
<1>2. StepOK(t, 1, Submit({})) /\ StepOK(t, 1, Long)
  BY <1>1, SubmitOK DEF Long
<1>3. Do("openStatus").do = "openStatus" /\ Do("openStatus").onFail = "error"
  BY DEF Do
<1>4. Check("same").do = "check" /\ Check("same").onFail = "error"
  BY DEF Check
<1>5. \A status, codes : /\ Expect(status, codes).do = "expect" /\ Expect(status, codes).onFail = "error"
                         /\ Expect(status, codes).status = status /\ Expect(status, codes).codes = codes
  BY DEF Expect
<1>6. CASE t = "Stop"
  <2>1. Scripts[t] = RunStopJob /\ Length(t) = 6 /\ WaitAt(t) = 5 /\ Wanted(t) = Ended
    BY <1>6 DEF Scripts, Length, WaitAt, Wanted
  <2>2. PICK b, c, d, e, f : /\ RunStopJob = <<Long, b, c, d, e, f>> /\ b = WaitFor({"Running"}, "fatal")
                             /\ c = Do("openStatus") /\ d = Control("Stop", 1, TRUE, "fatal")
                             /\ e = WaitFor(Ended, "fatal") /\ f = Expect(StopStatus, StopExitCodes)
    BY DEF RunStopJob, Running
  <2>3. StepOK(t, 2, b)
    BY <2>1, <2>2, WaitOK
  <2>4. StepOK(t, 3, c)
    BY <1>3, <2>1, <2>2, OtherOK
  <2>5. StepOK(t, 4, d)
    <3>1. d.do = "control" /\ d.onFail = "fatal" /\ d.id = 1 /\ d.op = "Stop"
      BY <2>2 DEF Control
    <3> QED
      BY <2>1, <3>1, OtherOK DEF Operations
  <2>6. StepOK(t, 5, e)
    BY <2>1, <2>2, WaitOK
  <2>7. StepOK(t, 6, f)
    BY <1>5, <1>6, <2>1, <2>2 DEF StepOK
  <2>8. \A k \in 1 .. 6 : k \in {1, 2, 3, 4, 5, 6}
    OBVIOUS
  <2>9. Len(<<Long, b, c, d, e, f>>) = 6 /\ \A k \in 1 .. 6 : StepOK(t, k, <<Long, b, c, d, e, f>>[k])
    BY <1>2, <2>3, <2>4, <2>5, <2>6, <2>7, <2>8
  <2> QED
    BY <2>1, <2>2, <2>9
<1>7. CASE t = "Kill"
  <2>1. Scripts[t] = RunKillJob /\ Length(t) = 5 /\ WaitAt(t) = 4 /\ Wanted(t) = Ended
    BY <1>7 DEF Scripts, Length, WaitAt, Wanted
  <2>2. PICK b, c, d, e : /\ RunKillJob = <<Long, b, c, d, e>> /\ b = WaitFor({"Running"}, "fatal")
                          /\ c = Control("Kill", 1, TRUE, "fatal")
                          /\ d = WaitFor(Ended, "fatal") /\ e = Expect(KillStatus, KillExitCodes)
    BY DEF RunKillJob, Running
  <2>3. StepOK(t, 2, b)
    BY <2>1, <2>2, WaitOK
  <2>4. StepOK(t, 3, c)
    <3>1. c.do = "control" /\ c.onFail = "fatal" /\ c.id = 1 /\ c.op = "Kill"
      BY <2>2 DEF Control
    <3> QED
      BY <2>1, <3>1, OtherOK DEF Operations
  <2>5. StepOK(t, 4, d)
    BY <2>1, <2>2, WaitOK
  <2>6. StepOK(t, 5, e)
    BY <1>5, <1>7, <2>1, <2>2 DEF StepOK
  <2>7. \A k \in 1 .. 5 : k \in {1, 2, 3, 4, 5}
    OBVIOUS
  <2>8. Len(<<Long, b, c, d, e>>) = 5 /\ \A k \in 1 .. 5 : StepOK(t, k, <<Long, b, c, d, e>>[k])
    BY <1>2, <2>3, <2>4, <2>5, <2>6, <2>7
  <2> QED
    BY <2>1, <2>2, <2>8
<1>8. CASE t = "Cancel"
  <2>1. Scripts[t] = RunCancelJob /\ Length(t) = 4 /\ WaitAt(t) = 3 /\ Wanted(t) = {"Canceled"}
    BY <1>8 DEF Scripts, Length, WaitAt, Wanted
  <2>2. PICK b, c, d : /\ RunCancelJob = <<Long, b, c, d>> /\ b = Control("Cancel", 1, TRUE, "skip")
                       /\ c = WaitFor({"Canceled"}, "fatal") /\ d = Expect("Canceled", {})
    BY DEF RunCancelJob
  <2>3. StepOK(t, 2, b)
    <3>1. b.do = "control" /\ b.onFail = "skip" /\ b.id = 1 /\ b.op = "Cancel"
      BY <2>2 DEF Control
    <3> QED
      BY <1>8, <2>1, <3>1, OtherOK DEF Operations
  <2>4. StepOK(t, 3, c)
    BY <2>1, <2>2, WaitOK
  <2>5. StepOK(t, 4, d)
    BY <1>5, <1>8, <2>1, <2>2, OtherOK
  <2>6. \A k \in 1 .. 4 : k \in {1, 2, 3, 4}
    OBVIOUS
  <2>7. Len(<<Long, b, c, d>>) = 4 /\ \A k \in 1 .. 4 : StepOK(t, k, <<Long, b, c, d>>[k])
    BY <1>2, <2>3, <2>4, <2>5, <2>6
  <2> QED
    BY <2>1, <2>2, <2>7
<1>9. CASE t \in {"Lifecycle", "ControlInvalidState"}
  <2>1. /\ Length(t) = 3 /\ WaitAt(t) = 2 /\ Wanted(t) = Ended
        /\ Scripts[t] = IF t = "Lifecycle" THEN testLifecycleInvariants ELSE RunControlInvalidState
    BY <1>9 DEF Scripts, Length, WaitAt, Wanted
  <2>2. PICK a, b, c : /\ Scripts[t] = <<a, b, c>> /\ a = Submit({}) /\ b = WaitFor(Ended, "fatal")
                       /\ c = Check("same") \/ c = Control("Stop", 1, FALSE, "error")
    BY <2>1 DEF testLifecycleInvariants, RunControlInvalidState
  <2>3. StepOK(t, 2, b)
    BY <2>1, <2>2, WaitOK
  <2>4. StepOK(t, 3, c)
    <3>1. CASE c = Check("same")
      BY <1>4, <1>9, <2>1, <3>1, OtherOK
    <3>2. CASE c = Control("Stop", 1, FALSE, "error")
      <4>1. c.do = "control" /\ c.onFail = "error" /\ c.id = 1 /\ c.op = "Stop"
        BY <3>2 DEF Control
      <4> QED
        BY <1>9, <2>1, <4>1, OtherOK DEF Operations
    <3> QED
      BY <2>2, <3>1, <3>2
  <2>5. \A k \in 1 .. 3 : k \in {1, 2, 3}
    OBVIOUS
  <2>6. Len(<<a, b, c>>) = 3 /\ \A k \in 1 .. 3 : StepOK(t, k, <<a, b, c>>[k])
    BY <1>2, <2>2, <2>3, <2>4, <2>5
  <2> QED
    BY <2>1, <2>2, <2>6
<1> QED
  BY <1>6, <1>7, <1>8, <1>9 DEF Earning

\* The step that a test is at.
LEMMA AtFacts ==
  ASSUME test \in Earning, pc \in Nat \ {0}, NEW do, At(do)
  PROVE  pc \in 1 .. Length(test) /\ Len(Scripts[test]) = Length(test) /\ StepOK(test, pc, Step) /\ Step.do = do
<1>1. Length(test) \in Nat
  BY DEF Length
<1>2. pc \in 1 .. Length(test)
  BY <1>1, ScriptFacts DEF At, Over
<1> QED
  BY <1>2, ScriptFacts DEF At, Step

\* No job is forgotten, and one that has ended stays as it is.
Kept ==
  \A j \in DOMAIN jobs : j \in DOMAIN jobs' /\ (TerminalStatus(jobs[j].status) => jobs'[j] = jobs[j])

LEMMA JobsKept == ASSUME jobs' = jobs PROVE Kept
  BY DEF Kept

LEMMA AddKept ==
  ASSUME PluginInv, NEW c \in Submitters, AddJob(c)
  PROVE  Kept
<1> DEFINE id == submit[c].id
<1>1. id \notin DOMAIN jobs
  BY DEF PluginInv, Drawn, AddJob
<1>2. PICK v : jobs' = With(jobs, id, v)
  BY DEF AddJob
<1> QED
  BY <1>1, <1>2 DEF Kept, With

\* One job changes, and it had not ended.
LEMMA MoveKept ==
  ASSUME JobTypes, NEW j, ~TerminalStatus(jobs[j].status), NEW new, jobs' = [jobs EXCEPT ![j] = new]
  PROVE  Kept
  BY DEF JobTypes, Kept

LEMMA JobStepKept ==
  ASSUME PluginInv, NEW j \in DOMAIN life, StartJob(j) \/ FinishJob(j)
  PROVE  Kept
<1>0. JobTypes
  BY DEF PluginInv
<1>1. CASE jobs' = jobs
  BY <1>1, JobsKept
<1>2. CASE jobs' # jobs /\ StartJob(j)
  <2>1. jobs[j].status = "Pending" /\ jobs' = [jobs EXCEPT ![j].status = "Running"]
    BY <1>2 DEF StartJob
  <2>2. PICK new : jobs' = [jobs EXCEPT ![j] = new]
    BY <2>1
  <2> QED
    BY <1>0, <2>1, <2>2, MoveKept DEF TerminalStatus
<1>3. CASE jobs' # jobs /\ FinishJob(j)
  <2>1. jobs[j].status = "Running" /\ jobs' = [jobs EXCEPT ![j].status = "Finished", ![j].exit = <<0>>]
    BY <1>3 DEF FinishJob
  <2>2. PICK new : jobs' = [jobs EXCEPT ![j] = new]
    <3> DEFINE zero == <<0>>
    <3> HIDE DEF zero
    <3>1. jobs' = [jobs EXCEPT ![j].status = "Finished", ![j].exit = zero]
      BY <2>1 DEF zero
    <3>2. j \in DOMAIN jobs /\ jobs \in [DOMAIN jobs -> Job]
      BY <1>0 DEF JobTypes
    <3>3. jobs' = [jobs EXCEPT ![j] = [[@ EXCEPT !.status = "Finished"] EXCEPT !.exit = zero]]
      BY <3>1, <3>2
    <3> QED
      BY <3>3
  <2> QED
    BY <1>0, <2>1, <2>2, MoveKept DEF TerminalStatus
<1> QED
  BY <1>1, <1>2, <1>3

LEMMA ControlKept ==
  ASSUME PluginInv, NEW c \in Controllers, NEW op \in Operations, NEW j, ControlJob(c, j, op)
  PROVE  Kept
<1>0. JobTypes
  BY DEF PluginInv
<1>1. CASE jobs' = jobs
  BY <1>1, JobsKept
<1>2. CASE jobs' # jobs
  <2>1. Verdict(c, j, op) = "success" /\ jobs' = [jobs EXCEPT ![j] = Perform(c, op, @)]
    BY <1>2 DEF ControlJob
  <2>2. jobs[j].status = ValidForStatus(op)
    BY <2>1 DEF Verdict
  <2>3. ~TerminalStatus(jobs[j].status)
    BY <2>2 DEF ValidForStatus, TerminalStatus, Operations
  <2>4. PICK new : jobs' = [jobs EXCEPT ![j] = new]
    BY <2>1
  <2> QED
    BY <1>0, <2>3, <2>4, MoveKept
<1> QED
  BY <1>1, <1>2

LEMMA ControlKeeps ==
  ASSUME PluginInv, NEW c \in Controllers, NEW op \in Operations, NEW j \in Nat, ControlJob(c, j, op)
  PROVE  PluginInv' /\ Kept
  BY RefusedStep, PerformedStep, ControlKept

LEMMA ElsewhereKeeps ==
  ASSUME PluginInv, Elsewhere
  PROVE  PluginInv' /\ Kept
  BY ElsewhereStep, JobsKept DEF Elsewhere, jobVars

LEMMA UnchangedKeeps ==
  ASSUME PluginInv, UNCHANGED vars
  PROVE  PluginInv' /\ Kept
<1>1. Elsewhere
  BY DEF Elsewhere, vars, jobVars, PluginInv, JobTypes
<1> QED
  BY <1>1, ElsewhereKeeps

\* A test and the jobs that it submitted.
Placed == mine \in Seq(Nat) /\ pc \in Nat \ {0} /\ (pc # 1 => mine # <<>>)

\* Whatever the suite does and whoever else takes a step.
LEMMA PluginPart ==
  ASSUME PluginInv, Placed, test \in Earning, [SuiteNext]_allVars
  PROVE  PluginInv' /\ Kept
<1>0. \A do : At(do) => StepOK(test, pc, Step) /\ Step.do = do
  BY AtFacts DEF Placed
<1>1. CASE UNCHANGED vars
  BY <1>1, UnchangedKeeps
<1>2. CASE CallSubmit
  <2>1. PICK c \in Submitters : NewID(c, Step.tags)
    BY <1>2 DEF CallSubmit
  <2>2. Step.tags \in SUBSET Tags
    BY <1>0, <1>2 DEF CallSubmit, StepOK
  <2>3. jobs' = jobs
    BY <2>1 DEF NewID
  <2> QED
    BY <2>1, <2>2, <2>3, NewIDStep, JobsKept
<1>3. ASSUME NEW c \in Submitters, SubmitReturns(c)
      PROVE  PluginInv' /\ Kept
  <2>1. jobs' = jobs
    BY <1>3 DEF SubmitReturns
  <2> QED
    BY <1>3, <2>1, SubmitReturnsStep, JobsKept
<1>4. CASE \E c \in Controllers : CallControl(c)
  <2>1. PICK c \in Controllers : CallControl(c)
    BY <1>4
  <2>2. StepOK(test, pc, Step) /\ Step.do = "control"
    BY <1>0, <2>1 DEF CallControl
  <2>3. pc # 1 /\ Step.id = 1 /\ Step.op \in Operations
    BY <2>2 DEF StepOK
  <2>4. ID(Step.id) \in Nat
    BY <2>3 DEF ID, Placed
  <2> QED
    BY <2>1, <2>3, <2>4, ControlKeeps DEF CallControl
<1>5. CASE \E s \in Outputs : CollectOutputStream(s)
  BY <1>0, <1>5 DEF CollectOutputStream, StepOK
<1>6. ASSUME NEW s \in Streams, CancelStream(s) \/ OutputStep(s)
      PROVE  PluginInv' /\ Kept
  <2>1. UNCHANGED <<jobVars, control, about>>
    BY <1>6 DEF CancelStream, OutputStep, OutputTick, OutputDone, Emit
  <2>2. Elsewhere
    BY <2>1 DEF Elsewhere, PluginInv, JobTypes
  <2> QED
    BY <2>2, ElsewhereKeeps
<1>7. CASE PluginStep
  <2>1. CASE \E c \in Submitters : AddJob(c)
    BY <2>1, AddJobStep, AddKept
  <2>2. CASE \E j \in DOMAIN life : StartJob(j) \/ FinishJob(j)
    BY <2>2, StartJobStep, FinishJobStep, JobStepKept
  <2>3. CASE \E s \in Outputs : OutputStep(s)
    BY <1>6, <2>3 DEF Streams
  <2> QED
    BY <1>7, <2>1, <2>2, <2>3 DEF PluginStep
<1>8. CASE GuestStep
  <2>1. CASE \E c \in Submitters : \E tags \in TagSets[c] : NewID(c, tags)
    <3>1. PICK c \in Submitters, tags \in SUBSET Tags : NewID(c, tags)
      BY <2>1, PluginAssumption
    <3>2. jobs' = jobs
      BY <3>1 DEF NewID
    <3> QED
      BY <3>1, <3>2, NewIDStep, JobsKept
  <2>2. CASE \E c \in Controllers, op \in Operations, k \in DOMAIN mine : ControlJob(c, mine[k], op)
    <3>1. PICK c \in Controllers, op \in Operations, k \in DOMAIN mine : ControlJob(c, mine[k], op)
      BY <2>2
    <3>2. mine[k] \in Nat
      BY DEF Placed
    <3> QED
      BY <3>1, <3>2, ControlKeeps
  <2> QED
    BY <1>3, <1>8, <2>1, <2>2 DEF GuestStep
<1>9. CASE Cleanup
  BY <1>1, <1>6, <1>9 DEF Cleanup, Streams
<1>10. CASE \E c \in Submitters : SubmitJob(c)
  BY <1>3, <1>10 DEF SubmitJob
<1>11. CASE Timeout \/ WatchStep \/ ProcessUpdate \/ UNCHANGED allVars
  <2>1. UNCHANGED vars
    BY <1>11 DEF Timeout, WatchStep, ProcessUpdate, allVars
  <2> QED
    BY <1>1, <2>1
<1>12. CASE \/ PollJob \/ Assert \/ AwaitOutput \/ CollectStatusStream \/ AwaitStatus
            \/ Mark \/ CancelWatch \/ Join \/ Quiet
  <2>1. UNCHANGED vars
    BY <1>12 DEF PollJob, Assert, AwaitOutput, CollectStatusStream, AwaitStatus, Mark, CancelWatch, Join, Quiet
  <2> QED
    BY <1>1, <2>1
<1> QED
  BY <1>2, <1>4, <1>5, <1>7, <1>8, <1>9, <1>10, <1>11, <1>12 DEF SuiteNext, SuiteStep

\* A submission of the test is under way.
Under(c) == c \in Submitters \ Guests /\ submit[c].at \in {"drawn", "stored"}

\* A test submits one job, first, and knows it from then on.
Submitted ==
  /\ Placed
  /\ \A c, d \in Submitters : Under(c) /\ Under(d) => pc = 1 /\ c = d
  /\ IF pc = 1 THEN mine = <<>> /\ seen = <<>> ELSE mine[1] \in DOMAIN jobs

\* A job that was seen to have ended is still as it was seen; and what a test
\* that has reported nothing saw.
Waited ==
  /\ seen # <<>> => (TerminalStatus(seen[1].status) => jobs[mine[1]] = seen[1])
  /\ result = {} /\ pc > WaitAt(test) => seen # <<>> /\ seen[1].status \in Wanted(test)
  /\ result = {} /\ pc > Length(test) =>
       /\ test = "Stop" => seen[1].status = StopStatus /\ seen[1].exit \in {<<code>> : code \in StopExitCodes}
       /\ test = "Kill" => seen[1].status = KillStatus /\ seen[1].exit \in {<<code>> : code \in KillExitCodes}

\* A step of the test fails as onFail says, or does not.
Reports(fail, more) ==
  /\ pc' = IF fail \in {"fatal", "skip"} THEN Len(Scripts[test]) + 1 ELSE pc + 1
  /\ result' = result \cup more \cup
       CASE fail \in {"fatal", "error"} -> {"failed"}
         [] fail = "skip"               -> {"skipped"}
         [] OTHER                       -> {}

LEMMA ReportFacts ==
  ASSUME test \in Earning, pc \in Nat \ {0}, NEW do, At(do), NEW fail \in {"ignore", Step.onFail}, NEW more,
         Reports(fail, more)
  PROVE  /\ pc' \in Nat /\ pc' > pc
         /\ result' = {} => fail = "ignore" /\ result = {} /\ pc' = pc + 1
<1>1. pc \in 1 .. Length(test) /\ Len(Scripts[test]) = Length(test) /\ StepOK(test, pc, Step)
  BY AtFacts
<1>2. Length(test) \in Nat
  BY DEF Length
<1>3. fail \in {"ignore", "fatal", "error", "skip"}
  BY <1>1 DEF StepOK
<1>4. pc' \in Nat /\ pc' > pc
  BY <1>1, <1>2 DEF Reports
<1>5. ASSUME result' = {}
      PROVE  fail = "ignore" /\ result = {} /\ pc' = pc + 1
  <2>1. fail = "ignore"
    BY <1>3, <1>5 DEF Reports
  <2> QED
    BY <1>5, <2>1 DEF Reports
<1> QED
  BY <1>4, <1>5

\* A step that is none of the test's own.
Aside == UNCHANGED <<test, pc, result, mine, seen>> /\ \A c \in Submitters : Under(c)' => Under(c)

LEMMA AsideKeeps ==
  ASSUME Submitted, Waited, Kept, Aside
  PROVE  Submitted' /\ Waited'
<1>1. Submitted'
  BY DEF Submitted, Placed, Aside, Kept
<1>2. Waited'
  <2>1. ASSUME seen # <<>>, TerminalStatus(seen[1].status)
        PROVE  jobs'[mine[1]] = seen[1]
    BY <2>1 DEF Submitted, Waited, Kept
  <2> QED
    BY <2>1 DEF Waited, Aside
<1> QED
  BY <1>1, <1>2

\* A step of the test that is not a submission and ends no wait well.
Advances(fail, more) ==
  /\ Reports(fail, more) /\ fail \in {"ignore", Step.onFail}
  /\ UNCHANGED <<test, mine, seen, submit>>
  /\ Step.do = "wait" => fail # "ignore"
  /\ Step.do = "expect" /\ fail = "ignore" => Holds(Step)

LEMMA AdvanceKeeps ==
  ASSUME test \in Earning, Submitted, Waited, Kept, pc # 1, NEW do, At(do), NEW fail, NEW more, Advances(fail, more)
  PROVE  Submitted' /\ Waited'
<1>0. pc \in Nat \ {0}
  BY DEF Submitted, Placed
<1>1. pc \in 1 .. Length(test) /\ StepOK(test, pc, Step)
  BY <1>0, AtFacts
<1>2. /\ pc' \in Nat /\ pc' > pc
      /\ result' = {} => fail = "ignore" /\ result = {} /\ pc' = pc + 1
  BY <1>0, ReportFacts DEF Advances
<1>3. UNCHANGED <<test, mine, seen, submit>>
  BY DEF Advances
<1>4. Submitted'
  <2>1. Placed'
    BY <1>0, <1>2, <1>3 DEF Submitted, Placed
  <2>2. \A c \in Submitters : ~Under(c)
    BY DEF Submitted
  <2>3. \A c \in Submitters : ~Under(c)'
    BY <1>3, <2>2 DEF Under
  <2> QED
    BY <1>0, <1>2, <1>3, <2>1, <2>3 DEF Submitted, Kept
<1>5. Waited'
  <2>1. ASSUME seen # <<>>, TerminalStatus(seen[1].status)
        PROVE  jobs'[mine[1]] = seen[1]
    BY <2>1 DEF Submitted, Waited, Kept
  <2>2. ASSUME result' = {}, pc' > WaitAt(test)
        PROVE  seen # <<>> /\ seen[1].status \in Wanted(test)
    <3>1. pc # WaitAt(test)
      BY <1>1, <1>2, <2>2 DEF StepOK, Advances
    <3>2. WaitAt(test) \in Nat
      BY DEF WaitAt
    <3>3. pc > WaitAt(test)
      BY <1>0, <1>2, <2>2, <3>1, <3>2
    <3> QED
      BY <1>2, <2>2, <3>3 DEF Waited
  <2>3. ASSUME result' = {}, pc' > Length(test), test \in {"Stop", "Kill"}
        PROVE  /\ test = "Stop" => seen[1].status = StopStatus /\ seen[1].exit \in {<<code>> : code \in StopExitCodes}
               /\ test = "Kill" => seen[1].status = KillStatus /\ seen[1].exit \in {<<code>> : code \in KillExitCodes}
    <3>1. Length(test) \in Nat
      BY DEF Length
    <3>2. pc = Length(test) /\ fail = "ignore"
      BY <1>1, <1>2, <2>3, <3>1
    <3>3. /\ Step.do = "expect"
          /\ test = "Stop" => Step.status = StopStatus /\ Step.codes = StopExitCodes
          /\ test = "Kill" => Step.status = KillStatus /\ Step.codes = KillExitCodes
      BY <1>1, <2>3, <3>2 DEF StepOK, Length
    <3>4. Holds(Step)
      BY <3>2, <3>3 DEF Advances
    <3>5. /\ seen[1].status = Step.status
          /\ Step.codes = {} \/ seen[1].exit \in {<<code>> : code \in Step.codes}
      BY <3>3, <3>4 DEF Holds
    <3> QED
      BY <3>3, <3>5, SuiteAssumption
  <2> QED
    BY <1>3, <2>1, <2>2, <2>3 DEF Waited
<1> QED
  BY <1>4, <1>5

\* A wait that returns the job in one of the statuses it waits for.
LEMMA WaitKeeps ==
  ASSUME test \in Earning, Submitted, Waited, PollJob, UNCHANGED vars
  PROVE  Submitted' /\ Waited'
<1>0. pc \in Nat \ {0} /\ At("wait")
  BY DEF Submitted, Placed, PollJob
<1>1. pc \in 1 .. Length(test) /\ StepOK(test, pc, Step) /\ Step.do = "wait"
  BY <1>0, AtFacts
<1>2. pc # 1 /\ pc <= WaitAt(test) /\ (pc = WaitAt(test) => Step.statuses = Wanted(test))
  BY <1>0, <1>1 DEF StepOK, WaitAt
<1> DEFINE got == GetJob(User, mine[1])
           ok == got # <<>> /\ got[1].status \in Step.statuses
<1>3. Report(ok, {}) /\ seen' = (IF ok THEN got ELSE seen) /\ UNCHANGED <<test, mine, submit, jobs>>
  BY DEF PollJob, vars, jobVars
<1>4. PICK fail \in {"ignore", Step.onFail} : Reports(fail, {}) /\ fail = IF ok THEN "ignore" ELSE Step.onFail
  BY <1>3 DEF Report, Reports
<1>5. Kept
  BY <1>3, JobsKept
<1>6. CASE ~ok
  <2>1. fail # "ignore"
    BY <1>1, <1>4, <1>6 DEF StepOK
  <2>2. Advances(fail, {})
    BY <1>1, <1>3, <1>4, <1>6, <2>1 DEF Advances
  <2> QED
    BY <1>0, <1>2, <1>5, <2>2, AdvanceKeeps
<1>7. CASE ok
  <2>1. /\ pc' \in Nat /\ pc' > pc
        /\ result' = {} => result = {} /\ pc' = pc + 1
    BY <1>0, <1>4, ReportFacts
  <2>2. got = <<jobs[mine[1]]>> /\ mine[1] \in DOMAIN jobs
    BY <1>7 DEF GetJob, Visible
  <2>3. seen' # <<>> /\ seen'[1] = jobs[mine[1]] /\ jobs[mine[1]].status \in Step.statuses
    BY <1>3, <1>7, <2>2
  <2> HIDE DEF got, ok
  <2>4. Submitted'
    <3>1. Placed'
      BY <1>0, <1>2, <1>3, <2>1 DEF Submitted, Placed
    <3>2. \A c \in Submitters : ~Under(c)'
      BY <1>2, <1>3 DEF Submitted, Under
    <3> QED
      BY <1>0, <1>2, <1>3, <2>1, <2>2, <3>1, <3>2 DEF Submitted
  <2>5. Waited'
    <3>1. ASSUME result' = {}, pc' > WaitAt(test)
          PROVE  seen'[1].status \in Wanted(test)
      <4>1. pc = WaitAt(test)
        BY <1>0, <1>2, <2>1, <3>1 DEF WaitAt
      <4> QED
        BY <1>2, <2>3, <4>1
    <3>2. ~(result' = {} /\ pc' > Length(test))
      BY <1>0, <1>2, <2>1 DEF WaitAt, Length
    <3> QED
      BY <1>3, <2>3, <3>1, <3>2 DEF Waited
  <2> QED
    BY <2>4, <2>5
<1> QED
  BY <1>6, <1>7

\* The call of SubmitJob, and its return.
LEMMA CallSubmitKeeps ==
  ASSUME test \in Earning, PluginInv, Submitted, Waited, CallSubmit
  PROVE  Submitted' /\ Waited'
<1>1. pc = 1
  <2>1. StepOK(test, pc, Step) /\ Step.do = "submit"
    BY AtFacts DEF Submitted, Placed, CallSubmit
  <2> QED
    BY <2>1 DEF StepOK
<1>2. PICK c \in Submitters \ Guests : NewID(c, Step.tags)
  BY DEF CallSubmit
<1>3. \A d \in Submitters : ~Under(d)
  BY DEF CallSubmit, Under
<1>4. \A d \in Submitters : Under(d)' => d = c
  BY <1>2, <1>3 DEF NewID, Under, PluginInv, JobTypes
<1>5. UNCHANGED <<test, pc, result, mine, seen, jobs>>
  BY <1>2 DEF CallSubmit, suiteVars, NewID
<1> QED
  BY <1>1, <1>4, <1>5 DEF Submitted, Placed, Waited

LEMMA SubmitJobKeeps ==
  ASSUME test \in Earning, PluginInv, Submitted, Waited, NEW c \in Submitters, SubmitJob(c)
  PROVE  Submitted' /\ Waited'
<1>1. c \in Submitters \ Guests /\ SubmitReturns(c) /\ submit[c].at = "stored"
  BY DEF SubmitJob, SubmitReturns
<1>2. pc = 1 /\ mine = <<>> /\ seen = <<>>
  BY <1>1 DEF Submitted, Under
<1>3. submit[c].id \in Nat /\ submit[c].id \in DOMAIN jobs
  BY <1>1 DEF PluginInv, JobTypes, Drawn
<1>4. pc' = 2
  BY <1>2, <1>3 DEF SubmitJob, Report
<1>5. UNCHANGED <<test, seen, jobs>> /\ mine' = <<submit[c].id>>
  BY <1>1, <1>2 DEF SubmitJob, SubmitReturns
<1>6. \A d \in Submitters : ~Under(d)'
  <2>1. \A d \in Submitters : Under(d) => d = c
    BY <1>1 DEF Submitted, Under
  <2> QED
    BY <1>1, <2>1 DEF SubmitReturns, Under, PluginInv, JobTypes
<1>7. Submitted'
  <2>1. mine' \in Seq(Nat) /\ mine' # <<>> /\ mine'[1] = submit[c].id
    BY <1>3, <1>5
  <2>2. Placed'
    BY <1>4, <2>1 DEF Placed
  <2> QED
    BY <1>3, <1>4, <1>5, <1>6, <2>1, <2>2 DEF Submitted
<1>8. ~(pc' > WaitAt(test)) /\ ~(pc' > Length(test))
  BY <1>4 DEF WaitAt, Length
<1>9. Waited'
  BY <1>2, <1>5, <1>8 DEF Waited
<1> QED
  BY <1>7, <1>9

\* The other steps of the test.
LEMMA TestStepKeeps ==
  ASSUME test \in Earning, PluginInv, Submitted, Waited, Kept,
         Timeout \/ (\E c \in Controllers : CallControl(c)) \/ Assert \/ CollectStatusStream
  PROVE  Submitted' /\ Waited'
<1>0. pc \in Nat \ {0} /\ \A do : At(do) => StepOK(test, pc, Step) /\ Step.do = do
  BY AtFacts DEF Submitted, Placed
<1>1. ASSUME NEW do \in {"wait", "control", "expect", "check", "openStatus"}, At(do), NEW fail, NEW more,
             Advances(fail, more)
      PROVE  Submitted' /\ Waited'
  <2>1. pc # 1
    BY <1>0, <1>1 DEF StepOK
  <2> QED
    BY <1>1, <2>1, AdvanceKeeps
<1>2. CASE Timeout
  <2>1. At("wait")
    BY <1>0, <1>2 DEF Timeout, StepOK
  <2>2. Reports(Step.onFail, {"late"}) /\ UNCHANGED <<test, mine, seen, submit>>
    BY <1>2 DEF Timeout, Report, Reports, vars, jobVars
  <2>3. Advances(Step.onFail, {"late"})
    BY <1>0, <2>1, <2>2 DEF Advances, StepOK
  <2> QED
    BY <1>1, <2>1, <2>3
<1>3. CASE \E c \in Controllers : CallControl(c)
  <2>1. PICK c \in Controllers : CallControl(c)
    BY <1>3
  <2>2. PICK fail \in {"ignore", Step.onFail} : Reports(fail, {})
    BY <2>1 DEF CallControl, Report, Reports
  <2>3. UNCHANGED <<test, mine, seen, submit>> /\ At("control")
    BY <2>1 DEF CallControl, ControlJob
  <2>4. Advances(fail, {})
    BY <1>0, <2>2, <2>3 DEF Advances
  <2> QED
    BY <1>1, <2>3, <2>4
<1>4. CASE Assert
  <2>1. PICK do \in {"expect", "check"} : At(do)
    <3>1. ~At("list")
      BY <1>0 DEF StepOK
    <3> QED
      BY <1>4, <3>1 DEF Assert
  <2>2. PICK fail \in {"ignore", Step.onFail} :
          Reports(fail, {}) /\ fail = IF Holds(Step) THEN "ignore" ELSE Step.onFail
    BY <1>4 DEF Assert, Report, Reports
  <2>3. fail = "ignore" => Holds(Step)
    BY <1>0, <2>1, <2>2 DEF StepOK
  <2>4. UNCHANGED <<test, mine, seen, submit>>
    BY <1>4 DEF Assert, vars, jobVars
  <2>5. Advances(fail, {})
    BY <1>0, <2>1, <2>2, <2>3, <2>4 DEF Advances
  <2> QED
    BY <1>1, <2>1, <2>5
<1>5. CASE CollectStatusStream
  <2>1. At("openStatus") /\ UNCHANGED <<test, mine, seen, submit>> /\ Reports("ignore", {})
    BY <1>5 DEF CollectStatusStream, Report, Reports, vars, jobVars
  <2>2. Advances("ignore", {})
    BY <1>0, <2>1 DEF Advances
  <2> QED
    BY <1>1, <2>1, <2>2
<1> QED
  BY <1>2, <1>3, <1>4, <1>5

\* The steps of everyone else.
LEMMA OthersAside ==
  ASSUME PluginInv, Cleanup \/ WatchStep \/ ProcessUpdate \/ PluginStep \/ GuestStep \/ UNCHANGED allVars
  PROVE  Aside
<1>1. UNCHANGED <<test, pc, result, mine, seen>>
  BY DEF Cleanup, WatchStep, ProcessUpdate, PluginStep, GuestStep, allVars, suiteVars
<1>2. CASE UNCHANGED submit
  BY <1>1, <1>2 DEF Aside, Under
<1>3. ASSUME NEW c \in Submitters, AddJob(c) \/ SubmitReturns(c)
      PROVE  Aside
  <2>1. PICK place \in {"stored", "returned"} : submit' = [submit EXCEPT ![c].at = place]
    BY <1>3 DEF AddJob, SubmitReturns
  <2>2. submit[c].at \in {"drawn", "stored"}
    BY <1>3 DEF AddJob, SubmitReturns
  <2> QED
    BY <1>1, <2>1, <2>2 DEF Aside, Under, PluginInv, JobTypes
<1>4. ASSUME NEW c \in Submitters \cap Guests, NEW tags, NewID(c, tags)
      PROVE  Aside
  BY <1>1, <1>4 DEF Aside, Under, NewID, PluginInv, JobTypes
<1>5. CASE Cleanup \/ WatchStep \/ ProcessUpdate \/ UNCHANGED allVars
  <2>1. UNCHANGED submit
    BY <1>5 DEF Cleanup, CancelStream, WatchStep, ProcessUpdate, allVars, vars, jobVars
  <2> QED
    BY <1>2, <2>1
<1>6. CASE PluginStep
  <2>1. CASE \E c \in Submitters : AddJob(c)
    BY <1>3, <2>1
  <2>2. CASE (\E j \in DOMAIN life : StartJob(j) \/ FinishJob(j)) \/ (\E s \in Outputs : OutputStep(s))
    <3>1. UNCHANGED submit
      BY <2>2 DEF StartJob, FinishJob, OutputStep, OutputTick, OutputDone, Emit, jobVars
    <3> QED
      BY <1>2, <3>1
  <2> QED
    BY <1>6, <2>1, <2>2 DEF PluginStep
<1>7. CASE GuestStep
  <2>1. CASE \E c \in Submitters : SubmitReturns(c)
    BY <1>3, <2>1
  <2>2. CASE \E c \in Submitters \cap Guests : \E tags : NewID(c, tags)
    BY <1>4, <2>2
  <2>3. CASE \E c \in Controllers, op \in Operations, k \in DOMAIN mine : ControlJob(c, mine[k], op)
    BY <1>2, <2>3 DEF ControlJob
  <2> QED
    BY <1>7, <2>1, <2>2, <2>3 DEF GuestStep
<1> QED
  BY <1>5, <1>6, <1>7

EarningInv == test \in Earning => PluginInv /\ Submitted /\ Waited

LEMMA EarningInit == SuiteInit => EarningInv
<1> SUFFICES ASSUME SuiteInit
             PROVE  PluginInv /\ Submitted /\ Waited
  BY DEF EarningInv
<1>1. PluginInv
  BY PluginInit DEF SuiteInit
<1>2. Submitted
  <2>1. \A c \in Submitters : ~Under(c)
    BY DEF SuiteInit, Init, Under
  <2> QED
    BY <2>1 DEF SuiteInit, Submitted, Placed
<1>3. Waited
  <2>1. ~(pc > WaitAt(test)) /\ ~(pc > Length(test)) /\ seen = <<>>
    BY DEF SuiteInit, WaitAt, Length
  <2> QED
    BY <2>1 DEF Waited
<1> QED
  BY <1>1, <1>2, <1>3

LEMMA EarningNext == EarningInv /\ [SuiteNext]_allVars => EarningInv'
<1> SUFFICES ASSUME EarningInv, [SuiteNext]_allVars, test' \in Earning
             PROVE  (PluginInv /\ Submitted /\ Waited)'
  BY DEF EarningInv
<1>1. test' = test
  BY DEF SuiteNext, SuiteStep, CallSubmit, SubmitJob, CallControl, CollectOutputStream, PollJob, Assert,
         AwaitOutput, CollectStatusStream, AwaitStatus, Mark, CancelWatch, Join, Quiet, Cleanup, Timeout,
         WatchStep, ProcessUpdate, PluginStep, GuestStep, suiteVars, allVars
<1>2. test \in Earning /\ PluginInv /\ Submitted /\ Waited
  BY <1>1 DEF EarningInv
<1>3. PluginInv' /\ Kept
  BY <1>2, PluginPart DEF Submitted
<1>4. CASE CallSubmit \/ \E c \in Submitters : SubmitJob(c)
  BY <1>2, <1>3, <1>4, CallSubmitKeeps, SubmitJobKeeps
<1>5. CASE PollJob
  <2>1. UNCHANGED vars
    BY <1>5 DEF PollJob
  <2> QED
    BY <1>2, <1>3, <1>5, <2>1, WaitKeeps
<1>6. CASE Timeout \/ (\E c \in Controllers : CallControl(c)) \/ Assert \/ CollectStatusStream
  BY <1>2, <1>3, <1>6, TestStepKeeps
<1>7. CASE Cleanup \/ WatchStep \/ ProcessUpdate \/ PluginStep \/ GuestStep \/ UNCHANGED allVars
  BY <1>2, <1>3, <1>7, OthersAside, AsideKeeps
<1>8. CASE \/ \E s \in Outputs : CollectOutputStream(s)
           \/ AwaitOutput \/ AwaitStatus \/ Mark \/ CancelWatch \/ Join \/ Quiet
  <2>1. PICK do \in {"openOutput", "awaitOutput", "awaitStatus", "mark", "cancel", "join", "quiet"} : At(do)
    BY <1>8 DEF CollectOutputStream, AwaitOutput, AwaitStatus, Mark, CancelWatch, Join, Quiet
  <2>2. StepOK(test, pc, Step) /\ Step.do = do
    BY <1>2, <2>1, AtFacts DEF Submitted, Placed
  <2> QED
    BY <2>1, <2>2 DEF StepOK
<1> QED
  BY <1>4, <1>5, <1>6, <1>7, <1>8 DEF SuiteNext, SuiteStep

\* A test of an operation that passes has seen the operation work: its job has
\* ended as the profile says, and whatever the plugin and its other clients do
\* meanwhile and later, it stays so.
THEOREM PassesEarned == SuiteSpec => []PassIsEarned
<1>1. EarningInv => PassIsEarned
  <2> SUFFICES ASSUME test \in Earning, Submitted, Waited, Over, result = {}
               PROVE  PassIsEarned
    BY DEF EarningInv, PassIsEarned, Earning
  <2>1. pc > Length(test) /\ pc > WaitAt(test)
    <3>1. pc > Length(test) /\ pc \in Nat
      BY ScriptFacts DEF Over, Submitted, Placed
    <3> QED
      BY <3>1 DEF Length, WaitAt
  <2>2. seen # <<>> /\ seen[1].status \in Wanted(test)
    BY <2>1 DEF Waited
  <2>3. TerminalStatus(seen[1].status) /\ (test = "Cancel" => seen[1].status = "Canceled")
    BY <2>2 DEF Wanted, Ended, TerminalStatus
  <2>4. jobs[mine[1]] = seen[1]
    BY <2>2, <2>3 DEF Waited
  <2> QED
    BY <2>1, <2>3, <2>4 DEF Waited, PassIsEarned
<1> QED
  BY <1>1, EarningInit, EarningNext, PTL DEF SuiteSpec

=============================================================================
