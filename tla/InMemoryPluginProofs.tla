------------------------ MODULE InMemoryPluginProofs ------------------------
(***************************************************************************)
(* Proofs about InMemoryPlugin for any number of calls, jobs and lines of  *)
(* output, and any tags, users and targets.                                *)
(***************************************************************************)
EXTENDS InMemoryPlugin, TLAPS

Places == {"called", "drawn", "stored", "returned"}
Answers == {"none", "notFound", "invalidState", "notSupported", "success"}

\* The types of what the proofs are about.
JobTypes ==
  /\ nextID \in Nat
  /\ jobs \in [DOMAIN jobs -> Job] /\ DOMAIN jobs \subseteq 1 .. nextID
  /\ life \in [DOMAIN life -> {"asleep", "started", "done"}] /\ DOMAIN life \subseteq DOMAIN jobs
  /\ submit \in [Submitters -> [at : Places, id : Nat, tags : SUBSET Tags]]
  /\ control \in [Controllers -> [op : Operations \cup {"none"}, answer : Answers]]
  /\ about \in [Controllers \cup Streams -> Nat]

\* An ID is drawn by one call, and names no job before that call adds it.
Drawn ==
  \A c \in Submitters : submit[c].at # "called" =>
    /\ submit[c].id \in 1 .. nextID
    /\ submit[c].at = "drawn" => submit[c].id \notin DOMAIN jobs
    /\ submit[c].at # "drawn" =>
         /\ submit[c].id \in DOMAIN jobs
         /\ jobs[submit[c].id].owner = UserOf[c] /\ jobs[submit[c].id].tags = submit[c].tags
    /\ \A d \in Submitters : submit[d].at # "called" /\ submit[d].id = submit[c].id => d = c

\* Only jobs that are not long-running are left to finish by themselves.
Short == \A j \in DOMAIN life : life[j] = "started" => "long-running" \notin jobs[j].tags

\* What Perform makes of a job, field by field.
Performed(c, op, job) ==
  \/ op = "Stop" /\ job.status = "Finished" /\ job.exit = <<143>>
  \/ op = "Kill" /\ job.status = "Killed" /\ job.exit = <<137>> /\ job.reason = <<c>>
  \/ op = "Cancel" /\ job.status = "Canceled"

\* A call that succeeded was about a job, and this is what it did to it, as the
\* only call.
Decided ==
  \A c \in Controllers : control[c].answer = "success" =>
    /\ about[c] \in DOMAIN jobs
    /\ Performed(c, control[c].op, jobs[about[c]])
    /\ \A d \in Controllers : control[d].answer = "success" /\ about[d] = about[c] => d = c

PluginInv == JobTypes /\ Drawn /\ Short /\ Decided /\ ExitCodeTells

\* A step that leaves all of this alone.
Elsewhere == UNCHANGED <<jobVars, control>> /\ about' \in [Controllers \cup Streams -> Nat]
               /\ \A c \in Controllers : about'[c] = about[c]

LEMMA StepCases ==
  ASSUME JobTypes, [Next]_vars
  PROVE  \/ \E c \in Submitters : (\E tags \in TagSets[c] : NewID(c, tags)) \/ AddJob(c) \/ SubmitReturns(c)
         \/ \E j \in DOMAIN life : StartJob(j) \/ FinishJob(j)
         \/ \E c \in Controllers, op \in Operations : \E j \in Targets[c] : ControlJob(c, j, op)
         \/ Elsewhere
<1>1. ASSUME NEW s \in Streams, NEW j \in Nat, NEW at, Call(s, j, at), UNCHANGED <<jobVars, control>>
      PROVE  Elsewhere
  BY <1>1, PluginAssumption DEF Call, Elsewhere, JobTypes
<1>2. ASSUME about' = about, UNCHANGED <<jobVars, control>>
      PROVE  Elsewhere
  BY <1>2 DEF Elsewhere, JobTypes
<1>3. ASSUME NEW s \in Outputs, NEW j \in Targets[s], GetJobOutput(s, j)
      PROVE  Elsewhere
  <2>1. s \in Streams /\ j \in Nat
    BY PluginAssumption DEF Streams
  <2>2. PICK at : Call(s, j, at)
    BY <1>3 DEF GetJobOutput
  <2> QED
    BY <1>1, <1>3, <2>1, <2>2 DEF GetJobOutput
<1>4. ASSUME NEW s \in Utils, NEW j \in Targets[s], GetJobResourceUtil(s, j)
      PROVE  Elsewhere
  <2>1. s \in Streams /\ j \in Nat
    BY PluginAssumption DEF Streams
  <2> QED
    BY <1>1, <1>4, <2>1 DEF GetJobResourceUtil
<1>5. ASSUME NEW s \in Streams, OutputStep(s) \/ UtilStep(s) \/ CancelStream(s)
      PROVE  Elsewhere
  BY <1>2, <1>5 DEF OutputStep, OutputTick, OutputDone, UtilStep, Poll, PollDone, Sample, Emit, CancelStream
<1>6. ASSUME Shutdown \/ ServeReturns \/ UNCHANGED vars
      PROVE  Elsewhere
  BY <1>2, <1>6 DEF Shutdown, ServeReturns, vars, streamVars
<1> QED
  BY <1>3, <1>4, <1>5, <1>6 DEF Next, SubmitStep, JobStep, Streams

LEMMA CodesDiffer == <<143>> # <<>> /\ <<137>> # <<>> /\ <<143>> # <<0>> /\ <<137>> # <<0>> /\ <<0>> # <<>>
<1> DEFINE Code(n) == <<n>>
<1>1. \A n \in Nat : Len(Code(n)) = 1 /\ Code(n)[1] = n
  OBVIOUS
<1>2. Len(<<>>) = 0
  OBVIOUS
<1> HIDE DEF Code
<1>3. Code(143) # <<>> /\ Code(137) # <<>> /\ Code(143) # Code(0) /\ Code(137) # Code(0) /\ Code(0) # <<>>
  BY <1>1, <1>2
<1> QED
  BY <1>3 DEF Code

LEMMA PluginInit == Init => PluginInv
  BY PluginAssumption
     DEF Init, None, PluginInv, JobTypes, Places, Answers, Drawn, Short, Decided, ExitCodeTells


-----------------------------------------------------------------------------
(* The steps of SubmitJob.                                                 *)

LEMMA NewIDStep ==
  ASSUME PluginInv, NEW c \in Submitters, NEW tags \in SUBSET Tags, NewID(c, tags)
  PROVE  PluginInv'
<1> USE DEF PluginInv
<1>2. JobTypes'
  BY DEF JobTypes, NewID, Places
<1>3. Drawn'
  BY DEF Drawn, JobTypes, NewID, Places
<1>4. Short' /\ Decided'
  BY DEF Short, Decided, NewID
<1>5. ExitCodeTells'
  BY DEF ExitCodeTells, NewID
<1> QED
  BY <1>2, <1>3, <1>4, <1>5

LEMMA AddJobStep ==
  ASSUME PluginInv, NEW c \in Submitters, AddJob(c)
  PROVE  PluginInv'
<1> USE DEF PluginInv
<1> DEFINE id == submit[c].id
           new == [status |-> "Pending", exit |-> <<>>, reason |-> <<>>, owner |-> UserOf[c], tags |-> submit[c].tags]
<1>1. id \in 1 .. nextID /\ id \notin DOMAIN jobs
  BY DEF AddJob, Drawn
<1>2. new \in Job
  BY PluginAssumption DEF Job, Statuses, JobTypes
<1>3. /\ DOMAIN jobs' = DOMAIN jobs \cup {id}
      /\ jobs'[id] = new
      /\ \A j \in DOMAIN jobs : jobs'[j] = jobs[j]
  BY <1>1 DEF AddJob, With
<1>4. jobs' \in [DOMAIN jobs' -> Job]
  BY <1>2, <1>3 DEF AddJob, With, JobTypes
<1>5. submit' = [submit EXCEPT ![c].at = "stored"] /\ UNCHANGED <<nextID, life, control, about>>
  BY DEF AddJob
<1> HIDE DEF new
<1>6. JobTypes'
  BY <1>1, <1>3, <1>4, <1>5 DEF JobTypes, Places
<1>7. Drawn'
  <2>1. submit \in [Submitters -> [at : Places, id : Nat, tags : SUBSET Tags]] /\ submit[c].at = "drawn"
    BY DEF JobTypes, AddJob
  <2>2. /\ submit'[c].at = "stored" /\ submit'[c].id = id /\ submit'[c].tags = submit[c].tags
        /\ \A d \in Submitters : d # c => submit'[d] = submit[d]
    BY <1>5, <2>1
  <2>3. new.owner = UserOf[c] /\ new.tags = submit[c].tags
    BY DEF new
  <2> QED
    BY <1>1, <1>3, <1>5, <2>1, <2>2, <2>3 DEF Drawn
<1>8. Short'
  BY <1>3, <1>5 DEF Short, JobTypes
<1>9. Decided'
  BY <1>3, <1>5 DEF Decided
<1>10. ExitCodeTells'
  <2>1. new.exit = <<>> /\ new.status = "Pending"
    BY DEF new
  <2> QED
    BY <1>3, <1>5, <2>1 DEF ExitCodeTells, TerminalStatus
<1> QED
  BY <1>6, <1>7, <1>8, <1>9, <1>10

LEMMA SubmitReturnsStep ==
  ASSUME PluginInv, NEW c \in Submitters, SubmitReturns(c)
  PROVE  PluginInv'
<1> USE DEF PluginInv
<1> DEFINE id == submit[c].id
<1>1. id \in DOMAIN jobs
  BY DEF SubmitReturns, Drawn
<1>2. /\ DOMAIN life' = DOMAIN life \cup {id}
      /\ life'[id] = "asleep"
      /\ \A j \in DOMAIN life : j # id => life'[j] = life[j]
      /\ life' \in [DOMAIN life' -> {"asleep", "started", "done"}]
  BY DEF SubmitReturns, With, JobTypes
<1>3. submit' = [submit EXCEPT ![c].at = "returned"] /\ UNCHANGED <<nextID, jobs, control, about>>
  BY DEF SubmitReturns
<1>4. JobTypes'
  <2>1. submit' \in [Submitters -> [at : Places, id : Nat, tags : SUBSET Tags]]
    BY <1>3 DEF JobTypes, Places
  <2>2. DOMAIN life' \subseteq DOMAIN jobs
    BY <1>1, <1>2 DEF JobTypes
  <2> QED
    BY <1>2, <1>3, <2>1, <2>2 DEF JobTypes
<1>5. Drawn'
  BY <1>3 DEF Drawn, JobTypes, Places, SubmitReturns
<1>6. Short'
  BY <1>2, <1>3 DEF Short
<1>7. Decided' /\ ExitCodeTells'
  BY <1>3 DEF Decided, ExitCodeTells
<1> QED
  BY <1>4, <1>5, <1>6, <1>7

-----------------------------------------------------------------------------
(* The steps that change a job: it keeps its owner and its tags.           *)

LEMMA MovedDrawn ==
  ASSUME PluginInv, NEW j \in DOMAIN jobs, NEW new \in Job, jobs' = [jobs EXCEPT ![j] = new],
         new.owner = jobs[j].owner, new.tags = jobs[j].tags, UNCHANGED <<nextID, submit>>
  PROVE  /\ jobs' \in [DOMAIN jobs' -> Job] /\ DOMAIN jobs' = DOMAIN jobs
         /\ \A i \in DOMAIN jobs : jobs'[i].tags = jobs[i].tags
         /\ Drawn'
  BY DEF PluginInv, JobTypes, Drawn

\* What the goroutine of a job makes of it.
ByItself(old, new) ==
  /\ old.status \in {"Pending", "Running"} /\ new.tags = old.tags
  /\ \/ new.status = "Running" /\ new.exit = old.exit
     \/ new.status = "Finished" /\ new.exit = <<0>> /\ "long-running" \notin new.tags

\* The goroutine of a job moves it only from a status that is not terminal, so
\* never after a call decided how it ended.
LEMMA MovedByItself ==
  ASSUME PluginInv, NEW j \in DOMAIN jobs, NEW new \in Job, jobs' = [jobs EXCEPT ![j] = new],
         ByItself(jobs[j], new), UNCHANGED <<control, about>>
  PROVE  Decided' /\ ExitCodeTells'
<1> USE DEF PluginInv, ByItself
<1>0. jobs'[j] = new /\ DOMAIN jobs' = DOMAIN jobs /\ \A i \in DOMAIN jobs : i # j => jobs'[i] = jobs[i]
  OBVIOUS
<1>1. Decided'
  BY <1>0 DEF Decided, Performed
<1>2. jobs[j].exit = <<>>
  BY DEF ExitCodeTells
<1>3. ExitCodeTells'
  BY <1>0, <1>2 DEF ExitCodeTells, TerminalStatus
<1> QED
  BY <1>1, <1>3

LEMMA StartJobStep ==
  ASSUME PluginInv, NEW j \in DOMAIN life, StartJob(j)
  PROVE  PluginInv'
<1> USE DEF PluginInv
<1>0. j \in DOMAIN jobs /\ jobs[j] \in Job /\ UNCHANGED <<nextID, submit, control, about>>
  BY DEF JobTypes, StartJob
<1>1. life' \in [DOMAIN life' -> {"asleep", "started", "done"}] /\ DOMAIN life' = DOMAIN life
  BY DEF JobTypes, StartJob
<1>2. \A i \in DOMAIN life : life'[i] = "started" => life[i] = "started" \/ "long-running" \notin jobs[i].tags
  BY DEF StartJob, JobTypes
<1>3. CASE jobs[j].status = "Pending"
  <2> DEFINE new == [jobs[j] EXCEPT !.status = "Running"]
  <2>1. new \in Job /\ new.owner = jobs[j].owner /\ new.tags = jobs[j].tags /\ new.exit = jobs[j].exit
        /\ new.status = "Running"
    BY <1>0 DEF Job, Statuses
  <2>2. jobs' = [jobs EXCEPT ![j] = new]
    BY <1>0, <1>3 DEF StartJob, JobTypes
  <2> HIDE DEF new
  <2>3. jobs' \in [DOMAIN jobs' -> Job] /\ DOMAIN jobs' = DOMAIN jobs /\ Drawn'
        /\ \A i \in DOMAIN jobs : jobs'[i].tags = jobs[i].tags
    BY <1>0, <2>1, <2>2, MovedDrawn
  <2>4. Decided' /\ ExitCodeTells'
    BY <1>0, <1>3, <2>1, <2>2, MovedByItself DEF ByItself
  <2>5. JobTypes'
    BY <1>0, <1>1, <2>3 DEF JobTypes
  <2>6. Short'
    BY <1>1, <1>2, <2>3 DEF Short, JobTypes
  <2> QED
    BY <2>3, <2>4, <2>5, <2>6
<1>4. CASE jobs[j].status # "Pending"
  <2>1. jobs' = jobs
    BY <1>4 DEF StartJob
  <2>2. JobTypes' /\ Short'
    BY <1>0, <1>1, <1>2, <2>1 DEF JobTypes, Short
  <2>3. Drawn' /\ Decided' /\ ExitCodeTells'
    BY <1>0, <2>1 DEF Drawn, Decided, ExitCodeTells
  <2> QED
    BY <2>2, <2>3
<1> QED
  BY <1>3, <1>4

LEMMA FinishJobStep ==
  ASSUME PluginInv, NEW j \in DOMAIN life, FinishJob(j)
  PROVE  PluginInv'
<1> USE DEF PluginInv
<1>0. j \in DOMAIN jobs /\ jobs[j] \in Job /\ UNCHANGED <<nextID, submit, control, about>>
      /\ "long-running" \notin jobs[j].tags
  BY DEF JobTypes, FinishJob, Short
<1>1. /\ life' \in [DOMAIN life' -> {"asleep", "started", "done"}] /\ DOMAIN life' = DOMAIN life
      /\ \A i \in DOMAIN life : life'[i] = "started" => life[i] = "started"
  BY DEF JobTypes, FinishJob
<1>3. CASE jobs[j].status = "Running"
  <2> DEFINE new == [jobs[j] EXCEPT !.status = "Finished", !.exit = <<0>>]
  <2>1. new \in Job /\ new.owner = jobs[j].owner /\ new.tags = jobs[j].tags /\ new.exit = <<0>>
        /\ new.status = "Finished"
    BY <1>0 DEF Job, Statuses
  <2>2. jobs' = [jobs EXCEPT ![j] = new]
    BY <1>0, <1>3 DEF FinishJob, JobTypes
  <2> HIDE DEF new
  <2>3. jobs' \in [DOMAIN jobs' -> Job] /\ DOMAIN jobs' = DOMAIN jobs /\ Drawn'
        /\ \A i \in DOMAIN jobs : jobs'[i].tags = jobs[i].tags
    BY <1>0, <2>1, <2>2, MovedDrawn
  <2>4. Decided' /\ ExitCodeTells'
    BY <1>0, <1>3, <2>1, <2>2, MovedByItself DEF ByItself
  <2>5. JobTypes'
    BY <1>0, <1>1, <2>3 DEF JobTypes
  <2>6. Short'
    BY <1>1, <2>3 DEF Short, JobTypes
  <2> QED
    BY <2>3, <2>4, <2>5, <2>6
<1>4. CASE jobs[j].status # "Running"
  <2>1. jobs' = jobs
    BY <1>4 DEF FinishJob
  <2>2. JobTypes' /\ Short'
    BY <1>0, <1>1, <2>1 DEF JobTypes, Short
  <2>3. Drawn' /\ Decided' /\ ExitCodeTells'
    BY <1>0, <2>1 DEF Drawn, Decided, ExitCodeTells
  <2> QED
    BY <2>2, <2>3
<1> QED
  BY <1>3, <1>4

-----------------------------------------------------------------------------
(* ControlJob.                                                             *)

\* What Perform makes of a job.
LEMMA PerformFacts ==
  ASSUME NEW c \in Controllers, NEW op \in {"Stop", "Kill", "Cancel"}, NEW job \in Job
  PROVE  LET new == Perform(c, op, job) IN
         /\ new \in Job /\ new.owner = job.owner /\ new.tags = job.tags
         /\ Performed(c, op, new)
         /\ op = "Cancel" => new.exit = job.exit
<1> DEFINE Changed(status, exit, reason) ==
             [status |-> status, exit |-> exit, reason |-> reason, owner |-> job.owner, tags |-> job.tags]
<1>1. job = Changed(job.status, job.exit, job.reason)
  BY DEF Job
<1>2. CASE op = "Stop"
  <2>1. Perform(c, op, job) = Changed("Finished", <<143>>, job.reason)
    BY <1>1, <1>2 DEF Perform
  <2> QED
    BY <1>2, <2>1 DEF Performed, Job, Statuses
<1>3. CASE op = "Kill"
  <2>1. Perform(c, op, job) = Changed("Killed", <<137>>, <<c>>)
    BY <1>1, <1>3 DEF Perform
  <2> QED
    BY <1>3, <2>1 DEF Performed, Job, Statuses
<1>4. CASE op = "Cancel"
  <2>1. Perform(c, op, job) = Changed("Canceled", job.exit, job.reason)
    BY <1>1, <1>4 DEF Perform
  <2> QED
    BY <1>4, <2>1 DEF Performed, Job, Statuses
<1> QED
  BY <1>2, <1>3, <1>4

\* A call that is refused changes no job, and answers with the refusal.
LEMMA RefusedStep ==
  ASSUME PluginInv, NEW c \in Controllers, NEW op \in Operations, NEW j \in Nat,
         ControlJob(c, j, op), Verdict(c, j, op) # "success"
  PROVE  PluginInv'
<1> USE DEF PluginInv
<1> DEFINE v == Verdict(c, j, op)
<1>1. v \in Answers /\ v # "success"
  BY DEF Verdict, Answers
<1>2. control[c].answer # "success"
  BY DEF ControlJob, None
<1> HIDE DEF v
<1>3. /\ control' = [control EXCEPT ![c] = [op |-> "none", answer |-> v]]
      /\ about' = [about EXCEPT ![c] = j]
      /\ UNCHANGED <<nextID, jobs, life, submit>>
  BY DEF ControlJob, v
<1>4. /\ control'[c].answer # "success"
      /\ \A d \in Controllers : d # c => control'[d] = control[d] /\ about'[d] = about[d]
  BY <1>1, <1>3 DEF JobTypes
<1>5. JobTypes'
  BY <1>1, <1>3 DEF JobTypes
<1>6. Drawn' /\ Short'
  BY <1>3 DEF Drawn, Short
<1>7. Decided'
  BY <1>3, <1>4 DEF Decided
<1>8. ExitCodeTells'
  BY <1>2, <1>3, <1>4 DEF ExitCodeTells
<1> QED
  BY <1>5, <1>6, <1>7, <1>8

\* A call that succeeds finds a job that no call has decided on, since it is
\* Pending or Running.
LEMMA PerformedStep ==
  ASSUME PluginInv, NEW c \in Controllers, NEW op \in Operations, NEW j \in Nat,
         ControlJob(c, j, op), Verdict(c, j, op) = "success"
  PROVE  PluginInv'
<1> USE DEF PluginInv
<1> DEFINE new == Perform(c, op, jobs[j])
<1>1. j \in DOMAIN jobs /\ jobs[j] \in Job
      /\ op \in {"Stop", "Kill", "Cancel"} /\ jobs[j].status \in {"Pending", "Running"}
  <2>1. Visible(UserOf[c], j) /\ jobs[j].status = ValidForStatus(op) /\ op \notin {"Suspend", "Resume"}
    BY DEF Verdict
  <2> QED
    BY <2>1 DEF Visible, ValidForStatus, Operations, JobTypes
<1>2. new \in Job /\ new.owner = jobs[j].owner /\ new.tags = jobs[j].tags /\ Performed(c, op, new)
  BY <1>1, PerformFacts
<1>3. op = "Cancel" => new.exit = jobs[j].exit
  BY <1>1, PerformFacts
<1>4. jobs' = [jobs EXCEPT ![j] = new]
  BY <1>1 DEF ControlJob, JobTypes
<1> HIDE DEF new
<1>5. /\ control' = [control EXCEPT ![c] = [op |-> op, answer |-> "success"]]
      /\ about' = [about EXCEPT ![c] = j]
      /\ UNCHANGED <<nextID, life, submit>>
  BY DEF ControlJob
<1>6. /\ control'[c] = [op |-> op, answer |-> "success"] /\ about'[c] = j
      /\ \A d \in Controllers : d # c => control'[d] = control[d] /\ about'[d] = about[d]
  BY <1>5 DEF JobTypes
<1>7. /\ jobs' \in [DOMAIN jobs' -> Job] /\ DOMAIN jobs' = DOMAIN jobs
      /\ jobs'[j] = new /\ \A i \in DOMAIN jobs : i # j => jobs'[i] = jobs[i]
  BY <1>1, <1>2, <1>4 DEF JobTypes
<1>8. \A i \in DOMAIN jobs : jobs'[i].tags = jobs[i].tags
  BY <1>2, <1>7
<1>9. \A d \in Controllers : control[d].answer = "success" => about[d] # j
  BY <1>1 DEF Decided, Performed
<1>10. JobTypes'
  BY <1>1, <1>5, <1>7 DEF JobTypes, Answers
<1>11. Drawn'
  BY <1>1, <1>2, <1>4, <1>5, MovedDrawn
<1>12. Short'
  BY <1>5, <1>8 DEF Short, JobTypes
<1>13. Decided'
  BY <1>1, <1>2, <1>6, <1>7, <1>9 DEF Decided
<1>14. ExitCodeTells'
  <2>1. jobs[j].exit = <<>>
    BY <1>1 DEF ExitCodeTells
  <2>2. new.exit # <<0>> /\ (new.exit # <<>> <=> new.status \in {"Finished", "Killed"})
    <3>1. CASE op = "Stop"
      BY <1>2, <3>1, CodesDiffer DEF Performed
    <3>2. CASE op = "Kill"
      <4>1. new.exit = <<137>> /\ new.status = "Killed"
        BY <1>2, <3>2 DEF Performed
      <4> QED
        BY <4>1, CodesDiffer
    <3>3. CASE op = "Cancel"
      BY <1>2, <1>3, <2>1, <3>3, CodesDiffer DEF Performed
    <3> QED
      BY <1>1, <3>1, <3>2, <3>3
  <2>3. \A d \in Controllers : control[d].answer = "success" => control'[d].answer = "success" /\ about'[d] = about[d]
    BY <1>5, <1>6 DEF ControlJob, None
  <2> QED
    BY <1>6, <1>7, <2>2, <2>3 DEF ExitCodeTells
<1> QED
  BY <1>10, <1>11, <1>12, <1>13, <1>14

-----------------------------------------------------------------------------
LEMMA ElsewhereStep ==
  ASSUME PluginInv, Elsewhere
  PROVE  PluginInv'
<1> USE DEF PluginInv, Elsewhere, jobVars
<1>1. JobTypes'
  BY DEF JobTypes
<1>2. Drawn' /\ Short' /\ Decided'
  BY DEF Drawn, Short, Decided
<1>3. ExitCodeTells'
  BY DEF ExitCodeTells
<1> QED
  BY <1>1, <1>2, <1>3

LEMMA PluginKeeps == PluginInv /\ [Next]_vars => PluginInv'
<1> SUFFICES ASSUME PluginInv, [Next]_vars
             PROVE  PluginInv'
  OBVIOUS
<1>1. JobTypes
  BY DEF PluginInv
<1>2. /\ \A c \in Submitters : TagSets[c] \subseteq SUBSET Tags
      /\ \A c \in Controllers : Targets[c] \subseteq Nat
  BY PluginAssumption
<1> QED
  BY <1>1, <1>2, StepCases, NewIDStep, AddJobStep, SubmitReturnsStep, StartJobStep, FinishJobStep,
     RefusedStep, PerformedStep, ElsewhereStep

LEMMA PluginAlways == Spec => []PluginInv
  BY PluginInit, PluginKeeps, PTL DEF Spec

\* How a job ends is decided once, and a ControlJob call that reported success
\* decided it: no call and no goroutine that slept meanwhile changes it.
THEOREM ControlFinality == Spec => []ControlIsFinal
<1>1. PluginInv => ControlIsFinal
  <2> SUFFICES ASSUME PluginInv, NEW c \in Controllers, control[c].answer = "success"
               PROVE  jobs[about[c]] = Perform(c, control[c].op, jobs[about[c]])
    BY DEF PluginInv, Decided, ControlIsFinal
  <2> DEFINE job == jobs[about[c]]
  <2>1. job \in Job /\ Performed(c, control[c].op, job)
    BY DEF PluginInv, JobTypes, Decided
  <2> HIDE DEF job
  <2>2. job = Perform(c, control[c].op, job)
    <3>1. CASE control[c].op = "Stop"
      <4>1. job.status = "Finished" /\ job.exit = <<143>>
        BY <2>1, <3>1 DEF Performed
      <4>2. job = [job EXCEPT !.status = "Finished", !.exit = job.exit]
        BY <2>1, <4>1 DEF Job
      <4> QED
        BY <3>1, <4>1, <4>2 DEF Perform
    <3>2. CASE control[c].op = "Kill"
      <4>1. job.status = "Killed" /\ job.exit = <<137>> /\ job.reason = <<c>>
        BY <2>1, <3>2 DEF Performed
      <4>2. job = [job EXCEPT !.status = "Killed", !.exit = job.exit, !.reason = job.reason]
        BY <2>1, <4>1 DEF Job
      <4> QED
        BY <3>2, <4>1, <4>2 DEF Perform
    <3>3. CASE control[c].op = "Cancel"
      BY <2>1, <3>3 DEF Performed, Perform, Job
    <3> QED
      BY <2>1, <3>1, <3>2, <3>3 DEF Performed
  <2> QED
    BY <2>2 DEF job
<1> QED
  BY <1>1, PluginAlways, PTL

\* The exit code of every job tells how it ended.
THEOREM ExitCodes == Spec => []ExitCodeTells
<1>1. PluginInv => ExitCodeTells
  BY DEF PluginInv
<1> QED
  BY <1>1, PluginAlways, PTL

\* No two SubmitJob calls share a job, and none of them loses its job.
THEOREM Submissions == Spec => []SubmissionsKept
<1>1. PluginInv => SubmissionsKept
  BY DEF PluginInv, Drawn, SubmissionsKept
<1> QED
  BY <1>1, PluginAlways, PTL

-----------------------------------------------------------------------------
(* Refinement.                                                             *)

LEMMA LifecycleInitial == Init => Lifecycle!LifecycleInit
  BY DEF Init, Lifecycle!LifecycleInit

\* One job takes another status: the step of the life cycle.
LEMMA LifecycleMove ==
  ASSUME JobTypes, NEW j \in DOMAIN jobs, NEW new \in Job, jobs' = [jobs EXCEPT ![j] = new]
  PROVE  Lifecycle!Move(j, new.status)
  BY DEF JobTypes, Lifecycle!Move

\* AddJob submits, the goroutine of a job proceeds, a ControlJob call that
\* succeeds controls, and no other step is visible.
LEMMA LifecycleStep ==
  PluginInv /\ [Next]_vars => [Lifecycle!LifecycleNext]_([j \in DOMAIN jobs |-> jobs[j].status])
<1> SUFFICES ASSUME PluginInv, [Next]_vars, jobs' # jobs
             PROVE  Lifecycle!LifecycleNext
  OBVIOUS
<1>0. JobTypes
  BY DEF PluginInv
<1>1. ASSUME NEW c \in Submitters, AddJob(c)
      PROVE  Lifecycle!LifecycleNext
  <2>0. PICK id : id = submit[c].id
    OBVIOUS
  <2>1. id \notin DOMAIN jobs
    BY <1>1, <2>0 DEF PluginInv, AddJob, Drawn
  <2>2. /\ DOMAIN jobs' = DOMAIN jobs \cup {id} /\ jobs'[id].status = "Pending"
        /\ \A j \in DOMAIN jobs : jobs'[j] = jobs[j]
    BY <1>1, <2>0, <2>1 DEF AddJob, With
  <2>3. Lifecycle!Submit(id)
    BY <2>1, <2>2 DEF Lifecycle!Submit
  <2>4. id \in DOMAIN [j \in DOMAIN jobs |-> jobs[j].status]'
    BY <2>2
  <2> QED
    BY <2>3, <2>4 DEF Lifecycle!LifecycleNext
<1>2. ASSUME NEW j \in DOMAIN life, StartJob(j) \/ FinishJob(j)
      PROVE  Lifecycle!LifecycleNext
  <2>1. j \in DOMAIN jobs /\ jobs[j] \in Job
    BY <1>0 DEF JobTypes
  <2>2. PICK new \in Job : /\ jobs' = [jobs EXCEPT ![j] = new]
                           /\ <<jobs[j].status, new.status>> \in {<<"Pending", "Running">>, <<"Running", "Finished">>}
    <3>1. [jobs[j] EXCEPT !.status = "Running"] \in Job
          /\ [jobs[j] EXCEPT !.status = "Finished", !.exit = <<0>>] \in Job
      BY <2>1 DEF Job, Statuses
    <3>2. CASE StartJob(j)
      BY <1>0, <2>1, <3>1, <3>2 DEF StartJob, JobTypes, Job
    <3>3. CASE FinishJob(j)
      <4> DEFINE new == [jobs[j] EXCEPT !.status = "Finished", !.exit = <<0>>]
      <4>1. jobs[j].status = "Running"
        BY <3>3 DEF FinishJob
      <4>2. jobs' = [jobs EXCEPT ![j] = new]
        BY <1>0, <2>1, <3>3, <4>1 DEF FinishJob, JobTypes
      <4>3. new \in Job /\ new.status = "Finished"
        BY <2>1, <3>1 DEF Job
      <4> HIDE DEF new
      <4> QED
        BY <4>1, <4>2, <4>3
    <3> QED
      BY <1>2, <3>2, <3>3
  <2>3. Lifecycle!Move(j, new.status)
    BY <1>0, <2>1, <2>2, LifecycleMove
  <2> QED
    BY <2>1, <2>2, <2>3 DEF Lifecycle!LifecycleNext, Lifecycle!Proceed
<1>3. ASSUME NEW c \in Controllers, NEW op \in Operations, NEW j \in Nat, ControlJob(c, j, op)
      PROVE  Lifecycle!LifecycleNext
  <2>1. Verdict(c, j, op) = "success"
    BY <1>3 DEF ControlJob
  <2>2. j \in DOMAIN jobs /\ jobs[j] \in Job /\ jobs[j].status = ValidForStatus(op)
        /\ op \in {"Stop", "Kill", "Cancel"}
    BY <1>0, <2>1 DEF Verdict, Visible, Operations, JobTypes
  <2> DEFINE new == Perform(c, op, jobs[j])
  <2>3. new \in Job /\ new.status = Lifecycle!Result(op)
    <3>1. new \in Job /\ Performed(c, op, new)
      BY <2>2, PerformFacts
    <3> HIDE DEF new
    <3> QED
      BY <2>2, <3>1 DEF Performed, Lifecycle!Result
  <2>4. jobs' = [jobs EXCEPT ![j] = new]
    BY <1>0, <1>3, <2>1, <2>2 DEF ControlJob, JobTypes
  <2> HIDE DEF new
  <2>5. Lifecycle!Control(j, op)
    BY <1>0, <2>2, <2>3, <2>4, LifecycleMove DEF Lifecycle!Control, Lifecycle!ValidForStatus, ValidForStatus
  <2> QED
    BY <2>2, <2>5 DEF Lifecycle!LifecycleNext, Lifecycle!Operations, Operations
<1>4. \A c \in Controllers : Targets[c] \subseteq Nat
  BY PluginAssumption
<1> QED
  BY <1>0, <1>1, <1>2, <1>3, <1>4, StepCases DEF NewID, SubmitReturns, Elsewhere, jobVars

\* The example plugin implements the documented life cycle of jobs.
THEOREM LifecycleRefinement == Spec => ImplementsLifecycle
  BY LifecycleInitial, LifecycleStep, PluginAlways, PTL
     DEF Spec, ImplementsLifecycle, Lifecycle!LifecycleSpec

-----------------------------------------------------------------------------
(* Output streams.                                                         *)

Written == {"chunk", "complete", "error", "util"}

StreamTypes ==
  /\ out \in [Streams -> Seq(Written)]
  /\ stream \in [Streams -> {"idle", "ticking", "polling", "waiting", "done"}]

\* While its goroutine runs, an output stream is lines only.
OutputInv ==
  /\ StreamTypes
  /\ \A s \in Outputs : stream[s] \in {"idle", "ticking", "done"}
  /\ \A s \in Outputs : stream[s] = "idle" => out[s] = <<>>
  /\ \A s \in Outputs : stream[s] = "ticking" =>
       Len(out[s]) <= Chunks /\ \A i \in DOMAIN out[s] : out[s][i] = "chunk"
  /\ OutputWellFormed

LEMMA OutputInit == Init => OutputInv
<1> SUFFICES ASSUME Init
             PROVE  OutputInv
  OBVIOUS
<1>1. \A s \in Streams : out[s] = <<>> /\ DOMAIN out[s] = {} /\ stream[s] = "idle"
  BY DEF Init
<1>2. StreamTypes
  BY DEF Init, StreamTypes
<1> QED
  BY <1>1, <1>2 DEF OutputInv, OutputWellFormed, Streams

\* Nothing happens to an output stream, but perhaps a cancellation.
LEMMA OutputQuiet ==
  ASSUME OutputInv, StreamTypes', canceled \subseteq canceled',
         \A s \in Outputs : out'[s] = out[s] /\ stream'[s] = stream[s]
  PROVE  OutputInv'
BY DEF OutputInv, OutputWellFormed

\* What writing does.
LEMMA EmitFacts ==
  ASSUME StreamTypes, NEW s \in Streams, NEW ms \in Seq(Written),
         NEW at \in {"ticking", "waiting", "done"}, Emit(s, ms, at)
  PROVE  /\ StreamTypes' /\ UNCHANGED canceled /\ stream'[s] = at
         /\ out'[s] \in {out[s], out[s] \o ms}
         /\ \A t \in Streams : t # s => out'[t] = out[t] /\ stream'[t] = stream[t]
<1>1. out[s] \o ms \in Seq(Written)
  BY DEF StreamTypes
<1>2. PICK new \in Seq(Written) : new = out[s] \o ms
  BY <1>1
<1>3. out' = IF server = "closed" THEN out ELSE [out EXCEPT ![s] = new]
  BY <1>2 DEF Emit
<1>4. out' \in [Streams -> Seq(Written)] /\ out'[s] \in {out[s], new} /\ \A t \in Streams : t # s => out'[t] = out[t]
  BY <1>3 DEF StreamTypes
<1> QED
  BY <1>2, <1>4 DEF Emit, StreamTypes

LEMMA OutputStepKeeps ==
  ASSUME OutputInv, NEW s \in Outputs, OutputStep(s)
  PROVE  OutputInv'
<1>0. s \in Streams /\ Chunks \in Nat /\ StreamTypes
  BY PluginAssumption DEF Streams, OutputInv
<1>1. PICK L \in Nat : L = Len(out[s]) /\ DOMAIN out[s] = 1 .. L
  BY <1>0 DEF StreamTypes
<1>2. stream[s] = "ticking" /\ L <= Chunks /\ \A i \in 1 .. L : out[s][i] = "chunk"
  BY <1>1 DEF OutputInv, OutputStep, OutputTick, OutputDone
<1>3. PICK m \in {"chunk", "complete"}, at \in {"ticking", "done"} :
        /\ Emit(s, <<m>>, at)
        /\ \/ m = "chunk" /\ at = "ticking" /\ L < Chunks
           \/ m = "complete" /\ at = "done" /\ (L = Chunks \/ s \in canceled)
  BY <1>1 DEF OutputStep, OutputTick, OutputDone
<1>4. <<m>> \in Seq(Written) /\ Len(<<m>>) = 1 /\ <<m>>[1] = m
  BY DEF Written
<1>5. /\ StreamTypes' /\ UNCHANGED canceled /\ stream'[s] = at
      /\ out'[s] \in {out[s], out[s] \o <<m>>}
      /\ \A t \in Streams : t # s => out'[t] = out[t] /\ stream'[t] = stream[t]
  BY <1>0, <1>3, <1>4, EmitFacts
<1>6. \/ out'[s] = out[s]
      \/ /\ Len(out'[s]) = L + 1 /\ DOMAIN out'[s] = 1 .. L + 1 /\ out'[s][L + 1] = m
         /\ \A i \in 1 .. L : out'[s][i] = out[s][i]
  <2>1. out[s] \in Seq(Written)
    BY <1>0 DEF StreamTypes
  <2>2. CASE out'[s] = out[s] \o <<m>>
    <3>1. out[s] \o <<m>> = Append(out[s], m)
      BY <1>4, <2>1
    <3> QED
      BY <1>1, <1>4, <2>1, <2>2, <3>1 DEF Written
  <2> QED
    BY <1>5, <2>2
<1>7. ASSUME NEW t \in Outputs
      PROVE  /\ stream'[t] \in {"idle", "ticking", "done"}
             /\ stream'[t] = "idle" => out'[t] = <<>>
             /\ stream'[t] = "ticking" => Len(out'[t]) <= Chunks /\ \A i \in DOMAIN out'[t] : out'[t][i] = "chunk"
             /\ \A i \in DOMAIN out'[t] :
                  /\ out'[t][i] \in {"complete", "error"} => i = Len(out'[t])
                  /\ out'[t][i] = "complete" => i = Chunks + 1 \/ t \in canceled'
                  /\ out'[t][i] = "error" => i = 1
  <2>1. CASE t # s
    <3>1. out'[t] = out[t] /\ stream'[t] = stream[t] /\ canceled' = canceled
      BY <1>5, <2>1 DEF Streams
    <3> QED
      BY <3>1 DEF OutputInv, OutputWellFormed
  <2>2. CASE t = s
    <3>1. CASE out'[s] = out[s]
      BY <1>0, <1>1, <1>2, <1>3, <1>5, <2>2, <3>1
    <3>2. CASE out'[s] # out[s]
      <4>1. /\ Len(out'[s]) = L + 1 /\ DOMAIN out'[s] = 1 .. L + 1 /\ out'[s][L + 1] = m
            /\ \A i \in 1 .. L : out'[s][i] = "chunk"
        BY <1>2, <1>6, <3>2
      <4>2. \A i \in 1 .. L + 1 : i \in 1 .. L \/ i = L + 1
        OBVIOUS
      <4>3. CASE m = "chunk" /\ at = "ticking" /\ L < Chunks
        <5>1. L + 1 <= Chunks /\ \A i \in DOMAIN out'[s] : out'[s][i] = "chunk"
          BY <1>0, <4>1, <4>2, <4>3
        <5> QED
          BY <1>5, <2>2, <4>1, <4>3, <5>1
      <4>4. CASE m = "complete" /\ at = "done" /\ (L = Chunks \/ s \in canceled)
        BY <1>5, <2>2, <4>1, <4>2, <4>4
      <4> QED
        BY <1>3, <4>3, <4>4
    <3> QED
      BY <3>1, <3>2
  <2> QED
    BY <2>1, <2>2
<1> QED
  BY <1>5, <1>7 DEF OutputInv, OutputWellFormed

LEMMA GetJobOutputKeeps ==
  ASSUME OutputInv, NEW s \in Outputs, NEW j, GetJobOutput(s, j)
  PROVE  OutputInv'
<1>0. s \in Streams /\ Chunks \in Nat /\ StreamTypes
  BY PluginAssumption DEF Streams, OutputInv
<1>1. stream[s] = "idle" /\ out[s] = <<>> /\ canceled' = canceled
  BY DEF GetJobOutput, Call, OutputInv
<1> DEFINE e == <<"error">>
<1>2. e \in Seq(Written) /\ Len(e) = 1 /\ DOMAIN e = {1} /\ e[1] = "error"
  <2>1. e \in Seq(Written)
    BY DEF Written
  <2>2. Len(e) = 1 /\ e[1] = "error"
    OBVIOUS
  <2>3. DOMAIN e = 1 .. 1
    BY <2>1, <2>2
  <2> QED
    BY <2>1, <2>2, <2>3
<1>3. \/ stream' = [stream EXCEPT ![s] = "ticking"] /\ out' = out
      \/ stream' = [stream EXCEPT ![s] = "done"] /\ out' = [out EXCEPT ![s] = e]
  BY DEF GetJobOutput, Call
<1> HIDE DEF e
<1>4. StreamTypes'
  <2>1. out' \in [Streams -> Seq(Written)]
    BY <1>0, <1>2, <1>3 DEF StreamTypes
  <2>2. stream' \in [Streams -> {"idle", "ticking", "polling", "waiting", "done"}]
    BY <1>0, <1>3 DEF StreamTypes
  <2> QED
    BY <2>1, <2>2 DEF StreamTypes
<1>5. \A t \in Streams : t # s => out'[t] = out[t] /\ stream'[t] = stream[t]
  BY <1>0, <1>3 DEF StreamTypes
<1>6. \/ stream'[s] = "ticking" /\ out'[s] = <<>>
      \/ stream'[s] = "done" /\ out'[s] = e
  BY <1>0, <1>1, <1>3 DEF StreamTypes
<1>7. <<>> \in Seq(Written) /\ Len(<<>>) = 0 /\ DOMAIN <<>> = {}
  OBVIOUS
<1>8. \A t \in Outputs : t # s => t \in Streams
  BY DEF Streams
<1>9. ASSUME NEW t \in Outputs
      PROVE  /\ stream'[t] \in {"idle", "ticking", "done"}
             /\ stream'[t] = "idle" => out'[t] = <<>>
             /\ stream'[t] = "ticking" => Len(out'[t]) <= Chunks /\ \A i \in DOMAIN out'[t] : out'[t][i] = "chunk"
             /\ \A i \in DOMAIN out'[t] :
                  /\ out'[t][i] \in {"complete", "error"} => i = Len(out'[t])
                  /\ out'[t][i] = "complete" => i = Chunks + 1 \/ t \in canceled'
                  /\ out'[t][i] = "error" => i = 1
  <2>1. CASE t # s
    BY <1>1, <1>5, <1>8, <2>1 DEF OutputInv, OutputWellFormed
  <2>2. CASE t = s
    <3>1. CASE stream'[s] = "ticking" /\ out'[s] = <<>>
      <4>1. DOMAIN out'[s] = {} /\ Len(out'[s]) = 0
        BY <1>7, <3>1
      <4> QED
        BY <1>0, <2>2, <3>1, <4>1
    <3>2. CASE stream'[s] = "done" /\ out'[s] = e
      <4>1. \A i \in DOMAIN out'[s] : i = 1 /\ i = Len(out'[s]) /\ out'[s][i] = "error"
        BY <1>2, <3>2
      <4> QED
        BY <2>2, <3>2, <4>1
    <3> QED
      BY <1>6, <3>1, <3>2
  <2> QED
    BY <2>1, <2>2
<1> QED
  BY <1>4, <1>9 DEF OutputInv, OutputWellFormed

LEMMA UtilStepKeeps ==
  ASSUME OutputInv, NEW s \in Utils, UtilStep(s) \/ \E j : GetJobResourceUtil(s, j)
  PROVE  OutputInv'
<1>0. s \in Streams /\ StreamTypes /\ \A t \in Outputs : t \in Streams /\ t # s
  BY PluginAssumption DEF Streams, OutputInv
<1>1. ASSUME NEW ms \in Seq(Written), NEW at \in {"waiting", "done"}, Emit(s, ms, at)
      PROVE  OutputInv'
  <2>1. /\ StreamTypes' /\ UNCHANGED canceled
        /\ \A t \in Streams : t # s => out'[t] = out[t] /\ stream'[t] = stream[t]
    BY <1>0, <1>1, EmitFacts
  <2> QED
    BY <1>0, <2>1, OutputQuiet
<1>2. ASSUME NEW at \in {"polling", "done"}, stream' = [stream EXCEPT ![s] = at], UNCHANGED <<out, canceled>>
      PROVE  OutputInv'
  <2>1. StreamTypes' /\ \A t \in Outputs : stream'[t] = stream[t]
    BY <1>0, <1>2 DEF StreamTypes
  <2> QED
    BY <1>2, <2>1, OutputQuiet
<1>3. CASE \E j : GetJobResourceUtil(s, j)
  BY <1>2, <1>3 DEF GetJobResourceUtil, Call
<1>4. CASE PollDone(s)
  BY <1>2, <1>4 DEF PollDone
<1>5. CASE Poll(s)
  <2>1. /\ <<>> \in Seq(Written) /\ <<"util">> \in Seq(Written) /\ <<"complete">> \in Seq(Written)
        /\ <<"error">> \in Seq(Written) /\ \A a, b \in Seq(Written) : a \o b \in Seq(Written)
    BY DEF Written
  <2>2. CASE Emit(s, <<"error">>, "done")
    BY <1>1, <2>1, <2>2
  <2>3. CASE \E done : Sample(s, done)
    <3>1. PICK done : Sample(s, done)
      BY <2>3
    <3> DEFINE a == IF out[s] # <<>> /\ out[s][Len(out[s])] = "util" THEN <<>> ELSE <<"util">>
               b == IF done THEN <<"complete">> ELSE <<>>
    <3>2. a \in Seq(Written) /\ b \in Seq(Written)
      BY <2>1
    <3>3. Emit(s, IF Len(out[s] \o (a \o b)) <= MaxUtil THEN a \o b ELSE <<>>, "waiting")
      BY <3>1 DEF Sample
    <3> HIDE DEF a, b
    <3>4. a \o b \in Seq(Written)
      BY <2>1, <3>2
    <3> QED
      BY <1>1, <2>1, <3>3, <3>4
  <2> QED
    BY <1>5, <2>2, <2>3 DEF Poll
<1> QED
  BY <1>3, <1>4, <1>5 DEF UtilStep

LEMMA OutputNext == OutputInv /\ [Next]_vars => OutputInv'
<1> SUFFICES ASSUME OutputInv, [Next]_vars
             PROVE  OutputInv'
  OBVIOUS
<1>1. ASSUME UNCHANGED <<stream, out>>, canceled \subseteq canceled'
      PROVE  OutputInv'
  <2>1. StreamTypes'
    BY <1>1 DEF OutputInv, StreamTypes
  <2> QED
    BY <1>1, <2>1, OutputQuiet
<1>2. ASSUME UNCHANGED streamVars
      PROVE  OutputInv'
  BY <1>1, <1>2 DEF streamVars
<1>3. ASSUME NEW c \in Submitters, SubmitStep(c)
      PROVE  OutputInv'
  BY <1>2, <1>3 DEF SubmitStep, NewID, AddJob, SubmitReturns
<1>4. ASSUME NEW j, JobStep(j)
      PROVE  OutputInv'
  BY <1>2, <1>4 DEF JobStep, StartJob, FinishJob
<1>5. ASSUME NEW c, NEW j, NEW op, ControlJob(c, j, op)
      PROVE  OutputInv'
  BY <1>2, <1>5 DEF ControlJob
<1>6. ASSUME NEW s \in Streams, CancelStream(s)
      PROVE  OutputInv'
  BY <1>1, <1>6 DEF CancelStream
<1>7. CASE Shutdown
  BY <1>1, <1>7 DEF Shutdown
<1>8. CASE ServeReturns
  BY <1>2, <1>8 DEF ServeReturns
<1>9. CASE UNCHANGED vars
  BY <1>2, <1>9 DEF vars
<1> QED
  BY <1>3, <1>4, <1>5, <1>6, <1>7, <1>8, <1>9, GetJobOutputKeeps, OutputStepKeeps, UtilStepKeeps DEF Next

\* Whatever is canceled, and whenever the server leaves, an output stream is its
\* lines and one completion with nothing after it, or a single error: the
\* goroutine's deferred Close runs once.
THEOREM OutputsWellFormed == Spec => []OutputWellFormed
<1>1. OutputInv => OutputWellFormed
  BY DEF OutputInv
<1> QED
  BY <1>1, OutputInit, OutputNext, PTL DEF Spec

=============================================================================
