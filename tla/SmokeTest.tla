----------------------------- MODULE SmokeTest -----------------------------
(***************************************************************************)
(* The smoke test (cmd/smoketest): the main goroutine sends the requests   *)
(* of a menu action and waits for responses on a condition variable, the   *)
(* reader goroutine counts responses and broadcasts, and a timer           *)
(* broadcasts too. Everything the main goroutine does between taking mu    *)
(* and releasing it, in cond.Wait or for good, is one step, and so is the  *)
(* reader's critical section. The plugin answers requests in any order.    *)
(***************************************************************************)
EXTENDS Integers, Sequences, FiniteSets

CONSTANTS
  Menu,         \* the actions offered, of those in AllActions
  MaxIDs,       \* bound: an action is begun while fewer request IDs are used
  MaxResponses  \* bound: responses to streams, and metrics

\* Actions that submit a job and then control it.
Controls == {"cancel", "control", "suspend"}
AllActions == {"simple", "submit", "network", "statuses", "output", "resource", "exit"} \cup Controls
RequestTypes == {"bootstrap", "get", "submit", "control", "output", "resource", "statuses"}
IDs == 0 .. MaxIDs + 5

ASSUME SmokeTestAssumption ==
  Menu \subseteq AllActions /\ MaxIDs \in Nat /\ MaxResponses \in Nat

VARIABLES
  requestID, count,   \* requestID, responseCount
  exited,             \* exited
  submitted,          \* submittedJobIDs; a job is named by the request for it
  lastType,           \* lastRequestType
  finished,           \* outputStreamFinished or resourceStreamFinished
  main,               \* the main goroutine: place, action, stage in it, the
                      \* job it controls, the number of jobs it began with and,
                      \* as history, the last request ID before it
  wait,               \* waitForResponse: request ID, expected, lastCount
  fired,              \* the timer of the present wait has fired
  why,                \* why the last wait failed
  reader,             \* the reader goroutine's place
  alive, open, extra  \* the plugin: running, the requests it may answer yet,
                      \* responses it has sent within MaxResponses

shared == <<requestID, count, exited, submitted, lastType, finished>>
plugin == <<alive, open, extra>>
vars == <<shared, main, wait, fired, why, reader, plugin>>

Init ==
  /\ requestID = 0 /\ count = [id \in IDs |-> 0] /\ exited = FALSE /\ submitted = <<>>
  /\ lastType = "bootstrap" /\ finished = FALSE
  /\ main = [at |-> "boot", act |-> "boot", stage |-> "only", job |-> 0, jobs |-> 0, from |-> 0]
  /\ wait = [id |-> 0, want |-> 1, last |-> 0] /\ fired = FALSE /\ why = "none"
  /\ reader = "reading" /\ alive = TRUE /\ open = {} /\ extra = 0

-----------------------------------------------------------------------------
(* The main goroutine. M is its record at the end of the step.             *)

\* sendRequest's last lines, and main's loop.
Return(M, ok) == [M EXCEPT !.at = IF ok /\ ~exited THEN "prompt" ELSE "stop"]

\* The loop of waitForResponseLocked is entered, unless there is nothing to
\* wait for.
Enter(id, want) == wait' = [id |-> id, want |-> want, last |-> count'[id]]
Waits(M) == [M EXCEPT !.at = IF wait'.last < wait'.want /\ ~exited THEN "waiting" ELSE "checked"]

\* A request, of which only the ID and the type matter here.
Request(id, type) == [id |-> id, type |-> type]

\* A request with a new ID is encoded and its response, or the next of a
\* stream, is waited for. Encoding fails if the plugin is gone.
Send(M, type) ==
  LET id  == requestID + 1
      key == IF type \in {"statuses", "resource"} THEN 0 ELSE id
  IN
  /\ requestID' = id
  /\ lastType' = type
  /\ finished' = IF type \in {"output", "resource"} THEN FALSE ELSE finished
  /\ count' = [count EXCEPT ![key] = 0]
  /\ Enter(key, IF type = "statuses" /\ submitted # <<>> THEN Len(submitted) ELSE 1)
  /\ IF alive THEN /\ open' = open \cup {Request(id, type)}
                   /\ main' = IF type = "statuses" THEN [M EXCEPT !.at = "encoded"] ELSE Waits(M)
              ELSE open' = open /\ main' = Return(M, FALSE)
  /\ fired' = FALSE
  /\ UNCHANGED <<exited, submitted, why, reader, alive, extra>>

\* The stage ends the action.
End(ok) ==
  /\ main' = Return(main, ok)
  /\ UNCHANGED <<shared, wait, fired, why, reader, plugin>>

Goto(at, stage) ==
  /\ main' = [main EXCEPT !.at = at, !.stage = stage]
  /\ UNCHANGED <<shared, wait, fired, why, reader, plugin>>

Last(s) == s[Len(s)]

\* initialize: the bootstrap request, whose response has ID 0.
Bootstrap ==
  /\ main.at = "boot"
  /\ main' = [main EXCEPT !.at = IF alive THEN "encoded" ELSE "aborted"]
  /\ open' = IF alive THEN {Request(0, "bootstrap")} ELSE {}
  /\ UNCHANGED <<shared, wait, fired, why, reader, alive, extra>>

\* waitForResponse takes mu, which was free while the request was encoded.
WaitForResponse ==
  /\ main.at = "encoded"
  /\ count' = count /\ Enter(wait.id, wait.want)
  /\ main' = Waits(main)
  /\ UNCHANGED <<shared, fired, why, reader, plugin>>

\* sendRequest up to the first wait of the action that the user chose.
Choose(act) ==
  LET M == [main EXCEPT !.act = act, !.stage = "first", !.jobs = Len(submitted), !.job = 0,
                        !.from = requestID] IN
  /\ main.at = "prompt" /\ ~exited /\ requestID < MaxIDs
  /\ IF act \in {"network", "output", "resource"} /\ submitted = <<>> THEN End(TRUE)
     ELSE CASE act \in {"simple", "network"} -> Send(M, "get")
            [] act \in {"output", "resource", "statuses"} -> Send(M, act)
            [] act \in Controls \cup {"submit"} -> Send(M, "submit")
            [] act = "exit" -> End(FALSE)

\* The user ends the input, or chooses after the plugin has exited.
EndOfInput == main.at = "prompt" /\ End(FALSE)

\* Mutant of Wake: any broadcast is taken for the response.
Wake_Trusting ==
  /\ main.at = "woken"
  /\ main' = [main EXCEPT !.at = "checked"]
  /\ wait' = [wait EXCEPT !.last = wait.want]
  /\ UNCHANGED <<shared, fired, why, reader, plugin>>

\* cond.Wait returns: a new response, or "Timed out".
Wake ==
  /\ main.at = "woken"
  /\ LET now == count[wait.id] IN
       IF now <= wait.last
       THEN /\ main' = [main EXCEPT !.at = "checked"]
            /\ why' = IF exited THEN "exited" ELSE IF fired THEN "timeout" ELSE "neither"
            /\ UNCHANGED wait
       ELSE /\ wait' = [wait EXCEPT !.last = now]
            /\ main' = Waits(main)
            /\ UNCHANGED why
  /\ fired' = FALSE
  /\ UNCHANGED <<shared, reader, plugin>>

\* controlLastJobAndPrintStatus: the control request, then the query.
ControlLast(stage) ==
  LET M == [main EXCEPT !.stage = stage, !.job = Last(submitted)] IN Send(M, "control")

Query(stage) == Send([main EXCEPT !.stage = stage], "get")

\* Mutant of Submitted: the count of jobs is not compared.
Submitted_Unchecked(ok) == ok /\ submitted # <<>>

\* sendControlJobRequest: the job was submitted.
Submitted(ok) == ok /\ Len(submitted) > main.jobs

\* The wait is over: what the action does next. A cancel request gets no
\* response; encoding it fails if the plugin is gone.
Checked ==
  LET ok == wait.last >= wait.want
      a  == main.act
      st == main.stage
  IN
  /\ main.at = "checked"
  /\ CASE a = "boot" -> Goto(IF ok THEN "prompt" ELSE "aborted", "only")
       [] a \in {"simple", "submit", "network"} -> End(ok)
       [] a = "statuses" -> IF alive THEN Goto("asleep", "only") ELSE End(FALSE)
       [] a \in {"output", "resource"} /\ ok /\ ~finished ->
            /\ count' = count /\ Enter(wait.id, count[wait.id] + 1)
            /\ main' = Waits(main) /\ fired' = FALSE
            /\ UNCHANGED <<shared, why, reader, plugin>>
       [] a \in {"output", "resource"} /\ (finished \/ ~ok) -> End(finished \/ alive)
       [] a \in Controls ->
            CASE st = "first" -> IF ~Submitted(ok) THEN End(FALSE)
                                 ELSE IF a = "cancel" THEN ControlLast("control") ELSE Goto("asleep", "first")
              [] st = "control" -> IF ok THEN Query("query") ELSE End(FALSE)
              [] st = "query" -> IF ok /\ a = "suspend" THEN Goto("asleep", "query") ELSE End(ok)
              [] st = "resume" -> IF ok THEN Query("last") ELSE End(FALSE)
              [] st = "last" -> End(ok)

\* time.Sleep returns.
Awake ==
  /\ main.at = "asleep"
  /\ \/ main.act = "statuses" /\ End(TRUE)
     \/ main.act \in Controls /\ main.stage = "first" /\ ControlLast("control")
     \/ main.act \in Controls /\ main.stage = "query" /\ ControlLast("resume")

\* stop: exited is set and stdin closed; then <-readerDone, or Kill after 30 s.
Stop ==
  /\ main.at = "stop" /\ exited' = TRUE
  /\ main' = [main EXCEPT !.at = "stopping"]
  /\ UNCHANGED <<requestID, count, submitted, lastType, finished, wait, fired, why, reader, plugin>>

StopTimeout ==
  /\ main.at = "stopping" /\ reader # "gone"
  /\ main' = [main EXCEPT !.at = "killed"] /\ alive' = FALSE
  /\ UNCHANGED <<shared, wait, fired, why, reader, open, extra>>

Stopped ==
  /\ main.at \in {"stopping", "killed"} /\ reader = "gone"
  /\ main' = [main EXCEPT !.at = "done"]
  /\ UNCHANGED <<shared, wait, fired, why, reader, plugin>>

-----------------------------------------------------------------------------
(* The reader goroutine, the timer and the plugin.                         *)

\* The responses there may be to a request: its ID, whether it is final,
\* whether it holds jobs, and what it says of the end of a stream (an error
\* ends one). Status and resource streams are answered with ID 0.
Responses(r) ==
  LET new(final, jobs, says) ==
        [id |-> IF r.type \in {"statuses", "resource"} THEN 0 ELSE r.id,
         final |-> final, jobs |-> jobs, says |-> says]
  IN  {new(TRUE, FALSE, "end")} \cup
      CASE r.type \in {"output", "resource"} -> {new(FALSE, FALSE, "more")}
        [] r.type = "statuses"               -> {new(FALSE, FALSE, "nothing")}
        [] OTHER                             -> {new(TRUE, r.type = "submit", "nothing")}

\* outputStreamFinished and resourceStreamFinished after a response.
Finished(resp) ==
  IF lastType \in {"output", "resource"} /\ resp.says # "nothing" THEN resp.says = "end" ELSE finished

\* The critical section of readResponses for a response.
Count(resp, job) ==
  /\ count' = [count EXCEPT ![resp.id] = @ + 1]
  /\ submitted' = IF lastType = "submit" /\ resp.jobs THEN Append(submitted, job) ELSE submitted
  /\ finished' = Finished(resp)
  /\ reader' = "counted"
  /\ UNCHANGED <<requestID, exited, lastType, main, wait, fired, why, alive>>

\* The plugin answers a request, or sends metrics, and the reader reads it.
Receive ==
  /\ reader = "reading" /\ alive
  /\ \/ \E r \in open : \E resp \in Responses(r) :
          /\ Count(resp, r.id)
          /\ open' = IF resp.final THEN open \ {r} ELSE open
          /\ extra' = IF resp.final THEN extra ELSE extra + 1
     \/ /\ Count([id |-> 0, jobs |-> FALSE, says |-> "nothing"], 0)
        /\ extra' = extra + 1 /\ UNCHANGED open
  /\ extra' <= MaxResponses

Woken == IF main.at = "waiting" THEN [main EXCEPT !.at = "woken"] ELSE main

Broadcast ==
  /\ reader = "counted" /\ reader' = "reading"
  /\ main' = Woken
  /\ UNCHANGED <<shared, wait, fired, why, plugin>>

\* Mutant of ReaderExits: exited is set after the last broadcast.
ReaderExits_Late ==
  \/ /\ reader = "reading" /\ ~alive /\ reader' = "exiting"
     /\ main' = Woken
     /\ UNCHANGED <<shared, wait, fired, why, plugin>>
  \/ /\ reader = "exiting" /\ reader' = "gone" /\ exited' = TRUE
     /\ UNCHANGED <<requestID, count, submitted, lastType, finished, main, wait, fired, why, plugin>>

\* The stream ends: exited is set, then the last broadcast; the goroutine ends.
ReaderExits ==
  \/ /\ reader = "reading" /\ ~alive /\ reader' = "exiting" /\ exited' = TRUE
     /\ UNCHANGED <<requestID, count, submitted, lastType, finished, main, wait, fired, why, plugin>>
  \/ /\ reader = "exiting" /\ reader' = "gone"
     /\ main' = Woken
     /\ UNCHANGED <<shared, wait, fired, why, plugin>>

\* Mutant of Timer: no timer is set.
Timer_None == FALSE /\ UNCHANGED vars

\* The 30-second timer of a wait. (One that fires while it is stopped broadcasts
\* as late as a reader can.)
Timer ==
  /\ main.at = "waiting" /\ main' = Woken /\ fired' = TRUE
  /\ UNCHANGED <<shared, wait, why, reader, plugin>>

PluginExits ==
  /\ alive /\ alive' = FALSE
  /\ UNCHANGED <<shared, main, wait, fired, why, reader, open, extra>>

-----------------------------------------------------------------------------
MainStep == WaitForResponse \/ Wake \/ Checked \/ Awake \/ Stop \/ Stopped

Next ==
  \/ Bootstrap \/ EndOfInput \/ \E act \in Menu : Choose(act)
  \/ MainStep \/ StopTimeout \/ Receive \/ Broadcast \/ ReaderExits \/ Timer \/ PluginExits

Spec == Init /\ [][Next]_vars

\* Goroutines run and timers fire. Nothing makes the user choose or the plugin
\* answer or exit.
Fairness ==
  /\ WF_vars(Bootstrap) /\ WF_vars(MainStep) /\ WF_vars(StopTimeout) /\ WF_vars(Broadcast)
  /\ WF_vars(ReaderExits) /\ WF_vars(Timer)

FairSpec == Spec /\ Fairness

-----------------------------------------------------------------------------
(* Safety.                                                                 *)

Mains ==
  [at : {"boot", "encoded", "prompt", "waiting", "woken", "checked", "asleep", "stop", "stopping", "killed",
         "done", "aborted"},
   act : AllActions \cup {"boot"}, stage : {"only", "first", "control", "query", "resume", "last"},
   job : IDs, jobs : Nat, from : IDs]

TypeOK ==
  /\ requestID \in IDs /\ count \in [IDs -> Nat] /\ exited \in BOOLEAN /\ submitted \in Seq(IDs \ {0})
  /\ lastType \in RequestTypes /\ finished \in BOOLEAN
  /\ main \in Mains
  /\ wait \in [id : IDs, want : Nat \ {0}, last : Nat]
  /\ fired \in BOOLEAN /\ why \in {"none", "exited", "timeout", "neither"}
  /\ reader \in {"reading", "counted", "exiting", "gone"}
  /\ alive \in BOOLEAN /\ open \subseteq [id : IDs, type : RequestTypes] /\ extra \in 0 .. MaxResponses

\* A job that is stopped, killed, canceled, suspended or resumed was submitted
\* by the same menu action, never by an earlier one.
ControlsOwnJob ==
  main.job # 0 => main.job > main.from /\ \E i \in main.jobs + 1 .. Len(submitted) : submitted[i] = main.job

\* An action of one request goes on to the next prompt only if its request was
\* answered.
AnsweredOrStopped ==
  main.at = "prompt" /\ main.act \in {"simple", "submit", "network"} /\ wait.id # 0
    => count[wait.id] > 0 /\ wait.id \notin {r.id : r \in open}

\* Nobody sleeps on the condition variable once the reader is gone: its last
\* broadcast comes after exited is set, and exited is checked before each wait.
NoLostWakeup == reader = "gone" => main.at # "waiting"

-----------------------------------------------------------------------------
(* Liveness.                                                               *)

\* A wait ends, though the plugin never answers; and once the user leaves, or the
\* plugin is gone and the user chooses again, the smoke test terminates, though
\* the plugin does not react to the end of stdin.
WaitsEnd ==
  /\ main.at = "waiting" ~> main.at # "waiting"
  /\ main.at = "stop" ~> main.at = "done"

-----------------------------------------------------------------------------
(* What the documentation says and the code does not do.                   *)

\* "Returns false on timeout or plugin exit" (cmd/smoketest/smoketest.go:239).
FalseOnlyOnTimeout == why # "neither"

=============================================================================
