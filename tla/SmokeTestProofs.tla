-------------------------- MODULE SmokeTestProofs --------------------------
(***************************************************************************)
(* Proofs about SmokeTest, for any menu and any bounds: whatever the       *)
(* plugin answers, and in which order, no wake-up is lost, silence is not  *)
(* taken for an answer and a job that is controlled is the user's latest.  *)
(***************************************************************************)
EXTENDS SmokeTest, TLAPS

-----------------------------------------------------------------------------
(* Sequences used as Go channels.                                          *)

\* A send on a channel adds one element at its end.
LEMMA AppendFacts ==
  ASSUME NEW S, NEW q \in Seq(S), NEW e \in S
  PROVE  /\ Append(q, e) \in Seq(S)
         /\ Len(Append(q, e)) = Len(q) + 1
         /\ DOMAIN Append(q, e) = 1 .. Len(q) + 1
         /\ DOMAIN q = 1 .. Len(q)
         /\ \A i \in DOMAIN q : Append(q, e)[i] = q[i]
         /\ Append(q, e)[Len(q) + 1] = e
  OBVIOUS

-----------------------------------------------------------------------------
(* Waking up.                                                              *)

\* The reader sets exited before its last broadcast.
WakeInv ==
  /\ reader \in {"exiting", "gone"} => exited
  /\ NoLostWakeup

-----------------------------------------------------------------------------
(* Requests and answers.                                                   *)

\* Requests with a single response of the same ID.
Single == {"get", "submit", "control"}

\* The requests an action has sent when it has come to a stage.
Used(stage) ==
  CASE stage \in {"only", "first"} -> 1
    [] stage = "control" -> 2
    [] stage = "query"   -> 3
    [] stage = "resume"  -> 4
    [] stage = "last"    -> 5

\* Where the main goroutine can be, and how many IDs it has used.
Shape ==
  /\ main.from <= MaxIDs /\ requestID <= main.from + Used(main.stage)
  /\ main.act # "exit"
  /\ IF main.act \in Controls THEN main.stage # "only" ELSE main.stage \in {"only", "first"}
  /\ main.at = "asleep" => main.act = "statuses" \/ (main.act \in Controls /\ main.stage \in {"first", "query"})

\* Requests are told apart by their IDs, and one that is open has no response
\* yet if it gets a single one.
Open ==
  /\ \A r \in open : r.id <= requestID /\ (r.id = 0 <=> r.type = "bootstrap")
  /\ \A q, r \in open : q.id = r.id => q = r
  /\ \A r \in open : r.type \in Single => count[r.id] = 0

\* What the main goroutine waits for: it has seen no more responses than came,
\* and only output streams have an ID that gets several.
Waiting ==
  /\ wait.last <= count[wait.id]
  /\ wait.id <= requestID
  /\ main.act # "output" => \A r \in open : r.id = wait.id /\ r.id # 0 => r.type \in Single
  /\ main.at = "prompt" /\ main.act \in {"simple", "submit", "network"} => wait.last >= wait.want

\* A request for a job that is open is the one the action in progress waits for,
\* so none is when the next action begins.
Pending ==
  \A r \in open : r.type = "submit" =>
    /\ r.id > main.from /\ r.id = wait.id /\ main.stage = "first"
    /\ main.act \in Controls \cup {"submit"} /\ main.at \notin {"boot", "encoded", "prompt", "asleep"}

\* The jobs that came since the action began are its own, and there is one
\* before it goes on.
Own ==
  /\ main.jobs <= Len(submitted)
  /\ \A i \in main.jobs + 1 .. Len(submitted) : submitted[i] > main.from
  /\ main.act \in Controls /\ (main.stage # "first" \/ main.at = "asleep") => Len(submitted) > main.jobs
  /\ ControlsOwnJob

AnswerInv == TypeOK /\ Shape /\ Open /\ Waiting /\ Pending /\ Own

-----------------------------------------------------------------------------
(* What a step does.                                                       *)

\* The record of the main goroutine when an action is chosen, and its request.
Chosen(act) ==
  [main EXCEPT !.act = act, !.stage = "first", !.jobs = Len(submitted), !.job = 0, !.from = requestID]

FirstType(act) ==
  CASE act \in {"simple", "network"}  -> "get"
    [] act \in {"output", "resource", "statuses"} -> act
    [] act \in Controls \cup {"submit"} -> "submit"

LEMMA ChooseCases ==
  ASSUME NEW act \in Menu, Choose(act)
  PROVE  /\ main.at = "prompt" /\ requestID < MaxIDs
         /\ \/ \E b \in BOOLEAN : End(b)
            \/ act \in AllActions \ {"exit"} /\ Send(Chosen(act), FirstType(act))
<1>1. act \in AllActions
  BY SmokeTestAssumption
<1>2. CASE act \in {"network", "output", "resource"} /\ submitted = <<>>
  BY <1>2 DEF Choose, End, Return
<1>3. CASE act = "exit"
  BY <1>3 DEF Choose, Controls, End, Return
<1>4. CASE act # "exit" /\ ~(act \in {"network", "output", "resource"} /\ submitted = <<>>)
  <2>1. Send(Chosen(act), FirstType(act))
    BY <1>1, <1>4 DEF Choose, Chosen, FirstType, Controls, AllActions
  <2> QED
    BY <1>1, <1>4, <2>1 DEF Choose
<1> QED
  BY <1>2, <1>3, <1>4

\* The wait was ended by a response.
Ok == wait.last >= wait.want

\* The next wait of an output or resource stream.
Again ==
  /\ main.act \in {"output", "resource"}
  /\ count' = count /\ Enter(wait.id, count[wait.id] + 1)
  /\ main' = Waits(main) /\ fired' = FALSE
  /\ UNCHANGED <<shared, why, reader, plugin>>

\* An action that controls its job goes on.
GoesOn ==
  /\ main.act \in Controls /\ Ok
  /\ \/ /\ main.stage = "first" /\ Len(submitted) > main.jobs
        /\ ControlLast("control") \/ Goto("asleep", "first")
     \/ main.stage = "control" /\ Query("query")
     \/ main.stage = "query" /\ Goto("asleep", "query")
     \/ main.stage = "resume" /\ Query("last")

LEMMA CheckedCases ==
  ASSUME TypeOK, Shape, Checked
  PROVE  /\ main.at = "checked"
         /\ \/ main.act = "boot" /\ Goto(IF Ok THEN "prompt" ELSE "aborted", "only")
            \/ \E b \in BOOLEAN : End(b) /\ (b /\ main.act \notin {"output", "resource"} => Ok)
            \/ main.act = "statuses" /\ Goto("asleep", "only")
            \/ Again
            \/ GoesOn
<1>1. main.act \in AllActions \cup {"boot"} /\ finished \in BOOLEAN /\ alive \in BOOLEAN /\ Ok \in BOOLEAN
  BY DEF TypeOK, Mains, Ok
<1>2. CASE main.act = "boot"
  BY <1>2 DEF Checked, Controls, Ok, Goto
<1>3. CASE main.act \in {"simple", "submit", "network"}
  BY <1>1, <1>3 DEF Checked, Controls, Ok, End, Return
<1>4. CASE main.act = "statuses"
  BY <1>1, <1>4 DEF Checked, Controls, End, Return
<1>5. CASE main.act \in {"output", "resource"}
  <2>1. CASE Ok /\ ~finished
    BY <1>5, <2>1 DEF Checked, Controls, Ok, Again
  <2>2. CASE finished \/ ~Ok
    BY <1>1, <1>5, <2>2 DEF Checked, Controls, Ok, End, Return
  <2> QED
    BY <1>1, <2>1, <2>2
<1>6. CASE main.act \in Controls
  <2>1. main.stage \in {"first", "control", "query", "resume", "last"}
    BY <1>6 DEF TypeOK, Mains, Shape
  <2>2. CASE main.stage = "first"
    BY <1>6, <2>2 DEF Checked, Ok, Controls, Submitted, GoesOn
  <2>3. CASE main.stage = "control"
    BY <1>6, <2>3 DEF Checked, Ok, Controls, GoesOn
  <2>4. CASE main.stage = "query"
    BY <1>1, <1>6, <2>4 DEF Checked, Ok, Controls, GoesOn
  <2>5. CASE main.stage = "resume"
    BY <1>6, <2>5 DEF Checked, Ok, Controls, GoesOn
  <2>6. CASE main.stage = "last"
    BY <1>1, <1>6, <2>6 DEF Checked, Ok, Controls
  <2> QED
    BY <2>1, <2>2, <2>3, <2>4, <2>5, <2>6
<1> QED
  BY <1>1, <1>2, <1>3, <1>4, <1>5, <1>6 DEF AllActions, Controls, Shape

\* What Send does.
LEMMA SendFacts ==
  ASSUME TypeOK, NEW M \in Mains, NEW type \in RequestTypes, requestID + 1 \in IDs, Send(M, type)
  PROVE  /\ TypeOK'
         /\ requestID' = requestID + 1 /\ submitted' = submitted
         /\ wait'.id = (IF type \in {"statuses", "resource"} THEN 0 ELSE requestID + 1) /\ wait'.last = 0
         /\ count' = [count EXCEPT ![wait'.id] = 0]
         /\ open' \in {open, open \cup {Request(requestID + 1, type)}}
         /\ \E x \in {"encoded", "waiting", "checked", "stop"} :
              main' = [M EXCEPT !.at = x] /\ (x = "encoded" => type = "statuses")
<1> DEFINE key == IF type \in {"statuses", "resource"} THEN 0 ELSE requestID + 1
           want == IF type = "statuses" /\ submitted # <<>> THEN Len(submitted) ELSE 1
<1>1. key \in IDs /\ Request(requestID + 1, type) \in [id : IDs, type : RequestTypes]
  BY SmokeTestAssumption DEF IDs, Request
<1>2. want \in Nat \ {0}
  BY DEF TypeOK
<1>3. count' = [count EXCEPT ![key] = 0] /\ count' \in [IDs -> Nat] /\ count'[key] = 0
  BY <1>1 DEF Send, TypeOK
<1>4. wait' = [id |-> key, want |-> want, last |-> 0]
  BY <1>3 DEF Send, Enter
<1>5. wait' \in [id : IDs, want : Nat \ {0}, last : Nat] /\ wait'.id = key /\ wait'.last = 0
  BY <1>1, <1>2, <1>4
<1>6. /\ requestID' = requestID + 1 /\ lastType' = type /\ finished' \in BOOLEAN /\ fired' = FALSE
      /\ UNCHANGED <<exited, submitted, why, reader, alive, extra>>
      /\ open' \in {open, open \cup {Request(requestID + 1, type)}}
  BY DEF Send, TypeOK
<1>7. \E x \in {"encoded", "waiting", "checked", "stop"} :
        main' = [M EXCEPT !.at = x] /\ (x = "encoded" => type = "statuses")
  BY DEF Send, Waits, Return
<1>8. main' \in Mains
  BY <1>7 DEF Mains
<1>9. TypeOK'
  BY <1>1, <1>3, <1>5, <1>6, <1>8 DEF TypeOK
<1> QED
  BY <1>3, <1>5, <1>6, <1>7, <1>9

\* A wait in progress or over: nothing but the place changes, or what was seen.
LEMMA Quiet ==
  ASSUME AnswerInv, TypeOK', UNCHANGED <<requestID, count, submitted, open>>, NEW x,
         main' = [main EXCEPT !.at = x], x \notin {"boot", "encoded", "prompt", "asleep"} \/ x = main.at,
         wait'.id = wait.id, wait'.last <= count[wait.id], x = "prompt" => wait' = wait
  PROVE  AnswerInv'
<1> USE DEF AnswerInv
<1>1. /\ main'.act = main.act /\ main'.stage = main.stage /\ main'.job = main.job
      /\ main'.jobs = main.jobs /\ main'.from = main.from /\ main'.at = x
  BY DEF TypeOK, Mains
<1>2. Shape' /\ Open'
  BY <1>1 DEF Shape, Open
<1>3. Waiting'
  BY <1>1 DEF Waiting
<1>4. Pending'
  BY <1>1 DEF Pending
<1>5. Own'
  BY <1>1 DEF Own, ControlsOwnJob
<1> QED
  BY <1>2, <1>3, <1>4, <1>5

\* A request that the action may send next, M being where it will be then.
MaySend(M, type) ==
  /\ M \in Mains /\ type \in RequestTypes \ {"bootstrap"}
  /\ M.from <= MaxIDs /\ requestID + 1 <= M.from + Used(M.stage)
  /\ M.act # "exit"
  /\ IF M.act \in Controls THEN M.stage # "only" ELSE M.stage \in {"only", "first"}
  /\ type = "output" <=> M.act = "output"
  /\ type = "submit" => M.stage = "first" /\ M.act \in Controls \cup {"submit"} /\ requestID + 1 > M.from
  /\ type = "statuses" => M.act = "statuses"
  /\ M.jobs <= Len(submitted)
  /\ \A i \in M.jobs + 1 .. Len(submitted) : submitted[i] > M.from
  /\ M.act \in Controls /\ M.stage # "first" => Len(submitted) > M.jobs
  /\ M.job # 0 => M.job > M.from /\ \E i \in M.jobs + 1 .. Len(submitted) : submitted[i] = M.job

LEMMA UsedBound ==
  ASSUME NEW stage \in {"only", "first", "control", "query", "resume", "last"}
  PROVE  Used(stage) \in 1 .. 5
BY DEF Used

LEMMA SendKeeps ==
  ASSUME AnswerInv, NEW M, NEW type, MaySend(M, type), Send(M, type), \A r \in open : r.type # "submit"
  PROVE  AnswerInv'
<1> USE DEF AnswerInv
<1>1. M \in Mains /\ type \in RequestTypes \ {"bootstrap"} /\ requestID + 1 \in IDs /\ requestID \in Nat
  <2>1. M \in Mains /\ type \in RequestTypes \ {"bootstrap"}
    BY DEF MaySend
  <2>2. Used(M.stage) \in 1 .. 5 /\ M.from \in Nat /\ MaxIDs \in Nat /\ requestID \in Nat
    <3>1. M.stage \in {"only", "first", "control", "query", "resume", "last"} /\ M.from \in IDs
      BY <2>1 DEF Mains
    <3>2. Used(M.stage) \in 1 .. 5
      BY <3>1, UsedBound
    <3>3. MaxIDs \in Nat /\ M.from \in Nat /\ requestID \in Nat
      BY <3>1, SmokeTestAssumption DEF IDs, TypeOK
    <3> QED
      BY <3>2, <3>3
  <2>3. requestID + 1 <= M.from + Used(M.stage) /\ M.from <= MaxIDs
    BY DEF MaySend
  <2> QED
    BY <2>1, <2>2, <2>3 DEF IDs
<1>2. /\ TypeOK'
      /\ requestID' = requestID + 1 /\ submitted' = submitted
      /\ wait'.id = (IF type \in {"statuses", "resource"} THEN 0 ELSE requestID + 1) /\ wait'.last = 0
      /\ count' = [count EXCEPT ![wait'.id] = 0]
      /\ open' \in {open, open \cup {Request(requestID + 1, type)}}
  BY <1>1, SendFacts
<1>3. PICK x \in {"encoded", "waiting", "checked", "stop"} :
        main' = [M EXCEPT !.at = x] /\ (x = "encoded" => type = "statuses")
  BY <1>1, SendFacts
<1>4. /\ main'.act = M.act /\ main'.stage = M.stage /\ main'.job = M.job
      /\ main'.jobs = M.jobs /\ main'.from = M.from /\ main'.at = x
  BY <1>1, <1>3 DEF Mains
<1>5. Shape'
  BY <1>2, <1>4 DEF Shape, MaySend
<1>6. /\ wait'.id \in IDs /\ count' \in [IDs -> Nat] /\ count'[wait'.id] = 0
      /\ \A id \in IDs : id # wait'.id => count'[id] = count[id]
  BY <1>2 DEF TypeOK
<1>7. \A r \in open' : r \in open \/ (r.id = requestID + 1 /\ r.type = type)
  BY <1>2 DEF Request
<1>8. \A r \in open : r.id \in IDs /\ r.id \in Nat /\ r.id <= requestID /\ r.type \in RequestTypes
  BY DEF TypeOK, Open, IDs
<1>9. Open'
  <2>1. \A r \in open' : r.id <= requestID' /\ (r.id = 0 <=> r.type = "bootstrap")
    BY <1>1, <1>2, <1>7, <1>8 DEF Open
  <2>2. \A q, r \in open' : q.id = r.id => q = r
    <3>1. \A q, r \in open' : q \notin open /\ r \notin open => q = r
      BY <1>2
    <3> QED
      BY <1>1, <1>7, <1>8, <3>1 DEF Open
  <2>3. \A r \in open' : r.type \in Single => count'[r.id] = 0
    <3> SUFFICES ASSUME NEW r \in open', r.type \in Single
                 PROVE  count'[r.id] = 0
      OBVIOUS
    <3>1. CASE r \in open
      BY <1>6, <1>8, <3>1 DEF Open
    <3>2. CASE r.id = requestID + 1 /\ r.type = type
      BY <1>2, <1>6, <3>2 DEF Single
    <3> QED
      BY <1>7, <3>1, <3>2
  <2> QED
    BY <2>1, <2>2, <2>3 DEF Open
<1>10. Waiting'
  <2>1. wait'.last <= count'[wait'.id] /\ wait'.id <= requestID'
    BY <1>1, <1>2, <1>6
  <2>2. main'.at # "prompt"
    BY <1>4
  <2>3. ASSUME main'.act # "output", NEW r \in open', r.id = wait'.id, r.id # 0
        PROVE  r.type \in Single
    <3>1. r.id = requestID + 1 /\ type \notin {"statuses", "resource"}
      BY <1>2, <2>3
    <3>2. r.type = type
      BY <1>1, <1>7, <1>8, <3>1
    <3>3. type # "output"
      BY <1>4, <2>3 DEF MaySend
    <3> QED
      BY <1>1, <3>1, <3>2, <3>3 DEF RequestTypes, Single
  <2> QED
    BY <2>1, <2>2, <2>3 DEF Waiting
<1>11. Pending'
  <2> SUFFICES ASSUME NEW r \in open', r.type = "submit"
               PROVE  /\ r.id > main'.from /\ r.id = wait'.id /\ main'.stage = "first"
                      /\ main'.act \in Controls \cup {"submit"}
                      /\ main'.at \notin {"boot", "encoded", "prompt", "asleep"}
    BY DEF Pending
  <2>1. r.id = requestID + 1 /\ type = "submit"
    BY <1>7
  <2> QED
    BY <1>2, <1>3, <1>4, <2>1 DEF MaySend
<1>12. Own'
  BY <1>2, <1>4 DEF Own, ControlsOwnJob, MaySend
<1> QED
  BY <1>2, <1>5, <1>9, <1>10, <1>11, <1>12

\* A response that is read: its request is closed if it was the last, and only
\* the answer to a request for a job brings one.
LEMMA ReceiveFacts ==
  ASSUME AnswerInv, Receive
  PROVE  /\ TypeOK' /\ open' \subseteq open /\ UNCHANGED <<requestID, main, wait>>
         /\ \E id \in IDs : /\ count' = [count EXCEPT ![id] = @ + 1]
                           /\ \A q \in open' : q.type \in Single => q.id # id
         /\ \/ submitted' = submitted
            \/ \E r \in open : r.type = "submit" /\ submitted' = Append(submitted, r.id)
<1> USE DEF AnswerInv
<1>0. UNCHANGED <<requestID, exited, lastType, main, wait, fired, why, alive>> /\ reader' = "counted"
  BY DEF Receive, Count
<1>1. extra' \in 0 .. MaxResponses
  BY SmokeTestAssumption DEF Receive, TypeOK
<1>2. \A q \in open : q.type \in Single => q.id # 0
  BY DEF Open, Single
<1>3. ASSUME NEW r \in open, NEW resp \in Responses(r), Count(resp, r.id),
             open' = IF resp.final THEN open \ {r} ELSE open
      PROVE  /\ TypeOK' /\ open' \subseteq open /\ UNCHANGED <<requestID, main, wait>>
             /\ \E id \in IDs : /\ count' = [count EXCEPT ![id] = @ + 1]
                               /\ \A q \in open' : q.type \in Single => q.id # id
             /\ \/ submitted' = submitted
                \/ \E q \in open : q.type = "submit" /\ submitted' = Append(submitted, q.id)
  <2>1. r.id \in IDs /\ r.type \in RequestTypes /\ 0 \in IDs
    BY SmokeTestAssumption DEF TypeOK, IDs
  <2>2. /\ resp.id \in {0, r.id} /\ (r.type \in Single => resp.final)
        /\ (resp.jobs => r.type = "submit") /\ resp.says \in {"end", "more", "nothing"}
    <3>1. CASE r.type \in {"output", "resource"}
      BY <3>1 DEF Responses, Single
    <3>2. CASE r.type = "statuses"
      BY <3>2 DEF Responses, Single
    <3>3. CASE r.type = "submit"
      BY <3>3 DEF Responses, Single
    <3>4. CASE r.type \in {"get", "control", "bootstrap"}
      <4>1. (r.type = "submit") = FALSE
        BY <3>4
      <4>2. \E says \in {"end", "nothing"} : resp = [id |-> r.id, final |-> TRUE, jobs |-> FALSE, says |-> says]
        BY <3>4, <4>1 DEF Responses
      <4> QED
        BY <4>2
    <3> QED
      BY <2>1, <3>1, <3>2, <3>3, <3>4 DEF RequestTypes, Single
  <2>3. \A q \in open' : q.type \in Single => q.id # resp.id
    BY <1>2, <1>3, <2>2 DEF Open
  <2>4. /\ count' = [count EXCEPT ![resp.id] = @ + 1] /\ count' \in [IDs -> Nat] /\ finished' \in BOOLEAN
        /\ submitted' = IF lastType = "submit" /\ resp.jobs THEN Append(submitted, r.id) ELSE submitted
    <3>1. resp.id \in IDs
      BY <2>1, <2>2
    <3>2. count' = [count EXCEPT ![resp.id] = @ + 1] /\ count' \in [IDs -> Nat]
      BY <1>3, <3>1 DEF Count, TypeOK
    <3>3. finished' \in BOOLEAN
      BY <1>3 DEF Count, Finished, TypeOK
    <3> QED
      BY <1>3, <3>2, <3>3 DEF Count
  <2>5. \/ submitted' = submitted
        \/ r.type = "submit" /\ submitted' = Append(submitted, r.id)
    BY <2>2, <2>4
  <2>6. submitted' \in Seq(IDs \ {0})
    <3>1. r.type = "submit" => r.id # 0
      BY DEF Open
    <3>2. submitted \in Seq(IDs \ {0}) /\ (r.type = "submit" => r.id \in IDs \ {0})
      BY <2>1, <3>1 DEF TypeOK
    <3> QED
      BY <2>5, <3>2, AppendFacts
  <2>7. TypeOK'
    BY <1>0, <1>1, <1>3, <2>4, <2>6 DEF TypeOK
  <2> QED
    BY <1>0, <1>3, <2>1, <2>2, <2>3, <2>4, <2>5, <2>7
<1>4. ASSUME Count([id |-> 0, jobs |-> FALSE, says |-> "nothing"], 0), UNCHANGED open
      PROVE  /\ TypeOK' /\ open' \subseteq open /\ UNCHANGED <<requestID, main, wait>>
             /\ \E id \in IDs : /\ count' = [count EXCEPT ![id] = @ + 1]
                               /\ \A q \in open' : q.type \in Single => q.id # id
             /\ submitted' = submitted
  <2>1. 0 \in IDs
    BY SmokeTestAssumption DEF IDs
  <2>2. /\ count' = [count EXCEPT ![0] = @ + 1] /\ count' \in [IDs -> Nat] /\ finished' \in BOOLEAN
        /\ submitted' = submitted
    BY <1>4, <2>1 DEF Count, Finished, TypeOK
  <2>3. TypeOK'
    BY <1>0, <1>1, <1>4, <2>2 DEF TypeOK
  <2> QED
    BY <1>0, <1>2, <1>4, <2>1, <2>2, <2>3
<1> QED
  BY <1>3, <1>4 DEF Receive

LEMMA ReceiveKeeps ==
  ASSUME AnswerInv, Receive
  PROVE  AnswerInv'
<1> USE DEF AnswerInv
<1>1. TypeOK' /\ open' \subseteq open /\ UNCHANGED <<requestID, main, wait>>
  BY ReceiveFacts
<1>2. PICK id \in IDs : /\ count' = [count EXCEPT ![id] = @ + 1]
                        /\ \A q \in open' : q.type \in Single => q.id # id
  BY ReceiveFacts
<1>3. \A k \in IDs : count[k] \in Nat /\ count'[k] \in Nat /\ count[k] <= count'[k] /\ (k # id => count'[k] = count[k])
  BY <1>2 DEF TypeOK
<1>4. \A r \in open : r.id \in IDs
  BY DEF TypeOK
<1>5. Shape' /\ Pending'
  BY <1>1 DEF Shape, Pending
<1>6. Open'
  BY <1>1, <1>2, <1>3, <1>4 DEF Open
<1>7. Waiting'
  <2>1. wait.id \in IDs /\ wait.last \in Nat
    BY DEF TypeOK
  <2>2. wait.last <= count'[wait.id]
    BY <1>3, <2>1 DEF Waiting
  <2> QED
    BY <1>1, <2>2 DEF Waiting
<1>8. Own'
  <2>1. CASE submitted' = submitted
    BY <1>1, <2>1 DEF Own, ControlsOwnJob
  <2>2. ASSUME NEW r \in open, r.type = "submit", submitted' = Append(submitted, r.id)
        PROVE  Own'
    <3>1. r.id > main.from /\ main.jobs \in Nat
      BY <2>2 DEF Pending, TypeOK, Mains
    <3>2. submitted \in Seq(IDs \ {0}) /\ Len(submitted) \in Nat
      BY DEF TypeOK
    <3>3. /\ Len(submitted') = Len(submitted) + 1 /\ submitted'[Len(submitted) + 1] = r.id
          /\ \A i \in 1 .. Len(submitted) : submitted'[i] = submitted[i]
      BY <2>2, <3>2
    <3>4. \A i \in main.jobs + 1 .. Len(submitted') : submitted'[i] > main.from
      BY <3>1, <3>2, <3>3 DEF Own
    <3>5. ControlsOwnJob'
      BY <1>1, <3>1, <3>2, <3>3 DEF Own, ControlsOwnJob
    <3> QED
      BY <1>1, <3>1, <3>2, <3>3, <3>4, <3>5 DEF Own
  <2> QED
    BY <2>1, <2>2, ReceiveFacts
<1> QED
  BY <1>1, <1>5, <1>6, <1>7, <1>8

\* No request for a job is open when an action comes to an end or goes on.
LEMMA NoneOpen ==
  ASSUME AnswerInv, Ok \/ main.at \in {"prompt", "asleep"} \/ main.act \notin Controls \cup {"submit"}
  PROVE  \A r \in open : r.type # "submit"
<1> USE DEF AnswerInv
<1> SUFFICES ASSUME NEW r \in open, r.type = "submit"
             PROVE  FALSE
  OBVIOUS
<1>1. r.id = wait.id /\ main.at \notin {"prompt", "asleep"} /\ main.act \in Controls \cup {"submit"}
  BY DEF Pending
<1>2. count[wait.id] = 0
  BY <1>1 DEF Open, Single
<1>3. wait.last \in Nat /\ wait.want \in Nat \ {0} /\ wait.last <= 0
  BY <1>2 DEF TypeOK, Waiting
<1> QED
  BY <1>1, <1>3 DEF Ok

\* The main goroutine comes to the prompt or falls asleep.
Rests(x, stage) ==
  /\ x \in {"prompt", "asleep"} /\ main' = [main EXCEPT !.at = x, !.stage = stage]
  /\ stage = main.stage \/ (stage = "only" /\ main.act \notin Controls)
  /\ x = "prompt" /\ main.act \in {"simple", "submit", "network"} => Ok
  /\ x = "asleep" /\ main.act # "statuses" =>
       main.act \in Controls /\ stage \in {"first", "query"} /\ Len(submitted) > main.jobs

LEMMA RestKeeps ==
  ASSUME AnswerInv, UNCHANGED <<shared, wait, fired, why, reader, plugin>>, NEW x, NEW stage, Rests(x, stage),
         \A r \in open : r.type # "submit"
  PROVE  AnswerInv'
<1> USE DEF AnswerInv
<1>0. UNCHANGED <<requestID, count, submitted, open, wait>>
  BY DEF shared, plugin
<1>1. /\ main'.act = main.act /\ main'.stage = stage /\ main'.job = main.job
      /\ main'.jobs = main.jobs /\ main'.from = main.from /\ main'.at = x
      /\ stage \in {"only", "first", "control", "query", "resume", "last"}
  BY DEF TypeOK, Mains, Rests
<1>2. TypeOK'
  <2>1. main' \in Mains
    BY <1>1 DEF TypeOK, Mains, Rests
  <2> QED
    BY <2>1 DEF TypeOK, shared, plugin
<1>3. Shape'
  <2>1. Used(stage) = Used(main.stage)
    BY DEF Rests, Shape, Used
  <2> QED
    BY <1>0, <1>1, <2>1 DEF Shape, Rests
<1>4. Open' /\ Pending'
  BY <1>0 DEF Open, Pending
<1>5. Waiting'
  BY <1>0, <1>1 DEF Waiting, Rests, Ok
<1>6. Own'
  <2>1. main.act \in Controls /\ (stage # "first" \/ x = "asleep") => Len(submitted) > main.jobs
    BY DEF Rests, Own, Controls
  <2> QED
    BY <1>0, <1>1, <2>1 DEF Own, ControlsOwnJob
<1> QED
  BY <1>2, <1>3, <1>4, <1>5, <1>6

\* What ControlLast controls is a job of the action.
LEMMA ControlKeeps ==
  ASSUME AnswerInv, NEW stage, ControlLast(stage), main.act \in Controls, Len(submitted) > main.jobs,
         Ok \/ main.at = "asleep",
         (main.stage = "first" /\ stage = "control") \/ (main.stage = "query" /\ stage = "resume")
  PROVE  AnswerInv'
<1> USE DEF AnswerInv
<1> DEFINE M == [main EXCEPT !.stage = stage, !.job = Last(submitted)]
<1>1. main.jobs \in Nat /\ Len(submitted) \in Nat /\ submitted \in Seq(IDs \ {0})
  BY DEF TypeOK, Mains
<1>2. Last(submitted) \in IDs /\ Len(submitted) \in main.jobs + 1 .. Len(submitted)
  BY <1>1 DEF Last
<1>3. M \in Mains /\ Send(M, "control")
  BY <1>2 DEF ControlLast, TypeOK, Mains
<1>4. /\ M.act = main.act /\ M.stage = stage /\ M.job = Last(submitted)
      /\ M.jobs = main.jobs /\ M.from = main.from
  BY DEF TypeOK, Mains
<1> HIDE DEF M
<1>5. requestID + 1 <= M.from + Used(stage)
  <2>1. requestID \in Nat /\ main.from \in Nat
    BY SmokeTestAssumption DEF TypeOK, Mains, IDs
  <2>2. Used(stage) = Used(main.stage) + 1 /\ Used(main.stage) \in Nat
    BY DEF Used
  <2> QED
    BY <1>4, <2>1, <2>2 DEF Shape
<1>6. M.job > M.from /\ \E i \in M.jobs + 1 .. Len(submitted) : submitted[i] = M.job
  BY <1>2, <1>4 DEF Own, Last
<1>7. MaySend(M, "control")
  BY <1>3, <1>4, <1>5, <1>6 DEF MaySend, Shape, Own, RequestTypes, Controls
<1> QED
  BY <1>3, <1>7, NoneOpen, SendKeeps

LEMMA QueryKeeps ==
  ASSUME AnswerInv, NEW stage, Query(stage), main.act \in Controls, Ok,
         (main.stage = "control" /\ stage = "query") \/ (main.stage = "resume" /\ stage = "last")
  PROVE  AnswerInv'
<1> USE DEF AnswerInv
<1> DEFINE M == [main EXCEPT !.stage = stage]
<1>1. M \in Mains /\ Send(M, "get")
  BY DEF Query, TypeOK, Mains
<1>2. /\ M.act = main.act /\ M.stage = stage /\ M.job = main.job
      /\ M.jobs = main.jobs /\ M.from = main.from
  BY DEF TypeOK, Mains
<1> HIDE DEF M
<1>3. requestID + 1 <= M.from + Used(stage)
  <2>1. requestID \in Nat /\ main.from \in Nat
    BY SmokeTestAssumption DEF TypeOK, Mains, IDs
  <2>2. Used(stage) = Used(main.stage) + 1 /\ Used(main.stage) \in Nat
    BY DEF Used
  <2> QED
    BY <1>2, <2>1, <2>2 DEF Shape
<1>4. MaySend(M, "get")
  BY <1>1, <1>2, <1>3 DEF MaySend, Shape, Own, ControlsOwnJob, RequestTypes, Controls
<1> QED
  BY <1>1, <1>4, NoneOpen, SendKeeps

-----------------------------------------------------------------------------
(* The steps.                                                              *)

LEMMA AnswerInit == Init => AnswerInv
<1> SUFFICES ASSUME Init
             PROVE  AnswerInv
  OBVIOUS
<1>1. 0 \in IDs
  BY SmokeTestAssumption DEF IDs
<1>2. TypeOK
  BY <1>1, SmokeTestAssumption DEF Init, TypeOK, Mains, RequestTypes
<1>3. Shape /\ Open /\ Waiting /\ Pending
  BY <1>1, SmokeTestAssumption DEF Init, Shape, Used, Controls, Open, Waiting, Pending
<1>4. Own
  BY DEF Init, Own, ControlsOwnJob, Controls
<1> QED
  BY <1>2, <1>3, <1>4 DEF AnswerInv

\* An action ends, well or not.
LEMMA EndKeeps ==
  ASSUME AnswerInv, NEW b \in BOOLEAN, End(b), main.at \in {"prompt", "checked", "asleep"},
         b /\ main.at = "checked" /\ main.act \in Controls \cup {"simple", "submit", "network"} => Ok,
         main.at = "asleep" => main.act = "statuses"
  PROVE  AnswerInv'
<1> USE DEF AnswerInv
<1>0. UNCHANGED <<shared, wait, fired, why, reader, plugin>>
  BY DEF End
<1>1. CASE main' = [main EXCEPT !.at = "stop"]
  <2>1. UNCHANGED <<requestID, count, submitted, open, wait>>
    BY <1>0 DEF shared, plugin
  <2>2. TypeOK'
    <3>1. main' \in Mains
      BY <1>1 DEF TypeOK, Mains
    <3> QED
      BY <1>0, <3>1 DEF TypeOK, shared, plugin
  <2> QED
    BY <1>1, <2>1, <2>2, Quiet DEF Waiting
<1>2. CASE b /\ main' = [main EXCEPT !.at = "prompt"]
  <2>1. main' = [main EXCEPT !.at = "prompt", !.stage = main.stage]
    BY <1>2 DEF TypeOK, Mains
  <2>2. \A r \in open : r.type # "submit"
    BY <1>2, NoneOpen
  <2>3. main.at # "checked" /\ main.act \in {"simple", "submit", "network"} => Ok
    BY DEF Waiting, Ok
  <2>4. Rests("prompt", main.stage)
    BY <1>2, <2>1, <2>3 DEF Rests
  <2> QED
    BY <1>0, <2>2, <2>4, RestKeeps
<1> QED
  BY <1>1, <1>2 DEF End, Return

LEMMA ChooseKeeps ==
  ASSUME AnswerInv, NEW act \in Menu, Choose(act)
  PROVE  AnswerInv'
<1> USE DEF AnswerInv
<1>1. main.at = "prompt" /\ requestID < MaxIDs
  BY ChooseCases
<1>2. ASSUME NEW b \in BOOLEAN, End(b)
      PROVE  AnswerInv'
  BY <1>1, <1>2, EndKeeps
<1>3. CASE act \in AllActions \ {"exit"} /\ Send(Chosen(act), FirstType(act))
  <2> DEFINE M == Chosen(act)
  <2>1. requestID \in Nat /\ requestID \in IDs /\ MaxIDs \in Nat /\ 0 \in IDs /\ Len(submitted) \in Nat
    BY SmokeTestAssumption DEF TypeOK, IDs
  <2>2. M \in Mains
    BY <1>3, <2>1 DEF Chosen, TypeOK, Mains
  <2>3. M.act = act /\ M.stage = "first" /\ M.job = 0 /\ M.jobs = Len(submitted) /\ M.from = requestID
    BY DEF Chosen, TypeOK, Mains
  <2> HIDE DEF M
  <2>4. FirstType(act) \in RequestTypes \ {"bootstrap"}
    BY <1>3 DEF FirstType, AllActions, Controls, RequestTypes
  <2>5. /\ FirstType(act) = "output" <=> act = "output"
        /\ FirstType(act) = "submit" => act \in Controls \cup {"submit"}
        /\ FirstType(act) = "statuses" => act = "statuses"
    BY <1>3 DEF FirstType, AllActions, Controls
  <2>6. MaySend(M, FirstType(act))
    BY <1>1, <1>3, <2>1, <2>2, <2>3, <2>4, <2>5 DEF MaySend, Used
  <2> QED
    BY <1>1, <1>3, <2>6, NoneOpen, SendKeeps DEF M
<1> QED
  BY <1>2, <1>3, ChooseCases

LEMMA CheckedKeeps ==
  ASSUME AnswerInv, Checked
  PROVE  AnswerInv'
<1> USE DEF AnswerInv
<1>0. main.at = "checked"
  BY CheckedCases
<1>1. ASSUME NEW x, NEW stage, Goto(x, stage), Rests(x, stage), Ok \/ main.act \notin Controls \cup {"submit"}
      PROVE  AnswerInv'
  BY <1>1, NoneOpen, RestKeeps DEF Goto
<1>2. CASE main.act = "boot" /\ Goto(IF Ok THEN "prompt" ELSE "aborted", "only")
  <2>1. CASE Ok
    BY <1>1, <1>2, <2>1 DEF Rests, Goto, Controls
  <2>2. CASE ~Ok
    <3>1. /\ main' = [main EXCEPT !.at = "aborted", !.stage = "only"]
          /\ UNCHANGED <<shared, wait, fired, why, reader, plugin>>
      BY <1>2, <2>2 DEF Goto
    <3>2. main' \in Mains
      BY <3>1 DEF TypeOK, Mains
    <3>3. TypeOK' /\ UNCHANGED <<requestID, count, submitted, open, wait>>
      BY <3>1, <3>2 DEF TypeOK, shared, plugin
    <3>4. /\ main'.act = "boot" /\ main'.stage = "only" /\ main'.job = main.job /\ main'.jobs = main.jobs
          /\ main'.from = main.from /\ main'.at = "aborted"
      BY <1>2, <3>1 DEF TypeOK, Mains
    <3>5. Used("only") = Used(main.stage)
      BY <1>2 DEF Shape, Used, Controls
    <3>6. Shape'
      BY <3>3, <3>4, <3>5 DEF Shape, Controls
    <3>7. Open' /\ Waiting' /\ Pending'
      BY <1>2, <3>3, <3>4 DEF Open, Waiting, Pending, Controls
    <3>8. Own'
      BY <1>2, <3>3, <3>4 DEF Own, ControlsOwnJob, Controls
    <3> QED
      BY <3>3, <3>6, <3>7, <3>8
  <2> QED
    BY <2>1, <2>2
<1>3. ASSUME NEW b \in BOOLEAN, End(b), b /\ main.act \notin {"output", "resource"} => Ok
      PROVE  AnswerInv'
  BY <1>0, <1>3, EndKeeps DEF Controls
<1>4. CASE main.act = "statuses" /\ Goto("asleep", "only")
  BY <1>1, <1>4 DEF Rests, Goto, Controls
<1>5. CASE Again
  <2>1. /\ wait' = [id |-> wait.id, want |-> count[wait.id] + 1, last |-> count[wait.id]]
        /\ fired' = FALSE /\ UNCHANGED <<shared, why, reader, plugin>>
    BY <1>5 DEF Again, Enter
  <2>2. PICK x \in {"waiting", "checked"} : main' = [main EXCEPT !.at = x]
    BY <1>5 DEF Again, Waits
  <2>3. wait' \in [id : IDs, want : Nat \ {0}, last : Nat] /\ main' \in Mains
    <3>1. wait.id \in IDs /\ count[wait.id] \in Nat
      BY DEF TypeOK
    <3>2. wait' \in [id : IDs, want : Nat \ {0}, last : Nat]
      BY <2>1, <3>1
    <3>3. main' \in Mains
      BY <2>2 DEF TypeOK, Mains
    <3> QED
      BY <3>2, <3>3
  <2>4. TypeOK' /\ UNCHANGED <<requestID, count, submitted, open>>
    BY <2>1, <2>3 DEF TypeOK, shared, plugin
  <2>5. wait'.id = wait.id /\ wait'.last <= count[wait.id]
    BY <2>1 DEF TypeOK
  <2> QED
    BY <2>2, <2>4, <2>5, Quiet
<1>6. CASE GoesOn
  <2>1. main.act \in Controls /\ Ok
    BY <1>6 DEF GoesOn
  <2>2. CASE main.stage = "first" /\ Len(submitted) > main.jobs /\ ControlLast("control")
    BY <2>1, <2>2, ControlKeeps
  <2>3. CASE main.stage = "first" /\ Len(submitted) > main.jobs /\ Goto("asleep", "first")
    BY <1>1, <2>1, <2>3 DEF Rests, Goto
  <2>4. CASE main.stage = "control" /\ Query("query")
    BY <2>1, <2>4, QueryKeeps
  <2>5. CASE main.stage = "query" /\ Goto("asleep", "query")
    BY <1>1, <2>1, <2>5 DEF Rests, Goto, Own
  <2>6. CASE main.stage = "resume" /\ Query("last")
    BY <2>1, <2>6, QueryKeeps
  <2> QED
    BY <1>6, <2>2, <2>3, <2>4, <2>5, <2>6 DEF GoesOn
<1> QED
  BY <1>2, <1>3, <1>4, <1>5, <1>6, CheckedCases

\* A step of a goroutine or of the plugin that moves the main goroutine, if at
\* all, along its wait or on to its end.
Along ==
  /\ UNCHANGED <<requestID, count, submitted, lastType, finished, wait, open, extra>>
  /\ \/ main' = main
     \/ \E x \in {"waiting", "woken", "checked", "stop", "stopping", "killed", "done", "aborted"} :
          main' = [main EXCEPT !.at = x]
  /\ exited' \in BOOLEAN /\ fired' \in BOOLEAN /\ alive' \in BOOLEAN
  /\ why' \in {"none", "exited", "timeout", "neither"}
  /\ reader' \in {"reading", "counted", "exiting", "gone"}

LEMMA AlongKeeps ==
  ASSUME AnswerInv, Along
  PROVE  AnswerInv'
<1> USE DEF AnswerInv
<1>1. PICK x : /\ main' = [main EXCEPT !.at = x]
               /\ x = main.at \/ x \in {"waiting", "woken", "checked", "stop", "stopping", "killed", "done", "aborted"}
  <2>1. CASE main' = main
    <3>1. main = [main EXCEPT !.at = main.at]
      BY DEF TypeOK, Mains
    <3> QED
      BY <2>1, <3>1
  <2> QED
    BY <2>1 DEF Along
<1>2. main' \in Mains
  BY <1>1 DEF TypeOK, Mains
<1>3. TypeOK'
  BY <1>2 DEF TypeOK, Along
<1>4. wait' = wait /\ wait.last <= count[wait.id]
  BY DEF Along, Waiting
<1> QED
  BY <1>1, <1>3, <1>4, Quiet DEF Along

LEMMA BootstrapKeeps ==
  ASSUME AnswerInv, Bootstrap
  PROVE  AnswerInv'
<1> USE DEF AnswerInv
<1>1. PICK x \in {"encoded", "aborted"} : main' = [main EXCEPT !.at = x]
  BY DEF Bootstrap
<1>2. open' \subseteq {Request(0, "bootstrap")} /\ UNCHANGED <<shared, wait, fired, why, reader, alive, extra>>
  BY DEF Bootstrap
<1>3. UNCHANGED <<requestID, count, submitted>> /\ requestID \in Nat /\ 0 \in IDs
  BY <1>2, SmokeTestAssumption DEF shared, TypeOK, IDs
<1>4. \A r \in open' : r = Request(0, "bootstrap") /\ r.id = 0 /\ r.type = "bootstrap"
  BY <1>2 DEF Request
<1>5. /\ main'.act = main.act /\ main'.stage = main.stage /\ main'.job = main.job
      /\ main'.jobs = main.jobs /\ main'.from = main.from /\ main'.at = x /\ main' \in Mains
  BY <1>1 DEF TypeOK, Mains
<1>6. TypeOK'
  <2>1. Request(0, "bootstrap") \in [id : IDs, type : RequestTypes]
    BY <1>3 DEF Request, RequestTypes
  <2>2. open' \subseteq [id : IDs, type : RequestTypes]
    BY <1>2, <2>1
  <2> QED
    BY <1>2, <1>5, <2>2 DEF TypeOK, shared
<1>7. Shape' /\ Own'
  BY <1>3, <1>5 DEF Shape, Own, ControlsOwnJob
<1>8. Open' /\ Pending'
  BY <1>3, <1>4 DEF Open, Pending, Single
<1>9. Waiting'
  BY <1>2, <1>3, <1>4, <1>5 DEF Waiting
<1> QED
  BY <1>6, <1>7, <1>8, <1>9

LEMMA AnswerNext == AnswerInv /\ [Next]_vars => AnswerInv'
<1> SUFFICES ASSUME AnswerInv, [Next]_vars
             PROVE  AnswerInv'
  OBVIOUS
<1> USE DEF AnswerInv
<1>1. CASE Bootstrap
  BY <1>1, BootstrapKeeps
<1>2. CASE EndOfInput
  BY <1>2, EndKeeps DEF EndOfInput
<1>3. ASSUME NEW act \in Menu, Choose(act)
      PROVE  AnswerInv'
  BY <1>3, ChooseKeeps
<1>4. CASE WaitForResponse
  <2>1. /\ wait' = [id |-> wait.id, want |-> wait.want, last |-> count[wait.id]]
        /\ UNCHANGED <<shared, fired, why, reader, plugin>>
    BY <1>4 DEF WaitForResponse, Enter
  <2>2. PICK x \in {"waiting", "checked"} : main' = [main EXCEPT !.at = x]
    BY <1>4 DEF WaitForResponse, Waits
  <2>3. wait' \in [id : IDs, want : Nat \ {0}, last : Nat] /\ wait'.id = wait.id /\ wait'.last <= count[wait.id]
    BY <2>1 DEF TypeOK
  <2>4. main' \in Mains
    BY <2>2 DEF TypeOK, Mains
  <2>5. TypeOK' /\ UNCHANGED <<requestID, count, submitted, open>>
    BY <2>1, <2>3, <2>4 DEF TypeOK, shared, plugin
  <2> QED
    BY <2>2, <2>3, <2>5, Quiet
<1>5. CASE Wake
  <2>1. PICK x \in {"waiting", "checked"} : main' = [main EXCEPT !.at = x]
    BY <1>5 DEF Wake, Waits
  <2>2. /\ UNCHANGED <<shared, reader, plugin>> /\ fired' = FALSE
        /\ why' \in {"none", "exited", "timeout", "neither"}
        /\ wait' = wait \/ wait' = [wait EXCEPT !.last = count[wait.id]]
    BY <1>5 DEF Wake, TypeOK
  <2>3. wait' \in [id : IDs, want : Nat \ {0}, last : Nat] /\ wait'.id = wait.id /\ wait'.last <= count[wait.id]
    BY <2>2 DEF TypeOK, Waiting
  <2>4. main' \in Mains
    BY <2>1 DEF TypeOK, Mains
  <2>5. TypeOK' /\ UNCHANGED <<requestID, count, submitted, open>>
    BY <2>2, <2>3, <2>4 DEF TypeOK, shared, plugin
  <2> QED
    BY <2>1, <2>3, <2>5, Quiet
<1>6. CASE Checked
  BY <1>6, CheckedKeeps
<1>7. CASE Awake
  <2>1. main.at = "asleep"
    BY <1>7 DEF Awake
  <2>2. CASE main.act = "statuses" /\ End(TRUE)
    BY <2>1, <2>2, EndKeeps
  <2>3. CASE main.act \in Controls /\ main.stage = "first" /\ ControlLast("control")
    BY <2>1, <2>3, ControlKeeps DEF Own
  <2>4. CASE main.act \in Controls /\ main.stage = "query" /\ ControlLast("resume")
    BY <2>1, <2>4, ControlKeeps DEF Own
  <2> QED
    BY <1>7, <2>2, <2>3, <2>4 DEF Awake
<1>8. CASE Stop
  <2>1. Along
    BY <1>8 DEF Stop, Along, TypeOK, plugin
  <2> QED
    BY <2>1, AlongKeeps
<1>9. CASE Stopped \/ StopTimeout
  <2>1. Along
    BY <1>9 DEF Stopped, StopTimeout, Along, TypeOK, shared, plugin
  <2> QED
    BY <2>1, AlongKeeps
<1>10. CASE Receive
  BY <1>10, ReceiveKeeps
<1>11. CASE Broadcast \/ ReaderExits \/ Timer \/ PluginExits
  <2>1. Along
    BY <1>11 DEF Broadcast, ReaderExits, Timer, PluginExits, Woken, Along, TypeOK, shared, plugin
  <2> QED
    BY <2>1, AlongKeeps
<1>12. CASE UNCHANGED vars
  <2>1. Along
    BY <1>12 DEF vars, Along, TypeOK, shared, plugin
  <2> QED
    BY <2>1, AlongKeeps
<1> QED
  BY <1>1, <1>2, <1>3, <1>4, <1>5, <1>6, <1>7, <1>8, <1>9, <1>10, <1>11, <1>12 DEF Next, MainStep

LEMMA AnswerInvariant == Spec => []AnswerInv
BY AnswerInit, AnswerNext, PTL DEF Spec

LEMMA WakeNext == AnswerInv /\ WakeInv /\ [Next]_vars => WakeInv'
<1> SUFFICES ASSUME AnswerInv, WakeInv, [Next]_vars
             PROVE  WakeInv'
  OBVIOUS
<1> USE DEF WakeInv, NoLostWakeup, AnswerInv
<1>0. ASSUME reader' = reader, exited' = exited, exited => main'.at # "waiting" \/ main' = main
      PROVE  WakeInv'
  BY <1>0
<1>a. ASSUME NEW M, "at" \in DOMAIN M, main' = Waits(M)
      PROVE  exited => main'.at # "waiting"
  BY <1>a DEF Waits
<1>b. ASSUME NEW M, "at" \in DOMAIN M, NEW b, main' = Return(M, b)
      PROVE  main'.at # "waiting"
  BY <1>b DEF Return
<1>c. ASSUME NEW b, End(b)
      PROVE  WakeInv'
  <2>1. "at" \in DOMAIN main
    BY DEF TypeOK, Mains
  <2> QED
    BY <1>0, <1>b, <1>c, <2>1 DEF End, shared
<1>d. ASSUME NEW x, NEW stage, Goto(x, stage), x # "waiting"
      PROVE  WakeInv'
  BY <1>0, <1>d DEF Goto, shared, TypeOK, Mains
<1>e. ASSUME NEW M, "at" \in DOMAIN M, NEW type, Send(M, type)
      PROVE  WakeInv'
  <2>1. reader' = reader /\ exited' = exited
    BY <1>e DEF Send
  <2>2. main' = Waits(M) \/ main' = Return(M, FALSE) \/ main' = [M EXCEPT !.at = "encoded"]
    BY <1>e DEF Send
  <2>3. main' = [M EXCEPT !.at = "encoded"] => main'.at # "waiting"
    BY <1>e
  <2> QED
    BY <1>0, <1>a, <1>b, <1>e, <2>1, <2>2, <2>3
<1>1. CASE Bootstrap
  BY <1>0, <1>1 DEF Bootstrap, shared, TypeOK, Mains
<1>2. CASE EndOfInput
  BY <1>2, <1>c DEF EndOfInput
<1>3. ASSUME NEW act \in Menu, Choose(act)
      PROVE  WakeInv'
  <2>1. "at" \in DOMAIN Chosen(act)
    BY DEF Chosen, TypeOK, Mains
  <2> QED
    BY <1>3, <1>c, <1>e, <2>1, ChooseCases
<1>4. CASE WaitForResponse \/ Wake
  <2>1. "at" \in DOMAIN main
    BY DEF TypeOK, Mains
  <2>2. reader' = reader /\ exited' = exited /\ (main' = Waits(main) \/ main' = [main EXCEPT !.at = "checked"])
    BY <1>4 DEF WaitForResponse, Wake, shared
  <2> QED
    BY <1>0, <1>a, <2>1, <2>2
<1>5. ASSUME NEW stage, ControlLast(stage) \/ Query(stage)
      PROVE  WakeInv'
  <2> DEFINE M == [main EXCEPT !.stage = stage, !.job = Last(submitted)]
             N == [main EXCEPT !.stage = stage]
  <2>1. "at" \in DOMAIN M /\ "at" \in DOMAIN N
    BY DEF TypeOK, Mains
  <2>2. Send(M, "control") \/ Send(N, "get")
    BY <1>5 DEF ControlLast, Query
  <2> QED
    BY <1>e, <2>1, <2>2
<1>6. CASE Checked
  <2>1. CASE Again
    <3>1. "at" \in DOMAIN main
      BY DEF TypeOK, Mains
    <3> QED
      BY <1>0, <1>a, <2>1, <3>1 DEF Again, shared
  <2>2. CASE GoesOn
    BY <1>5, <1>d, <2>2 DEF GoesOn
  <2>3. ASSUME NEW b \in BOOLEAN, End(b)
        PROVE  WakeInv'
    BY <1>c, <2>3
  <2>4. CASE \E stage : Goto(IF Ok THEN "prompt" ELSE "aborted", stage) \/ Goto("asleep", stage)
    BY <1>d, <2>4
  <2> QED
    BY <1>6, <2>1, <2>2, <2>3, <2>4, CheckedCases
<1>7. CASE Awake
  BY <1>5, <1>c, <1>7 DEF Awake
<1>8. CASE Stop \/ Stopped \/ StopTimeout
  BY <1>8 DEF Stop, Stopped, StopTimeout, shared, TypeOK, Mains
<1>9. CASE Receive
  BY <1>9 DEF Receive, Count
<1>10. CASE Broadcast \/ ReaderExits
  BY <1>10 DEF Broadcast, ReaderExits, Woken, shared, TypeOK, Mains
<1>11. CASE Timer \/ PluginExits
  BY <1>11 DEF Timer, PluginExits, Woken, shared, TypeOK, Mains
<1>12. CASE UNCHANGED vars
  BY <1>12 DEF vars, shared
<1> QED
  BY <1>1, <1>2, <1>3, <1>4, <1>6, <1>7, <1>8, <1>9, <1>10, <1>11, <1>12 DEF Next, MainStep

-----------------------------------------------------------------------------
(* Theorems.                                                               *)

\* The smoke test's variables keep their types.
THEOREM TypeCorrect == Spec => []TypeOK
BY AnswerInvariant, PTL DEF AnswerInv

\* A job that the smoke test stops, kills, cancels, suspends or resumes was
\* submitted by the same menu action: sendControlJobRequest compares the number
\* of jobs before and after, and no request for a job of an earlier action can
\* still be open, since an action that was not answered ends the test.
THEOREM OwnJobControlled == Spec => []ControlsOwnJob
<1>1. AnswerInv => ControlsOwnJob
  BY DEF AnswerInv, Own
<1> QED
  BY <1>1, AnswerInvariant, PTL

\* An action of one request comes back to the prompt only if that request was
\* answered: waitForResponse counts the responses of the ID, and a timer, an
\* exit or another ID's response is never taken for one.
THEOREM OnlyAnswered == Spec => []AnsweredOrStopped
<1>1. ASSUME AnswerInv, main.at = "prompt", main.act \in {"simple", "submit", "network"}, wait.id # 0
      PROVE  count[wait.id] > 0 /\ wait.id \notin {r.id : r \in open}
  <2> USE DEF AnswerInv
  <2>1. /\ wait.last \in Nat /\ wait.want \in Nat \ {0} /\ wait.id \in IDs /\ count[wait.id] \in Nat
        /\ wait.last >= wait.want /\ wait.last <= count[wait.id]
    BY <1>1 DEF TypeOK, Waiting
  <2>2. count[wait.id] > 0
    BY <2>1
  <2>3. ASSUME NEW r \in open, r.id = wait.id
        PROVE  FALSE
    BY <1>1, <2>2, <2>3 DEF Waiting, Open
  <2> QED
    BY <2>2, <2>3
<1>2. AnswerInv => AnsweredOrStopped
  BY <1>1 DEF AnsweredOrStopped
<1> QED
  BY <1>2, AnswerInvariant, PTL

\* Once the reader goroutine is gone nobody sleeps on the condition variable:
\* readResponses sets exited before its last broadcast, and every wait looks at
\* exited under the same mutex first.
THEOREM WakeupsKept == Spec => []NoLostWakeup
<1>1. Init => WakeInv
  BY DEF Init, WakeInv, NoLostWakeup
<1>2. WakeInv => NoLostWakeup
  BY DEF WakeInv
<1> QED
  BY <1>1, <1>2, WakeNext, AnswerInvariant, PTL DEF Spec

=============================================================================
