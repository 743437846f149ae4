----------------------------- MODULE StatusFeed -----------------------------
(***************************************************************************)
(* What the job cache promises its subscribers, with no queues, locks or   *)
(* goroutines: status changes form one history, and every subscriber is    *)
(* shown some of the changes it asked for, in their order. It may miss     *)
(* changes; it never sees one twice, out of order, or of another job.      *)
(***************************************************************************)
EXTENDS Naturals, Sequences

CONSTANTS JobIDs, Status, Subs

VARIABLES
  history,  \* the status changes so far
  wants,    \* the jobs each subscriber asked for
  shown     \* the positions in history it was shown

feedVars == <<history, wants, shown>>

Change == [id : JobIDs, status : Status]

FeedInit ==
  /\ history = <<>>
  /\ wants \in [Subs -> SUBSET JobIDs]
  /\ shown = [s \in Subs |-> <<>>]

Publish ==
  /\ \E c \in Change : history' = Append(history, c)
  /\ UNCHANGED <<wants, shown>>

Show(s) ==
  /\ \E n \in DOMAIN history :
       /\ history[n].id \in wants[s]
       /\ \A i \in DOMAIN shown[s] : shown[s][i] < n
       /\ shown' = [shown EXCEPT ![s] = Append(@, n)]
  /\ UNCHANGED <<history, wants>>

FeedNext == Publish \/ \E s \in Subs : Show(s)

FeedSpec == FeedInit /\ [][FeedNext]_feedVars

=============================================================================
