--------------------------- MODULE BoundedDelivery ---------------------------
(***************************************************************************)
(* What the notification processor promises for a notification record: it  *)
(* is opened at most once, its channel is asked a bounded number of times, *)
(* it is closed in the end and then left alone, and it is closed as sent   *)
(* only if the channel accepted a message.                                 *)
(***************************************************************************)
EXTENDS Naturals

CONSTANTS
  Records,      \* notification records
  MaxRequests   \* a natural number: requests to the channel of a record

VARIABLES
  phase,     \* of a record
  requests,  \* how often its channel was asked
  accepted   \* how often the channel accepted

vars == <<phase, requests, accepted>>

Outcomes == {"sent", "failed", "abandoned"}

Init ==
  /\ phase = [r \in Records |-> "none"]
  /\ requests = [r \in Records |-> 0]
  /\ accepted = [r \in Records |-> 0]

\* Records are saved together; nobody attends to them if the save is reported
\* as failed.
Open(S, as) ==
  /\ \A r \in S : phase[r] = "none"
  /\ phase' = [r \in Records |-> IF r \in S THEN as ELSE phase[r]]
  /\ UNCHANGED <<requests, accepted>>

Ask(r) ==
  /\ phase[r] = "open"
  /\ requests[r] < MaxRequests
  /\ requests' = [requests EXCEPT ![r] = @ + 1]
  /\ UNCHANGED <<phase, accepted>>

Accept(r) ==
  /\ phase[r] = "open"
  /\ accepted[r] < requests[r]
  /\ accepted' = [accepted EXCEPT ![r] = @ + 1]
  /\ UNCHANGED <<phase, requests>>

Close(r) ==
  /\ phase[r] = "open"
  /\ \E o \in Outcomes \cup {"removed"} :
       /\ o = "sent" => accepted[r] > 0
       /\ phase' = [phase EXCEPT ![r] = o]
  /\ UNCHANGED <<requests, accepted>>

\* A crash closes every open record at once.
CloseAll ==
  /\ phase' \in [Records -> Outcomes \cup {"none", "removed"}]
  /\ \A r \in Records :
       IF phase[r] = "open"
         THEN phase'[r] # "none" /\ (phase'[r] = "sent" => accepted[r] > 0)
         ELSE phase'[r] = phase[r]
  /\ UNCHANGED <<requests, accepted>>

\* The alert of closed records is deleted, and they with it.
Remove(S) ==
  /\ \A r \in S : phase[r] \in Outcomes
  /\ phase' = [r \in Records |-> IF r \in S THEN "removed" ELSE phase[r]]
  /\ UNCHANGED <<requests, accepted>>

Next ==
  \/ \E S \in SUBSET Records :
       \/ \E as \in {"open", "abandoned"} : Open(S, as)
       \/ Remove(S)
  \/ \E r \in Records : Ask(r) \/ Accept(r) \/ Close(r)
  \/ CloseAll

\* Every record is closed in the end.
Fairness == \A r \in Records : WF_vars(Close(r))

SafeSpec == Init /\ [][Next]_vars
Spec == SafeSpec /\ Fairness
=============================================================================
