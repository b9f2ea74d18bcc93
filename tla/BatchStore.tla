----------------------------- MODULE BatchStore ------------------------------
(***************************************************************************)
(* What the batch processor promises: a batch is reported as stored once,  *)
(* in the step in which all of its activities appear in the table, or none *)
(* of them ever does; rows of activities, tokens and collections appear in *)
(* no other step and are never taken away; and alerts are sent only for    *)
(* what the table holds.                                                   *)
(***************************************************************************)
CONSTANT Messages   \* ids of messages

VARIABLES
  stored,       \* messages with an activity
  tokens,       \* NFTs with a row
  collections,  \* collections with a row
  reported,     \* batches reported as stored
  alerted       \* messages an alert was sent for

vars == <<stored, tokens, collections, reported, alerted>>

Init ==
  /\ stored = {}
  /\ tokens = {}
  /\ collections = {}
  /\ reported = {}
  /\ alerted = {}

\* No message is reported twice, nor stored before its batch is reported.
Report(batch) ==
  /\ batch # {}
  /\ batch \cap (stored \cup UNION reported) = {}
  /\ reported' = reported \cup {batch}

Store(batch) ==
  /\ Report(batch)
  /\ stored' = stored \cup batch
  /\ tokens \subseteq tokens' /\ collections \subseteq collections'
  /\ alerted' = alerted

\* The transaction had failed unnoticed.
Lose(batch) ==
  /\ Report(batch)
  /\ UNCHANGED <<stored, tokens, collections, alerted>>

SendAlerts(messages) ==
  /\ messages \subseteq stored
  /\ alerted' = alerted \cup messages
  /\ UNCHANGED <<stored, tokens, collections, reported>>

Next == \E S \in SUBSET Messages : Store(S) \/ Lose(S) \/ SendAlerts(S)

Spec == Init /\ [][Next]_vars
=============================================================================
