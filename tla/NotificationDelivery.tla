------------------------- MODULE NotificationDelivery -------------------------
(***************************************************************************)
(* The notifications of one alert: what AlertNotificationService does with *)
(* an activity that matched it, and NotificationProcessorService with the  *)
(* records it makes, one for each enabled channel: send, store the result, *)
(* schedule a retry.  The records are rows of the database, the retries    *)
(* are timers in memory.  An action is the code between two awaits.        *)
(***************************************************************************)
EXTENDS Naturals, Sequences

CONSTANTS
  Matches,       \* activities that match the alert
  MaxChannels,   \* positions in the channel list of an alert
  ChannelLists,  \* lists a user may configure
  MaxRetries,    \* maxRetries
  MaxDbErrors,   \* bound: database calls that are reported as failed
  MaxCrashes,    \* bound: crashes
  MaxEdits       \* bound: updates of the alert

Kinds == {"discord", "email", "webhook"}

\* The keys of a channel's config that the validation pipe lets through, and
\* those that the sending services look for.
Keys == {"discordWebhookUrl", "email", "webhookUrl", "webhookHeaders",
         "recipients", "url"}
Channel == [kind : Kinds, enabled : BOOLEAN, keys : SUBSET Keys]
NoChannel == [kind |-> "discord", enabled |-> FALSE, keys |-> {}]

Positions == 1 .. MaxChannels
Records == Matches \X Positions

ASSUME NotificationAssumption ==
  /\ ChannelLists \subseteq Seq(Channel)
  /\ \A list \in ChannelLists : Len(list) <= MaxChannels
  /\ {MaxChannels, MaxRetries, MaxDbErrors, MaxCrashes, MaxEdits} \subseteq Nat

VARIABLES
  channels,     \* notificationChannels of the alert
  alert,        \* "kept" or "deleted"
  task,         \* generateNotification for a match, see Tasks
  snapshot,     \* the channels it read
  status,       \* column of a record; "none" before it is saved
  retryCount,   \* column of a record
  pc,           \* processNotification for a record, see Steps
  path,         \* whether it is in its "try" or in its "catch"
  local,        \* retryCount of the record as it was handed over
  next,         \* nextRetryCount of scheduleRetry
  timers,       \* retry timers of a record
  target,       \* the channel last asked for a record
  sends,        \* history: requests made for a record
  delivered,    \* history: requests its channel accepted
  unconfirmed,  \* history: those whose acceptance never got into the record
  dbErrors, crashes, edits  \* bound counters

Tasks == {"none", "loaded", "done"}
Statuses == {"none", "pending", "sent", "failed", "deleted"}
Steps == {"idle", "fetch", "load", "sending", "storeSent", "storeFailed",
          "readCount", "reschedule"}

user      == <<channels, alert, edits>>
tasks     == <<task, snapshot>>
columns   == <<status, retryCount>>
processes == <<pc, path, local, next>>
history   == <<target, sends, delivered, unconfirmed>>
bounds    == <<dbErrors, crashes>>
vars == <<user, tasks, columns, processes, timers, history, bounds>>

\* What validateNotificationChannels asks of a channel, and what the service
\* that sends to it asks.
ValidKey(c) ==
  CASE c.kind = "discord" -> "discordWebhookUrl"
    [] c.kind = "email"   -> "email"
    [] c.kind = "webhook" -> "webhookUrl"
SendKey(c) ==
  CASE c.kind = "discord" -> "webhookUrl"
    [] c.kind = "email"   -> "recipients"
    [] c.kind = "webhook" -> "url"

Enabled(list) == {i \in DOMAIN list : list[i].enabled}
Valid(list) ==
  /\ Enabled(list) # {}
  /\ \A i \in Enabled(list) : ValidKey(list[i]) \in list[i].keys

Intended(r) == snapshot[r[1]][r[2]]

Init ==
  /\ channels \in {list \in ChannelLists : Valid(list)}
  /\ alert = "kept"
  /\ task = [m \in Matches |-> "none"]
  /\ snapshot = [m \in Matches |-> <<>>]
  /\ status = [r \in Records |-> "none"]
  /\ retryCount = [r \in Records |-> 0]
  /\ pc = [r \in Records |-> "idle"]
  /\ path = [r \in Records |-> "try"]
  /\ local = [r \in Records |-> 0]
  /\ next = [r \in Records |-> 0]
  /\ timers = [r \in Records |-> 0]
  /\ target = [r \in Records |-> NoChannel]
  /\ sends = [r \in Records |-> 0]
  /\ delivered = [r \in Records |-> 0]
  /\ unconfirmed = [r \in Records |-> 0]
  /\ dbErrors = 0
  /\ crashes = 0
  /\ edits = 0

\* An update of a row that has been deleted changes nothing.
Updated(r, s) == IF status[r] = "deleted" THEN "deleted" ELSE s

Goto(r, step) == pc' = [pc EXCEPT ![r] = step]

-----------------------------------------------------------------------------
(* The user.                                                               *)

UpdateAlert ==
  /\ alert = "kept"
  /\ edits < MaxEdits
  /\ edits' = edits + 1
  /\ channels' \in {list \in ChannelLists : Valid(list)}
  /\ UNCHANGED <<alert, tasks, columns, processes, timers, history, bounds>>

\* The notifications of the alert are deleted with it.
DeleteAlert ==
  /\ alert = "kept"
  /\ edits < MaxEdits
  /\ edits' = edits + 1
  /\ alert' = "deleted"
  /\ status' = [r \in Records |-> IF status[r] = "none" THEN "none" ELSE "deleted"]
  /\ UNCHANGED <<channels, tasks, retryCount, processes, timers, history, bounds>>

-----------------------------------------------------------------------------
(* A match.                                                                *)

GenerateNotification(m) ==
  /\ task[m] = "none"
  /\ IF alert = "kept"
       THEN /\ task' = [task EXCEPT ![m] = "loaded"]
            /\ snapshot' = [snapshot EXCEPT ![m] = channels]
       ELSE /\ task' = [task EXCEPT ![m] = "done"]
            /\ UNCHANGED snapshot
  /\ UNCHANGED <<user, columns, processes, timers, history, bounds>>

NewRecords(m) == {r \in Records : r[1] = m /\ r[2] \in Enabled(snapshot[m])}

Saved(m) ==
  status' = [r \in Records |-> IF r \in NewRecords(m) THEN "pending" ELSE status[r]]

\* All records are saved in one transaction and processed at the same time.
\* The save is refused if the alert is gone.
CreateNotificationRecords(m) ==
  /\ task[m] = "loaded"
  /\ task' = [task EXCEPT ![m] = "done"]
  /\ IF alert = "kept"
       THEN /\ Saved(m)
            /\ pc' = [r \in Records |-> IF r \in NewRecords(m) THEN "load" ELSE pc[r]]
       ELSE UNCHANGED <<status, pc>>
  /\ UNCHANGED <<user, snapshot, retryCount, path, local, next, timers, history, bounds>>

\* A failed query or save ends the task, also if the save was committed.
TaskFails(m) ==
  /\ task[m] \in {"none", "loaded"}
  /\ dbErrors < MaxDbErrors
  /\ dbErrors' = dbErrors + 1
  /\ task' = [task EXCEPT ![m] = "done"]
  /\ \/ UNCHANGED status
     \/ task[m] = "loaded" /\ alert = "kept" /\ Saved(m)
  /\ UNCHANGED <<user, snapshot, retryCount, processes, timers, history, crashes>>

-----------------------------------------------------------------------------
(* processNotification.                                                    *)

\* An exception: its catch stores a failure, an exception there ends it.
Throw(r) ==
  IF path[r] = "try" /\ pc[r] # "fetch"
    THEN /\ Goto(r, "storeFailed")
         /\ path' = [path EXCEPT ![r] = "catch"]
    ELSE /\ Goto(r, "idle")
         /\ path' = [path EXCEPT ![r] = "try"]

\* The record is read with its activity and alert.  The channel is the first
\* of its kind in the alert's list.  A channel without the key its service
\* needs is a failure, without a request.
Load(r) ==
  /\ pc[r] = "load"
  /\ \/ \E i \in DOMAIN channels :
          /\ status[r] # "deleted"
          /\ channels[i].kind = Intended(r).kind
          /\ \A j \in 1 .. i - 1 : channels[j].kind # Intended(r).kind
          /\ target' = [target EXCEPT ![r] = channels[i]]
          /\ IF SendKey(channels[i]) \in channels[i].keys
               THEN /\ Goto(r, "sending")
                    /\ sends' = [sends EXCEPT ![r] = @ + 1]
               ELSE /\ Goto(r, "storeFailed")
                    /\ UNCHANGED sends
          /\ UNCHANGED path
     \/ /\ \/ status[r] = "deleted"
           \/ \A i \in DOMAIN channels : channels[i].kind # Intended(r).kind
        /\ Throw(r)
        /\ UNCHANGED <<target, sends>>
  /\ UNCHANGED <<user, tasks, columns, local, next, timers, delivered,
                 unconfirmed, bounds>>

\* The channel answers 202, another status of success, a status of error, or
\* not within the time limit.
Responses == {"accepted", "ok", "refused", "late"}

\* Variant: an error status of the channel counts as success.
AnyAnswerIsSuccess(response) == response # "late"

\* The responses each service reports as success.
DiscordConfirms(response) == response \in {"accepted", "ok"}
EmailConfirms(response) == response = "accepted"
WebhookConfirms(response) == response \in {"accepted", "ok"}

Confirms(kind, response) ==
  \/ kind = "discord" /\ DiscordConfirms(response)
  \/ kind = "email" /\ EmailConfirms(response)
  \/ kind = "webhook" /\ WebhookConfirms(response)

\* A message may have been accepted although its answer is late.
Answer(r) ==
  /\ pc[r] = "sending"
  /\ \E response \in Responses :
       /\ Goto(r, IF Confirms(target[r].kind, response) THEN "storeSent" ELSE "storeFailed")
       /\ \/ /\ response \in {"refused", "late"}
             /\ UNCHANGED <<delivered, unconfirmed>>
          \/ /\ response # "refused"
             /\ delivered' = [delivered EXCEPT ![r] = @ + 1]
             /\ unconfirmed' = IF Confirms(target[r].kind, response) THEN unconfirmed
                               ELSE [unconfirmed EXCEPT ![r] = @ + 1]
  /\ UNCHANGED <<user, tasks, columns, path, local, next, timers, target, sends,
                 bounds>>

\* Variant: a retry is scheduled whatever the result.
StoreSentAndRetry(r) ==
  /\ pc[r] = "storeSent"
  /\ status' = [status EXCEPT ![r] = Updated(r, "sent")]
  /\ Goto(r, IF local[r] < MaxRetries THEN "readCount" ELSE "idle")
  /\ UNCHANGED <<user, tasks, retryCount, path, local, next, timers, history, bounds>>

StoreSent(r) ==
  /\ pc[r] = "storeSent"
  /\ status' = [status EXCEPT ![r] = Updated(r, "sent")]
  /\ Goto(r, "idle")
  /\ UNCHANGED <<user, tasks, retryCount, path, local, next, timers, history, bounds>>

\* Variant: one retry too many.
StoreFailedOnceMore(r) ==
  /\ pc[r] = "storeFailed"
  /\ status' = [status EXCEPT ![r] = Updated(r, "failed")]
  /\ IF local[r] <= MaxRetries
       THEN Goto(r, "readCount") /\ UNCHANGED path
       ELSE Goto(r, "idle") /\ path' = [path EXCEPT ![r] = "try"]
  /\ UNCHANGED <<user, tasks, retryCount, local, next, timers, history, bounds>>

\* Variant: the catch stores the failure and schedules nothing.
StoreFailedOnly(r) ==
  /\ pc[r] = "storeFailed"
  /\ status' = [status EXCEPT ![r] = Updated(r, "failed")]
  /\ IF local[r] < MaxRetries /\ path[r] = "try"
       THEN Goto(r, "readCount") /\ UNCHANGED path
       ELSE Goto(r, "idle") /\ path' = [path EXCEPT ![r] = "try"]
  /\ UNCHANGED <<user, tasks, retryCount, local, next, timers, history, bounds>>

StoreFailed(r) ==
  /\ pc[r] = "storeFailed"
  /\ status' = [status EXCEPT ![r] = Updated(r, "failed")]
  /\ IF local[r] < MaxRetries
       THEN Goto(r, "readCount") /\ UNCHANGED path
       ELSE Goto(r, "idle") /\ path' = [path EXCEPT ![r] = "try"]
  /\ UNCHANGED <<user, tasks, retryCount, local, next, timers, history, bounds>>

\* scheduleRetry up to its update.
ReadRetryCount(r) ==
  /\ pc[r] = "readCount"
  /\ IF status[r] = "deleted"
       THEN Goto(r, "idle") /\ path' = [path EXCEPT ![r] = "try"] /\ UNCHANGED next
       ELSE /\ Goto(r, "reschedule")
            /\ next' = [next EXCEPT ![r] = retryCount[r] + 1]
            /\ UNCHANGED path
  /\ UNCHANGED <<user, tasks, columns, local, timers, history, bounds>>

WriteRetry(r) ==
  /\ status' = [status EXCEPT ![r] = Updated(r, "pending")]
  /\ retryCount' = [retryCount EXCEPT ![r] = IF status[r] = "deleted" THEN @ ELSE next[r]]

\* The timer comes last.
ScheduleRetry(r) ==
  /\ pc[r] = "reschedule"
  /\ WriteRetry(r)
  /\ timers' = [timers EXCEPT ![r] = @ + 1]
  /\ Goto(r, "idle")
  /\ path' = [path EXCEPT ![r] = "try"]
  /\ UNCHANGED <<user, tasks, local, next, history, bounds>>

\* Variant: setInterval for setTimeout.
RetryTimerFiresAgainAndAgain(r) ==
  /\ timers[r] > 0
  /\ pc[r] = "idle"
  /\ Goto(r, "fetch")
  /\ UNCHANGED <<user, tasks, columns, path, local, next, timers, history, bounds>>

RetryTimerFires(r) ==
  /\ timers[r] > 0
  /\ pc[r] = "idle"
  /\ timers' = [timers EXCEPT ![r] = @ - 1]
  /\ Goto(r, "fetch")
  /\ UNCHANGED <<user, tasks, columns, path, local, next, history, bounds>>

ProcessRetryNotification(r) ==
  /\ pc[r] = "fetch"
  /\ IF status[r] = "pending"
       THEN /\ Goto(r, "load")
            /\ local' = [local EXCEPT ![r] = retryCount[r]]
       ELSE /\ Goto(r, "idle")
            /\ UNCHANGED local
  /\ UNCHANGED <<user, tasks, columns, path, next, timers, history, bounds>>

\* The update a process waits for may have been made although it is reported
\* as failed.
UpdateMade(r) ==
  \/ pc[r] = "storeSent" /\ status' = [status EXCEPT ![r] = Updated(r, "sent")] /\ UNCHANGED retryCount
  \/ pc[r] = "storeFailed" /\ status' = [status EXCEPT ![r] = Updated(r, "failed")] /\ UNCHANGED retryCount
  \/ pc[r] = "reschedule" /\ WriteRetry(r)

\* Variant: the timer is set before the update.
DatabaseFailsAfterTimer(r) ==
  /\ pc[r] \notin {"idle", "sending"}
  /\ dbErrors < MaxDbErrors
  /\ dbErrors' = dbErrors + 1
  /\ UpdateMade(r) \/ UNCHANGED columns
  /\ unconfirmed' = [unconfirmed EXCEPT ![r] = IF pc[r] = "storeSent" THEN @ + 1 ELSE @]
  /\ timers' = [timers EXCEPT ![r] = IF pc[r] = "reschedule" THEN @ + 1 ELSE @]
  /\ Throw(r)
  /\ UNCHANGED <<user, tasks, local, next, target, sends, delivered, crashes>>

DatabaseFails(r) ==
  /\ pc[r] \notin {"idle", "sending"}
  /\ dbErrors < MaxDbErrors
  /\ dbErrors' = dbErrors + 1
  /\ UpdateMade(r) \/ UNCHANGED columns
  /\ unconfirmed' = [unconfirmed EXCEPT ![r] = IF pc[r] = "storeSent" THEN @ + 1 ELSE @]
  /\ Throw(r)
  /\ UNCHANGED <<user, tasks, local, next, timers, target, sends, delivered, crashes>>

-----------------------------------------------------------------------------

\* A crash takes the running tasks, the processes and the timers with it.
\* Nothing reads the records after the restart.
Crash ==
  /\ crashes < MaxCrashes
  /\ crashes' = crashes + 1
  /\ task' = [m \in Matches |-> IF task[m] = "none" THEN "none" ELSE "done"]
  /\ pc' = [r \in Records |-> "idle"]
  /\ path' = [r \in Records |-> "try"]
  /\ timers' = [r \in Records |-> 0]
  /\ UNCHANGED <<user, snapshot, columns, local, next, history, dbErrors>>

Process(r) ==
  \/ Load(r) \/ Answer(r) \/ StoreSent(r) \/ StoreFailed(r)
  \/ ReadRetryCount(r) \/ ScheduleRetry(r)
  \/ RetryTimerFires(r) \/ ProcessRetryNotification(r)

Next ==
  \/ UpdateAlert \/ DeleteAlert \/ Crash
  \/ \E m \in Matches :
       GenerateNotification(m) \/ CreateNotificationRecords(m) \/ TaskFails(m)
  \/ \E r \in Records : Process(r) \/ DatabaseFails(r)

\* The database and the channels answer or time out, and timers fire.
Fairness == \A r \in Records : WF_vars(Process(r))

Spec == Init /\ [][Next]_vars /\ Fairness

-----------------------------------------------------------------------------
(* Properties.                                                             *)

TypeOK ==
  /\ channels \in ChannelLists
  /\ alert \in {"kept", "deleted"}
  /\ task \in [Matches -> Tasks]
  /\ snapshot \in [Matches -> ChannelLists \cup {<<>>}]
  /\ status \in [Records -> Statuses]
  /\ retryCount \in [Records -> 0 .. MaxRetries + 1]
  /\ pc \in [Records -> Steps]
  /\ path \in [Records -> {"try", "catch"}]
  /\ local \in [Records -> Nat]
  /\ next \in [Records -> Nat]
  /\ timers \in [Records -> Nat]
  /\ target \in [Records -> Channel]
  /\ sends \in [Records -> Nat]
  /\ delivered \in [Records -> Nat]
  /\ unconfirmed \in [Records -> Nat]
  /\ dbErrors \in 0 .. MaxDbErrors
  /\ crashes \in 0 .. MaxCrashes
  /\ edits \in 0 .. MaxEdits

\* One attempt at a time: a record has at most one retry timer, and none while
\* it is being processed, although the try and the catch of one attempt can
\* both reach scheduleRetry.
OneAttemptAtATime ==
  \A r \in Records : timers[r] <= 1 /\ (timers[r] > 0 => pc[r] = "idle")

\* A channel is asked at most MaxRetries + 1 times for a record, although the
\* limit is tested on a count read earlier than the one that is increased, and
\* whatever database calls fail.
SendsBounded == \A r \in Records : sends[r] <= MaxRetries + 1

\* A channel gets a second message for a record only if the acceptance of an
\* earlier one was not stored.
NoNeedlessDuplicate ==
  \A r \in Records : delivered[r] <= unconfirmed[r] + 1

\* A record marked as sent was accepted by a channel.
SentMeansAccepted ==
  \A r \in Records : status[r] = "sent" => delivered[r] > 0

AtRest(r) == pc[r] = "idle" /\ timers[r] = 0
Undisturbed == dbErrors + crashes = 0

\* Without database errors and crashes, a record that nobody attends to any
\* more is sent, or has used up its retries.
RestsOnlyWhenSettled ==
  Undisturbed =>
    \A r \in Records :
      AtRest(r) /\ status[r] \notin {"none", "sent", "deleted"} =>
        status[r] = "failed" /\ retryCount[r] = MaxRetries

\* The promise kept: see BoundedDelivery.
ClosedAs(s) ==
  IF s = "pending" THEN "abandoned" ELSE IF s = "deleted" THEN "removed" ELSE s

Phase(r) ==
  IF status[r] = "none" THEN "none"
  ELSE IF AtRest(r) THEN ClosedAs(status[r]) ELSE "open"

Promise ==
  INSTANCE BoundedDelivery WITH
    MaxRequests <- MaxRetries + 1,
    phase <- [r \in Records |-> Phase(r)],
    requests <- sends,
    accepted <- delivered

\* The processor keeps the promise: records are opened once, come to rest
\* whatever fails, and stay at rest.
KeepsPromise == Promise!Spec

=============================================================================
