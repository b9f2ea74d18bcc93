--------------------------- MODULE NotificationProofs ---------------------------
(***************************************************************************)
(* Proofs about NotificationDelivery: its types, the bounds on what it     *)
(* sends, and that it implements the safety part of BoundedDelivery.       *)
(***************************************************************************)
EXTENDS NotificationDelivery, TLAPS

-----------------------------------------------------------------------------
(* The inductive invariant, for one record.                                *)

Waiting(r) == timers[r] > 0 \/ pc[r] = "fetch"
Asked(r)   == pc[r] \in {"sending", "storeSent", "storeFailed", "readCount", "reschedule"}
Running(r) == pc[r] = "load" \/ Asked(r)

\* One attempt at a time; the catch begins with storing the failure.
OneAttempt(r) ==
  /\ timers[r] <= 1
  /\ timers[r] > 0 => pc[r] = "idle"
  /\ path[r] = "catch" => pc[r] \in {"storeFailed", "readCount", "reschedule"}

\* Nothing has happened for a record that is not saved.
Unopened(r) ==
  status[r] = "none" =>
    /\ pc[r] = "idle" /\ timers[r] = 0
    /\ retryCount[r] = 0 /\ local[r] = 0
    /\ sends[r] = 0 /\ delivered[r] = 0 /\ unconfirmed[r] = 0

\* The count in the record is the one the attempt began with, or one more if
\* the increase was made and reported as failed.
CountFollows(r) ==
  /\ local[r] <= MaxRetries + 1
  /\ pc[r] \in {"readCount", "reschedule"} => local[r] < MaxRetries
  /\ pc[r] = "reschedule" => next[r] = retryCount[r] + 1
  /\ Running(r) =>
       \/ retryCount[r] = local[r]
       \/ path[r] = "catch" /\ local[r] < MaxRetries /\ retryCount[r] = local[r] + 1

\* Every request was made by an attempt of its own count.
SendsFollow(r) ==
  /\ sends[r] <= MaxRetries + 1
  /\ Waiting(r) => sends[r] <= MaxRetries /\ (status[r] # "deleted" => sends[r] <= retryCount[r])
  /\ pc[r] = "load" => sends[r] <= MaxRetries /\ sends[r] <= local[r]
  /\ Asked(r) => sends[r] <= local[r] + 1

\* Acceptances are of requests made, and all but the last are unconfirmed.
AcceptancesFollow(r) ==
  /\ delivered[r] <= sends[r]
  /\ pc[r] = "sending" => delivered[r] < sends[r]
  /\ (pc[r] = "storeSent" \/ status[r] = "sent") => delivered[r] > 0
  /\ delivered[r] <= unconfirmed[r] + 1
  /\ (Waiting(r) \/ (Running(r) /\ pc[r] # "storeSent")) => delivered[r] <= unconfirmed[r]

\* What holds for a record while nothing is disturbed.
Orderly(r) ==
  /\ retryCount[r] <= MaxRetries
  /\ Running(r) => retryCount[r] = local[r]
  /\ Waiting(r) => status[r] \in {"pending", "deleted"}
  /\ AtRest(r) /\ status[r] \notin {"none", "sent", "deleted"} =>
       status[r] = "failed" /\ retryCount[r] = MaxRetries

RecordInv(r) ==
  /\ OneAttempt(r) /\ Unopened(r) /\ CountFollows(r)
  /\ SendsFollow(r) /\ AcceptancesFollow(r)
  /\ Undisturbed => Orderly(r)

\* A match that is not done has no records.
TasksFirst ==
  \A m \in Matches : task[m] # "done" =>
    \A r \in Records : r[1] = m => status[r] = "none"

IInv == TypeOK /\ TasksFirst /\ \A r \in Records : RecordInv(r)

-----------------------------------------------------------------------------
(* Types.                                                                  *)

\* The limits are natural numbers.
LEMMA LimitsTyped ==
  /\ MaxRetries \in Nat /\ MaxDbErrors \in Nat /\ MaxCrashes \in Nat
  /\ MaxEdits \in Nat /\ MaxChannels \in Nat
BY NotificationAssumption

\* The initial states are typed.
LEMMA InitTypes == Init => TypeOK
BY NotificationAssumption
   DEF Init, TypeOK, Tasks, Statuses, Steps, Channel, NoChannel, Kinds

\* A retry is stored with a count within its range.
LEMMA NextInRange ==
  ASSUME TypeOK, NEW r \in Records, RecordInv(r), pc[r] = "reschedule"
  PROVE  next[r] \in 0 .. MaxRetries + 1
<1>1. /\ next[r] = retryCount[r] + 1
      /\ local[r] < MaxRetries
      /\ retryCount[r] = local[r] \/ retryCount[r] = local[r] + 1
  BY DEF RecordInv, CountFollows, Running, Asked
<1>2. local[r] \in Nat /\ retryCount[r] \in Nat /\ MaxRetries \in Nat
  BY NotificationAssumption DEF TypeOK
<1> QED
  BY <1>1, <1>2

\* A process goes to one of the steps.
LEMMA GotoTypes ==
  ASSUME TypeOK, NEW r \in Records, NEW step \in Steps, Goto(r, step)
  PROVE  pc' \in [Records -> Steps]
BY DEF TypeOK, Goto

\* Increasing one entry of a counter keeps it a counter.
LEMMA Increased ==
  ASSUME NEW f \in [Records -> Nat], NEW r \in Records
  PROVE  [f EXCEPT ![r] = @ + 1] \in [Records -> Nat]
OBVIOUS

\* A service reports success only for a message its channel accepted: it
\* accepted and that is reported, or it did not, or that is not reported.
LEMMA AnswerShape ==
  ASSUME NEW r \in Records, Answer(r)
  PROVE  /\ \/ /\ delivered' = [delivered EXCEPT ![r] = delivered[r] + 1]
               /\ Goto(r, "storeSent")
               /\ UNCHANGED unconfirmed
            \/ /\ Goto(r, "storeFailed")
               /\ UNCHANGED <<delivered, unconfirmed>>
            \/ /\ delivered' = [delivered EXCEPT ![r] = delivered[r] + 1]
               /\ unconfirmed' = [unconfirmed EXCEPT ![r] = unconfirmed[r] + 1]
               /\ Goto(r, "storeFailed")
<1>1. PICK response \in Responses :
        /\ Goto(r, IF Confirms(target[r].kind, response) THEN "storeSent" ELSE "storeFailed")
        /\ \/ /\ response \in {"refused", "late"}
              /\ UNCHANGED <<delivered, unconfirmed>>
           \/ /\ response # "refused"
              /\ delivered' = [delivered EXCEPT ![r] = delivered[r] + 1]
              /\ unconfirmed' = IF Confirms(target[r].kind, response) THEN unconfirmed
                                ELSE [unconfirmed EXCEPT ![r] = unconfirmed[r] + 1]
  BY DEF Answer
<1>2. CASE Confirms(target[r].kind, response)
  <2>1. response \notin {"refused", "late"}
    BY <1>2 DEF Confirms, DiscordConfirms, EmailConfirms, WebhookConfirms
  <2> QED
    BY <1>1, <1>2, <2>1
<1>3. CASE ~ Confirms(target[r].kind, response)
  BY <1>1, <1>3
<1> QED
  BY <1>2, <1>3

\* Throw keeps the types.
LEMMA ThrowTypes ==
  ASSUME TypeOK, NEW r \in Records, Throw(r)
  PROVE  pc' \in [Records -> Steps] /\ path' \in [Records -> {"try", "catch"}]
BY DEF TypeOK, Throw, Goto, Steps

\* The columns keep their types under any update a process makes.
LEMMA WriteTypes ==
  ASSUME TypeOK, NEW r \in Records, RecordInv(r),
         UpdateMade(r) \/ UNCHANGED columns
  PROVE  /\ status' \in [Records -> Statuses]
         /\ retryCount' \in [Records -> 0 .. MaxRetries + 1]
<1>1. CASE pc[r] = "reschedule" /\ WriteRetry(r)
  BY <1>1, NextInRange DEF TypeOK, WriteRetry, Updated, Statuses
<1>2. CASE ~(pc[r] = "reschedule" /\ WriteRetry(r))
  BY <1>2 DEF TypeOK, UpdateMade, Updated, Statuses, columns
<1> QED
  BY <1>1, <1>2

\* Every step keeps the types.
LEMMA NextTypes ==
  ASSUME IInv, [Next]_vars
  PROVE  TypeOK'
<1> USE LimitsTyped DEF user, tasks, columns, processes, history, bounds
<1>0. TypeOK /\ \A r \in Records : RecordInv(r)
  BY DEF IInv
<1>1. CASE UpdateAlert
  BY <1>0, <1>1 DEF UpdateAlert, TypeOK
<1>2. CASE DeleteAlert
  BY <1>0, <1>2 DEF DeleteAlert, TypeOK, Statuses
<1>3. CASE Crash
  BY <1>0, <1>3 DEF Crash, TypeOK, Tasks, Steps
<1>4. CASE \E m \in Matches : GenerateNotification(m)
  BY <1>0, <1>4 DEF GenerateNotification, TypeOK, Tasks
<1>5. CASE \E m \in Matches : CreateNotificationRecords(m)
  <2>1. PICK m \in Matches : CreateNotificationRecords(m)
    BY <1>5
  <2>2. status' \in [Records -> Statuses]
    BY <1>0, <2>1 DEF CreateNotificationRecords, Saved, TypeOK, Statuses
  <2>3. pc' \in [Records -> Steps]
    BY <1>0, <2>1 DEF CreateNotificationRecords, TypeOK, Steps
  <2>4. task' \in [Matches -> Tasks]
    BY <1>0, <2>1 DEF CreateNotificationRecords, TypeOK, Tasks
  <2> QED
    BY <1>0, <2>1, <2>2, <2>3, <2>4 DEF CreateNotificationRecords, TypeOK
<1>6. CASE \E m \in Matches : TaskFails(m)
  <2>1. PICK m \in Matches : TaskFails(m)
    BY <1>6
  <2>2. status' \in [Records -> Statuses]
    BY <1>0, <2>1 DEF TaskFails, Saved, TypeOK, Statuses
  <2>3. task' \in [Matches -> Tasks]
    BY <1>0, <2>1 DEF TaskFails, TypeOK, Tasks
  <2>4. dbErrors' \in 0 .. MaxDbErrors
    BY <1>0, <2>1 DEF TaskFails, TypeOK
  <2> QED
    BY <1>0, <2>1, <2>2, <2>3, <2>4 DEF TaskFails, TypeOK
<1>7. ASSUME NEW r \in Records, Load(r)
      PROVE  TypeOK'
  <2>1. CASE Throw(r) /\ UNCHANGED <<target, sends>>
    <3>1. UNCHANGED <<user, tasks, columns, local, next, timers, delivered, unconfirmed, bounds>>
      BY <1>7 DEF Load
    <3>2. pc' \in [Records -> Steps] /\ path' \in [Records -> {"try", "catch"}]
      BY <1>0, <2>1, ThrowTypes
    <3> QED
      BY <1>0, <2>1, <3>1, <3>2 DEF TypeOK, user, tasks, columns, bounds
  <2>2. CASE ~(Throw(r) /\ UNCHANGED <<target, sends>>)
    <3>1. PICK i \in DOMAIN channels :
            /\ target' = [target EXCEPT ![r] = channels[i]]
            /\ IF SendKey(channels[i]) \in channels[i].keys
                 THEN Goto(r, "sending") /\ sends' = [sends EXCEPT ![r] = @ + 1]
                 ELSE Goto(r, "storeFailed") /\ UNCHANGED sends
            /\ UNCHANGED path
      BY <1>7, <2>2 DEF Load
    <3>2. channels \in Seq(Channel)
      BY <1>0, NotificationAssumption DEF TypeOK
    <3>3. channels[i] \in Channel
      BY <3>1, <3>2
    <3>4. target' \in [Records -> Channel]
      BY <1>0, <3>1, <3>3 DEF TypeOK
    <3>5. pc' \in [Records -> Steps] /\ sends' \in [Records -> Nat]
      <4>1. "sending" \in Steps /\ "storeFailed" \in Steps
        BY DEF Steps
      <4>2. sends \in [Records -> Nat]
        BY <1>0 DEF TypeOK
      <4> QED
        BY <1>0, <3>1, <4>1, <4>2, GotoTypes, Increased
    <3> QED
      BY <1>0, <1>7, <3>1, <3>4, <3>5 DEF Load, TypeOK
  <2> QED
    BY <2>1, <2>2
<1>8. ASSUME NEW r \in Records, Answer(r)
      PROVE  TypeOK'
  <2>1. "storeSent" \in Steps /\ "storeFailed" \in Steps
    BY DEF Steps
  <2>2. pc' \in [Records -> Steps]
    BY <1>0, <1>8, <2>1, GotoTypes, AnswerShape
  <2>3. delivered \in [Records -> Nat] /\ unconfirmed \in [Records -> Nat]
    BY <1>0 DEF TypeOK
  <2>4. delivered' \in [Records -> Nat] /\ unconfirmed' \in [Records -> Nat]
    BY <1>8, <2>3, Increased, AnswerShape
  <2> QED
    BY <1>0, <1>8, <2>2, <2>4 DEF Answer, TypeOK
<1>9. ASSUME NEW r \in Records, StoreSent(r) \/ StoreFailed(r)
      PROVE  TypeOK'
  <2>1. "idle" \in Steps /\ "readCount" \in Steps
    BY DEF Steps
  <2>2. pc' \in [Records -> Steps]
    BY <1>0, <1>9, <2>1, GotoTypes DEF StoreSent, StoreFailed
  <2>3. status' \in [Records -> Statuses]
    BY <1>0, <1>9 DEF StoreSent, StoreFailed, Updated, TypeOK, Statuses
  <2>4. path' \in [Records -> {"try", "catch"}]
    BY <1>0, <1>9 DEF StoreSent, StoreFailed, TypeOK
  <2> QED
    BY <1>0, <1>9, <2>2, <2>3, <2>4 DEF StoreSent, StoreFailed, TypeOK
<1>10. ASSUME NEW r \in Records, ReadRetryCount(r)
       PROVE  TypeOK'
  <2>1. "idle" \in Steps /\ "reschedule" \in Steps
    BY DEF Steps
  <2>2. pc' \in [Records -> Steps]
    BY <1>0, <1>10, <2>1, GotoTypes DEF ReadRetryCount
  <2>3. path' \in [Records -> {"try", "catch"}]
    BY <1>0, <1>10 DEF ReadRetryCount, TypeOK
  <2>4. next \in [Records -> Nat] /\ retryCount[r] + 1 \in Nat
    BY <1>0 DEF TypeOK
  <2>5. next' \in [Records -> Nat]
    BY <1>10, <2>4 DEF ReadRetryCount
  <2> QED
    BY <1>0, <1>10, <2>2, <2>3, <2>5 DEF ReadRetryCount, TypeOK
<1>11. ASSUME NEW r \in Records, ScheduleRetry(r)
       PROVE  TypeOK'
  <2>1. UpdateMade(r)
    BY <1>11 DEF ScheduleRetry, UpdateMade
  <2>2. "idle" \in Steps
    BY DEF Steps
  <2>3. pc' \in [Records -> Steps]
    BY <1>0, <1>11, <2>2, GotoTypes DEF ScheduleRetry
  <2>4. timers' \in [Records -> Nat] /\ path' \in [Records -> {"try", "catch"}]
    BY <1>0, <1>11 DEF ScheduleRetry, TypeOK
  <2> QED
    BY <1>0, <1>11, <2>1, <2>3, <2>4, WriteTypes DEF ScheduleRetry, TypeOK
<1>12. ASSUME NEW r \in Records, RetryTimerFires(r) \/ ProcessRetryNotification(r)
       PROVE  TypeOK'
  <2>1. "idle" \in Steps /\ "fetch" \in Steps /\ "load" \in Steps
    BY DEF Steps
  <2>2. pc' \in [Records -> Steps]
    BY <1>0, <1>12, <2>1, GotoTypes DEF RetryTimerFires, ProcessRetryNotification
  <2>3. /\ timers \in [Records -> Nat] /\ local \in [Records -> Nat]
        /\ retryCount[r] \in Nat
    BY <1>0 DEF TypeOK
  <2>4. timers' \in [Records -> Nat]
    <3>1. timers[r] > 0 => timers[r] - 1 \in Nat
      BY <2>3
    <3> QED
      BY <1>12, <2>3, <3>1 DEF RetryTimerFires, ProcessRetryNotification
  <2>5. local' \in [Records -> Nat]
    BY <1>12, <2>3 DEF RetryTimerFires, ProcessRetryNotification
  <2> QED
    BY <1>0, <1>12, <2>2, <2>4, <2>5
       DEF RetryTimerFires, ProcessRetryNotification, TypeOK
<1>13. ASSUME NEW r \in Records, DatabaseFails(r)
       PROVE  TypeOK'
  <2>1. dbErrors' \in 0 .. MaxDbErrors /\ unconfirmed' \in [Records -> Nat]
    BY <1>0, <1>13 DEF DatabaseFails, TypeOK
  <2> QED
    BY <1>0, <1>13, <2>1, WriteTypes, ThrowTypes DEF DatabaseFails, TypeOK
<1>14. CASE UNCHANGED vars
  BY <1>0, <1>14 DEF vars, TypeOK
<1> QED
  BY <1>1, <1>2, <1>3, <1>4, <1>5, <1>6, <1>7, <1>8, <1>9, <1>10, <1>11, <1>12,
     <1>13, <1>14 DEF Next, Process

-----------------------------------------------------------------------------
(* Every step keeps the invariant of every record.                         *)

Same(r) ==
  /\ status'[r] = status[r] /\ retryCount'[r] = retryCount[r]
  /\ pc'[r] = pc[r] /\ path'[r] = path[r]
  /\ local'[r] = local[r] /\ next'[r] = next[r] /\ timers'[r] = timers[r]
  /\ sends'[r] = sends[r] /\ delivered'[r] = delivered[r]
  /\ unconfirmed'[r] = unconfirmed[r]

\* The values of one record have their types.
LEMMA ValueTypes ==
  ASSUME TypeOK, NEW r \in Records
  PROVE  /\ status[r] \in Statuses /\ pc[r] \in Steps /\ path[r] \in {"try", "catch"}
         /\ retryCount[r] \in Nat /\ retryCount[r] <= MaxRetries + 1
         /\ local[r] \in Nat /\ next[r] \in Nat
         /\ timers[r] \in Nat /\ sends[r] \in Nat /\ delivered[r] \in Nat
         /\ unconfirmed[r] \in Nat
         /\ MaxRetries \in Nat /\ dbErrors \in Nat /\ crashes \in Nat
BY LimitsTyped DEF TypeOK

\* A step that leaves a record alone keeps its invariant.
LEMMA SameKeeps ==
  ASSUME NEW r \in Records, RecordInv(r), Same(r), Undisturbed' => Undisturbed
  PROVE  RecordInv(r)'
BY DEF Same, RecordInv, OneAttempt, Unopened, CountFollows, SendsFollow,
       AcceptancesFollow, Orderly, Waiting, Asked, Running, AtRest

\* An error or a crash is remembered.
LEMMA TroubleStays ==
  ASSUME TypeOK, \/ dbErrors' = dbErrors + 1 /\ crashes' = crashes
                 \/ dbErrors' = dbErrors /\ crashes' = crashes + 1
  PROVE  ~Undisturbed'
<1>1. dbErrors \in Nat /\ crashes \in Nat
  BY LimitsTyped DEF TypeOK
<1> QED
  BY <1>1 DEF Undisturbed

\* The attempt begins: a request is made, or there is nothing to ask.
LEMMA LoadKeeps ==
  ASSUME IInv, NEW q \in Records, Load(q), NEW r \in Records
  PROVE  RecordInv(r)'
<1>1. TypeOK /\ RecordInv(r)
  BY DEF IInv
<1>2. Undisturbed' = Undisturbed
  BY DEF Load, bounds, Undisturbed
<1>3. CASE r # q
  <2>1. Same(r)
    BY <1>1, <1>3 DEF Load, Throw, Goto, Same, TypeOK, columns, processes, history
  <2> QED
    BY <1>1, <1>2, <2>1, SameKeeps
<1>4. CASE r = q
  <2>1.
      /\ \/ pc'[r] = "sending" /\ sends'[r] = sends[r] + 1 /\ path'[r] = path[r]
         \/ pc'[r] = "storeFailed" /\ sends'[r] = sends[r] /\ path'[r] \in {path[r], "catch"}
      /\ pc[r] = "load" /\ status'[r] = status[r] /\ retryCount'[r] = retryCount[r]
      /\ local'[r] = local[r] /\ next'[r] = next[r] /\ timers'[r] = timers[r]
      /\ delivered'[r] = delivered[r] /\ unconfirmed'[r] = unconfirmed[r]
    <3>1. \/ Goto(r, "sending") /\ sends' = [sends EXCEPT ![r] = @ + 1] /\ path' = path
          \/ Goto(r, "storeFailed") /\ sends' = sends /\ path' = path
          \/ pc[r] = "load" /\ Throw(r) /\ sends' = sends
      BY <1>4 DEF Load
    <3>2. \/ pc'[r] = "sending" /\ sends'[r] = sends[r] + 1 /\ path'[r] = path[r]
          \/ pc'[r] = "storeFailed" /\ sends'[r] = sends[r] /\ path'[r] \in {path[r], "catch"}
      <4>1. path[r] = "try"
        BY <1>1, <1>4, ValueTypes DEF RecordInv, OneAttempt, Load
      <4> QED
        BY <1>1, <3>1, <4>1 DEF Throw, Goto, TypeOK
    <3> QED
      BY <1>4, <3>2 DEF Load, columns, processes
  <2> QED
    BY <1>1, <1>2, <2>1, ValueTypes
       DEF RecordInv, OneAttempt, Unopened, CountFollows, SendsFollow,
           AcceptancesFollow, Orderly, Waiting, Asked, Running, AtRest
<1> QED
  BY <1>3, <1>4

\* The channel answers, or its answer is lost.
LEMMA AnswerKeeps ==
  ASSUME IInv, NEW q \in Records, Answer(q), NEW r \in Records
  PROVE  RecordInv(r)'
<1>1. TypeOK /\ RecordInv(r)
  BY DEF IInv
<1>2. Undisturbed' = Undisturbed
  BY DEF Answer, bounds, Undisturbed
<1>3. CASE r # q
  <2>1. Same(r)
    BY <1>1, <1>3, AnswerShape DEF Answer, Goto, Same, TypeOK, columns, processes, history
  <2> QED
    BY <1>1, <1>2, <2>1, SameKeeps
<1>4. CASE r = q
  <2>1.
      /\ \/ /\ pc'[r] = "storeSent" /\ delivered'[r] = delivered[r] + 1
            /\ unconfirmed'[r] = unconfirmed[r]
         \/ /\ pc'[r] = "storeFailed" /\ delivered'[r] = delivered[r]
            /\ unconfirmed'[r] = unconfirmed[r]
         \/ /\ pc'[r] = "storeFailed" /\ delivered'[r] = delivered[r] + 1
            /\ unconfirmed'[r] = unconfirmed[r] + 1
      /\ pc[r] = "sending" /\ status'[r] = status[r] /\ retryCount'[r] = retryCount[r]
      /\ local'[r] = local[r] /\ next'[r] = next[r] /\ timers'[r] = timers[r]
      /\ path'[r] = path[r] /\ sends'[r] = sends[r]
    BY <1>1, <1>4, AnswerShape DEF Answer, Goto, TypeOK, columns, processes, history
  <2> QED
    BY <1>1, <1>2, <2>1, ValueTypes
       DEF RecordInv, OneAttempt, Unopened, CountFollows, SendsFollow,
           AcceptancesFollow, Orderly, Waiting, Asked, Running, AtRest
<1> QED
  BY <1>3, <1>4

\* The success is stored.
LEMMA StoreSentKeeps ==
  ASSUME IInv, NEW q \in Records, StoreSent(q), NEW r \in Records
  PROVE  RecordInv(r)'
<1>1. TypeOK /\ RecordInv(r)
  BY DEF IInv
<1>2. Undisturbed' = Undisturbed
  BY DEF StoreSent, bounds, Undisturbed
<1>3. CASE r # q
  <2>1. Same(r)
    BY <1>1, <1>3 DEF StoreSent, Updated, Goto, Same, TypeOK, columns, processes, history
  <2> QED
    BY <1>1, <1>2, <2>1, SameKeeps
<1>4. CASE r = q
  <2>1.
      /\ status'[r] = IF status[r] = "deleted" THEN "deleted" ELSE "sent"
      /\ pc[r] = "storeSent" /\ pc'[r] = "idle" /\ retryCount'[r] = retryCount[r]
      /\ local'[r] = local[r] /\ next'[r] = next[r] /\ timers'[r] = timers[r]
      /\ path'[r] = path[r] /\ sends'[r] = sends[r]
      /\ delivered'[r] = delivered[r] /\ unconfirmed'[r] = unconfirmed[r]
    BY <1>1, <1>4 DEF StoreSent, Updated, Goto, TypeOK, columns, processes, history
  <2> QED
    BY <1>1, <1>2, <2>1, ValueTypes
       DEF RecordInv, OneAttempt, Unopened, CountFollows, SendsFollow,
           AcceptancesFollow, Orderly, Waiting, Asked, Running, AtRest
<1> QED
  BY <1>3, <1>4

\* The failure is stored, and a retry scheduled below the limit.
LEMMA StoreFailedKeeps ==
  ASSUME IInv, NEW q \in Records, StoreFailed(q), NEW r \in Records
  PROVE  RecordInv(r)'
<1>1. TypeOK /\ RecordInv(r)
  BY DEF IInv
<1>2. Undisturbed' = Undisturbed
  BY DEF StoreFailed, bounds, Undisturbed
<1>3. CASE r # q
  <2>1. Same(r)
    BY <1>1, <1>3 DEF StoreFailed, Updated, Goto, Same, TypeOK, columns, processes, history
  <2> QED
    BY <1>1, <1>2, <2>1, SameKeeps
<1>4. CASE r = q
  <2>1.
      /\ status'[r] = IF status[r] = "deleted" THEN "deleted" ELSE "failed"
      /\ pc[r] = "storeFailed" /\ retryCount'[r] = retryCount[r]
      /\ \/ local[r] < MaxRetries /\ pc'[r] = "readCount" /\ path'[r] = path[r]
         \/ ~(local[r] < MaxRetries) /\ pc'[r] = "idle" /\ path'[r] = "try"
      /\ local'[r] = local[r] /\ next'[r] = next[r] /\ timers'[r] = timers[r]
      /\ sends'[r] = sends[r]
      /\ delivered'[r] = delivered[r] /\ unconfirmed'[r] = unconfirmed[r]
    BY <1>1, <1>4 DEF StoreFailed, Updated, Goto, TypeOK, columns, processes, history
  <2> QED
    BY <1>1, <1>2, <2>1, ValueTypes
       DEF RecordInv, OneAttempt, Unopened, CountFollows, SendsFollow,
           AcceptancesFollow, Orderly, Waiting, Asked, Running, AtRest
<1> QED
  BY <1>3, <1>4

\* The count is read again.
LEMMA ReadRetryCountKeeps ==
  ASSUME IInv, NEW q \in Records, ReadRetryCount(q), NEW r \in Records
  PROVE  RecordInv(r)'
<1>1. TypeOK /\ RecordInv(r)
  BY DEF IInv
<1>2. Undisturbed' = Undisturbed
  BY DEF ReadRetryCount, bounds, Undisturbed
<1>3. CASE r # q
  <2>1. Same(r)
    BY <1>1, <1>3 DEF ReadRetryCount, Goto, Same, TypeOK, columns, processes, history
  <2> QED
    BY <1>1, <1>2, <2>1, SameKeeps
<1>4. CASE r = q
  <2>1.
      /\ \/ /\ status[r] = "deleted" /\ pc'[r] = "idle" /\ path'[r] = "try"
            /\ next'[r] = next[r]
         \/ /\ status[r] # "deleted" /\ pc'[r] = "reschedule" /\ path'[r] = path[r]
            /\ next'[r] = retryCount[r] + 1
      /\ pc[r] = "readCount" /\ status'[r] = status[r] /\ retryCount'[r] = retryCount[r]
      /\ local'[r] = local[r] /\ timers'[r] = timers[r] /\ sends'[r] = sends[r]
      /\ delivered'[r] = delivered[r] /\ unconfirmed'[r] = unconfirmed[r]
    BY <1>1, <1>4 DEF ReadRetryCount, Goto, TypeOK, columns, processes, history
  <2> QED
    BY <1>1, <1>2, <2>1, ValueTypes
       DEF RecordInv, OneAttempt, Unopened, CountFollows, SendsFollow,
           AcceptancesFollow, Orderly, Waiting, Asked, Running, AtRest
<1> QED
  BY <1>3, <1>4

\* The retry is stored and its timer set.
LEMMA ScheduleRetryKeeps ==
  ASSUME IInv, NEW q \in Records, ScheduleRetry(q), NEW r \in Records
  PROVE  RecordInv(r)'
<1>1. TypeOK /\ RecordInv(r)
  BY DEF IInv
<1>2. Undisturbed' = Undisturbed
  BY DEF ScheduleRetry, bounds, Undisturbed
<1>3. CASE r # q
  <2>1. Same(r)
    BY <1>1, <1>3 DEF ScheduleRetry, WriteRetry, Updated, Goto, Same, TypeOK, columns, processes, history
  <2> QED
    BY <1>1, <1>2, <2>1, SameKeeps
<1>4. CASE r = q
  <2>1.
      /\ status'[r] = IF status[r] = "deleted" THEN "deleted" ELSE "pending"
      /\ retryCount'[r] = IF status[r] = "deleted" THEN retryCount[r] ELSE next[r]
      /\ pc[r] = "reschedule" /\ pc'[r] = "idle" /\ path'[r] = "try"
      /\ timers'[r] = timers[r] + 1
      /\ local'[r] = local[r] /\ next'[r] = next[r] /\ sends'[r] = sends[r]
      /\ delivered'[r] = delivered[r] /\ unconfirmed'[r] = unconfirmed[r]
    BY <1>1, <1>4 DEF ScheduleRetry, WriteRetry, Updated, Goto, TypeOK, columns, processes, history
  <2> QED
    BY <1>1, <1>2, <2>1, ValueTypes
       DEF RecordInv, OneAttempt, Unopened, CountFollows, SendsFollow,
           AcceptancesFollow, Orderly, Waiting, Asked, Running, AtRest
<1> QED
  BY <1>3, <1>4

\* The timer fires.
LEMMA RetryTimerFiresKeeps ==
  ASSUME IInv, NEW q \in Records, RetryTimerFires(q), NEW r \in Records
  PROVE  RecordInv(r)'
<1>1. TypeOK /\ RecordInv(r)
  BY DEF IInv
<1>2. Undisturbed' = Undisturbed
  BY DEF RetryTimerFires, bounds, Undisturbed
<1>3. CASE r # q
  <2>1. Same(r)
    BY <1>1, <1>3 DEF RetryTimerFires, Goto, Same, TypeOK, columns, processes, history
  <2> QED
    BY <1>1, <1>2, <2>1, SameKeeps
<1>4. CASE r = q
  <2>1.
      /\ timers[r] > 0 /\ timers'[r] = timers[r] - 1
      /\ pc[r] = "idle" /\ pc'[r] = "fetch" /\ path'[r] = path[r]
      /\ status'[r] = status[r] /\ retryCount'[r] = retryCount[r]
      /\ local'[r] = local[r] /\ next'[r] = next[r] /\ sends'[r] = sends[r]
      /\ delivered'[r] = delivered[r] /\ unconfirmed'[r] = unconfirmed[r]
    BY <1>1, <1>4 DEF RetryTimerFires, Goto, TypeOK, columns, processes, history
  <2> QED
    BY <1>1, <1>2, <2>1, ValueTypes
       DEF RecordInv, OneAttempt, Unopened, CountFollows, SendsFollow,
           AcceptancesFollow, Orderly, Waiting, Asked, Running, AtRest
<1> QED
  BY <1>3, <1>4

\* The record is read for a retry.
LEMMA ProcessRetryKeeps ==
  ASSUME IInv, NEW q \in Records, ProcessRetryNotification(q), NEW r \in Records
  PROVE  RecordInv(r)'
<1>1. TypeOK /\ RecordInv(r)
  BY DEF IInv
<1>2. Undisturbed' = Undisturbed
  BY DEF ProcessRetryNotification, bounds, Undisturbed
<1>3. CASE r # q
  <2>1. Same(r)
    BY <1>1, <1>3 DEF ProcessRetryNotification, Goto, Same, TypeOK, columns, processes, history
  <2> QED
    BY <1>1, <1>2, <2>1, SameKeeps
<1>4. CASE r = q
  <2>1.
      /\ \/ status[r] = "pending" /\ pc'[r] = "load" /\ local'[r] = retryCount[r]
         \/ status[r] # "pending" /\ pc'[r] = "idle" /\ local'[r] = local[r]
      /\ pc[r] = "fetch" /\ path'[r] = path[r] /\ timers'[r] = timers[r]
      /\ status'[r] = status[r] /\ retryCount'[r] = retryCount[r]
      /\ next'[r] = next[r] /\ sends'[r] = sends[r]
      /\ delivered'[r] = delivered[r] /\ unconfirmed'[r] = unconfirmed[r]
    BY <1>1, <1>4 DEF ProcessRetryNotification, Goto, TypeOK, columns, processes, history
  <2> QED
    BY <1>1, <1>2, <2>1, ValueTypes
       DEF RecordInv, OneAttempt, Unopened, CountFollows, SendsFollow,
           AcceptancesFollow, Orderly, Waiting, Asked, Running, AtRest
<1> QED
  BY <1>3, <1>4
\* A database call is reported as failed, made or not.
LEMMA DatabaseFailsKeeps ==
  ASSUME IInv, NEW q \in Records, DatabaseFails(q), NEW r \in Records
  PROVE  RecordInv(r)'
<1>1. TypeOK /\ RecordInv(r)
  BY DEF IInv
<1>2. ~Undisturbed'
  BY <1>1, TroubleStays DEF DatabaseFails
<1>3. CASE r # q
  <2>1. Same(r)
    BY <1>1, <1>3 DEF DatabaseFails, UpdateMade, WriteRetry, Throw, Goto, Same,
                      TypeOK, columns
  <2> QED
    BY <1>1, <1>2, <2>1, SameKeeps
<1>4. CASE r = q
  <2>1. \/ status'[r] = status[r] /\ retryCount'[r] = retryCount[r]
        \/ /\ pc[r] = "storeSent" /\ retryCount'[r] = retryCount[r]
           /\ status'[r] = IF status[r] = "deleted" THEN "deleted" ELSE "sent"
        \/ /\ pc[r] = "storeFailed" /\ retryCount'[r] = retryCount[r]
           /\ status'[r] = IF status[r] = "deleted" THEN "deleted" ELSE "failed"
        \/ /\ pc[r] = "reschedule"
           /\ status'[r] = IF status[r] = "deleted" THEN "deleted" ELSE "pending"
           /\ retryCount'[r] = IF status[r] = "deleted" THEN retryCount[r] ELSE next[r]
    BY <1>1, <1>4 DEF DatabaseFails, UpdateMade, WriteRetry, Updated, TypeOK, columns
  <2>2. \/ /\ path[r] = "try" /\ pc[r] # "fetch"
           /\ pc'[r] = "storeFailed" /\ path'[r] = "catch"
        \/ path[r] = "catch" /\ pc'[r] = "idle" /\ path'[r] = "try"
        \/ pc[r] = "fetch" /\ pc'[r] = "idle" /\ path'[r] = "try"
    BY <1>1, <1>4 DEF DatabaseFails, Throw, Goto, TypeOK
  <2>3. /\ pc[r] \notin {"idle", "sending"}
        /\ unconfirmed'[r] = IF pc[r] = "storeSent" THEN unconfirmed[r] + 1 ELSE unconfirmed[r]
        /\ local'[r] = local[r] /\ next'[r] = next[r] /\ timers'[r] = timers[r]
        /\ sends'[r] = sends[r] /\ delivered'[r] = delivered[r]
    BY <1>1, <1>4 DEF DatabaseFails, TypeOK
  <2>4. OneAttempt(r)' /\ Unopened(r)' /\ AcceptancesFollow(r)'
    BY <1>1, <2>1, <2>2, <2>3, ValueTypes
       DEF RecordInv, OneAttempt, Unopened, CountFollows, SendsFollow,
           AcceptancesFollow, Orderly, Waiting, Asked, Running, AtRest, Steps, Statuses
  <2>5. CountFollows(r)'
    BY <1>1, <2>1, <2>2, <2>3, ValueTypes
       DEF RecordInv, OneAttempt, Unopened, CountFollows, SendsFollow,
           AcceptancesFollow, Orderly, Waiting, Asked, Running, AtRest, Steps
  <2>6. SendsFollow(r)'
    BY <1>1, <2>1, <2>2, <2>3, ValueTypes
       DEF RecordInv, OneAttempt, Unopened, CountFollows, SendsFollow,
           AcceptancesFollow, Orderly, Waiting, Asked, Running, AtRest, Steps
  <2> QED
    BY <1>2, <2>4, <2>5, <2>6 DEF RecordInv
<1> QED
  BY <1>3, <1>4

\* A crash leaves the rows and stops what runs.
LEMMA CrashKeeps ==
  ASSUME IInv, Crash, NEW r \in Records
  PROVE  RecordInv(r)'
<1>1. TypeOK /\ RecordInv(r)
  BY DEF IInv
<1>2. ~Undisturbed'
  BY <1>1, TroubleStays DEF Crash
<1>3. /\ pc'[r] = "idle" /\ path'[r] = "try" /\ timers'[r] = 0
      /\ status'[r] = status[r] /\ retryCount'[r] = retryCount[r]
      /\ local'[r] = local[r] /\ next'[r] = next[r] /\ sends'[r] = sends[r]
      /\ delivered'[r] = delivered[r] /\ unconfirmed'[r] = unconfirmed[r]
  BY DEF Crash, columns, history
<1> QED
  BY <1>1, <1>2, <1>3, ValueTypes
     DEF RecordInv, OneAttempt, Unopened, CountFollows, SendsFollow,
           AcceptancesFollow, Orderly, Waiting, Asked, Running, AtRest

\* The records of a deleted alert are deleted under the processes.
LEMMA DeleteAlertKeeps ==
  ASSUME IInv, DeleteAlert, NEW r \in Records
  PROVE  RecordInv(r)'
<1>1. TypeOK /\ RecordInv(r)
  BY DEF IInv
<1>2. Undisturbed' = Undisturbed
  BY DEF DeleteAlert, bounds, Undisturbed
<1>3. /\ status'[r] = IF status[r] = "none" THEN "none" ELSE "deleted"
      /\ retryCount'[r] = retryCount[r]
      /\ pc'[r] = pc[r] /\ path'[r] = path[r] /\ timers'[r] = timers[r]
      /\ local'[r] = local[r] /\ next'[r] = next[r] /\ sends'[r] = sends[r]
      /\ delivered'[r] = delivered[r] /\ unconfirmed'[r] = unconfirmed[r]
  BY DEF DeleteAlert, processes, history
<1> QED
  BY <1>1, <1>2, <1>3, ValueTypes
     DEF RecordInv, OneAttempt, Unopened, CountFollows, SendsFollow,
           AcceptancesFollow, Orderly, Waiting, Asked, Running, AtRest

\* New records begin their first attempt, or are left alone if the save is
\* reported as failed.
LEMMA SavedKeeps ==
  ASSUME IInv, NEW m \in Matches, NEW r \in Records,
         CreateNotificationRecords(m) \/ TaskFails(m)
  PROVE  RecordInv(r)'
<1>1. TypeOK /\ RecordInv(r)
  BY DEF IInv
<1>2. \/ CreateNotificationRecords(m) /\ Undisturbed' = Undisturbed
      \/ TaskFails(m) /\ ~Undisturbed'
  BY <1>1, TroubleStays DEF CreateNotificationRecords, TaskFails, bounds, Undisturbed
<1>3. CASE r \in NewRecords(m)
  <2>1. status[r] = "none"
    BY <1>3 DEF IInv, TasksFirst, NewRecords, CreateNotificationRecords, TaskFails
  <2>2. \/ Same(r)
        \/ /\ status'[r] = "pending" /\ retryCount'[r] = retryCount[r]
           /\ \/ CreateNotificationRecords(m) /\ pc'[r] = "load"
              \/ TaskFails(m) /\ pc'[r] = pc[r]
           /\ path'[r] = path[r]
           /\ local'[r] = local[r] /\ next'[r] = next[r] /\ timers'[r] = timers[r]
           /\ sends'[r] = sends[r] /\ delivered'[r] = delivered[r]
           /\ unconfirmed'[r] = unconfirmed[r]
    BY <1>3 DEF CreateNotificationRecords, TaskFails, Saved, Same, processes, history
  <2>3. CASE Same(r)
    BY <1>1, <1>2, <2>3, SameKeeps
  <2>4. CASE ~Same(r)
    <3>1. /\ pc[r] = "idle" /\ path[r] = "try" /\ timers[r] = 0
          /\ retryCount[r] = 0 /\ local[r] = 0
          /\ sends[r] = 0 /\ delivered[r] = 0 /\ unconfirmed[r] = 0
      BY <1>1, <2>1, ValueTypes DEF RecordInv, OneAttempt, Unopened
    <3>2. /\ status'[r] = "pending" /\ path'[r] = "try" /\ timers'[r] = 0
          /\ retryCount'[r] = 0 /\ local'[r] = 0
          /\ sends'[r] = 0 /\ delivered'[r] = 0 /\ unconfirmed'[r] = 0
          /\ \/ pc'[r] = "load"
             \/ pc'[r] = "idle" /\ ~Undisturbed'
      <4>1. /\ status'[r] = "pending" /\ path'[r] = "try" /\ timers'[r] = 0
            /\ retryCount'[r] = 0 /\ local'[r] = 0
            /\ sends'[r] = 0 /\ delivered'[r] = 0 /\ unconfirmed'[r] = 0
        BY <2>2, <2>4, <3>1
      <4>2. \/ pc'[r] = "load"
            \/ TaskFails(m) /\ pc'[r] = "idle"
        BY <2>2, <2>4, <3>1
      <4>3. TaskFails(m) => ~Undisturbed'
        BY <1>1, TroubleStays DEF TaskFails
      <4> QED
        BY <4>1, <4>2, <4>3
    <3>3. (OneAttempt(r) /\ Unopened(r) /\ CountFollows(r))'
      BY <3>2, LimitsTyped
         DEF OneAttempt, Unopened, CountFollows, Running, Asked
    <3>4. (SendsFollow(r) /\ AcceptancesFollow(r))'
      BY <3>2, LimitsTyped
         DEF SendsFollow, AcceptancesFollow, Running, Asked, Waiting
    <3>5. Undisturbed' => Orderly(r)'
      BY <3>2, LimitsTyped DEF Orderly, Running, Asked, Waiting, AtRest
    <3> QED
      BY <3>3, <3>4, <3>5 DEF RecordInv
  <2> QED
    BY <2>3, <2>4
<1>4. CASE r \notin NewRecords(m)
  <2>1. Same(r)
    BY <1>1, <1>4 DEF CreateNotificationRecords, TaskFails, Saved, Same, TypeOK,
                      processes, history
  <2> QED
    BY <1>1, <1>2, <2>1, SameKeeps
<1> QED
  BY <1>3, <1>4

\* Every step keeps the invariant of every record.
LEMMA NextRecordInv ==
  ASSUME IInv, [Next]_vars, NEW r \in Records
  PROVE  RecordInv(r)'
<1>1. CASE \/ UpdateAlert \/ (\E m \in Matches : GenerateNotification(m))
           \/ UNCHANGED vars
  <2>1. Same(r) /\ Undisturbed' = Undisturbed
    BY <1>1 DEF UpdateAlert, GenerateNotification, vars, Same, columns, processes,
                history, bounds, Undisturbed
  <2> QED
    BY <2>1, SameKeeps DEF IInv
<1>2. CASE \E m \in Matches : CreateNotificationRecords(m) \/ TaskFails(m)
  BY <1>2, SavedKeeps
<1>3. CASE DeleteAlert
  BY <1>3, DeleteAlertKeeps
<1>4. CASE Crash
  BY <1>4, CrashKeeps
<1>5. CASE \E q \in Records : DatabaseFails(q)
  BY <1>5, DatabaseFailsKeeps
<1>6. CASE \E q \in Records : Process(q)
  BY <1>6, LoadKeeps, AnswerKeeps, StoreSentKeeps, StoreFailedKeeps,
     ReadRetryCountKeeps, ScheduleRetryKeeps, RetryTimerFiresKeeps,
     ProcessRetryKeeps DEF Process
<1> QED
  BY <1>1, <1>2, <1>3, <1>4, <1>5, <1>6 DEF Next

\* A record is saved at the end of its task.
LEMMA NextTasksFirst ==
  ASSUME IInv, [Next]_vars
  PROVE  TasksFirst'
<1> SUFFICES ASSUME NEW m \in Matches, task'[m] # "done",
                    NEW r \in Records, r[1] = m
             PROVE  status'[r] = "none"
  BY DEF TasksFirst
<1>1. TypeOK /\ RecordInv(r) /\ TasksFirst
  BY DEF IInv
<1>2. CASE UpdateAlert \/ DeleteAlert \/ Crash \/ UNCHANGED vars
  <2>1. task[m] # "done"
    BY <1>2 DEF UpdateAlert, DeleteAlert, Crash, vars, tasks
  <2>2. status[r] = "none"
    BY <1>1, <2>1 DEF TasksFirst
  <2> QED
    BY <1>2, <2>2 DEF UpdateAlert, DeleteAlert, Crash, vars, columns
<1>3. ASSUME NEW n \in Matches, GenerateNotification(n)
      PROVE  status'[r] = "none"
  BY <1>1, <1>3 DEF GenerateNotification, TasksFirst, TypeOK, columns
<1>4. ASSUME NEW n \in Matches, CreateNotificationRecords(n) \/ TaskFails(n)
      PROVE  status'[r] = "none"
  <2>1. n # m /\ task[m] # "done"
    BY <1>1, <1>4 DEF CreateNotificationRecords, TaskFails, TypeOK
  <2>2. r \notin NewRecords(n) /\ status[r] = "none"
    BY <1>1, <2>1 DEF NewRecords, TasksFirst
  <2> QED
    BY <1>4, <2>2 DEF CreateNotificationRecords, TaskFails, Saved
<1>5. ASSUME NEW q \in Records, Process(q) \/ DatabaseFails(q)
      PROVE  status'[r] = "none"
  <2>1. task' = task
    BY <1>5 DEF Process, DatabaseFails, Load, Answer, StoreSent, StoreFailed,
       ReadRetryCount, ScheduleRetry, RetryTimerFires, ProcessRetryNotification, tasks
  <2>2. status[r] = "none" /\ pc[r] = "idle" /\ timers[r] = 0
    BY <1>1, <2>1 DEF TasksFirst, RecordInv, Unopened
  <2>3. q # r
    BY <1>5, <2>2 DEF Process, DatabaseFails, Load, Answer, StoreSent, StoreFailed,
       ReadRetryCount, ScheduleRetry, RetryTimerFires, ProcessRetryNotification
  <2> QED
    BY <1>1, <1>5, <2>2, <2>3 DEF Process, DatabaseFails, UpdateMade, WriteRetry, Load,
       Answer, StoreSent, StoreFailed, ReadRetryCount, ScheduleRetry, RetryTimerFires,
       ProcessRetryNotification, columns, TypeOK
<1> QED
  BY <1>2, <1>3, <1>4, <1>5 DEF Next

-----------------------------------------------------------------------------
(* The invariant and what follows from it.                                 *)

\* The invariant holds at the start.
LEMMA InitInvariant == Init => IInv
<1> SUFFICES ASSUME Init
             PROVE  IInv
  OBVIOUS
<1>1. TypeOK
  BY InitTypes
<1>2. TasksFirst
  BY DEF Init, TasksFirst
<1>3. ASSUME NEW r \in Records
      PROVE  RecordInv(r)
  <2>1. /\ status[r] = "none" /\ pc[r] = "idle" /\ path[r] = "try" /\ timers[r] = 0
        /\ retryCount[r] = 0 /\ local[r] = 0
        /\ sends[r] = 0 /\ delivered[r] = 0 /\ unconfirmed[r] = 0
    BY DEF Init
  <2>2. OneAttempt(r) /\ Unopened(r) /\ CountFollows(r)
    BY <2>1, LimitsTyped DEF OneAttempt, Unopened, CountFollows, Running, Asked
  <2>3. SendsFollow(r) /\ AcceptancesFollow(r)
    BY <2>1, LimitsTyped DEF SendsFollow, AcceptancesFollow, Running, Asked, Waiting
  <2>4. Orderly(r)
    BY <2>1, LimitsTyped DEF Orderly, Running, Asked, Waiting, AtRest
  <2> QED
    BY <2>2, <2>3, <2>4 DEF RecordInv
<1> QED
  BY <1>1, <1>2, <1>3 DEF IInv

\* The invariant holds in every reachable state.
THEOREM Invariance == Spec => []IInv
<1>1. IInv /\ [Next]_vars => IInv'
  BY NextTypes, NextRecordInv, NextTasksFirst DEF IInv
<1> QED
  BY InitInvariant, <1>1, PTL DEF Spec

\* Every variable keeps its type; in particular the stored retry count never
\* exceeds MaxRetries + 1.
THEOREM TypeCorrect == Spec => []TypeOK
<1>1. IInv => TypeOK
  BY DEF IInv
<1> QED
  BY Invariance, <1>1, PTL

\* A record has one attempt or one timer, never two, whichever of the two
\* calls of scheduleRetry its failures take.
THEOREM SingleAttempt == Spec => []OneAttemptAtATime
<1>1. IInv => OneAttemptAtATime
  BY DEF IInv, RecordInv, OneAttempt, OneAttemptAtATime
<1> QED
  BY Invariance, <1>1, PTL

\* The channel is asked at most MaxRetries + 1 times for a record.
THEOREM BoundedSends == Spec => []SendsBounded
<1>1. IInv => SendsBounded
  BY DEF IInv, RecordInv, SendsFollow, SendsBounded
<1> QED
  BY Invariance, <1>1, PTL

\* The channel gets a message again only if an acceptance was not stored.
THEOREM NoDuplicates == Spec => []NoNeedlessDuplicate
<1>1. IInv => NoNeedlessDuplicate
  BY DEF IInv, RecordInv, AcceptancesFollow, NoNeedlessDuplicate
<1> QED
  BY Invariance, <1>1, PTL

\* A record marked as sent was accepted.
THEOREM SentIsAccepted == Spec => []SentMeansAccepted
<1>1. IInv => SentMeansAccepted
  BY DEF IInv, RecordInv, AcceptancesFollow, SentMeansAccepted
<1> QED
  BY Invariance, <1>1, PTL

\* Without errors and crashes a record rests only when it is settled.
THEOREM RestIsSettled == Spec => []RestsOnlyWhenSettled
<1>1. IInv => RestsOnlyWhenSettled
  BY DEF IInv, RecordInv, Orderly, RestsOnlyWhenSettled
<1> QED
  BY Invariance, <1>1, PTL

-----------------------------------------------------------------------------
(* NotificationDelivery implements the safety part of BoundedDelivery.     *)

\* A saved record that is attended to is open.
LEMMA AttendedIsOpen ==
  ASSUME NEW r \in Records, status[r] # "none", pc[r] # "idle" \/ timers[r] > 0
  PROVE  Phase(r) = "open"
<1>1. ~AtRest(r)
  BY DEF AtRest
<1> QED
  BY <1>1 DEF Phase

\* A step of the process of an open record that neither asks nor hears from
\* the channel closes the record or is a stutter.
LEMMA Attended ==
  ASSUME IInv, IInv', NEW q \in Records,
         pc[q] # "idle" \/ timers[q] > 0,
         \A r \in Records \ {q} :
           status'[r] = status[r] /\ pc'[r] = pc[r] /\ timers'[r] = timers[r],
         status[q] = "none" \/ status'[q] # "none",
         sends' = sends, delivered' = delivered
  PROVE  Promise!Next \/ UNCHANGED Promise!vars
<1>1. /\ status[q] # "none" /\ status'[q] \in Statuses
      /\ status'[q] = "sent" => delivered[q] > 0
  <2>1. TypeOK /\ TypeOK' /\ RecordInv(q) /\ RecordInv(q)'
    BY DEF IInv
  <2>2. status[q] = "none" => pc[q] = "idle" /\ timers[q] = 0
    BY <2>1 DEF RecordInv, Unopened
  <2>3. status'[q] = "sent" => delivered'[q] > 0
    BY <2>1 DEF RecordInv, AcceptancesFollow
  <2> QED
    BY <2>1, <2>2, <2>3, ValueTypes DEF TypeOK
<1>2. Phase(q) = "open"
  BY <1>1, AttendedIsOpen
<1>3. \A r \in Records \ {q} : Phase(r)' = Phase(r)
  BY DEF Phase, AtRest
<1>4. CASE Phase(q)' = "open"
  BY <1>2, <1>3, <1>4 DEF Promise!vars
<1>5. CASE Phase(q)' # "open"
  <2>1. Phase(q)' \in {"sent", "failed", "abandoned", "removed"}
    BY <1>1, <1>5 DEF Phase, ClosedAs, Statuses
  <2>2. Phase(q)' = "sent" => delivered[q] > 0
    BY <1>1 DEF Phase, ClosedAs
  <2>3. Promise!Close(q)
    BY <1>2, <1>3, <2>1, <2>2 DEF Promise!Close, Promise!Outcomes
  <2> QED
    BY <2>3 DEF Promise!Next
<1> QED
  BY <1>4, <1>5

\* The initial records are unopened.
LEMMA InitMaps == Init => Promise!Init
BY DEF Init, Promise!Init, Phase

\* A process moves only its own step.
LEMMA OthersStay ==
  ASSUME TypeOK, NEW q \in Records,
         Throw(q) \/ (\E step \in Steps : Goto(q, step)) \/ pc' = pc
  PROVE  \A r \in Records \ {q} : pc'[r] = pc[r]
BY DEF TypeOK, Throw, Goto

\* A request is made while the record is open and within the limit.
LEMMA LoadMaps ==
  ASSUME IInv, IInv', NEW q \in Records, Load(q)
  PROVE  Promise!Next \/ UNCHANGED Promise!vars
<1>1. /\ pc[q] = "load" /\ delivered' = delivered /\ timers' = timers /\ status' = status
      /\ \A r \in Records \ {q} : pc'[r] = pc[r]
  <2>1. Throw(q) \/ Goto(q, "sending") \/ Goto(q, "storeFailed")
    BY DEF Load
  <2>2. "sending" \in Steps /\ "storeFailed" \in Steps
    BY DEF Steps
  <2>3. \A r \in Records \ {q} : pc'[r] = pc[r]
    BY <2>1, <2>2, OthersStay DEF IInv
  <2> QED
    BY <2>3 DEF Load, columns
<1>2. CASE sends' = sends
  BY <1>1, <1>2, Attended
<1>3. CASE sends' # sends
  <2>1. pc'[q] = "sending" /\ sends' = [sends EXCEPT ![q] = sends[q] + 1]
    BY <1>3 DEF Load, Goto, IInv, TypeOK
  <2>2. status[q] # "none" /\ sends[q] <= MaxRetries /\ sends[q] \in Nat
    BY <1>1, ValueTypes DEF IInv, RecordInv, Unopened, SendsFollow
  <2>3. Phase(q) = "open" /\ Phase(q)' = "open"
    BY <1>1, <2>1, <2>2 DEF Phase, AtRest
  <2>4. \A r \in Records \ {q} : Phase(r)' = Phase(r)
    BY <1>1 DEF Phase, AtRest
  <2>5. sends[q] < MaxRetries + 1
    BY <2>2, LimitsTyped
  <2>6. Promise!Ask(q)
    BY <1>1, <2>1, <2>3, <2>4, <2>5 DEF Promise!Ask
  <2> QED
    BY <2>6 DEF Promise!Next
<1> QED
  BY <1>2, <1>3

\* What the channel accepts was asked of it.
LEMMA AnswerMaps ==
  ASSUME IInv, IInv', NEW q \in Records, Answer(q)
  PROVE  Promise!Next \/ UNCHANGED Promise!vars
<1>1. /\ pc[q] = "sending" /\ sends' = sends /\ timers' = timers /\ status' = status
      /\ pc'[q] \in {"storeSent", "storeFailed"}
      /\ \A r \in Records \ {q} : pc'[r] = pc[r]
  BY AnswerShape DEF Answer, Goto, columns, IInv, TypeOK
<1>2. CASE delivered' = delivered
  BY <1>1, <1>2, Attended
<1>3. CASE delivered' # delivered
  <2>1. delivered' = [delivered EXCEPT ![q] = delivered[q] + 1]
    BY <1>3, AnswerShape
  <2>2. status[q] # "none" /\ delivered[q] < sends[q]
    BY <1>1 DEF IInv, RecordInv, Unopened, AcceptancesFollow
  <2>3. Phase(q) = "open" /\ Phase(q)' = "open"
    BY <1>1, <2>2 DEF Phase, AtRest
  <2>4. \A r \in Records \ {q} : Phase(r)' = Phase(r)
    BY <1>1 DEF Phase, AtRest
  <2>5. Promise!Accept(q)
    BY <1>1, <2>1, <2>2, <2>3, <2>4 DEF Promise!Accept
  <2> QED
    BY <2>5 DEF Promise!Next
<1> QED
  BY <1>2, <1>3

\* The other steps of a process store results, schedule and retry.
LEMMA StoreMaps ==
  ASSUME IInv, IInv', NEW q \in Records,
         \/ StoreSent(q) \/ StoreFailed(q) \/ ReadRetryCount(q) \/ ScheduleRetry(q)
         \/ RetryTimerFires(q) \/ ProcessRetryNotification(q) \/ DatabaseFails(q)
  PROVE  Promise!Next \/ UNCHANGED Promise!vars
<1>1. sends' = sends /\ delivered' = delivered /\ (pc[q] # "idle" \/ timers[q] > 0)
  BY DEF StoreSent, StoreFailed, ReadRetryCount, ScheduleRetry, RetryTimerFires,
         ProcessRetryNotification, DatabaseFails, history
<1>2. \A r \in Records \ {q} :
        status'[r] = status[r] /\ pc'[r] = pc[r] /\ timers'[r] = timers[r]
  <2>1. {"idle", "readCount", "reschedule", "fetch", "load"} \subseteq Steps
    BY DEF Steps
  <2>2. Throw(q) \/ \E step \in Steps : Goto(q, step)
    BY <2>1 DEF StoreSent, StoreFailed, ReadRetryCount, ScheduleRetry, RetryTimerFires,
         ProcessRetryNotification, DatabaseFails
  <2>3. \A r \in Records \ {q} : status'[r] = status[r]
    BY DEF StoreSent, StoreFailed, ReadRetryCount, ScheduleRetry, RetryTimerFires,
         ProcessRetryNotification, DatabaseFails, UpdateMade, WriteRetry, columns,
         IInv, TypeOK
  <2>4. \A r \in Records \ {q} : timers'[r] = timers[r]
    BY DEF StoreSent, StoreFailed, ReadRetryCount, ScheduleRetry, RetryTimerFires,
         ProcessRetryNotification, DatabaseFails, IInv, TypeOK
  <2> QED
    BY <2>2, <2>3, <2>4, OthersStay DEF IInv
<1>3. status[q] # "none"
  BY <1>1, ValueTypes DEF IInv, RecordInv, Unopened
<1>4. status'[q] # "none"
  BY <1>3 DEF StoreSent, StoreFailed, ReadRetryCount, ScheduleRetry, RetryTimerFires,
         ProcessRetryNotification, DatabaseFails, UpdateMade, WriteRetry, Updated,
         columns, IInv, TypeOK
<1> QED
  BY <1>1, <1>2, <1>4, Attended

\* The records of a match are opened together.
LEMMA SaveMaps ==
  ASSUME IInv, IInv', NEW m \in Matches,
         CreateNotificationRecords(m) \/ TaskFails(m)
  PROVE  Promise!Next \/ UNCHANGED Promise!vars
<1>1. sends' = sends /\ delivered' = delivered /\ timers' = timers
  BY DEF CreateNotificationRecords, TaskFails, processes, history
<1>2. CASE status' = status
  <2>1. \A r \in Records : AtRest(r)' = AtRest(r)
    <3>1. CASE pc' = pc
      BY <1>1, <3>1 DEF AtRest
    <3>2. CASE pc' # pc
      <4>1. CreateNotificationRecords(m) /\ Saved(m)
            /\ pc' = [r \in Records |-> IF r \in NewRecords(m) THEN "load" ELSE pc[r]]
        BY <3>2 DEF CreateNotificationRecords, TaskFails, processes
      <4>2. \A r \in NewRecords(m) : status[r] = "none" /\ status'[r] = "pending"
        BY <4>1 DEF CreateNotificationRecords, IInv, TasksFirst, NewRecords, Saved
      <4>3. NewRecords(m) = {}
        BY <1>2, <4>2
      <4> QED
        BY <1>1, <4>1, <4>3 DEF AtRest
    <3> QED
      BY <3>1, <3>2
  <2> QED
    BY <1>1, <1>2, <2>1 DEF Phase, Promise!vars
<1>3. CASE status' # status
  <2> DEFINE new == NewRecords(m)
  <2>1. /\ task[m] = "loaded" /\ Saved(m)
        /\ \/ pc' = pc
           \/ pc' = [r \in Records |-> IF r \in new THEN "load" ELSE pc[r]]
    BY <1>3 DEF CreateNotificationRecords, TaskFails, processes
  <2>2. new \in SUBSET Records
    BY DEF NewRecords
  <2>3. \A r \in new : status[r] = "none" /\ pc[r] = "idle" /\ timers[r] = 0
    BY <2>1 DEF NewRecords, IInv, TasksFirst, RecordInv, Unopened
  <2>4. \A r \in new : Phase(r) = "none" /\ status'[r] = "pending" /\ timers'[r] = 0
    BY <1>1, <2>1, <2>2, <2>3 DEF Phase, Saved
  <2>5. \A r \in Records \ new : Phase(r)' = Phase(r)
    BY <1>1, <2>1 DEF Phase, AtRest, Saved, IInv, TypeOK
  <2>6. CASE pc' = pc
    <3>1. \A r \in new : Phase(r)' = "abandoned"
      BY <2>3, <2>4, <2>6 DEF Phase, AtRest, ClosedAs
    <3>2. Promise!Open(new, "abandoned")
      BY <1>1, <2>2, <2>4, <2>5, <3>1 DEF Promise!Open
    <3> QED
      BY <2>2, <3>2 DEF Promise!Next
  <2>7. CASE pc' = [r \in Records |-> IF r \in new THEN "load" ELSE pc[r]]
    <3>1. \A r \in new : Phase(r)' = "open"
      BY <2>2, <2>4, <2>7 DEF Phase, AtRest
    <3>2. Promise!Open(new, "open")
      BY <1>1, <2>2, <2>4, <2>5, <3>1 DEF Promise!Open
    <3> QED
      BY <2>2, <3>2 DEF Promise!Next
  <2> QED
    BY <2>1, <2>6, <2>7
<1> QED
  BY <1>2, <1>3

\* The records at rest of a deleted alert are removed.
LEMMA DeleteMaps ==
  ASSUME IInv, IInv', DeleteAlert
  PROVE  Promise!Next \/ UNCHANGED Promise!vars
<1> DEFINE gone == {r \in Records : Phase(r) \in Promise!Outcomes}
<1>1. /\ sends' = sends /\ delivered' = delivered /\ timers' = timers /\ pc' = pc
      /\ \A r \in Records :
           status'[r] = IF status[r] = "none" THEN "none" ELSE "deleted"
  BY DEF DeleteAlert, processes, history
<1>2. \A r \in Records : status[r] \in Statuses
  BY DEF IInv, TypeOK
<1>3. \A r \in gone : Phase(r)' = "removed"
  BY <1>1 DEF Phase, AtRest, ClosedAs, Promise!Outcomes
<1>4. \A r \in Records \ gone : Phase(r)' = Phase(r)
  BY <1>1, <1>2 DEF Phase, AtRest, ClosedAs, Promise!Outcomes, Statuses
<1>5. Promise!Remove(gone)
  BY <1>1, <1>3, <1>4 DEF Promise!Remove
<1> QED
  BY <1>5 DEF Promise!Next

\* A crash closes what is open.
LEMMA CrashMaps ==
  ASSUME IInv, IInv', Crash
  PROVE  Promise!Next \/ UNCHANGED Promise!vars
<1>1. /\ sends' = sends /\ delivered' = delivered /\ status' = status
      /\ \A r \in Records : pc'[r] = "idle" /\ timers'[r] = 0
  BY DEF Crash, columns, history
<1>2. ASSUME NEW r \in Records
      PROVE  /\ Phase(r)' \in {"sent", "failed", "abandoned", "none", "removed"}
             /\ IF Phase(r) = "open"
                  THEN Phase(r)' # "none" /\ (Phase(r)' = "sent" => delivered[r] > 0)
                  ELSE Phase(r)' = Phase(r)
  <2>1. status[r] \in Statuses /\ (status[r] = "sent" => delivered[r] > 0)
    BY DEF IInv, TypeOK, RecordInv, AcceptancesFollow
  <2>2. Phase(r)' = IF status[r] = "none" THEN "none" ELSE ClosedAs(status[r])
    BY <1>1 DEF Phase, AtRest
  <2> QED
    BY <2>1, <2>2 DEF Phase, ClosedAs, Statuses
<1>3. Promise!CloseAll
  BY <1>1, <1>2 DEF Promise!CloseAll, Promise!Outcomes
<1> QED
  BY <1>3 DEF Promise!Next

\* Every step is a step of BoundedDelivery or a stutter.
LEMMA NextMaps ==
  ASSUME IInv, IInv', [Next]_vars
  PROVE  Promise!Next \/ UNCHANGED Promise!vars
<1>1. CASE \/ UpdateAlert \/ (\E m \in Matches : GenerateNotification(m))
           \/ UNCHANGED vars
  <2>1. /\ status' = status /\ pc' = pc /\ timers' = timers
        /\ sends' = sends /\ delivered' = delivered
    BY <1>1 DEF UpdateAlert, GenerateNotification, vars, columns, processes, history
  <2> QED
    BY <2>1 DEF Promise!vars, Phase, AtRest
<1>2. CASE \E m \in Matches : CreateNotificationRecords(m) \/ TaskFails(m)
  BY <1>2, SaveMaps
<1>3. CASE DeleteAlert
  BY <1>3, DeleteMaps
<1>4. CASE Crash
  BY <1>4, CrashMaps
<1>5. CASE \E q \in Records : Process(q) \/ DatabaseFails(q)
  BY <1>5, LoadMaps, AnswerMaps, StoreMaps DEF Process
<1> QED
  BY <1>1, <1>2, <1>3, <1>4, <1>5 DEF Next

\* Records are opened at most once, asked a bounded number of times, closed as
\* sent only if accepted, and left alone once they are closed.
THEOREM ImplementsPromise == Spec => Promise!SafeSpec
<1>1. IInv /\ IInv' /\ [Next]_vars => [Promise!Next]_(Promise!vars)
  BY NextMaps
<1> QED
  BY InitMaps, Invariance, <1>1, PTL DEF Spec, Promise!SafeSpec

=============================================================================
