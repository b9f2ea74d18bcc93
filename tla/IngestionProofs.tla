-------------------------- MODULE IngestionProofs --------------------------
(***************************************************************************)
(* Proofs about Ingestion, for any deliveries, batch and chunk sizes and   *)
(* any number of failures, crashes and REST requests.                      *)
(***************************************************************************)
EXTENDS Ingestion, TLAPS

(***************************************************************************)
(* The inductive invariant.  StoredOncePerDelivery is not inductive: a     *)
(* retry is harmless only because the rows its batch already has all come  *)
(* from commits reported as failed, which in turn holds because the flag   *)
(* keeps a second caller out while a stored batch waits to be cleared.     *)
(***************************************************************************)

\* A run works on a part of the batch, in the newest database transaction.
RunWithinBatch ==
  \A f \in Flusher : Active(f) =>
    /\ snapshot[f] \subseteq currentBatch
    /\ todo[f] \subseteq snapshot[f]
    /\ attempt[f] = attempts

\* Past the commit every transaction of the run is stored, or was rolled back
\* by it.
CommittedRunIsStored ==
  \A f \in Flusher : pc[f] \in {"marking", "syncing"} =>
    \A d \in snapshot[f] : AccountedFor(d)

\* The batch holds pushed deliveries, and a row is of a delivery that was.
BatchIsPushed == \A d \in currentBatch : handler[d] = "pushed"

RowsArePushed ==
  \A r \in rows : handler[r[1]] \in {"pushed", "lost"} /\ r[2] <= attempts

\* A stored row of a delivery that is still in the batch is of a commit
\* reported as failed, or of the run that is about to clear the batch.
BatchedRowsSettled ==
  \A r \in rows : r[1] \in currentBatch =>
    \/ r[2] \in ackLost
    \/ \E f \in Flusher : pc[f] \in {"marking", "syncing"} /\ r[2] = attempt[f]

\* What keeps the batch, the runs and the rows together.
BatchInv ==
  /\ FlagTracksRun
  /\ RunWithinBatch
  /\ CommittedRunIsStored
  /\ BatchIsPushed
  /\ RowsArePushed
  /\ BatchedRowsSettled
  /\ StoredOncePerDelivery

\* Rows that went to the alerts, matched or not, are of no database transaction
\* still to come, and no run inserts them again in its own.
HandedOver ==
  /\ \A f \in Flusher : ~Active(f) => todo[f] = {}
  /\ \A r \in alerted \cup UNION alertTasks :
       /\ r[2] <= attempts
       /\ \A f \in Flusher : r[2] = attempt[f] => r[1] \notin todo[f]

\* A held handle is a registered callback, so stopping can give one back.
HandleIsRegistered == subscription => callbacks > 0

IInv ==
  /\ TypeOK
  /\ HandleIsRegistered
  /\ BatchInv
  /\ DuplicateMeansStored
  /\ HandedOver
  /\ MatchedOnce

-----------------------------------------------------------------------------
(* Types.                                                                  *)

\* A call of processBatch, refused or not, keeps the types of the runs.
LEMMA BeginRunTypes ==
  ASSUME RunTypeOK, NEW f \in Flusher, NEW B \in SUBSET Delivery,
         ProcessBatch(f, B)
  PROVE  RunTypeOK'
<1>1. CASE MayBegin(B)
  <2> USE <1>1 DEF ProcessBatch, BeginRun, RunTypeOK
  <2>1. isProcessing' \in BOOLEAN
    BY Zenon
  <2>2. pc' \in [Flusher -> {"idle", "saving", "marking", "syncing"}]
    OBVIOUS
  <2>3. snapshot' \in [Flusher -> SUBSET Delivery]
    OBVIOUS
  <2>4. todo' \in [Flusher -> SUBSET Delivery]
    OBVIOUS
  <2>5. attempt' \in [Flusher -> Nat] /\ attempts' \in Nat /\ aborted' \subseteq Flusher
    OBVIOUS
  <2> QED
    BY <2>1, <2>2, <2>3, <2>4, <2>5
<1>2. CASE ~MayBegin(B)
  BY <1>2 DEF ProcessBatch, RunTypeOK, run
<1> QED
  BY <1>1, <1>2

\* So does the end of a run.
LEMMA EndRunTypes ==
  ASSUME RunTypeOK, NEW f \in Flusher, EndRun(f)
  PROVE  RunTypeOK'
<1> USE DEF EndRun, DropLocals, RunTypeOK
<1>1. isProcessing' \in BOOLEAN
  BY Zenon
<1>2. pc' \in [Flusher -> {"idle", "saving", "marking", "syncing"}]
  OBVIOUS
<1>3. snapshot' \in [Flusher -> SUBSET Delivery]
  OBVIOUS
<1>4. todo' \in [Flusher -> SUBSET Delivery]
  OBVIOUS
<1>5. attempt' \in [Flusher -> Nat] /\ attempts' \in Nat /\ aborted' \subseteq Flusher
  OBVIOUS
<1> QED
  BY <1>1, <1>2, <1>3, <1>4, <1>5

\* What a chunk that inserts nothing does, whether a failed statement aborts
\* the transaction in it or had aborted it before.
LEMMA PassingChunk ==
  ASSUME NEW f \in Flusher, SwallowFailure(f) \/ SkipChunk(f)
  PROVE  /\ pc[f] = "saving"
         /\ \E chunk \in SUBSET todo[f] :
              todo' = [todo EXCEPT ![f] = todo[f] \ chunk]
         /\ aborted' \subseteq aborted \cup {f}
         /\ failures' \in {failures, failures + 1}
         /\ UNCHANGED <<control, handler, currentBatch, isProcessing, cache, pc,
                        snapshot, attempt, attempts, ackLost, vanished, rows,
                        alerts, crashes, restCalls>>
<1>1. PICK chunk \in SUBSET todo[f] : PassChunk(f, chunk)
  BY DEF SwallowFailure, SkipChunk
<1>2. aborted' \subseteq aborted \cup {f} /\ failures' \in {failures, failures + 1}
  BY DEF SwallowFailure, SkipChunk
<1>3. todo' = [todo EXCEPT ![f] = todo[f] \ chunk]
  BY <1>1 DEF PassChunk
<1> QED
  BY <1>1, <1>2, <1>3 DEF PassChunk

\* Every step keeps the types of the runs and of the flag.
LEMMA RunTypeStep == TypeOK /\ [Next]_vars => RunTypeOK'
<1> SUFFICES ASSUME RunTypeOK, DataTypeOK, [Next]_vars PROVE RunTypeOK'
  BY DEF TypeOK
<1>1. CASE InitModule
  BY <1>1 DEF InitModule, run, RunTypeOK
<1>2. CASE Crash
  <2> USE <1>2 DEF Crash, RunTypeOK
  <2>1. isProcessing' \in BOOLEAN
    BY Zenon
  <2>2. /\ pc' \in [Flusher -> {"idle", "saving", "marking", "syncing"}]
        /\ snapshot' \in [Flusher -> SUBSET Delivery]
        /\ todo' \in [Flusher -> SUBSET Delivery]
        /\ attempt' \in [Flusher -> Nat]
        /\ attempts' \in Nat
        /\ aborted' \subseteq Flusher
    OBVIOUS
  <2> QED
    BY <2>1, <2>2
<1>3. CASE Restart
  BY <1>3 DEF Restart, run, RunTypeOK
<1>4. ASSUME NEW d \in Delivery, CheckDuplicate(d) PROVE RunTypeOK'
  BY <1>4 DEF CheckDuplicate, run, RunTypeOK
<1>5. ASSUME NEW d \in Delivery, PushTransaction(d) PROVE RunTypeOK'
  <2>1. CASE ProcessBatch(d, currentBatch \cup {d})
    <3>1. d \in Flusher /\ currentBatch \cup {d} \in SUBSET Delivery
      BY DEF Flusher, DataTypeOK
    <3> QED
      BY <2>1, <3>1, BeginRunTypes
  <2>2. CASE UNCHANGED run
    BY <2>2 DEF run, RunTypeOK
  <2> QED
    BY <1>5, <2>1, <2>2 DEF PushTransaction
<1>6. CASE TimerTick
  <2>1. Timer \in Flusher /\ currentBatch \in SUBSET Delivery
    BY DEF Flusher, DataTypeOK
  <2> QED
    BY <1>6, <2>1, BeginRunTypes DEF TimerTick
<1>7. CASE ForceProcessBatch
  <2>1. Operator \in Flusher /\ currentBatch \in SUBSET Delivery
    BY DEF Flusher, DataTypeOK
  <2> QED
    BY <1>7, <2>1, BeginRunTypes DEF ForceProcessBatch
<1>8. CASE StartIngestion
  BY <1>8 DEF StartIngestion, run, RunTypeOK
<1>9. CASE StopIngestion
  <2>1. Operator \in Flusher /\ currentBatch \in SUBSET Delivery
    BY DEF Flusher, DataTypeOK
  <2> QED
    BY <1>9, <2>1, BeginRunTypes DEF StopIngestion
<1>10. ASSUME NEW f \in Flusher, SaveChunk(f) PROVE RunTypeOK'
  BY <1>10 DEF SaveChunk, RunTypeOK, DataTypeOK
<1>11. ASSUME NEW f \in Flusher, BatchFails(f) PROVE RunTypeOK'
  BY <1>11, EndRunTypes DEF BatchFails
<1>12. ASSUME NEW f \in Flusher, CommitAckLost(f) PROVE RunTypeOK'
  BY <1>12, EndRunTypes DEF CommitAckLost
<1>13. ASSUME NEW f \in Flusher, Commit(f) PROVE RunTypeOK'
  BY <1>13 DEF Commit, RunTypeOK, DataTypeOK
<1>14. ASSUME NEW f \in Flusher, MarkAsProcessed(f) PROVE RunTypeOK'
  BY <1>14 DEF MarkAsProcessed, RunTypeOK, DataTypeOK
<1>15. ASSUME NEW f \in Flusher, FinishBatch(f) PROVE RunTypeOK'
  BY <1>15, EndRunTypes DEF FinishBatch
<1>16. ASSUME NEW k \in cache, ForgetKey(k) PROVE RunTypeOK'
  BY <1>16 DEF ForgetKey, run, RunTypeOK
<1>17. ASSUME NEW task \in alertTasks, ProcessAlerts(task) PROVE RunTypeOK'
  BY <1>17 DEF ProcessAlerts, run, RunTypeOK
<1>18. ASSUME NEW task \in alertTasks, AlertsFail(task) PROVE RunTypeOK'
  BY <1>18 DEF AlertsFail, run, RunTypeOK
<1>19. CASE UNCHANGED vars
  BY <1>19 DEF vars, run, RunTypeOK
<1>20. ASSUME NEW f \in Flusher, SwallowFailure(f) \/ SkipChunk(f) PROVE RunTypeOK'
  BY <1>20, PassingChunk DEF RunTypeOK
<1>21. ASSUME NEW f \in Flusher, RefuseChunk(f) PROVE RunTypeOK'
  BY <1>21, EndRunTypes DEF RefuseChunk
<1> QED
  BY <1>1, <1>2, <1>3, <1>4, <1>5, <1>6, <1>7, <1>8, <1>9, <1>10,
     <1>11, <1>12, <1>13, <1>14, <1>15, <1>16, <1>17, <1>18, <1>19, <1>20,
     <1>21 DEF Next

\* Every step keeps the types of the rest; a stop gives back a callback only
\* when a handle is held, so their number stays natural.
LEMMA DataTypeStep ==
  TypeOK /\ HandleIsRegistered /\ [Next]_vars => DataTypeOK'
<1> SUFFICES ASSUME RunTypeOK, DataTypeOK, HandleIsRegistered, [Next]_vars
             PROVE  DataTypeOK'
  BY DEF TypeOK
<1> USE DeliveryAssumption, BoundAssumption DEF HandleIsRegistered
<1>1. CASE InitModule
  BY <1>1 DEF InitModule, DataTypeOK, alerts, bounds
<1>2. CASE Crash
  <2>1. handler' \in [Delivery -> {"new", "checked", "pushed", "ignored", "lost"}]
    BY <1>2 DEF Crash, DataTypeOK
  <2>2. subscription' \in BOOLEAN /\ timerOn' \in BOOLEAN
    BY <1>2, Zenon DEF Crash
  <2>3. crashes' \in Nat
    BY <1>2 DEF Crash, DataTypeOK
  <2> QED
    BY <1>2, <2>1, <2>2, <2>3 DEF Crash, DataTypeOK
<1>3. CASE Restart
  BY <1>3 DEF Restart, DataTypeOK, alerts, bounds
<1>4. ASSUME NEW d \in Delivery, CheckDuplicate(d) PROVE DataTypeOK'
  BY <1>4 DEF CheckDuplicate, DataTypeOK, control, alerts, bounds
<1>5. ASSUME NEW d \in Delivery, PushTransaction(d) PROVE DataTypeOK'
  BY <1>5 DEF PushTransaction, DataTypeOK, control, alerts, bounds
<1>6. CASE TimerTick
  BY <1>6 DEF TimerTick, DataTypeOK, control, alerts, bounds
<1>7. CASE ForceProcessBatch
  BY <1>7 DEF ForceProcessBatch, DataTypeOK, control, alerts, bounds
<1>8. CASE StartIngestion
  BY <1>8 DEF StartIngestion, DataTypeOK, alerts
<1>9. CASE StopIngestion
  <2>1. callbacks' \in Nat
    BY <1>9 DEF StopIngestion, DataTypeOK
  <2>2. subscription' \in BOOLEAN /\ timerOn' \in BOOLEAN
    BY <1>9, Zenon DEF StopIngestion
  <2>3. restCalls' \in Nat
    BY <1>9 DEF StopIngestion, DataTypeOK
  <2> QED
    BY <1>9, <2>1, <2>2, <2>3 DEF StopIngestion, DataTypeOK, alerts
<1>10. ASSUME NEW f \in Flusher, SaveChunk(f) PROVE DataTypeOK'
  <2>1. PICK chunk \in SUBSET todo[f] :
          alertTasks' = alertTasks \cup ({Rows(chunk, attempt[f])} \ {{}})
    BY <1>10 DEF SaveChunk
  <2>2. Rows(chunk, attempt[f]) \subseteq Row
    BY DEF Rows, Row, RunTypeOK
  <2>3. alertTasks' \subseteq SUBSET Row
    BY <2>1, <2>2 DEF DataTypeOK
  <2> QED
    BY <1>10, <2>3 DEF SaveChunk, DataTypeOK, control, bounds
<1>11. ASSUME NEW f \in Flusher, BatchFails(f) PROVE DataTypeOK'
  BY <1>11 DEF BatchFails, DataTypeOK, control, alerts
<1>12. ASSUME NEW f \in Flusher, CommitAckLost(f) PROVE DataTypeOK'
  <2>1. Rows(snapshot[f], attempt[f]) \subseteq Row /\ attempt[f] \in Nat
    BY DEF Rows, Row, RunTypeOK
  <2>2. rows' \subseteq Row /\ ackLost' \subseteq Nat
    BY <1>12, <2>1 DEF CommitAckLost, DataTypeOK
  <2>3. failures' \in Nat
    BY <1>12 DEF CommitAckLost, DataTypeOK
  <2> QED
    BY <1>12, <2>2, <2>3 DEF CommitAckLost, DataTypeOK, control, alerts
<1>13. ASSUME NEW f \in Flusher, Commit(f) PROVE DataTypeOK'
  <2>1. Rows(snapshot[f], attempt[f]) \subseteq Row
    BY DEF Rows, Row, RunTypeOK
  <2>2. rows' \subseteq Row /\ vanished' \subseteq Delivery
    BY <1>13, <2>1 DEF Commit, DataTypeOK, RunTypeOK
  <2> QED
    BY <1>13, <2>2 DEF Commit, DataTypeOK, control, alerts, bounds
<1>14. ASSUME NEW f \in Flusher, MarkAsProcessed(f) PROVE DataTypeOK'
  <2>1. {TxOf[d] : d \in snapshot[f]} \subseteq Tx
    BY DEF RunTypeOK
  <2> QED
    BY <1>14, <2>1 DEF MarkAsProcessed, DataTypeOK, control, alerts, bounds
<1>15. ASSUME NEW f \in Flusher, FinishBatch(f) PROVE DataTypeOK'
  BY <1>15 DEF FinishBatch, DataTypeOK, control, alerts, bounds
<1>16. ASSUME NEW k \in cache, ForgetKey(k) PROVE DataTypeOK'
  BY <1>16 DEF ForgetKey, DataTypeOK, control, alerts, bounds
<1>17. ASSUME NEW task \in alertTasks, ProcessAlerts(task) PROVE DataTypeOK'
  BY <1>17 DEF ProcessAlerts, DataTypeOK, VisibleRows, control, bounds
<1>18. ASSUME NEW task \in alertTasks, AlertsFail(task) PROVE DataTypeOK'
  BY <1>18 DEF AlertsFail, DataTypeOK, control
<1>19. CASE UNCHANGED vars
  BY <1>19 DEF vars, DataTypeOK, control, alerts, bounds
<1>20. ASSUME NEW f \in Flusher, SwallowFailure(f) \/ SkipChunk(f) PROVE DataTypeOK'
  <2>1. failures' \in Nat
    BY <1>20, PassingChunk DEF DataTypeOK
  <2> QED
    BY <1>20, <2>1, PassingChunk DEF DataTypeOK, control, alerts
<1>21. ASSUME NEW f \in Flusher, RefuseChunk(f) PROVE DataTypeOK'
  BY <1>21 DEF RefuseChunk, DataTypeOK, control, alerts, bounds
<1> QED
  BY <1>1, <1>2, <1>3, <1>4, <1>5, <1>6, <1>7, <1>8, <1>9, <1>10,
     <1>11, <1>12, <1>13, <1>14, <1>15, <1>16, <1>17, <1>18, <1>19, <1>20,
     <1>21 DEF Next

-----------------------------------------------------------------------------
(* The batch, the runs and the rows.                                       *)

\* Steps that touch none of them.
LEMMA BatchInvFrame ==
  ASSUME BatchInv, UNCHANGED <<handler, currentBatch, run, ackLost, vanished, rows>>
  PROVE  BatchInv'
BY DEF BatchInv, FlagTracksRun, RunWithinBatch, CommittedRunIsStored,
       BatchIsPushed, RowsArePushed, BatchedRowsSettled, StoredOncePerDelivery,
       Active, HasRow, AccountedFor, run

\* The batch grows to B and processBatch is called on it or not, as in a push
\* or a flush.
LEMMA BatchInvBegin ==
  ASSUME TypeOK, BatchInv, NEW f \in Flusher, NEW B \in SUBSET Delivery,
         ProcessBatch(f, B) \/ UNCHANGED run, currentBatch' = B, currentBatch \subseteq B,
         \A d \in B : handler'[d] = "pushed",
         \A d \in B \ currentBatch : ~HasRow(d),
         \A d \in Delivery : handler[d] \in {"pushed", "lost"} =>
                               handler'[d] = handler[d],
         UNCHANGED <<ackLost, vanished, rows>>
  PROVE  BatchInv'
<1> USE DEF TypeOK, RunTypeOK, DataTypeOK, BatchInv, Active, HasRow, AccountedFor, Row
<1>1. BatchIsPushed' /\ StoredOncePerDelivery'
  BY DEF BatchIsPushed, StoredOncePerDelivery
<1>2. CASE MayBegin(B) /\ BeginRun(f, B)
  <2> USE <1>2 DEF BeginRun, MayBegin
  <2>1. \A g \in Flusher : pc[g] = "idle"
    BY DEF FlagTracksRun
  <2>2. \A g \in Flusher : pc'[g] = IF g = f THEN "saving" ELSE "idle"
    BY <2>1
  <2>3. FlagTracksRun'
    BY <2>2 DEF FlagTracksRun
  <2>4. RunWithinBatch'
    BY <2>2 DEF RunWithinBatch
  <2>5. CommittedRunIsStored'
    BY <2>2 DEF CommittedRunIsStored
  <2>6. RowsArePushed'
    BY DEF RowsArePushed
  <2>7. BatchedRowsSettled'
    BY <2>1 DEF BatchedRowsSettled
  <2> QED
    BY <1>1, <2>3, <2>4, <2>5, <2>6, <2>7
<1>3. CASE UNCHANGED run
  <2> USE <1>3 DEF run
  <2>1. FlagTracksRun' /\ CommittedRunIsStored'
    BY DEF FlagTracksRun, CommittedRunIsStored
  <2>2. RunWithinBatch'
    BY DEF RunWithinBatch
  <2>3. RowsArePushed'
    BY DEF RowsArePushed
  <2>4. BatchedRowsSettled'
    BY DEF BatchedRowsSettled
  <2> QED
    BY <1>1, <2>1, <2>2, <2>3, <2>4
<1> QED
  BY <1>2, <1>3 DEF ProcessBatch

\* While a run is saving, every row the batch already has is of a commit
\* reported as failed.
LEMMA SavingRowsAckLost ==
  ASSUME BatchInv, NEW f \in Flusher, pc[f] = "saving",
         NEW r \in rows, r[1] \in currentBatch
  PROVE  r[2] \in ackLost
BY DEF BatchInv, FlagTracksRun, BatchedRowsSettled, Active

\* A run inserts rows of its own batch, under the newest attempt.
LEMMA NewRows ==
  ASSUME TypeOK, BatchInv, NEW f \in Flusher, pc[f] = "saving",
         NEW r \in Rows(snapshot[f], attempt[f])
  PROVE  /\ r \in Row
         /\ r[1] \in snapshot[f] /\ r[1] \in currentBatch
         /\ r[2] = attempt[f] /\ r[2] = attempts
<1>1. Active(f)
  BY DEF Active
<1>2. snapshot[f] \subseteq currentBatch /\ attempt[f] = attempts
  BY <1>1 DEF BatchInv, RunWithinBatch
<1>3. attempt[f] \in Nat /\ snapshot[f] \subseteq Delivery
  BY DEF TypeOK, RunTypeOK
<1>4. PICK d \in snapshot[f] : r = <<d, attempt[f]>>
  BY DEF Rows
<1> QED
  BY <1>2, <1>3, <1>4 DEF Row

\* A saved batch never makes an unreported duplicate.
LEMMA SaveKeepsStoredOnce ==
  ASSUME TypeOK, BatchInv, NEW f \in Flusher, pc[f] = "saving",
         rows' = rows \cup Rows(snapshot[f], attempt[f]),
         ackLost \subseteq ackLost'
  PROVE  StoredOncePerDelivery'
<1> SUFFICES ASSUME NEW r \in rows', NEW s \in rows',
                    r[1] = s[1], r[2] < s[2]
             PROVE  r[2] \in ackLost'
  BY DEF StoredOncePerDelivery
<1>1. CASE r \in rows /\ s \in rows
  BY <1>1 DEF BatchInv, StoredOncePerDelivery
<1>2. CASE r \in rows /\ s \in Rows(snapshot[f], attempt[f])
  <2>1. r[1] \in currentBatch
    BY <1>2, NewRows
  <2> QED
    BY <1>2, <2>1, SavingRowsAckLost
<1>3. CASE r \in Rows(snapshot[f], attempt[f])
  <2>1. r[2] = attempts /\ attempts \in Nat
    BY <1>3, NewRows DEF TypeOK, RunTypeOK
  <2>2. CASE s \in rows
    <3>1. s[2] <= attempts /\ s[2] \in Nat
      BY <2>2 DEF BatchInv, RowsArePushed, TypeOK, DataTypeOK, Row
    <3> QED
      BY <2>1, <3>1
  <2>3. CASE s \in Rows(snapshot[f], attempt[f])
    <3>1. s[2] = attempts
      BY <2>3, NewRows
    <3> QED
      BY <2>1, <3>1
  <2> QED
    BY <2>2, <2>3
<1> QED
  BY <1>1, <1>2, <1>3

\* A saved batch consists of pushed deliveries, under the newest attempt.
LEMMA SaveKeepsPushed ==
  ASSUME TypeOK, BatchInv, NEW f \in Flusher, pc[f] = "saving",
         rows' = rows \cup Rows(snapshot[f], attempt[f]),
         UNCHANGED <<handler, attempts>>
  PROVE  RowsArePushed'
<1> SUFFICES ASSUME NEW r \in rows'
             PROVE  handler[r[1]] \in {"pushed", "lost"} /\ r[2] <= attempts
  BY DEF RowsArePushed
<1>1. CASE r \in rows
  BY <1>1 DEF BatchInv, RowsArePushed
<1>2. CASE r \in Rows(snapshot[f], attempt[f])
  <2>1. r[1] \in currentBatch /\ r[2] = attempts /\ attempts \in Nat
    BY <1>2, NewRows DEF TypeOK, RunTypeOK
  <2> QED
    BY <2>1 DEF BatchInv, BatchIsPushed
<1> QED
  BY <1>1, <1>2

\* When the only run ends, no caller is left inside processBatch.
LEMMA EndRunIdle ==
  ASSUME TypeOK, BatchInv, NEW f \in Flusher, Active(f), EndRun(f)
  PROVE  /\ \A g \in Flusher : pc'[g] = "idle"
         /\ FlagTracksRun' /\ RunWithinBatch' /\ CommittedRunIsStored'
<1>1. \A g \in Flusher : g # f => pc[g] = "idle"
  BY DEF BatchInv, FlagTracksRun, Active
<1>2. \A g \in Flusher : pc'[g] = "idle"
  BY <1>1 DEF EndRun, DropLocals, TypeOK, RunTypeOK
<1>3. FlagTracksRun'
  BY <1>2 DEF EndRun, FlagTracksRun, Active
<1>4. RunWithinBatch' /\ CommittedRunIsStored'
  BY <1>2 DEF RunWithinBatch, CommittedRunIsStored, Active
<1> QED
  BY <1>2, <1>3, <1>4

\* The steps of a run.
LEMMA BatchInvRun ==
  ASSUME TypeOK, BatchInv, NEW f \in Flusher,
         \/ SaveChunk(f) \/ SwallowFailure(f) \/ SkipChunk(f) \/ RefuseChunk(f)
         \/ BatchFails(f) \/ CommitAckLost(f)
         \/ Commit(f) \/ MarkAsProcessed(f) \/ FinishBatch(f)
  PROVE  BatchInv'
<1>1. \A g \in Flusher : Active(f) /\ g # f => pc[g] = "idle"
  BY DEF BatchInv, FlagTracksRun, Active
<1>2. CASE SaveChunk(f) \/ SwallowFailure(f) \/ SkipChunk(f)
  <2>0. /\ pc[f] = "saving"
        /\ \E chunk \in SUBSET todo[f] :
             todo' = [todo EXCEPT ![f] = todo[f] \ chunk]
        /\ UNCHANGED <<handler, currentBatch, isProcessing, pc, snapshot, attempt,
                       attempts, ackLost, vanished, rows>>
    BY <1>2, PassingChunk DEF SaveChunk
  <2> USE <2>0 DEF BatchInv, Active, HasRow, AccountedFor
  <2>1. FlagTracksRun' /\ CommittedRunIsStored' /\ BatchIsPushed'
    BY DEF FlagTracksRun, CommittedRunIsStored, BatchIsPushed
  <2>2. RunWithinBatch'
    BY DEF RunWithinBatch, TypeOK, RunTypeOK
  <2>3. RowsArePushed' /\ BatchedRowsSettled' /\ StoredOncePerDelivery'
    BY DEF RowsArePushed, BatchedRowsSettled, StoredOncePerDelivery
  <2> QED
    BY <2>1, <2>2, <2>3
<1>3. CASE BatchFails(f) \/ RefuseChunk(f)
  <2> USE <1>3 DEF BatchFails, RefuseChunk
  <2>1. FlagTracksRun' /\ RunWithinBatch' /\ CommittedRunIsStored'
    BY EndRunIdle DEF Active
  <2>2. BatchIsPushed' /\ RowsArePushed' /\ StoredOncePerDelivery'
    BY DEF BatchInv, BatchIsPushed, RowsArePushed, StoredOncePerDelivery,
           EndRun, DropLocals
  <2>3. BatchedRowsSettled'
    BY SavingRowsAckLost DEF BatchedRowsSettled
  <2> QED
    BY <2>1, <2>2, <2>3 DEF BatchInv
<1>4. CASE CommitAckLost(f)
  <2> USE <1>4 DEF CommitAckLost
  <2>1. FlagTracksRun' /\ RunWithinBatch' /\ CommittedRunIsStored'
    BY EndRunIdle DEF Active
  <2>2. BatchIsPushed'
    BY DEF BatchInv, BatchIsPushed
  <2>3. RowsArePushed' /\ StoredOncePerDelivery'
    BY SaveKeepsPushed, SaveKeepsStoredOnce DEF EndRun, DropLocals
  <2>4. BatchedRowsSettled'
    <3> SUFFICES ASSUME NEW r \in rows', r[1] \in currentBatch
                 PROVE  r[2] \in ackLost'
      BY DEF BatchedRowsSettled
    <3>1. CASE r \in rows
      BY <3>1, SavingRowsAckLost
    <3>2. CASE r \in Rows(snapshot[f], attempt[f])
      BY <3>2, NewRows
    <3> QED
      BY <3>1, <3>2
  <2> QED
    BY <2>1, <2>2, <2>3, <2>4 DEF BatchInv
<1>5. CASE Commit(f)
  <2> USE <1>5 DEF Commit
  <2>1. \A g \in Flusher : pc'[g] = IF g = f THEN "marking" ELSE "idle"
    BY <1>1 DEF Active, TypeOK, RunTypeOK
  <2>2. FlagTracksRun'
    BY <2>1 DEF BatchInv, FlagTracksRun, Active
  <2>3. RunWithinBatch' /\ BatchIsPushed'
    BY <2>1 DEF BatchInv, RunWithinBatch, BatchIsPushed, Active
  <2>4. CASE f \in aborted
    <3> USE <2>4
    <3>1. CommittedRunIsStored'
      BY <2>1 DEF CommittedRunIsStored, AccountedFor
    <3>2. RowsArePushed' /\ StoredOncePerDelivery'
      BY DEF BatchInv, RowsArePushed, StoredOncePerDelivery
    <3>3. BatchedRowsSettled'
      BY SavingRowsAckLost DEF BatchedRowsSettled
    <3> QED
      BY <2>2, <2>3, <3>1, <3>2, <3>3 DEF BatchInv
  <2>5. CASE f \notin aborted
    <3> USE <2>5
    <3>1. CommittedRunIsStored'
      <4> SUFFICES ASSUME NEW d \in snapshot[f], d \notin Unbuildable
                   PROVE  HasRow(d)'
        BY <2>1 DEF CommittedRunIsStored, AccountedFor
      <4>1. <<d, attempt[f]>> \in rows'
        BY DEF Rows
      <4> QED
        BY <4>1 DEF HasRow
    <3>2. RowsArePushed' /\ StoredOncePerDelivery'
      BY SaveKeepsPushed, SaveKeepsStoredOnce
    <3>3. BatchedRowsSettled'
      <4> SUFFICES ASSUME NEW r \in rows', r[1] \in currentBatch
                   PROVE  r[2] \in ackLost \/ r[2] = attempt[f]
        BY <2>1 DEF BatchedRowsSettled
      <4>1. CASE r \in rows
        BY <4>1, SavingRowsAckLost
      <4>2. CASE r \in Rows(snapshot[f], attempt[f])
        BY <4>2, NewRows
      <4> QED
        BY <4>1, <4>2
    <3> QED
      BY <2>2, <2>3, <3>1, <3>2, <3>3 DEF BatchInv
  <2> QED
    BY <2>4, <2>5
<1>6. CASE MarkAsProcessed(f)
  <2> USE <1>6 DEF MarkAsProcessed, BatchInv, HasRow, AccountedFor
  <2>1. \A g \in Flusher : pc'[g] = IF g = f THEN "syncing" ELSE "idle"
    BY <1>1 DEF Active, TypeOK, RunTypeOK
  <2>2. FlagTracksRun'
    BY <2>1 DEF FlagTracksRun, Active
  <2>3. RunWithinBatch' /\ CommittedRunIsStored'
    BY <2>1 DEF RunWithinBatch, CommittedRunIsStored, Active
  <2>4. BatchIsPushed' /\ RowsArePushed' /\ StoredOncePerDelivery'
    BY DEF BatchIsPushed, RowsArePushed, StoredOncePerDelivery
  <2>5. BatchedRowsSettled'
    BY <2>1, <1>1 DEF BatchedRowsSettled, Active
  <2> QED
    BY <2>2, <2>3, <2>4, <2>5
<1>7. CASE FinishBatch(f)
  <2> USE <1>7 DEF FinishBatch
  <2>1. FlagTracksRun' /\ RunWithinBatch' /\ CommittedRunIsStored'
    BY EndRunIdle DEF Active
  <2>2. RowsArePushed' /\ StoredOncePerDelivery'
    BY DEF BatchInv, RowsArePushed, StoredOncePerDelivery, EndRun, DropLocals
  <2>3. BatchIsPushed' /\ BatchedRowsSettled'
    BY DEF BatchIsPushed, BatchedRowsSettled
  <2> QED
    BY <2>1, <2>2, <2>3 DEF BatchInv
<1> QED
  BY <1>2, <1>3, <1>4, <1>5, <1>6, <1>7

\* Every step keeps what ties the batch to the runs and the rows.
LEMMA BatchInvStep == TypeOK /\ BatchInv /\ [Next]_vars => BatchInv'
<1> SUFFICES ASSUME TypeOK, BatchInv, [Next]_vars PROVE BatchInv'
  OBVIOUS
<1>1. CASE InitModule
  BY <1>1, BatchInvFrame DEF InitModule
<1>2. CASE Crash
  <2> USE <1>2 DEF Crash, BatchInv, Active
  <2>1. FlagTracksRun' /\ RunWithinBatch' /\ CommittedRunIsStored'
    BY DEF FlagTracksRun, RunWithinBatch, CommittedRunIsStored
  <2>2. BatchIsPushed' /\ BatchedRowsSettled' /\ StoredOncePerDelivery'
    BY DEF BatchIsPushed, BatchedRowsSettled, StoredOncePerDelivery
  <2>3. RowsArePushed'
    BY DEF RowsArePushed, TypeOK, DataTypeOK, Row
  <2> QED
    BY <2>1, <2>2, <2>3
<1>3. CASE Restart
  BY <1>3, BatchInvFrame DEF Restart
<1>4. ASSUME NEW d \in Delivery, CheckDuplicate(d) PROVE BatchInv'
  <2>1. \A e \in Delivery : handler[e] \in {"pushed", "lost"} =>
                              handler'[e] = handler[e]
    BY <1>4 DEF CheckDuplicate, TypeOK, DataTypeOK
  <2> USE <1>4, <2>1 DEF CheckDuplicate, run, BatchInv, TypeOK, DataTypeOK, Row
  <2>2. BatchIsPushed' /\ RowsArePushed'
    BY DEF BatchIsPushed, RowsArePushed
  <2>3. FlagTracksRun' /\ RunWithinBatch' /\ CommittedRunIsStored'
    BY DEF FlagTracksRun, RunWithinBatch, CommittedRunIsStored, Active, HasRow,
           AccountedFor
  <2>4. BatchedRowsSettled' /\ StoredOncePerDelivery'
    BY DEF BatchedRowsSettled, StoredOncePerDelivery
  <2> QED
    BY <2>2, <2>3, <2>4
<1>5. ASSUME NEW d \in Delivery, PushTransaction(d) PROVE BatchInv'
  <2> DEFINE B == currentBatch \cup {d}
  <2> USE <1>5 DEF PushTransaction
  <2>1. d \in Flusher /\ B \in SUBSET Delivery
    BY DEF Flusher, TypeOK, DataTypeOK
  <2>2. \A e \in B : handler'[e] = "pushed"
    BY DEF BatchInv, BatchIsPushed, TypeOK, DataTypeOK
  <2>3. \A e \in B \ currentBatch : ~HasRow(e)
    BY DEF BatchInv, RowsArePushed, HasRow
  <2>4. \A e \in Delivery : handler[e] \in {"pushed", "lost"} =>
                              handler'[e] = handler[e]
    BY DEF TypeOK, DataTypeOK
  <2>5. ProcessBatch(d, B) \/ UNCHANGED run
    OBVIOUS
  <2> QED
    BY <2>1, <2>2, <2>3, <2>4, <2>5, BatchInvBegin
<1>6. ASSUME NEW f \in Flusher, ProcessBatch(f, currentBatch),
             UNCHANGED <<handler, currentBatch, ackLost, vanished, rows>>
      PROVE  BatchInv'
  <2>1. currentBatch \in SUBSET Delivery /\ \A d \in currentBatch : handler'[d] = "pushed"
    BY <1>6 DEF TypeOK, DataTypeOK, BatchInv, BatchIsPushed
  <2> QED
    BY <1>6, <2>1, BatchInvBegin
<1>7. Timer \in Flusher /\ Operator \in Flusher
  BY DEF Flusher
<1>8. CASE TimerTick \/ ForceProcessBatch \/ StopIngestion
  BY <1>6, <1>7, <1>8 DEF TimerTick, ForceProcessBatch, StopIngestion
<1>9. CASE StartIngestion
  BY <1>9, BatchInvFrame DEF StartIngestion
<1>10. ASSUME NEW f \in Flusher,
              \/ SaveChunk(f) \/ SwallowFailure(f) \/ SkipChunk(f)
              \/ RefuseChunk(f) \/ BatchFails(f) \/ CommitAckLost(f)
              \/ Commit(f) \/ MarkAsProcessed(f) \/ FinishBatch(f)
       PROVE  BatchInv'
  BY <1>10, BatchInvRun
<1>11. ASSUME NEW k \in cache, ForgetKey(k) PROVE BatchInv'
  BY <1>11, BatchInvFrame DEF ForgetKey
<1>12. ASSUME NEW task \in alertTasks, ProcessAlerts(task) \/ AlertsFail(task)
       PROVE  BatchInv'
  BY <1>12, BatchInvFrame DEF ProcessAlerts, AlertsFail
<1>13. CASE UNCHANGED vars
  BY <1>13, BatchInvFrame DEF vars
<1> QED
  BY <1>1, <1>2, <1>3, <1>4, <1>5, <1>8, <1>9, <1>10, <1>11, <1>12, <1>13
     DEF Next

-----------------------------------------------------------------------------
(* The callbacks, the cache and the alerts.                                *)

\* Every step keeps a callback registered for the held handle.
LEMMA HandleStep ==
  TypeOK /\ HandleIsRegistered /\ [Next]_vars => HandleIsRegistered'
<1> SUFFICES ASSUME TypeOK, HandleIsRegistered, [Next]_vars
             PROVE  HandleIsRegistered'
  OBVIOUS
<1> USE DEF HandleIsRegistered, TypeOK, DataTypeOK
<1>1. CASE InitModule
  <2>1. UseQueueConsumers => ~subscription'
    BY <1>1, Zenon DEF InitModule
  <2>2. ~UseQueueConsumers => callbacks' = 1
    BY <1>1 DEF InitModule
  <2> QED
    BY <2>1, <2>2
<1>2. CASE Crash \/ StartIngestion \/ StopIngestion
  BY <1>2 DEF Crash, StartIngestion, StopIngestion
<1>3. CASE UNCHANGED <<subscription, callbacks>>
  BY <1>3
<1>4. CASE \/ Restart \/ TimerTick \/ ForceProcessBatch \/ UNCHANGED vars
           \/ \E d \in Delivery : CheckDuplicate(d) \/ PushTransaction(d)
           \/ \E k \in cache : ForgetKey(k)
           \/ \E task \in alertTasks : ProcessAlerts(task) \/ AlertsFail(task)
  BY <1>3, <1>4 DEF Restart, TimerTick, ForceProcessBatch, CheckDuplicate,
     PushTransaction, ForgetKey, ProcessAlerts, AlertsFail, control, vars
<1>5. CASE \E f \in Flusher :
             \/ SaveChunk(f) \/ SwallowFailure(f) \/ SkipChunk(f)
             \/ RefuseChunk(f) \/ BatchFails(f) \/ CommitAckLost(f)
             \/ Commit(f) \/ MarkAsProcessed(f) \/ FinishBatch(f)
  BY <1>3, <1>5, PassingChunk DEF SaveChunk, RefuseChunk, BatchFails,
     CommitAckLost, Commit, MarkAsProcessed, FinishBatch, control
<1> QED
  BY <1>1, <1>2, <1>4, <1>5 DEF Next

\* No step takes a row away, or a delivery out of the record of the vanished.
LEMMA RowsGrow == [Next]_vars => rows \subseteq rows' /\ vanished \subseteq vanished'
<1> SUFFICES ASSUME [Next]_vars
             PROVE  rows \subseteq rows' /\ vanished \subseteq vanished'
  OBVIOUS
<1>1. CASE \/ InitModule \/ Crash \/ Restart \/ TimerTick \/ ForceProcessBatch
           \/ StartIngestion \/ StopIngestion \/ UNCHANGED vars
           \/ \E d \in Delivery : CheckDuplicate(d) \/ PushTransaction(d)
           \/ \E k \in cache : ForgetKey(k)
           \/ \E task \in alertTasks : ProcessAlerts(task) \/ AlertsFail(task)
  BY <1>1 DEF InitModule, Crash, Restart, TimerTick, ForceProcessBatch,
     StartIngestion, StopIngestion, CheckDuplicate, PushTransaction, ForgetKey,
     ProcessAlerts, AlertsFail, vars
<1>2. CASE \E f \in Flusher :
             \/ SaveChunk(f) \/ SwallowFailure(f) \/ SkipChunk(f)
             \/ RefuseChunk(f) \/ BatchFails(f) \/ CommitAckLost(f)
             \/ Commit(f) \/ MarkAsProcessed(f) \/ FinishBatch(f)
  BY <1>2, PassingChunk DEF SaveChunk, RefuseChunk, BatchFails, CommitAckLost,
     Commit, MarkAsProcessed, FinishBatch
<1> QED
  BY <1>1, <1>2 DEF Next

\* A key enters the cache only for a batch whose COMMIT was answered.
LEMMA CacheStep ==
  TypeOK /\ BatchInv /\ DuplicateMeansStored /\ [Next]_vars
    => DuplicateMeansStored'
<1> SUFFICES ASSUME TypeOK, BatchInv, DuplicateMeansStored, [Next]_vars
             PROVE  DuplicateMeansStored'
  OBVIOUS
<1>1. \A d \in Delivery : AccountedFor(d) => AccountedFor(d)'
  BY RowsGrow DEF AccountedFor, HasRow
<1>2. CASE cache' \subseteq cache
  BY <1>1, <1>2 DEF DuplicateMeansStored
<1>3. ASSUME NEW f \in Flusher, MarkAsProcessed(f)
      PROVE  DuplicateMeansStored'
  <2> SUFFICES ASSUME NEW k \in cache'
               PROVE  \E d \in Delivery : TxOf[d] = k /\ AccountedFor(d)'
    BY DEF DuplicateMeansStored
  <2>1. CASE k \in cache
    BY <1>1, <2>1 DEF DuplicateMeansStored
  <2>2. CASE k \in {TxOf[d] : d \in snapshot[f]}
    <3>1. PICK d \in snapshot[f] : k = TxOf[d]
      BY <2>2
    <3>2. d \in Delivery
      BY DEF TypeOK, RunTypeOK
    <3>3. AccountedFor(d)
      BY <1>3 DEF MarkAsProcessed, BatchInv, CommittedRunIsStored
    <3> QED
      BY <1>1, <3>1, <3>2, <3>3
  <2> QED
    BY <1>3, <2>1, <2>2 DEF MarkAsProcessed
<1>4. CASE \/ InitModule \/ Crash \/ Restart \/ TimerTick \/ ForceProcessBatch
           \/ StartIngestion \/ StopIngestion \/ UNCHANGED vars
           \/ \E d \in Delivery : CheckDuplicate(d) \/ PushTransaction(d)
           \/ \E k \in cache : ForgetKey(k)
           \/ \E task \in alertTasks : ProcessAlerts(task) \/ AlertsFail(task)
  BY <1>2, <1>4 DEF InitModule, Crash, Restart, TimerTick, ForceProcessBatch,
     StartIngestion, StopIngestion, CheckDuplicate, PushTransaction, ForgetKey,
     ProcessAlerts, AlertsFail, vars
<1>5. CASE \E f \in Flusher :
             \/ SaveChunk(f) \/ SwallowFailure(f) \/ SkipChunk(f)
             \/ RefuseChunk(f) \/ BatchFails(f) \/ CommitAckLost(f)
             \/ Commit(f) \/ FinishBatch(f)
  BY <1>2, <1>5, PassingChunk DEF SaveChunk, RefuseChunk, BatchFails,
     CommitAckLost, Commit, FinishBatch
<1> QED
  BY <1>3, <1>4, <1>5 DEF Next

\* A call of processBatch takes a number no row has yet.
LEMMA BeginRunHands ==
  ASSUME TypeOK, HandedOver, NEW f \in Flusher, NEW B \in SUBSET Delivery,
         ProcessBatch(f, B), UNCHANGED alerts
  PROVE  HandedOver'
<1>1. CASE MayBegin(B)
  <2>1. \A g \in Flusher : ~Active(g)' => todo'[g] = {}
    BY <1>1 DEF HandedOver, ProcessBatch, BeginRun, TypeOK, RunTypeOK, Active
  <2>2. ASSUME NEW r \in alerted \cup UNION alertTasks
        PROVE  /\ r[2] <= attempts'
               /\ \A g \in Flusher : r[2] = attempt'[g] => r[1] \notin todo'[g]
    <3>1. r \in Row
      BY DEF TypeOK, DataTypeOK
    <3>2. r[2] \in Nat /\ r[2] <= attempts /\ attempts \in Nat
      BY <3>1 DEF HandedOver, TypeOK, RunTypeOK, Row
    <3>3. attempts' = attempts + 1 /\ attempt'[f] = attempts + 1
      BY <1>1 DEF ProcessBatch, BeginRun, TypeOK, RunTypeOK
    <3>4. \A g \in Flusher \ {f} : attempt'[g] = attempt[g] /\ todo'[g] = todo[g]
      BY <1>1 DEF ProcessBatch, BeginRun, TypeOK, RunTypeOK
    <3> QED
      BY <3>2, <3>3, <3>4 DEF HandedOver
  <2> QED
    BY <2>1, <2>2 DEF HandedOver, alerts
<1>2. CASE ~MayBegin(B)
  BY <1>2 DEF ProcessBatch, run, alerts, HandedOver, Active
<1> QED
  BY <1>1, <1>2

\* A run that ends has nothing left to insert.
LEMMA EndRunHands ==
  ASSUME TypeOK, HandedOver, NEW f \in Flusher, EndRun(f), UNCHANGED alerts
  PROVE  HandedOver'
<1>1. \A g \in Flusher : todo'[g] \subseteq todo[g] /\ (~Active(g)' => todo'[g] = {})
  BY DEF HandedOver, EndRun, DropLocals, TypeOK, RunTypeOK, Active
<1>2. /\ todo'[f] = {}
      /\ \A g \in Flusher \ {f} : attempt'[g] = attempt[g] /\ todo'[g] = todo[g]
  BY DEF EndRun, DropLocals, TypeOK, RunTypeOK
<1>3. attempts' = attempts /\ alerted' = alerted /\ alertTasks' = alertTasks
  BY DEF EndRun, DropLocals, alerts
<1> QED
  BY <1>1, <1>2, <1>3 DEF HandedOver

\* The rows of a chunk are new to the alerts: their transaction is the newest
\* and they were still to be inserted.
LEMMA SaveChunkHands ==
  ASSUME TypeOK, BatchInv, HandedOver, MatchedOnce, NEW f \in Flusher, SaveChunk(f)
  PROVE  HandedOver' /\ MatchedOnce'
<1>1. PICK chunk \in SUBSET todo[f] :
        /\ todo' = [todo EXCEPT ![f] = todo[f] \ chunk]
        /\ alertTasks' = alertTasks \cup ({Rows(chunk, attempt[f])} \ {{}})
  BY DEF SaveChunk
<1>2. UNCHANGED <<pc, attempt, attempts, alerted>>
  BY DEF SaveChunk
<1> DEFINE new == Rows(chunk, attempt[f])
           handed == alerted \cup UNION alertTasks
<1>3. Active(f) /\ attempt[f] = attempts /\ attempts \in Nat
  BY DEF SaveChunk, Active, BatchInv, RunWithinBatch, TypeOK, RunTypeOK
<1>4. \A r \in new : r[1] \in chunk /\ r[2] = attempt[f]
  BY DEF Rows
<1>5. new \cap handed = {}
  BY <1>4 DEF HandedOver
<1>6. alertTasks' \subseteq alertTasks \cup {new}
  BY <1>1
<1>7. alerted' \cup UNION alertTasks' \subseteq handed \cup new
  BY <1>2, <1>6
<1>8. /\ \A g \in Flusher : todo'[g] \subseteq todo[g]
      /\ todo'[f] = todo[f] \ chunk
  BY <1>1 DEF TypeOK, RunTypeOK
<1>9. \A g \in Flusher : ~Active(g)' => todo'[g] = {}
  BY <1>2, <1>8 DEF HandedOver, Active
<1>10. ASSUME NEW r \in handed \cup new
       PROVE  /\ r[2] <= attempts
              /\ \A g \in Flusher : r[2] = attempt[g] => r[1] \notin todo'[g]
  <2>1. CASE r \in handed
    BY <1>8, <2>1 DEF HandedOver
  <2>2. CASE r \in new
    <3>1. r[2] <= attempts
      BY <1>3, <1>4, <2>2
    <3>2. r[1] \notin todo'[f]
      BY <1>4, <1>8, <2>2
    <3>3. \A g \in Flusher \ {f} : todo'[g] = {}
      BY <1>3, <1>8 DEF BatchInv, FlagTracksRun, HandedOver
    <3> QED
      BY <3>1, <3>2, <3>3
  <2> QED
    BY <2>1, <2>2
<1>11. HandedOver'
  BY <1>2, <1>7, <1>9, <1>10 DEF HandedOver
<1>12. ASSUME NEW task \in alertTasks'
       PROVE  /\ task \cap alerted = {}
              /\ \A other \in alertTasks' \ {task} : task \cap other = {}
  <2>1. task = new \/ task \in alertTasks
    BY <1>6
  <2>2. \A other \in alertTasks : new \cap other = {}
    BY <1>5
  <2>3. new \cap alerted = {}
    BY <1>5
  <2> HIDE DEF new
  <2> QED
    BY <1>6, <2>1, <2>2, <2>3 DEF MatchedOnce
<1> QED
  BY <1>2, <1>11, <1>12 DEF MatchedOnce

\* No step gives the alerts a row twice.
LEMMA HandStep ==
  TypeOK /\ BatchInv /\ HandedOver /\ MatchedOnce /\ [Next]_vars
    => HandedOver' /\ MatchedOnce'
<1> SUFFICES ASSUME TypeOK, BatchInv, HandedOver, MatchedOnce, [Next]_vars
             PROVE  HandedOver' /\ MatchedOnce'
  OBVIOUS
<1>a. ASSUME UNCHANGED alerts PROVE MatchedOnce'
  BY <1>a DEF MatchedOnce, alerts
<1>b. ASSUME UNCHANGED <<alerts, run>> PROVE HandedOver'
  BY <1>b DEF HandedOver, alerts, run, Active
<1>1. CASE \/ InitModule \/ Restart \/ StartIngestion \/ UNCHANGED vars
           \/ \E d \in Delivery : CheckDuplicate(d)
           \/ \E k \in cache : ForgetKey(k)
  BY <1>1, <1>a, <1>b DEF InitModule, Restart, StartIngestion, CheckDuplicate,
     ForgetKey, vars
<1>2. CASE Crash
  <2>1. /\ todo' = [g \in Flusher |-> {}] /\ alertTasks' = {}
        /\ UNCHANGED <<alerted, attempts>>
    BY <1>2 DEF Crash
  <2> QED
    BY <2>1 DEF HandedOver, MatchedOnce
<1>3. CASE TimerTick \/ ForceProcessBatch \/ StopIngestion
  <2>1. \E f \in Flusher : ProcessBatch(f, currentBatch)
    BY <1>3 DEF TimerTick, ForceProcessBatch, StopIngestion, Flusher
  <2>2. UNCHANGED alerts
    BY <1>3 DEF TimerTick, ForceProcessBatch, StopIngestion
  <2>3. currentBatch \in SUBSET Delivery
    BY DEF TypeOK, DataTypeOK
  <2> QED
    BY <1>a, <2>1, <2>2, <2>3, BeginRunHands
<1>4. ASSUME NEW d \in Delivery, PushTransaction(d)
      PROVE  HandedOver' /\ MatchedOnce'
  <2>1. /\ UNCHANGED alerts
        /\ UNCHANGED run \/ ProcessBatch(d, currentBatch \cup {d})
    BY <1>4 DEF PushTransaction
  <2>2. d \in Flusher /\ currentBatch \cup {d} \in SUBSET Delivery
    BY DEF TypeOK, DataTypeOK, Flusher
  <2> QED
    BY <1>a, <1>b, <2>1, <2>2, BeginRunHands
<1>5. CASE \E f \in Flusher :
             RefuseChunk(f) \/ BatchFails(f) \/ CommitAckLost(f) \/ FinishBatch(f)
  BY <1>5, <1>a, EndRunHands DEF RefuseChunk, BatchFails, CommitAckLost,
     FinishBatch, alerts
<1>6. ASSUME NEW f \in Flusher, Commit(f) \/ MarkAsProcessed(f)
      PROVE  HandedOver' /\ MatchedOnce'
  <2>1. UNCHANGED <<alerts, todo, attempt, attempts>>
    BY <1>6 DEF Commit, MarkAsProcessed
  <2>2. \A g \in Flusher : ~Active(g)' => ~Active(g)
    BY <1>6 DEF Commit, MarkAsProcessed, Active, TypeOK, RunTypeOK
  <2> QED
    BY <1>a, <2>1, <2>2 DEF HandedOver, alerts
<1>7. ASSUME NEW task \in alertTasks, ProcessAlerts(task) \/ AlertsFail(task)
      PROVE  HandedOver' /\ MatchedOnce'
  <2>1. /\ alertTasks' = alertTasks \ {task} /\ UNCHANGED run
        /\ alerted \subseteq alerted' /\ alerted' \subseteq alerted \cup task
    BY <1>7 DEF ProcessAlerts, AlertsFail, VisibleRows
  <2>2. alerted' \cup UNION alertTasks' \subseteq alerted \cup UNION alertTasks
    BY <2>1
  <2>3. HandedOver'
    BY <2>1, <2>2 DEF HandedOver, run, Active
  <2>4. MatchedOnce'
    BY <2>1 DEF MatchedOnce
  <2> QED
    BY <2>3, <2>4
<1>8. ASSUME NEW f \in Flusher, SwallowFailure(f) \/ SkipChunk(f)
      PROVE  HandedOver' /\ MatchedOnce'
  <2>1. /\ \A g \in Flusher : todo'[g] \subseteq todo[g]
        /\ UNCHANGED <<pc, attempt, attempts, alerts>>
    BY <1>8, PassingChunk DEF TypeOK, RunTypeOK
  <2> QED
    BY <1>a, <2>1 DEF HandedOver, Active, alerts
<1> QED
  BY <1>1, <1>2, <1>3, <1>4, <1>5, <1>6, <1>7, <1>8, SaveChunkHands DEF Next

-----------------------------------------------------------------------------
(* The invariant and what follows from it.                                 *)

\* The invariant holds when the process starts for the first time.
LEMMA InitIInv == Init => IInv
<1> SUFFICES ASSUME Init PROVE IInv
  OBVIOUS
<1>1. isProcessing \in BOOLEAN /\ subscription \in BOOLEAN /\ timerOn \in BOOLEAN
  BY Zenon DEF Init
<1>2. RunTypeOK
  <2>1. pc \in [Flusher -> {"idle", "saving", "marking", "syncing"}]
    BY DEF Init
  <2>2. snapshot \in [Flusher -> SUBSET Delivery] /\ todo \in [Flusher -> SUBSET Delivery]
    BY DEF Init
  <2>3. attempt \in [Flusher -> Nat] /\ attempts \in Nat /\ aborted \subseteq Flusher
    BY DEF Init
  <2> QED
    BY <1>1, <2>1, <2>2, <2>3 DEF RunTypeOK
<1>3. DataTypeOK
  <2>1. status \in {"down", "loading", "up"} /\ callbacks \in Nat
    BY DEF Init
  <2>2. handler \in [Delivery -> {"new", "checked", "pushed", "ignored", "lost"}]
    BY DEF Init
  <2>3. /\ currentBatch \subseteq Delivery /\ cache \subseteq Tx
        /\ ackLost \subseteq Nat /\ vanished \subseteq Delivery /\ rows \subseteq Row
        /\ alertTasks \subseteq SUBSET Row /\ alerted \subseteq Row
    BY DEF Init
  <2>4. failures \in Nat /\ crashes \in Nat /\ restCalls \in Nat
    BY DEF Init
  <2> QED
    BY <1>1, <2>1, <2>2, <2>3, <2>4 DEF DataTypeOK
<1>4. HandleIsRegistered /\ DuplicateMeansStored
  BY DEF Init, HandleIsRegistered, DuplicateMeansStored
<1>5. FlagTracksRun /\ RunWithinBatch /\ CommittedRunIsStored
  BY DEF Init, FlagTracksRun, RunWithinBatch, CommittedRunIsStored, Active
<1>6. BatchIsPushed /\ RowsArePushed /\ BatchedRowsSettled /\ StoredOncePerDelivery
  BY DEF Init, BatchIsPushed, RowsArePushed, BatchedRowsSettled,
         StoredOncePerDelivery
<1>7. HandedOver /\ MatchedOnce
  BY DEF Init, HandedOver, MatchedOnce
<1> QED
  BY <1>2, <1>3, <1>4, <1>5, <1>6, <1>7 DEF IInv, TypeOK, BatchInv

\* Every step keeps the invariant.
LEMMA IInvStep == IInv /\ [Next]_vars => IInv'
BY RunTypeStep, DataTypeStep, HandleStep, BatchInvStep, CacheStep, HandStep
   DEF IInv, TypeOK

\* The invariant holds in every behaviour of the service.
THEOREM Invariance == Spec => []IInv
<1>1. Init => IInv
  BY InitIInv
<1>2. IInv /\ [Next]_vars => IInv'
  BY IInvStep
<1> QED
  BY <1>1, <1>2, PTL DEF Spec

\* Every variable keeps its type; stopping never unsubscribes more callbacks
\* than were registered (lines 74-108 of the ingestion service).
THEOREM TypeCorrect == Spec => []TypeOK
<1>1. IInv => TypeOK
  BY DEF IInv
<1> QED
  BY <1>1, Invariance, PTL

\* isProcessing is a lock on processBatch (lines 229-282), whoever calls it.
THEOREM ProcessingIsExclusive == Spec => []FlagTracksRun
<1>1. IInv => FlagTracksRun
  BY DEF IInv, BatchInv
<1> QED
  BY <1>1, Invariance, PTL

\* Only a commit reported as failed can store a delivery twice.
THEOREM StoresOnce == Spec => []StoredOncePerDelivery
<1>1. IInv => StoredOncePerDelivery
  BY DEF IInv, BatchInv
<1> QED
  BY <1>1, Invariance, PTL

\* What the deduplication service reports as a duplicate was stored, could not
\* be built, or was in a batch whose COMMIT (line 67 of the batch processor)
\* rolled back the transaction a caught error had aborted.
THEOREM DuplicatesAreStored == Spec => []DuplicateMeansStored
<1>1. IInv => DuplicateMeansStored
  BY DEF IInv
<1> QED
  BY <1>1, Invariance, PTL

\* No row of nft_activities is matched against the alerts twice, although the
\* alerts of a chunk are started before its commit and may outlive a rollback.
THEOREM MatchesOnce == Spec => []MatchedOnce
<1>1. IInv => MatchedOnce
  BY DEF IInv
<1> QED
  BY <1>1, Invariance, PTL

\* The batch only loses transactions to a crash or at the end of a run whose
\* COMMIT was answered: its snapshot is stored, or it vanished in the silent
\* rollback of a transaction a caught error had aborted.
THEOREM BatchSurvivesFailure == Spec => BatchClearedOnlyAfterCommit
<1> DEFINE Shrink ==
      ~(currentBatch \subseteq currentBatch') /\ status' # "down" =>
        \E f \in Flusher :
          /\ Active(f) /\ pc'[f] = "idle"
          /\ \A d \in snapshot[f] : AccountedFor(d)
<1>1. IInv /\ [Next]_vars => [Shrink]_vars
  <2> SUFFICES ASSUME IInv, [Next]_vars PROVE Shrink
    OBVIOUS
  <2>1. ASSUME NEW f \in Flusher, FinishBatch(f) PROVE Shrink
    <3>1. Active(f) /\ pc'[f] = "idle"
      BY <2>1 DEF FinishBatch, EndRun, DropLocals, Active, IInv, TypeOK, RunTypeOK
    <3>2. \A d \in snapshot[f] : AccountedFor(d)
      BY <2>1 DEF FinishBatch, IInv, BatchInv, CommittedRunIsStored
    <3> QED
      BY <3>1, <3>2
  <2>2. CASE Crash
    BY <2>2 DEF Crash
  <2>3. CASE currentBatch \subseteq currentBatch'
    BY <2>3
  <2>4. CASE \/ InitModule \/ Restart \/ TimerTick \/ ForceProcessBatch
             \/ StartIngestion \/ StopIngestion \/ UNCHANGED vars
             \/ \E d \in Delivery : CheckDuplicate(d) \/ PushTransaction(d)
             \/ \E k \in cache : ForgetKey(k)
             \/ \E task \in alertTasks : ProcessAlerts(task) \/ AlertsFail(task)
    BY <2>3, <2>4 DEF InitModule, Restart, TimerTick, ForceProcessBatch,
       StartIngestion, StopIngestion, CheckDuplicate, PushTransaction,
       ForgetKey, ProcessAlerts, AlertsFail, vars
  <2>5. CASE \E f \in Flusher :
               \/ SaveChunk(f) \/ SwallowFailure(f) \/ SkipChunk(f)
               \/ RefuseChunk(f) \/ BatchFails(f) \/ CommitAckLost(f)
               \/ Commit(f) \/ MarkAsProcessed(f)
    BY <2>3, <2>5, PassingChunk DEF SaveChunk, RefuseChunk, BatchFails,
       CommitAckLost, Commit, MarkAsProcessed
  <2> QED
    BY <2>1, <2>2, <2>4, <2>5 DEF Next
<1> QED
  BY <1>1, Invariance, PTL DEF Spec, BatchClearedOnlyAfterCommit

=============================================================================
