----------------------------- MODULE Ingestion -----------------------------
(***************************************************************************)
(* TransactionIngestionService, with the parts of                          *)
(* TransactionBatchProcessorService and TransactionDeduplicationService it *)
(* calls: how an arriving NFT transaction is checked, batched, stored in   *)
(* nft_activities, remembered as processed and handed to the alerts.       *)
(*                                                                         *)
(* The service runs on one event loop; an action is the code between two   *)
(* awaits, so any other action may run where the code awaits.  A Delivery  *)
(* is one call of handleTransaction.  One transaction has several: each    *)
(* node reports it, each report goes to the direct subscription and to the *)
(* queue, and TransactionConsumerService consumes the queue in every mode. *)
(***************************************************************************)
EXTENDS Naturals, FiniteSets

CONSTANTS
  Delivery,          \* the calls of handleTransaction
  Tx,                \* transactions, as the deduplication key names them
  TxOf,              \* the transaction each delivery carries
  ViaQueue,          \* deliveries made by the RabbitMQ consumer
  Relevant,          \* deliveries the parser turns into an NFT activity
  Unbuildable,       \* deliveries for which createNftActivity throws
  Tokenless,         \* deliveries without an nftTokenID, for which the chunk
                     \* asks the database nothing before its insert
  UseQueueConsumers, \* the environment variable USE_QUEUE_CONSUMERS
  MaxBatchSize,      \* TRANSACTION_CONSTANTS.MAX_BATCH_SIZE
  ChunkSize,         \* TRANSACTION_CONSTANTS.DEFAULT_BATCH_SIZE
  Timer, Operator,   \* callers of processBatch that are not deliveries
  MaxFailures,       \* bound: database and alert failures
  MaxCrashes,        \* bound: process crashes
  MaxRestCalls       \* bound: start and stop requests

ASSUME DeliveryAssumption ==
  /\ TxOf \in [Delivery -> Tx]
  /\ ViaQueue \subseteq Delivery
  /\ Relevant \subseteq Delivery
  /\ Unbuildable \subseteq Delivery
  /\ Tokenless \subseteq Delivery

ASSUME FlusherAssumption ==
  /\ Timer \notin Delivery
  /\ Operator \notin Delivery
  /\ Timer # Operator

ASSUME BoundAssumption ==
  /\ UseQueueConsumers \in BOOLEAN
  /\ MaxBatchSize \in Nat \ {0}
  /\ ChunkSize \in Nat \ {0}
  /\ MaxFailures \in Nat
  /\ MaxCrashes \in Nat
  /\ MaxRestCalls \in Nat

\* Whoever calls processBatch: a delivery that fills the batch, the flush
\* timer, or a REST request.
Flusher == Delivery \cup {Timer, Operator}

\* A row of nft_activities: the delivery it was built from and the database
\* transaction that inserted it.
Row == Delivery \X Nat

VARIABLES
  status,        \* of the process: "down", "loading", "up"
  subscription,  \* whether this.subscription holds a handle
  callbacks,     \* transaction callbacks registered with the XRPL manager
  timerOn,       \* whether batchTimer is set
  handler,       \* how far each delivery got
  currentBatch,  \* this.currentBatch; a delivery is pushed at most once
  isProcessing,  \* this.isProcessing
  cache,         \* keys of the deduplication cache
  pc,            \* where each call of processBatch is
  snapshot,      \* its batch.transactions
  todo,          \* what is left to insert
  attempt,       \* the database transaction it runs
  attempts,      \* database transactions begun
  aborted,       \* callers whose open database transaction is aborted
  ackLost,       \* those that committed although commitTransaction() threw
  vanished,      \* deliveries of batches whose COMMIT rolled back
  rows,          \* committed rows of nft_activities
  alertTasks,    \* the running calls of processAlertsAsync, as row sets
  alerted,       \* rows that reached the alert matching
  failures, crashes, restCalls

control == <<status, subscription, callbacks, timerOn>>
run     == <<isProcessing, pc, snapshot, todo, attempt, attempts, aborted>>
alerts  == <<alertTasks, alerted>>
bounds  == <<failures, crashes, restCalls>>
vars    == <<control, handler, currentBatch, cache, run, ackLost, vanished, rows,
             alerts, bounds>>

Init ==
  /\ status = "loading"
  /\ subscription = FALSE
  /\ callbacks = 0
  /\ timerOn = FALSE
  /\ handler = [d \in Delivery |-> "new"]
  /\ currentBatch = {}
  /\ isProcessing = FALSE
  /\ cache = {}
  /\ pc = [f \in Flusher |-> "idle"]
  /\ snapshot = [f \in Flusher |-> {}]
  /\ todo = [f \in Flusher |-> {}]
  /\ attempt = [f \in Flusher |-> 0]
  /\ attempts = 0
  /\ aborted = {}
  /\ ackLost = {}
  /\ vanished = {}
  /\ rows = {}
  /\ alertTasks = {}
  /\ alerted = {}
  /\ failures = 0 /\ crashes = 0 /\ restCalls = 0

-----------------------------------------------------------------------------
(* Process life cycle.                                                     *)

\* The end of onModuleInit: the last synced ledger has been read (or reading
\* it failed and was logged), the direct subscription is made unless the
\* environment says otherwise, and the flush timer starts.
InitModule ==
  /\ status = "loading"
  /\ status' = "up"
  /\ subscription' = ~UseQueueConsumers
  /\ callbacks' = IF UseQueueConsumers THEN 0 ELSE 1
  /\ timerOn' = TRUE
  /\ UNCHANGED <<handler, currentBatch, cache, run, ackLost, vanished, rows,
                 alerts, bounds>>

\* The process dies.  main.ts does not enable shutdown hooks, so a
\* termination signal ends it without running onModuleDestroy.  The open
\* database transaction is rolled back and everything in memory is gone.
Crash ==
  /\ status # "down"
  /\ crashes < MaxCrashes
  /\ crashes' = crashes + 1
  /\ status' = "down"
  /\ subscription' = FALSE
  /\ callbacks' = 0
  /\ timerOn' = FALSE
  /\ handler' = [d \in Delivery |->
                   IF handler[d] = "new" THEN "new" ELSE "lost"]
  /\ currentBatch' = {}
  /\ cache' = {}
  /\ isProcessing' = FALSE
  /\ pc' = [f \in Flusher |-> "idle"]
  /\ snapshot' = [f \in Flusher |-> {}]
  /\ todo' = [f \in Flusher |-> {}]
  /\ attempt' = [f \in Flusher |-> 0]
  /\ aborted' = {}
  /\ alertTasks' = {}
  /\ UNCHANGED <<attempts, ackLost, vanished, rows, alerted, failures,
                 restCalls>>

Restart ==
  /\ status = "down"
  /\ status' = "loading"
  /\ UNCHANGED <<subscription, callbacks, timerOn, handler, currentBatch, cache,
                 run, ackLost, vanished, rows, alerts, bounds>>

-----------------------------------------------------------------------------
(* processBatch, started by caller f on the batch B.                       *)

BeginRun(f, B) ==
  /\ isProcessing' = TRUE
  /\ pc' = [pc EXCEPT ![f] = "saving"]
  /\ snapshot' = [snapshot EXCEPT ![f] = B]
  /\ todo' = [todo EXCEPT ![f] = B]
  /\ attempts' = attempts + 1
  /\ attempt' = [attempt EXCEPT ![f] = attempts + 1]
  /\ aborted' = aborted \ {f}

\* Variant for the sensitivity checks: the flag is not consulted.
MayBeginUnguarded(B) == B # {}

MayBegin(B) == B # {} /\ ~isProcessing

ProcessBatch(f, B) ==
  IF MayBegin(B) THEN BeginRun(f, B) ELSE UNCHANGED run

\* The locals of a run die with it.
DropLocals(f) ==
  /\ pc' = [pc EXCEPT ![f] = "idle"]
  /\ snapshot' = [snapshot EXCEPT ![f] = {}]
  /\ todo' = [todo EXCEPT ![f] = {}]
  /\ attempt' = [attempt EXCEPT ![f] = 0]
  /\ aborted' = aborted \ {f}
  /\ UNCHANGED attempts

\* Variant: the flag is not reset when the run ends.
EndRunFlagKept(f) == DropLocals(f) /\ UNCHANGED isProcessing

\* The `finally` of processBatch.
EndRun(f) == DropLocals(f) /\ isProcessing' = FALSE

-----------------------------------------------------------------------------
(* handleTransaction.                                                      *)

\* A queue message can arrive as soon as the process runs; a direct one
\* needs a registered callback.
Reachable(d) ==
  IF d \in ViaQueue THEN status # "down" ELSE callbacks > 0

\* Up to the await on isDuplicate.
CheckDuplicate(d) ==
  /\ handler[d] = "new"
  /\ Reachable(d)
  /\ handler' = [handler EXCEPT ![d] =
       IF d \in Relevant /\ TxOf[d] \notin cache THEN "checked" ELSE "ignored"]
  /\ UNCHANGED <<control, currentBatch, cache, run, ackLost, vanished, rows,
                 alerts, bounds>>

\* Variant: the key is marked when the transaction is pushed.
PushTransactionMarking(d) ==
  /\ handler[d] = "checked"
  /\ handler' = [handler EXCEPT ![d] = "pushed"]
  /\ currentBatch' = currentBatch \cup {d}
  /\ cache' = cache \cup {TxOf[d]}
  /\ UNCHANGED <<control, run, ackLost, vanished, rows, alerts, bounds>>

\* After it: push, and flush when the batch is full.
PushTransaction(d) ==
  LET batch == currentBatch \cup {d} IN
  /\ handler[d] = "checked"
  /\ handler' = [handler EXCEPT ![d] = "pushed"]
  /\ currentBatch' = batch
  /\ IF Cardinality(batch) >= MaxBatchSize
       THEN ProcessBatch(d, batch)
       ELSE UNCHANGED run
  /\ UNCHANGED <<control, cache, ackLost, vanished, rows, alerts, bounds>>

-----------------------------------------------------------------------------
(* Flushes from outside.                                                   *)

TimerTick ==
  /\ timerOn
  /\ ProcessBatch(Timer, currentBatch)
  /\ UNCHANGED <<control, handler, currentBatch, cache, ackLost, vanished,
                 rows, alerts, bounds>>

ForceProcessBatch ==
  /\ status = "up"
  /\ ProcessBatch(Operator, currentBatch)
  /\ UNCHANGED <<control, handler, currentBatch, cache, ackLost, vanished,
                 rows, alerts, bounds>>

\* The handle of an earlier start is overwritten and its callback stays.
StartIngestion ==
  /\ status = "up"
  /\ restCalls < MaxRestCalls
  /\ restCalls' = restCalls + 1
  /\ subscription' = TRUE
  /\ callbacks' = callbacks + 1
  /\ UNCHANGED <<status, timerOn, handler, currentBatch, cache, run, ackLost,
                 vanished, rows, alerts, failures, crashes>>

StopIngestion ==
  /\ status = "up"
  /\ restCalls < MaxRestCalls
  /\ restCalls' = restCalls + 1
  /\ callbacks' = IF subscription THEN callbacks - 1 ELSE callbacks
  /\ subscription' = FALSE
  /\ timerOn' = FALSE
  /\ ProcessBatch(Operator, currentBatch)
  /\ UNCHANGED <<status, handler, currentBatch, cache, ackLost, vanished, rows, alerts,
                 failures, crashes>>

-----------------------------------------------------------------------------
(* The awaits of a running processBatch.                                   *)

Rows(D, a) == (D \ Unbuildable) \X {a}

\* The first so many of what is left, or all of it.
IsChunk(chunk, left) ==
  /\ chunk # {}
  /\ \/ Cardinality(chunk) = ChunkSize
     \/ Cardinality(chunk) < ChunkSize /\ chunk = left

\* The deliveries of a chunk whose activity is built without asking the
\* database, so that the chunk has something to insert whatever it answers.
BuiltAnyway(chunk) == chunk \cap (Tokenless \ Unbuildable)

\* Variant: each chunk starts the alerts of the chunks before it again.
SaveChunkRepeating(f) ==
  /\ pc[f] = "saving"
  /\ f \notin aborted
  /\ \E chunk \in SUBSET todo[f] :
       /\ IsChunk(chunk, todo[f])
       /\ todo' = [todo EXCEPT ![f] = @ \ chunk]
       /\ alertTasks' = alertTasks \cup ({Rows(snapshot[f] \ todo'[f], attempt[f])} \ {{}})
  /\ UNCHANGED <<control, handler, currentBatch, isProcessing, cache, pc, snapshot,
                 attempt, attempts, aborted, ackLost, vanished, rows, alerted, bounds>>

\* One chunk is inserted in the open transaction, and its alerts are started
\* at once, in the background.
SaveChunk(f) ==
  /\ pc[f] = "saving"
  /\ f \notin aborted
  /\ \E chunk \in SUBSET todo[f] :
       /\ IsChunk(chunk, todo[f])
       /\ todo' = [todo EXCEPT ![f] = @ \ chunk]
       /\ alertTasks' = alertTasks \cup ({Rows(chunk, attempt[f])} \ {{}})
  /\ UNCHANGED <<control, handler, currentBatch, isProcessing, cache, pc, snapshot,
                 attempt, attempts, aborted, ackLost, vanished, rows, alerted, bounds>>

\* A chunk that inserts nothing, because every error it met was caught.
PassChunk(f, chunk) ==
  /\ pc[f] = "saving"
  /\ IsChunk(chunk, todo[f])
  /\ BuiltAnyway(chunk) = {}
  /\ todo' = [todo EXCEPT ![f] = @ \ chunk]
  /\ UNCHANGED <<control, handler, currentBatch, isProcessing, cache, pc, snapshot,
                 attempt, attempts, ackLost, vanished, rows, alerts, crashes, restCalls>>

\* A statement of one of the two passes fails.  The database aborts the
\* transaction; the pass catches the error and goes on, and with no activity
\* left to insert so does the batch.  (With one, the insert is refused: that
\* is BatchFails.)
SwallowFailure(f) ==
  /\ f \notin aborted
  /\ failures < MaxFailures
  /\ failures' = failures + 1
  /\ aborted' = aborted \cup {f}
  /\ \E chunk \in SUBSET todo[f] : chunk \ Tokenless # {} /\ PassChunk(f, chunk)

\* In an aborted transaction every lookup is refused and caught the same way.
SkipChunk(f) ==
  /\ f \in aborted
  /\ \E chunk \in SUBSET todo[f] : PassChunk(f, chunk)
  /\ UNCHANGED <<aborted, failures>>

\* An activity that needed no lookup is still to be inserted: the insert is
\* refused outside any catch of the chunk, and the batch fails.
RefuseChunk(f) ==
  /\ pc[f] = "saving"
  /\ f \in aborted
  /\ \E chunk \in SUBSET todo[f] : IsChunk(chunk, todo[f]) /\ BuiltAnyway(chunk) # {}
  /\ EndRun(f)
  /\ UNCHANGED <<control, handler, currentBatch, cache, ackLost, vanished, rows,
                 alerts, bounds>>

\* Variant: a failed batch is thrown away.
BatchFailsClearing(f) ==
  /\ pc[f] = "saving"
  /\ failures < MaxFailures
  /\ failures' = failures + 1
  /\ currentBatch' = {}
  /\ EndRun(f)
  /\ UNCHANGED <<control, handler, cache, ackLost, vanished, rows, alerts,
                 crashes, restCalls>>

\* A statement fails, or commitTransaction does: rollback, and the error
\* leaves currentBatch as it is.
BatchFails(f) ==
  /\ pc[f] = "saving"
  /\ failures < MaxFailures
  /\ failures' = failures + 1
  /\ EndRun(f)
  /\ UNCHANGED <<control, handler, currentBatch, cache, ackLost, vanished, rows, alerts,
                 crashes, restCalls>>

\* The database commits and the answer is lost: the rows stay, and the
\* service takes the same path as after a rollback.
CommitAckLost(f) ==
  /\ pc[f] = "saving"
  /\ todo[f] = {}
  /\ f \notin aborted
  /\ failures < MaxFailures
  /\ failures' = failures + 1
  /\ rows' = rows \cup Rows(snapshot[f], attempt[f])
  /\ ackLost' = ackLost \cup {attempt[f]}
  /\ EndRun(f)
  /\ UNCHANGED <<control, handler, currentBatch, cache, vanished, alerts, crashes,
                 restCalls>>

\* COMMIT of an aborted transaction is answered without an error and rolls it
\* back: the service goes on as if the batch were stored.
Commit(f) ==
  /\ pc[f] = "saving"
  /\ todo[f] = {}
  /\ IF f \in aborted
       THEN /\ vanished' = vanished \cup snapshot[f]
            /\ UNCHANGED rows
       ELSE /\ rows' = rows \cup Rows(snapshot[f], attempt[f])
            /\ UNCHANGED vanished
  /\ pc' = [pc EXCEPT ![f] = "marking"]
  /\ UNCHANGED <<control, handler, currentBatch, cache, isProcessing, snapshot,
                 todo, attempt, attempts, aborted, ackLost, alerts, bounds>>

\* markAsProcessed for every transaction of the batch (its awaits complete
\* without I/O), after which the update of ledger_sync_status is sent.
MarkAsProcessed(f) ==
  /\ pc[f] = "marking"
  /\ cache' = cache \cup {TxOf[d] : d \in snapshot[f]}
  /\ pc' = [pc EXCEPT ![f] = "syncing"]
  /\ UNCHANGED <<control, handler, currentBatch, isProcessing, snapshot, todo,
                 attempt, attempts, aborted, ackLost, vanished, rows, alerts, bounds>>

\* Variant: the batch is not emptied.
FinishBatchKeeping(f) ==
  /\ pc[f] = "syncing"
  /\ EndRun(f)
  /\ UNCHANGED <<control, handler, currentBatch, cache, ackLost, vanished,
                 rows, alerts, bounds>>

\* The sync status is saved (an error there is swallowed): the batch is
\* emptied, with what was pushed since the snapshot.
FinishBatch(f) ==
  /\ pc[f] = "syncing"
  /\ currentBatch' = {}
  /\ EndRun(f)
  /\ UNCHANGED <<control, handler, cache, ackLost, vanished, rows, alerts,
                 bounds>>

-----------------------------------------------------------------------------
(* The deduplication cache and the alerts.                                 *)

\* An entry expires, is evicted when the cache is full, or is cleared by a
\* REST request.
ForgetKey(k) ==
  /\ k \in cache
  /\ cache' = cache \ {k}
  /\ UNCHANGED <<control, handler, currentBatch, run, ackLost, vanished, rows,
                 alerts, bounds>>

\* The query of processAlertsAsync runs on a connection of its own: it finds
\* the rows that are committed when it runs, and is not repeated.
VisibleRows(task) == task \cap rows

ProcessAlerts(task) ==
  /\ alertTasks' = alertTasks \ {task}
  /\ alerted' = alerted \cup VisibleRows(task)
  /\ UNCHANGED <<control, handler, currentBatch, cache, run, ackLost,
                 vanished, rows, bounds>>

AlertsFail(task) ==
  /\ failures < MaxFailures
  /\ failures' = failures + 1
  /\ alertTasks' = alertTasks \ {task}
  /\ UNCHANGED <<control, handler, currentBatch, cache, run, ackLost, vanished, rows,
                 alerted, crashes, restCalls>>

-----------------------------------------------------------------------------

RunStep(f) ==
  \/ SaveChunk(f) \/ SkipChunk(f) \/ RefuseChunk(f)
  \/ Commit(f) \/ MarkAsProcessed(f) \/ FinishBatch(f)

Next ==
  \/ InitModule
  \/ Crash
  \/ Restart
  \/ \E d \in Delivery : CheckDuplicate(d)
  \/ \E d \in Delivery : PushTransaction(d)
  \/ TimerTick
  \/ ForceProcessBatch
  \/ StartIngestion
  \/ StopIngestion
  \/ \E f \in Flusher : SaveChunk(f)
  \/ \E f \in Flusher : SwallowFailure(f)
  \/ \E f \in Flusher : SkipChunk(f)
  \/ \E f \in Flusher : RefuseChunk(f)
  \/ \E f \in Flusher : BatchFails(f)
  \/ \E f \in Flusher : CommitAckLost(f)
  \/ \E f \in Flusher : Commit(f)
  \/ \E f \in Flusher : MarkAsProcessed(f)
  \/ \E f \in Flusher : FinishBatch(f)
  \/ \E k \in cache : ForgetKey(k)
  \/ \E task \in alertTasks : ProcessAlerts(task)
  \/ \E task \in alertTasks : AlertsFail(task)

\* The interval timer fires for ever, and a query that neither fails nor
\* kills the process is answered (isProcessing admits one run at a time, so
\* one condition stands for the run of every caller).
Fairness ==
  /\ WF_vars(TimerTick)
  /\ WF_vars(\E f \in Flusher : RunStep(f))

Spec == Init /\ [][Next]_vars /\ Fairness

-----------------------------------------------------------------------------
(* Properties.                                                             *)

Active(f) == pc[f] # "idle"

HasRow(d) == \E r \in rows : r[1] = d

RunTypeOK ==
  /\ isProcessing \in BOOLEAN
  /\ pc \in [Flusher -> {"idle", "saving", "marking", "syncing"}]
  /\ snapshot \in [Flusher -> SUBSET Delivery]
  /\ todo \in [Flusher -> SUBSET Delivery]
  /\ attempt \in [Flusher -> Nat]
  /\ attempts \in Nat
  /\ aborted \subseteq Flusher

DataTypeOK ==
  /\ status \in {"down", "loading", "up"}
  /\ subscription \in BOOLEAN
  /\ callbacks \in Nat
  /\ timerOn \in BOOLEAN
  /\ handler \in [Delivery -> {"new", "checked", "pushed", "ignored", "lost"}]
  /\ currentBatch \subseteq Delivery
  /\ cache \subseteq Tx
  /\ ackLost \subseteq Nat
  /\ vanished \subseteq Delivery
  /\ rows \subseteq Row
  /\ alertTasks \subseteq SUBSET Row
  /\ alerted \subseteq Row
  /\ failures \in Nat /\ crashes \in Nat /\ restCalls \in Nat

\* The type of every variable; the number of callbacks is never negative.
TypeOK == RunTypeOK /\ DataTypeOK

\* At most one caller is inside processBatch, and isProcessing is raised
\* exactly while one is: the flag set at line 234 and dropped in the finally
\* of line 280 is a lock for timer, REST and full-batch callers alike.
FlagTracksRun ==
  /\ isProcessing <=> \E f \in Flusher : Active(f)
  /\ \A f, g \in Flusher : Active(f) /\ Active(g) => f = g

\* A delivery has two rows in nft_activities only if the commit that wrote
\* the earlier one was reported as failed: retries, overlapping flushes and
\* the clearing at line 271 never store it a second time.
StoredOncePerDelivery ==
  \A r, s \in rows : r[1] = s[1] /\ r[2] < s[2] => r[2] \in ackLost

\* What became of a transaction the service takes for stored: it has a row,
\* its row could not be built, or it was in a batch whose database transaction
\* a caught error had aborted.
AccountedFor(d) == HasRow(d) \/ d \in Unbuildable \/ d \in vanished

\* A key in the deduplication cache stands for a transaction that was stored,
\* whose row could not be built, or that went down in a silent rollback: no
\* other failure, retry, crash or overlap makes the service drop repeats of a
\* transaction it has not stored.
DuplicateMeansStored ==
  \A k \in cache : \E d \in Delivery : TxOf[d] = k /\ AccountedFor(d)

\* Alerts are matched on a row at most once: no two of the background tasks
\* have a row in common, and none has a row that was matched already, however
\* chunks, retries after a rollback and tasks that outlive it are interleaved.
MatchedOnce ==
  \A task \in alertTasks :
    /\ task \cap alerted = {}
    /\ \A other \in alertTasks \ {task} : task \cap other = {}

\* While the process lives a transaction leaves the batch only in a step that
\* ends a run whose own snapshot is stored, or was rolled back silently: a
\* batch whose failure is reported stays for the retry that the comment at
\* line 277 promises.
BatchClearedOnlyAfterCommit ==
  [][ ~(currentBatch \subseteq currentBatch') /\ status' # "down" =>
        \E f \in Flusher :
          /\ Active(f) /\ pc'[f] = "idle"
          /\ \A d \in snapshot[f] : AccountedFor(d)
    ]_vars

\* With the flush timer running, a batch does not wait for ever, not even
\* when too few transactions come to fill it: it is emptied (the only way a
\* transaction leaves it), or the timer is stopped.
BatchDrains ==
  (currentBatch # {} /\ timerOn) ~> (currentBatch = {} \/ ~timerOn)

\* What the product description asks for ("no transactions are missed"),
\* short of a crash: a transaction taken into the batch is stored or waiting.
NothingMissed ==
  \A d \in Delivery :
    handler[d] = "pushed" =>
      d \in currentBatch \/ HasRow(d) \/ d \in Unbuildable

=============================================================================
