# Formal models of the XRPL NFT monitor

TLA+ models of the backend that watches the XRP Ledger for NFT activity, stores
it and notifies subscribers, with the TLC configurations that check them and
TLAPS proofs of their main invariants. Paths below are relative to `src/src/`.

## The system

```
 XRPL nodes --ws--> XRPLConnectionManager --callback--> TransactionIngestion
                          |                                   ^      |
                          | publish                           |      | processBatch
                          v                                   |      v
                     RabbitMQ ----> TransactionConsumer ------+   BatchProcessor --> PostgreSQL
                                                                     |  (nft_activities, nfts,
                                                                     |   collections, queue table)
                         processAlertsAsync (not awaited) <----------+
                                    |                                        MetadataEnrichment
                          AlertMatching --> NotificationProcessor            (interval of every process)
                                                |
                                     Discord, e-mail, webhook
```

Requests reach it through NestJS controllers (alerts, users and tokens, health);
Redis holds lists of alerts and a key of the health check.

Concurrency is the interleaving of async functions at
their awaits, of timers, of socket events and of REST requests. `main.ts`
does not enable shutdown hooks, so a termination signal is a crash for every
component: no `onModuleDestroy` runs. The documentation has the process
replicated (`../ARCHITECTURE_V2.md:334`), and where processes meet in a table or in
Redis the models have several.

### Inventory

| Component | State it keeps | Operations | What makes it correct |
| --- | --- | --- | --- |
| XRPL connection manager (`modules/xrpl-connection`) | per node: client, health flag, failure count, circuit breaker, reconnect timers; `lastSeenLedger`, `ledgerGaps` (memory) | `connect`, `connectToNode`, `handleDisconnection`, `performHealthCheck`, `handleLedgerClosed`, `handleTransaction`, `backfillLedgerRange`, subscriptions | the health flag is honest; every node recovers or is given up at the limit; every hole in the ledger sequence is known; a gap is closed only when fetched |
| Transaction ingestion (`features/transaction-processing`) | `currentBatch`, `isProcessing`, flush timer, subscription; deduplication cache with TTL (memory) | `handleTransaction`, `processBatch`, timer, `start`/`stopIngestion`, `forceProcessBatch`, cache cleanup | one run at a time; nothing stored twice; nothing called a duplicate that is not stored, short of a silent rollback; a batch reported as failed is kept |
| Batch processor (same directory) | one database transaction per batch; background alert tasks | `processBatchInternal`, `processTransactionChunk`, NFT/collection/queue upserts, `processAlertsAsync` | atomic batches; alerts only for committed activities; NFT ownership follows ledger order |
| RabbitMQ connection, publisher, consumer (`modules/queue`) | connection, channel, reconnect attempts, consumers by tag | publish, consume, ack, requeue with retry, reject, reconnect | no message lost between ack and effect; bounded retries; consumers survive a reconnection |
| Parser and event classifier | none (pure) | `parseNFTTransaction`, `classify` | they agree with each other and with what the transaction did on the ledger |
| Alerts (`features/alerts`) | `alert_configs` (database) | create/update/toggle/delete, `findMatchingAlerts`, `processActivityBatch` | no edit undone by an overlapping one; criteria mean what the API says; a match notifies each enabled channel once |
| Notification processor and channels (`features/notifications`) | `notifications` (database), retry timers (memory) | create records, send, update status, schedule and run retries | each record sent at least once or failed after its retries; no record pending for ever |
| Metadata enrichment and fetcher (`features/metadata`) | `metadata_enrichment_queue`, `nfts.metadata` (database), objects in S3; `isProcessing` per process | interval worker, `enrichSpecificNft` (public, without a caller), retry bookkeeping, gateways, images | bounded retries; completed means stored; a URL is one of an uploaded object; every entry settles |
| Redis cache, warming (`modules/redis`) | lists of active alerts in Redis; `isWarming` | warming at start and every hour, expiry | a list does not stay wrong |
| Users and authentication (`features/users`, `features/auth`) | `users` (database); tokens are signed, not stored | register, login, refresh, guard, API keys, password change, activation | one account per address; nothing granted that was never justified |
| Health (`features/health`) | `endToEndFailureCount`, a key in Redis | system check, end-to-end check | the answer was so at a moment of the check |
| API gateway, logging, configuration, migrations, CLI, test utilities | none of their own | — | — |

### Hard behaviours

Interleaving (full-batch push, flush timer, REST and stop all call
`processBatch`; reconnect timer and health check both connect to a node),
unawaited work (alerts started inside an open database transaction), state
split between memory and database (batch, deduplication cache, ledger gaps,
retry timers), a statement that fails inside an open transaction and is
caught, rows read before an await and written after it, duplicated deliveries (several nodes, subscription and queue),
retries of non-idempotent work, counters with a limit, crashes anywhere.
`PROJECT.json` lists the hazards at their lines.

## Modules

| Module | Models | Status |
| --- | --- | --- |
| `Ingestion`, `MCIngestion`, `IngestionProofs` | `TransactionIngestionService` with the parts of the batch processor and the deduplication service it calls | done |
| `LedgerGaps` | gap detection, backfill and `retry()`; proofs in `XrplConnectionProofs` | done |
| `NodeConnections`, `XrplNodes` | node connections, circuit breaker, reconnect timers, health check; the configured nodes | done |
| `XrplConnectionProofs` | the theorems about the two above and the health checks that report them | done |
| `EventQueue`, `EventQueueProofs` | publish, consume, ack, requeue, reject, channel loss and reconnection | done |
| `NotificationDelivery`, `MCNotificationDelivery`, `NotificationProofs` | notification records of an alert, sends, stored results, retries; implements `BoundedDelivery` | done |
| `BoundedDelivery` | abstract: what is promised for a notification record | done |
| `NftMessages` | what parser and classifier make of a message (operators) | done |
| `AlertMatching` | candidates and criteria of alerts (operators) | done |
| `BatchStore` | abstract: what is promised of a batch | done |
| `NftStore`, `MCNftStore`, `NftStoreProofs` | ledger, messages, the two passes of a chunk over nfts, collections and activities, alerts of what was stored; composes `NftMessages` and `AlertMatching`, implements `BatchStore` | done |
| `MetadataEnrichment`, `MCMetadataEnrichment`, `MetadataProofs` | queue table, intervals, attempts, S3 | done |
| `AlertCache`, `MCAlertCache`, `AlertCacheProofs` | alerts edited by overlapping requests, lists warmed into Redis | done |
| `Users`, `MCUsers`, `UsersProofs` | accounts, tokens and guarded requests | done |
| `SystemHealth` | the system check and the end-to-end check beside checks of other processes; proofs in `XrplConnectionProofs` | done |

### Ingestion

An action is the code between two awaits. A *delivery* is one call of
`handleTransaction`; one transaction has several (each node reports it, each
report goes to the direct subscription and to the queue). `CheckDuplicate` is
the code up to the await on `isDuplicate`, `PushTransaction` what follows it.
`ProcessBatch(f, B)` is the start of `processBatch` by caller `f` — a delivery
that fills the batch, `TimerTick`, `ForceProcessBatch` or `StopIngestion` —
and `SaveChunk`, `Commit`, `MarkAsProcessed`, `FinishBatch` are its awaits in
order; `BatchFails` and `CommitAckLost` are its error path after a rollback and
after a commit whose answer was lost.

The two passes of a chunk catch every error and go on, while Postgres has
aborted the transaction (`SwallowFailure`). Later lookups are then refused and
caught as well, so a chunk whose messages all need one inserts nothing
(`SkipChunk`), while one with a message without a token (`Tokenless`) comes to
its insert, which is refused and fails the batch (`RefuseChunk`). A run that
passes all its chunks reaches `Commit`, which rolls back without an error: keys
are marked and the batch is cleared with nothing stored. The deliveries of such
a batch are `vanished`. `NftStore` looks at the same path statement by statement.

`ProcessAlerts` and `AlertsFail` end a
background alert task. `ForgetKey` is expiry, eviction and clearing of the
deduplication cache. `Crash` empties everything in memory.

| TLA+ | code |
| --- | --- |
| `currentBatch`, `isProcessing`, `subscription`, `timerOn` | the fields of those names (`batchTimer`) |
| `callbacks` | callbacks registered with the connection manager, of which the service remembers one |
| `pc`, `snapshot`, `todo`, `attempt` | the locals of each call of `processBatch` |
| `cache` | `cache` of the deduplication service |
| `aborted`, `vanished` | callers whose open transaction Postgres has aborted; deliveries of batches whose `COMMIT` rolled back (history) |
| `rows`, `ackLost` | `nft_activities`, as (delivery, database transaction); transactions committed with an error reported |
| `alertTasks`, `alerted` | pending and answered calls of `processAlertsAsync` |

Abstractions: the batch and the rows are sets (a delivery is pushed once; the
order inside a batch decides nothing modelled here); a chunk is any part of
the right size; the message is replaced by whether the parser makes an
activity of it (`Relevant`), whether it names a token (`Tokenless`) and whether
its row can be built (`Unbuildable`:
`createNftActivity` throws when the message carries no ledger index, is
skipped, and the transaction is still marked as processed). The awaits on
`isDuplicate` and `markAsProcessed` do no I/O; letting other actions run there
adds interleavings that are rarer in the program, never removes one.

### LedgerGaps

Each node's client reports ledgers in order from where it connected
(`nextMessage`), possibly behind the network (`MaxLag`); all messages go
through the one `lastSeenLedger`. `HandleLedgerClosed` is the whole handler,
`RefuseLedgerMessage` its early return for malformed messages, `StartBackfill`,
`FetchLedger`, `RequestFails`, `FinishBackfill` the body of
`backfillLedgerRange` with `retry()`. Nothing in the program calls
`backfillLedgerRange`; the model lets callers pass what `detectLedgerGaps`
returns, in any overlap. `reported`, `fetched`, `firstSeen` and `topSeen`
are history. `firstSeen` starts anew with the process: ledgers closed while it
is down are in no gap, a listed hazard. A message stands for its ledger and the transactions in
it; a disconnection between the two is a listed hazard, not modelled.

### NodeConnections

Per node: the client in the `connections` map (`connected`), earlier clients
that were replaced without being disconnected (`replaced`), the two fields
every path writes (`isHealthy`, `failures`), the opossum breaker, attempts it
waits for (`running`) or gave up on (`late`), reconnect `timers` and the ping
of the health check. `Fire` is `breaker.fire`: the attempt begins or is refused,
and a refusal runs the same `catch` as a failure. The nodes share nothing but
the check at the end of `connect()`. External behaviour assumed of opossum:
any failure opens the breaker (threshold 5 %), it half-opens after its reset
time, one attempt is let through, an attempt that outlives its timeout is
ignored. That xrpl.js connects a client anew on
its own after an unexpected close is left out: it would bring back a client,
without its subscriptions, beside the reconnections of the service. Whether an answered ping carries `status` inside `result` is the
constant `PingOutcomes`, of which the run allows both values. Failures are counted up to the limit: the code only compares the
count with it.

### EventQueue

One queue, its publisher, its consumer and the connection both share. A *copy*
is one message in the broker (`message`, `retries`, `place`), duplicates
included; `stage` is what the consumer does with it. `Publish` is
`publishEvent`, `Deliver` the callback of `consume` up to its await,
`HandlerReturns` and `HandlerThrows` what follows it, `RequeueWithRetry`,
`RequeueCut` and `RequeueFails` the outcomes of `requeueWithRetry` after its
await on `assertQueue`. `Answer` is an ack or reject on a channel that is alive,
already given up by the broker, or known to be closed (it throws, and the
error path throws again). `ConnectAnswered`, `ChannelCreated`, `Prefetched`
and `ConnectRefused` are the awaits of `connect()`; overlapping calls share
the fields `connection` and `channel`, as in the code, so the listeners can
land on the wrong connection. `ClientNotices` is the error and close events
with `handleConnectionError` behind them, `StartConsumers` the end of startup.

External behaviour assumed: the broker puts unacknowledged messages back when
it gives a connection up, loses the (non-durable) temporary retry queues when
it stops, and the client notices a loss later than the broker; Node.js ends a
process on an unhandled rejection or `error` event. `Fallible` are the
messages whose handler may throw; in this program these are malformed ones,
since ingestion swallows its own errors. Consumers are registered once, on the
channel of that moment, and a failed reconnection is not retried, as in the
code; the liveness property is therefore stated for behaviours without a lost
connection. Left out: `publishBatch` and `publishNFTEvent` (no caller),
`cancelConsumer` and `disconnect` (only shutdown hooks, which are not
enabled), the time to live of the dead-letter queue.

### NotificationDelivery

The notifications of one alert. A *match* is one activity that fits it
(`generateNotification`), a *record* a row of `notifications`: a match and a
position in the alert's channel list. `pc` of a record is the await its
`processNotification`, `scheduleRetry` or `processRetryNotification` stands at,
`path` whether it is inside the `try` or the `catch` of `processNotification`.

| TLA+ | code |
| --- | --- |
| `channels`, `alert` | `notificationChannels` of the alert and whether its row exists |
| `task`, `snapshot` | one call of `generateNotification` and the alert it read |
| `status`, `retryCount` | columns of the record |
| `local`, `next` | `notification.retryCount` as handed over; `nextRetryCount` |
| `timers` | `setTimeout` of `scheduleRetry`, in memory only |
| `target`, `sends`, `delivered`, `unconfirmed` | history |

`Load` reads the record with its alert, picks the channel, the first of its
kind in the list as it is *now*, and begins the request. `Answer` is the
channel's: accepted, refused, or accepted with the answer lost or late.
`DatabaseFails` is a database call reported as failed, made or not, and the
exception that follows (`Throw`). `UpdateAlert` replaces the list;
`DeleteAlert` deletes the records with the alert (`ON DELETE CASCADE`), under
the feet of running attempts. A channel's `config` is the set of keys the
validation pipe lets through, since validation and sending look for different
ones. Left out: the matching criteria, activation, `cleanupOldNotifications` (no
caller), the length of the retry delay, the layout of messages.

`BoundedDelivery` is the promise in three variables: a record is opened at most
once, asked at most `MaxRequests` times, closed in the end, as sent only if
accepted, and then left alone. The refinement mapping reads a record as open
while an attempt or a timer attends to it; one at rest and still `pending` is
abandoned, which a crash or a database error can do.

### NftStore

The XRPL is part of the model: `Mint`, `Accept`, `Burn`, `Fail` and `Offer` are
transactions; each changes `owner` as the ledger does and sends the message the
program gets for it, with the metadata nodes the parser looks at (a token page
created, modified or split; offers consumed, one or two with a broker; the order
of nodes is free). `Item` is what the parser and classifier of `NftMessages`
make of it. A message may be held back (`late`) and arrive behind others
(`Backfill`), as the backfill of a gap delivers it.

`Begin` opens the database transaction, the first pass (`CreateNewNft`,
`NoteUpdate`, `SkipNftUpdate`, `NftUpdateFails`) looks at one message at a time,
`WriteCollectionsAndNfts` writes what it gathered, `SaveActivities` or
`LoseActivities` ends the chunk, `Commit` or `BatchFails` the batch. `draft` is
what the open transaction sees, `aborted` that Postgres refuses further
statements of it: two blocks of the code catch an error and go on, so a
transaction that is aborted reaches `COMMIT`, which rolls back without an error.
`excused` are the NFTs for which the program cannot know the owner: one of
their messages is read as something else than it did (a page split, an offer
taken for the wrong side), was overtaken, or went down with such a batch.
`ProcessAlerts` reads the activities outside the transaction and matches them
with `AlertMatching`. Ids of rows, names, URIs and the queue rows a new NFT gets
are left out; `MetadataEnrichment` begins with them.

`BatchStore` is the promise: a batch is reported once, in the step that stores
all of its activities (`Store`) or none, now or later (`Lose`); rows appear in no
other step and stay; and alerts are of activities in the table (`SendAlerts`). The
refinement mapping forgets ledger, queue, chunks, the open transaction and the
pending alert tasks, and keeps the ids of stored activities, the tokens and
collections with a row and the batches reported.

### MetadataEnrichment

A worker is the interval of a process or a caller of `enrichSpecificNft`;
`attempt` is the await at which its `enrichNft` on an NFT stands, through the cache in
S3 (`ReadCache`), the gateways (`AskGateway`), the image (`FindImage`,
`FetchImage`, `PutImage`), which is cached once inside `fetchNFTMetadata`, where
nobody looks at the result, and once more for its URL, and the updates of nfts and
queue. `DbFails` reports a database call as failed, made or not. Errors of
S3 and missing objects end alike, as in the code. `RetryDue` is `next_retry_at`
passing. Content types stand for the cases `normalizeContentType` tells apart.

### AlertCache

A request is create, or find and update, toggle or delete, with other requests
between its statements: `found` is the row it read, `change` the columns it
names. `Update` writes these columns and no others, as TypeORM's partial update
does. `Warm` is the query of all active alerts and one `SET` for each user,
`Restart` the start of a process (which warms), `Expire` the time to live. The
service itself reads the database and drops nothing from Redis.

### Users

A request is a registration, login, refresh or a guarded route, at one of its
awaits of Postgres or bcrypt: `found` is the row it read, `made` the account it
created. `was` is history: whether what the request asks for was justified by the
tables at a moment since it began. Hashes are compared as passwords, tokens are
unforgeable and expire by `Fail`. `PassesAsAccess` is what `verifyAccessToken` accepts:
any token signed with the same secret.

### SystemHealth

`part` is how the database, the nodes, the channel and Redis are, changing at any
time; a check asks its parts at once and answers when all have (`AnswerSystem`).
The part on Redis sets, reads and deletes one key that all checks of all
processes share (`redis`, `Probe`), so one may delete what another is about to
read. `seen` and `robbed` are history. The part `channel` is the field of the
connection service: "gone" is a channel that was lost and is still in it,
`QueueHealth` tells only a field that was never set from one that was, and no
process without a channel gets as far as serving requests (its consumers cannot
be registered, which ends it), so "none" does not occur.

## Runs

| Run | Shows | Instance |
| --- | --- | --- |
| `ingestion` | `FlagTracksRun`, `StoredOncePerDelivery`, `DuplicateMeansStored`, `MatchedOnce`, `BatchClearedOnlyAfterCommit`, `BatchDrains` | three deliveries of two transactions, one by subscription and two by the queue, one whose row cannot be built and one without a token, batch of 2, chunks of 1, one REST call, one failure, one crash |
| `ingestion_nothing_missed` | **violated**: a transaction pushed while a batch is stored is dropped (line 271) | no failure, no crash |
| `ledger_gaps` | `GapsTypeOK`, `NoSilentGap`, `GapClosedOnlyWhenFetched`, `BackfillEnds` | two nodes one ledger apart, two backfills, one retry, four ledgers, one crash |
| `node_connections` | `NodesTypeOK`, `HealthFlagHonest`, `ConnectedOrGivenUp` | one node, limit 3, three attempts, two late ones, three timers |
| `event_queue` | `TypeOK`, `NothingLost`, `AttemptsBounded`, `DeadLettersWereTried`, `HandledOrDeadLettered` | one message, two retries, prefetch 1, three copies, three connections, two reconnection attempts, two losses, one crash |
| `notification_delivery` | `OneAttemptAtATime`, `SendsBounded`, `NoNeedlessDuplicate`, `SentMeansAccepted`, `RestsOnlyWhenSettled`, `KeepsPromise` (the refinement) | one match, lists of up to two channels, two retries, two database errors, one crash, one edit |
| `metadata_enrichment` | `TypeOK`, `CompletedIsServed`, `AttemptsBounded`, `QueueSettles` | one NFT of three kinds, an interval and a caller, two gateways, two retries, one database error, one crash |
| `nft_store` | `OwnerFollowsLedger`, `CollectionLinked`, `AlertsSound`, `ClassifiedIsParsed`, `KeepsBatches` (the refinement) | two NFTs, three accounts, three transactions of which two may be late, chunks of 2, one failing statement, six alerts |
| `nft_store_sales_alerted` | **violated**: no alert can name the type under which a sale is stored | two transactions, nothing fails |
| `alert_cache` | `EditsKept`, `StoredIsAccepted`, `CacheCatchesUp` | two requests on two alerts of two users, two processes, seven bodies |
| `users` | `OneAccountPerAddress`, `GrantsJustified` | two requests at a time without end, two accounts, an address typed in two ways and another, three passwords of which one weak |
| `system_health` | `AnswersHonest` | one check beside one of another process, two changes of any part |

Why the bounds are enough. Two callers suffice to break mutual exclusion and
three deliveries give a full batch plus one pushed during the run; one failure
and one crash, at any step, give retry after rollback, retry after a lost
acknowledgement and restart with stored rows. Four ledgers hold a gap of two
between two reported ones, with a second node lagging inside it. One node
suffices because nodes do not interact after startup; three attempts cover
startup, timer and health check at once. Two losses and three connections let
both events of one loss start a reconnection each and the second loss hit the
connection either of them left behind; three copies are the original and two
duplicates. Two channels give two records of one match that share the alert
and nothing else; two retries, of the three the code allows, give a first, a
middle and a last attempt, and two database errors hit both the `try` and the
`catch` of one attempt. Attempts on different NFTs share nothing but the
batch, so one NFT with two workers shows every overlap; two retries again give a
first, a middle and a last one. Three transactions are a mint, a sale and a burn
of one NFT in every order of arrival, or two mints into one collection in one
chunk and a sale in the next. Two requests are the smallest overlap; in
`alert_cache` there are no more than two, since a third can only repeat what one
of them did to a row, while in `users` they begin anew for ever. Two changes let a part fail and
recover, or two parts fail, within one check. The proofs below remove the bounds
for every safety property.

Fairness. `TimerTick`, `HealthCheck`, the interval of the enrichment, the hourly
warming and the reconnect and breaker timers are JavaScript timers: they fire;
`next_retry_at` passes and a key in Redis expires. A database call, XRPL or HTTP request, connection
attempt or ping is answered, rejected or times out, so the step that follows it
is weakly fair. So is the end of a handler, a delivery to a registered consumer
below its prefetch limit, and the end of a retry delay in the broker, and every
step of a notification's or an enrichment's attempt, each of which awaits one
such call or timer. Nothing is assumed of deliveries, requests of users, nodes,
ledgers, failures or crashes.

## What the violated properties mean

Each contradicts a statement of the repository, quoted in `PROJECT.json`:
transactions are missed although the requirements say none is, and an alert
for all activity types is not told of a sale. The positive properties say how far
other trouble goes. Some of it is known from the models and has no run: two
deliveries of one transaction before a flush give two activities
(`StoredOncePerDelivery` is about one delivery), an alert task may run before
the commit and find nothing (`AlertsSound` is the other direction), a node is given up for good at the failure limit (the second half of
`ConnectedOrGivenUp`), and a batch whose transaction was aborted is reported as
stored, marked and cleared (`vanished`, `Lose` of `BatchStore`, `excused`):
`DuplicateMeansStored` and `BatchClearedOnlyAfterCommit` have it as an exception
and show that it is the only failure with that effect. A queue connection that
is lost, for good after a failed reconnection, stays "healthy" with the message
"RabbitMQ connection is active" (`queue-health.service.ts:16`), since
`getHealth` asks whether the field is set and nothing clears it: in the model the
part on the queue never complains. A check whose key another one deleted
answers "unhealthy" (`robbed`).

## Proofs

Every invariant and action property of the passing runs is proved for any values
of the constants, subject to the named ASSUMEs. These type the constants and keep
markers apart from data (an absent value is no row, no collection and no account);
those of `NftStore` also take the NFTs to be finitely many. The types of the
variables are part of each invariant; some are proved and listed in no run.

* `IngestionProofs`: `StoredOncePerDelivery` is not inductive. It needs that a
  row of a delivery still in the batch comes from a commit reported as failed
  or from the run about to clear the batch (`BatchedRowsSettled`), which needs
  that a run works on part of the batch in the newest database transaction
  (`RunWithinBatch`), that past the commit its rows are stored or its
  transaction was an aborted one (`CommittedRunIsStored`) and that the flag admits one caller
  (`FlagTracksRun`). The same invariant gives `DuplicateMeansStored`
  and the action property `BatchClearedOnlyAfterCommit`;
  `MatchedOnce` needs that what a run has still to insert never went to the
  alerts under its transaction, and that what did is of no transaction still to
  come (`HandedOver`). `TypeOK` needs that a held handle is a registered callback.
* `XrplConnectionProofs`, gaps: `NoSilentGap` needs that `lastSeenLedger` is never above
  the highest ledger seen (`LastSeenWithinTop`), so that a new gap reaches down
  to what is accounted for, and that a backfill has fetched all it passed
  (`PassedIsFetched`), since its gap is dropped without looking.
  `GapClosedOnlyWhenFetched` follows from the latter.
* `XrplConnectionProofs`, nodes: `HealthFlagHonest` needs that a ping whose client
  has not gone is of a connected client (`PingTracksClient`), because its answer
  sets the flag whatever happened to the map meanwhile.
* `XrplConnectionProofs`, health checks: `AnswersHonest` needs that what each part
  has answered so far was so at some moment of the check that is running, which
  the history variable `seen` holds (`PresentSeen`, and a conjunct for each
  check), and, for Redis, that a check which finds its key missing was robbed. What it
  says of the queue is what the field in the connection service says.
* `EventQueueProofs`: `NothingLost` is inductive together with the types and
  the fact that a copy being requeued is below the retry limit.
  `AttemptsBounded` needs, while nothing is disturbed, that only connection 1
  is in use, that a message has one copy, that the consumer works on exactly the
  unacknowledged copies and that the deliveries of a message can be read off
  its copy's retry count. `DeadLettersWereTried` holds through all disturbances,
  because no copy stands for more tries than its message had (`TriesMade`): a
  duplicate made when a requeue is cut takes over those of the original.
* `NotificationProofs`: the invariant is a conjunction for each record. `SendsBounded`
  needs that every request was made by an attempt of its own count: while an
  attempt runs, the stored count is the one it began with, or one more when the
  increase was made and reported as failed (`CountFollows`), and the requests
  made are bounded by it (`SendsFollow`). `NoNeedlessDuplicate` needs that all
  acceptances are unconfirmed while the record can still be retried
  (`AcceptancesFollow`). `RestsOnlyWhenSettled` needs that without
  disturbance only pending records wait and the two counts agree (`Orderly`). From
  the same invariant, `ImplementsPromise` shows that `Init` maps to
  `BoundedDelivery`'s and every step to one of its steps or a stutter.
* `MetadataProofs`: `CompletedIsServed` needs what an attempt has done by where
  it stands (`Sound`): past `StoreMetadata` the row has its metadata, and the URL
  it is about to store is of an object in S3. Both only grow, so other attempts
  cannot take them back. `AttemptsBounded` needs that the attempts begun on an NFT
  that may be tried again are its retries and those under way (`Counted`, with
  the cardinality of `Flying`), and that a process without a batch has none under
  way (`Busy`); a new attempt then meets a count below the limit and at most the
  other processes.
* `AlertCacheProofs`: `EditsKept` is inductive once a request that has written
  never changes its body (`WritersDone`); `StoredIsAccepted` needs that a body
  was validated before it waits to be written (`PendingAccepted`).
* `UsersProofs`: for each request what it came with at its step (`Shape`), whose
  account it has found or made (`Accounts`) and when it must have been justified
  (`Sure`). `OneAccountPerAddress` needs that an e-mail tells rows apart
  (`Unique`), which the index of `users` sees to, and that no step changes the
  e-mail of a row or removes one. `GrantsJustified` needs that a request looks
  at one row at one moment, and that what was justified then stays noted while
  the request asks for the same.
* `NftStoreProofs`: the ledger's five actions are first reduced to one, an item
  that `Arrives` and says of its token what it `Tells` (`LedgerArrives`); then
  the invariant `StoreInv` is proved in five parts.
  `ImplementsBatches`: messages have ids of their own (`IdsUsed`), the open transaction
  holds the committed activities and, unless it is aborted, those of the whole
  chunks before this one (`DraftGrows`), so a commit stores all of the batch, and
  an aborted or failed one none of it, nor did an earlier attempt (`StoredOnce`);
  this is `BatchesAreAtomic`. Since no step takes rows out of the open
  transaction (`DraftHolds`), the commit is then `BatchStore`'s `Store` or `Lose`,
  an alert task its `SendAlerts`, and every other step a stutter.
  `CollectionLinked`: a mint that is read right names the collection of its
  token (`MintedHere`), and a row without a reference in the open transaction
  has its collection there or among those to be created (`DraftLinked`); without
  the latter the invariant is not inductive, since the collection is saved
  after the row. `AlertsSound`: a match is of an activity in the table
  (`ActivitiesFound`), a row's traits are its token's, and activities, excused
  tokens and the collections of tokens only grow, so no later step takes back
  what an alert was sent for. `OwnerFollowsLedger`: the messages of an NFT that
  is not excused are the transactions that changed its owner, in the order of
  their ids (`InOrder`), the last of them names the owner on the ledger
  (`History`), and the rows, the open transaction and its pending updates are as
  far as the messages handled (`DraftHistory`). `ClassifiedIsParsed`
  holds of each message alone: the weights of the classifier add up to the
  threshold only for a success of the type that was parsed.
  A reading of the proof that surprised: the traits of an NFT are stored as an
  object with one key, `attributes`, in which the matching looks for the names of
  traits, so no filter but one named like that key ever matches; `AlertsSound`
  makes no claim about that one filter.

Only model-checked: the liveness properties (`BatchDrains`, `BackfillEnds`,
`ConnectedOrGivenUp`, `HandledOrDeadLettered`, `QueueSettles`, `CacheCatchesUp`,
and the fairness of `BoundedDelivery` in `KeepsPromise`), which are beyond the
prover. The violated properties are refuted by TLC.

## Plan

1. Composition of `EventQueue` with `Ingestion` (the ack against the flush), and
   of `NodeConnections` with `LedgerGaps` (clients as the source of messages,
   two clients of one node).
2. Larger instances of `nft_store` (both message formats, a fourth transaction)
   and `metadata_enrichment` (two NFTs, batches that are cut off).

## Not modelled

The API gateway and its documentation, logging, configuration reading,
migrations as such, command-line tools and test utilities: they keep no state
and decide nothing the other parts depend on; the constraints of the schema and
what `main.ts` leaves undone enter the modules where they matter. Operations of
modelled parts that nothing calls (`addNode`, `publishBatch`,
`cleanupOldNotifications`, the locks, counters and `getOrSet` of the Redis cache,
statistics). Password hashing, token signing, HTTP, S3 and SMTP: library calls,
modelled by what they answer. See `components` in `PROJECT.json`.
