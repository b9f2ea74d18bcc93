----------------------------- MODULE NftStore ------------------------------
(***************************************************************************)
(* From the ledger to the rows: what NFT transactions do on the XRPL, what *)
(* the parser reads in their messages, how the batch processor stores it   *)
(* in nfts, collections and nft_activities within one database             *)
(* transaction, and which alerts the stored activities match.              *)
(*                                                                         *)
(* A message arrives in order, or late, from the backfill of a gap.  One   *)
(* batch runs at a time; nothing it reads changes while it runs, so the    *)
(* ledger moves between batches only.  Postgres refuses every statement    *)
(* of a transaction after one that failed, and its COMMIT then rolls back  *)
(* without an error.                                                       *)
(***************************************************************************)
EXTENDS NftMessages

INSTANCE AlertMatching

CONSTANTS
  Minter, Trader,       \* accounts that mint, and that buy and sell
  SmallTaxon, BigTaxon, \* taxons below, and one from 2^31; the column is an int4
  Wrapped,              \* whether messages have the form of the newer API (tx_json)
  Fraction,             \* a price of an issued currency that is no whole number
  Price,                \* prices offered
  Attributes,           \* the traits in the metadata of each NFT
  Alert,                \* the alert configurations
  ChunkSize,            \* TRANSACTION_CONSTANTS.DEFAULT_BATCH_SIZE
  MaxMessages,          \* bound: NFT transactions of the ledger
  MaxLate,              \* bound: messages that arrive late
  MaxFailures           \* bound: statements that fail by no fault of their own

Taxon == SmallTaxon \cup {BigTaxon}

\* A collection is what the code takes for its issuer, and the taxon.
Collection == Account \X Taxon

\* The traits of an NFT, as an object with one key.
StoredKey == "attributes"

Traits(n) ==
  IF Attributes[n] = <<>> THEN NoValue
  ELSE [values |-> [key \in {StoredKey} |-> Attributes[n]]]

NftRow ==
  [owner : Account, traits : {NoValue} \cup {Traits(n) : n \in Nft},
   collection : {NoValue} \cup Collection]

ASSUME StoreAssumption ==
  /\ Minter \subseteq Trader /\ Trader \subseteq Account /\ BigTaxon \notin SmallTaxon
  /\ Wrapped \in BOOLEAN
  /\ ChunkSize \in Nat \ {0}
  /\ {MaxMessages, MaxLate, MaxFailures} \subseteq Nat
  /\ Account \cap {"none", "touch"} = {}
  /\ NoValue \notin Collection \cup NftRow

VARIABLES
  owner,       \* the ledger: who owns each NFT, NoValue before and after its life
  home,        \* the ledger: the collection of each minted NFT
  sent,        \* number of messages so far
  late,        \* messages held back, as the parser reads them
  queue,       \* messages in the current batch, in order of arrival
  excused,     \* NFTs one of whose messages is misread, or was overtaken
  collections, \* committed tables
  nfts,
  activities,
  draft,       \* the same tables inside the open transaction, NoValue without one
  aborted,     \* whether a statement of the open transaction failed
  phase,       \* what the batch does
  start,       \* position of the first message of the chunk
  next,        \* position of the message the first pass is at
  toCreate,    \* collectionsToCreate
  toUpdate,    \* nftsToUpdate
  tasks,       \* running calls of processAlertsAsync, as sets of ids
  reported,    \* batches reported as stored, as sets of ids
  notified,    \* matches, as ids with the alert
  failures

ledger == <<owner, home, sent, late, queue, excused>>
tables == <<collections, nfts, activities>>
open   == <<draft, aborted>>
chunk  == <<start, next, toCreate, toUpdate>>
vars   == <<ledger, tables, open, phase, chunk, tasks, reported, notified, failures>>

NoUpdate == [n \in Nft |-> "none"]

Saved == [collections |-> collections, nfts |-> nfts, activities |-> activities]

Init ==
  /\ owner = [n \in Nft |-> NoValue]
  /\ home = [n \in Nft |-> NoValue]
  /\ sent = 0
  /\ late = {}
  /\ queue = <<>>
  /\ excused = {}
  /\ collections = {}
  /\ nfts = [n \in Nft |-> NoValue]
  /\ activities = {}
  /\ draft = NoValue
  /\ aborted = FALSE
  /\ phase = "idle"
  /\ start = 1 /\ next = 1
  /\ toCreate = {}
  /\ toUpdate = NoUpdate
  /\ tasks = {}
  /\ reported = {}
  /\ notified = {}
  /\ failures = 0

-----------------------------------------------------------------------------
(* The ledger.                                                             *)

Message(type, account, nodes) ==
  [type |-> type, wrapped |-> Wrapped, account |-> account, destination |-> NoValue,
   amount |-> NoValue, nft |-> NoValue, nftokenId |-> NoValue, taxon |-> NoValue,
   result |-> "tesSUCCESS", nodes |-> nodes]

\* The ledger moves while no batch runs.
MaySend == phase = "idle" /\ sent < MaxMessages

Effect(kind, nft, account) == [kind |-> kind, nft |-> nft, account |-> account]

NoEffect == Effect("none", NoValue, NoValue)

\* What the store will take an activity for.
EffectOf(activity) ==
  CASE activity.type = "mint" -> Effect("mint", activity.token, activity.to)
    [] activity.type = "offer_accepted" /\ activity.token # NoValue ->
         Effect("move", activity.token, activity.to)
    [] activity.type = "burn" -> Effect("burn", activity.token, NoValue)
    [] OTHER -> NoEffect

\* A message as the program knows it, with the activity the parser read.
Item(m) ==
  [id |-> sent + 1, activity |-> ParseNftTransaction(m), taxon |-> m.taxon,
   result |-> m.result, verdict |-> Classify(m)]

\* An earlier message of its token is still held back.
Overtaken(item) ==
  \E other \in late : other.id < item.id /\ other.activity.token = item.activity.token

OvertakenToken(item) == IF Overtaken(item) THEN {item.activity.token} \ {NoValue} ELSE {}

\* The program gets the message of a transaction with this effect, at once or
\* late, and keeps it if the parser finds an activity in it.
Send(m, effect) ==
  LET item == Item(m)
      read == EffectOf(item.activity)
      misread == IF read = effect THEN {} ELSE {read.nft, effect.nft} \ {NoValue}
  IN /\ item.activity # NoValue
     /\ sent' = sent + 1
     /\ \/ /\ queue' = Append(queue, item)
           /\ excused' = excused \cup misread \cup OvertakenToken(item)
           /\ late' = late
        \/ /\ Cardinality(late) < MaxLate
           /\ late' = late \cup {item}
           /\ excused' = excused \cup misread
           /\ queue' = queue
     /\ UNCHANGED <<tables, open, phase, chunk, tasks, reported, notified, failures>>

Held(a) == {n \in Nft : owner[n] = a}

\* A page that takes the token, a first page, a new page split off the old
\* one, or a new page beside an old one whose links change.
MintNodes(n, a) ==
  LET held == Held(a)
  IN IF held = {} THEN {<<PageCreated>>}
     ELSE {<<PageModified(held, held \cup {n})>>, <<PageCreated, PageModified(NoValue, held)>>}
            \cup {<<PageCreated, PageModified(held, kept)>> :
                    kept \in SUBSET (held \cup {n}) \ {{}, held, held \cup {n}}}

Mint ==
  /\ MaySend
  /\ \E n \in Nft, a \in Minter, taxon \in Taxon, named \in BOOLEAN :
       /\ home[n] = NoValue
       /\ home' = [home EXCEPT ![n] = <<a, taxon>>]
       /\ owner' = [owner EXCEPT ![n] = a]
       /\ \E nodes \in MintNodes(n, a) :
            /\ named => Len(nodes) = 1 \* the nodes do not matter then
            /\ Send([Message("NFTokenMint", a, nodes) EXCEPT
                       !.taxon = taxon, !.nftokenId = IF named THEN n ELSE NoValue],
                    Effect("mint", n, a))

\* The offers an acceptance consumes: one, or two that a broker brings together.
Accept ==
  /\ MaySend
  /\ \E n \in Nft, seller, buyer \in Trader :
       /\ owner[n] = seller /\ buyer # seller
       /\ owner' = [owner EXCEPT ![n] = buyer]
       /\ home' = home
       /\ \E amount \in Price, account \in Account :
            LET sell  == OfferDeleted(n, TRUE, seller, amount)
                buy   == OfferDeleted(n, FALSE, buyer, amount)
                nodes == IF account = buyer THEN {<<sell>>}
                         ELSE IF account = seller THEN {<<buy>>}
                         ELSE {<<sell, buy>>, <<buy, sell>>}
            IN \E consumed \in nodes :
                 Send(Message("NFTokenAcceptOffer", account, consumed), Effect("move", n, buyer))

Burn ==
  /\ MaySend
  /\ \E n \in Nft :
       /\ owner[n] # NoValue
       /\ owner' = [owner EXCEPT ![n] = NoValue]
       /\ home' = home
       /\ Send([Message("NFTokenBurn", owner[n], <<OtherNode>>) EXCEPT !.nft = n],
               Effect("burn", n, NoValue))

\* A transaction that failed only takes its fee; it is in the ledger all the same.
Fail ==
  /\ MaySend
  /\ \E n \in Nft, type \in {"NFTokenMint", "NFTokenBurn", "NFTokenAcceptOffer"} :
       /\ home[n] # NoValue
       /\ Send([Message(type, home[n][1], <<OtherNode>>) EXCEPT
                  !.nft = IF type = "NFTokenBurn" THEN n ELSE NoValue,
                  !.result = "tecNO_PERMISSION"], NoEffect)
  /\ UNCHANGED <<owner, home>>

\* Offers made, and withdrawn.
Offer ==
  /\ MaySend
  /\ \E n \in Nft :
       /\ owner[n] # NoValue
       /\ \/ \E amount \in Price :
               Send([Message("NFTokenCreateOffer", owner[n], <<OfferCreated(n)>>) EXCEPT
                       !.nft = n, !.amount = amount], NoEffect)
          \/ Send(Message("NFTokenCancelOffer", owner[n],
                          <<OfferDeleted(n, TRUE, owner[n], NoValue)>>), NoEffect)
  /\ UNCHANGED <<owner, home>>

\* A gap is filled: a late message joins the batch, behind those sent since.
Backfill ==
  \E item \in late :
    /\ phase = "idle"
    /\ late' = late \ {item}
    /\ queue' = Append(queue, item)
    /\ excused' = excused \cup OvertakenToken(item)
    /\ UNCHANGED <<owner, home, sent, tables, open, phase, chunk, tasks,
                   reported, notified, failures>>

-----------------------------------------------------------------------------
(* The batch: processBatchInternal.                                        *)

\* The message the first pass is at.
Current == queue[next].activity

Known(token) == token # NoValue /\ draft.nfts[token] # NoValue

ChunkEnd == IF start + ChunkSize > Len(queue) THEN Len(queue) ELSE start + ChunkSize - 1

Chunk == {queue[i] : i \in start..ChunkEnd}

Ids(items) == {item.id : item \in items}

Batch == {queue[i] : i \in 1..Len(queue)}

StatementFails ==
  /\ failures < MaxFailures
  /\ failures' = failures + 1

Begin ==
  /\ phase = "idle" /\ queue # <<>>
  /\ phase' = "first"
  /\ draft' = Saved
  /\ UNCHANGED <<ledger, tables, aborted, chunk, tasks, reported, notified, failures>>

\* One message of the first pass is done.
Pass ==
  /\ phase = "first" /\ next <= ChunkEnd
  /\ next' = next + 1
  /\ UNCHANGED <<ledger, tables, phase, start, tasks, reported, notified>>

\* No token, nothing to do for this type, no row to update, or a transaction
\* in which the lookup is refused, which is caught and logged.
SkipNftUpdate ==
  /\ Pass
  /\ \/ Current.token = NoValue
     \/ aborted
     \/ Current.type \in {"offer_created", "offer_cancelled"}
     \/ Current.type = "mint" /\ Known(Current.token)
     \/ Current.type # "mint" /\ ~ Known(Current.token)
  /\ UNCHANGED <<open, toCreate, toUpdate, failures>>

\* A statement for a token fails and the transaction with it; the code goes on.
NftUpdateFails ==
  /\ Pass
  /\ ~ aborted /\ Current.token # NoValue
  /\ \/ StatementFails
     \/ /\ Current.type = "mint" /\ ~ Known(Current.token)
        /\ queue[next].taxon = BigTaxon
        /\ failures' = failures
  /\ aborted' = TRUE
  /\ UNCHANGED <<draft, toCreate, toUpdate>>

CreateNftOnly ==
  /\ Pass
  /\ ~ aborted /\ Current.type = "mint" /\ Current.token # NoValue
  /\ ~ Known(Current.token)
  /\ queue[next].taxon # BigTaxon
  /\ draft' = [draft EXCEPT !.nfts[Current.token] =
                 [owner |-> Current.to, traits |-> NoValue, collection |-> NoValue]]
  /\ UNCHANGED <<aborted, toCreate, toUpdate, failures>>

\* The row of a new token refers to a collection that is saved already; a
\* collection that is yet to be created has no id to refer to.
CreateNewNft ==
  LET minted     == Current
      collection == <<minted.from, queue[next].taxon>>
      known      == collection \in draft.collections
  IN /\ Pass
     /\ ~ aborted /\ minted.type = "mint" /\ minted.token # NoValue
     /\ ~ Known(minted.token)
     /\ collection[2] # BigTaxon
     /\ draft' = [draft EXCEPT !.nfts[minted.token] =
                    [owner |-> minted.to, traits |-> NoValue,
                     collection |-> IF known THEN collection ELSE NoValue]]
     /\ toCreate' = IF known THEN toCreate ELSE toCreate \cup {collection}
     /\ UNCHANGED <<aborted, toUpdate, failures>>

NoteSeller ==
  /\ Pass
  /\ ~ aborted /\ Known(Current.token)
  /\ Current.type \in {"offer_accepted", "sale", "burn"}
  /\ toUpdate' = [toUpdate EXCEPT ![Current.token] =
                    IF Current.type = "burn" THEN "touch" ELSE Current.from]
  /\ UNCHANGED <<open, toCreate, failures>>

\* The last entry for a token counts; that of a burn leaves the owner alone.
NoteUpdate ==
  /\ Pass
  /\ ~ aborted /\ Known(Current.token)
  /\ Current.type \in {"offer_accepted", "sale", "burn"}
  /\ toUpdate' = [toUpdate EXCEPT ![Current.token] =
                    IF Current.type = "burn" THEN "touch" ELSE Current.to]
  /\ UNCHANGED <<open, toCreate, failures>>

NothingToWrite == toCreate = {} /\ toUpdate = NoUpdate

AfterFirstPass == phase = "first" /\ next > ChunkEnd

Updated(rows) ==
  [n \in Nft |-> IF toUpdate[n] \in Account THEN [rows[n] EXCEPT !.owner = toUpdate[n]]
                 ELSE rows[n]]

\* The new collections and the updates; in a transaction that is aborted this
\* goes unnoticed if there are none.
WriteCollectionsAndNfts ==
  /\ AfterFirstPass
  /\ aborted => NothingToWrite
  /\ phase' = "second"
  /\ draft' = [draft EXCEPT !.collections = draft.collections \cup toCreate,
                            !.nfts = Updated(draft.nfts)]
  /\ UNCHANGED <<ledger, tables, aborted, chunk, tasks, reported, notified, failures>>

\* On to the next chunk, or to the commit.
Advance ==
  /\ start' = start + ChunkSize
  /\ next' = start + ChunkSize
  /\ phase' = IF ChunkEnd = Len(queue) THEN "commit" ELSE "first"
  /\ toCreate' = {}
  /\ toUpdate' = NoUpdate

\* createNftActivity.
Row(item) ==
  [id |-> item.id, type |-> item.activity.type, price |-> item.activity.price,
   nft |-> IF Known(item.activity.token) THEN item.activity.token ELSE NoValue]

CommitChunk ==
  /\ phase = "second" /\ ~ aborted
  /\ \A item \in Chunk : item.activity.price # Fraction
  /\ collections' = draft.collections
  /\ nfts' = draft.nfts
  /\ activities' = draft.activities \cup {Row(item) : item \in Chunk}
  /\ draft' = [draft EXCEPT !.activities = activities']
  /\ tasks' = tasks \cup {Ids(Chunk)}
  /\ Advance
  /\ UNCHANGED <<ledger, aborted, reported, notified, failures>>

\* The activities of the chunk are stored, and the alerts are set going before
\* the commit.
SaveActivities ==
  /\ phase = "second" /\ ~ aborted
  /\ \A item \in Chunk : item.activity.price # Fraction
  /\ draft' = [draft EXCEPT !.activities = draft.activities \cup {Row(item) : item \in Chunk}]
  /\ tasks' = tasks \cup {Ids(Chunk)}
  /\ Advance
  /\ UNCHANGED <<ledger, tables, aborted, reported, notified, failures>>

\* The lookup of the first token is refused, so are the others, and with no
\* activity to insert the chunk is done.
LoseActivities ==
  /\ phase = "second"
  /\ \A item \in Chunk : item.activity.token # NoValue
  /\ (aborted /\ failures' = failures) \/ (~ aborted /\ StatementFails)
  /\ aborted' = TRUE
  /\ Advance
  /\ UNCHANGED <<ledger, tables, draft, tasks, reported, notified>>

\* The running calls for activities of this transaction: when it is rolled
\* back they find nothing, whenever they look.
Futile == {task \in tasks : task \subseteq Ids(Batch)}

\* The query runner is released.
Release ==
  /\ phase' = "idle"
  /\ draft' = NoValue
  /\ aborted' = FALSE
  /\ start' = 1 /\ next' = 1
  /\ toCreate' = {}
  /\ toUpdate' = NoUpdate

\* A failed transaction commits as nothing, and the batch is reported as stored.
Commit ==
  /\ phase = "commit"
  /\ Release
  /\ queue' = <<>>
  /\ reported' = reported \cup {Ids(Batch)}
  /\ IF aborted
     THEN /\ UNCHANGED tables
          /\ tasks' = tasks \ Futile
          /\ excused' = excused \cup ({item.activity.token : item \in Batch} \ {NoValue})
     ELSE /\ collections' = draft.collections
          /\ nfts' = draft.nfts
          /\ activities' = draft.activities
          /\ UNCHANGED <<excused, tasks>>
  /\ UNCHANGED <<owner, home, sent, late, notified, failures>>

\* A statement outside the two caught blocks fails; the batch is kept and
\* tried again.
Rollback ==
  /\ Release
  /\ tasks' = tasks \ Futile
  /\ UNCHANGED <<ledger, tables, reported, notified>>

RefusedWrite == AfterFirstPass /\ aborted /\ ~ NothingToWrite /\ failures' = failures

RefusedActivities ==
  /\ phase = "second"
  /\ failures' = failures
  /\ \/ aborted /\ \E item \in Chunk : item.activity.token = NoValue
     \/ ~ aborted /\ \E item \in Chunk : item.activity.price = Fraction

FailedStatement ==
  /\ \/ AfterFirstPass /\ ~ NothingToWrite
     \/ phase = "second" /\ ~ aborted
     \/ phase = "commit"
  /\ StatementFails

BatchFails == Rollback /\ (RefusedWrite \/ RefusedActivities \/ FailedStatement)

-----------------------------------------------------------------------------
(* After the batch.                                                        *)

\* The enrichment stores the traits.
Enrich ==
  \E n \in Nft :
    /\ phase = "idle"
    /\ nfts[n] # NoValue
    /\ nfts' = [nfts EXCEPT ![n].traits = Traits(n)]
    /\ UNCHANGED <<ledger, collections, activities, open, phase, chunk, tasks,
                   reported, notified, failures>>

\* What the matching is told about the NFT of an activity, from its row as it
\* is now.
NftOf(row) ==
  IF row.nft = NoValue THEN [collection |-> NoValue, traits |-> NoValue]
  ELSE [collection |-> nfts[row.nft].collection, traits |-> nfts[row.nft].traits]

\* findMatchingAlerts.
MatchesOf(row) ==
  {alert \in Alert : EvaluateAlertMatch(alert, row.type, row.price,
                                        NftOf(row).collection, NftOf(row).traits)}

\* processActivityBatch: the rows do not affect one another.
Matches(rows) == UNION {{<<row.id, alert>> : alert \in MatchesOf(row)} : row \in rows}

\* processAlertsAsync reads the activities again, outside the transaction.
Reloaded(task) == {row \in activities : row.id \in task}

ProcessAlerts ==
  \E task \in tasks :
    /\ tasks' = tasks \ {task}
    /\ notified' = notified \cup Matches(Reloaded(task))
    /\ UNCHANGED <<ledger, tables, open, phase, chunk, reported, failures>>

LedgerNext == Mint \/ Accept \/ Burn \/ Fail \/ Offer \/ Backfill

BatchNext ==
  \/ Begin \/ SkipNftUpdate \/ NftUpdateFails \/ CreateNewNft \/ NoteUpdate
  \/ WriteCollectionsAndNfts \/ SaveActivities \/ LoseActivities
  \/ Commit \/ BatchFails

Next == LedgerNext \/ BatchNext \/ Enrich \/ ProcessAlerts

Spec == Init /\ [][Next]_vars

-----------------------------------------------------------------------------
(* Properties.                                                             *)

Quiet == phase = "idle" /\ queue = <<>> /\ late = {}

\* Once everything sent is handled, the owner in the row of a living NFT is the
\* owner on the ledger, unless one of its messages is misread by the parser,
\* was overtaken by a later one, or went down with a batch that was reported
\* as stored although its transaction had failed (nftsToUpdate).
OwnerFollowsLedger ==
  Quiet => \A n \in Nft \ excused :
             nfts[n] # NoValue /\ owner[n] # NoValue => nfts[n].owner = owner[n]

StoredIds == {row.id : row \in activities}

Tokens == {n \in Nft : nfts[n] # NoValue}

Alerted == {match[1] : match \in notified}

Batches ==
  INSTANCE BatchStore WITH
    Messages <- 1..MaxMessages,
    stored <- StoredIds,
    tokens <- Tokens,
    alerted <- Alerted

\* What the batch processor promises: see BatchStore. The chunks and retries of
\* a batch, its three tables and its alerts, which are set going before the
\* commit, come to one step that stores all of it, or none, and reports it.
KeepsBatches == Batches!Spec

\* A row refers to a collection that is saved, and to the one of its token; a
\* row that refers to none, since the collection was not saved before it, still
\* has its collection among the saved ones.
CollectionLinked ==
  \A n \in Nft \ excused :
    nfts[n] # NoValue =>
      /\ home[n] \in collections
      /\ nfts[n].collection \in {home[n], NoValue}

\* A filter for the key under which the traits are stored names no trait.
MeetsTraits(alert, n) ==
  \A filter \in {f \in alert.traitFilters : f.traitType # StoredKey} :
    /\ filter.traitType \in DOMAIN Attributes[n]
    /\ SatisfiesFilter(filter, Attributes[n][filter.traitType])

\* A notification is of an activity that is committed, for an alert that is
\* active and names its type, and for a collection, a price or traits the
\* alert asks for only if the activity has them, although the alerts are set
\* going before the commit and read the rows at any time after.
AlertsSound ==
  \A match \in notified :
    \E row \in activities :
      LET alert    == match[2]
      IN /\ row.id = match[1]
         /\ alert.isActive /\ row.type \in alert.activityTypes
         /\ alert.collection # NoValue =>
              row.nft # NoValue /\ (row.nft \in excused \/ home[row.nft] = alert.collection)
         /\ alert.minPrice # NoValue => row.price # NoValue /\ row.price >= alert.minPrice
         /\ alert.maxPrice # NoValue => row.price # NoValue /\ row.price <= alert.maxPrice
         /\ alert.traitFilters # {} => row.nft # NoValue /\ MeetsTraits(alert, row.nft)

\* With its default thresholds the classifier accepts no transaction that
\* failed, and gives one it accepts the type under which it is stored.
ClassifiedIsParsed ==
  \A item \in late \cup Batch :
    item.verdict # NoValue =>
      item.verdict = item.activity.type /\ item.result = "tesSUCCESS"

\* Violated: an alert for every activity type the API accepts, without other
\* criteria, is notified of every stored sale once its alerts were processed.
SalesAlerted ==
  tasks = {} =>
    \A row \in activities, alert \in Alert :
      row.type = "offer_accepted" /\ alert.activityTypes = AlertActivityType
      /\ alert.isActive /\ alert.collection = NoValue /\ alert.minPrice = NoValue
      /\ alert.maxPrice = NoValue /\ alert.traitFilters = {} => <<row.id, alert>> \in notified

=============================================================================
