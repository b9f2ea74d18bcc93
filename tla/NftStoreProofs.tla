--------------------------- MODULE NftStoreProofs ---------------------------
(***************************************************************************)
(* Proofs about NftStore, for any number of NFTs, accounts, messages and   *)
(* failures, and chunks of any size.                                       *)
(***************************************************************************)
EXTENDS NftStore, FiniteSetTheorems, WellFoundedInduction, TLAPS

-----------------------------------------------------------------------------
(* What the variables hold.                                                *)

\* The transaction types of the ledger here; a payment is read as a sale.
LedgerType ==
  {"NFTokenMint", "NFTokenBurn", "NFTokenAcceptOffer", "NFTokenCreateOffer", "NFTokenCancelOffer"}

ResultCode == {"tesSUCCESS", "tecNO_PERMISSION"}

Maybe(S) == S \cup {NoValue}

Node ==
  {PageCreated, OtherNode}
    \cup {PageModified(previous, final) : previous \in Maybe(SUBSET Nft), final \in SUBSET Nft}
    \cup {OfferCreated(n) : n \in Nft}
    \cup {OfferDeleted(v[1], v[2], v[3], v[4]) :
            v \in Nft \X BOOLEAN \X Account \X Maybe(Price)}

MessageSet ==
  [type : LedgerType, wrapped : BOOLEAN, account : Account, destination : {NoValue},
   amount : Maybe(Price), nft : Maybe(Nft), nftokenId : Maybe(Nft), taxon : Maybe(Taxon),
   result : ResultCode, nodes : Seq(Node)]

ActivitySet ==
  [type : ActivityType \ {"sale"}, token : Maybe(Nft), from : Maybe(Account),
   to : Maybe(Account), price : Maybe(Price)]

ItemSet ==
  [id : Nat, activity : ActivitySet, taxon : Maybe(Taxon), result : ResultCode,
   verdict : Maybe(ActivityType)]

RowSet ==
  [id : Nat, type : ActivityType \ {"sale"}, price : Maybe(Price), nft : Maybe(Nft)]

\* A token that is minted has an issuer and a taxon, one that is sold a buyer.
WellRead(item) ==
  item.activity.token # NoValue =>
    /\ item.activity.type = "mint" =>
         item.activity.from \in Account /\ item.taxon \in Taxon
    /\ item.activity.type \in {"mint", "offer_accepted"} => item.activity.to \in Account

NftTable == [Nft -> Maybe(NftRow)]

Tables == [collections : SUBSET Collection, nfts : NftTable, activities : SUBSET RowSet]

LedgerTypeOK ==
  /\ owner \in [Nft -> Maybe(Account)]
  /\ home \in [Nft -> Maybe(Collection)]
  /\ sent \in Nat
  /\ late \in SUBSET ItemSet
  /\ queue \in Seq(ItemSet)
  /\ excused \in SUBSET Nft
  /\ \A item \in Batch \cup late : WellRead(item)

StoreTypeOK ==
  /\ collections \in SUBSET Collection
  /\ nfts \in NftTable
  /\ activities \in SUBSET RowSet
  /\ phase # "idle" => draft \in Tables
  /\ aborted \in BOOLEAN
  /\ toCreate \in SUBSET Collection
  /\ toUpdate \in [Nft -> Account \cup {"none", "touch"}]
  /\ phase # "idle" => \A n \in Nft : draft.nfts[n] = NoValue => toUpdate[n] = "none"
  /\ tasks \in SUBSET (SUBSET Nat)
  /\ notified \in SUBSET (Nat \X Alert)

-----------------------------------------------------------------------------
(* Where the batch is.                                                     *)

Positions ==
  /\ phase \in {"idle", "first", "second", "commit"}
  /\ start \in Nat \ {0} /\ next \in Nat \ {0}
  /\ phase = "idle" =>
       start = 1 /\ next = 1 /\ toCreate = {} /\ toUpdate = NoUpdate /\ aborted = FALSE
  /\ phase = "first" => start <= Len(queue) /\ start <= next /\ next <= ChunkEnd + 1
  /\ phase = "second" => start <= Len(queue) /\ next = ChunkEnd + 1
  /\ phase = "commit" => Len(queue) < start /\ next = start
  /\ phase = "commit" => toCreate = {} /\ toUpdate = NoUpdate

TypeInv == LedgerTypeOK /\ StoreTypeOK /\ Positions

-----------------------------------------------------------------------------
(* Each message is handled once, and each batch reported once.             *)

Reported == UNION reported

QueuedIds(from, to) == {queue[i].id : i \in {j \in 1..Len(queue) : from <= j /\ j < to}}

IdsUsed ==
  /\ \A item \in Batch \cup late : item.id \in 1..sent /\ item.id \notin Reported
  /\ \A i, j \in 1..Len(queue) : queue[i].id = queue[j].id => i = j
  /\ \A item \in late : item.id \notin Ids(Batch)
  /\ \A item, other \in late : item.id = other.id => item = other
  /\ Reported \subseteq 1..sent

StoredOnce ==
  /\ StoredIds \subseteq Reported
  /\ phase # "idle" /\ ~ aborted =>
       {row.id : row \in draft.activities} = StoredIds \cup QueuedIds(1, start)

DraftGrows == phase # "idle" => activities \subseteq draft.activities

\* A batch that processBatch reports as stored has the activities of all its
\* messages in nft_activities or of none: the chunks share one transaction, and
\* nothing of an attempt that failed is left behind.
BatchAtomic ==
  \A batch \in reported : batch \subseteq StoredIds \/ batch \cap StoredIds = {}

-----------------------------------------------------------------------------
(* Rows and collections.                                                   *)

MintedHere ==
  \A item \in Batch \cup late :
    LET token == item.activity.token
    IN item.activity.type = "mint" /\ token \in Nft \ excused =>
         home[token] = <<item.activity.from, item.taxon>>

Linked(rows, saved) ==
  \A n \in Nft \ excused :
    rows[n] # NoValue => home[n] \in saved /\ rows[n].collection \in Maybe({home[n]})

DraftLinked ==
  phase # "idle" /\ ~ aborted =>
    Linked(draft.nfts, IF phase = "first" THEN draft.collections \cup toCreate
                       ELSE draft.collections)

-----------------------------------------------------------------------------
(* Activities and the rows of their NFTs.                                  *)

RowsFound(rows, table) == \A row \in rows : row.nft # NoValue => table[row.nft] # NoValue

ActivitiesFound ==
  /\ RowsFound(activities, nfts)
  /\ phase # "idle" => RowsFound(draft.activities, draft.nfts)

-----------------------------------------------------------------------------
(* The owner of an NFT, as its pending messages tell it.                   *)

Pending == Batch \cup late

\* What the batch has still to read.
Unread == {queue[i] : i \in next..Len(queue)} \cup late

Of(n, S) == {item \in S : item.activity.token = n}

Movers(n, S) == {item \in Of(n, S) : item.activity.type \in {"mint", "offer_accepted"}}

Typed(n, S, type) == {item \in Of(n, S) : item.activity.type = type}

InOrder(n) ==
  /\ \A i, j \in 1..Len(queue) :
       /\ i < j /\ queue[i].activity.token = n /\ queue[j].activity.token = n
       => queue[i].id < queue[j].id
  /\ \A item \in Of(n, Batch), other \in Of(n, late) : item.id < other.id

History(n) ==
  /\ owner[n] # NoValue => home[n] # NoValue
  /\ Of(n, Pending) # {} => home[n] # NoValue
  /\ Typed(n, Pending, "burn") # {} => owner[n] = NoValue
  /\ \A item, other \in Typed(n, Pending, "mint") : item.id = other.id
  /\ Typed(n, Pending, "mint") # {} => nfts[n] = NoValue
  /\ owner[n] # NoValue =>
       \A item \in Movers(n, Pending) :
         \/ item.activity.to = owner[n]
         \/ \E other \in Movers(n, Pending) : item.id < other.id
  /\ owner[n] # NoValue /\ nfts[n] # NoValue /\ Movers(n, Pending) = {} =>
       nfts[n].owner = owner[n]

\* The owner the batch will write.
Believed(n) ==
  IF phase = "first" /\ toUpdate[n] \in Account THEN toUpdate[n] ELSE draft.nfts[n].owner

DraftHistory(n) ==
  phase # "idle" /\ ~ aborted =>
    /\ Typed(n, Unread, "mint") # {} => draft.nfts[n] = NoValue
    /\ owner[n] # NoValue /\ draft.nfts[n] # NoValue /\ Movers(n, Unread) = {} =>
         Believed(n) = owner[n]

OwnersKnown == \A n \in Nft \ excused : InOrder(n) /\ History(n) /\ DraftHistory(n)

-----------------------------------------------------------------------------
(* What the parser reads.                                                  *)

\* The least number of a set.
LEMMA FirstIn ==
  ASSUME NEW S \in SUBSET Nat, S # {}
  PROVE  First(S) \in S /\ \A k \in S : First(S) <= k
<1>. DEFINE Less == {p \in Nat \X Nat : p[1] < p[2]}
<1>1. IsWellFoundedOn(Less, Nat) BY NatLessThanWellFounded DEF OpToRel
<1>. HIDE DEF Less
<1>2. PICK n \in S : \A k \in S : <<k, n>> \notin Less
  BY <1>1, WFMin
<1>3. \A k \in S : n <= k
  <2>1. SUFFICES ASSUME NEW k \in S PROVE n <= k OBVIOUS
  <2>2. ~ k < n BY <1>2 DEF Less
  <2>. QED BY <2>2
<1>. QED BY <1>3 DEF First

\* The greatest position of a set of positions.
LEMMA LatestIn ==
  ASSUME NEW n \in Nat, NEW S \in SUBSET (1..n), S # {}
  PROVE  Latest(S) \in S
<1>. DEFINE Bounds == {b \in Nat : \A k \in S : k <= b}
            b == First(Bounds)
<1>1. Bounds \in SUBSET Nat /\ n \in Bounds OBVIOUS
<1>2. b \in Bounds /\ \A c \in Bounds : b <= c
  <2>. HIDE DEF Bounds
  <2>. QED BY <1>1, FirstIn
<1>. HIDE DEF b
<1>3. b \in S
  <2>1. SUFFICES ASSUME b \notin S PROVE FALSE OBVIOUS
  <2>2. PICK k \in S : TRUE OBVIOUS
  <2>3. b \in Nat /\ k <= b /\ k # b /\ k >= 1 BY <2>1, <2>2, <1>2
  <2>4. b - 1 \in Nat BY <2>3
  <2>5. \A c \in S : c <= b - 1 BY <2>1, <2>3, <1>2
  <2>6. b - 1 \in Bounds BY <2>4, <2>5
  <2>. QED BY <2>6, <2>3, <1>2
<1>. QED BY <1>3, <1>2 DEF Latest

\* A node names a token or none.
LEMMA NodeTokenType ==
  ASSUME NEW node \in Node
  PROVE  NodeToken(node) \in Maybe(Nft)
<1>. USE MessageAssumption DEF Maybe
<1>1. CASE node = PageCreated BY <1>1 DEF PageCreated, NodeToken
<1>2. CASE node = OtherNode BY <1>2 DEF OtherNode, NodeToken
<1>3. CASE \E n \in Nft : node = OfferCreated(n) BY <1>3 DEF OfferCreated, NodeToken
<1>4. CASE \E v \in Nft \X BOOLEAN \X Account \X Maybe(Price) :
             node = OfferDeleted(v[1], v[2], v[3], v[4])
  BY <1>4 DEF OfferDeleted, NodeToken
<1>5. CASE \E previous \in Maybe(SUBSET Nft), final \in SUBSET Nft :
             node = PageModified(previous, final)
  <2>1. PICK previous \in Maybe(SUBSET Nft), final \in SUBSET Nft :
          node = PageModified(previous, final)
    BY <1>5
  <2>. DEFINE before == IF previous = NoValue THEN {} ELSE previous
  <2>2. before \in SUBSET Nft OBVIOUS
  <2>3. NodeToken(node) = PageToken(before, final)
    BY <2>1 DEF NodeToken, PageModified
  <2>. HIDE DEF before
  <2>4. IsFiniteSet(before) /\ IsFiniteSet(final)
    BY <2>2, FS_Subset
  <2>5. Cardinality(before) \in Nat /\ Cardinality(final) \in Nat
    BY <2>4, FS_CardinalityType
  <2>6. CASE Cardinality(final) > Cardinality(before)
    <3>1. final \subseteq before => Cardinality(final) <= Cardinality(before)
      BY <2>4, FS_Subset
    <3>2. final \ before # {} /\ final \ before \in SUBSET Nat
      <4>1. ~ (Cardinality(final) <= Cardinality(before)) BY <2>5, <2>6
      <4>2. final \subseteq Nft BY <2>1
      <4>. QED BY <3>1, <4>1, <4>2
    <3>3. First(final \ before) \in final \ before BY <3>2, FirstIn
    <3>4. NodeToken(node) = First(final \ before) BY <2>3, <2>6 DEF PageToken
    <3>. QED BY <2>1, <3>3, <3>4
  <2>7. CASE Cardinality(final) < Cardinality(before)
    <3>1. before \subseteq final => Cardinality(before) <= Cardinality(final)
      BY <2>4, FS_Subset
    <3>2. before \ final # {} /\ before \ final \in SUBSET Nft BY <3>1, <2>2, <2>5, <2>7
    <3>3. First(before \ final) \in before \ final BY <3>2, FirstIn
    <3>4. ~ Cardinality(final) > Cardinality(before) BY <2>5, <2>7
    <3>5. NodeToken(node) = First(before \ final) BY <2>3, <2>7, <3>4 DEF PageToken
    <3>. QED BY <3>3, <3>5, <3>2
  <2>8. CASE Cardinality(final) = Cardinality(before)
    <3>1. ~ Cardinality(final) > Cardinality(before) /\ ~ Cardinality(final) < Cardinality(before)
      BY <2>5, <2>8
    <3>. QED BY <2>3, <3>1 DEF PageToken
  <2>. QED BY <2>5, <2>6, <2>7, <2>8
<1>. QED BY <1>1, <1>2, <1>3, <1>4, <1>5 DEF Node

\* So does a message.
LEMMA TokenType ==
  ASSUME NEW m \in MessageSet
  PROVE  ExtractNftTokenId(m) \in Maybe(Nft)
<1>. DEFINE naming == {i \in DOMAIN m.nodes : NodeToken(m.nodes[i]) # NoValue}
<1>1. m.nodes \in Seq(Node) /\ m.nft \in Maybe(Nft) /\ m.nftokenId \in Maybe(Nft)
  BY DEF MessageSet
<1>2. naming # {} => NodeToken(m.nodes[First(naming)]) \in Maybe(Nft)
  <2>1. SUFFICES ASSUME naming # {} PROVE NodeToken(m.nodes[First(naming)]) \in Maybe(Nft)
    OBVIOUS
  <2>2. naming \in SUBSET Nat BY <1>1
  <2>3. First(naming) \in naming BY <2>1, <2>2, FirstIn
  <2>4. First(naming) \in DOMAIN m.nodes BY <2>3
  <2>. HIDE DEF naming
  <2>5. m.nodes[First(naming)] \in Node BY <1>1, <2>4
  <2>. QED BY <2>5, NodeTokenType
<1>. QED BY <1>1, <1>2 DEF ExtractNftTokenId, Maybe

\* The offer that decides is one of the message.
LEMMA DecidingOfferType ==
  ASSUME NEW m \in MessageSet, OffersDeleted(m) # {}
  PROVE  /\ DecidingOffer(m).nft \in Nft
         /\ DecidingOffer(m).sell \in BOOLEAN
         /\ DecidingOffer(m).owner \in Account
         /\ DecidingOffer(m).amount \in Maybe(Price)
<1>1. m.nodes \in Seq(Node) BY DEF MessageSet
<1>2. Len(m.nodes) \in Nat /\ OffersDeleted(m) \in SUBSET (1..Len(m.nodes))
  BY <1>1 DEF OffersDeleted
<1>3. Latest(OffersDeleted(m)) \in OffersDeleted(m) BY <1>2, LatestIn
<1>. DEFINE k == Latest(OffersDeleted(m))
<1>4. k \in DOMAIN m.nodes /\ m.nodes[k].kind = "offerDeleted"
  BY <1>3 DEF OffersDeleted
<1>. HIDE DEF k
<1>5. m.nodes[k] \in Node BY <1>1, <1>4
<1>6. DecidingOffer(m) = m.nodes[k] BY DEF DecidingOffer, k
<1>7. PICK v \in Nft \X BOOLEAN \X Account \X Maybe(Price) :
        m.nodes[k] = OfferDeleted(v[1], v[2], v[3], v[4])
  BY <1>4, <1>5 DEF Node, PageCreated, OtherNode, PageModified, OfferCreated
<1>. QED BY <1>6, <1>7 DEF OfferDeleted

\* The activity of a message, type by type.
LEMMA Parsed ==
  ASSUME NEW m \in MessageSet, NEW a, a = ParseNftTransaction(m)
  PROVE  /\ a \in ActivitySet
         /\ m.type = "NFTokenMint" => a.type = "mint" /\ a.from = m.account /\ a.to = m.account
         /\ m.type = "NFTokenBurn" => a.type = "burn" /\ a.token = m.nft
         /\ m.type = "NFTokenCreateOffer" => a.type = "offer_created" /\ a.token = m.nft
         /\ m.type = "NFTokenAcceptOffer" =>
              /\ a.type = "offer_accepted"
              /\ a.token # NoValue => OffersDeleted(m) # {} /\ a.to \in Account
         /\ m.type = "NFTokenCancelOffer" => a.type = "offer_cancelled" /\ a.token = NoValue
<1>1. /\ m.type \in LedgerType /\ m.account \in Account /\ m.destination = NoValue
      /\ m.amount \in Maybe(Price) /\ m.nft \in Maybe(Nft)
  BY DEF MessageSet
<1>2. CASE m.type = "NFTokenMint"
  <2>1. a = Activity("mint", ExtractNftTokenId(m), m.account, m.account, NoValue)
    BY <1>2 DEF ParseNftTransaction
  <2>2. ExtractNftTokenId(m) \in Maybe(Nft) BY TokenType
  <2>. QED BY <1>1, <1>2, <2>1, <2>2 DEF Activity, ActivitySet, ActivityType, Maybe
<1>3. CASE m.type = "NFTokenBurn"
  <2>1. a = Activity("burn", m.nft, m.account, NoValue, NoValue)
    BY <1>3 DEF ParseNftTransaction
  <2>. QED BY <1>1, <1>3, <2>1 DEF Activity, ActivitySet, ActivityType, Maybe
<1>4. CASE m.type = "NFTokenCreateOffer"
  <2>1. a = Activity("offer_created", m.nft, m.account, m.destination, m.amount)
    BY <1>4 DEF ParseNftTransaction
  <2>. QED BY <1>1, <1>4, <2>1 DEF Activity, ActivitySet, ActivityType, Maybe
<1>5. CASE m.type = "NFTokenCancelOffer"
  <2>1. a = Activity("offer_cancelled", NoValue, m.account, NoValue, NoValue)
    BY <1>5 DEF ParseNftTransaction, ParseCancelOffer
  <2>. QED BY <1>1, <1>5, <2>1 DEF Activity, ActivitySet, ActivityType, Maybe
<1>6. CASE m.type = "NFTokenAcceptOffer" /\ OffersDeleted(m) = {}
  <2>1. a = Activity("offer_accepted", NoValue, NoValue, NoValue, NoValue)
    BY <1>6 DEF ParseNftTransaction, ParseAcceptOffer
  <2>. QED BY <1>1, <1>6, <2>1 DEF Activity, ActivitySet, ActivityType, Maybe
<1>7. CASE m.type = "NFTokenAcceptOffer" /\ OffersDeleted(m) # {}
  <2>. DEFINE offer == DecidingOffer(m)
              from  == IF offer.sell THEN offer.owner ELSE m.account
              to    == IF offer.sell THEN m.account ELSE offer.owner
  <2>1. a = Activity("offer_accepted", offer.nft, from, to, offer.amount)
    BY <1>7 DEF ParseNftTransaction, ParseAcceptOffer
  <2>2. offer.nft \in Nft /\ offer.owner \in Account /\ offer.amount \in Maybe(Price)
    BY <1>7, DecidingOfferType
  <2>3. from \in Account /\ to \in Account BY <1>1, <2>2
  <2>. HIDE DEF offer, from, to
  <2>. QED BY <1>7, <2>1, <2>2, <2>3 DEF Activity, ActivitySet, ActivityType, Maybe
<1>. QED BY <1>1, <1>2, <1>3, <1>4, <1>5, <1>6, <1>7 DEF LedgerType

\* With its default thresholds the classifier accepts no transaction that
\* failed, and gives the type the parser gives (classifyTransaction).
LEMMA Classified ==
  ASSUME NEW m \in MessageSet
  PROVE  /\ Classify(m) \in Maybe(ActivityType)
         /\ Classify(m) # NoValue =>
              Classify(m) = ParseNftTransaction(m).type /\ m.result = "tesSUCCESS"
<1>. DEFINE a == ParseNftTransaction(m)
<1>1. a.type \in ActivityType BY Parsed DEF ActivitySet
<1>2. Classify(m) # NoValue => Classify(m) = a.type /\ Confidence(m) >= MinConfidence
  BY DEF Classify
<1>3. Confidence(m) >= MinConfidence => Succeeded(m)
  <2>1. SUFFICES ASSUME ~ Succeeded(m) PROVE ~ (Confidence(m) >= MinConfidence) OBVIOUS
  <2>2. Consistency(m) \in {60, 100} BY <2>1 DEF Consistency
  <2>3. TypeCertainty(m) \in {30, 40} BY DEF TypeCertainty
  <2>4. Confidence(m) = TypeCertainty(m) + 10 + 0 + (15 * Consistency(m)) \div 100
    BY <2>1 DEF Confidence
  <2>5. CASE Consistency(m) = 60
    <3>1. Confidence(m) = TypeCertainty(m) + 10 + 0 + (15 * 60) \div 100 BY <2>4, <2>5
    <3>. QED BY <3>1, <2>3 DEF MinConfidence
  <2>6. CASE Consistency(m) = 100
    <3>1. Confidence(m) = TypeCertainty(m) + 10 + 0 + (15 * 100) \div 100 BY <2>4, <2>6
    <3>. QED BY <3>1, <2>3 DEF MinConfidence
  <2>. QED BY <2>2, <2>5, <2>6
<1>4. Classify(m) \in {a.type, NoValue} BY DEF Classify
<1>. QED BY <1>1, <1>2, <1>3, <1>4 DEF Maybe, Succeeded

-----------------------------------------------------------------------------
(* What the ledger and the arrival of a message do to the store.           *)

\* What a message tells of an NFT that is not excused.
Tells(item, n) ==
  LET told == item.activity
  IN \/ /\ told.token = n /\ told.type = "mint"
        /\ home[n] = NoValue
        /\ home'[n] = <<told.from, item.taxon>> /\ owner'[n] = told.to
     \/ /\ told.token = n /\ told.type = "offer_accepted"
        /\ owner[n] # NoValue
        /\ home'[n] = home[n] /\ owner'[n] = told.to
     \/ /\ told.token = n /\ told.type = "burn"
        /\ owner[n] # NoValue
        /\ home'[n] = home[n] /\ owner'[n] = NoValue
     \/ /\ told.token = n => told.type = "offer_created" /\ owner[n] # NoValue
        /\ home'[n] = home[n] /\ owner'[n] = owner[n]

Judged(item) ==
  item.verdict # NoValue => item.verdict = item.activity.type /\ item.result = "tesSUCCESS"

\* The steps of the ledger, as the store sees them.
Arrives(item) ==
  /\ phase = "idle"
  /\ item \in ItemSet /\ WellRead(item) /\ Judged(item)
  /\ item.id = sent + 1 /\ sent' = sent + 1
  /\ excused' \in SUBSET Nft /\ excused \subseteq excused'
  /\ \/ /\ queue' = Append(queue, item) /\ late' = late
        /\ Overtaken(item) => item.activity.token \in Maybe(excused')
     \/ queue' = queue /\ late' = late \cup {item}
  /\ owner' \in [Nft -> Maybe(Account)]
  /\ home' \in [Nft -> Maybe(Collection)]
  /\ \A n \in Nft : home[n] # NoValue => home'[n] = home[n]
  /\ \A n \in Nft \ excused' : Tells(item, n)
  /\ UNCHANGED <<tables, open, phase, chunk, tasks, reported, notified, failures>>

\* What the transaction of a message does.
LedgerStep(m, effect) ==
  /\ m.type = "NFTokenMint" /\ ExtractNftTokenId(m) # NoValue => m.taxon \in Taxon
  /\ m.type = "NFTokenCreateOffer" => m.nft \in Nft /\ owner[m.nft] # NoValue
  /\ \/ effect = NoEffect /\ owner' = owner /\ home' = home
     \/ \E n \in Nft :
          /\ effect = Effect("mint", n, m.account)
          /\ m.taxon \in Taxon /\ home[n] = NoValue
          /\ home' = [home EXCEPT ![n] = <<m.account, m.taxon>>]
          /\ owner' = [owner EXCEPT ![n] = m.account]
     \/ \E n \in Nft, buyer \in Account :
          /\ effect = Effect("move", n, buyer)
          /\ owner[n] # NoValue
          /\ home' = home /\ owner' = [owner EXCEPT ![n] = buyer]
     \/ \E n \in Nft :
          /\ effect = Effect("burn", n, NoValue)
          /\ owner[n] # NoValue
          /\ home' = home /\ owner' = [owner EXCEPT ![n] = NoValue]

\* EffectOf takes a mint, an acceptance and a burn for what they are.
LEMMA EffectRead ==
  ASSUME NEW a \in ActivitySet, NEW n \in Nft
  PROVE  /\ a.type = "mint" => EffectOf(a) = Effect("mint", a.token, a.to)
         /\ a.type = "offer_accepted" /\ a.token = n => EffectOf(a) = Effect("move", n, a.to)
         /\ a.type = "burn" => EffectOf(a) = Effect("burn", a.token, NoValue)
         /\ EffectOf(a).nft \in Maybe(Nft)
         /\ EffectOf(a).kind = "mint" => a.type = "mint"
         /\ EffectOf(a).kind = "move" => a.type = "offer_accepted" /\ a.token # NoValue
         /\ EffectOf(a).kind = "burn" => a.type = "burn"
         /\ EffectOf(a).kind \in {"none", "mint", "move", "burn"}
<1>1. n # NoValue BY MessageAssumption
<1>2. a.type \in ActivityType \ {"sale"} /\ a.token \in Maybe(Nft) BY DEF ActivitySet
<1>3. CASE a.type = "mint" BY <1>1, <1>2, <1>3 DEF EffectOf, Effect
<1>4. CASE a.type = "burn" BY <1>1, <1>2, <1>4 DEF EffectOf, Effect
<1>5. CASE a.type = "offer_accepted" /\ a.token # NoValue
  BY <1>1, <1>2, <1>5 DEF EffectOf, Effect
<1>6. CASE a.type \notin {"mint", "burn"} /\ ~ (a.type = "offer_accepted" /\ a.token # NoValue)
  BY <1>1, <1>2, <1>6 DEF EffectOf, Effect, NoEffect, Maybe
<1>. QED BY <1>3, <1>4, <1>5, <1>6

\* The item of a message is well formed.
LEMMA ItemType ==
  ASSUME LedgerTypeOK, NEW m \in MessageSet, NEW effect, LedgerStep(m, effect)
  PROVE  /\ Item(m) \in ItemSet /\ WellRead(Item(m)) /\ Judged(Item(m))
         /\ Item(m).id = sent + 1 /\ Item(m).activity = ParseNftTransaction(m)
         /\ Item(m).taxon = m.taxon
<1>. DEFINE a == ParseNftTransaction(m)
            item == Item(m)
<1>1. item = [id |-> sent + 1, activity |-> a, taxon |-> m.taxon,
              result |-> m.result, verdict |-> Classify(m)]
  BY DEF Item
<1>2. a \in ActivitySet /\ Classify(m) \in Maybe(ActivityType) BY Parsed, Classified
<1>3. m.taxon \in Maybe(Taxon) /\ m.result \in ResultCode /\ m.account \in Account
      /\ m.type \in LedgerType
  BY DEF MessageSet
<1>4. sent + 1 \in Nat BY DEF LedgerTypeOK
<1>5. /\ a.type = "mint" => m.type = "NFTokenMint"
      /\ a.type = "offer_accepted" => m.type = "NFTokenAcceptOffer"
  BY <1>3, Parsed DEF LedgerType
<1>6. a.type = "mint" => a.token = ExtractNftTokenId(m) /\ a.from = m.account /\ a.to = m.account
  BY <1>5 DEF ParseNftTransaction, Activity
<1>. HIDE DEF a, item
<1>7. item \in ItemSet BY <1>1, <1>2, <1>3, <1>4 DEF ItemSet
<1>8. WellRead(item)
  <2>1. SUFFICES ASSUME a.token # NoValue
                 PROVE  /\ a.type = "mint" => a.from \in Account /\ m.taxon \in Taxon
                        /\ a.type \in {"mint", "offer_accepted"} => a.to \in Account
    BY <1>1 DEF WellRead
  <2>2. a.type = "offer_accepted" => a.to \in Account BY <1>5, <2>1, Parsed DEF a
  <2>3. a.type = "mint" => m.taxon \in Taxon BY <1>5, <1>6, <2>1 DEF LedgerStep
  <2>. QED BY <1>3, <1>6, <2>2, <2>3
<1>9. Judged(item)
  BY <1>1, Classified DEF Judged, a
<1>. QED BY <1>1, <1>7, <1>8, <1>9 DEF item, a

LEMMA SendArrives ==
  ASSUME LedgerTypeOK, phase = "idle",
         NEW m \in MessageSet, NEW effect, LedgerStep(m, effect), Send(m, effect)
  PROVE  Arrives(Item(m))
<1>. DEFINE item == Item(m)
            a == item.activity
            read == EffectOf(a)
            misread == IF read = effect THEN {} ELSE {read.nft, effect.nft} \ {NoValue}
<1>1. /\ item \in ItemSet /\ WellRead(item) /\ Judged(item) /\ item.id = sent + 1
      /\ a = ParseNftTransaction(m) /\ item.taxon = m.taxon
  BY ItemType
<1>2. /\ sent' = sent + 1
      /\ \/ /\ queue' = Append(queue, item) /\ late' = late
            /\ excused' = excused \cup misread \cup OvertakenToken(item)
         \/ /\ queue' = queue /\ late' = late \cup {item}
            /\ excused' = excused \cup misread
      /\ UNCHANGED <<tables, open, phase, chunk, tasks, reported, notified, failures>>
  BY DEF Send
<1>3. a \in ActivitySet /\ a.token \in Maybe(Nft) BY <1>1, Parsed DEF ActivitySet
<1>4. read.nft \in Maybe(Nft) /\ effect.nft \in Maybe(Nft)
  <2>1. effect.nft \in Maybe(Nft) BY DEF LedgerStep, Effect, NoEffect, Maybe
  <2>2. CASE Nft = {} 
    <3>1. a.token = NoValue BY <1>3, <2>2 DEF Maybe
    <3>. QED BY <3>1, <2>1 DEF EffectOf, Effect, NoEffect, Maybe
  <2>3. CASE Nft # {} BY <1>3, <2>1, <2>3, EffectRead
  <2>. QED BY <2>2, <2>3
<1>5. /\ owner \in [Nft -> Maybe(Account)] /\ home \in [Nft -> Maybe(Collection)]
      /\ excused \in SUBSET Nft
  BY DEF LedgerTypeOK
<1>6. m.account \in Account BY DEF MessageSet
<1>7. /\ owner' \in [Nft -> Maybe(Account)] /\ home' \in [Nft -> Maybe(Collection)]
      /\ \A n \in Nft : home[n] # NoValue => home'[n] = home[n]
  BY <1>5, <1>6 DEF LedgerStep, Maybe, Collection
<1>8. OvertakenToken(item) \in SUBSET Nft
  BY <1>3 DEF OvertakenToken, Maybe
<1>9. excused' \in SUBSET Nft /\ excused \subseteq excused' /\ misread \subseteq excused'
  BY <1>2, <1>4, <1>5, <1>8 DEF Maybe
<1>10. queue' = Append(queue, item) /\ late' = late /\ Overtaken(item)
         /\ excused' = excused \cup misread \cup OvertakenToken(item)
       => item.activity.token \in Maybe(excused')
  BY DEF OvertakenToken, Maybe
<1>11. ASSUME NEW n \in Nft \ excused' PROVE Tells(item, n)
  <2>1. n # NoValue BY MessageAssumption
  <2>2. read # effect => n # read.nft /\ n # effect.nft BY <1>9, <2>1
  <2>3. effect.nft # n => owner'[n] = owner[n] /\ home'[n] = home[n]
    BY <1>5 DEF LedgerStep, Effect
  <2>4. CASE a.token # n
    <3>1. effect.nft # n
      <4>1. read.nft # n BY <1>3, <2>1, <2>4 DEF EffectOf, Effect, NoEffect
      <4>. QED BY <4>1, <2>2
    <3>. QED BY <2>3, <2>4, <3>1 DEF Tells
  <2>5. CASE a.token = n /\ a.type \in {"mint", "offer_accepted", "burn"}
    <3>1. read.nft = n BY <1>3, <2>5, EffectRead DEF Effect
    <3>2. read = effect BY <2>2, <3>1
    <3>3. CASE a.type = "mint"
      <4>1. effect = Effect("mint", n, a.to) BY <1>3, <2>5, <3>2, <3>3, EffectRead
      <4>2. m.type = "NFTokenMint"
        BY <1>1, <3>3, Parsed DEF MessageSet, LedgerType
      <4>3. a.from = m.account BY <1>1, <4>2, Parsed
      <4>4. /\ a.to = m.account /\ home[n] = NoValue
            /\ home'[n] = <<m.account, m.taxon>> /\ owner'[n] = m.account
        BY <1>5, <4>1 DEF LedgerStep, Effect, NoEffect
      <4>. QED BY <1>1, <2>5, <3>3, <4>3, <4>4 DEF Tells
    <3>4. CASE a.type = "offer_accepted"
      <4>1. effect = Effect("move", n, a.to) BY <1>3, <2>5, <3>2, <3>4, EffectRead
      <4>2. owner[n] # NoValue /\ home'[n] = home[n] /\ owner'[n] = a.to
        BY <1>5, <4>1 DEF LedgerStep, Effect, NoEffect
      <4>. QED BY <2>5, <3>4, <4>2 DEF Tells
    <3>5. CASE a.type = "burn"
      <4>1. effect = Effect("burn", n, NoValue) BY <1>3, <2>5, <3>2, <3>5, EffectRead
      <4>2. owner[n] # NoValue /\ home'[n] = home[n] /\ owner'[n] = NoValue
        BY <1>5, <4>1 DEF LedgerStep, Effect, NoEffect
      <4>. QED BY <2>5, <3>5, <4>2 DEF Tells
    <3>. QED BY <2>5, <3>3, <3>4, <3>5
  <2>6. CASE a.token = n /\ a.type \notin {"mint", "offer_accepted", "burn"}
    <3>1. m.type = "NFTokenCreateOffer"
      BY <1>1, <2>1, <2>6, Parsed DEF MessageSet, LedgerType
    <3>2. a.type = "offer_created" /\ a.token = m.nft BY <1>1, <3>1, Parsed
    <3>3. owner[n] # NoValue BY <2>6, <3>1, <3>2 DEF LedgerStep
    <3>4. effect.nft # n
      <4>1. read = NoEffect BY <2>6 DEF EffectOf
      <4>2. read.nft # n BY <2>1, <4>1 DEF NoEffect, Effect
      <4>. QED BY <2>2, <4>2
    <3>. QED BY <2>3, <2>6, <3>2, <3>3, <3>4 DEF Tells
  <2>. QED BY <2>4, <2>5, <2>6
<1>12. Arrives(item)
  <2>. HIDE DEF item, misread
  <2>. QED BY <1>1, <1>2, <1>7, <1>9, <1>10, <1>11 DEF Arrives
<1>. QED BY <1>12

LEMMA NodeFacts ==
  /\ PageCreated \in Node /\ OtherNode \in Node
  /\ \A held, kept \in SUBSET Nft :
       PageModified(held, kept) \in Node /\ PageModified(NoValue, kept) \in Node
  /\ \A n \in Nft : OfferCreated(n) \in Node
  /\ \A n \in Nft, sell \in BOOLEAN, a \in Account, amount \in Maybe(Price) :
       OfferDeleted(n, sell, a, amount) \in Node
<1>1. /\ PageCreated \in Node /\ OtherNode \in Node
      /\ \A n \in Nft : OfferCreated(n) \in Node
  BY DEF Node
<1>2. \A held, kept \in SUBSET Nft :
        PageModified(held, kept) \in Node /\ PageModified(NoValue, kept) \in Node
  BY DEF Node, Maybe
<1>3. ASSUME NEW n \in Nft, NEW sell \in BOOLEAN, NEW a \in Account, NEW amount \in Maybe(Price)
      PROVE  OfferDeleted(n, sell, a, amount) \in Node
  <2>. DEFINE v == <<n, sell, a, amount>>
  <2>1. v \in Nft \X BOOLEAN \X Account \X Maybe(Price) OBVIOUS
  <2>2. OfferDeleted(n, sell, a, amount) = OfferDeleted(v[1], v[2], v[3], v[4]) OBVIOUS
  <2>. HIDE DEF v
  <2>. QED BY <2>1, <2>2 DEF Node
<1>. QED BY <1>1, <1>2, <1>3

LEMMA MessageType ==
  ASSUME NEW type \in LedgerType, NEW a \in Account, NEW nodes \in Seq(Node)
  PROVE  Message(type, a, nodes) \in MessageSet
<1>1. /\ Wrapped \in BOOLEAN /\ NoValue \in Maybe(Price) /\ NoValue \in Maybe(Nft)
      /\ NoValue \in Maybe(Taxon) /\ NoValue \in {NoValue} /\ "tesSUCCESS" \in ResultCode
  BY StoreAssumption DEF Maybe, ResultCode
<1>. QED BY <1>1 DEF Message, MessageSet

\* A page of tokens of the store, and the nodes of a mint.
LEMMA MintNodesType ==
  ASSUME NEW n \in Nft, NEW a, NEW nodes \in MintNodes(n, a)
  PROVE  nodes \in Seq(Node)
<1>. DEFINE held == Held(a)
<1>1. held \in SUBSET Nft /\ held \cup {n} \in SUBSET Nft BY DEF Held
<1>2. \/ nodes = <<PageCreated>>
      \/ nodes = <<PageModified(held, held \cup {n})>>
      \/ nodes = <<PageCreated, PageModified(NoValue, held)>>
      \/ \E kept \in SUBSET (held \cup {n}) : nodes = <<PageCreated, PageModified(held, kept)>>
  BY DEF MintNodes
<1>. HIDE DEF held
<1>3. CASE nodes = <<PageCreated>> BY <1>3, NodeFacts
<1>4. CASE nodes = <<PageModified(held, held \cup {n})>> BY <1>1, <1>4, NodeFacts
<1>5. CASE nodes = <<PageCreated, PageModified(NoValue, held)>> BY <1>1, <1>5, NodeFacts
<1>6. CASE \E kept \in SUBSET (held \cup {n}) :
             nodes = <<PageCreated, PageModified(held, kept)>>
  <2>1. PICK kept \in SUBSET (held \cup {n}) :
          nodes = <<PageCreated, PageModified(held, kept)>> BY <1>6
  <2>2. kept \in SUBSET Nft BY <1>1, <2>1
  <2>. QED BY <1>1, <2>1, <2>2, NodeFacts
<1>. QED BY <1>2, <1>3, <1>4, <1>5, <1>6

\* Every step of the ledger is an arrival.
LEMMA LedgerArrives ==
  ASSUME LedgerTypeOK, Mint \/ Accept \/ Burn \/ Fail \/ Offer
  PROVE  \E item : Arrives(item)
<1>. USE DEF MaySend
<1>1. /\ owner \in [Nft -> Maybe(Account)] /\ home \in [Nft -> Maybe(Collection)]
  BY DEF LedgerTypeOK
<1>2. \A n \in Nft : owner[n] # NoValue => owner[n] \in Account BY <1>1 DEF Maybe
<1>3. CASE Mint
  <2>1. phase = "idle" BY <1>3 DEF Mint
  <2>2. PICK n \in Nft, a \in Minter, taxon \in Taxon, named \in BOOLEAN :
          /\ home[n] = NoValue
          /\ home' = [home EXCEPT ![n] = <<a, taxon>>]
          /\ owner' = [owner EXCEPT ![n] = a]
          /\ \E nodes \in MintNodes(n, a) :
               Send([Message("NFTokenMint", a, nodes) EXCEPT
                       !.taxon = taxon, !.nftokenId = IF named THEN n ELSE NoValue],
                    Effect("mint", n, a))
    BY <1>3 DEF Mint
  <2>3. PICK nodes \in MintNodes(n, a) :
          Send([Message("NFTokenMint", a, nodes) EXCEPT
                  !.taxon = taxon, !.nftokenId = IF named THEN n ELSE NoValue],
               Effect("mint", n, a))
    BY <2>2
  <2>. DEFINE plain == Message("NFTokenMint", a, nodes)
              id    == IF named THEN n ELSE NoValue
              m     == [plain EXCEPT !.taxon = taxon, !.nftokenId = id]
  <2>4. a \in Account BY StoreAssumption
  <2>5. plain \in MessageSet BY <2>4, MintNodesType, MessageType DEF LedgerType
  <2>6. id \in Maybe(Nft) BY DEF Maybe
  <2>7. plain.type = "NFTokenMint" /\ plain.account = a BY DEF Message
  <2>. HIDE DEF plain, id
  <2>8. /\ m \in MessageSet /\ m.type = "NFTokenMint" /\ m.account = a /\ m.taxon = taxon
    BY <2>5, <2>6, <2>7 DEF MessageSet, Maybe
  <2>9. Send(m, Effect("mint", n, a)) BY <2>3 DEF plain, id
  <2>. HIDE DEF m
  <2>10. LedgerStep(m, Effect("mint", n, a)) BY <2>2, <2>8 DEF LedgerStep
  <2>. QED BY <2>1, <2>8, <2>9, <2>10, SendArrives
<1>4. CASE Accept
  <2>1. phase = "idle" BY <1>4 DEF Accept
  <2>2. PICK n \in Nft, seller \in Trader, buyer \in Trader :
          /\ owner[n] = seller
          /\ owner' = [owner EXCEPT ![n] = buyer] /\ home' = home
          /\ \E amount \in Price, account \in Account :
               LET sell  == OfferDeleted(n, TRUE, seller, amount)
                   buy   == OfferDeleted(n, FALSE, buyer, amount)
                   nodes == IF account = buyer THEN {<<sell>>}
                            ELSE IF account = seller THEN {<<buy>>}
                            ELSE {<<sell, buy>>, <<buy, sell>>}
               IN \E consumed \in nodes :
                    Send(Message("NFTokenAcceptOffer", account, consumed),
                         Effect("move", n, buyer))
    BY <1>4 DEF Accept
  <2>3. PICK amount \in Price, account \in Account :
               LET sell  == OfferDeleted(n, TRUE, seller, amount)
                   buy   == OfferDeleted(n, FALSE, buyer, amount)
                   nodes == IF account = buyer THEN {<<sell>>}
                            ELSE IF account = seller THEN {<<buy>>}
                            ELSE {<<sell, buy>>, <<buy, sell>>}
               IN \E consumed \in nodes :
                    Send(Message("NFTokenAcceptOffer", account, consumed),
                         Effect("move", n, buyer))
    BY <2>2
  <2>. DEFINE sell  == OfferDeleted(n, TRUE, seller, amount)
              buy   == OfferDeleted(n, FALSE, buyer, amount)
  <2>4. seller \in Account /\ buyer \in Account BY StoreAssumption
  <2>5. sell \in Node /\ buy \in Node BY <2>4, NodeFacts DEF Maybe
  <2>6. PICK consumed \in {<<sell>>, <<buy>>, <<sell, buy>>, <<buy, sell>>} :
          Send(Message("NFTokenAcceptOffer", account, consumed), Effect("move", n, buyer))
    BY <2>3
  <2>. HIDE DEF sell, buy
  <2>7. consumed \in Seq(Node)
    <3>1. <<sell>> \in Seq(Node) /\ <<buy>> \in Seq(Node) BY <2>5
    <3>2. <<sell, buy>> \in Seq(Node) /\ <<buy, sell>> \in Seq(Node) BY <2>5
    <3>. QED BY <2>6, <3>1, <3>2
  <2>. DEFINE m == Message("NFTokenAcceptOffer", account, consumed)
  <2>8. m \in MessageSet BY <2>7, MessageType DEF LedgerType
  <2>9. m.type = "NFTokenAcceptOffer" BY DEF Message
  <2>10. owner[n] # NoValue BY <2>2, <2>4, MessageAssumption
  <2>11. Send(m, Effect("move", n, buyer)) BY <2>6
  <2>. HIDE DEF m
  <2>12. LedgerStep(m, Effect("move", n, buyer)) BY <2>2, <2>4, <2>9, <2>10 DEF LedgerStep
  <2>. QED BY <2>1, <2>8, <2>11, <2>12, SendArrives
<1>5. CASE Burn
  <2>1. phase = "idle" BY <1>5 DEF Burn
  <2>2. PICK n \in Nft :
          /\ owner[n] # NoValue
          /\ owner' = [owner EXCEPT ![n] = NoValue] /\ home' = home
          /\ Send([Message("NFTokenBurn", owner[n], <<OtherNode>>) EXCEPT !.nft = n],
                  Effect("burn", n, NoValue))
    BY <1>5 DEF Burn
  <2>. DEFINE plain == Message("NFTokenBurn", owner[n], <<OtherNode>>)
              m     == [plain EXCEPT !.nft = n]
  <2>0. owner[n] \in Account /\ <<OtherNode>> \in Seq(Node) BY <1>2, <2>2, NodeFacts
  <2>3. plain \in MessageSet BY <2>0, MessageType DEF LedgerType
  <2>4. plain.type = "NFTokenBurn" BY DEF Message
  <2>. HIDE DEF plain
  <2>5. m \in MessageSet /\ m.type = "NFTokenBurn" BY <2>3, <2>4 DEF MessageSet, Maybe
  <2>6. Send(m, Effect("burn", n, NoValue)) BY <2>2 DEF plain
  <2>. HIDE DEF m
  <2>7. LedgerStep(m, Effect("burn", n, NoValue)) BY <2>2, <2>5 DEF LedgerStep
  <2>. QED BY <2>1, <2>5, <2>6, <2>7, SendArrives
<1>6. CASE Fail
  <2>1. phase = "idle" /\ owner' = owner /\ home' = home BY <1>6 DEF Fail
  <2>2. PICK n \in Nft, type \in {"NFTokenMint", "NFTokenBurn", "NFTokenAcceptOffer"} :
          /\ home[n] # NoValue
          /\ Send([Message(type, home[n][1], <<OtherNode>>) EXCEPT
                     !.nft = IF type = "NFTokenBurn" THEN n ELSE NoValue,
                     !.result = "tecNO_PERMISSION"], NoEffect)
    BY <1>6 DEF Fail
  <2>. DEFINE nodes == <<OtherNode>>
              plain == Message(type, home[n][1], nodes)
              token == IF type = "NFTokenBurn" THEN n ELSE NoValue
              m     == [plain EXCEPT !.nft = token, !.result = "tecNO_PERMISSION"]
  <2>3. home[n][1] \in Account BY <1>1, <2>2 DEF Maybe, Collection
  <2>4. nodes \in Seq(Node) BY NodeFacts
  <2>5. plain \in MessageSet BY <2>3, <2>4, MessageType DEF LedgerType
  <2>6. token \in Maybe(Nft) BY DEF Maybe
  <2>7. plain.type = type /\ plain.nodes = nodes /\ plain.nftokenId = NoValue
    BY DEF Message
  <2>. HIDE DEF plain, token
  <2>8. /\ m \in MessageSet /\ m.type = type /\ m.nodes = nodes /\ m.nftokenId = NoValue
    <3>1. "tecNO_PERMISSION" \in ResultCode BY DEF ResultCode
    <3>. QED BY <2>5, <2>6, <2>7, <3>1 DEF MessageSet
  <2>9. Send(m, NoEffect) BY <2>2 DEF plain, token
  <2>. HIDE DEF m
  <2>10. \A i \in DOMAIN nodes : NodeToken(nodes[i]) = NoValue
    BY DEF NodeToken, OtherNode
  <2>. HIDE DEF nodes
  <2>11. m.type = "NFTokenMint" => ExtractNftTokenId(m) = NoValue
    BY <2>8, <2>10 DEF ExtractNftTokenId
  <2>12. m.type # "NFTokenCreateOffer" BY <2>8
  <2>13. LedgerStep(m, NoEffect) BY <2>1, <2>11, <2>12 DEF LedgerStep
  <2>. QED BY <2>1, <2>8, <2>9, <2>13, SendArrives
<1>7. CASE Offer
  <2>1. phase = "idle" /\ owner' = owner /\ home' = home BY <1>7 DEF Offer
  <2>2. PICK n \in Nft :
          /\ owner[n] # NoValue
          /\ \/ \E amount \in Price :
                  Send([Message("NFTokenCreateOffer", owner[n], <<OfferCreated(n)>>) EXCEPT
                          !.nft = n, !.amount = amount], NoEffect)
             \/ Send(Message("NFTokenCancelOffer", owner[n],
                             <<OfferDeleted(n, TRUE, owner[n], NoValue)>>), NoEffect)
    BY <1>7 DEF Offer
  <2>3. owner[n] \in Account BY <1>2, <2>2
  <2>4. CASE \E amount \in Price :
               Send([Message("NFTokenCreateOffer", owner[n], <<OfferCreated(n)>>) EXCEPT
                       !.nft = n, !.amount = amount], NoEffect)
    <3>1. PICK amount \in Price :
            Send([Message("NFTokenCreateOffer", owner[n], <<OfferCreated(n)>>) EXCEPT
                    !.nft = n, !.amount = amount], NoEffect)
      BY <2>4
    <3>. DEFINE plain == Message("NFTokenCreateOffer", owner[n], <<OfferCreated(n)>>)
                m     == [plain EXCEPT !.nft = n, !.amount = amount]
    <3>0. <<OfferCreated(n)>> \in Seq(Node) BY NodeFacts
    <3>2. plain \in MessageSet BY <2>3, <3>0, MessageType DEF LedgerType
    <3>3. plain.type = "NFTokenCreateOffer" BY DEF Message
    <3>. HIDE DEF plain
    <3>4. m \in MessageSet /\ m.type = "NFTokenCreateOffer" /\ m.nft = n
      BY <3>2, <3>3 DEF MessageSet, Maybe
    <3>5. Send(m, NoEffect) BY <3>1 DEF plain
    <3>. HIDE DEF m
    <3>6. LedgerStep(m, NoEffect) BY <2>1, <2>2, <3>4 DEF LedgerStep
    <3>. QED BY <2>1, <3>4, <3>5, <3>6, SendArrives
  <2>5. CASE Send(Message("NFTokenCancelOffer", owner[n],
                          <<OfferDeleted(n, TRUE, owner[n], NoValue)>>), NoEffect)
    <3>. DEFINE node == OfferDeleted(n, TRUE, owner[n], NoValue)
                m    == Message("NFTokenCancelOffer", owner[n], <<node>>)
    <3>1. node \in Node BY <2>3, NodeFacts DEF Maybe
    <3>. HIDE DEF node
    <3>0. <<node>> \in Seq(Node) BY <3>1
    <3>2. m \in MessageSet BY <2>3, <3>0, MessageType DEF LedgerType
    <3>3. m.type = "NFTokenCancelOffer" BY DEF Message
    <3>4. Send(m, NoEffect) BY <2>5 DEF node
    <3>. HIDE DEF m
    <3>5. LedgerStep(m, NoEffect) BY <2>1, <3>3 DEF LedgerStep
    <3>. QED BY <2>1, <3>2, <3>4, <3>5, SendArrives
  <2>. QED BY <2>2, <2>4, <2>5
<1>. QED BY <1>3, <1>4, <1>5, <1>6, <1>7

-----------------------------------------------------------------------------
(* The types, and where the batch is.                                      *)

\* The end of a chunk.
LEMMA ChunkFacts ==
  ASSUME queue \in Seq(ItemSet), start \in Nat \ {0}, start <= Len(queue)
  PROVE  /\ Len(queue) \in Nat /\ ChunkEnd \in Nat
         /\ start <= ChunkEnd /\ ChunkEnd <= Len(queue)
         /\ ChunkEnd = Len(queue) => Len(queue) < start + ChunkSize
         /\ ChunkEnd # Len(queue) =>
              ChunkEnd + 1 = start + ChunkSize /\ start + ChunkSize <= Len(queue)
         /\ start + ChunkSize \in Nat \ {0}
<1>1. ChunkSize \in Nat \ {0} BY StoreAssumption
<1>2. Len(queue) \in Nat OBVIOUS
<1>. QED BY <1>1, <1>2 DEF ChunkEnd

\* The message the first pass is at.
LEMMA CurrentFacts ==
  ASSUME TypeInv, phase = "first", next <= ChunkEnd
  PROVE  /\ next \in 1..Len(queue) /\ queue[next] \in ItemSet /\ WellRead(queue[next])
         /\ queue[next] \in Batch
         /\ Current = queue[next].activity /\ Current \in ActivitySet
         /\ Current.token \in Maybe(Nft) /\ draft \in Tables /\ draft.nfts \in NftTable
<1>1. /\ queue \in Seq(ItemSet) /\ start \in Nat \ {0} /\ start <= Len(queue)
      /\ next \in Nat \ {0} /\ draft \in Tables
  BY DEF TypeInv, LedgerTypeOK, StoreTypeOK, Positions
<1>2. next \in 1..Len(queue) BY <1>1, ChunkFacts
<1>3. queue[next] \in ItemSet /\ queue[next] \in Batch BY <1>1, <1>2 DEF Batch
<1>4. WellRead(queue[next]) BY <1>3 DEF TypeInv, LedgerTypeOK
<1>5. Current = queue[next].activity BY DEF Current
<1>6. Current \in ActivitySet BY <1>3, <1>5 DEF ItemSet
<1>7. Current.token \in Maybe(Nft) BY <1>6 DEF ActivitySet
<1>. QED BY <1>1, <1>2, <1>3, <1>4, <1>5, <1>6, <1>7 DEF Tables

\* The row of a new token; nothing else of the transaction changes.
NewRow(known) ==
  [owner |-> Current.to, traits |-> NoValue,
   collection |-> IF known THEN <<Current.from, queue[next].taxon>> ELSE NoValue]

LEMMA CreateFacts ==
  ASSUME TypeInv, CreateNewNft
  PROVE  \E collection \in Collection, known \in BOOLEAN :
           /\ collection = <<Current.from, queue[next].taxon>>
           /\ known = (collection \in draft.collections)
           /\ Current.token \in Nft /\ Current.type = "mint"
           /\ draft.nfts[Current.token] = NoValue
           /\ NewRow(known) \in NftRow
           /\ draft' \in Tables
           /\ draft'.collections = draft.collections
           /\ draft'.activities = draft.activities
           /\ draft'.nfts = [draft.nfts EXCEPT ![Current.token] = NewRow(known)]
           /\ toCreate' = IF known THEN toCreate ELSE toCreate \cup {collection}
<1>. DEFINE collection == <<Current.from, queue[next].taxon>>
            known == collection \in draft.collections
            token == Current.token
            row == NewRow(known)
<1>1. /\ phase = "first" /\ next <= ChunkEnd /\ ~ aborted
      /\ Current.type = "mint" /\ token # NoValue /\ ~ Known(token)
      /\ draft' = [draft EXCEPT !.nfts[token] = row]
      /\ toCreate' = IF known THEN toCreate ELSE toCreate \cup {collection}
  BY DEF CreateNewNft, Pass, NewRow
<1>2. /\ WellRead(queue[next]) /\ Current = queue[next].activity
      /\ token \in Nft /\ draft \in Tables /\ draft.nfts \in NftTable
  BY <1>1, CurrentFacts DEF Maybe
<1>3. Current.from \in Account /\ queue[next].taxon \in Taxon /\ Current.to \in Account
  BY <1>1, <1>2 DEF WellRead
<1>4. collection \in Collection BY <1>3 DEF Collection
<1>5. row \in NftRow BY <1>3, <1>4 DEF NewRow, NftRow
<1>6. draft.nfts[token] = NoValue BY <1>1 DEF Known
<1>. HIDE DEF row, token
<1>7. /\ draft' \in Tables
      /\ draft'.collections = draft.collections
      /\ draft'.activities = draft.activities
      /\ draft'.nfts = [draft.nfts EXCEPT ![token] = row]
  BY <1>1, <1>2, <1>5 DEF Tables, NftTable, Maybe
<1>8. known \in BOOLEAN OBVIOUS
<1>. QED BY <1>1, <1>2, <1>4, <1>5, <1>6, <1>7, <1>8 DEF row, token

\* The write of collections and owners.
LEMMA WriteFacts ==
  ASSUME TypeInv, WriteCollectionsAndNfts
  PROVE  /\ draft \in Tables /\ draft' \in Tables
         /\ draft'.collections = draft.collections \cup toCreate
         /\ draft'.activities = draft.activities
         /\ \A n \in Nft : draft'.nfts[n] = NoValue <=> draft.nfts[n] = NoValue
         /\ \A n \in Nft : draft.nfts[n] # NoValue =>
              /\ draft'.nfts[n].collection = draft.nfts[n].collection
              /\ draft'.nfts[n].owner =
                   IF toUpdate[n] \in Account THEN toUpdate[n] ELSE draft.nfts[n].owner
<1>1. /\ phase = "first"
      /\ draft' = [draft EXCEPT !.collections = draft.collections \cup toCreate,
                                !.nfts = Updated(draft.nfts)]
  BY DEF WriteCollectionsAndNfts, AfterFirstPass
<1>2. /\ draft \in Tables /\ toCreate \in SUBSET Collection
      /\ toUpdate \in [Nft -> Account \cup {"none", "touch"}]
      /\ \A n \in Nft : draft.nfts[n] = NoValue => toUpdate[n] = "none"
  BY <1>1 DEF TypeInv, StoreTypeOK
<1>3. draft.nfts \in NftTable /\ draft.collections \in SUBSET Collection BY <1>2 DEF Tables
<1>. DEFINE rows == Updated(draft.nfts)
<1>4. ASSUME NEW n \in Nft
      PROVE  /\ rows[n] \in Maybe(NftRow)
             /\ rows[n] = NoValue <=> draft.nfts[n] = NoValue
             /\ draft.nfts[n] # NoValue =>
                  /\ rows[n].collection = draft.nfts[n].collection
                  /\ rows[n].owner =
                       IF toUpdate[n] \in Account THEN toUpdate[n] ELSE draft.nfts[n].owner
  <2>1. rows[n] = IF toUpdate[n] \in Account THEN [draft.nfts[n] EXCEPT !.owner = toUpdate[n]]
                  ELSE draft.nfts[n]
    BY DEF Updated
  <2>2. draft.nfts[n] \in Maybe(NftRow) BY <1>3 DEF NftTable
  <2>3. NoValue \notin NftRow /\ "none" \notin Account BY StoreAssumption
  <2>. HIDE DEF rows
  <2>4. CASE draft.nfts[n] = NoValue BY <1>2, <2>1, <2>2, <2>3, <2>4
  <2>5. CASE draft.nfts[n] # NoValue /\ toUpdate[n] \in Account
    <3>1. draft.nfts[n] \in NftRow BY <2>2, <2>5 DEF Maybe
    <3>2. rows[n] = [draft.nfts[n] EXCEPT !.owner = toUpdate[n]] BY <2>1, <2>5
    <3>3. /\ rows[n] \in NftRow
          /\ rows[n].collection = draft.nfts[n].collection /\ rows[n].owner = toUpdate[n]
      BY <2>5, <3>1, <3>2 DEF NftRow
    <3>. QED BY <2>3, <2>5, <3>3 DEF Maybe
  <2>6. CASE draft.nfts[n] # NoValue /\ toUpdate[n] \notin Account
    BY <2>1, <2>2, <2>6
  <2>. QED BY <2>4, <2>5, <2>6
<1>5. rows \in NftTable BY <1>4 DEF NftTable, Updated
<1>. HIDE DEF rows
<1>6. /\ draft' \in Tables
      /\ draft'.collections = draft.collections \cup toCreate
      /\ draft'.activities = draft.activities
      /\ draft'.nfts = rows
  BY <1>1, <1>2, <1>3, <1>5 DEF Tables, rows
<1>. QED BY <1>2, <1>4, <1>6

\* The rows of a chunk.
LEMMA SaveFacts ==
  ASSUME TypeInv, SaveActivities
  PROVE  /\ draft \in Tables /\ draft' \in Tables
         /\ draft'.collections = draft.collections
         /\ draft'.nfts = draft.nfts
         /\ draft'.activities = draft.activities \cup {Row(item) : item \in Chunk}
         /\ Chunk \subseteq Batch /\ Ids(Chunk) \in SUBSET Nat
<1>1. /\ phase = "second"
      /\ draft' = [draft EXCEPT !.activities =
                     draft.activities \cup {Row(item) : item \in Chunk}]
  BY DEF SaveActivities
<1>2. /\ draft \in Tables /\ queue \in Seq(ItemSet) /\ start \in Nat \ {0}
      /\ start <= Len(queue)
  BY <1>1 DEF TypeInv, LedgerTypeOK, StoreTypeOK, Positions
<1>3. Chunk \subseteq Batch
  BY <1>2, ChunkFacts DEF Chunk, Batch
<1>4. Batch \subseteq ItemSet BY <1>2 DEF Batch
<1>5. Ids(Chunk) \in SUBSET Nat BY <1>3, <1>4 DEF Ids, ItemSet
<1>6. ASSUME NEW item \in Chunk PROVE Row(item) \in RowSet
  <2>1. item \in ItemSet BY <1>3, <1>4
  <2>2. item.id \in Nat /\ item.activity \in ActivitySet BY <2>1 DEF ItemSet
  <2>3. /\ item.activity.type \in ActivityType \ {"sale"} /\ item.activity.token \in Maybe(Nft)
        /\ item.activity.price \in Maybe(Price)
    BY <2>2 DEF ActivitySet
  <2>. DEFINE token == IF Known(item.activity.token) THEN item.activity.token ELSE NoValue
  <2>4. token \in Maybe(Nft) BY <2>3 DEF Maybe
  <2>5. Row(item) = [id |-> item.id, type |-> item.activity.type,
                     price |-> item.activity.price, nft |-> token]
    BY DEF Row
  <2>. HIDE DEF token
  <2>. QED BY <2>2, <2>3, <2>4, <2>5 DEF RowSet
<1>. DEFINE rows == draft.activities \cup {Row(item) : item \in Chunk}
<1>7. rows \in SUBSET RowSet BY <1>2, <1>6 DEF Tables
<1>. HIDE DEF rows
<1>8. draft' = [draft EXCEPT !.activities = rows] BY <1>1 DEF rows
<1>9. /\ draft' \in Tables /\ draft'.collections = draft.collections
      /\ draft'.nfts = draft.nfts /\ draft'.activities = rows
  BY <1>2, <1>7, <1>8 DEF Tables
<1>. QED BY <1>2, <1>3, <1>5, <1>9 DEF rows

\* A message joins the batch.
LEMMA BatchAppend ==
  ASSUME queue \in Seq(ItemSet), NEW item \in ItemSet, queue' = Append(queue, item)
  PROVE  /\ queue' \in Seq(ItemSet) /\ Len(queue) \in Nat /\ Len(queue') = Len(queue) + 1
         /\ \A i \in 1..Len(queue) : queue'[i] = queue[i]
         /\ queue'[Len(queue) + 1] = item
         /\ Batch' = Batch \cup {item}
<1>1. /\ queue' \in Seq(ItemSet) /\ Len(queue) \in Nat /\ Len(queue') = Len(queue) + 1
      /\ \A i \in 1..Len(queue) : queue'[i] = queue[i]
      /\ queue'[Len(queue) + 1] = item
  OBVIOUS
<1>2. \A i : i \in 1..Len(queue') <=> i \in 1..Len(queue) \/ i = Len(queue) + 1 BY <1>1
<1>3. Batch' = Batch \cup {item} BY <1>1, <1>2 DEF Batch
<1>. QED BY <1>1, <1>3

LEMMA BatchTyped ==
  ASSUME queue \in Seq(ItemSet)
  PROVE  Batch \subseteq ItemSet /\ Len(queue) \in Nat
BY DEF Batch

LEMMA TypeInit == Init => TypeInv
<1>. SUFFICES ASSUME Init PROVE TypeInv OBVIOUS
<1>. USE DEF Init
<1>1. queue \in Seq(ItemSet) /\ Len(queue) = 0 OBVIOUS
<1>2. Batch = {} /\ late = {} BY <1>1 DEF Batch
<1>3. LedgerTypeOK BY <1>1, <1>2 DEF LedgerTypeOK, Maybe
<1>4. StoreTypeOK BY DEF StoreTypeOK, NftTable, Maybe, NoUpdate
<1>5. Positions BY DEF Positions
<1>. QED BY <1>3, <1>4, <1>5 DEF TypeInv

\* The types and positions before the first chunk of a batch, and of an idle store.
LEMMA IdleStays ==
  ASSUME TypeInv, LedgerTypeOK', phase = "idle", phase' = "idle", UNCHANGED <<chunk, aborted>>,
         collections' \in SUBSET Collection, nfts' \in NftTable, activities' \in SUBSET RowSet,
         tasks' \in SUBSET (SUBSET Nat), notified' \in SUBSET (Nat \X Alert)
  PROVE  TypeInv'
<1>1. StoreTypeOK' BY DEF TypeInv, StoreTypeOK, chunk
<1>2. Positions' BY DEF TypeInv, Positions, chunk, NoUpdate
<1>. QED BY <1>1, <1>2 DEF TypeInv

LEMMA LedgerTypeSame ==
  ASSUME LedgerTypeOK, UNCHANGED ledger
  PROVE  LedgerTypeOK' /\ Batch' = Batch /\ Len(queue)' = Len(queue)
BY DEF LedgerTypeOK, ledger, Batch

\* One message of the first pass.
LEMMA PassPositions ==
  ASSUME TypeInv, Pass
  PROVE  LedgerTypeOK' /\ (toUpdate' = toUpdate \/ toUpdate' # toUpdate) /\ Positions'
<1>1. /\ phase = "first" /\ next <= ChunkEnd /\ next' = next + 1
      /\ phase' = "first" /\ start' = start /\ queue' = queue /\ UNCHANGED ledger
  BY DEF Pass, ledger
<1>2. /\ queue \in Seq(ItemSet) /\ start \in Nat \ {0} /\ next \in Nat \ {0}
      /\ start <= Len(queue) /\ start <= next
  BY <1>1 DEF TypeInv, LedgerTypeOK, Positions
<1>3. ChunkEnd \in Nat /\ Len(queue) \in Nat BY <1>2, ChunkFacts
<1>4. ChunkEnd' = ChunkEnd BY <1>1 DEF ChunkEnd
<1>5. next' \in Nat \ {0} /\ start <= next' /\ next' <= ChunkEnd + 1 BY <1>1, <1>2, <1>3
<1>6. Positions' BY <1>1, <1>2, <1>4, <1>5 DEF Positions
<1>. QED BY <1>1, <1>6, LedgerTypeSame DEF TypeInv

\* On to the next chunk.
LEMMA AdvancePositions ==
  ASSUME TypeInv, phase = "second", Advance, queue' = queue
  PROVE  /\ Positions' /\ phase' \in {"first", "commit"}
         /\ toCreate' \in SUBSET Collection /\ toUpdate' = NoUpdate
         /\ toUpdate' \in [Nft -> Account \cup {"none", "touch"}]
<1>1. /\ queue \in Seq(ItemSet) /\ start \in Nat \ {0} /\ start <= Len(queue)
  BY DEF TypeInv, LedgerTypeOK, Positions
<1>2. /\ start' = start + ChunkSize /\ next' = start + ChunkSize
      /\ phase' = IF ChunkEnd = Len(queue) THEN "commit" ELSE "first"
      /\ toCreate' = {} /\ toUpdate' = NoUpdate
  BY DEF Advance
<1>3. /\ Len(queue) \in Nat /\ start' \in Nat \ {0}
      /\ phase' = "commit" => Len(queue) < start'
      /\ phase' = "first" => start' <= Len(queue)
  BY <1>1, <1>2, ChunkFacts
<1>4. phase' = "first" => start' <= ChunkEnd' /\ ChunkEnd' \in Nat
  <2>1. ChunkSize \in Nat \ {0} BY StoreAssumption
  <2>. SUFFICES ASSUME phase' = "first" PROVE start' <= ChunkEnd' /\ ChunkEnd' \in Nat
    OBVIOUS
  <2>2. start' \in Nat \ {0} /\ start' <= Len(queue) /\ Len(queue) \in Nat BY <1>3
  <2>3. CASE start' + ChunkSize > Len(queue)
    <3>1. ChunkEnd' = Len(queue) BY <2>3 DEF ChunkEnd
    <3>. QED BY <2>2, <3>1
  <2>4. CASE ~ start' + ChunkSize > Len(queue)
    <3>1. ChunkEnd' = start' + ChunkSize - 1 BY <2>4 DEF ChunkEnd
    <3>2. \A s, k \in Nat \ {0} : s <= s + k - 1 /\ s + k - 1 \in Nat OBVIOUS
    <3>3. start' <= start' + ChunkSize - 1 /\ start' + ChunkSize - 1 \in Nat
      BY <2>1, <2>2, <3>2
    <3>. QED BY <3>1, <3>3
  <2>. QED BY <2>3, <2>4
<1>6. phase' = "first" => start' <= next' /\ next' <= ChunkEnd' + 1
  BY <1>2, <1>3, <1>4
<1>7. Len(queue)' = Len(queue) OBVIOUS
<1>8. Positions'
  BY <1>2, <1>3, <1>6, <1>7 DEF Positions, NoUpdate
<1>9. toUpdate' \in [Nft -> Account \cup {"none", "touch"}] BY <1>2 DEF NoUpdate
<1>. QED BY <1>2, <1>8, <1>9

LEMMA ReleaseType ==
  ASSUME Release, LedgerTypeOK',
         collections' \in SUBSET Collection, nfts' \in NftTable, activities' \in SUBSET RowSet,
         tasks' \in SUBSET (SUBSET Nat), notified' \in SUBSET (Nat \X Alert)
  PROVE  TypeInv'
<1>1. StoreTypeOK' BY DEF Release, StoreTypeOK, NoUpdate
<1>2. Positions' BY DEF Release, Positions, NoUpdate
<1>. QED BY <1>1, <1>2 DEF TypeInv

\* Every step keeps the types and the positions.
LEMMA TypeStep == TypeInv /\ [Next]_vars => TypeInv'
<1>. SUFFICES ASSUME TypeInv, [Next]_vars PROVE TypeInv' OBVIOUS
<1>1. LedgerTypeOK /\ StoreTypeOK /\ Positions BY DEF TypeInv
<1>. USE DEF tables, open, chunk
<1>2. ASSUME NEW item, Arrives(item) PROVE TypeInv'
  <2>1. /\ phase = "idle" /\ item \in ItemSet /\ WellRead(item)
        /\ UNCHANGED <<tables, open, phase, chunk, tasks, reported, notified, failures>>
    BY <1>2 DEF Arrives
  <2>2. CASE queue' = Append(queue, item) /\ late' = late
    <3>1. queue' \in Seq(ItemSet) /\ Batch' = Batch \cup {item}
      BY <1>1, <2>1, <2>2, BatchAppend DEF LedgerTypeOK
    <3>2. LedgerTypeOK' BY <1>1, <1>2, <2>1, <2>2, <3>1 DEF LedgerTypeOK, Arrives
    <3>. QED BY <1>1, <2>1, <3>2, IdleStays DEF StoreTypeOK
  <2>3. CASE queue' = queue /\ late' = late \cup {item}
    <3>1. Batch' = Batch BY <2>3 DEF Batch
    <3>2. LedgerTypeOK' BY <1>1, <1>2, <2>1, <2>3, <3>1 DEF LedgerTypeOK, Arrives
    <3>. QED BY <1>1, <2>1, <3>2, IdleStays DEF StoreTypeOK
  <2>. QED BY <1>2, <2>2, <2>3 DEF Arrives
<1>3. CASE Backfill
  <2>1. PICK item \in late :
          /\ phase = "idle" /\ late' = late \ {item} /\ queue' = Append(queue, item)
          /\ excused' = excused \cup OvertakenToken(item)
          /\ UNCHANGED <<owner, home, sent, tables, open, phase, chunk, tasks,
                         reported, notified, failures>>
    BY <1>3 DEF Backfill
  <2>2. item \in ItemSet /\ WellRead(item) BY <1>1, <2>1 DEF LedgerTypeOK
  <2>3. queue' \in Seq(ItemSet) /\ Batch' = Batch \cup {item}
    BY <1>1, <2>1, <2>2, BatchAppend DEF LedgerTypeOK
  <2>4. item.activity.token \in Maybe(Nft) BY <2>2 DEF ItemSet, ActivitySet
  <2>5. OvertakenToken(item) \subseteq Nft BY <2>4 DEF OvertakenToken, Maybe
  <2>6. LedgerTypeOK' BY <1>1, <2>1, <2>2, <2>3, <2>5 DEF LedgerTypeOK
  <2>. QED BY <1>1, <2>1, <2>6, IdleStays DEF StoreTypeOK
<1>4. CASE Begin
  <2>1. /\ phase = "idle" /\ queue # <<>> /\ phase' = "first" /\ draft' = Saved
        /\ UNCHANGED <<ledger, tables, aborted, chunk, tasks, reported, notified, failures>>
    BY <1>4 DEF Begin
  <2>2. LedgerTypeOK' BY <1>1, <2>1, LedgerTypeSame
  <2>3. draft' \in Tables /\ draft'.nfts = nfts BY <1>1, <2>1 DEF Saved, Tables, StoreTypeOK
  <2>4. toUpdate = NoUpdate /\ start = 1 /\ next = 1 BY <1>1, <2>1 DEF Positions
  <2>5. StoreTypeOK' BY <1>1, <2>1, <2>3, <2>4 DEF StoreTypeOK, NoUpdate
  <2>6. queue \in Seq(ItemSet) /\ Len(queue) \in Nat /\ Len(queue) # 0
    BY <1>1, <2>1 DEF LedgerTypeOK
  <2>7. ChunkEnd' = ChunkEnd BY <2>1 DEF ChunkEnd, ledger
  <2>8. start <= Len(queue) /\ start <= ChunkEnd /\ ChunkEnd \in Nat
    BY <2>4, <2>6, ChunkFacts
  <2>9. Positions' BY <1>1, <2>1, <2>4, <2>6, <2>7, <2>8 DEF Positions, ledger
  <2>. QED BY <2>2, <2>5, <2>9 DEF TypeInv
<1>5. CASE SkipNftUpdate
  <2>1. Pass /\ UNCHANGED <<open, toCreate, toUpdate>> BY <1>5 DEF SkipNftUpdate
  <2>2. StoreTypeOK' BY <1>1, <2>1 DEF StoreTypeOK, Pass
  <2>. QED BY <2>1, <2>2, PassPositions DEF TypeInv
<1>6. CASE NftUpdateFails
  <2>1. Pass /\ aborted' = TRUE /\ UNCHANGED <<draft, toCreate, toUpdate>>
    BY <1>6 DEF NftUpdateFails
  <2>2. StoreTypeOK' BY <1>1, <2>1 DEF StoreTypeOK, Pass
  <2>. QED BY <2>1, <2>2, PassPositions DEF TypeInv
<1>7. CASE CreateNewNft
  <2>1. Pass /\ UNCHANGED <<aborted, toUpdate>> BY <1>7 DEF CreateNewNft
  <2>2. PICK collection \in Collection, known \in BOOLEAN :
           /\ Current.token \in Nft
           /\ NewRow(known) \in NftRow
           /\ draft' \in Tables
           /\ draft'.nfts = [draft.nfts EXCEPT ![Current.token] = NewRow(known)]
           /\ toCreate' = IF known THEN toCreate ELSE toCreate \cup {collection}
    BY <1>7, CreateFacts
  <2>3. toCreate' \in SUBSET Collection BY <1>1, <2>2 DEF StoreTypeOK
  <2>4. phase = "first" /\ draft.nfts \in NftTable /\ NoValue \notin NftRow
    BY <1>1, <2>1, StoreAssumption DEF Pass, StoreTypeOK, Tables
  <2>5. \A n \in Nft : draft'.nfts[n] = NoValue => draft.nfts[n] = NoValue
    BY <2>2, <2>4 DEF NftTable
  <2>6. StoreTypeOK' BY <1>1, <2>1, <2>2, <2>3, <2>4, <2>5 DEF StoreTypeOK, Pass
  <2>. QED BY <2>1, <2>6, PassPositions DEF TypeInv
<1>8. CASE NoteUpdate
  <2>1. /\ Pass /\ UNCHANGED <<open, toCreate>> /\ Known(Current.token)
        /\ Current.type \in {"offer_accepted", "sale", "burn"}
        /\ toUpdate' = [toUpdate EXCEPT ![Current.token] =
                          IF Current.type = "burn" THEN "touch" ELSE Current.to]
    BY <1>8 DEF NoteUpdate
  <2>. DEFINE token == Current.token
              value == IF Current.type = "burn" THEN "touch" ELSE Current.to
  <2>2. /\ phase = "first" /\ next <= ChunkEnd BY <2>1 DEF Pass
  <2>3. /\ WellRead(queue[next]) /\ Current = queue[next].activity
        /\ Current \in ActivitySet /\ token \in Maybe(Nft)
    BY <2>2, CurrentFacts
  <2>4. token # NoValue /\ draft.nfts[token] # NoValue BY <2>1 DEF Known
  <2>5. Current.type # "sale" BY <2>3 DEF ActivitySet
  <2>6. value \in Account \cup {"touch"} BY <2>1, <2>3, <2>4, <2>5 DEF WellRead
  <2>7. token \in Nft BY <2>3, <2>4 DEF Maybe
  <2>8. toUpdate' = [toUpdate EXCEPT ![token] = value] BY <2>1
  <2>. HIDE DEF token, value
  <2>9. toUpdate' \in [Nft -> Account \cup {"none", "touch"}]
    BY <1>1, <2>6, <2>7, <2>8 DEF StoreTypeOK
  <2>10. \A n \in Nft : draft.nfts[n] = NoValue => toUpdate'[n] = "none"
    BY <1>1, <2>2, <2>4, <2>7, <2>8 DEF StoreTypeOK
  <2>11. StoreTypeOK' BY <1>1, <2>1, <2>2, <2>9, <2>10 DEF StoreTypeOK, Pass
  <2>. QED BY <2>1, <2>11, PassPositions DEF TypeInv
<1>9. CASE WriteCollectionsAndNfts
  <2>1. /\ phase = "first" /\ next > ChunkEnd /\ phase' = "second"
        /\ UNCHANGED <<ledger, tables, aborted, chunk, tasks, reported, notified, failures>>
    BY <1>9 DEF WriteCollectionsAndNfts, AfterFirstPass
  <2>2. LedgerTypeOK' /\ Len(queue)' = Len(queue) BY <1>1, <2>1, LedgerTypeSame
  <2>3. draft' \in Tables /\ \A n \in Nft : draft'.nfts[n] = NoValue <=> draft.nfts[n] = NoValue
    BY <1>9, WriteFacts
  <2>4. StoreTypeOK' BY <1>1, <2>1, <2>3 DEF StoreTypeOK
  <2>5. ChunkEnd' = ChunkEnd BY <2>1 DEF ChunkEnd, ledger
  <2>6. ChunkEnd \in Nat BY <1>1, <2>1, ChunkFacts DEF LedgerTypeOK, Positions
  <2>7. next = ChunkEnd + 1 BY <1>1, <2>1, <2>6 DEF Positions
  <2>8. Positions' BY <1>1, <2>1, <2>2, <2>5, <2>7 DEF Positions
  <2>. QED BY <2>2, <2>4, <2>8 DEF TypeInv
<1>10. CASE SaveActivities
  <2>1. /\ phase = "second" /\ Advance /\ UNCHANGED <<ledger, tables, aborted, reported, notified>>
        /\ tasks' = tasks \cup {Ids(Chunk)}
    BY <1>10 DEF SaveActivities
  <2>2. LedgerTypeOK' BY <1>1, <2>1, LedgerTypeSame
  <2>3. /\ Positions' /\ toCreate' \in SUBSET Collection /\ toUpdate' = NoUpdate
        /\ toUpdate' \in [Nft -> Account \cup {"none", "touch"}]
    BY <2>1, AdvancePositions DEF ledger
  <2>4. draft' \in Tables /\ Ids(Chunk) \in SUBSET Nat BY <1>10, SaveFacts
  <2>5. StoreTypeOK' BY <1>1, <2>1, <2>3, <2>4 DEF StoreTypeOK, NoUpdate
  <2>. QED BY <2>2, <2>3, <2>5 DEF TypeInv
<1>11. CASE LoseActivities
  <2>1. /\ phase = "second" /\ Advance /\ aborted' = TRUE
        /\ UNCHANGED <<ledger, tables, draft, tasks, reported, notified>>
    BY <1>11 DEF LoseActivities
  <2>2. LedgerTypeOK' BY <1>1, <2>1, LedgerTypeSame
  <2>3. /\ Positions' /\ toCreate' \in SUBSET Collection /\ toUpdate' = NoUpdate
        /\ toUpdate' \in [Nft -> Account \cup {"none", "touch"}]
    BY <2>1, AdvancePositions DEF ledger
  <2>4. draft \in Tables BY <1>1, <2>1 DEF StoreTypeOK
  <2>5. StoreTypeOK' BY <1>1, <2>1, <2>3, <2>4 DEF StoreTypeOK, NoUpdate
  <2>. QED BY <2>2, <2>3, <2>5 DEF TypeInv
<1>12. CASE Commit
  <2>1. /\ phase = "commit" /\ Release /\ queue' = <<>>
        /\ UNCHANGED <<owner, home, sent, late, notified, failures>>
    BY <1>12 DEF Commit
  <2>2. Batch' = {}
    <3>1. Len(queue') = 0 BY <2>1
    <3>. QED BY <3>1 DEF Batch
  <2>3. draft \in Tables BY <1>1, <2>1 DEF StoreTypeOK
  <2>4. Batch \subseteq ItemSet BY <1>1, BatchTyped DEF LedgerTypeOK
  <2>5. {item.activity.token : item \in Batch} \ {NoValue} \subseteq Nft
    BY <2>4 DEF ItemSet, ActivitySet, Maybe
  <2>6. excused' \in SUBSET Nft BY <1>1, <1>12, <2>5 DEF Commit, LedgerTypeOK
  <2>7. LedgerTypeOK' BY <1>1, <2>1, <2>2, <2>6 DEF LedgerTypeOK
  <2>8. /\ collections' \in SUBSET Collection /\ nfts' \in NftTable
        /\ activities' \in SUBSET RowSet /\ tasks' \in SUBSET (SUBSET Nat)
    BY <1>1, <1>12, <2>3 DEF Commit, StoreTypeOK, Tables, Futile
  <2>. QED BY <1>1, <2>1, <2>7, <2>8, ReleaseType DEF StoreTypeOK
<1>13. CASE BatchFails
  <2>1. /\ Release /\ tasks' = tasks \ Futile /\ UNCHANGED <<ledger, tables, reported, notified>>
    BY <1>13 DEF BatchFails, Rollback
  <2>2. LedgerTypeOK' BY <1>1, <2>1, LedgerTypeSame
  <2>3. /\ collections' \in SUBSET Collection /\ nfts' \in NftTable
        /\ activities' \in SUBSET RowSet /\ tasks' \in SUBSET (SUBSET Nat)
    BY <1>1, <2>1 DEF StoreTypeOK
  <2>. QED BY <1>1, <2>1, <2>2, <2>3, ReleaseType DEF StoreTypeOK
<1>14. CASE Enrich
  <2>1. PICK n \in Nft :
          /\ phase = "idle" /\ nfts[n] # NoValue
          /\ nfts' = [nfts EXCEPT ![n].traits = Traits(n)]
          /\ UNCHANGED <<ledger, collections, activities, open, phase, chunk, tasks,
                         reported, notified, failures>>
    BY <1>14 DEF Enrich
  <2>2. LedgerTypeOK' BY <1>1, <2>1, LedgerTypeSame
  <2>3. nfts \in NftTable /\ nfts[n] \in NftRow
    BY <1>1, <2>1 DEF StoreTypeOK, NftTable, Maybe
  <2>4. [nfts[n] EXCEPT !.traits = Traits(n)] \in NftRow BY <2>3 DEF NftRow
  <2>5. nfts' \in NftTable BY <2>1, <2>3, <2>4 DEF NftTable, Maybe
  <2>. QED BY <1>1, <2>1, <2>2, <2>5, IdleStays DEF StoreTypeOK
<1>15. CASE ProcessAlerts
  <2>1. PICK task \in tasks :
          /\ tasks' = tasks \ {task}
          /\ notified' = notified \cup Matches(Reloaded(task))
          /\ UNCHANGED <<ledger, tables, open, phase, chunk, reported, failures>>
    BY <1>15 DEF ProcessAlerts
  <2>2. LedgerTypeOK' BY <1>1, <2>1, LedgerTypeSame
  <2>3. Matches(Reloaded(task)) \subseteq Nat \X Alert
    <3>1. Reloaded(task) \subseteq RowSet BY <1>1 DEF Reloaded, StoreTypeOK
    <3>2. \A row \in RowSet : row.id \in Nat BY DEF RowSet
    <3>. QED BY <3>1, <3>2 DEF Matches, MatchesOf
  <2>4. StoreTypeOK' BY <1>1, <2>1, <2>3 DEF StoreTypeOK
  <2>5. Positions' BY <1>1, <2>1 DEF Positions, ChunkEnd, ledger, NoUpdate
  <2>. QED BY <2>2, <2>4, <2>5 DEF TypeInv
<1>16. CASE UNCHANGED vars
  <2>1. UNCHANGED <<ledger, tables, open, phase, chunk, tasks, reported, notified, failures>>
    BY <1>16 DEF vars
  <2>2. LedgerTypeOK' BY <1>1, <2>1, LedgerTypeSame
  <2>3. StoreTypeOK' BY <1>1, <2>1 DEF StoreTypeOK
  <2>4. Positions' BY <1>1, <2>1 DEF Positions, ChunkEnd, ledger, NoUpdate
  <2>. QED BY <2>2, <2>3, <2>4 DEF TypeInv
<1>17. Mint \/ Accept \/ Burn \/ Fail \/ Offer => TypeInv'
  BY <1>1, <1>2, LedgerArrives
<1>. QED
  BY <1>3, <1>4, <1>5, <1>6, <1>7, <1>8, <1>9, <1>10, <1>11, <1>12, <1>13, <1>14, <1>15,
     <1>16, <1>17 DEF Next, LedgerNext, BatchNext

-----------------------------------------------------------------------------
(* Batches are stored as one.                                              *)

AtomicInv == IdsUsed /\ StoredOnce /\ DraftGrows /\ BatchAtomic

LEMMA AtomicInit == Init => AtomicInv
<1>. SUFFICES ASSUME Init PROVE AtomicInv OBVIOUS
<1>. USE DEF Init
<1>1. Batch = {} /\ late = {} /\ Len(queue) = 0 BY DEF Batch
<1>2. Reported = {} /\ StoredIds = {} BY DEF Reported, StoredIds
<1>3. IdsUsed BY <1>1, <1>2 DEF IdsUsed
<1>4. StoredOnce BY <1>2 DEF StoredOnce
<1>5. DraftGrows /\ BatchAtomic BY DEF DraftGrows, BatchAtomic
<1>. QED BY <1>3, <1>4, <1>5 DEF AtomicInv

\* A step that touches neither messages nor activities.
LEMMA AtomicStays ==
  ASSUME AtomicInv, UNCHANGED <<queue, late, sent, reported, activities>>,
         \/ phase' = "idle"
         \/ /\ phase # "idle" /\ draft'.activities = draft.activities
            /\ aborted' = TRUE \/ (aborted' = aborted /\ start' = start)
  PROVE  AtomicInv'
<1>1. Batch' = Batch /\ StoredIds' = StoredIds /\ Reported' = Reported /\ Ids(Batch)' = Ids(Batch)
  BY DEF Batch, StoredIds, Reported, Ids
<1>2. IdsUsed' BY <1>1 DEF AtomicInv, IdsUsed
<1>3. StoredOnce'
  <2>1. StoredIds' \subseteq Reported' BY <1>1 DEF AtomicInv, StoredOnce
  <2>2. CASE phase' = "idle" \/ aborted' = TRUE BY <2>1, <2>2 DEF StoredOnce
  <2>3. CASE phase # "idle" /\ draft'.activities = draft.activities
             /\ aborted' = aborted /\ start' = start
    <3>1. QueuedIds(1, start)' = QueuedIds(1, start) BY <2>3 DEF QueuedIds
    <3>. QED BY <1>1, <2>1, <2>3, <3>1 DEF AtomicInv, StoredOnce
  <2>. QED BY <2>2, <2>3
<1>4. DraftGrows' BY DEF AtomicInv, DraftGrows
<1>5. BatchAtomic' BY <1>1 DEF AtomicInv, BatchAtomic
<1>. QED BY <1>2, <1>3, <1>4, <1>5 DEF AtomicInv

\* A message that joins the batch or is held back, when no batch runs.
LEMMA AtomicIdle ==
  ASSUME AtomicInv, phase' = "idle", UNCHANGED <<reported, activities>>, IdsUsed'
  PROVE  AtomicInv'
<1>1. StoredIds' = StoredIds /\ Reported' = Reported BY DEF StoredIds, Reported
<1>2. StoredOnce' BY <1>1 DEF AtomicInv, StoredOnce
<1>3. DraftGrows' BY DEF DraftGrows
<1>4. BatchAtomic' BY <1>1 DEF AtomicInv, BatchAtomic
<1>. QED BY <1>2, <1>3, <1>4 DEF AtomicInv

\* A fresh or a held id is put at the end of the queue.
LEMMA IdsAppend ==
  ASSUME queue \in Seq(ItemSet), NEW item \in ItemSet, queue' = Append(queue, item),
         sent \in Nat, sent' \in Nat, sent <= sent', IdsUsed, reported' = reported,
         item.id \in 1..sent', item.id \notin Reported, item.id \notin Ids(Batch),
         late' \subseteq late, \A other \in late' : other.id # item.id
  PROVE  IdsUsed'
<1>1. /\ Len(queue) \in Nat /\ Len(queue') = Len(queue) + 1
      /\ \A i \in 1..Len(queue) : queue'[i] = queue[i]
      /\ queue'[Len(queue) + 1] = item
      /\ Batch' = Batch \cup {item}
  BY BatchAppend
<1>2. \A i \in 1..Len(queue) : queue[i].id # item.id BY DEF Ids, Batch
<1>3. Reported' = Reported BY DEF Reported
<1>4. Ids(Batch)' = Ids(Batch) \cup {item.id} BY <1>1 DEF Ids
<1>5. ASSUME NEW i \in 1..Len(queue'), NEW j \in 1..Len(queue'), queue'[i].id = queue'[j].id
      PROVE  i = j
  <2>1. i \in 1..Len(queue) \/ i = Len(queue) + 1 BY <1>1
  <2>2. j \in 1..Len(queue) \/ j = Len(queue) + 1 BY <1>1
  <2>3. CASE i \in 1..Len(queue) /\ j \in 1..Len(queue)
    BY <1>1, <1>5, <2>3 DEF IdsUsed
  <2>. QED BY <1>1, <1>2, <1>5, <2>1, <2>2, <2>3
<1>6. \A other \in Batch' \cup late' : other.id \in 1..sent' /\ other.id \notin Reported'
  BY <1>1, <1>3 DEF IdsUsed
<1>7. Reported' \subseteq 1..sent' BY <1>3 DEF IdsUsed
<1>8. \A other \in late' : other.id \notin Ids(Batch)' BY <1>4 DEF IdsUsed
<1>9. \A one, other \in late' : one.id = other.id => one = other BY DEF IdsUsed
<1>. QED BY <1>5, <1>6, <1>7, <1>8, <1>9 DEF IdsUsed

LEMMA AtomicStep == TypeInv /\ AtomicInv /\ [Next]_vars => AtomicInv'
<1>. SUFFICES ASSUME TypeInv, AtomicInv, [Next]_vars PROVE AtomicInv' OBVIOUS
<1>1. /\ sent \in Nat /\ queue \in Seq(ItemSet) /\ late \in SUBSET ItemSet
      /\ IdsUsed
  BY DEF TypeInv, LedgerTypeOK, AtomicInv
<1>. USE DEF tables, open, chunk, ledger
<1>2. ASSUME NEW item, Arrives(item) PROVE AtomicInv'
  <2>1. /\ item \in ItemSet /\ item.id = sent + 1 /\ sent' = sent + 1
        /\ phase' = "idle" /\ UNCHANGED <<reported, activities>>
    BY <1>2 DEF Arrives
  <2>2. \A other \in Batch \cup late : other.id \in 1..sent /\ other.id # item.id
    BY <1>1, <2>1 DEF IdsUsed
  <2>3. item.id \in 1..sent' /\ item.id \notin Reported /\ item.id \notin Ids(Batch)
    BY <1>1, <2>1, <2>2 DEF IdsUsed, Ids
  <2>4. CASE queue' = Append(queue, item) /\ late' = late
    <3>1. IdsUsed' BY <1>1, <2>1, <2>2, <2>3, <2>4, IdsAppend
    <3>. QED BY <2>1, <3>1, AtomicIdle
  <2>5. CASE queue' = queue /\ late' = late \cup {item}
    <3>1. Batch' = Batch /\ Ids(Batch)' = Ids(Batch) /\ Reported' = Reported
      BY <2>1, <2>5 DEF Batch, Ids, Reported
    <3>2. \A other \in Batch' \cup late' : other.id \in 1..sent' /\ other.id \notin Reported'
      BY <1>1, <2>1, <2>3, <2>5, <3>1 DEF IdsUsed
    <3>3. Reported' \subseteq 1..sent' BY <1>1, <2>1, <3>1 DEF IdsUsed
    <3>4. \A other \in late' : other.id \notin Ids(Batch)'
      BY <1>1, <2>3, <2>5, <3>1 DEF IdsUsed
    <3>5. \A one, other \in late' : one.id = other.id => one = other
      BY <1>1, <2>2, <2>5 DEF IdsUsed
    <3>6. IdsUsed' BY <1>1, <2>5, <3>2, <3>3, <3>4, <3>5 DEF IdsUsed
    <3>. QED BY <2>1, <3>6, AtomicIdle
  <2>. QED BY <1>2, <2>4, <2>5 DEF Arrives
<1>3. CASE Backfill
  <2>1. PICK item \in late :
          /\ phase = "idle" /\ late' = late \ {item} /\ queue' = Append(queue, item)
          /\ UNCHANGED <<sent, phase, reported, activities>>
    BY <1>3 DEF Backfill
  <2>2. item.id \in 1..sent /\ item.id \notin Reported /\ item.id \notin Ids(Batch)
    BY <1>1, <2>1 DEF IdsUsed
  <2>3. \A other \in late' : other.id # item.id BY <1>1, <2>1 DEF IdsUsed
  <2>4. IdsUsed' BY <1>1, <2>1, <2>2, <2>3, IdsAppend
  <2>. QED BY <2>1, <2>4, AtomicIdle
<1>4. CASE Begin
  <2>1. /\ phase' = "first" /\ phase = "idle" /\ draft' = Saved
        /\ UNCHANGED <<ledger, tables, aborted, chunk, reported>>
    BY <1>4 DEF Begin
  <2>2. start = 1 BY <2>1 DEF TypeInv, Positions
  <2>3. draft'.activities = activities BY <2>1 DEF Saved
  <2>4. Batch' = Batch /\ StoredIds' = StoredIds /\ Reported' = Reported /\ Ids(Batch)' = Ids(Batch)
    BY <2>1 DEF Batch, StoredIds, Reported, Ids
  <2>5. QueuedIds(1, start)' = {} BY <2>1, <2>2 DEF QueuedIds
  <2>6. {row.id : row \in draft'.activities} = StoredIds BY <2>3 DEF StoredIds
  <2>7. IdsUsed' BY <1>1, <2>1, <2>4 DEF IdsUsed
  <2>8. StoredOnce' BY <2>4, <2>5, <2>6 DEF AtomicInv, StoredOnce
  <2>9. DraftGrows' BY <2>1, <2>3 DEF DraftGrows
  <2>10. BatchAtomic' BY <2>1, <2>4 DEF AtomicInv, BatchAtomic
  <2>. QED BY <2>7, <2>8, <2>9, <2>10 DEF AtomicInv
<1>5. CASE SkipNftUpdate \/ NoteUpdate
  <2>1. Pass /\ UNCHANGED open BY <1>5 DEF SkipNftUpdate, NoteUpdate
  <2>. QED BY <2>1, AtomicStays DEF Pass
<1>6. CASE NftUpdateFails
  <2>1. Pass /\ draft' = draft /\ aborted' = TRUE BY <1>6 DEF NftUpdateFails
  <2>. QED BY <2>1, AtomicStays DEF Pass
<1>7. CASE CreateNewNft
  <2>1. Pass /\ aborted' = aborted BY <1>7 DEF CreateNewNft
  <2>2. draft'.activities = draft.activities BY <1>7, CreateFacts
  <2>. QED BY <2>1, <2>2, AtomicStays DEF Pass
<1>8. CASE WriteCollectionsAndNfts
  <2>1. phase = "first" /\ UNCHANGED <<ledger, tables, aborted, chunk, reported>>
    BY <1>8 DEF WriteCollectionsAndNfts, AfterFirstPass
  <2>2. draft'.activities = draft.activities BY <1>8, WriteFacts
  <2>. QED BY <2>1, <2>2, AtomicStays
<1>9. CASE SaveActivities
  <2>1. /\ phase = "second" /\ Advance /\ ~ aborted
        /\ UNCHANGED <<ledger, tables, aborted, reported>>
    BY <1>9 DEF SaveActivities
  <2>2. draft'.activities = draft.activities \cup {Row(item) : item \in Chunk}
    BY <1>9, SaveFacts
  <2>3. start \in Nat \ {0} /\ start <= Len(queue) /\ start' = start + ChunkSize
    BY <2>1 DEF TypeInv, Positions, Advance
  <2>4. Batch' = Batch /\ StoredIds' = StoredIds /\ Reported' = Reported /\ Ids(Batch)' = Ids(Batch)
    BY <2>1 DEF Batch, StoredIds, Reported, Ids
  <2>5. {row.id : row \in {Row(item) : item \in Chunk}} = Ids(Chunk)
    <3>1. \A item : Row(item).id = item.id BY DEF Row
    <3>. QED BY <3>1 DEF Ids
  <2>6. {row.id : row \in draft'.activities} = {row.id : row \in draft.activities} \cup Ids(Chunk)
    <3>. DEFINE new == {Row(item) : item \in Chunk}
    <3>1. {row.id : row \in new} = Ids(Chunk) BY <2>5
    <3>. HIDE DEF new
    <3>2. draft'.activities = draft.activities \cup new BY <2>2 DEF new
    <3>. QED BY <3>1, <3>2
  <2>7. QueuedIds(1, start) \cup Ids(Chunk) = QueuedIds(1, start)'
    <3>1. Ids(Chunk) = {queue[i].id : i \in start..ChunkEnd} BY DEF Ids, Chunk
    <3>2. \A i \in 1..Len(queue) : i < start \/ i \in start..ChunkEnd <=> i < start + ChunkSize
      BY <1>1, <2>3, ChunkFacts, StoreAssumption
    <3>3. start..ChunkEnd \subseteq 1..Len(queue) BY <1>1, <2>3, ChunkFacts
    <3>4. QueuedIds(1, start)' =
            {queue[i].id : i \in {j \in 1..Len(queue) : 1 <= j /\ j < start + ChunkSize}}
      BY <2>1, <2>3 DEF QueuedIds
    <3>5. ASSUME NEW id PROVE id \in QueuedIds(1, start) \cup Ids(Chunk) <=> id \in QueuedIds(1, start)'
      <4>1. id \in QueuedIds(1, start)' <=> \E i \in 1..Len(queue) : i < start + ChunkSize /\ id = queue[i].id
        BY <3>4
      <4>2. id \in QueuedIds(1, start) <=> \E i \in 1..Len(queue) : i < start /\ id = queue[i].id
        BY DEF QueuedIds
      <4>3. id \in Ids(Chunk) <=> \E i \in start..ChunkEnd : id = queue[i].id BY <3>1
      <4>. QED BY <3>2, <3>3, <4>1, <4>2, <4>3
    <3>. QED BY <3>5
  <2>8. IdsUsed' BY <1>1, <2>1, <2>4 DEF IdsUsed
  <2>9. StoredOnce' BY <2>1, <2>4, <2>6, <2>7 DEF AtomicInv, StoredOnce
  <2>10. DraftGrows' BY <2>1, <2>2 DEF AtomicInv, DraftGrows
  <2>11. BatchAtomic' BY <2>1, <2>4 DEF AtomicInv, BatchAtomic
  <2>. QED BY <2>8, <2>9, <2>10, <2>11 DEF AtomicInv
<1>10. CASE LoseActivities
  <2>1. /\ phase = "second" /\ aborted' = TRUE
        /\ UNCHANGED <<ledger, tables, draft, reported>>
    BY <1>10 DEF LoseActivities
  <2>. QED BY <2>1, AtomicStays
<1>11. CASE Commit
  <2>1. /\ phase = "commit" /\ phase' = "idle" /\ queue' = <<>>
        /\ reported' = reported \cup {Ids(Batch)}
        /\ activities' = IF aborted THEN activities ELSE draft.activities
        /\ sent' = sent /\ late' = late
    BY <1>11 DEF Commit, Release
  <2>2. Len(queue) \in Nat /\ start \in Nat /\ Len(queue) < start
    BY <1>1, <2>1 DEF TypeInv, Positions
  <2>3. Batch' = {} /\ Ids(Batch)' = {} /\ Len(queue') = 0
    <3>1. Len(queue') = 0 BY <2>1
    <3>2. Batch' = {} BY <3>1 DEF Batch
    <3>. QED BY <3>1, <3>2 DEF Ids
  <2>4. QueuedIds(1, start) = Ids(Batch)
    BY <2>2 DEF QueuedIds, Ids, Batch
  <2>5. StoredIds' = IF aborted THEN StoredIds ELSE StoredIds \cup Ids(Batch)
    <3>1. CASE aborted BY <2>1, <3>1 DEF StoredIds
    <3>2. CASE ~ aborted
      BY <2>1, <2>4, <3>2 DEF StoredIds, AtomicInv, StoredOnce
    <3>. QED BY <3>1, <3>2
  <2>6. Reported' = Reported \cup Ids(Batch) BY <2>1 DEF Reported
  <2>7. \A id \in Ids(Batch) : id \in 1..sent /\ id \notin Reported
    BY <1>1 DEF IdsUsed, Ids
  <2>8. StoredIds \subseteq Reported BY DEF AtomicInv, StoredOnce
  <2>9. IdsUsed'
    <3>1. \A item \in Batch' \cup late' : item.id \in 1..sent' /\ item.id \notin Reported'
      BY <1>1, <2>1, <2>3, <2>6 DEF IdsUsed, Ids
    <3>2. \A i, j \in 1..Len(queue') : queue'[i].id = queue'[j].id => i = j BY <2>3
    <3>3. \A item \in late' : item.id \notin Ids(Batch)' BY <2>3
    <3>4. \A item, other \in late' : item.id = other.id => item = other
      BY <1>1, <2>1 DEF IdsUsed
    <3>5. Reported' \subseteq 1..sent' BY <1>1, <2>1, <2>6, <2>7 DEF IdsUsed
    <3>. QED BY <3>1, <3>2, <3>3, <3>4, <3>5 DEF IdsUsed
  <2>10. StoredOnce' BY <2>1, <2>5, <2>6, <2>8 DEF StoredOnce
  <2>11. DraftGrows' BY <2>1 DEF DraftGrows
  <2>12. BatchAtomic'
    <3>1. ASSUME NEW batch \in reported
          PROVE  batch \subseteq StoredIds' \/ batch \cap StoredIds' = {}
      <4>1. batch \cap Ids(Batch) = {} BY <2>7 DEF Reported
      <4>2. batch \subseteq StoredIds \/ batch \cap StoredIds = {} BY DEF AtomicInv, BatchAtomic
      <4>. QED BY <2>5, <4>1, <4>2
    <3>2. Ids(Batch) \subseteq StoredIds' \/ Ids(Batch) \cap StoredIds' = {}
      BY <2>5, <2>7, <2>8
    <3>. QED BY <2>1, <3>1, <3>2 DEF BatchAtomic
  <2>. QED BY <2>9, <2>10, <2>11, <2>12 DEF AtomicInv
<1>12. CASE BatchFails
  <2>1. phase' = "idle" /\ UNCHANGED <<ledger, tables, reported>>
    BY <1>12 DEF BatchFails, Rollback, Release
  <2>. QED BY <2>1, AtomicStays
<1>13. CASE Enrich
  <2>1. phase' = "idle" /\ UNCHANGED <<ledger, activities, reported>>
    BY <1>13 DEF Enrich
  <2>. QED BY <2>1, AtomicStays
<1>14. CASE ProcessAlerts \/ UNCHANGED vars
  <2>1. UNCHANGED <<ledger, tables, open, phase, chunk, reported>>
    BY <1>14 DEF ProcessAlerts, vars
  <2>. QED BY <2>1, AtomicStays
<1>15. Mint \/ Accept \/ Burn \/ Fail \/ Offer => AtomicInv'
  BY <1>2, LedgerArrives DEF TypeInv
<1>. QED
  BY <1>3, <1>4, <1>5, <1>6, <1>7, <1>8, <1>9, <1>10, <1>11, <1>12, <1>13, <1>14, <1>15
  DEF Next, LedgerNext, BatchNext

-----------------------------------------------------------------------------
(* Rows and their collections.                                             *)

LinkInv == MintedHere /\ DraftLinked /\ CollectionLinked

LEMMA LinkInit == Init => LinkInv
<1>. SUFFICES ASSUME Init PROVE LinkInv OBVIOUS
<1>. USE DEF Init
<1>1. Batch = {} /\ late = {} BY DEF Batch
<1>. QED BY <1>1 DEF LinkInv, MintedHere, DraftLinked, CollectionLinked

\* A link holds on when the tables grow and fewer NFTs are asked about.
LEMMA LinkedStays ==
  ASSUME excused \subseteq excused', NEW rows, NEW more, NEW saved, NEW wider,
         Linked(rows, saved), saved \subseteq wider, saved \subseteq Collection,
         \A n \in Nft : home[n] # NoValue => home'[n] = home[n],
         \A n \in Nft : more[n] # NoValue =>
                          rows[n] # NoValue /\ more[n].collection = rows[n].collection
  PROVE  \A n \in Nft \ excused' :
           more[n] # NoValue => home'[n] \in wider /\ more[n].collection \in Maybe({home'[n]})
<1>1. SUFFICES ASSUME NEW n \in Nft \ excused', more[n] # NoValue
               PROVE  home'[n] \in wider /\ more[n].collection \in Maybe({home'[n]})
  OBVIOUS
<1>2. rows[n] # NoValue /\ more[n].collection = rows[n].collection BY <1>1
<1>3. home[n] \in saved /\ rows[n].collection \in Maybe({home[n]}) BY <1>1, <1>2 DEF Linked
<1>4. NoValue \notin Collection BY StoreAssumption
<1>5. home'[n] = home[n] BY <1>1, <1>3, <1>4
<1>. QED BY <1>2, <1>3, <1>5

\* CollectionLinked, as a link of the committed tables.
LEMMA LinkedTables == CollectionLinked <=> Linked(nfts, collections)
<1>1. \A n \in Nft : {home[n], NoValue} = Maybe({home[n]}) BY DEF Maybe
<1>. QED BY <1>1 DEF CollectionLinked, Linked

\* A step that touches neither messages nor the ledger.
LEMMA LinkStays ==
  ASSUME LinkInv, UNCHANGED <<queue, late, home, excused>>,
         CollectionLinked', DraftLinked'
  PROVE  LinkInv'
<1>1. Batch' = Batch BY DEF Batch
<1>2. MintedHere' BY <1>1 DEF LinkInv, MintedHere
<1>. QED BY <1>2 DEF LinkInv

LEMMA SameTables ==
  ASSUME LinkInv, UNCHANGED <<home, excused, nfts, collections>>
  PROVE  CollectionLinked'
BY DEF LinkInv, CollectionLinked

LEMMA LinkStep == TypeInv /\ LinkInv /\ [Next]_vars => LinkInv'
<1>. SUFFICES ASSUME TypeInv, LinkInv, [Next]_vars PROVE LinkInv' OBVIOUS
<1>1. /\ queue \in Seq(ItemSet) /\ late \in SUBSET ItemSet /\ Batch \subseteq ItemSet
      /\ \A item \in Batch \cup late : WellRead(item)
      /\ collections \in SUBSET Collection /\ nfts \in NftTable
      /\ phase # "idle" => draft \in Tables
      /\ NoValue \notin Collection \cup NftRow /\ toCreate \in SUBSET Collection
  BY BatchTyped, StoreAssumption DEF TypeInv, LedgerTypeOK, StoreTypeOK
<1>. USE DEF tables, open, chunk, ledger
<1>2. ASSUME NEW item, Arrives(item) PROVE LinkInv'
  <2>1. /\ item \in ItemSet /\ excused \subseteq excused' /\ phase' = "idle"
        /\ UNCHANGED <<nfts, collections>>
        /\ \A n \in Nft : home[n] # NoValue => home'[n] = home[n]
        /\ \A n \in Nft \ excused' : Tells(item, n)
    BY <1>2 DEF Arrives
  <2>2. Batch' \cup late' = Batch \cup late \cup {item}
    <3>1. CASE queue' = Append(queue, item) /\ late' = late
      BY <1>1, <2>1, <3>1, BatchAppend
    <3>2. CASE queue' = queue /\ late' = late \cup {item} BY <3>2 DEF Batch
    <3>. QED BY <1>2, <3>1, <3>2 DEF Arrives
  <2>3. MintedHere'
    <3>1. SUFFICES ASSUME NEW other \in Batch' \cup late', NEW token,
                          token = other.activity.token,
                          other.activity.type = "mint", token \in Nft \ excused'
                   PROVE  home'[token] = <<other.activity.from, other.taxon>>
      BY DEF MintedHere
    <3>2. CASE other = item BY <2>1, <3>1, <3>2 DEF Tells
    <3>3. CASE other \in Batch \cup late
      <4>1. home[token] = <<other.activity.from, other.taxon>>
        BY <2>1, <3>1, <3>3 DEF LinkInv, MintedHere
      <4>2. WellRead(other) /\ token # NoValue BY <1>1, <3>1, <3>3, MessageAssumption
      <4>3. home[token] \in Collection BY <3>1, <4>1, <4>2 DEF WellRead, Collection
      <4>. QED BY <1>1, <2>1, <3>1, <4>1, <4>3
    <3>. QED BY <2>2, <3>2, <3>3
  <2>4. CollectionLinked'
    <3>1. Linked(nfts, collections) BY LinkedTables DEF LinkInv
    <3>2. \A n \in Nft \ excused' : nfts[n] # NoValue =>
            home'[n] \in collections /\ nfts[n].collection \in Maybe({home'[n]})
      BY <1>1, <2>1, <3>1, LinkedStays
    <3>. QED BY <2>1, <3>2 DEF CollectionLinked, Maybe
  <2>. QED BY <2>1, <2>3, <2>4 DEF LinkInv, DraftLinked
<1>3. CASE Backfill
  <2>1. PICK item \in late :
          /\ phase = "idle" /\ late' = late \ {item} /\ queue' = Append(queue, item)
          /\ excused' = excused \cup OvertakenToken(item)
          /\ UNCHANGED <<home, tables, phase>>
    BY <1>3 DEF Backfill
  <2>2. Batch' = Batch \cup {item} BY <1>1, <2>1, BatchAppend
  <2>3. MintedHere' BY <2>1, <2>2 DEF LinkInv, MintedHere
  <2>4. CollectionLinked' BY <2>1 DEF LinkInv, CollectionLinked
  <2>. QED BY <2>1, <2>3, <2>4 DEF LinkInv, DraftLinked
<1>4. CASE Begin
  <2>1. /\ phase' = "first" /\ draft' = Saved /\ UNCHANGED <<ledger, tables, chunk>>
    BY <1>4 DEF Begin
  <2>2. draft'.nfts = nfts /\ draft'.collections = collections BY <2>1 DEF Saved
  <2>3. DraftLinked' BY <2>1, <2>2 DEF LinkInv, DraftLinked, Linked, CollectionLinked, Maybe
  <2>. QED BY <2>1, <2>3, SameTables, LinkStays
<1>5. CASE SkipNftUpdate \/ NoteUpdate
  <2>1. Pass /\ UNCHANGED <<open, toCreate>> BY <1>5 DEF SkipNftUpdate, NoteUpdate
  <2>2. DraftLinked' BY <2>1 DEF Pass, LinkInv, DraftLinked, Linked
  <2>. QED BY <2>1, <2>2, SameTables, LinkStays DEF Pass
<1>6. CASE NftUpdateFails
  <2>1. Pass /\ aborted' = TRUE BY <1>6 DEF NftUpdateFails
  <2>2. DraftLinked' BY <2>1 DEF DraftLinked
  <2>. QED BY <2>1, <2>2, SameTables, LinkStays DEF Pass
<1>7. CASE CreateNewNft
  <2>1. Pass /\ aborted' = aborted /\ ~ aborted BY <1>7 DEF CreateNewNft
  <2>2. phase = "first" /\ phase' = "first" /\ next <= ChunkEnd
        /\ UNCHANGED <<queue, late, home, excused, nfts, collections>>
    BY <2>1 DEF Pass
  <2>3. PICK collection \in Collection, known \in BOOLEAN :
           /\ collection = <<Current.from, queue[next].taxon>>
           /\ known = (collection \in draft.collections)
           /\ Current.token \in Nft /\ Current.type = "mint"
           /\ draft.nfts[Current.token] = NoValue
           /\ NewRow(known) \in NftRow
           /\ draft'.collections = draft.collections
           /\ draft'.nfts = [draft.nfts EXCEPT ![Current.token] = NewRow(known)]
           /\ toCreate' = IF known THEN toCreate ELSE toCreate \cup {collection}
    BY <1>7, CreateFacts
  <2>4. /\ queue[next] \in Batch /\ Current = queue[next].activity /\ draft.nfts \in NftTable
    BY <2>2, CurrentFacts
  <2>5. Linked(draft.nfts, draft.collections \cup toCreate)
    BY <2>1, <2>2 DEF LinkInv, DraftLinked
  <2>. DEFINE token == Current.token
  <2>6. token \notin excused => home[token] = collection
    BY <2>3, <2>4 DEF LinkInv, MintedHere
  <2>7. NewRow(known).collection \in {collection, NoValue} BY <2>3 DEF NewRow
  <2>8. collection \in draft'.collections \cup toCreate' BY <2>3
  <2>9. ASSUME NEW n \in Nft \ excused, draft'.nfts[n] # NoValue
        PROVE  /\ home[n] \in draft'.collections \cup toCreate'
               /\ draft'.nfts[n].collection \in Maybe({home[n]})
    <3>1. CASE n = token
      <4>1. draft'.nfts[n] = NewRow(known) BY <2>3, <2>4, <3>1 DEF NftTable
      <4>. QED BY <2>6, <2>7, <2>8, <3>1, <4>1 DEF Maybe
    <3>2. CASE n # token
      <4>1. draft'.nfts[n] = draft.nfts[n] BY <2>3, <2>4, <3>2 DEF NftTable
      <4>2. /\ home[n] \in draft.collections \cup toCreate
            /\ draft.nfts[n].collection \in Maybe({home[n]})
        BY <2>5, <2>9, <4>1 DEF Linked
      <4>. QED BY <2>3, <4>1, <4>2
    <3>. QED BY <3>1, <3>2
  <2>10. DraftLinked' BY <2>2, <2>9 DEF DraftLinked, Linked
  <2>. QED BY <2>2, <2>10, SameTables, LinkStays
<1>8. CASE WriteCollectionsAndNfts
  <2>1. /\ phase = "first" /\ phase' = "second"
        /\ UNCHANGED <<ledger, tables, aborted, chunk>>
    BY <1>8 DEF WriteCollectionsAndNfts, AfterFirstPass
  <2>2. /\ draft'.collections = draft.collections \cup toCreate
        /\ \A n \in Nft : draft'.nfts[n] = NoValue <=> draft.nfts[n] = NoValue
        /\ \A n \in Nft : draft.nfts[n] # NoValue =>
              draft'.nfts[n].collection = draft.nfts[n].collection
    BY <1>8, WriteFacts
  <2>3. DraftLinked' BY <2>1, <2>2 DEF LinkInv, DraftLinked, Linked
  <2>. QED BY <2>1, <2>3, SameTables, LinkStays
<1>9. CASE SaveActivities
  <2>1. /\ phase = "second" /\ Advance /\ UNCHANGED <<ledger, tables, aborted>>
    BY <1>9 DEF SaveActivities
  <2>2. draft'.collections = draft.collections /\ draft'.nfts = draft.nfts BY <1>9, SaveFacts
  <2>3. DraftLinked' BY <2>1, <2>2 DEF LinkInv, DraftLinked, Linked
  <2>. QED BY <2>1, <2>3, SameTables, LinkStays
<1>10. CASE LoseActivities
  <2>1. aborted' = TRUE /\ UNCHANGED <<ledger, tables>> BY <1>10 DEF LoseActivities
  <2>2. DraftLinked' BY <2>1 DEF DraftLinked
  <2>. QED BY <2>1, <2>2, SameTables, LinkStays
<1>11. CASE Commit
  <2>1. /\ phase = "commit" /\ phase' = "idle" /\ queue' = <<>> /\ UNCHANGED <<home, late>>
        /\ excused \subseteq excused'
        /\ aborted => nfts' = nfts /\ collections' = collections
        /\ ~ aborted => nfts' = draft.nfts /\ collections' = draft.collections
    BY <1>11 DEF Commit, Release
  <2>2. Batch' = {}
    <3>1. Len(queue') = 0 BY <2>1
    <3>. QED BY <3>1 DEF Batch
  <2>3. MintedHere' BY <2>1, <2>2 DEF LinkInv, MintedHere
  <2>4. CollectionLinked'
    BY <2>1 DEF LinkInv, CollectionLinked, DraftLinked, Linked, Maybe
  <2>. QED BY <2>1, <2>3, <2>4 DEF LinkInv, DraftLinked
<1>12. CASE BatchFails
  <2>1. phase' = "idle" /\ UNCHANGED <<ledger, tables>>
    BY <1>12 DEF BatchFails, Rollback, Release
  <2>. QED BY <2>1, SameTables, LinkStays DEF DraftLinked
<1>13. CASE Enrich
  <2>1. PICK n \in Nft :
          /\ phase' = "idle" /\ nfts[n] # NoValue
          /\ nfts' = [nfts EXCEPT ![n].traits = Traits(n)]
          /\ UNCHANGED <<ledger, collections>>
    BY <1>13 DEF Enrich
  <2>2. nfts[n] \in NftRow BY <1>1, <2>1 DEF NftTable, Maybe
  <2>3. nfts'[n].collection = nfts[n].collection
    <3>1. nfts'[n] = [nfts[n] EXCEPT !.traits = Traits(n)] BY <1>1, <2>1 DEF NftTable
    <3>. QED BY <2>2, <3>1 DEF NftRow
  <2>4. \A k \in Nft : k # n => nfts'[k] = nfts[k] BY <1>1, <2>1 DEF NftTable
  <2>5. CollectionLinked' BY <2>1, <2>3, <2>4 DEF LinkInv, CollectionLinked
  <2>. QED BY <2>1, <2>5, LinkStays DEF DraftLinked
<1>14. CASE ProcessAlerts \/ UNCHANGED vars
  <2>1. UNCHANGED <<ledger, tables, open, phase, chunk>>
    BY <1>14 DEF ProcessAlerts, vars
  <2>2. DraftLinked' BY <2>1 DEF LinkInv, DraftLinked, Linked
  <2>. QED BY <2>1, <2>2, SameTables, LinkStays
<1>15. Mint \/ Accept \/ Burn \/ Fail \/ Offer => LinkInv'
  BY <1>2, LedgerArrives DEF TypeInv
<1>. QED
  BY <1>3, <1>4, <1>5, <1>6, <1>7, <1>8, <1>9, <1>10, <1>11, <1>12, <1>13, <1>14, <1>15
  DEF Next, LedgerNext, BatchNext

-----------------------------------------------------------------------------
(* Notifications.                                                          *)

\* What AlertsSound asks of a match and its activity.
Justified(match, row) ==
  LET alert == match[2]
  IN /\ row.id = match[1]
     /\ alert.isActive /\ row.type \in alert.activityTypes
     /\ alert.collection # NoValue =>
          row.nft # NoValue /\ (row.nft \in excused \/ home[row.nft] = alert.collection)
     /\ alert.minPrice # NoValue => row.price # NoValue /\ row.price >= alert.minPrice
     /\ alert.maxPrice # NoValue => row.price # NoValue /\ row.price <= alert.maxPrice
     /\ alert.traitFilters # {} => row.nft # NoValue /\ MeetsTraits(alert, row.nft)

AlertInv == ActivitiesFound /\ AlertsSound

LEMMA AlertInit == Init => AlertInv
BY DEF Init, AlertInv, ActivitiesFound, RowsFound, AlertsSound

LEMMA SoundJustified ==
  AlertsSound <=> \A match \in notified : \E row \in activities : Justified(match, row)
BY DEF AlertsSound, Justified

\* No step takes back an activity, an excuse, or the collection of an NFT.
LEMMA Grows ==
  ASSUME TypeInv, AtomicInv, [Next]_vars
  PROVE  /\ activities \subseteq activities' /\ excused \subseteq excused'
         /\ \A n \in Nft : home[n] # NoValue => home'[n] = home[n]
<1>. USE DEF tables, ledger
<1>1. Mint \/ Accept \/ Burn \/ Fail \/ Offer =>
        /\ activities \subseteq activities' /\ excused \subseteq excused'
        /\ \A n \in Nft : home[n] # NoValue => home'[n] = home[n]
  BY LedgerArrives DEF TypeInv, Arrives
<1>2. CASE Backfill BY <1>2 DEF Backfill
<1>3. CASE Begin BY <1>3 DEF Begin
<1>4. CASE SkipNftUpdate \/ NftUpdateFails \/ CreateNewNft \/ NoteUpdate
  BY <1>4 DEF SkipNftUpdate, NftUpdateFails, CreateNewNft, NoteUpdate, Pass
<1>5. CASE WriteCollectionsAndNfts BY <1>5 DEF WriteCollectionsAndNfts
<1>6. CASE SaveActivities \/ LoseActivities BY <1>6 DEF SaveActivities, LoseActivities
<1>7. CASE Commit
  <2>1. activities \subseteq draft.activities BY <1>7 DEF Commit, AtomicInv, DraftGrows
  <2>. QED BY <1>7, <2>1 DEF Commit
<1>8. CASE BatchFails BY <1>8 DEF BatchFails, Rollback
<1>9. CASE Enrich \/ ProcessAlerts \/ UNCHANGED vars BY <1>9 DEF Enrich, ProcessAlerts, vars
<1>. QED
  BY <1>1, <1>2, <1>3, <1>4, <1>5, <1>6, <1>7, <1>8, <1>9 DEF Next, LedgerNext, BatchNext

\* A match that was justified remains so.
LEMMA JustifiedStays ==
  ASSUME excused \subseteq excused', \A n \in Nft : home[n] # NoValue => home'[n] = home[n],
         NEW match, NEW row \in RowSet, Justified(match, row)
  PROVE  Justified(match, row)'
<1>1. row.nft # NoValue => row.nft \in Nft BY DEF RowSet, Maybe
<1>. QED BY <1>1 DEF Justified, MeetsTraits

\* An alert that evaluateAlertMatch accepts asks for nothing the activity lacks.
LEMMA MatchJustified ==
  ASSUME TypeInv, CollectionLinked, ActivitiesFound,
         NEW row \in activities, NEW alert \in MatchesOf(row)
  PROVE  Justified(<<row.id, alert>>, row)
<1>1. EvaluateAlertMatch(alert, row.type, row.price, NftOf(row).collection, NftOf(row).traits)
  BY DEF MatchesOf
<1>2. row \in RowSet /\ nfts \in NftTable BY DEF TypeInv, StoreTypeOK
<1>3. row.nft # NoValue => row.nft \in Nft /\ nfts[row.nft] \in NftRow
  BY <1>2 DEF ActivitiesFound, RowsFound, RowSet, NftTable, Maybe
<1>4. /\ alert.isActive /\ row.type \in alert.activityTypes
      /\ alert.collection \in {NoValue, NftOf(row).collection}
  BY <1>1 DEF EvaluateAlertMatch, Candidate
<1>5. alert.collection # NoValue =>
        row.nft # NoValue /\ (row.nft \in excused \/ home[row.nft] = alert.collection)
  <2>1. SUFFICES ASSUME alert.collection # NoValue
                 PROVE  row.nft # NoValue /\
                          (row.nft \in excused \/ home[row.nft] = alert.collection)
    OBVIOUS
  <2>2. NftOf(row).collection = alert.collection /\ row.nft # NoValue BY <1>4, <2>1 DEF NftOf
  <2>3. nfts[row.nft].collection = alert.collection BY <2>2 DEF NftOf
  <2>4. nfts[row.nft] # NoValue BY <1>3, <2>2, StoreAssumption
  <2>. QED BY <1>3, <2>1, <2>2, <2>3, <2>4 DEF CollectionLinked
<1>6. /\ alert.minPrice # NoValue => row.price # NoValue /\ row.price >= alert.minPrice
      /\ alert.maxPrice # NoValue => row.price # NoValue /\ row.price <= alert.maxPrice
  BY <1>1 DEF EvaluateAlertMatch, MatchesPrice, WithinRange
<1>7. alert.traitFilters # {} => row.nft # NoValue /\ MeetsTraits(alert, row.nft)
  <2>1. SUFFICES ASSUME alert.traitFilters # {}
                 PROVE  row.nft # NoValue /\ MeetsTraits(alert, row.nft)
    OBVIOUS
  <2>2. NftOf(row).traits # NoValue /\ MatchesTraits(alert.traitFilters, NftOf(row).traits)
    BY <1>1, <2>1 DEF EvaluateAlertMatch
  <2>3. row.nft # NoValue BY <2>2 DEF NftOf
  <2>4. NftOf(row).traits = nfts[row.nft].traits BY <2>3 DEF NftOf
  <2>5. PICK n \in Nft : NftOf(row).traits = Traits(n)
    BY <1>3, <2>2, <2>3, <2>4 DEF NftRow
  <2>6. Traits(n) = [values |-> [key \in {StoredKey} |-> Attributes[n]]]
    BY <2>2, <2>5 DEF Traits
  <2>7. \A filter \in alert.traitFilters : filter.traitType = StoredKey
    <3>1. SUFFICES ASSUME NEW filter \in alert.traitFilters PROVE filter.traitType = StoredKey
      OBVIOUS
    <3>2. FindTraitValue(Traits(n), filter.traitType) # NoValue
      BY <2>2, <2>5 DEF MatchesTraits
    <3>3. filter.traitType \in DOMAIN Traits(n).values BY <3>2 DEF FindTraitValue
    <3>4. DOMAIN Traits(n).values = {StoredKey} BY <2>6
    <3>. QED BY <3>3, <3>4
  <2>. QED BY <2>3, <2>7 DEF MeetsTraits
<1>. QED BY <1>4, <1>5, <1>6, <1>7 DEF Justified

\* Rows found in a table are found in one that lost no row.
LEMMA FoundStays ==
  ASSUME NEW rows \in SUBSET RowSet, NEW table, NEW wider, RowsFound(rows, table),
         \A n \in Nft : table[n] # NoValue => wider[n] # NoValue
  PROVE  RowsFound(rows, wider)
<1>1. \A row \in rows : row.nft # NoValue => row.nft \in Nft BY DEF RowSet, Maybe
<1>. QED BY <1>1 DEF RowsFound

LEMMA FoundStep == TypeInv /\ ActivitiesFound /\ [Next]_vars => ActivitiesFound'
<1>. SUFFICES ASSUME TypeInv, ActivitiesFound, [Next]_vars PROVE ActivitiesFound' OBVIOUS
<1>1. /\ activities \in SUBSET RowSet /\ nfts \in NftTable /\ RowsFound(activities, nfts)
      /\ phase # "idle" => draft \in Tables /\ RowsFound(draft.activities, draft.nfts)
  BY DEF TypeInv, StoreTypeOK, ActivitiesFound
<1>. USE DEF tables, open, ledger, ActivitiesFound
<1>2. Mint \/ Accept \/ Burn \/ Fail \/ Offer => ActivitiesFound'
  BY <1>1, LedgerArrives DEF TypeInv, Arrives
<1>3. CASE Backfill BY <1>1, <1>3 DEF Backfill
<1>4. CASE Begin
  <2>1. draft'.activities = activities /\ draft'.nfts = nfts BY <1>4 DEF Begin, Saved
  <2>. QED BY <1>1, <1>4, <2>1 DEF Begin
<1>5. CASE SkipNftUpdate \/ NoteUpdate \/ NftUpdateFails
  BY <1>1, <1>5 DEF SkipNftUpdate, NoteUpdate, NftUpdateFails, Pass
<1>6. CASE CreateNewNft
  <2>1. phase = "first" /\ UNCHANGED tables BY <1>6 DEF CreateNewNft, Pass
  <2>2. PICK collection \in Collection, known \in BOOLEAN :
           /\ Current.token \in Nft /\ NewRow(known) \in NftRow
           /\ draft'.activities = draft.activities
           /\ draft'.nfts = [draft.nfts EXCEPT ![Current.token] = NewRow(known)]
    BY <1>6, CreateFacts
  <2>3. draft.nfts \in NftTable /\ draft.activities \in SUBSET RowSet
    BY <1>1, <2>1 DEF Tables
  <2>4. \A n \in Nft : draft.nfts[n] # NoValue => draft'.nfts[n] # NoValue
    BY <2>2, <2>3, StoreAssumption DEF NftTable
  <2>5. RowsFound(draft.activities, draft'.nfts)
    BY <1>1, <2>1, <2>3, <2>4, FoundStays
  <2>. QED BY <1>1, <2>1, <2>2, <2>5
<1>7. CASE WriteCollectionsAndNfts
  <2>1. phase = "first" /\ UNCHANGED tables
    BY <1>7 DEF WriteCollectionsAndNfts, AfterFirstPass
  <2>2. /\ draft'.activities = draft.activities
        /\ \A n \in Nft : draft'.nfts[n] = NoValue <=> draft.nfts[n] = NoValue
    BY <1>7, WriteFacts
  <2>3. draft.activities \in SUBSET RowSet BY <1>1, <2>1 DEF Tables
  <2>4. RowsFound(draft.activities, draft'.nfts)
    BY <1>1, <2>1, <2>2, <2>3, FoundStays
  <2>. QED BY <1>1, <2>1, <2>2, <2>4
<1>8. CASE SaveActivities
  <2>1. phase = "second" /\ UNCHANGED tables BY <1>8 DEF SaveActivities
  <2>2. /\ draft'.nfts = draft.nfts
        /\ draft'.activities = draft.activities \cup {Row(item) : item \in Chunk}
    BY <1>8, SaveFacts
  <2>3. \A item : Row(item).nft # NoValue => draft.nfts[Row(item).nft] # NoValue
    BY DEF Row, Known
  <2>4. RowsFound(draft'.activities, draft'.nfts) BY <1>1, <2>1, <2>2, <2>3 DEF RowsFound
  <2>. QED BY <1>1, <2>1, <2>4
<1>9. CASE LoseActivities BY <1>1, <1>9 DEF LoseActivities
<1>10. CASE Commit BY <1>1, <1>10 DEF Commit, Release
<1>11. CASE BatchFails BY <1>1, <1>11 DEF BatchFails, Rollback, Release
<1>12. CASE Enrich
  <2>1. PICK n \in Nft :
          /\ phase' = "idle" /\ nfts[n] # NoValue
          /\ nfts' = [nfts EXCEPT ![n].traits = Traits(n)]
          /\ activities' = activities
    BY <1>12 DEF Enrich
  <2>2. [nfts[n] EXCEPT !.traits = Traits(n)] \in NftRow
    BY <1>1, <2>1 DEF NftTable, NftRow, Maybe
  <2>3. \A k \in Nft : nfts[k] # NoValue => nfts'[k] # NoValue
    BY <1>1, <2>1, <2>2, StoreAssumption DEF NftTable
  <2>4. RowsFound(activities, nfts') BY <1>1, <2>3, FoundStays
  <2>. QED BY <2>1, <2>4
<1>13. CASE ProcessAlerts \/ UNCHANGED vars BY <1>1, <1>13 DEF ProcessAlerts, vars
<1>. QED
  BY <1>2, <1>3, <1>4, <1>5, <1>6, <1>7, <1>8, <1>9, <1>10, <1>11, <1>12, <1>13
  DEF Next, LedgerNext, BatchNext

LEMMA AlertStep ==
  TypeInv /\ AtomicInv /\ LinkInv /\ AlertInv /\ [Next]_vars => AlertInv'
<1>. SUFFICES ASSUME TypeInv, AtomicInv, LinkInv, AlertInv, [Next]_vars PROVE AlertInv' OBVIOUS
<1>1. ActivitiesFound' BY FoundStep DEF AlertInv
<1>2. /\ activities \subseteq activities' /\ excused \subseteq excused'
      /\ \A n \in Nft : home[n] # NoValue => home'[n] = home[n]
  BY Grows
<1>3. activities \in SUBSET RowSet BY DEF TypeInv, StoreTypeOK
<1>4. ASSUME NEW match \in notified PROVE \E row \in activities' : Justified(match, row)'
  <2>1. PICK row \in activities : Justified(match, row) BY SoundJustified DEF AlertInv
  <2>2. Justified(match, row)' BY <1>2, <1>3, <2>1, JustifiedStays
  <2>. QED BY <1>2, <2>2
<1>5. CASE ProcessAlerts
  <2>1. PICK task \in tasks : notified' = notified \cup Matches(Reloaded(task))
    BY <1>5 DEF ProcessAlerts
  <2>2. ASSUME NEW match \in Matches(Reloaded(task))
        PROVE  \E row \in activities' : Justified(match, row)'
    <3>1. PICK row \in activities : \E alert \in MatchesOf(row) : match = <<row.id, alert>>
      BY DEF Matches, Reloaded
    <3>2. PICK alert \in MatchesOf(row) : match = <<row.id, alert>> BY <3>1
    <3>3. Justified(match, row) BY <3>2, MatchJustified DEF LinkInv, AlertInv
    <3>4. Justified(match, row)' BY <1>2, <1>3, <3>3, JustifiedStays
    <3>. QED BY <1>2, <3>4
  <2>3. AlertsSound' BY <1>4, <2>1, <2>2 DEF AlertsSound, Justified
  <2>. QED BY <1>1, <2>3 DEF AlertInv
<1>6. CASE ~ ProcessAlerts
  <2>1. notified' = notified
    <3>1. Mint \/ Accept \/ Burn \/ Fail \/ Offer => notified' = notified
      BY LedgerArrives DEF TypeInv, Arrives
    <3>. QED
      BY <1>6, <3>1 DEF Next, LedgerNext, BatchNext, Backfill, Begin, SkipNftUpdate,
         NftUpdateFails, CreateNewNft, NoteUpdate, Pass, WriteCollectionsAndNfts, SaveActivities,
         LoseActivities, Commit, BatchFails, Rollback, Enrich, vars
  <2>2. AlertsSound' BY <1>4, <2>1 DEF AlertsSound, Justified
  <2>. QED BY <1>1, <2>2 DEF AlertInv
<1>. QED BY <1>5, <1>6

-----------------------------------------------------------------------------
(* Owners.                                                                 *)

LEMMA OwnersInit == Init => OwnersKnown
<1>. SUFFICES ASSUME Init, NEW n \in Nft PROVE InOrder(n) /\ History(n) /\ DraftHistory(n)
  BY DEF OwnersKnown
<1>. USE DEF Init
<1>1. Batch = {} /\ late = {} /\ Len(queue) = 0 BY DEF Batch
<1>2. \A S : Of(n, S) \subseteq S BY DEF Of
<1>3. InOrder(n) BY <1>1, <1>2 DEF InOrder
<1>4. Pending = {} BY <1>1 DEF Pending
<1>5. History(n) BY <1>4 DEF History, Of, Typed, Movers
<1>. QED BY <1>3, <1>5 DEF DraftHistory

\* Messages, the ledger and the rows stay as they are.
LEMMA HistoryStays ==
  ASSUME NEW n, InOrder(n), History(n), UNCHANGED <<queue, late, owner, home>>,
         nfts'[n] = NoValue <=> nfts[n] = NoValue,
         nfts[n] # NoValue => nfts'[n].owner = nfts[n].owner
  PROVE  InOrder(n)' /\ History(n)'
<1>1. Batch' = Batch /\ Pending' = Pending BY DEF Batch, Pending
<1>2. InOrder(n)' BY <1>1 DEF InOrder, Of
<1>3. History(n)' BY <1>1 DEF History, Of, Typed, Movers
<1>. QED BY <1>2, <1>3

\* A new message keeps the order and the history of an NFT it does not excuse.
LEMMA ArrivalOrder ==
  ASSUME TypeInv, IdsUsed, NEW item, Arrives(item), NEW n \in Nft \ excused', InOrder(n)
  PROVE  InOrder(n)'
<1>1. /\ sent \in Nat /\ queue \in Seq(ItemSet) /\ late \in SUBSET ItemSet
      /\ item \in ItemSet /\ item.id = sent + 1
  BY DEF TypeInv, LedgerTypeOK, Arrives
<1>2. \A other \in Batch \cup late : other.id \in Nat /\ other.id < item.id
  BY <1>1 DEF IdsUsed
<1>3. CASE /\ queue' = Append(queue, item) /\ late' = late
           /\ Overtaken(item) => item.activity.token \in Maybe(excused')
  <2>1. /\ Len(queue) \in Nat /\ Len(queue') = Len(queue) + 1
        /\ \A i \in 1..Len(queue) : queue'[i] = queue[i]
        /\ queue'[Len(queue) + 1] = item
        /\ Batch' = Batch \cup {item}
    BY <1>1, <1>3, BatchAppend
  <2>2. n # NoValue BY MessageAssumption
  <2>3. item.activity.token = n => Of(n, late) = {}
    BY <1>2, <1>3, <2>2 DEF Overtaken, Of, Maybe
  <2>4. ASSUME NEW i \in 1..Len(queue'), NEW j \in 1..Len(queue'), i < j,
               queue'[i].activity.token = n, queue'[j].activity.token = n
        PROVE  queue'[i].id < queue'[j].id
    <3>1. i \in 1..Len(queue) BY <2>1, <2>4
    <3>2. CASE j \in 1..Len(queue) BY <2>1, <2>4, <3>1, <3>2 DEF InOrder
    <3>3. CASE j = Len(queue) + 1
      <4>1. queue[i] \in Batch BY <3>1 DEF Batch
      <4>. QED BY <1>2, <2>1, <3>1, <3>3, <4>1
    <3>. QED BY <2>1, <3>2, <3>3
  <2>5. \A one \in Of(n, Batch'), other \in Of(n, late') : one.id < other.id
    BY <1>3, <2>1, <2>3 DEF InOrder, Of
  <2>. QED BY <2>4, <2>5 DEF InOrder, Of
<1>4. CASE queue' = queue /\ late' = late \cup {item}
  <2>1. Batch' = Batch BY <1>4 DEF Batch
  <2>2. \A one \in Of(n, Batch'), other \in Of(n, late') : one.id < other.id
    BY <1>2, <1>4, <2>1 DEF InOrder, Of
  <2>. QED BY <1>4, <2>2 DEF InOrder, Of
<1>. QED BY <1>3, <1>4 DEF Arrives

LEMMA ArrivalPending ==
  ASSUME TypeInv, NEW item, Arrives(item)
  PROVE  Pending' = Pending \cup {item}
<1>1. queue \in Seq(ItemSet) /\ item \in ItemSet BY DEF TypeInv, LedgerTypeOK, Arrives
<1>2. CASE queue' = Append(queue, item) /\ late' = late BY <1>1, <1>2, BatchAppend DEF Pending
<1>3. CASE queue' = queue /\ late' = late \cup {item} BY <1>3 DEF Pending, Batch
<1>. QED BY <1>2, <1>3 DEF Arrives

LEMMA ArrivalHistory ==
  ASSUME TypeInv, IdsUsed, CollectionLinked, NEW item, Arrives(item),
         NEW n \in Nft \ excused', History(n)
  PROVE  History(n)'
<1>1. /\ sent \in Nat /\ item \in ItemSet /\ WellRead(item) /\ item.id = sent + 1
      /\ excused \subseteq excused' /\ nfts' = nfts
      /\ collections \in SUBSET Collection
      /\ n # NoValue /\ NoValue \notin Collection
  BY MessageAssumption, StoreAssumption DEF TypeInv, LedgerTypeOK, StoreTypeOK, Arrives, tables
<1>2. \A other \in Pending : other.id \in Nat /\ other.id < item.id
  BY <1>1 DEF IdsUsed, Pending
<1>3. Pending' = Pending \cup {item} BY ArrivalPending
<1>4. Tells(item, n) BY DEF Arrives
<1>. DEFINE told == item.activity
            new == Pending \cup {item}
<1>5. CASE /\ told.token = n /\ told.type = "mint"
           /\ home[n] = NoValue
           /\ home'[n] = <<told.from, item.taxon>> /\ owner'[n] = told.to
  <2>1. Of(n, Pending) = {} BY <1>5 DEF History
  <2>2. Of(n, new) = {item} BY <1>5, <2>1 DEF Of
  <2>3. home'[n] \in Collection BY <1>1, <1>5 DEF WellRead, Collection
  <2>4. nfts[n] = NoValue BY <1>1, <1>5 DEF CollectionLinked
  <2>5. Typed(n, new, "burn") = {} /\ Movers(n, new) = {item} /\ Typed(n, new, "mint") = {item}
    BY <1>5, <2>2 DEF Typed, Movers
  <2>. HIDE DEF new
  <2>. QED BY <1>1, <1>3, <1>5, <2>2, <2>3, <2>4, <2>5 DEF History, new, Of, Typed, Movers
<1>6. CASE /\ told.token = n /\ told.type = "offer_accepted"
           /\ owner[n] # NoValue
           /\ home'[n] = home[n] /\ owner'[n] = told.to
  <2>1. Typed(n, new, "burn") = Typed(n, Pending, "burn")
        /\ Typed(n, new, "mint") = Typed(n, Pending, "mint")
    BY <1>6 DEF Typed, Of
  <2>2. Typed(n, Pending, "burn") = {} /\ home[n] # NoValue BY <1>6 DEF History
  <2>3. item \in Movers(n, new) BY <1>6 DEF Movers, Of
  <2>4. \A other \in Movers(n, new) : other = item \/ other.id < item.id
    BY <1>2 DEF Movers, Of
  <2>5. \A other \in Movers(n, new) :
          other.activity.to = owner'[n] \/ \E later \in Movers(n, new) : other.id < later.id
    BY <1>6, <2>3, <2>4
  <2>. HIDE DEF new
  <2>6. \A one, other \in Typed(n, new, "mint") : one.id = other.id BY <2>1 DEF History
  <2>7. Typed(n, new, "mint") # {} => nfts[n] = NoValue BY <2>1 DEF History
  <2>8. Pending' = new BY <1>3 DEF new
  <2>. QED BY <1>1, <1>6, <2>1, <2>2, <2>3, <2>5, <2>6, <2>7, <2>8 DEF History, Of, Typed, Movers
<1>7. CASE /\ told.token = n /\ told.type = "burn"
           /\ owner[n] # NoValue
           /\ home'[n] = home[n] /\ owner'[n] = NoValue
  <2>1. Typed(n, new, "mint") = Typed(n, Pending, "mint") BY <1>7 DEF Typed, Of
  <2>2. home[n] # NoValue BY <1>7 DEF History
  <2>. HIDE DEF new
  <2>3. \A one, other \in Typed(n, new, "mint") : one.id = other.id BY <2>1 DEF History
  <2>4. Typed(n, new, "mint") # {} => nfts[n] = NoValue BY <2>1 DEF History
  <2>5. Pending' = new BY <1>3 DEF new
  <2>. QED BY <1>1, <1>7, <2>2, <2>3, <2>4, <2>5 DEF History, Of, Typed, Movers
<1>8. CASE /\ told.token = n => told.type = "offer_created" /\ owner[n] # NoValue
           /\ home'[n] = home[n] /\ owner'[n] = owner[n]
  <2>1. /\ Typed(n, new, "burn") = Typed(n, Pending, "burn")
        /\ Typed(n, new, "mint") = Typed(n, Pending, "mint")
        /\ Movers(n, new) = Movers(n, Pending)
    BY <1>8 DEF Typed, Movers, Of
  <2>2. Of(n, new) # {} => home[n] # NoValue BY <1>8 DEF History, Of
  <2>. HIDE DEF new
  <2>3. /\ owner[n] # NoValue => home[n] # NoValue
        /\ Typed(n, new, "burn") # {} => owner[n] = NoValue
        /\ \A one, other \in Typed(n, new, "mint") : one.id = other.id
        /\ Typed(n, new, "mint") # {} => nfts[n] = NoValue
        /\ owner[n] # NoValue =>
             \A one \in Movers(n, new) :
               \/ one.activity.to = owner[n]
               \/ \E other \in Movers(n, new) : one.id < other.id
        /\ owner[n] # NoValue /\ nfts[n] # NoValue /\ Movers(n, new) = {} =>
             nfts[n].owner = owner[n]
    BY <2>1 DEF History
  <2>4. Pending' = new BY <1>3 DEF new
  <2>. QED BY <1>1, <1>8, <2>2, <2>3, <2>4 DEF History, Of, Typed, Movers
<1>. QED BY <1>4, <1>5, <1>6, <1>7, <1>8 DEF Tells

\* A late message is put behind those sent since.
LEMMA BackfillOwners ==
  ASSUME TypeInv, IdsUsed, Backfill, NEW n \in Nft \ excused', InOrder(n), History(n)
  PROVE  InOrder(n)' /\ History(n)'
<1>1. PICK item \in late :
        /\ late' = late \ {item} /\ queue' = Append(queue, item)
        /\ excused' = excused \cup OvertakenToken(item)
        /\ UNCHANGED <<owner, home, tables>>
  BY DEF Backfill
<1>2. /\ queue \in Seq(ItemSet) /\ late \in SUBSET ItemSet /\ sent \in Nat /\ n # NoValue
  BY MessageAssumption DEF TypeInv, LedgerTypeOK
<1>3. /\ Len(queue) \in Nat /\ Len(queue') = Len(queue) + 1
      /\ \A i \in 1..Len(queue) : queue'[i] = queue[i]
      /\ queue'[Len(queue) + 1] = item
      /\ Batch' = Batch \cup {item}
  BY <1>1, <1>2, BatchAppend
<1>4. Pending' = Pending BY <1>1, <1>3 DEF Pending
<1>5. History(n)' BY <1>1, <1>4 DEF History, Of, Typed, Movers, tables
<1>6. ASSUME NEW i \in 1..Len(queue'), NEW j \in 1..Len(queue'), i < j,
             queue'[i].activity.token = n, queue'[j].activity.token = n
      PROVE  queue'[i].id < queue'[j].id
  <2>1. i \in 1..Len(queue) BY <1>3, <1>6
  <2>2. CASE j \in 1..Len(queue) BY <1>3, <1>6, <2>1, <2>2 DEF InOrder
  <2>3. CASE j = Len(queue) + 1
    <3>1. queue[i] \in Of(n, Batch) BY <1>3, <1>6, <2>1 DEF Batch, Of
    <3>2. item \in Of(n, late) BY <1>1, <1>3, <1>6, <2>3 DEF Of
    <3>. QED BY <1>3, <2>1, <2>3, <3>1, <3>2 DEF InOrder
  <2>. QED BY <1>3, <2>2, <2>3
<1>7. ASSUME NEW one \in Of(n, Batch'), NEW other \in Of(n, late') PROVE one.id < other.id
  <2>1. other \in Of(n, late) /\ other # item BY <1>1 DEF Of
  <2>2. CASE one = item
    <3>1. item.activity.token = n /\ other.activity.token = n BY <1>7, <2>2 DEF Of
    <3>2. ~ Overtaken(item) BY <1>1, <1>2, <3>1 DEF OvertakenToken
    <3>3. ~ other.id < item.id BY <2>1, <3>1, <3>2 DEF Overtaken, Of
    <3>4. other.id \in Nat /\ item.id \in Nat /\ other.id # item.id
      BY <1>1, <1>2, <2>1 DEF IdsUsed, Of
    <3>. QED BY <2>2, <3>3, <3>4
  <2>3. CASE one \in Of(n, Batch) BY <2>1, <2>3 DEF InOrder
  <2>. QED BY <1>3, <2>2, <2>3 DEF Of
<1>8. InOrder(n)' BY <1>6, <1>7 DEF InOrder, Of
<1>. QED BY <1>5, <1>8

\* The first pass reads one message.
LEMMA PassReads ==
  ASSUME TypeInv, Pass
  PROVE  /\ phase = "first" /\ phase' = "first" /\ next <= ChunkEnd
         /\ next \in 1..Len(queue) /\ queue[next] \in Pending /\ queue[next] \in Unread
         /\ Current = queue[next].activity
         /\ Unread = Unread' \cup {queue[next]} /\ Unread' \subseteq Pending
         /\ UNCHANGED <<queue, late, owner, home, excused, nfts>>
<1>1. /\ phase = "first" /\ phase' = "first" /\ next <= ChunkEnd /\ next' = next + 1
      /\ UNCHANGED <<queue, late, owner, home, excused, nfts>>
  BY DEF Pass, ledger, tables
<1>2. next \in 1..Len(queue) /\ queue[next] \in Batch /\ Current = queue[next].activity
  BY <1>1, CurrentFacts
<1>3. Len(queue) \in Nat BY DEF TypeInv, LedgerTypeOK
<1>4. Unread' = {queue[i] : i \in (next + 1)..Len(queue)} \cup late BY <1>1 DEF Unread
<1>5. \A i : i \in next..Len(queue) <=> i = next \/ i \in (next + 1)..Len(queue)
  BY <1>2, <1>3
<1>6. Unread = Unread' \cup {queue[next]} BY <1>4, <1>5 DEF Unread
<1>7. (next + 1)..Len(queue) \subseteq 1..Len(queue) BY <1>2, <1>3
<1>8. Unread' \subseteq Pending BY <1>4, <1>7 DEF Pending, Batch
<1>. QED BY <1>1, <1>2, <1>6, <1>8 DEF Pending

\* The last message that moves an NFT leaves it with its owner.
LEMMA LastMover ==
  ASSUME TypeInv, IdsUsed, Pass, NEW n \in Nft, InOrder(n), History(n),
         owner[n] # NoValue, Movers(n, Unread') = {}, queue[next] \in Movers(n, Pending)
  PROVE  Current.to = owner[n]
<1>1. /\ next \in 1..Len(queue) /\ Current = queue[next].activity
      /\ UNCHANGED <<queue, late>> /\ next' = next + 1
  BY PassReads DEF Pass
<1>2. /\ queue \in Seq(ItemSet) /\ Len(queue) \in Nat
      /\ \A item \in Batch \cup late : item.id \in Nat
  BY DEF TypeInv, LedgerTypeOK, IdsUsed
<1>. DEFINE item == queue[next]
<1>3. SUFFICES ASSUME NEW other \in Movers(n, Pending), item.id < other.id PROVE FALSE
  BY <1>1 DEF History
<1>4. item.activity.token = n /\ other.activity.token = n BY DEF Movers, Of
<1>5. other \notin Unread' BY <1>3 DEF Movers, Of
<1>6. PICK j \in 1..Len(queue) : other = queue[j]
  BY <1>1, <1>5 DEF Movers, Of, Pending, Batch, Unread
<1>7. ~ j \in (next + 1)..Len(queue) BY <1>1, <1>5, <1>6 DEF Unread
<1>8. j <= next BY <1>1, <1>2, <1>7
<1>9. item.id \in Nat /\ other.id \in Nat BY <1>1, <1>2, <1>6 DEF Batch
<1>10. CASE j = next BY <1>3, <1>6, <1>9, <1>10
<1>11. CASE j < next
  <2>1. other.id < item.id BY <1>1, <1>4, <1>6, <1>11 DEF InOrder
  <2>. QED BY <1>3, <1>9, <2>1
<1>. QED BY <1>1, <1>8, <1>10, <1>11

\* A message that does not concern an NFT, or only its offers.
LEMMA PassBy ==
  ASSUME TypeInv, Pass, NEW n \in Nft, ~ aborted, DraftHistory(n),
         queue[next] \notin Movers(n, Unread),
         draft'.nfts[n] = draft.nfts[n], toUpdate'[n] = toUpdate[n]
  PROVE  DraftHistory(n)'
<1>1. /\ phase = "first" /\ phase' = "first" /\ owner' = owner
      /\ Unread = Unread' \cup {queue[next]}
  BY PassReads
<1>2. Movers(n, Unread) = Movers(n, Unread') /\ Typed(n, Unread', "mint") \subseteq Typed(n, Unread, "mint")
  BY <1>1 DEF Movers, Of, Typed
<1>3. Believed(n)' = Believed(n) BY <1>1 DEF Believed
<1>4. /\ Typed(n, Unread', "mint") # {} => draft'.nfts[n] = NoValue
      /\ owner[n] # NoValue /\ draft'.nfts[n] # NoValue /\ Movers(n, Unread') = {} =>
           Believed(n)' = owner[n]
  BY <1>1, <1>2, <1>3 DEF DraftHistory
<1>. QED BY <1>1, <1>4 DEF DraftHistory, Typed, Movers, Of

\* Each message of the first pass.
LEMMA PassOwners ==
  ASSUME TypeInv, IdsUsed, NEW n \in Nft, InOrder(n), History(n), DraftHistory(n),
         SkipNftUpdate \/ NftUpdateFails \/ CreateNewNft \/ NoteUpdate
  PROVE  DraftHistory(n)'
<1>. DEFINE item == queue[next]
<1>1. Pass BY DEF SkipNftUpdate, NftUpdateFails, CreateNewNft, NoteUpdate
<1>2. /\ phase = "first" /\ phase' = "first" /\ item \in Pending /\ item \in Unread
      /\ Current = item.activity /\ next <= ChunkEnd
      /\ Unread = Unread' \cup {item} /\ Unread' \subseteq Pending
      /\ owner' = owner /\ next \in 1..Len(queue)
  BY <1>1, PassReads
<1>3. /\ draft \in Tables /\ draft.nfts \in NftTable /\ n # NoValue
      /\ toUpdate \in [Nft -> Account \cup {"none", "touch"}]
      /\ draft.nfts[n] = NoValue => toUpdate[n] = "none"
      /\ Account \cap {"none", "touch"} = {} /\ NoValue \notin NftRow
  BY <1>2, MessageAssumption, StoreAssumption DEF TypeInv, StoreTypeOK, Tables
<1>4. CASE aborted' BY <1>4 DEF DraftHistory
<1>5. CASE SkipNftUpdate /\ ~ aborted'
  <2>1. UNCHANGED <<draft, aborted, toUpdate>> BY <1>5 DEF SkipNftUpdate, open
  <2>2. CASE item \notin Movers(n, Unread) BY <1>1, <1>5, <2>1, <2>2, PassBy
  <2>3. CASE item \in Movers(n, Unread)
    <3>1. Current.token = n /\ Current.type \in {"mint", "offer_accepted"}
      BY <1>2, <2>3 DEF Movers, Of
    <3>2. \/ Current.type = "mint" /\ Known(n)
          \/ ~ Known(n)
      BY <1>3, <1>5, <2>1, <3>1 DEF SkipNftUpdate
    <3>3. Current.type = "mint" => draft.nfts[n] = NoValue
      <4>1. Current.type = "mint" => item \in Typed(n, Unread, "mint")
        BY <1>2, <3>1 DEF Typed, Of
      <4>. QED BY <1>2, <1>5, <2>1, <4>1 DEF DraftHistory
    <3>4. draft'.nfts[n] = NoValue BY <1>3, <2>1, <3>2, <3>3 DEF Known
    <3>. QED BY <3>4 DEF DraftHistory
  <2>. QED BY <2>2, <2>3
<1>6. CASE CreateNewNft /\ ~ aborted'
  <2>1. UNCHANGED <<aborted, toUpdate>> BY <1>6 DEF CreateNewNft
  <2>2. PICK collection \in Collection, known \in BOOLEAN :
           /\ Current.token \in Nft /\ Current.type = "mint"
           /\ draft.nfts[Current.token] = NoValue
           /\ NewRow(known) \in NftRow
           /\ draft'.nfts = [draft.nfts EXCEPT ![Current.token] = NewRow(known)]
    BY <1>6, CreateFacts
  <2>3. CASE Current.token # n
    <3>1. item \notin Movers(n, Unread) BY <1>2, <2>3 DEF Movers, Of
    <3>2. draft'.nfts[n] = draft.nfts[n] BY <1>3, <2>2, <2>3 DEF NftTable
    <3>. QED BY <1>1, <1>6, <2>1, <3>1, <3>2, PassBy
  <2>4. CASE Current.token = n
    <3>1. item \in Typed(n, Pending, "mint") /\ item \in Movers(n, Pending)
      BY <1>2, <2>2, <2>4 DEF Typed, Movers, Of
    <3>2. Typed(n, Unread', "mint") = {}
      <4>1. SUFFICES ASSUME NEW other \in Typed(n, Unread', "mint") PROVE FALSE OBVIOUS
      <4>2. other \in Typed(n, Pending, "mint") /\ other \in Unread'
        BY <1>2 DEF Typed, Of
      <4>3. other.id = item.id BY <3>1, <4>2 DEF History
      <4>4. Unread' = {queue[i] : i \in (next + 1)..Len(queue)} \cup late
        BY <1>1 DEF Unread, Pass, ledger
      <4>5. Len(queue) \in Nat BY DEF TypeInv, LedgerTypeOK
      <4>6. CASE other \in late
        <5>1. item \in Batch BY <1>2 DEF Batch
        <5>. QED BY <4>3, <4>6, <5>1 DEF IdsUsed, Ids
      <4>7. CASE \E i \in (next + 1)..Len(queue) : other = queue[i]
        <5>1. PICK i \in (next + 1)..Len(queue) : other = queue[i] BY <4>7
        <5>2. i \in 1..Len(queue) /\ i # next BY <1>2, <4>5, <5>1
        <5>. QED BY <1>2, <4>3, <5>1, <5>2 DEF IdsUsed
      <4>. QED BY <4>2, <4>4, <4>6, <4>7
    <3>3. draft'.nfts[n] = NewRow(known) BY <1>3, <2>2, <2>4 DEF NftTable
    <3>4. toUpdate'[n] \notin Account BY <1>3, <2>1, <2>2, <2>4
    <3>5. Believed(n)' = Current.to BY <1>2, <3>3, <3>4 DEF Believed, NewRow
    <3>6. owner[n] # NoValue /\ Movers(n, Unread') = {} => Believed(n)' = owner[n]
      BY <1>1, <3>1, <3>5, LastMover
    <3>. QED BY <1>2, <3>2, <3>6 DEF DraftHistory, Typed, Movers, Of
  <2>. QED BY <2>3, <2>4
<1>7. CASE NoteUpdate /\ ~ aborted'
  <2>1. /\ UNCHANGED <<draft, aborted>>
        /\ Current.type \in {"offer_accepted", "sale", "burn"} /\ Known(Current.token)
        /\ toUpdate' = [toUpdate EXCEPT ![Current.token] =
                          IF Current.type = "burn" THEN "touch" ELSE Current.to]
    BY <1>7 DEF NoteUpdate, open
  <2>2. /\ Current \in ActivitySet /\ Current.token \in Maybe(Nft) /\ WellRead(item)
    BY <1>2, CurrentFacts
  <2>3. Current.type \in {"offer_accepted", "burn"} BY <2>1, <2>2 DEF ActivitySet
  <2>4. CASE Current.token # n
    <3>1. item \notin Movers(n, Unread) BY <1>2, <2>4 DEF Movers, Of
    <3>2. toUpdate'[n] = toUpdate[n] BY <1>3, <2>1, <2>4
    <3>. QED BY <1>1, <1>7, <2>1, <3>1, <3>2, PassBy
  <2>5. CASE Current.token = n /\ Current.type = "burn"
    <3>1. item \in Typed(n, Pending, "burn") BY <1>2, <2>5 DEF Typed, Of
    <3>2. owner[n] = NoValue BY <3>1 DEF History
    <3>3. Typed(n, Unread', "mint") # {} => draft.nfts[n] = NoValue
      <4>1. Typed(n, Unread', "mint") \subseteq Typed(n, Unread, "mint")
        BY <1>2 DEF Typed, Of
      <4>. QED BY <1>2, <1>7, <2>1, <4>1 DEF DraftHistory
    <3>. QED BY <1>2, <2>1, <3>2, <3>3 DEF DraftHistory, Typed, Of
  <2>6. CASE Current.token = n /\ Current.type = "offer_accepted"
    <3>1. item \in Movers(n, Pending) BY <1>2, <2>6 DEF Movers, Of
    <3>2. Typed(n, Unread', "mint") # {} => draft.nfts[n] = NoValue
      <4>1. Typed(n, Unread', "mint") \subseteq Typed(n, Unread, "mint")
        BY <1>2 DEF Typed, Of
      <4>. QED BY <1>2, <1>7, <2>1, <4>1 DEF DraftHistory
    <3>3. Current.to \in Account BY <1>2, <1>3, <2>2, <2>6 DEF WellRead
    <3>4. toUpdate'[n] = Current.to BY <1>3, <2>1, <2>6
    <3>5. Believed(n)' = Current.to BY <1>2, <3>3, <3>4 DEF Believed
    <3>6. owner[n] # NoValue /\ Movers(n, Unread') = {} => Believed(n)' = owner[n]
      BY <1>1, <3>1, <3>5, LastMover
    <3>. QED BY <1>2, <2>1, <3>2, <3>6 DEF DraftHistory, Typed, Movers, Of
  <2>. QED BY <2>3, <2>4, <2>5, <2>6
<1>8. NftUpdateFails => aborted' = TRUE BY DEF NftUpdateFails
<1>. QED BY <1>4, <1>5, <1>6, <1>7, <1>8

\* The commit.
LEMMA CommitOwners ==
  ASSUME TypeInv, Commit, NEW n \in Nft \ excused', InOrder(n), History(n), DraftHistory(n)
  PROVE  InOrder(n)' /\ History(n)'
<1>1. /\ phase = "commit" /\ phase' = "idle" /\ queue' = <<>>
      /\ UNCHANGED <<late, owner, home>>
      /\ nfts' = IF aborted THEN nfts ELSE draft.nfts
  BY DEF Commit, Release, tables
<1>2. Batch' = {} /\ Len(queue') = 0
  <2>1. Len(queue') = 0 BY <1>1
  <2>. QED BY <2>1 DEF Batch
<1>3. Pending' = late BY <1>1, <1>2 DEF Pending
<1>4. Unread = late
  <2>1. Len(queue) \in Nat /\ next \in Nat /\ Len(queue) < next
    BY <1>1 DEF TypeInv, LedgerTypeOK, Positions
  <2>2. next..Len(queue) = {} BY <2>1
  <2>. QED BY <2>2 DEF Unread
<1>5. InOrder(n)' BY <1>1, <1>2 DEF InOrder, Of
<1>6. /\ Of(n, late) \subseteq Of(n, Pending)
      /\ Typed(n, late, "burn") \subseteq Typed(n, Pending, "burn")
      /\ Typed(n, late, "mint") \subseteq Typed(n, Pending, "mint")
      /\ Movers(n, late) \subseteq Movers(n, Pending)
  BY DEF Pending, Of, Typed, Movers
<1>7. ASSUME owner[n] # NoValue, NEW item \in Movers(n, late)
      PROVE  item.activity.to = owner[n] \/ \E other \in Movers(n, late) : item.id < other.id
  <2>1. SUFFICES ASSUME NEW other \in Movers(n, Pending), item.id < other.id
                 PROVE  other \in Movers(n, late)
    BY <1>6, <1>7 DEF History
  <2>2. CASE other \in late BY <2>2 DEF Movers, Of
  <2>3. CASE other \in Batch
    <3>1. other \in Of(n, Batch) /\ item \in Of(n, late) BY <2>3 DEF Movers, Of
    <3>2. other.id < item.id BY <3>1 DEF InOrder
    <3>3. other.id \in Nat /\ item.id \in Nat
      BY <2>3, BatchTyped DEF TypeInv, LedgerTypeOK, ItemSet, Movers, Of
    <3>. QED BY <2>1, <3>2, <3>3
  <2>. QED BY <2>1, <2>2, <2>3 DEF Movers, Of, Pending
<1>8. Typed(n, late, "mint") # {} => nfts'[n] = NoValue
  <2>1. CASE aborted BY <1>1, <1>6, <2>1 DEF History
  <2>2. CASE ~ aborted BY <1>1, <1>4, <2>2 DEF DraftHistory
  <2>. QED BY <2>1, <2>2
<1>9. owner[n] # NoValue /\ nfts'[n] # NoValue /\ Movers(n, late) = {} => nfts'[n].owner = owner[n]
  <2>1. CASE aborted
    <3>1. n \notin {item.activity.token : item \in Batch}
      <4>1. n # NoValue BY MessageAssumption
      <4>. QED BY <2>1, <4>1 DEF Commit
    <3>2. Movers(n, Pending) = Movers(n, late) BY <3>1 DEF Movers, Of, Pending
    <3>. QED BY <1>1, <2>1, <3>2 DEF History
  <2>2. CASE ~ aborted BY <1>1, <1>4, <2>2 DEF DraftHistory, Believed
  <2>. QED BY <2>1, <2>2
<1>10. /\ owner[n] # NoValue => home[n] # NoValue
       /\ Of(n, late) # {} => home[n] # NoValue
       /\ Typed(n, late, "burn") # {} => owner[n] = NoValue
       /\ \A item, other \in Typed(n, late, "mint") : item.id = other.id
  BY <1>6 DEF History
<1>11. History(n)' BY <1>1, <1>3, <1>7, <1>8, <1>9, <1>10 DEF History, Of, Typed, Movers
<1>. QED BY <1>5, <1>11

LEMMA OwnersStep ==
  TypeInv /\ AtomicInv /\ LinkInv /\ OwnersKnown /\ [Next]_vars => OwnersKnown'
<1>. SUFFICES ASSUME TypeInv, AtomicInv, LinkInv, OwnersKnown, [Next]_vars,
                     NEW n \in Nft \ excused'
              PROVE  InOrder(n)' /\ History(n)' /\ DraftHistory(n)'
  BY DEF OwnersKnown
<1>1. /\ n \in Nft \ excused /\ InOrder(n) /\ History(n) /\ DraftHistory(n)
      /\ IdsUsed /\ CollectionLinked
  BY Grows DEF OwnersKnown, AtomicInv, LinkInv
<1>2. /\ nfts \in NftTable /\ queue \in Seq(ItemSet) /\ Len(queue) \in Nat
      /\ phase # "idle" => draft \in Tables
      /\ Account \cap {"none", "touch"} = {} /\ NoValue \notin NftRow
  BY BatchTyped, StoreAssumption DEF TypeInv, LedgerTypeOK, StoreTypeOK
<1>. USE DEF tables, open, chunk, ledger
<1>3. ASSUME NEW item, Arrives(item) PROVE InOrder(n)' /\ History(n)' /\ DraftHistory(n)'
  <2>1. phase' = "idle" BY <1>3 DEF Arrives
  <2>. QED BY <1>1, <1>3, <2>1, ArrivalOrder, ArrivalHistory DEF DraftHistory
<1>4. CASE Backfill
  <2>1. phase' = "idle" BY <1>4 DEF Backfill
  <2>. QED BY <1>1, <1>4, <2>1, BackfillOwners DEF DraftHistory
<1>5. CASE Begin
  <2>1. /\ phase = "idle" /\ phase' = "first" /\ draft'.nfts = nfts
        /\ UNCHANGED <<ledger, tables, chunk>>
    BY <1>5 DEF Begin, Saved
  <2>2. next = 1 /\ toUpdate = NoUpdate BY <2>1 DEF TypeInv, Positions
  <2>3. Unread' = Pending BY <2>1, <2>2 DEF Unread, Pending, Batch
  <2>4. Believed(n)' = nfts[n].owner BY <1>1, <1>2, <2>1, <2>2 DEF Believed, NoUpdate
  <2>5. InOrder(n)' /\ History(n)' BY <1>1, <2>1, HistoryStays
  <2>6. DraftHistory(n)'
    BY <1>1, <2>1, <2>3, <2>4 DEF DraftHistory, History, Typed, Movers, Of
  <2>. QED BY <2>5, <2>6
<1>6. CASE SkipNftUpdate \/ NftUpdateFails \/ CreateNewNft \/ NoteUpdate
  <2>1. UNCHANGED <<ledger, tables>>
    BY <1>6 DEF SkipNftUpdate, NftUpdateFails, CreateNewNft, NoteUpdate, Pass
  <2>. QED BY <1>1, <1>6, <2>1, HistoryStays, PassOwners
<1>7. CASE WriteCollectionsAndNfts
  <2>1. /\ phase = "first" /\ phase' = "second"
        /\ UNCHANGED <<ledger, tables, aborted, chunk>>
    BY <1>7 DEF WriteCollectionsAndNfts, AfterFirstPass
  <2>2. /\ draft'.nfts[n] = NoValue <=> draft.nfts[n] = NoValue
        /\ draft.nfts[n] # NoValue =>
             draft'.nfts[n].owner =
               IF toUpdate[n] \in Account THEN toUpdate[n] ELSE draft.nfts[n].owner
    BY <1>7, WriteFacts
  <2>3. Unread' = Unread BY <2>1 DEF Unread
  <2>4. draft.nfts[n] # NoValue => Believed(n)' = Believed(n)
    BY <2>1, <2>2 DEF Believed
  <2>5. DraftHistory(n)'
    BY <1>1, <2>1, <2>2, <2>3, <2>4 DEF DraftHistory, Typed, Movers, Of
  <2>. QED BY <1>1, <2>1, <2>5, HistoryStays
<1>8. CASE SaveActivities
  <2>1. /\ phase = "second" /\ Advance /\ UNCHANGED <<ledger, tables, aborted>>
    BY <1>8 DEF SaveActivities
  <2>2. draft'.nfts = draft.nfts BY <1>8, SaveFacts
  <2>3. next' = start + ChunkSize /\ toUpdate' = NoUpdate BY <2>1 DEF Advance
  <2>4. Unread' = Unread
    <3>1. start \in Nat \ {0} /\ start <= Len(queue) /\ next = ChunkEnd + 1
      BY <2>1 DEF TypeInv, Positions
    <3>2. \A i : i \in next..Len(queue) <=> i \in (start + ChunkSize)..Len(queue)
      BY <1>2, <3>1, ChunkFacts
    <3>3. Unread' = {queue[i] : i \in (start + ChunkSize)..Len(queue)} \cup late
      BY <2>1, <2>3 DEF Unread
    <3>4. next..Len(queue) = (start + ChunkSize)..Len(queue) BY <3>2
    <3>. QED BY <3>3, <3>4 DEF Unread
  <2>5. Believed(n)' = Believed(n)
    BY <1>1, <1>2, <2>1, <2>2, <2>3 DEF Believed, NoUpdate
  <2>6. DraftHistory(n)'
    BY <1>1, <2>1, <2>2, <2>4, <2>5 DEF DraftHistory, Typed, Movers, Of
  <2>. QED BY <1>1, <2>1, <2>6, HistoryStays
<1>9. CASE LoseActivities
  <2>1. aborted' = TRUE /\ UNCHANGED <<ledger, tables>> BY <1>9 DEF LoseActivities
  <2>. QED BY <1>1, <2>1, HistoryStays DEF DraftHistory
<1>10. CASE Commit
  <2>1. phase' = "idle" BY <1>10 DEF Commit, Release
  <2>. QED BY <1>1, <1>10, <2>1, CommitOwners DEF DraftHistory
<1>11. CASE BatchFails
  <2>1. phase' = "idle" /\ UNCHANGED <<ledger, tables>>
    BY <1>11 DEF BatchFails, Rollback, Release
  <2>. QED BY <1>1, <2>1, HistoryStays DEF DraftHistory
<1>12. CASE Enrich
  <2>1. PICK k \in Nft :
          /\ phase' = "idle" /\ nfts[k] # NoValue
          /\ nfts' = [nfts EXCEPT ![k].traits = Traits(k)]
          /\ UNCHANGED ledger
    BY <1>12 DEF Enrich
  <2>2. nfts[k] \in NftRow BY <1>2, <2>1 DEF NftTable, Maybe
  <2>3. nfts'[k] = [nfts[k] EXCEPT !.traits = Traits(k)] BY <1>2, <2>1 DEF NftTable
  <2>4. nfts'[k] \in NftRow /\ nfts'[k].owner = nfts[k].owner BY <2>2, <2>3 DEF NftRow
  <2>5. n # k => nfts'[n] = nfts[n] BY <1>2, <2>1 DEF NftTable
  <2>6. /\ nfts'[n] = NoValue <=> nfts[n] = NoValue
        /\ nfts[n] # NoValue => nfts'[n].owner = nfts[n].owner
    BY <1>2, <2>1, <2>4, <2>5
  <2>. QED BY <1>1, <2>1, <2>6, HistoryStays DEF DraftHistory
<1>13. CASE ProcessAlerts \/ UNCHANGED vars
  <2>1. UNCHANGED <<ledger, tables, open, phase, chunk>>
    BY <1>13 DEF ProcessAlerts, vars
  <2>2. Unread' = Unread /\ Believed(n)' = Believed(n) BY <2>1 DEF Unread, Believed
  <2>3. DraftHistory(n)' BY <1>1, <2>1, <2>2 DEF DraftHistory, Typed, Movers, Of
  <2>. QED BY <1>1, <2>1, <2>3, HistoryStays
<1>14. Mint \/ Accept \/ Burn \/ Fail \/ Offer => InOrder(n)' /\ History(n)' /\ DraftHistory(n)'
  BY <1>3, LedgerArrives DEF TypeInv
<1>. QED
  BY <1>4, <1>5, <1>6, <1>7, <1>8, <1>9, <1>10, <1>11, <1>12, <1>13, <1>14
  DEF Next, LedgerNext, BatchNext

\* With nothing pending, the row of an NFT is what its history says.
LEMMA OwnersFollow == TypeInv /\ OwnersKnown => OwnerFollowsLedger
<1>. SUFFICES ASSUME TypeInv, OwnersKnown, Quiet, NEW n \in Nft \ excused,
                     nfts[n] # NoValue, owner[n] # NoValue
              PROVE  nfts[n].owner = owner[n]
  BY DEF OwnerFollowsLedger
<1>1. Batch = {} /\ late = {}
  <2>1. Len(queue) = 0 BY DEF Quiet
  <2>. QED BY <2>1 DEF Quiet, Batch
<1>2. Movers(n, Pending) = {} BY <1>1 DEF Pending, Movers, Of
<1>. QED BY <1>2 DEF OwnersKnown, History

-----------------------------------------------------------------------------
(* The verdict of the classifier travels with its message.                 *)

AllJudged == \A item \in Batch \cup late : Judged(item)

LEMMA JudgedStep == TypeInv /\ AllJudged /\ [Next]_vars => AllJudged'
<1>. SUFFICES ASSUME TypeInv, AllJudged, [Next]_vars PROVE AllJudged' OBVIOUS
<1>1. queue \in Seq(ItemSet) /\ late \in SUBSET ItemSet BY DEF TypeInv, LedgerTypeOK
<1>. USE DEF ledger
<1>2. ASSUME NEW item, Arrives(item) PROVE AllJudged'
  <2>1. Judged(item) BY <1>2 DEF Arrives
  <2>2. Pending' = Pending \cup {item} BY <1>2, ArrivalPending
  <2>. QED BY <2>1, <2>2 DEF AllJudged, Pending, Judged
<1>3. CASE Backfill
  <2>1. PICK item \in late : late' = late \ {item} /\ queue' = Append(queue, item)
    BY <1>3 DEF Backfill
  <2>2. Batch' = Batch \cup {item} BY <1>1, <2>1, BatchAppend
  <2>. QED BY <2>1, <2>2 DEF AllJudged, Judged
<1>4. CASE Commit
  <2>1. queue' = <<>> /\ late' = late BY <1>4 DEF Commit
  <2>2. Batch' = {}
    <3>1. Len(queue') = 0 BY <2>1
    <3>. QED BY <3>1 DEF Batch
  <2>. QED BY <2>1, <2>2 DEF AllJudged, Judged
<1>5. CASE UNCHANGED ledger BY <1>5 DEF AllJudged, Judged, Batch
<1>6. Mint \/ Accept \/ Burn \/ Fail \/ Offer => AllJudged'
  BY <1>2, LedgerArrives DEF TypeInv
<1>. QED
  BY <1>3, <1>4, <1>5, <1>6 DEF Next, LedgerNext, BatchNext, Begin, SkipNftUpdate,
     NftUpdateFails, CreateNewNft, NoteUpdate, Pass, WriteCollectionsAndNfts, SaveActivities,
     LoseActivities, BatchFails, Rollback, Enrich, ProcessAlerts, vars

-----------------------------------------------------------------------------
(* The promise of BatchStore.                                              *)

\* The open transaction of a batch holds what the tables do.
DraftHolds ==
  /\ sent <= MaxMessages
  /\ phase # "idle" =>
       /\ queue # <<>>
       /\ collections \subseteq draft.collections
       /\ \A n \in Nft : nfts[n] # NoValue => draft.nfts[n] # NoValue

\* Only the ledger sends messages, and no step of the batch takes rows out of
\* the open transaction.
LEMMA HoldsStays ==
  ASSUME DraftHolds, UNCHANGED <<sent, queue, tables>>,
         \/ phase' = "idle"
         \/ /\ phase # "idle"
            /\ draft.collections \subseteq draft'.collections
            /\ \A n \in Nft : draft.nfts[n] # NoValue => draft'.nfts[n] # NoValue
  PROVE  DraftHolds'
BY DEF DraftHolds, tables

LEMMA HoldsStep == TypeInv /\ DraftHolds /\ [Next]_vars => DraftHolds'
<1>. SUFFICES ASSUME TypeInv, DraftHolds, [Next]_vars PROVE DraftHolds' OBVIOUS
<1>. USE DEF ledger, open, chunk
<1>1. CASE Mint \/ Accept \/ Burn \/ Fail \/ Offer
  <2>1. phase' = "idle" /\ sent' = sent + 1 BY <1>1, LedgerArrives DEF TypeInv, Arrives
  <2>2. sent < MaxMessages BY <1>1 DEF Mint, Accept, Burn, Fail, Offer, MaySend
  <2>3. sent \in Nat /\ MaxMessages \in Nat BY StoreAssumption DEF TypeInv, LedgerTypeOK
  <2>. QED BY <2>1, <2>2, <2>3 DEF DraftHolds
<1>2. CASE Backfill BY <1>2 DEF Backfill, DraftHolds
<1>3. CASE Begin BY <1>3 DEF Begin, Saved, DraftHolds, tables
<1>4. CASE SkipNftUpdate \/ NftUpdateFails \/ NoteUpdate
  <2>1. Pass /\ draft' = draft BY <1>4 DEF SkipNftUpdate, NftUpdateFails, NoteUpdate
  <2>. QED BY <2>1, HoldsStays DEF Pass
<1>5. CASE CreateNewNft
  <2>1. Pass BY <1>5 DEF CreateNewNft
  <2>2. draft \in Tables BY <2>1 DEF Pass, TypeInv, StoreTypeOK
  <2>3. PICK known \in BOOLEAN :
          /\ Current.token \in Nft /\ draft.nfts[Current.token] = NoValue
          /\ draft'.collections = draft.collections
          /\ draft'.nfts = [draft.nfts EXCEPT ![Current.token] = NewRow(known)]
    BY <1>5, CreateFacts
  <2>4. \A n \in Nft : draft.nfts[n] # NoValue => draft'.nfts[n] = draft.nfts[n]
    BY <2>2, <2>3 DEF Tables, NftTable
  <2>. QED BY <2>1, <2>3, <2>4, HoldsStays DEF Pass
<1>6. CASE WriteCollectionsAndNfts
  <2>1. phase = "first" /\ UNCHANGED <<sent, queue, tables>>
    BY <1>6 DEF WriteCollectionsAndNfts, AfterFirstPass
  <2>. QED BY <1>6, <2>1, WriteFacts, HoldsStays
<1>7. CASE SaveActivities
  <2>1. phase = "second" /\ UNCHANGED <<sent, queue, tables>> BY <1>7 DEF SaveActivities
  <2>. QED BY <1>7, <2>1, SaveFacts, HoldsStays
<1>8. CASE LoseActivities
  <2>1. phase = "second" /\ draft' = draft /\ UNCHANGED <<sent, queue, tables>>
    BY <1>8 DEF LoseActivities
  <2>. QED BY <2>1, HoldsStays
<1>9. CASE Commit BY <1>9 DEF Commit, Release, DraftHolds
<1>10. CASE BatchFails
  <2>1. phase' = "idle" /\ UNCHANGED <<sent, queue, tables>>
    BY <1>10 DEF BatchFails, Rollback, Release
  <2>. QED BY <2>1, HoldsStays
<1>11. CASE Enrich BY <1>11 DEF Enrich, DraftHolds
<1>12. CASE ProcessAlerts \/ UNCHANGED vars
  <2>1. UNCHANGED <<sent, queue, tables, phase, draft>> BY <1>12 DEF ProcessAlerts, vars
  <2>. QED BY <2>1 DEF DraftHolds, tables
<1>. QED
  BY <1>1, <1>2, <1>3, <1>4, <1>5, <1>6, <1>7, <1>8, <1>9, <1>10, <1>11, <1>12
  DEF Next, LedgerNext, BatchNext

LEMMA InitMaps == Init => Batches!Init
<1>. SUFFICES ASSUME Init PROVE Batches!Init OBVIOUS
<1>1. activities = {} /\ notified = {} /\ reported = {} /\ collections = {} BY DEF Init
<1>2. \A n \in Nft : nfts[n] = NoValue BY DEF Init
<1>. QED BY <1>1, <1>2 DEF Batches!Init, StoredIds, Tokens, Alerted

\* A step that leaves the activities, the rows there are, the reports and the
\* notifications alone is none of BatchStore.
LEMMA StepHides ==
  ASSUME UNCHANGED <<activities, collections, reported, notified>>,
         \A n \in Nft : nfts'[n] = NoValue <=> nfts[n] = NoValue
  PROVE  UNCHANGED Batches!vars
<1>1. StoredIds' = StoredIds BY DEF StoredIds
<1>2. Tokens' = Tokens BY DEF Tokens
<1>3. Alerted' = Alerted BY DEF Alerted
<1>. QED BY <1>1, <1>2, <1>3 DEF Batches!vars

LEMMA StepOfBatches ==
  ASSUME NEW S \in SUBSET (1..MaxMessages),
         Batches!Store(S) \/ Batches!Lose(S) \/ Batches!SendAlerts(S)
  PROVE  Batches!Next
BY DEF Batches!Next

\* The commit stores all of the batch, or none, and reports it.
LEMMA CommitMaps ==
  ASSUME TypeInv, AtomicInv, DraftHolds, Commit
  PROVE  Batches!Next
<1>1. /\ phase = "commit" /\ reported' = reported \cup {Ids(Batch)}
      /\ notified' = notified /\ sent \in Nat /\ MaxMessages \in Nat /\ sent <= MaxMessages
      /\ IF aborted THEN UNCHANGED tables
         ELSE /\ collections' = draft.collections /\ nfts' = draft.nfts
              /\ activities' = draft.activities
  BY StoreAssumption DEF Commit, DraftHolds, TypeInv, LedgerTypeOK
<1>2. queue \in Seq(ItemSet) /\ start \in Nat /\ Len(queue) < start /\ queue # <<>>
  BY <1>1 DEF TypeInv, Positions, DraftHolds, LedgerTypeOK
<1>3. QueuedIds(1, start) = Ids(Batch) BY <1>2 DEF QueuedIds, Ids, Batch
<1>4. Ids(Batch) # {} /\ Ids(Batch) \in SUBSET (1..MaxMessages)
  <2>1. 1 \in 1..Len(queue) BY <1>2
  <2>2. queue[1] \in Batch BY <2>1 DEF Batch
  <2>3. \A item \in Batch : item.id \in 1..MaxMessages BY <1>1 DEF AtomicInv, IdsUsed
  <2>. QED BY <2>2, <2>3 DEF Ids
<1>5. Ids(Batch) \cap (StoredIds \cup UNION reported) = {}
  <2>1. \A id \in Ids(Batch) : id \notin Reported BY DEF AtomicInv, IdsUsed, Ids
  <2>2. StoredIds \subseteq Reported BY DEF AtomicInv, StoredOnce
  <2>. QED BY <2>1, <2>2 DEF Reported
<1>6. Batches!Report(Ids(Batch)) BY <1>1, <1>4, <1>5 DEF Batches!Report
<1>7. Alerted' = Alerted BY <1>1 DEF Alerted
<1>8. CASE aborted
  <2>1. UNCHANGED <<StoredIds, Tokens, collections>> BY <1>1, <1>8 DEF StoredIds, Tokens, tables
  <2>2. Batches!Lose(Ids(Batch)) BY <1>6, <1>7, <2>1 DEF Batches!Lose
  <2>. QED BY <1>4, <2>2, StepOfBatches
<1>9. CASE ~ aborted
  <2>1. StoredIds' = StoredIds \cup Ids(Batch)
    BY <1>1, <1>3, <1>9 DEF StoredIds, AtomicInv, StoredOnce
  <2>2. Tokens \subseteq Tokens' /\ collections \subseteq collections'
    BY <1>1, <1>9 DEF Tokens, DraftHolds
  <2>3. Batches!Store(Ids(Batch))
    BY <1>6, <1>7, <2>1, <2>2 DEF Batches!Store
  <2>. QED BY <1>4, <2>3, StepOfBatches
<1>. QED BY <1>8, <1>9

LEMMA AlertMaps ==
  ASSUME TypeInv, AtomicInv, DraftHolds, ProcessAlerts
  PROVE  Batches!Next
<1>1. PICK task \in tasks :
        /\ notified' = notified \cup Matches(Reloaded(task))
        /\ UNCHANGED <<tables, reported>>
  BY DEF ProcessAlerts
<1>. DEFINE new == {match[1] : match \in Matches(Reloaded(task))}
<1>2. new \subseteq StoredIds
  <2>1. \A match \in Matches(Reloaded(task)) : \E row \in activities : match[1] = row.id
    BY DEF Matches, Reloaded
  <2>. QED BY <2>1 DEF StoredIds
<1>3. Alerted' = Alerted \cup new BY <1>1 DEF Alerted
<1>. HIDE DEF new
<1>4. new \in SUBSET (1..MaxMessages)
  <2>1. StoredIds \subseteq Reported /\ Reported \subseteq 1..sent
    BY DEF AtomicInv, StoredOnce, IdsUsed
  <2>2. sent \in Nat /\ MaxMessages \in Nat /\ sent <= MaxMessages
    BY StoreAssumption DEF DraftHolds, TypeInv, LedgerTypeOK
  <2>. QED BY <1>2, <2>1, <2>2
<1>5. StoredIds' = StoredIds /\ Tokens' = Tokens BY <1>1 DEF StoredIds, Tokens, tables
<1>6. Batches!SendAlerts(new)
  BY <1>1, <1>2, <1>3, <1>5 DEF Batches!SendAlerts, tables
<1>. QED BY <1>4, <1>6, StepOfBatches

LEMMA StepMaps ==
  TypeInv /\ AtomicInv /\ DraftHolds /\ [Next]_vars => [Batches!Next]_(Batches!vars)
<1>. SUFFICES ASSUME TypeInv, AtomicInv, DraftHolds, [Next]_vars
              PROVE  Batches!Next \/ UNCHANGED Batches!vars
  OBVIOUS
<1>1. CASE Mint \/ Accept \/ Burn \/ Fail \/ Offer
  <2>1. UNCHANGED <<tables, reported, notified>>
    BY <1>1, LedgerArrives DEF TypeInv, Arrives
  <2>. QED BY <2>1, StepHides DEF tables
<1>2. CASE Backfill \/ Begin \/ WriteCollectionsAndNfts \/ SaveActivities \/ LoseActivities
  <2>1. UNCHANGED <<tables, reported, notified>>
    BY <1>2 DEF Backfill, Begin, WriteCollectionsAndNfts, SaveActivities, LoseActivities
  <2>. QED BY <2>1, StepHides DEF tables
<1>3. CASE SkipNftUpdate \/ NftUpdateFails \/ CreateNewNft \/ NoteUpdate \/ BatchFails
  <2>1. UNCHANGED <<tables, reported, notified>>
    BY <1>3 DEF SkipNftUpdate, NftUpdateFails, CreateNewNft, NoteUpdate, Pass, BatchFails, Rollback
  <2>. QED BY <2>1, StepHides DEF tables
<1>4. CASE Commit BY <1>4, CommitMaps
<1>5. CASE ProcessAlerts BY <1>5, AlertMaps
<1>6. CASE Enrich
  <2>1. PICK n \in Nft :
          /\ nfts[n] # NoValue /\ nfts' = [nfts EXCEPT ![n].traits = Traits(n)]
          /\ UNCHANGED <<collections, activities, reported, notified>>
    BY <1>6 DEF Enrich
  <2>2. nfts \in NftTable /\ nfts' \in NftTable BY TypeStep DEF TypeInv, StoreTypeOK
  <2>3. nfts[n] \in NftRow BY <2>1, <2>2 DEF NftTable, Maybe
  <2>4. [nfts[n] EXCEPT !.traits = Traits(n)] \in NftRow BY <2>3 DEF NftRow
  <2>5. NoValue \notin NftRow BY StoreAssumption
  <2>6. \A k \in Nft : nfts'[k] = NoValue <=> nfts[k] = NoValue
    BY <2>1, <2>2, <2>4, <2>5 DEF NftTable
  <2>. QED BY <2>1, <2>6, StepHides
<1>7. CASE UNCHANGED vars BY <1>7, StepHides DEF vars, tables
<1>. QED
  BY <1>1, <1>2, <1>3, <1>4, <1>5, <1>6, <1>7 DEF Next, LedgerNext, BatchNext

-----------------------------------------------------------------------------
(* The theorems.                                                           *)

StoreInv ==
  TypeInv /\ AtomicInv /\ LinkInv /\ AlertInv /\ OwnersKnown /\ AllJudged

\* The invariant of the store: types, the position of the batch in its queue,
\* ids stored once, rows linked, activities found, owners known from the
\* messages still to be read, and verdicts as judged (processBatchInternal).
THEOREM StoreInvariance == Spec => []StoreInv
<1>1. Init => StoreInv
  <2>1. Init => AllJudged BY DEF Init, AllJudged, Batch
  <2>. QED
    BY <2>1, TypeInit, AtomicInit, LinkInit, AlertInit, OwnersInit DEF StoreInv
<1>2. StoreInv /\ [Next]_vars => StoreInv'
  BY TypeStep, AtomicStep, LinkStep, AlertStep, OwnersStep, JudgedStep DEF StoreInv
<1>. QED BY <1>1, <1>2, PTL DEF Spec

\* Once all is handled, the owner in the row of a living NFT is the owner on
\* the ledger, unless a message of it was misread, overtaken or lost
\* (nftsToUpdate, processTransactionChunk).
THEOREM OwnersFollowLedger == Spec => []OwnerFollowsLedger
<1>1. StoreInv => OwnerFollowsLedger BY OwnersFollow DEF StoreInv
<1>. QED BY <1>1, StoreInvariance, PTL

\* A batch that is reported as stored has all its activities in the table, or
\* none: one transaction spans its chunks (processBatchInternal).
THEOREM BatchesAreAtomic == Spec => []BatchAtomic
<1>1. StoreInv => BatchAtomic BY DEF StoreInv, AtomicInv
<1>. QED BY <1>1, StoreInvariance, PTL

\* A row refers to no collection but that of its token, which is saved
\* (createNewNFT, collectionsToCreate).
THEOREM CollectionsAreLinked == Spec => []CollectionLinked
<1>1. StoreInv => CollectionLinked BY DEF StoreInv, LinkInv
<1>. QED BY <1>1, StoreInvariance, PTL

\* A notification is of a committed activity that has what its alert asks for
\* (processAlertsAsync, evaluateAlertMatch).
THEOREM AlertsAreSound == Spec => []AlertsSound
<1>1. StoreInv => AlertsSound BY DEF StoreInv, AlertInv
<1>. QED BY <1>1, StoreInvariance, PTL

\* What the classifier accepts has succeeded, and has the type it is stored
\* under (classifyTransaction, calculateConfidence).
THEOREM VerdictsAreParsed == Spec => []ClassifiedIsParsed
<1>1. StoreInv => ClassifiedIsParsed BY DEF StoreInv, AllJudged, Judged, ClassifiedIsParsed
<1>. QED BY <1>1, StoreInvariance, PTL

\* The store implements BatchStore: a batch appears in the tables in the step
\* that reports it, or never, and alerts are of what the tables hold
\* (processBatchInternal, processAlertsAsync).
THEOREM ImplementsBatches == Spec => KeepsBatches
<1>1. Init => DraftHolds BY StoreAssumption DEF Init, DraftHolds
<1>2. StoreInv /\ DraftHolds /\ [Next]_vars => DraftHolds'
  BY HoldsStep DEF StoreInv
<1>3. StoreInv /\ DraftHolds /\ [Next]_vars => [Batches!Next]_(Batches!vars)
  BY StepMaps DEF StoreInv
<1>. QED BY <1>1, <1>2, <1>3, StoreInvariance, InitMaps, PTL DEF Spec, KeepsBatches, Batches!Spec

=============================================================================
