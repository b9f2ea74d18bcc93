---------------------------- MODULE NftMessages ----------------------------
(***************************************************************************)
(* What the program makes of one transaction message: the activity read by *)
(* NFTTransactionParserService and the verdict of EventClassifierService.  *)
(* Pure operators; a message is a record of what the code looks at.        *)
(*                                                                         *)
(* NFTs are numbers, in the order in which a token page lists them.        *)
(***************************************************************************)
EXTENDS Naturals, Sequences, FiniteSets

CONSTANTS
  Nft,     \* token ids
  Account, \* XRPL accounts
  NoValue  \* undefined

ASSUME MessageAssumption ==
  Nft \subseteq Nat /\ IsFiniteSet(Nft) /\ NoValue \notin Nft \cup Account

-----------------------------------------------------------------------------
(* The nodes of a message's metadata.                                      *)

PageCreated == [kind |-> "pageCreated"]

\* A modified page; previous is NoValue when the change was not to its tokens.
PageModified(previous, final) ==
  [kind |-> "pageModified", previous |-> previous, final |-> final]

OfferCreated(n) == [kind |-> "offerCreated", nft |-> n]

OfferDeleted(n, sell, owner, amount) ==
  [kind |-> "offerDeleted", nft |-> n, sell |-> sell, owner |-> owner, amount |-> amount]

OtherNode == [kind |-> "other"]

First(S) == CHOOSE n \in S : \A k \in S : n <= k

Latest(S) == CHOOSE n \in S : \A k \in S : k <= n

\* The token a page names: one that is new on it, or one gone from it.
PageToken(previous, final) ==
  IF Cardinality(final) > Cardinality(previous) THEN First(final \ previous)
  ELSE IF Cardinality(final) < Cardinality(previous) THEN First(previous \ final)
  ELSE NoValue

NodeToken(node) ==
  CASE node.kind = "pageModified" ->
         PageToken(IF node.previous = NoValue THEN {} ELSE node.previous, node.final)
    [] node.kind \in {"offerCreated", "offerDeleted"} -> node.nft
    [] OTHER -> NoValue

\* nftoken_id when the server adds it, then the first node that names a token.
ExtractNftTokenId(m) ==
  LET naming == {i \in DOMAIN m.nodes : NodeToken(m.nodes[i]) # NoValue}
  IN IF m.nftokenId # NoValue THEN m.nftokenId
     ELSE IF naming # {} THEN NodeToken(m.nodes[First(naming)])
     ELSE IF m.type = "NFTokenBurn" THEN m.nft
     ELSE NoValue

OffersDeleted(m) == {i \in DOMAIN m.nodes : m.nodes[i].kind = "offerDeleted"}

\* With two offers, as a broker brings together, the later node decides.
DecidingOffer(m) == m.nodes[Latest(OffersDeleted(m))]

-----------------------------------------------------------------------------
(* parseNFTTransaction.                                                    *)

ActivityType ==
  {"mint", "burn", "sale", "offer_created", "offer_accepted", "offer_cancelled"}

Activity(type, token, from, to, price) ==
  [type |-> type, token |-> token, from |-> from, to |-> to, price |-> price]

ParseAcceptOffer(m) ==
  LET offer == DecidingOffer(m)
  IN IF OffersDeleted(m) = {} THEN Activity("offer_accepted", NoValue, NoValue, NoValue, NoValue)
     ELSE Activity("offer_accepted", offer.nft,
                   IF offer.sell THEN offer.owner ELSE m.account,
                   IF offer.sell THEN m.account ELSE offer.owner, offer.amount)

\* The token and the payer of a payment are those of a sale, if it names a token.
ParsePayment(m) ==
  IF ExtractNftTokenId(m) = NoValue THEN NoValue
  ELSE Activity("sale", ExtractNftTokenId(m), m.account, m.destination, m.amount)

\* No token is read from a cancellation: it may withdraw offers for several.
ParseCancelOffer(m) == Activity("offer_cancelled", NoValue, m.account, NoValue, NoValue)

\* Whether the transaction succeeded is not asked.
ParseNftTransaction(m) ==
  CASE m.type = "NFTokenMint" ->
         Activity("mint", ExtractNftTokenId(m), m.account, m.account, NoValue)
    [] m.type = "NFTokenBurn" -> Activity("burn", m.nft, m.account, NoValue, NoValue)
    [] m.type = "NFTokenCreateOffer" ->
         Activity("offer_created", m.nft, m.account, m.destination, m.amount)
    [] m.type = "NFTokenAcceptOffer" -> ParseAcceptOffer(m)
    [] m.type = "NFTokenCancelOffer" -> ParseCancelOffer(m)
    [] m.type = "Payment" -> ParsePayment(m)
    [] OTHER -> NoValue

-----------------------------------------------------------------------------
(* classifyTransaction with the default rules, for a message as the XRPL    *)
(* sends it: its fields are well formed, none is called timestamp, and no   *)
(* ledger entry has the type NFToken, which the classifier looks for.       *)
(* Scores are in hundredths.                                                *)

\* The classifier does not unwrap tx_json; every type in use is in its list.
NftRelated(m) == ~ m.wrapped

Succeeded(m) == m.result = "tesSUCCESS"

Consistency(m) ==
  100 - (IF Succeeded(m) /\ m.nodes = <<>> THEN 30 ELSE 0)
      - (IF m.type = "NFTokenMint" THEN 40 ELSE 0)

TypeCertainty(m) ==
  IF m.type \in {"NFTokenMint", "NFTokenBurn", "NFTokenCreateOffer", "NFTokenAcceptOffer"}
  THEN 40 ELSE 30

\* Metadata without an NFToken node, the result, and the consistency.
Confidence(m) ==
  TypeCertainty(m) + 10 + (IF Succeeded(m) THEN 20 ELSE 0) + (15 * Consistency(m)) \div 100

\* Four of the five required fields, all of them valid.
DataQuality(m) == (80 + 100 + Consistency(m)) \div 3

LaxConfidence == 60

MinConfidence == 80

Classify(m) ==
  LET activity == ParseNftTransaction(m)
  IN IF /\ NftRelated(m) /\ activity # NoValue
        /\ Confidence(m) >= MinConfidence /\ DataQuality(m) >= 70
     THEN activity.type
     ELSE NoValue

=============================================================================
