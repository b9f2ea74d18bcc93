--------------------------- MODULE AlertMatching ---------------------------
(***************************************************************************)
(* Which alerts a stored activity matches: the query for candidates and    *)
(* evaluateAlertMatch.  Prices are numbers, NoValue stands for no price.   *)
(***************************************************************************)
EXTENDS Naturals

CONSTANT NoValue

\* The activity types the API lets an alert name.
AlertActivityType == {"mint", "sell", "buy", "transfer", "burn"}

TraitOperator == {"equals", "not_equals", "greater_than", "less_than", "contains"}

\* Trait values: two numbers, one written inside the other, and a word.
TraitValue == {"7", "70", "red"}

AsNumber(value) ==
  CASE value = "7"  -> 7
    [] value = "70" -> 70
    [] OTHER        -> NoValue

Includes(value, part) ==
  \/ value = part
  \/ (value = "70" /\ part = "7")

BothNumbers(value, other) ==
  AsNumber(value) # NoValue /\ AsNumber(other) # NoValue

SatisfiesFilter(filter, value) ==
  \/ filter.operator = "equals" /\ value = filter.value
  \/ filter.operator = "not_equals" /\ value # filter.value
  \/ /\ filter.operator = "greater_than"
     /\ BothNumbers(value, filter.value)
     /\ AsNumber(value) > AsNumber(filter.value)
  \/ /\ filter.operator = "less_than"
     /\ BothNumbers(value, filter.value)
     /\ AsNumber(value) < AsNumber(filter.value)
  \/ filter.operator = "contains" /\ Includes(value, filter.value)

\* A list is searched for a trait of the type, an object for a key of that name.
FindTraitValue(traits, type) ==
  IF type \in DOMAIN traits.values THEN traits.values[type] ELSE NoValue

MatchesTraits(filters, traits) ==
  \A filter \in filters :
    /\ FindTraitValue(traits, filter.traitType) # NoValue
    /\ SatisfiesFilter(filter, FindTraitValue(traits, filter.traitType))

WithinRange(alert, price) ==
  /\ alert.minPrice # NoValue => price >= alert.minPrice
  /\ alert.maxPrice # NoValue => price <= alert.maxPrice

MatchesPrice(alert, price) ==
  \/ alert.minPrice = NoValue /\ alert.maxPrice = NoValue
  \/ price # NoValue /\ WithinRange(alert, price)

CandidateOfAnyCollection(alert, type, collection) ==
  alert.isActive /\ type \in alert.activityTypes

\* findAlertsMatchingActivity.  Without a row of the NFT, or a collection in
\* it, only the alerts for all collections are asked for.
Candidate(alert, type, collection) ==
  /\ alert.isActive
  /\ type \in alert.activityTypes
  /\ alert.collection \in {NoValue, collection}

\* The match of an activity whose NFT has the given traits, NoValue for none.
EvaluateAlertMatch(alert, type, price, collection, traits) ==
  /\ Candidate(alert, type, collection)
  /\ MatchesPrice(alert, price)
  /\ \/ alert.traitFilters = {}
     \/ traits # NoValue /\ MatchesTraits(alert.traitFilters, traits)

=============================================================================
