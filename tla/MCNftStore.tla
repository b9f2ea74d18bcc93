----------------------------- MODULE MCNftStore -----------------------------
(* Two NFTs of which the first has a trait; alerts with each criterion. *)
EXTENDS NftStore, TLC

CONSTANTS a1, a2, a3, t1

MCAccount == {a1, a2, a3}
MCPrice == {10, Fraction}
MCAttributes == 1 :> [Background |-> "red"] @@ 2 :> <<>>

AllAlert ==
  [isActive |-> TRUE, activityTypes |-> AlertActivityType, collection |-> NoValue,
   minPrice |-> NoValue, maxPrice |-> NoValue, traitFilters |-> {}]

RedBackground == [traitType |-> "Background", operator |-> "equals", value |-> "red"]

MCAlert ==
  {AllAlert,
   [AllAlert EXCEPT !.collection = <<a1, t1>>],
   [AllAlert EXCEPT !.collection = <<a1, BigTaxon>>],
   [AllAlert EXCEPT !.minPrice = 5, !.maxPrice = 15],
   [AllAlert EXCEPT !.traitFilters = {RedBackground}],
   [AllAlert EXCEPT !.isActive = FALSE]}
=============================================================================
