------------------------ MODULE MCMetadataEnrichment ------------------------
(* Instances of MetadataEnrichment: an NFT's metadata lie behind gateways   *)
(* and name an image, on a web server, or where nothing fetches them.       *)
EXTENDS MetadataEnrichment

MCSources ==
  {[scheme |-> "ipfs", image |-> TRUE], [scheme |-> "http", image |-> FALSE],
   [scheme |-> "other", image |-> FALSE]}

=============================================================================
