----------------------------- MODULE XrplNodes ------------------------------
(* The XRPL nodes of the configuration, which all that is said about the   *)
(* connection manager has in common.                                       *)

CONSTANT Node

=============================================================================
