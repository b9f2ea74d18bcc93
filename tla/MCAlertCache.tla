---------------------------- MODULE MCAlertCache ----------------------------
(* Bodies for AlertCache: each price alone and cleared, both in order, equal *)
(* and reversed, the switch, and channels that are not usable.               *)
EXTENDS AlertCache, TLC

MCEdits ==
  { "active" :> FALSE, "min" :> 2, "max" :> 1, "min" :> NoValue,
    "min" :> 1 @@ "max" :> 2 @@ "channels" :> "usable",
    "min" :> 2 @@ "max" :> 2 @@ "channels" :> "usable",
    "channels" :> "unusable" }

=============================================================================
