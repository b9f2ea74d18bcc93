---------------------------- MODULE MCIngestion ----------------------------
(***************************************************************************)
(* Ingestion on a small instance: transaction t1 arrives by the direct     *)
(* subscription and by the queue, t2 by the queue alone.                   *)
(***************************************************************************)
EXTENDS Ingestion, TLC

CONSTANTS d1, d2, d3, t1, t2

TxOf3 == d1 :> t1 @@ d2 :> t1 @@ d3 :> t2

=============================================================================
