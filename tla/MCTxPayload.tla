---------------------------- MODULE MCTxPayload -----------------------------
(***************************************************************************)
(* Instances of TxPayload for TLC.                                         *)
(***************************************************************************)
EXTENDS TxPayload, TLC

=============================================================================
