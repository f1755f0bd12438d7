----------------------------- MODULE MCTxLayout -----------------------------
(***************************************************************************)
(* Instances of TxLayout for TLC.                                          *)
(***************************************************************************)
EXTENDS TxLayout

=============================================================================
