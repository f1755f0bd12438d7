--------------------------- MODULE MCWsLifecycle ----------------------------
(***************************************************************************)
(* Instances of WsLifecycle for TLC.                                       *)
(***************************************************************************)
EXTENDS WsLifecycle, TLC

=============================================================================
