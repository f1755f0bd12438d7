--------------------------- MODULE MCNodeFailover ---------------------------
(***************************************************************************)
(* Instances of NodeFailover for TLC.                                      *)
(***************************************************************************)
EXTENDS NodeFailover, TLC

=============================================================================
