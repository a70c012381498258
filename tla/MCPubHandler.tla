---------------------------- MODULE MCPubHandler ----------------------------
(***************************************************************************)
(* PubHandler with two lidars, whose packets and IMU messages may each be  *)
(* synchronised or not.                                                    *)
(***************************************************************************)
EXTENDS PubHandler
=============================================================================
