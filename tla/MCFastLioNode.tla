---------------------------- MODULE MCFastLioNode ----------------------------
(***************************************************************************)
(* FastLioNode with a handful of scans: an initialisation takes one, the   *)
(* first tracked scan another, and the rest can loop back and register.    *)
(***************************************************************************)
EXTENDS FastLioNode
=============================================================================
