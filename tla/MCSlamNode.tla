------------------------------ MODULE MCSlamNode ------------------------------
(***************************************************************************)
(* A node with a handful of scans, started twice: an initialisation takes  *)
(* one scan, the first tracked scan another, and the rest can loop back    *)
(* and register.  The map file is missing at first or ends at position 0.  *)
(***************************************************************************)
EXTENDS SlamNode

MCFirstMaps == {{}, {0}}
=============================================================================
