-------------------------- MODULE MCLidarDataQueue --------------------------
(***************************************************************************)
(* LidarDataQueue with a ring of four slots and indices that wrap after    *)
(* eight pushes.  The state space is finite without further bounds.        *)
(***************************************************************************)
EXTENDS LidarDataQueue
=============================================================================
