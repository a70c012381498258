--------------------------- MODULE MCPointDelivery ---------------------------
(***************************************************************************)
(* PointDelivery with two lidars, queues of two packets and five packets   *)
(* sent: enough for a queue to fill, for a wake-up to be pending during a  *)
(* scan, and for a second round after the thread blocked.                  *)
(***************************************************************************)
EXTENDS PointDelivery
=============================================================================
