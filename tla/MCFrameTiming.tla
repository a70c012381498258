--------------------------- MODULE MCFrameTiming ---------------------------
(***************************************************************************)
(* FrameTiming with 150 ticks in a millisecond: 72 of them, 0.48 ms, are   *)
(* the time of a packet of 96 points at 200000 points a second.            *)
(***************************************************************************)
EXTENDS FrameTiming

(* From any moment of the interval, packets that jitter. *)
AllStarts == 0 .. Period - 1
Jitter == {60, 72, 84}
=============================================================================
