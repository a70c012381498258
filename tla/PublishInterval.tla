--------------------------- MODULE PublishInterval ---------------------------
(***************************************************************************)
(* How SetPointCloudConfig (comm/pub_handler.cpp) turns the configured     *)
(* frequency into the numbers CheckTimer compares with, for PubHandler and *)
(* for FrameTiming.                                                        *)
(***************************************************************************)
EXTENDS Integers

CONSTANTS
  Ratio,    (* ticks in a millisecond                                       *)
  Interval  (* publish_interval_, in ticks                                  *)

ASSUME IntervalAssumption ==
  /\ Ratio \in Nat \ {0}
  /\ Interval \in Nat /\ Interval >= Ratio

(* The tolerance is one millisecond, and the interval is rounded down to    *)
(* whole milliseconds.                                                     *)
publish_interval_tolerance_ == Interval - Ratio
publish_interval_ms_ == Interval \div Ratio
=============================================================================
