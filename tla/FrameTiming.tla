---------------------------- MODULE FrameTiming ----------------------------
(***************************************************************************)
(* When CheckTimer (comm/pub_handler.cpp) ends the frames of a             *)
(* synchronised lidar whose packets come more often than once in a         *)
(* millisecond and none of which is lost.  A frame ends with a packet      *)
(* whose newest point lies in the first millisecond of an interval of the  *)
(* lidar's clock, if its points span an interval less a tolerance of one   *)
(* millisecond.                                                            *)
(*                                                                         *)
(* PubHandler models the threads around this rule; here the clock has a    *)
(* resolution finer than a packet and is kept relative to the intervals.   *)
(***************************************************************************)
EXTENDS PublishInterval

CONSTANTS
  Gaps,      (* from the last point of a packet to that of the next         *)
  Point,     (* point_interval, from a point to the next                    *)
  Starts     (* where in an interval the lidar may be switched on           *)

(* The lidar's clock is kept modulo this. *)
Period == publish_interval_ms_ * Ratio

ASSUME TimingAssumption ==
  /\ Interval >= 2 * Ratio
  /\ Point \in Nat \ {0}
  /\ Gaps \subseteq Nat
  /\ \A gap \in Gaps : Point <= gap /\ gap + Point <= Ratio
  /\ Starts \subseteq 0 .. Period - 1

VARIABLES
  recent,   (* the time of the newest point, within the interval            *)
  span,     (* from the first point gathered to the newest one              *)
  empty,    (* the points gathered were published                           *)
  framed,   (* a frame was published                                        *)
  settled   (* the points gathered follow a published frame                 *)

timingVars == <<recent, span, empty, framed, settled>>

TimingTypeOK ==
  /\ recent \in 0 .. Period - 1
  /\ span \in Nat
  /\ empty \in BOOLEAN
  /\ framed \in BOOLEAN
  /\ settled \in BOOLEAN

TimingInit ==
  /\ recent \in Starts
  /\ span = 0
  /\ empty = TRUE
  /\ framed = FALSE
  /\ settled = FALSE

\* Points that are measured from the start of the frame before.
PointCloudProcessKeepsBase(gap) ==
  /\ recent' = IF recent + gap < Period THEN recent + gap
                                        ELSE recent + gap - Period
  /\ span' = IF empty /\ ~framed THEN gap - Point ELSE span + gap
  /\ settled' = IF empty THEN framed ELSE settled

(* ProcessCartesianHighPoint: a packet's points follow those of the packet  *)
(* before, one every point_interval.                                       *)
PointCloudProcess(gap) ==
  /\ recent' = IF recent + gap < Period THEN recent + gap
                                        ELSE recent + gap - Period
  /\ span' = IF empty THEN gap - Point ELSE span + gap
  /\ settled' = IF empty THEN framed ELSE settled

\* A tolerance of nothing.
OnBoundaryStrict == recent' < Ratio /\ span' >= Interval

OnBoundary == recent' < Ratio /\ span' >= publish_interval_tolerance_

CheckTimer ==
  \/ OnBoundary /\ empty' = TRUE /\ framed' = TRUE
  \/ ~OnBoundary /\ empty' = FALSE /\ UNCHANGED framed

TimingNext == \E gap \in Gaps : PointCloudProcess(gap) /\ CheckTimer

TimingSpec == TimingInit /\ [][TimingNext]_timingVars

-----------------------------------------------------------------------------
(* Frames are published at the configured frequency: after the first one,   *)
(* which may be cut from the middle of an interval, no frame spans an       *)
(* interval and a millisecond.  The tolerance is what makes it so: without  *)
(* it a frame that began late in its millisecond takes in the next interval *)
(* as well.                                                                *)
FrameOnTime == settled => span < Interval + Ratio

-----------------------------------------------------------------------------
(* The first point of the frame, relative to the start of the interval in   *)
(* which the frame before it ended, when the clock was wrapped or not since. *)
Base == recent - span
WrappedBase == recent + Period - span

(* The inductive invariant: the points gathered begin within a millisecond  *)
(* and a point of an interval's start, and if the next interval's first     *)
(* millisecond has begun without a frame, it is because there are still     *)
(* too few points.                                                         *)
TimingInv ==
  /\ TimingTypeOK
  /\ empty /\ framed => recent < Ratio
  /\ settled => framed
  /\ settled /\ ~empty =>
       \/ Base \in 1 .. Ratio - 1 + Point
       \/ /\ recent < Ratio
          /\ WrappedBase \in 1 .. Ratio - 1 + Point
          /\ span < publish_interval_tolerance_
  /\ FrameOnTime

=============================================================================
