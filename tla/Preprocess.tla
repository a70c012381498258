------------------------------ MODULE Preprocess ------------------------------
(***************************************************************************)
(* Preprocess: how a lidar message becomes the cloud of a scan, for every  *)
(* lidar type, with and without features.                                  *)
(*                                                                         *)
(* A handler reads its message point by point, one action each.  A point   *)
(* is abstracted to its ring, its distance relative to blind and the angle *)
(* the sensor has turned; a turn is Turn steps, and one step takes a       *)
(* millisecond.  Which points of a line give_feature keeps is module       *)
(* FeatureExtraction.                                                      *)
(***************************************************************************)
EXTENDS Integers, Sequences

CONSTANTS
  Deployments,      \* handlers and parameters: see DeploymentAssumption
  N_SCANS, point_filter_num,
  Turn,             \* the steps of a full turn: 360 degrees
  MaxPoints,        \* bound: points of a message
  MaxMessages       \* bound: messages

Units == {"SEC", "MS", "US", "NS"}
\* process for CustomMsg, and what process for PointCloud2 dispatches to by lidar_type.
Handlers == {"custom", "livox", "oust64", "velodyne", "rs", "unknown"}

ASSUME DeploymentAssumption ==
  Deployments \subseteq [handler : Handlers, time_unit : Units,
                         field_unit : Units,      \* what the driver fills in
                         feature_enabled : BOOLEAN]
ASSUME SizeAssumption ==
  /\ N_SCANS \in Nat \ {0} /\ point_filter_num \in Nat \ {0} /\ Turn \in Nat \ {0}
  /\ MaxPoints \in Nat /\ MaxMessages \in Nat

VARIABLES
  params,           \* one of Deployments
  message,          \* messages so far
  pc,               \* "idle", "reading" or "lines"
  size, i,          \* points of the message, points read
  given_offset_time,
  heading,          \* auxiliary: yaw of the sensor when the message begins
  angle,            \* auxiliary: steps turned since then
  ring_yaw,         \* is_first, yaw_fp and time_last of every ring
  pl_surf, pl_buff,
  j,                \* the next line of pl_buff
  pcl_out

rotation == <<given_offset_time, heading, angle, ring_yaw>>
vars == <<params, message, pc, size, i, rotation, pl_surf, pl_buff, j, pcl_out>>

Rings == 0 .. N_SCANS                 \* the last one is out of range
Lines == 0 .. N_SCANS - 1
Distances == {"below", "at", "beyond"}

handler == params.handler
rotating == handler \in {"velodyne", "rs"}
buffered == params.feature_enabled /\ handler # "rs"

\* A ring of which no point was read.
IsFirst == [is_first |-> TRUE, yaw_fp |-> 0, time_last |-> 0, start |-> 0, last |-> 0]

Init ==
  /\ params \in Deployments
  /\ message = 0 /\ pc = "idle" /\ size = 0 /\ i = 0
  /\ given_offset_time = FALSE /\ heading = 0 /\ angle = 0
  /\ ring_yaw = [r \in Lines |-> IsFirst]
  /\ pl_surf = <<>> /\ pl_buff = [r \in Lines |-> <<>>] /\ j = 0
  /\ pcl_out = <<>>
-----------------------------------------------------------------------------
(* Times.  A time is a number of steps and a power of ten, which is zero   *)
(* when the time is in milliseconds as curvature should be.                *)

time_unit_scale == [SEC |-> 3, MS |-> 0, US |-> -3, NS |-> -6]

\* A field of the message, scaled.
Scaled(steps) == [steps |-> steps,
                  power |-> time_unit_scale[params.time_unit] - time_unit_scale[params.field_unit]]

\* Times that are not scaled.
Millis(steps) == [steps |-> steps, power |-> 0]

\* The absolute time at which a message begins.
Epoch(m) == 100 * m

\* Mutant: a turn is missed when the yaw comes back to exactly where it was.
WrapsOnEqual(y, yaw) ==
  LET since == IF yaw <= y.yaw_fp THEN y.yaw_fp - yaw ELSE y.yaw_fp - yaw + Turn
  IN IF since <= y.time_last THEN since + Turn ELSE since

(* The time since the ring's first point, from the yaw alone: the sensor   *)
(* turns clockwise, and a time that went back means another turn.          *)
YawTime(y, yaw) ==
  LET since == IF yaw <= y.yaw_fp THEN y.yaw_fp - yaw ELSE y.yaw_fp - yaw + Turn
  IN IF since < y.time_last THEN since + Turn ELSE since

(* atan2 of the sensor turned by a steps from its heading. *)
Yaw(a) == (heading - a) % Turn

\* The time a handler gives a point, which for a rotating lidar may come from its yaw.
Curvature(ring, a) ==
  IF rotating /\ ~given_offset_time THEN Millis(YawTime(ring_yaw[ring], Yaw(a)))
  ELSE IF handler = "rs" THEN Millis(a)
  ELSE IF handler = "livox" THEN Scaled(Epoch(message) + a)
  ELSE Scaled(a)

Point(ring, dist, a) ==
  [message |-> message, dist |-> dist, time |-> Curvature(ring, a),
   true |-> IF rotating /\ ~given_offset_time THEN a - ring_yaw[ring].start ELSE a]
-----------------------------------------------------------------------------
(* A message. *)

\* Mutant: the buffers of the lines are not cleared.
BeginOnOldLines(n) ==
  /\ pc = "idle" /\ message < MaxMessages /\ handler # "unknown"
  /\ handler = "rs" => n > 0
  /\ message' = message + 1 /\ size' = n /\ i' = 0 /\ j' = 0
  /\ pl_surf' = <<>> /\ pcl_out' = <<>>
  /\ given_offset_time' \in IF rotating /\ n > 0 THEN BOOLEAN ELSE {given_offset_time}
  /\ heading' \in IF rotating /\ n > 0 /\ ~given_offset_time' THEN 0 .. Turn - 1 ELSE {0}
  /\ angle' = 0 /\ ring_yaw' = [r \in Lines |-> IsFirst]
  /\ pc' = IF handler = "velodyne" /\ n = 0 THEN "output" ELSE "reading"
  /\ UNCHANGED <<params, pl_buff>>

(* The handler clears what the message before left behind, and looks at    *)
(* the last point to see whether the message brings its own times.         *)
Begin(n) ==
  /\ pc = "idle" /\ message < MaxMessages /\ handler # "unknown"
  /\ handler = "rs" => n > 0
  /\ message' = message + 1 /\ size' = n /\ i' = 0 /\ j' = 0
  /\ pl_surf' = <<>> /\ pcl_out' = <<>>
  /\ given_offset_time' \in IF rotating /\ n > 0 THEN BOOLEAN ELSE {given_offset_time}
  /\ heading' \in IF rotating /\ n > 0 /\ ~given_offset_time' THEN 0 .. Turn - 1 ELSE {0}
  /\ angle' = 0 /\ ring_yaw' = [r \in Lines |-> IsFirst]
  /\ IF handler = "velodyne" /\ n = 0
     THEN pc' = "output" /\ UNCHANGED pl_buff
     ELSE /\ pc' = "reading"
          /\ pl_buff' = IF buffered THEN [r \in Lines |-> <<>>] ELSE pl_buff
  /\ UNCHANGED params

(* What a sensor sends: rings in range unless the handler checks them, less *)
(* than a turn between two points of a ring and less than two in a message, *)
(* and a last time above zero when the message has times.                   *)
Plausible(ring, a) ==
  /\ ring \notin Lines => buffered
  /\ rotating /\ ~given_offset_time /\ ring \in Lines =>
       \/ ring_yaw[ring].is_first
       \/ a - ring_yaw[ring].last < Turn /\ a - ring_yaw[ring].start < 2 * Turn
  /\ handler = "velodyne" /\ given_offset_time /\ i + 1 = size => a > 0

\* A ring's first point only starts its clock; later ones move it on.
TurnRing(ring, a) ==
  IF ring_yaw[ring].is_first
  THEN [is_first |-> FALSE, yaw_fp |-> Yaw(a), time_last |-> 0, start |-> a, last |-> a]
  ELSE [ring_yaw[ring] EXCEPT !.time_last = YawTime(ring_yaw[ring], Yaw(a)), !.last = a]

\* Mutant: the blind zone is only cut out of the lines.
SampledOnly(ring, dist) ==
  IF buffered THEN ring \in Lines /\ (handler # "velodyne" => dist # "below")
  ELSE i % point_filter_num = 0

(* Does the point stay?  With features every point of a line that is not   *)
(* too near, which velodyne leaves to give_feature; without them every     *)
(* point_filter_num-th one.                                                *)
Sampled(ring, dist) ==
  IF buffered THEN ring \in Lines /\ (handler # "velodyne" => dist # "below")
  ELSE i % point_filter_num = 0 /\ (IF handler = "oust64" THEN dist # "below" ELSE dist = "beyond")

ReadPoint(ring, dist, step) ==
  LET a == angle + step
      yawed == rotating /\ ~given_offset_time
      kept == Sampled(ring, dist) /\ ~(yawed /\ ring_yaw[ring].is_first)
  IN /\ pc = "reading" /\ i < size
     /\ i = 0 => step = 0
     /\ Plausible(ring, a)
     /\ i' = i + 1 /\ angle' = a
     /\ ring_yaw' = IF yawed /\ ring \in Lines
                    THEN [ring_yaw EXCEPT ![ring] = TurnRing(ring, a)] ELSE ring_yaw
     /\ pl_surf' = IF kept /\ ~buffered THEN Append(pl_surf, Point(ring, dist, a)) ELSE pl_surf
     /\ pl_buff' = IF kept /\ buffered
                   THEN [pl_buff EXCEPT ![ring] = Append(@, Point(ring, dist, a))] ELSE pl_buff
     /\ UNCHANGED <<params, message, pc, size, given_offset_time, heading, j, pcl_out>>

\* The handler has read the message; with features the lines follow.
EndOfPoints ==
  /\ pc = "reading" /\ i = size
  /\ pc' = IF buffered THEN "lines" ELSE "output"
  /\ UNCHANGED <<params, message, size, i, rotation, pl_surf, pl_buff, j, pcl_out>>

\* The ways to keep some points of a line, in their order and none too near.
Picks(line) ==
  {pick \in UNION {[1 .. n -> DOMAIN line] : n \in 0 .. Len(line)} :
     \A k \in DOMAIN pick : line[pick[k]].dist # "below" /\ (k > 1 => pick[k - 1] < pick[k])}

(* The Livox handlers copy a line of at least two points; the others leave *)
(* it to give_feature, which keeps some points that are not too near.      *)
(* oust64 expects every line to have a point.                              *)
FeatureLine ==
  /\ pc = "lines" /\ j < N_SCANS
  /\ LET line == pl_buff[j]
     IN IF handler \in {"custom", "livox"}
        THEN pl_surf' = pl_surf \o (IF Len(line) < 2 THEN <<>> ELSE line)
        ELSE IF handler = "velodyne" /\ Len(line) < 2 THEN pl_surf' = pl_surf
        ELSE /\ line # <<>>
             /\ \E pick \in Picks(line) : pl_surf' = pl_surf \o [k \in DOMAIN pick |-> line[pick[k]]]
  /\ j' = j + 1
  /\ UNCHANGED <<params, message, pc, size, i, rotation, pl_buff, pcl_out>>

Output ==
  /\ pc = "output" \/ (pc = "lines" /\ j = N_SCANS)
  /\ pcl_out' = pl_surf
  /\ pc' = "idle"
  /\ UNCHANGED <<params, message, size, i, rotation, pl_surf, pl_buff, j>>

\* A lidar_type nobody knows: a message is printed and pl_surf, always empty, handed out.
UnknownType ==
  /\ pc = "idle" /\ message < MaxMessages /\ handler = "unknown"
  /\ message' = message + 1
  /\ pcl_out' = pl_surf
  /\ UNCHANGED <<params, pc, size, i, rotation, pl_surf, pl_buff, j>>

Next ==
  \/ \E n \in 0 .. MaxPoints : Begin(n)
  \/ \E ring \in Rings, dist \in Distances, step \in 0 .. Turn - 1 : ReadPoint(ring, dist, step)
  \/ EndOfPoints \/ FeatureLine \/ Output \/ UnknownType

Spec == Init /\ [][Next]_vars
-----------------------------------------------------------------------------
(* Properties. *)

Points == [message : 1 .. MaxMessages, dist : Distances,
           time : [steps : Nat, power : {k - l : k, l \in {3, 0, -3, -6}}], true : Nat]

TypeOK ==
  /\ params \in Deployments
  /\ message \in 0 .. MaxMessages /\ pc \in {"idle", "reading", "lines", "output"}
  /\ size \in 0 .. MaxPoints /\ i \in 0 .. size
  /\ given_offset_time \in BOOLEAN /\ heading \in 0 .. Turn - 1 /\ angle \in Nat
  /\ ring_yaw \in [Lines -> [is_first : BOOLEAN, yaw_fp : 0 .. Turn - 1, time_last : Nat,
                             start : Nat, last : Nat]]
  /\ pl_surf \in Seq(Points) /\ pcl_out \in Seq(Points)
  /\ pl_buff \in [Lines -> Seq(Points)]
  /\ j \in 0 .. N_SCANS

(* The cloud of a scan holds points of its own message only, whatever the  *)
(* messages before left in the members pl_surf and pl_buff.                *)
NoStalePoints ==
  /\ TypeOK
  /\ \A k \in DOMAIN pl_surf : pl_surf[k].message = message
  /\ pc = "idle" => \A k \in DOMAIN pcl_out : pcl_out[k].message = message

(* The time of every point is the milliseconds since the scan, or its      *)
(* ring, began, also when only the yaw tells: through the end of its range *)
(* and a second turn.  livox_handler, which the node does not subscribe,   *)
(* gives absolute times.                                                   *)
TimesTrue ==
  handler # "livox" => \A k \in DOMAIN pl_surf : pl_surf[k].time = Millis(pl_surf[k].true)

(* No handler lets a point through that is nearer than blind.              *)
BlindRespected == \A k \in DOMAIN pl_surf : pl_surf[k].dist # "below"
=============================================================================
