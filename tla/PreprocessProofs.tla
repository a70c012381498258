--------------------------- MODULE PreprocessProofs ---------------------------
(***************************************************************************)
(* The cloud of a scan, for messages of any length, every number of rings, *)
(* every filter and any resolution of a turn: its points are those of its  *)
(* own message, none is nearer than blind, and where the units agree their *)
(* times are the milliseconds since the scan, or their ring, began.        *)
(***************************************************************************)
EXTENDS Preprocess, SequenceTheorems, TLAPS

\* timestamp_unit is the unit the driver fills in.
UnitsAgree == params.time_unit = params.field_unit

\* A handler works on a message it has been given, with lines if it buffers them.
MessageGiven == /\ pc # "idle" => message # 0 /\ handler # "unknown"
                /\ pc = "lines" => buffered

\* A ring's clock tells the time since its first point.
RingTrue(y, from, upTo) ==
  ~y.is_first => /\ y.start <= y.last /\ y.last <= upTo
                 /\ y.last - y.start < 2 * Turn
                 /\ y.yaw_fp = (from - y.start) % Turn
                 /\ y.time_last = y.last - y.start
RingsTrue == \A r \in Lines : RingTrue(ring_yaw[r], heading, angle)

\* What ring_yaw keeps of a ring.
RingClocks == [is_first : BOOLEAN, yaw_fp : 0 .. Turn - 1, time_last : Nat, start : Nat, last : Nat]

\* A point of the message being read, at its true time.
Sound(p) == /\ p \in Points /\ p.message = message
            /\ UnitsAgree /\ handler # "livox" => p.time = Millis(p.true)

CloudSound == /\ \A k \in DOMAIN pl_surf : Sound(pl_surf[k]) /\ pl_surf[k].dist # "below"
              /\ handler = "unknown" => pl_surf = <<>>

\* velodyne_handler leaves the blind zone to give_feature.
LinesSound ==
  pc \in {"reading", "lines"} /\ buffered =>
    \A r \in Lines : \A k \in DOMAIN pl_buff[r] :
      Sound(pl_buff[r][k]) /\ (handler # "velodyne" => pl_buff[r][k].dist # "below")

OutputOwn == pc = "idle" => \A k \in DOMAIN pcl_out : pcl_out[k].message = message

(* The clouds speak of pl_surf and pcl_out only; what their points come    *)
(* from, the lines and the clocks of the rings, is in the other parts.     *)
PreInv == TypeOK /\ MessageGiven /\ RingsTrue /\ CloudSound /\ LinesSound /\ OutputOwn

-----------------------------------------------------------------------------
(* What remains of an angle after whole turns. *)
LEMMA Remainder ==
  ASSUME NEW T \in Nat \ {0}, NEW x \in Int
  PROVE  x % T \in 0 .. T - 1 /\ x = T * (x \div T) + (x % T) /\ x \div T \in Int
OBVIOUS

(* Two remainders tell a difference of less than two turns but for a turn. *)
LEMMA TurnsApart ==
  ASSUME NEW T \in Nat \ {0}, NEW x \in Int, NEW d \in Nat, d < 2 * T
  PROVE  LET since == IF ((x - d) % T) <= (x % T) THEN (x % T) - ((x - d) % T) ELSE (x % T) - ((x - d) % T) + T
         IN since \in 0 .. T - 1 /\ (since = d \/ since = d - T)
<1> DEFINE y == x - d
           q == x \div T - y \div T
           since == IF (y % T) <= (x % T) THEN (x % T) - (y % T) ELSE (x % T) - (y % T) + T
<1>1. /\ (x % T) \in 0 .. T - 1 /\ x = T * (x \div T) + (x % T) /\ x \div T \in Int
      /\ (y % T) \in 0 .. T - 1 /\ y = T * (y \div T) + (y % T) /\ y \div T \in Int
  <2>1. y \in Int
    OBVIOUS
  <2>2. (x % T) \in 0 .. T - 1 /\ x = T * (x \div T) + (x % T) /\ x \div T \in Int
    BY Remainder
  <2> HIDE DEF y
  <2>3. (y % T) \in 0 .. T - 1 /\ y = T * (y \div T) + (y % T) /\ y \div T \in Int
    BY <2>1, Remainder
  <2> QED BY <2>2, <2>3
<1>2. q \in Int /\ (x % T) - (y % T) = d - T * q
  <2>1. T * q = T * (x \div T) - T * (y \div T)
    BY <1>1
  <2> QED BY <1>1, <2>1
<1>3. since \in 0 .. T - 1
  BY <1>1
<1> DEFINE k == IF (y % T) <= (x % T) THEN q ELSE q - 1
<1>4. k \in Int /\ since = d - T * k
  <2>1. T * (q - 1) = T * q - T
    BY <1>2
  <2> QED BY <1>2, <2>1
<1> HIDE DEF since, k
<1>5. k \in {0, 1}
  <2>1. k >= 2 => T * k >= 2 * T
    BY <1>4
  <2>2. k <= -1 => T * k <= -T
    BY <1>4
  <2>3. T * k \in Int
    BY <1>4
  <2> QED BY <1>3, <1>4, <2>1, <2>2, <2>3
<1>6. since = d \/ since = d - T
  BY <1>4, <1>5
<1> QED BY <1>3, <1>6 DEF since

(* The yaw alone gives the time since a ring's first point, through two    *)
(* turns, if less than a turn went by since its last one.                  *)
LEMMA YawTells ==
  ASSUME TypeOK, NEW y, NEW a \in Nat,
         y.start \in Nat, y.last \in Nat, ~y.is_first, RingTrue(y, heading, angle),
         y.last <= a, a - y.last < Turn, a - y.start < 2 * Turn
  PROVE  YawTime(y, Yaw(a)) = a - y.start
<1> DEFINE d == a - y.start
           x == heading - y.start
           fp == (x % Turn)
           yaw == (heading - a) % Turn
           since == IF yaw <= fp THEN fp - yaw ELSE fp - yaw + Turn
<1>1. heading \in Int /\ x \in Int /\ Turn \in Nat \ {0}
  BY SizeAssumption DEF TypeOK
<1>2. d \in Nat /\ d < 2 * Turn /\ y.start <= y.last
  BY DEF RingTrue
<1>3. x - d = heading - a
  BY <1>1
<1>4. since \in 0 .. Turn - 1 /\ (since = d \/ since = d - Turn)
  <2>1. yaw = ((x - d) % Turn)
    BY <1>3
  <2>2. LET s == IF ((x - d) % Turn) <= (x % Turn) THEN (x % Turn) - ((x - d) % Turn)
                 ELSE (x % Turn) - ((x - d) % Turn) + Turn
        IN s \in 0 .. Turn - 1 /\ (s = d \/ s = d - Turn)
    <3> HIDE DEF x, d
    <3> QED BY <1>1, <1>2, TurnsApart
  <2> DEFINE before == (x % Turn)
             after == ((x - d) % Turn)
  <2>3. since = IF after <= before THEN before - after ELSE before - after + Turn
    BY <2>1
  <2> HIDE DEF x, d, yaw, before, after, since
  <2> QED BY <2>2, <2>3 DEF before, after
<1>5. y.yaw_fp = fp /\ y.time_last = y.last - y.start /\ Yaw(a) = yaw
  BY DEF RingTrue, Yaw
<1> HIDE DEF fp, yaw
<1>6. YawTime(y, Yaw(a)) = IF since < y.last - y.start THEN since + Turn ELSE since
  BY <1>5 DEF YawTime
<1> HIDE DEF since
<1> QED BY <1>1, <1>2, <1>4, <1>6

(* Times come from the yaw, of points whose message has none. *)
yawed == rotating /\ ~given_offset_time

(* The clock of a ring. *)
LEMMA RingTypes ==
  ASSUME TypeOK, NEW r \in Lines
  PROVE  /\ ring_yaw[r] \in RingClocks
         /\ ring_yaw[r].start \in Nat /\ ring_yaw[r].last \in Nat /\ ring_yaw[r].is_first \in BOOLEAN
BY DEF TypeOK, RingClocks

(* Scaling changes a power of ten only, and none where the units agree. *)
LEMMA ScaledType ==
  ASSUME TypeOK, NEW steps \in Nat
  PROVE  /\ Scaled(steps) \in [steps : Nat, power : {k - l : k, l \in {3, 0, -3, -6}}]
         /\ UnitsAgree => Scaled(steps) = Millis(steps)
         /\ Millis(steps) \in [steps : Nat, power : {k - l : k, l \in {3, 0, -3, -6}}]
<1>1. params.time_unit \in Units /\ params.field_unit \in Units
  BY DeploymentAssumption DEF TypeOK
<1>2. \A u \in Units : time_unit_scale[u] \in {3, 0, -3, -6}
  BY DEF Units, time_unit_scale
<1>3. \A u \in Units : time_unit_scale[u] - time_unit_scale[u] = 0
  BY <1>2
<1> QED BY <1>1, <1>2, <1>3 DEF Scaled, Millis, UnitsAgree

(* What ReadPoint stores is a sound point. *)
LEMMA PointSound ==
  ASSUME PreInv, pc = "reading", NEW ring \in Lines, NEW dist \in Distances, NEW step \in 0 .. Turn - 1,
         Plausible(ring, angle + step), ~(yawed /\ ring_yaw[ring].is_first)
  PROVE  Sound(Point(ring, dist, angle + step)) /\ Point(ring, dist, angle + step).dist = dist
<1> DEFINE a == angle + step
           true == IF yawed THEN a - ring_yaw[ring].start ELSE a
<1>1. /\ TypeOK /\ a \in Nat /\ angle \in Nat /\ angle <= a /\ Turn \in Nat \ {0}
      /\ message \in 1 .. MaxMessages
  BY SizeAssumption DEF PreInv, TypeOK, MessageGiven
<1>2. CASE yawed
  <2>1. /\ RingTrue(ring_yaw[ring], heading, angle) /\ ~ring_yaw[ring].is_first
        /\ ring_yaw[ring].start \in Nat /\ ring_yaw[ring].last \in Nat
    BY <1>1, <1>2, RingTypes DEF PreInv, RingsTrue
  <2>2. a - ring_yaw[ring].last < Turn /\ a - ring_yaw[ring].start < 2 * Turn
    BY <1>2, <2>1 DEF Plausible, yawed
  <2>3. ring_yaw[ring].start <= ring_yaw[ring].last /\ ring_yaw[ring].last <= angle
    BY <2>1 DEF RingTrue
  <2>4. YawTime(ring_yaw[ring], Yaw(a)) = a - ring_yaw[ring].start
    BY <1>1, <2>1, <2>2, <2>3, YawTells
  <2>5. true \in Nat /\ Curvature(ring, a) = Millis(true)
    BY <1>1, <1>2, <2>1, <2>3, <2>4 DEF Curvature, yawed
  <2> QED BY <1>1, <1>2, <2>5, ScaledType DEF Sound, Point, Points, yawed
<1>3. CASE ~yawed
  <2>1. true = a
    BY <1>3
  <2>2. /\ Curvature(ring, a) \in [steps : Nat, power : {k - l : k, l \in {3, 0, -3, -6}}]
        /\ UnitsAgree /\ handler # "livox" => Curvature(ring, a) = Millis(a)
    <3>1. Epoch(message) + a \in Nat
      BY <1>1 DEF Epoch
    <3>2. /\ Scaled(Epoch(message) + a) \in [steps : Nat, power : {k - l : k, l \in {3, 0, -3, -6}}]
          /\ Scaled(a) \in [steps : Nat, power : {k - l : k, l \in {3, 0, -3, -6}}]
          /\ Millis(a) \in [steps : Nat, power : {k - l : k, l \in {3, 0, -3, -6}}]
          /\ UnitsAgree => Scaled(a) = Millis(a)
      BY <1>1, <3>1, ScaledType
    <3>3. \/ Curvature(ring, a) = Millis(a)
          \/ Curvature(ring, a) = Scaled(a)
          \/ Curvature(ring, a) = Scaled(Epoch(message) + a) /\ handler = "livox"
      BY <1>3 DEF Curvature, yawed
    <3> HIDE DEF a
    <3> QED BY <3>2, <3>3
  <2> QED BY <1>1, <1>3, <2>1, <2>2 DEF Sound, Point, Points, yawed
<1> QED BY <1>2, <1>3

-----------------------------------------------------------------------------
(* Before the first message the clouds are empty. *)
LEMMA InitPreInv == Init => PreInv
<1> SUFFICES ASSUME Init PROVE PreInv
  OBVIOUS
<1>1. TypeOK
  <2>1. IsFirst \in RingClocks
    BY SizeAssumption DEF IsFirst, RingClocks
  <2>2. ring_yaw \in [Lines -> RingClocks]
    BY <2>1 DEF Init
  <2>3. pl_buff \in [Lines -> Seq(Points)] /\ pl_surf \in Seq(Points) /\ pcl_out \in Seq(Points)
    BY EmptySeq DEF Init
  <2>4. /\ message \in 0 .. MaxMessages /\ size \in 0 .. MaxPoints /\ i \in 0 .. size /\ j \in 0 .. N_SCANS
        /\ heading \in 0 .. Turn - 1 /\ angle \in Nat
    BY SizeAssumption DEF Init
  <2>5. params \in Deployments /\ pc \in {"idle", "reading", "lines", "output"} /\ given_offset_time \in BOOLEAN
    BY DEF Init
  <2> QED BY <2>2, <2>3, <2>4, <2>5 DEF TypeOK, RingClocks
<1> QED
  BY <1>1
  DEF Init, PreInv, MessageGiven, RingsTrue, RingTrue, CloudSound, LinesSound,
      OutputOwn, IsFirst

(* Begin clears every buffer its handler fills. *)
LEMMA BeginPreserves ==
  ASSUME PreInv, NEW n \in 0 .. MaxPoints, Begin(n)
  PROVE  PreInv'
<1> USE SizeAssumption DEF rotation
<1>1. TypeOK
  BY DEF PreInv
<1>2. /\ params' = params /\ message' = message + 1 /\ message' \in 1 .. MaxMessages /\ handler # "unknown"
      /\ size' = n /\ i' = 0 /\ j' = 0 /\ angle' = 0 /\ pl_surf' = <<>> /\ pcl_out' = <<>>
  BY <1>1 DEF Begin, TypeOK
<1>3. given_offset_time' \in BOOLEAN /\ heading' \in 0 .. Turn - 1
  BY <1>1 DEF Begin, TypeOK
<1>4. ring_yaw' = [r \in Lines |-> IsFirst]
  BY DEF Begin
<1>5. /\ pc' \in {"output", "reading"}
      /\ \/ pl_buff' = pl_buff /\ (pc' = "output" \/ ~buffered)
         \/ pl_buff' = [r \in Lines |-> <<>>]
  BY DEF Begin
<1>6. pl_buff' \in [Lines -> Seq(Points)]
  BY <1>1, <1>5, EmptySeq DEF TypeOK
<1>7. TypeOK'
  <2>1. ring_yaw' \in [Lines -> RingClocks]
    BY <1>4 DEF IsFirst, RingClocks
  <2>2. pl_surf' \in Seq(Points) /\ pcl_out' \in Seq(Points)
    BY <1>2, EmptySeq
  <2>3. params' \in Deployments /\ size' \in 0 .. MaxPoints /\ i' \in 0 .. size' /\ j' \in 0 .. N_SCANS
        /\ pc' \in {"idle", "reading", "lines", "output"}
    BY <1>1, <1>2, <1>5 DEF TypeOK
  <2> QED BY <1>2, <1>3, <1>6, <2>1, <2>2, <2>3 DEF TypeOK, RingClocks
<1>8. RingsTrue'
  BY <1>4 DEF RingsTrue, RingTrue, IsFirst
<1>9. LinesSound'
  BY <1>2, <1>5 DEF LinesSound, buffered, handler
<1> QED
  BY <1>2, <1>5, <1>7, <1>8, <1>9
  DEF PreInv, MessageGiven, CloudSound, OutputOwn, handler

(* Reading a point moves its ring's clock on. *)
LEMMA RingTurned ==
  ASSUME PreInv, NEW ring \in Lines, pc = "reading", yawed, NEW a \in Nat, angle <= a, Plausible(ring, a)
  PROVE  TurnRing(ring, a) \in RingClocks /\ RingTrue(TurnRing(ring, a), heading, a)
<1>1. TypeOK /\ angle \in Nat /\ Turn \in Nat \ {0} /\ heading \in Int /\ a - a = 0
  BY SizeAssumption DEF PreInv, TypeOK
<1>2. Yaw(a) \in 0 .. Turn - 1
  <2>1. heading - a \in Int
    BY <1>1
  <2> QED BY <1>1, <2>1, Remainder DEF Yaw
<1>3. CASE ring_yaw[ring].is_first
  <2> DEFINE y == [is_first |-> FALSE, yaw_fp |-> Yaw(a), time_last |-> 0, start |-> a, last |-> a]
  <2>1. TurnRing(ring, a) = y
    BY <1>3 DEF TurnRing
  <2>2. y \in RingClocks
    BY <1>1, <1>2 DEF RingClocks
  <2>3. RingTrue(y, heading, a)
    BY <1>1 DEF RingTrue, Yaw
  <2> QED BY <2>1, <2>2, <2>3
<1>4. CASE ~ring_yaw[ring].is_first
  <2> DEFINE old == ring_yaw[ring]
             time == YawTime(old, Yaw(a))
             y == [old EXCEPT !.time_last = time, !.last = a]
  <2>1. /\ RingTrue(old, heading, angle) /\ old.start \in Nat /\ old.last \in Nat
        /\ old \in RingClocks
    BY <1>1, RingTypes DEF PreInv, RingsTrue
  <2>2. a - old.last < Turn /\ a - old.start < 2 * Turn
    BY <1>4 DEF Plausible, yawed
  <2>3. old.start <= old.last /\ old.last <= angle /\ old.yaw_fp = (heading - old.start) % Turn
    BY <1>4, <2>1 DEF RingTrue
  <2>4. old.last <= a
    BY <1>1, <2>1, <2>3
  <2>5. time = a - old.start
    BY <1>1, <1>4, <2>1, <2>2, <2>4, YawTells
  <2>6. TurnRing(ring, a) = y
    BY <1>4 DEF TurnRing
  <2>7. time \in Nat
    BY <1>1, <2>1, <2>3, <2>4, <2>5
  <2> HIDE DEF old, time
  <2>8. y \in RingClocks /\ y.start = old.start /\ y.last = a /\ y.yaw_fp = old.yaw_fp /\ y.time_last = time
    BY <2>1, <2>7 DEF RingClocks
  <2> HIDE DEF y
  <2>9. RingTrue(y, heading, a)
    BY <1>1, <2>1, <2>2, <2>3, <2>4, <2>5, <2>8 DEF RingTrue
  <2> QED BY <2>6, <2>8, <2>9
<1> QED BY <1>3, <1>4

(* A point is stored once, in the cloud or in its ring's line. *)
LEMMA ReadPointPreserves ==
  ASSUME PreInv, NEW ring \in Rings, NEW dist \in Distances, NEW step \in 0 .. Turn - 1,
         ReadPoint(ring, dist, step)
  PROVE  PreInv'
<1> DEFINE a == angle + step
           p == Point(ring, dist, a)
           kept == Sampled(ring, dist) /\ ~(yawed /\ ring_yaw[ring].is_first)
<1>1. TypeOK
  BY DEF PreInv
<1>2. /\ pc = "reading" /\ i < size /\ Plausible(ring, a) /\ i' = i + 1 /\ angle' = a
      /\ UNCHANGED <<params, message, pc, size, given_offset_time, heading, j, pcl_out>>
      /\ ring_yaw' = IF yawed /\ ring \in Lines
                     THEN [ring_yaw EXCEPT ![ring] = TurnRing(ring, a)] ELSE ring_yaw
      /\ pl_surf' = IF kept /\ ~buffered THEN Append(pl_surf, p) ELSE pl_surf
      /\ pl_buff' = IF kept /\ buffered THEN [pl_buff EXCEPT ![ring] = Append(@, p)] ELSE pl_buff
  BY DEF ReadPoint, yawed
<1>3. a \in Nat /\ angle \in Nat /\ angle <= a /\ i' \in 0 .. size
  BY <1>1, <1>2, SizeAssumption DEF TypeOK
<1>4. ring_yaw' \in [Lines -> RingClocks]
      /\ RingsTrue'
  <2>1. ASSUME NEW r \in Lines PROVE RingTrue(ring_yaw[r], heading, a)
    <3>1. RingTrue(ring_yaw[r], heading, angle) /\ ring_yaw[r].last \in Nat
      BY <1>1, RingTypes DEF PreInv, RingsTrue
    <3> QED BY <1>3, <3>1 DEF RingTrue
  <2>2. ring_yaw \in [Lines -> RingClocks]
    BY <1>1 DEF TypeOK, RingClocks
  <2>3. heading' = heading /\ angle' = a
    BY <1>2
  <2>4. CASE yawed /\ ring \in Lines
    <3> DEFINE y == TurnRing(ring, a)
    <3>1. y \in RingClocks /\ RingTrue(y, heading, a)
      BY <1>2, <1>3, <2>4, RingTurned
    <3>2. ring_yaw' = [ring_yaw EXCEPT ![ring] = y]
      BY <1>2, <2>4
    <3> HIDE DEF y, a
    <3> QED BY <2>1, <2>2, <2>3, <3>1, <3>2 DEF RingsTrue
  <2>5. CASE ~(yawed /\ ring \in Lines)
    <3>1. ring_yaw' = ring_yaw
      BY <1>2, <2>5
    <3> HIDE DEF a
    <3> QED BY <2>1, <2>2, <2>3, <3>1 DEF RingsTrue
  <2> QED BY <2>4, <2>5
<1>5. kept => /\ ring \in Lines /\ Sound(p) /\ p.dist = dist /\ p \in Points
              /\ ~buffered \/ handler # "velodyne" => dist # "below"
  <2> SUFFICES ASSUME kept PROVE /\ ring \in Lines /\ Sound(p) /\ p.dist = dist /\ p \in Points
                                 /\ ~buffered \/ handler # "velodyne" => dist # "below"
    OBVIOUS
  <2>1. ring \in Lines
    BY <1>2 DEF Sampled, Plausible
  <2>2. Sound(p) /\ p.dist = dist
    BY <1>2, <2>1, PointSound
  <2>3. ~buffered \/ handler # "velodyne" => dist # "below"
    BY DEF Sampled
  <2> QED BY <2>1, <2>2, <2>3 DEF Sound
<1> HIDE DEF a, p, kept
<1>6. /\ UnitsAgree' = UnitsAgree /\ handler' = handler /\ buffered' = buffered
      /\ \A q : Sound(q)' <=> Sound(q)
  BY <1>2 DEF UnitsAgree, handler, buffered, Sound, Millis
<1>7. pl_surf' \in Seq(Points) /\ CloudSound'
  <2>1. pl_surf \in Seq(Points) /\ CloudSound /\ handler # "unknown"
    BY <1>1, <1>2 DEF TypeOK, PreInv, MessageGiven
  <2>2. CASE pl_surf' = pl_surf
    BY <1>6, <2>1, <2>2 DEF CloudSound
  <2>3. CASE kept /\ ~buffered /\ pl_surf' = Append(pl_surf, p)
    <3>1. /\ pl_surf' \in Seq(Points) /\ DOMAIN pl_surf' = 1 .. Len(pl_surf) + 1 /\ DOMAIN pl_surf = 1 .. Len(pl_surf)
          /\ \A k \in 1 .. Len(pl_surf) : pl_surf'[k] = pl_surf[k]
          /\ pl_surf'[Len(pl_surf) + 1] = p
          /\ Len(pl_surf) \in Nat
      BY <1>5, <2>1, <2>3, AppendProperties, LenProperties
    <3>2. Sound(p) /\ p.dist # "below"
      BY <1>5, <2>3
    <3>3. \A k \in DOMAIN pl_surf' : k \in DOMAIN pl_surf \/ k = Len(pl_surf) + 1
      BY <3>1
    <3>4. \A k \in DOMAIN pl_surf' : Sound(pl_surf'[k]) /\ pl_surf'[k].dist # "below"
      BY <2>1, <3>1, <3>2, <3>3 DEF CloudSound
    <3> QED BY <1>6, <2>1, <3>1, <3>4 DEF CloudSound
  <2> QED BY <1>2, <2>2, <2>3
<1>8. pl_buff' \in [Lines -> Seq(Points)] /\ LinesSound'
  <2>1. pl_buff \in [Lines -> Seq(Points)] /\ LinesSound
    BY <1>1 DEF TypeOK, PreInv
  <2>2. CASE pl_buff' = pl_buff
    BY <1>2, <1>6, <2>1, <2>2 DEF LinesSound
  <2>3. CASE kept /\ buffered /\ pl_buff' = [pl_buff EXCEPT ![ring] = Append(@, p)]
    <3> DEFINE line == pl_buff[ring]
    <3>1. /\ ring \in Lines /\ line \in Seq(Points) /\ Append(line, p) \in Seq(Points)
          /\ DOMAIN Append(line, p) = 1 .. Len(line) + 1 /\ DOMAIN line = 1 .. Len(line)
          /\ \A k \in 1 .. Len(line) : Append(line, p)[k] = line[k]
          /\ Append(line, p)[Len(line) + 1] = p
          /\ Len(line) \in Nat
      BY <1>5, <2>1, <2>3, AppendProperties, LenProperties
    <3>2. Sound(p) /\ (handler # "velodyne" => p.dist # "below")
      BY <1>5, <2>3
    <3>3. \A k \in DOMAIN Append(line, p) : k \in DOMAIN line \/ k = Len(line) + 1
      BY <3>1
    <3>4. pl_buff'[ring] = Append(line, p) /\ \A r \in Lines : r # ring => pl_buff'[r] = pl_buff[r]
      BY <2>1, <2>3, <3>1
    <3>5. \A r \in Lines : \A k \in DOMAIN pl_buff[r] :
            Sound(pl_buff[r][k]) /\ (handler # "velodyne" => pl_buff[r][k].dist # "below")
      BY <1>2, <2>1, <2>3 DEF LinesSound
    <3>6. \A k \in DOMAIN Append(line, p) :
            Sound(Append(line, p)[k]) /\ (handler # "velodyne" => Append(line, p)[k].dist # "below")
      BY <3>1, <3>2, <3>3, <3>5
    <3> HIDE DEF line
    <3>7. \A r \in Lines : \A k \in DOMAIN pl_buff'[r] :
            Sound(pl_buff'[r][k]) /\ (handler # "velodyne" => pl_buff'[r][k].dist # "below")
      BY <3>4, <3>5, <3>6
    <3>8. LinesSound'
      BY <1>6, <3>7 DEF LinesSound
    <3>9. pl_buff' \in [Lines -> Seq(Points)]
      BY <2>1, <2>3, <3>1 DEF line
    <3> QED BY <3>8, <3>9
  <2> QED BY <1>2, <2>2, <2>3
<1>9. TypeOK'
  BY <1>1, <1>2, <1>3, <1>4, <1>7, <1>8 DEF TypeOK, RingClocks
<1> QED
  BY <1>2, <1>4, <1>6, <1>7, <1>8, <1>9 DEF PreInv, MessageGiven, OutputOwn

(* The line give_feature or the handler copies goes to the end of pl_surf. *)
LEMMA SoundAppended ==
  ASSUME PreInv, NEW more \in Seq(Points),
         \A k \in DOMAIN more : Sound(more[k]) /\ more[k].dist # "below"
  PROVE  /\ pl_surf \o more \in Seq(Points)
         /\ \A k \in DOMAIN (pl_surf \o more) : Sound((pl_surf \o more)[k]) /\ (pl_surf \o more)[k].dist # "below"
<1> DEFINE both == pl_surf \o more
<1>1. /\ pl_surf \in Seq(Points)
      /\ \A k \in DOMAIN pl_surf : Sound(pl_surf[k]) /\ pl_surf[k].dist # "below"
  BY DEF PreInv, TypeOK, CloudSound
<1>2. /\ both \in Seq(Points) /\ Len(both) = Len(pl_surf) + Len(more)
      /\ \A k \in 1 .. Len(pl_surf) + Len(more) :
           both[k] = IF k <= Len(pl_surf) THEN pl_surf[k] ELSE more[k - Len(pl_surf)]
  BY <1>1, ConcatProperties
<1>3. /\ DOMAIN both = 1 .. Len(both) /\ DOMAIN pl_surf = 1 .. Len(pl_surf) /\ DOMAIN more = 1 .. Len(more)
      /\ Len(pl_surf) \in Nat /\ Len(more) \in Nat
  BY <1>1, <1>2, LenProperties
<1> HIDE DEF both
<1>4. ASSUME NEW k \in DOMAIN both PROVE Sound(both[k]) /\ both[k].dist # "below"
  <2>1. CASE k <= Len(pl_surf)
    BY <1>1, <1>2, <1>3, <2>1
  <2>2. CASE ~(k <= Len(pl_surf))
    <3>1. k - Len(pl_surf) \in DOMAIN more /\ both[k] = more[k - Len(pl_surf)]
      BY <1>2, <1>3, <2>2
    <3> QED BY <3>1
  <2> QED BY <2>1, <2>2
<1> QED BY <1>2, <1>4 DEF both

(* A line moves to the cloud whole or in part. *)
LEMMA FeatureLinePreserves ==
  ASSUME PreInv, FeatureLine
  PROVE  PreInv'
<1> DEFINE line == pl_buff[j]
<1>1. TypeOK /\ handler # "unknown" /\ buffered
  BY DEF PreInv, MessageGiven, FeatureLine
<1>2. /\ pc = "lines" /\ j \in Lines /\ j' \in 0 .. N_SCANS
      /\ UNCHANGED <<params, message, pc, size, i, rotation, pl_buff, pcl_out>>
  BY <1>1, SizeAssumption DEF FeatureLine, TypeOK, Lines
<1>3. line \in Seq(Points) /\ Len(line) \in Nat /\ DOMAIN line = 1 .. Len(line)
  BY <1>1, <1>2, LenProperties DEF TypeOK
<1>4. \A k \in DOMAIN line : Sound(line[k]) /\ (handler # "velodyne" => line[k].dist # "below")
  BY <1>1, <1>2 DEF PreInv, LinesSound
<1>5. \/ pl_surf' = pl_surf
      \/ \E more \in Seq(Points) : /\ pl_surf' = pl_surf \o more
                                   /\ \A k \in DOMAIN more : Sound(more[k]) /\ more[k].dist # "below"
  <2>1. CASE handler \in {"custom", "livox"}
    <3>1. pl_surf' = pl_surf \o <<>> \/ pl_surf' = pl_surf \o line
      BY <2>1 DEF FeatureLine
    <3>2. pl_surf \o <<>> = pl_surf
      BY <1>1, ConcatEmptySeq DEF TypeOK
    <3>3. \A k \in DOMAIN line : Sound(line[k]) /\ line[k].dist # "below"
      BY <1>4, <2>1
    <3> HIDE DEF line
    <3> QED BY <1>3, <3>1, <3>2, <3>3
  <2>2. CASE pl_surf' # pl_surf /\ handler \notin {"custom", "livox"}
    <3>1. PICK pick \in Picks(line) : pl_surf' = pl_surf \o [k \in DOMAIN pick |-> line[pick[k]]]
      BY <2>2 DEF FeatureLine
    <3>2. PICK n \in 0 .. Len(line) : pick \in [1 .. n -> DOMAIN line]
      BY <3>1 DEF Picks
    <3> DEFINE more == [k \in DOMAIN pick |-> line[pick[k]]]
    <3>3. \A k \in 1 .. n : pick[k] \in DOMAIN line /\ line[pick[k]].dist # "below"
      BY <3>1, <3>2 DEF Picks
    <3> HIDE DEF line
    <3>4. \A k \in 1 .. n : line[pick[k]] \in Points /\ Sound(line[pick[k]])
      BY <1>3, <1>4, <3>3, ElementOfSeq
    <3>5. more = [k \in 1 .. n |-> line[pick[k]]]
      BY <3>2
    <3>6. n \in Nat
      BY <1>3
    <3>7. more \in [1 .. n -> Points] /\ \A k \in 1 .. n : more[k] = line[pick[k]]
      BY <3>4, <3>5
    <3> HIDE DEF more
    <3>8. more \in Seq(Points) /\ DOMAIN more = 1 .. n
      BY <3>6, <3>7, SeqDef
    <3> QED BY <3>1, <3>3, <3>4, <3>7, <3>8 DEF more
  <2> QED BY <2>1, <2>2
<1>6. /\ pl_surf' \in Seq(Points)
      /\ \A k \in DOMAIN pl_surf' : Sound(pl_surf'[k]) /\ pl_surf'[k].dist # "below"
  <2>1. CASE pl_surf' = pl_surf
    BY <1>1, <2>1 DEF TypeOK, PreInv, CloudSound
  <2>2. ASSUME NEW more \in Seq(Points), pl_surf' = pl_surf \o more,
               \A k \in DOMAIN more : Sound(more[k]) /\ more[k].dist # "below"
        PROVE  /\ pl_surf' \in Seq(Points)
               /\ \A k \in DOMAIN pl_surf' : Sound(pl_surf'[k]) /\ pl_surf'[k].dist # "below"
    BY <2>2, SoundAppended
  <2> QED BY <1>5, <2>1, <2>2
<1>7. /\ UnitsAgree' = UnitsAgree /\ handler' = handler /\ buffered' = buffered
      /\ \A q : Sound(q)' <=> Sound(q)
  BY <1>2 DEF UnitsAgree, handler, buffered, Sound, Millis
<1>8. TypeOK'
  BY <1>1, <1>2, <1>6 DEF TypeOK, rotation
<1>9. CloudSound'
  BY <1>1, <1>6, <1>7 DEF CloudSound
<1>10. LinesSound'
  BY <1>2, <1>7 DEF PreInv, LinesSound
<1>11. RingsTrue'
  BY <1>2 DEF PreInv, RingsTrue, rotation
<1> QED
  BY <1>1, <1>2, <1>7, <1>8, <1>9, <1>10, <1>11
  DEF PreInv, MessageGiven, OutputOwn

(* The cloud is published as it was gathered. *)
LEMMA OthersPreserve ==
  ASSUME PreInv, EndOfPoints \/ Output \/ UnknownType \/ UNCHANGED vars
  PROVE  PreInv'
<1>1. TypeOK
  BY DEF PreInv
<1>2. /\ UNCHANGED <<params, size, i, rotation, pl_surf, pl_buff, j>>
      /\ message' \in 0 .. MaxMessages /\ pc' \in {"idle", "reading", "lines", "output"}
      /\ pcl_out' \in Seq(Points)
  BY <1>1, SizeAssumption DEF EndOfPoints, Output, UnknownType, vars, TypeOK
<1>3. TypeOK'
  BY <1>1, <1>2 DEF TypeOK, rotation
<1>4. /\ UnitsAgree' = UnitsAgree /\ handler' = handler /\ buffered' = buffered
      /\ message' = message \/ pl_surf = <<>>
      /\ message' = message => \A q : Sound(q)' <=> Sound(q)
  BY <1>2
  DEF PreInv, CloudSound, EndOfPoints, Output, UnknownType, vars, UnitsAgree,
      handler, buffered, Sound, Millis
<1>5. CloudSound'
  BY <1>2, <1>4 DEF PreInv, CloudSound
<1>6. MessageGiven' /\ LinesSound'
  BY <1>2, <1>4
  DEF PreInv, MessageGiven, LinesSound, EndOfPoints, Output, UnknownType, vars
<1>7. OutputOwn'
  BY <1>2, <1>4
  DEF PreInv, CloudSound, OutputOwn, Sound, EndOfPoints, Output, UnknownType,
      vars
<1>8. RingsTrue'
  BY <1>2 DEF PreInv, RingsTrue, rotation
<1> QED BY <1>3, <1>5, <1>6, <1>7, <1>8 DEF PreInv

(* PreInv is an invariant of every handler. *)
LEMMA PreInvariant == Spec => []PreInv
<1>1. PreInv /\ [Next]_vars => PreInv'
  BY BeginPreserves, ReadPointPreserves, FeatureLinePreserves, OthersPreserve
  DEF Next
<1> QED BY <1>1, InitPreInv, PTL DEF Spec

(* No point of an earlier message stays in the clouds, whatever the        *)
(* handler, the features and the number of rings.                          *)
THEOREM CloudsAlwaysFresh == Spec => []NoStalePoints
<1>1. PreInv => NoStalePoints
  BY DEF PreInv, NoStalePoints, CloudSound, OutputOwn, Sound
<1> QED BY <1>1, PreInvariant, PTL

(* Every handler cuts the blind zone out, those that leave it to           *)
(* give_feature, too.                                                      *)
THEOREM BlindAlwaysRespected == Spec => []BlindRespected
<1>1. PreInv => BlindRespected
  BY DEF PreInv, BlindRespected, CloudSound
<1> QED BY <1>1, PreInvariant, PTL

(* Where timestamp_unit is the driver's unit every point has its true      *)
(* time, also one that comes from the yaw in a second turn: for any        *)
(* resolution of a turn.                                                   *)
THEOREM TimesAlwaysTrue == Spec => [](UnitsAgree => TimesTrue)
<1>1. PreInv => (UnitsAgree => TimesTrue)
  BY DEF PreInv, TimesTrue, CloudSound, Sound
<1> QED BY <1>1, PreInvariant, PTL
=============================================================================
