-------------------------- MODULE PubHandlerProofs --------------------------
(***************************************************************************)
(* comm/pub_handler.cpp, for any number of lidars and packets.  First the  *)
(* stream: no packet is lost, doubled or overtaken between the SDK's       *)
(* callback and the frames.  Then the frames' timing: no interval is       *)
(* skipped at any frequency whose interval is a whole number of            *)
(* milliseconds, at every packet rate the assumption allows.               *)
(***************************************************************************)
EXTENDS PubHandler, FrameTiming, SequenceTheorems, TLAPS

(* A packet that joins the end of the line. *)
LEMMA LineGrows ==
  ASSUME NEW line \in Seq(Packets), NEW l \in Lidars, NEW m \in Nat,
         NEW n \in Nat, Carries(line, l, m, n), NEW p \in Packets
  PROVE  /\ p.lidar = l /\ p.num = n + 1 => Carries(Append(line, p), l, m, n + 1)
         /\ p.lidar # l => Carries(Append(line, p), l, m, n)
<1> DEFINE more == Append(line, p)
           Mine(s) == {k \in 1 .. Len(s) : s[k].lidar = l}
           Nums(s) == {s[k].num : k \in Mine(s)}
<1>1. /\ Len(line) \in Nat /\ Len(more) = Len(line) + 1
      /\ \A k \in 1 .. Len(line) : more[k] = line[k]
      /\ more[Len(line) + 1] = p
  BY AppendProperties, LenProperties
<1>2. m <= n /\ Nums(line) = m + 1 .. n
  BY DEF Carries
<1>3. \A j, k \in Mine(line) : j < k => line[j].num < line[k].num
  BY DEF Carries
<1> HIDE DEF more
<1>4. CASE p.lidar # l
  <2>1. Mine(more) = Mine(line)
    BY <1>1, <1>4
  <2>2. \A k \in Mine(more) : more[k] = line[k]
    BY <1>1, <2>1
  <2>3. Nums(more) = Nums(line)
    BY <2>1, <2>2
  <2>4. \A j, k \in Mine(more) : j < k => more[j].num < more[k].num
    BY <1>3, <2>1, <2>2
  <2>5. Carries(more, l, m, n)
    BY <1>2, <2>3, <2>4 DEF Carries
  <2> QED BY <1>4, <2>5 DEF more
<1>5. CASE p.lidar = l /\ p.num = n + 1
  <2>1. Mine(more) = Mine(line) \cup {Len(line) + 1}
    BY <1>1, <1>5
  <2>2. \A k \in Mine(line) : more[k] = line[k]
    BY <1>1
  <2>3. Nums(more) = Nums(line) \cup {n + 1}
    BY <1>1, <1>5, <2>1, <2>2
  <2>4. Nums(more) = m + 1 .. n + 1
    <3>1. m + 1 .. n + 1 = (m + 1 .. n) \cup {n + 1}
      BY <1>2
    <3> QED BY <1>2, <2>3, <3>1
  <2>5. \A k \in Mine(line) : line[k].num \in m + 1 .. n /\ k < Len(line) + 1
    BY <1>1, <1>2
  <2>6. ASSUME NEW j \in Mine(more), NEW k \in Mine(more), j < k
        PROVE  more[j].num < more[k].num
    <3>1. j \in Mine(line)
      BY <1>1, <2>1, <2>5, <2>6
    <3>2. CASE k \in Mine(line)
      BY <1>3, <2>2, <2>6, <3>1, <3>2
    <3>3. CASE k = Len(line) + 1
      BY <1>1, <1>5, <2>2, <2>5, <3>1, <3>3
    <3> QED BY <2>1, <3>2, <3>3
  <2>7. m <= n + 1
    BY <1>2
  <2>8. Carries(more, l, m, n + 1)
    BY <2>4, <2>6, <2>7 DEF Carries
  <2> QED BY <1>5, <2>8 DEF more
<1> QED BY <1>4, <1>5 DEF more

(* A packet that leaves the head of the line is the next of its lidar. *)
LEMMA LineShrinks ==
  ASSUME NEW rest \in Seq(Packets), NEW p \in Packets, NEW l \in Lidars,
         NEW m \in Nat, NEW n \in Nat, Carries(<<p>> \o rest, l, m, n)
  PROVE  /\ p.lidar = l => p.num = m + 1 /\ Carries(rest, l, m + 1, n)
         /\ p.lidar # l => Carries(rest, l, m, n)
<1> DEFINE line == <<p>> \o rest
           Mine(s) == {k \in 1 .. Len(s) : s[k].lidar = l}
           Nums(s) == {s[k].num : k \in Mine(s)}
<1>1. /\ Len(rest) \in Nat /\ Len(line) = Len(rest) + 1
      /\ line[1] = p
      /\ \A k \in 1 .. Len(rest) : line[k + 1] = rest[k]
  BY ConcatProperties, LenProperties
<1>2. \A q \in Packets : q.num \in Nat
  BY PubAssumption DEF Packets
<1>. \A k \in 1 .. Len(rest) : rest[k] \in Packets
  BY ElementOfSeq
<1>3. m <= n /\ Nums(line) = m + 1 .. n
  BY DEF Carries
<1>4. \A j, k \in Mine(line) : j < k => line[j].num < line[k].num
  BY DEF Carries
<1> HIDE DEF line
<1>5. \A k \in Mine(rest) : k + 1 \in Mine(line) /\ line[k + 1] = rest[k]
  BY <1>1
<1>6. \A k \in Mine(line) : k = 1 \/ k - 1 \in Mine(rest)
  <2> SUFFICES ASSUME NEW k \in Mine(line), k # 1 PROVE k - 1 \in Mine(rest)
    OBVIOUS
  <2>1. k \in 1 .. Len(rest) + 1 /\ k # 1 /\ line[k].lidar = l
    BY <1>1
  <2>2. k - 1 \in 1 .. Len(rest) /\ (k - 1) + 1 = k
    BY <1>1, <2>1
  <2>3. line[k] = rest[k - 1]
    BY <1>1, <2>2
  <2> QED BY <2>1, <2>2, <2>3
<1>7. ASSUME NEW j \in Mine(rest), NEW k \in Mine(rest), j < k
      PROVE  rest[j].num < rest[k].num
  <2>1. j + 1 < k + 1
    BY <1>1, <1>7
  <2> QED BY <1>4, <1>5, <2>1
<1>8. CASE p.lidar # l
  <2>1. 1 \notin Mine(line)
    BY <1>1, <1>8
  <2>2. Nums(rest) \subseteq Nums(line)
    BY <1>5
  <2>3. ASSUME NEW k \in Mine(line) PROVE line[k].num \in Nums(rest)
    <3>1. k - 1 \in Mine(rest) /\ (k - 1) + 1 = k
      BY <1>1, <1>6, <2>1
    <3> QED BY <1>5, <3>1
  <2>4. Nums(rest) = m + 1 .. n
    BY <1>3, <2>2, <2>3
  <2>5. Carries(rest, l, m, n)
    BY <1>3, <1>7, <2>4 DEF Carries
  <2> QED BY <1>8, <2>5
<1>9. CASE p.lidar = l
  <2>1. 1 \in Mine(line)
    BY <1>1, <1>9
  <2>2. p.num \in m + 1 .. n
    BY <1>1, <1>3, <2>1
  <2>3. \A k \in Mine(rest) : p.num < rest[k].num
    <3> SUFFICES ASSUME NEW k \in Mine(rest) PROVE p.num < rest[k].num
      OBVIOUS
    <3>1. k + 1 \in Mine(line) /\ 1 < k + 1 /\ line[k + 1] = rest[k]
      BY <1>1, <1>5
    <3> QED BY <1>1, <1>4, <2>1, <3>1
  <2>4. p.num = m + 1
    <3>1. m + 1 \in m + 1 .. n
      BY <2>2
    <3>2. PICK k \in Mine(line) : line[k].num = m + 1
      BY <1>3, <3>1
    <3>3. CASE k = 1
      BY <1>1, <3>2, <3>3
    <3>4. CASE k - 1 \in Mine(rest)
      <4>1. line[k] = rest[k - 1]
        BY <1>1, <1>5, <3>4
      <4>2. p.num < m + 1
        BY <2>3, <3>2, <3>4, <4>1
      <4> QED BY <1>2, <2>2, <4>2
    <3> QED BY <1>6, <3>3, <3>4
  <2>5. Nums(rest) \subseteq m + 2 .. n
    <3> SUFFICES ASSUME NEW k \in Mine(rest)
                 PROVE  rest[k].num \in m + 2 .. n
      OBVIOUS
    <3>1. rest[k].num \in m + 1 .. n
      BY <1>3, <1>5
    <3>2. m + 1 < rest[k].num
      BY <2>3, <2>4
    <3> QED BY <3>1, <3>2
  <2>6. ASSUME NEW i \in m + 2 .. n PROVE i \in Nums(rest)
    <3>1. i \in m + 1 .. n /\ i # m + 1
      BY <2>6
    <3> PICK k \in Mine(line) : line[k].num = i
      BY <1>3, <3>1
    <3>2. k # 1
      BY <1>1, <2>4, <3>1
    <3>3. k - 1 \in Mine(rest) /\ (k - 1) + 1 = k
      BY <1>1, <1>6, <3>2
    <3> QED BY <1>5, <3>3
  <2>7. (m + 1) + 1 = m + 2 /\ m + 1 <= n
    BY <2>2
  <2>8. Nums(rest) = (m + 1) + 1 .. n
    BY <2>5, <2>6, <2>7
  <2>9. Carries(rest, l, m + 1, n)
    BY <1>7, <2>7, <2>8 DEF Carries
  <2> QED BY <1>9, <2>4, <2>9
<1> QED BY <1>8, <1>9

-----------------------------------------------------------------------------
(* The points gathered with those of the packet in hand are a list. *)
LEMMA GatheredType ==
  ASSUME TypeOK, raw_data \in Packets
  PROVE  Gathered \in [Lidars -> Seq(Packets)]
<1>1. points_clouds_ \in [Lidars -> Seq(Packets)] /\ raw_data.lidar \in Lidars
  BY DEF TypeOK, Packets
<1>2. Append(points_clouds_[raw_data.lidar], raw_data) \in Seq(Packets)
  BY <1>1, AppendProperties
<1> QED BY <1>1, <1>2 DEF Gathered

(* The processing thread appends its packet to the points of its lidar, and *)
(* the frame it publishes, if any, keeps them all.                         *)
LEMMA FrameKeepsAll ==
  ASSUME TypeOK, raw_data \in Packets, NEW S,
         GetLidarPointClouds(S) \/ NoFrame
  PROVE  /\ points_clouds_' \in [Lidars -> Seq(Packets)]
         /\ points_' \in [Lidars -> Seq(Packets)]
         /\ delivered' \in [Lidars -> Seq(Packets)]
         /\ \A l \in Lidars : Gone(l)' = delivered[l] \o Gathered[l]
<1>1. /\ points_clouds_ \in [Lidars -> Seq(Packets)]
      /\ points_ \in [Lidars -> Seq(Packets)]
      /\ delivered \in [Lidars -> Seq(Packets)]
      /\ raw_data.lidar \in Lidars
  BY DEF TypeOK, Packets
<1>2. Gathered \in [Lidars -> Seq(Packets)]
  BY GatheredType
<1> DEFINE G == Gathered
<1>3. \A l \in Lidars : /\ delivered[l] \o G[l] \in Seq(Packets)
                        /\ (delivered[l] \o G[l]) \o <<>> = delivered[l] \o G[l]
  BY <1>1, <1>2, ConcatProperties, ConcatEmptySeq
<1>4. CASE GetLidarPointClouds(S)
  <2>1. /\ points_clouds_' = [l \in Lidars |-> IF l \in S THEN <<>> ELSE G[l]]
        /\ points_' = [l \in Lidars |-> IF l \in S THEN G[l] ELSE points_[l]]
        /\ delivered' = [l \in Lidars |->
             IF l \in S THEN delivered[l] \o G[l] ELSE delivered[l]]
    BY <1>4 DEF GetLidarPointClouds
  <2>2. <<>> \in Seq(Packets)
    BY EmptySeq
  <2> HIDE DEF G
  <2>3. /\ points_clouds_' \in [Lidars -> Seq(Packets)]
        /\ points_' \in [Lidars -> Seq(Packets)]
        /\ delivered' \in [Lidars -> Seq(Packets)]
    BY <1>1, <1>2, <1>3, <2>1, <2>2 DEF G
  <2>4. ASSUME NEW l \in Lidars
        PROVE  delivered'[l] \o points_clouds_'[l] = delivered[l] \o G[l]
    <3>1. CASE l \in S
      BY <1>3, <2>1, <3>1
    <3>2. CASE l \notin S
      BY <2>1, <3>2
    <3> QED BY <3>1, <3>2
  <2> QED BY <2>3, <2>4 DEF Gone, G
<1>5. CASE NoFrame
  BY <1>1, <1>2, <1>5 DEF NoFrame, Gone
<1> QED BY <1>4, <1>5

(* PubInv holds initially. *)
LEMMA PubStarts == Init => PubInv
<1> SUFFICES ASSUME Init PROVE PubInv
  OBVIOUS
<1>1. <<>> \in Seq(Packets)
  BY EmptySeq
<1>2. TypeOK
  <2>1. /\ is_timestamp_sync_ \in BOOLEAN /\ notified \in BOOLEAN
        /\ first \in BOOLEAN /\ is_quit_ \in BOOLEAN
    BY DEF Init
  <2>2. received \in [Lidars -> 0 .. MaxPackets]
    BY PubAssumption DEF Init
  <2>3. /\ now \in Times /\ last_pub_time_ \in Times
        /\ handlers \subseteq Lidars /\ thread = "loop"
    BY IntervalAssumption DEF Init, Times
  <2>4. /\ raw_packet_queue_ \in Seq(Packets)
        /\ points_clouds_ \in [Lidars -> Seq(Packets)]
        /\ points_ \in [Lidars -> Seq(Packets)]
        /\ delivered \in [Lidars -> Seq(Packets)]
    BY <1>1 DEF Init
  <2>5. sdk = NoPacket /\ raw_data = NoPacket
    BY DEF Init
  <2> QED BY <2>1, <2>2, <2>3, <2>4, <2>5 DEF TypeOK
<1>3. last_pub_time_ <= now /\ raw_data = NoPacket /\ thread # "process"
  BY IntervalAssumption DEF Init
<1> QED BY <1>2, <1>3 DEF PubInv

(* The SDK's thread, the clock and Uninit preserve it. *)
LEMMA PubInputs ==
  ASSUME PubInv,
         \/ \E sync \in Syncs :
              ReceiveImu(sync) \/ \E l \in Lidars : ReceivePoints(l, sync)
         \/ Enqueue \/ Tick \/ RequestExit
  PROVE  PubInv'
<1>1. /\ TypeOK /\ last_pub_time_ <= now
      /\ raw_data # NoPacket <=> thread = "process"
  BY DEF PubInv
<1>2. ASSUME NEW sync \in Syncs, ReceiveImu(sync) PROVE PubInv'
  <2>1. is_timestamp_sync_' \in BOOLEAN
    BY <1>2, PubAssumption DEF ReceiveImu
  <2>2. UNCHANGED <<now, input, queue, thread, raw_data, clouds, timer, is_quit_>>
    BY <1>2 DEF ReceiveImu
  <2> QED
    BY <1>1, <2>1, <2>2 DEF PubInv, TypeOK, input, queue, clouds, timer
<1>3. ASSUME NEW sync \in Syncs, NEW l \in Lidars, ReceivePoints(l, sync)
      PROVE  PubInv'
  <2>1. received \in [Lidars -> 0 .. MaxPackets] /\ now \in Nat
    BY <1>1 DEF TypeOK, Times
  <2>2. received[l] + 1 \in 1 .. MaxPackets
    BY <1>3, <2>1, PubAssumption DEF ReceivePoints
  <2>3. received' = [received EXCEPT ![l] = received[l] + 1]
    BY <1>3 DEF ReceivePoints
  <2>4. received' \in [Lidars -> 0 .. MaxPackets] /\ received'[l] \in 1 .. MaxPackets
    BY <2>1, <2>2, <2>3
  <2>5. Timestamp(sync) \in Times
    BY <2>1, PubAssumption DEF Timestamp, Times
  <2>6. sdk' \in Packets
    BY <1>3, <2>4, <2>5 DEF ReceivePoints, Packets
  <2>7. is_timestamp_sync_' \in BOOLEAN
    BY <1>3, PubAssumption DEF ReceivePoints
  <2>8. UNCHANGED <<now, queue, thread, raw_data, clouds, timer, is_quit_>>
    BY <1>3 DEF ReceivePoints
  <2> QED
    BY <1>1, <2>4, <2>6, <2>7, <2>8
    DEF PubInv, TypeOK, queue, clouds, timer
<1>4. CASE Enqueue
  <2>1. sdk \in Packets /\ raw_packet_queue_ \in Seq(Packets)
    BY <1>1, <1>4 DEF TypeOK, Enqueue
  <2>2. raw_packet_queue_' \in Seq(Packets)
    BY <1>4, <2>1, AppendProperties DEF Enqueue
  <2>3. notified' \in BOOLEAN /\ sdk' = NoPacket
    BY <1>4 DEF Enqueue
  <2>4. UNCHANGED <<now, is_timestamp_sync_, received, thread, raw_data, clouds,
                    timer, is_quit_>>
    BY <1>4 DEF Enqueue
  <2> QED
    BY <1>1, <2>2, <2>3, <2>4 DEF PubInv, TypeOK, clouds, timer
<1>5. CASE Tick
  <2>1. now \in Nat /\ last_pub_time_ \in Nat
    BY <1>1 DEF TypeOK, Times
  <2>2. now' \in Nat /\ last_pub_time_ <= now'
    BY <1>1, <1>5, <2>1 DEF Tick
  <2>3. UNCHANGED <<is_timestamp_sync_, input, queue, thread, raw_data, clouds,
                    timer, is_quit_>>
    BY <1>5 DEF Tick
  <2> QED
    BY <1>1, <2>2, <2>3
    DEF PubInv, TypeOK, Times, input, queue, clouds, timer
<1>6. CASE RequestExit
  <2>1. is_quit_' \in BOOLEAN
    BY <1>6 DEF RequestExit
  <2>2. UNCHANGED <<now, is_timestamp_sync_, input, queue, thread, raw_data,
                    clouds, timer>>
    BY <1>6 DEF RequestExit
  <2> QED
    BY <1>1, <2>1, <2>2 DEF PubInv, TypeOK, input, queue, clouds, timer
<1> QED BY <1>2, <1>3, <1>4, <1>5, <1>6

(* Taking the oldest packet. *)
LEMMA DequeueTypes ==
  ASSUME TypeOK, Dequeue
  PROVE  /\ raw_data' \in Packets /\ raw_packet_queue_' \in Seq(Packets)
         /\ thread' = "process" /\ notified' \in BOOLEAN
<1>1. raw_packet_queue_ \in Seq(Packets)
  BY DEF TypeOK
<1>2. raw_packet_queue_ # <<>>
  BY DEF Dequeue
<1>3. notified' \in BOOLEAN
  BY DEF Dequeue
<1> QED BY <1>1, <1>2, <1>3, HeadTailProperties DEF Dequeue

(* So does the processing thread. *)
LEMMA PubThread ==
  ASSUME PubInv, RawDataProcess
  PROVE  PubInv'
<1>1. /\ TypeOK /\ last_pub_time_ <= now
      /\ raw_data # NoPacket <=> thread = "process"
  BY DEF PubInv
<1>2. CASE TestQuit
  <2>1. thread = "loop" /\ thread' \in {"ended", "lock"}
    BY <1>2 DEF TestQuit
  <2>2. UNCHANGED <<now, is_timestamp_sync_, input, queue, raw_data, clouds,
                    timer, is_quit_>>
    BY <1>2 DEF TestQuit
  <2> QED
    BY <1>1, <2>1, <2>2 DEF PubInv, TypeOK, input, queue, clouds, timer
<1>3. CASE TakeOrWait \/ Wake
  <2>1. UNCHANGED <<now, is_timestamp_sync_, input, clouds, timer, is_quit_>>
    BY <1>3 DEF TakeOrWait, Wake
  <2>2. thread # "process"
    BY <1>3 DEF TakeOrWait, Wake
  <2>3. CASE Dequeue
    <3>1. raw_data' # NoPacket
      BY <1>1, <2>3, DequeueTypes, PubAssumption
    <3> QED
      BY <1>1, <2>1, <2>3, <3>1, DequeueTypes
      DEF PubInv, TypeOK, input, clouds, timer
  <2>4. CASE /\ thread' \in {"wait", "loop"}
             /\ notified' \in BOOLEAN
             /\ UNCHANGED <<raw_packet_queue_, raw_data>>
    BY <1>1, <2>1, <2>2, <2>4 DEF PubInv, TypeOK, input, clouds, timer
  <2>5. notified \in BOOLEAN
    BY <1>1 DEF TypeOK
  <2>6. CASE TakeOrWait
    BY <2>3, <2>4, <2>5, <2>6 DEF TakeOrWait, queue
  <2>7. CASE Wake
    <3>1. ASSUME ~Dequeue
          PROVE  /\ thread' = "loop" /\ notified' \in BOOLEAN
                 /\ UNCHANGED <<raw_packet_queue_, raw_data>>
      BY <2>7, <3>1 DEF Wake
    <3> QED BY <2>3, <2>4, <3>1
  <2> QED BY <1>3, <2>6, <2>7
<1>4. CASE Process
  <2>1. thread = "process" /\ raw_data \in Packets
    BY <1>1, <1>4 DEF TypeOK, Process
  <2>2. /\ handlers' = handlers \cup {raw_data.lidar}
        /\ thread' = "loop" /\ raw_data' = NoPacket
        /\ UNCHANGED <<now, is_timestamp_sync_, input, queue, is_quit_>>
    BY <1>4 DEF Process
  <2>3. handlers' \subseteq Lidars
    BY <1>1, <2>1, <2>2 DEF TypeOK, Packets
  <2>4. CheckTimerSync(raw_data.lidar) \/ CheckTimerHost
    BY <1>4 DEF Process
  <2>5. \E S : GetLidarPointClouds(S) \/ NoFrame
    BY <2>4 DEF CheckTimerSync, CheckTimerHost
  <2>6. /\ points_clouds_' \in [Lidars -> Seq(Packets)]
        /\ points_' \in [Lidars -> Seq(Packets)]
        /\ delivered' \in [Lidars -> Seq(Packets)]
    BY <1>1, <2>1, <2>5, FrameKeepsAll
  <2>7. now \in Nat /\ last_pub_time_ \in Nat /\ first \in BOOLEAN
    BY <1>1 DEF TypeOK, Times
  <2>8. /\ first' \in BOOLEAN
        /\ last_pub_time_' \in Nat /\ last_pub_time_' <= now
    <3>1. CASE CheckTimerSync(raw_data.lidar)
      BY <1>1, <2>7, <3>1 DEF CheckTimerSync
    <3>2. CASE CheckTimerHost
      <4>1. first' \in BOOLEAN
        BY <3>2 DEF CheckTimerHost
      <4>2. \/ last_pub_time_' = now
            \/ last_pub_time_' = last_pub_time_
            \/ /\ now - last_pub_time_ >= Interval
               /\ last_pub_time_' = last_pub_time_ + Interval
        BY <3>2 DEF CheckTimerHost
      <4> QED BY <1>1, <2>7, <4>1, <4>2, IntervalAssumption
    <3> QED BY <2>4, <3>1, <3>2
  <2> QED
    BY <1>1, <2>2, <2>3, <2>6, <2>8 DEF PubInv, TypeOK, Times, input, queue
<1> QED BY <1>2, <1>3, <1>4 DEF RawDataProcess

(* PubInv is an invariant: no frame is held back for longer than an         *)
(* interval of the host's clock.                                           *)
THEOREM PubInvariant == Spec => []PubInv
<1>1. PubInv /\ [Next]_vars => PubInv'
  <2>1. ASSUME PubInv, Next PROVE PubInv'
    BY <2>1, PubInputs, PubThread DEF Next
  <2>2. ASSUME PubInv, UNCHANGED vars PROVE PubInv'
    BY <2>2 DEF vars, PubInv, TypeOK, input, queue, clouds, timer
  <2> QED BY <2>1, <2>2
<1> QED BY <1>1, PubStarts, PTL DEF Spec

(* What the line is made of. *)
LEMMA LineTypes ==
  ASSUME TypeOK
  PROVE  /\ Held(raw_data) \in Seq(Packets)
         /\ raw_packet_queue_ \in Seq(Packets)
         /\ Held(sdk) \in Seq(Packets)
         /\ raw_packet_queue_ \o Held(sdk) \in Seq(Packets)
         /\ Line \in Seq(Packets)
         /\ \A l \in Lidars : /\ Gone(l) \in Seq(Packets)
                              /\ Len(Gone(l)) \in Nat /\ received[l] \in Nat
<1>1. \A p \in Packets \cup {NoPacket} : Held(p) \in Seq(Packets)
  BY EmptySeq DEF Held
<1>2. /\ raw_data \in Packets \cup {NoPacket} /\ sdk \in Packets \cup {NoPacket}
      /\ raw_packet_queue_ \in Seq(Packets)
      /\ received \in [Lidars -> 0 .. MaxPackets]
      /\ delivered \in [Lidars -> Seq(Packets)]
      /\ points_clouds_ \in [Lidars -> Seq(Packets)]
  BY DEF TypeOK
<1>3. raw_packet_queue_ \o Held(sdk) \in Seq(Packets)
  BY <1>1, <1>2, ConcatProperties
<1>4. Line \in Seq(Packets)
  BY <1>1, <1>2, <1>3, ConcatProperties DEF Line
<1>5. ASSUME NEW l \in Lidars
      PROVE  Gone(l) \in Seq(Packets) /\ received[l] \in Nat
  BY <1>2, ConcatProperties, PubAssumption DEF Gone
<1> QED BY <1>1, <1>2, <1>3, <1>4, <1>5, LenProperties

(* The stream does not change unless the line or the clouds do. *)
LEMMA StreamKept ==
  ASSUME StreamIntact, Line' = Line,
         UNCHANGED <<received, delivered, points_clouds_>>
  PROVE  StreamIntact'
<1>1. \A l \in Lidars : Gone(l)' = Gone(l) /\ received'[l] = received[l]
  BY DEF Gone
<1>2. ASSUME NEW l \in Lidars
      PROVE  Carries(Line, l, Len(Gone(l)), received[l])'
  <2>1. Carries(Line, l, Len(Gone(l)), received[l])
    BY DEF StreamIntact
  <2> QED BY <1>1, <2>1 DEF Carries
<1> QED BY <1>1, <1>2 DEF StreamIntact

(* A packet that is received joins the end of the line. *)
LEMMA ReceiveExtends ==
  ASSUME TypeOK, NEW sync \in Syncs, NEW l \in Lidars, ReceivePoints(l, sync)
  PROVE  sdk' \in Packets /\ Line' = Append(Line, sdk')
<1>1. sdk = NoPacket /\ UNCHANGED <<raw_packet_queue_, raw_data>>
  BY DEF ReceivePoints, queue
<1>2. sdk' \in Packets
  <2>1. received \in [Lidars -> 0 .. MaxPackets] /\ received[l] < MaxPackets
    BY DEF ReceivePoints, TypeOK
  <2>2. /\ received' = [received EXCEPT ![l] = received[l] + 1]
        /\ sdk' = [lidar |-> l, num |-> received'[l], stamp |-> Timestamp(sync)]
    BY DEF ReceivePoints
  <2>3. received'[l] \in 1 .. MaxPackets
    BY <2>1, <2>2, PubAssumption
  <2>4. Timestamp(sync) \in Times
    BY PubAssumption DEF Timestamp, TypeOK, Times
  <2> QED BY <2>2, <2>3, <2>4 DEF Packets
<1> DEFINE H == Held(raw_data)
           Q == raw_packet_queue_
<1>3. H \in Seq(Packets) /\ Q \in Seq(Packets)
  BY LineTypes
<1>4. Held(sdk) = <<>> /\ Held(sdk)' = <<sdk'>>
  BY <1>1, <1>2, PubAssumption DEF Held
<1>5. Line = H \o Q
  BY <1>3, <1>4, ConcatEmptySeq DEF Line
<1>6. Held(raw_data)' = H
  BY <1>1 DEF Held
<1>7. Line' = H \o (Q \o <<sdk'>>)
  BY <1>1, <1>4, <1>6 DEF Line
<1> HIDE DEF H, Q
<1>8. <<sdk'>> \in Seq(Packets)
  BY <1>2
<1>9. Line' = (H \o Q) \o <<sdk'>>
  BY <1>3, <1>7, <1>8, ConcatAssociative
<1>10. H \o Q \in Seq(Packets)
  BY <1>3, ConcatProperties
<1> QED BY <1>2, <1>5, <1>9, <1>10, AppendIsConcat

(* Receiving a packet adds the next one of its lidar to the line's end. *)
LEMMA StreamReceives ==
  ASSUME TypeOK, StreamIntact, NEW sync \in Syncs, NEW l \in Lidars,
         ReceivePoints(l, sync), TypeOK'
  PROVE  StreamIntact'
<1>1. /\ sdk = NoPacket /\ sdk'.lidar = l /\ sdk'.num = received'[l]
      /\ UNCHANGED <<raw_packet_queue_, raw_data, delivered, points_clouds_>>
  BY DEF ReceivePoints, queue, clouds
<1>2. received' = [received EXCEPT ![l] = received[l] + 1]
  BY DEF ReceivePoints
<1>3. received \in [Lidars -> 0 .. MaxPackets]
  BY DEF TypeOK
<1>4. /\ received'[l] = received[l] + 1
      /\ \A m \in Lidars : m # l => received'[m] = received[m]
  BY <1>2, <1>3
<1>5. sdk' \in Packets /\ Line' = Append(Line, sdk')
  BY ReceiveExtends
<1>6. \A m \in Lidars : Gone(m)' = Gone(m)
  BY <1>1 DEF Gone
<1>7. ASSUME NEW m \in Lidars
      PROVE  Carries(Line', m, Len(Gone(m)), received'[m])
  <2>1. Carries(Line, m, Len(Gone(m)), received[m])
    BY DEF StreamIntact
  <2>2. /\ Line \in Seq(Packets) /\ Len(Gone(m)) \in Nat /\ received[m] \in Nat
    BY LineTypes
  <2>3. CASE m = l
    BY <1>1, <1>4, <1>5, <2>1, <2>2, <2>3, LineGrows
  <2>4. CASE m # l
    BY <1>1, <1>4, <1>5, <2>1, <2>2, <2>4, LineGrows
  <2> QED BY <2>3, <2>4
<1>8. ASSUME NEW m \in Lidars
      PROVE  Carries(Line, m, Len(Gone(m)), received[m])'
  BY <1>6, <1>7 DEF Carries
<1> QED BY <1>6, <1>8 DEF StreamIntact

(* The queue moves the line on without a change. *)
LEMMA QueueKeepsLine ==
  ASSUME PubInv
  PROVE  /\ Enqueue => Line' = Line
         /\ Dequeue /\ thread # "process" /\ UNCHANGED input => Line' = Line
<1> DEFINE H == Held(raw_data)
           Q == raw_packet_queue_
           U == Held(sdk)
<1>1. /\ H \in Seq(Packets) /\ Q \in Seq(Packets) /\ U \in Seq(Packets)
      /\ Q \o U \in Seq(Packets)
  BY LineTypes DEF PubInv
<1>2. ASSUME Enqueue PROVE Line' = Line
  <2>1. /\ sdk \in Packets /\ sdk' = NoPacket
        /\ raw_packet_queue_' = Append(Q, sdk) /\ raw_data' = raw_data
    BY <1>2 DEF Enqueue, PubInv, TypeOK
  <2>2. U = <<sdk>> /\ Held(sdk)' = <<>> /\ Held(raw_data)' = H
    BY <2>1, PubAssumption DEF Held
  <2>3. raw_packet_queue_' = Q \o U
    BY <1>1, <2>1, <2>2, AppendIsConcat
  <2>4. Line' = H \o ((Q \o U) \o <<>>)
    BY <2>2, <2>3 DEF Line
  <2>5. Line = H \o (Q \o U)
    BY DEF Line
  <2> HIDE DEF H, Q, U
  <2> QED BY <1>1, <2>4, <2>5, ConcatEmptySeq
<1>3. ASSUME Dequeue, thread # "process", UNCHANGED input PROVE Line' = Line
  <2>1. raw_data = NoPacket /\ sdk' = sdk
    BY <1>3 DEF PubInv, input
  <2>2. /\ Q # <<>> /\ raw_data' = Head(Q) /\ raw_packet_queue_' = Tail(Q)
    BY <1>3 DEF Dequeue
  <2>3. /\ Head(Q) \in Packets /\ Tail(Q) \in Seq(Packets)
        /\ <<Head(Q)>> \in Seq(Packets)
    BY <1>1, <2>2, HeadTailProperties
  <2>4. H = <<>> /\ Held(raw_data)' = <<Head(Q)>> /\ Held(sdk)' = U
    BY <2>1, <2>2, <2>3, PubAssumption DEF Held
  <2>5. Line' = <<Head(Q)>> \o (Tail(Q) \o U)
    BY <2>2, <2>4 DEF Line
  <2>6. Line = <<>> \o (Q \o U)
    BY <2>4 DEF Line
  <2> HIDE DEF H, Q, U
  <2>7. <<Head(Q)>> \o Tail(Q) = Q
    BY <1>1, <2>2
  <2>8. Line' = Q \o U
    BY <1>1, <2>3, <2>5, <2>7, ConcatAssociative
  <2> QED BY <1>1, <2>6, <2>8, ConcatEmptySeq
<1> QED BY <1>2, <1>3

(* The packet in hand moves from the head of the line to its lidar's cloud. *)
LEMMA ProcessMoves ==
  ASSUME PubInv, Process
  PROVE  \E l \in Lidars, rest \in Seq(Packets) :
           /\ l = raw_data.lidar /\ Line = <<raw_data>> \o rest /\ Line' = rest
           /\ Gone(l)' = Append(Gone(l), raw_data)
           /\ \A k \in Lidars : k # l => Gone(k)' = Gone(k)
           /\ UNCHANGED received
<1>1. TypeOK /\ thread = "process" /\ raw_data \in Packets
  BY DEF PubInv, TypeOK, Process
<1>2. UNCHANGED <<received, sdk, raw_packet_queue_>> /\ raw_data' = NoPacket
  BY DEF Process, input, queue
<1>3. PICK l \in Lidars : l = raw_data.lidar
  BY <1>1 DEF Packets
<1> DEFINE rest == raw_packet_queue_ \o Held(sdk)
<1>. rest \in Seq(Packets)
  BY <1>1, LineTypes
<1>4. Line = <<raw_data>> \o rest
  BY <1>1, PubAssumption DEF Line, Held
<1>5. Line' = <<>> \o rest
  BY <1>2 DEF Line, Held
<1>6. Line' = rest
  BY <1>3, <1>5, ConcatEmptySeq
<1>7. \A k \in Lidars : Gone(k)' = delivered[k] \o Gathered[k]
  <2>1. \E S : GetLidarPointClouds(S) \/ NoFrame
    BY DEF Process, CheckTimerSync, CheckTimerHost
  <2> QED BY <1>1, <2>1, FrameKeepsAll
<1>8. /\ points_clouds_ \in [Lidars -> Seq(Packets)]
      /\ delivered \in [Lidars -> Seq(Packets)]
  BY <1>1 DEF TypeOK
<1>9. \A k \in Lidars : k # l => Gone(k)' = Gone(k)
  BY <1>3, <1>7, <1>8 DEF Gathered, Gone
<1>10. Gone(l)' = Append(Gone(l), raw_data)
  <2> DEFINE d == delivered[l]
             c == points_clouds_[l]
  <2>1. d \in Seq(Packets) /\ c \in Seq(Packets) /\ <<raw_data>> \in Seq(Packets)
    BY <1>1, <1>3, <1>8
  <2>2. Gathered[l] = Append(c, raw_data)
    BY <1>3, <1>8 DEF Gathered
  <2>3. Gone(l)' = d \o Append(c, raw_data)
    BY <1>3, <1>7, <2>2
  <2>4. Gone(l) = d \o c
    BY DEF Gone
  <2> HIDE DEF d, c
  <2>5. Gone(l)' = d \o (c \o <<raw_data>>)
    BY <1>1, <2>1, <2>3, AppendIsConcat
  <2>6. Gone(l)' = (d \o c) \o <<raw_data>>
    BY <2>1, <2>5, ConcatAssociative
  <2>7. d \o c \in Seq(Packets)
    BY <2>1, ConcatProperties
  <2> QED BY <1>1, <2>4, <2>6, <2>7, AppendIsConcat
<1> HIDE DEF rest
<1> QED BY <1>2, <1>3, <1>4, <1>6, <1>9, <1>10

(* Processing a packet moves it from the head of the line to the clouds. *)
LEMMA StreamProcesses ==
  ASSUME PubInv, StreamIntact, Process
  PROVE  StreamIntact'
<1>1. TypeOK /\ thread = "process" /\ raw_data \in Packets
  BY DEF PubInv, TypeOK, Process
<1>2. PICK l \in Lidars, rest \in Seq(Packets) :
        /\ l = raw_data.lidar /\ Line = <<raw_data>> \o rest /\ Line' = rest
        /\ Gone(l)' = Append(Gone(l), raw_data)
        /\ \A k \in Lidars : k # l => Gone(k)' = Gone(k)
        /\ UNCHANGED received
  BY ProcessMoves
<1>3. ASSUME NEW k \in Lidars
       PROVE  /\ \A i \in 1 .. Len(Gone(k)) :
                   Gone(k)[i].lidar = k /\ Gone(k)[i].num = i
              /\ Carries(<<raw_data>> \o rest, k, Len(Gone(k)), received[k])
              /\ Gone(k) \in Seq(Packets) /\ Len(Gone(k)) \in Nat
              /\ received[k] \in Nat
  BY <1>1, <1>2, LineTypes DEF StreamIntact
<1>4. /\ raw_data.num = Len(Gone(l)) + 1
       /\ Carries(rest, l, Len(Gone(l)) + 1, received[l])
  BY <1>1, <1>2, <1>3, LineShrinks
<1>5. ASSUME NEW k \in Lidars, k # l
       PROVE  Carries(rest, k, Len(Gone(k)), received[k])
  BY <1>1, <1>2, <1>3, <1>5, LineShrinks
<1>6. /\ Len(Gone(l)') = Len(Gone(l)) + 1
       /\ \A i \in 1 .. Len(Gone(l)') : Gone(l)'[i].lidar = l /\ Gone(l)'[i].num = i
  <2>1. /\ Len(Gone(l)') = Len(Gone(l)) + 1
        /\ \A i \in 1 .. Len(Gone(l)) : Gone(l)'[i] = Gone(l)[i]
        /\ Gone(l)'[Len(Gone(l)) + 1] = raw_data
    BY <1>1, <1>2, <1>3, AppendProperties
  <2> QED BY <1>2, <1>3, <1>4, <2>1
<1>7. ASSUME NEW k \in Lidars
       PROVE  /\ \A i \in 1 .. Len(Gone(k)') :
                   Gone(k)'[i].lidar = k /\ Gone(k)'[i].num = i
              /\ Carries(rest, k, Len(Gone(k)'), received[k])
  <2>1. CASE k = l
    BY <1>4, <1>6, <2>1
  <2>2. CASE k # l
    BY <1>2, <1>3, <1>5, <2>2
  <2> QED BY <2>1, <2>2
<1>8. ASSUME NEW k \in Lidars
       PROVE  Carries(Line, k, Len(Gone(k)), received[k])'
  BY <1>2, <1>7 DEF Carries
<1> QED BY <1>7, <1>8 DEF StreamIntact

(* StreamIntact is an invariant: whatever the two threads, the clocks and   *)
(* the other lidars do, every packet of a lidar reaches its frames once and *)
(* in its turn.                                                            *)
THEOREM StreamAlwaysIntact == Spec => []StreamIntact
<1>1. Init => StreamIntact
  <2> SUFFICES ASSUME Init, NEW l \in Lidars
               PROVE  /\ Len(Gone(l)) = 0 /\ received[l] = 0
                      /\ Carries(Line, l, 0, 0)
    BY DEF StreamIntact
  <2>1. Gone(l) = <<>> /\ Line = <<>> /\ received[l] = 0
    BY DEF Init, Gone, Line, Held
  <2>2. Carries(<<>>, l, 0, 0)
    BY DEF Carries
  <2> QED BY <2>1, <2>2
<1>2. PubInv /\ PubInv' /\ StreamIntact /\ [Next]_vars => StreamIntact'
  <2> SUFFICES ASSUME PubInv, PubInv', StreamIntact, [Next]_vars
               PROVE  StreamIntact'
    OBVIOUS
  <2>1. TypeOK /\ TypeOK'
    BY DEF PubInv
  <2>2. CASE UNCHANGED <<input, raw_packet_queue_, raw_data, clouds>>
    <3>1. Line' = Line
      BY <2>2 DEF Line, Held, input
    <3>2. UNCHANGED <<received, delivered, points_clouds_>>
      BY <2>2 DEF input, clouds
    <3> QED BY <3>1, <3>2, StreamKept
  <2>3. ASSUME NEW sync \in Syncs, ReceiveImu(sync) PROVE StreamIntact'
    BY <2>2, <2>3 DEF ReceiveImu, queue
  <2>4. ASSUME NEW sync \in Syncs, NEW l \in Lidars, ReceivePoints(l, sync)
        PROVE  StreamIntact'
    BY <2>1, <2>4, StreamReceives
  <2>5. CASE Enqueue
    <3>1. UNCHANGED <<received, delivered, points_clouds_>>
      BY <2>5 DEF Enqueue, clouds
    <3> QED BY <2>5, <3>1, QueueKeepsLine, StreamKept
  <2>6. CASE TakeOrWait \/ Wake
    <3>1. thread # "process" /\ UNCHANGED <<input, clouds>>
      BY <2>6 DEF TakeOrWait, Wake
    <3>2. CASE Dequeue
      <4>1. Line' = Line
        BY <3>1, <3>2, QueueKeepsLine
      <4>2. UNCHANGED <<received, delivered, points_clouds_>>
        BY <3>1 DEF input, clouds
      <4> QED BY <4>1, <4>2, StreamKept
    <3>3. CASE UNCHANGED <<raw_packet_queue_, raw_data>>
      BY <2>2, <3>1, <3>3
    <3> QED BY <2>6, <3>2, <3>3 DEF TakeOrWait, Wake, queue
  <2>7. CASE TestQuit
    BY <2>2, <2>7 DEF TestQuit, queue
  <2>8. CASE Process
    BY <2>8, StreamProcesses
  <2>9. CASE Tick \/ RequestExit
    BY <2>2, <2>9 DEF Tick, RequestExit, queue
  <2>10. CASE UNCHANGED vars
    BY <2>2, <2>10 DEF vars, queue
  <2> QED
    BY <2>3, <2>4, <2>5, <2>6, <2>7, <2>8, <2>9, <2>10 DEF Next, RawDataProcess
<1> QED BY <1>1, <1>2, PubInvariant, PTL DEF Spec

-----------------------------------------------------------------------------
(* That PubHandler implements PointStream.  Every packet on its way or      *)
(* arrived is the only one of its lidar with its number, and all that were  *)
(* received are there: so Sent is what each lidar sent.                    *)
Numbered ==
  /\ Present \subseteq Packets
  /\ \A p, q \in Present : p.lidar = q.lidar /\ p.num = q.num => p = q
  /\ \A l \in Lidars : \A n \in 1 .. received[l] :
       \E p \in Present : p.lidar = l /\ p.num = n

(* StreamIntact accounts for every packet. *)
LEMMA StreamNumbers == TypeOK /\ StreamIntact => Numbered
<1> SUFFICES ASSUME TypeOK, StreamIntact PROVE Numbered
  OBVIOUS
<1> DEFINE here == {Line[k] : k \in 1 .. Len(Line)}
           there(l) == {Gone(l)[i] : i \in 1 .. Len(Gone(l))}
<1>1. \A p : p \in Present <=> p \in here \/ \E l \in Lidars : p \in there(l)
  BY DEF Present
<1>2. /\ Line \in Seq(Packets)
      /\ \A l \in Lidars : /\ Gone(l) \in Seq(Packets)
                           /\ Len(Gone(l)) \in Nat /\ received[l] \in Nat
  BY LineTypes
<1>3. here \subseteq Packets /\ \A l \in Lidars : there(l) \subseteq Packets
  BY <1>2, ElementOfSeq
<1>4. Present \subseteq Packets
  BY <1>1, <1>3
<1>5. ASSUME NEW l \in Lidars
      PROVE  /\ \A p \in there(l) : p.lidar = l /\ p.num \in 1 .. Len(Gone(l))
             /\ \A n \in 1 .. Len(Gone(l)) :
                  Gone(l)[n] \in there(l) /\ Gone(l)[n].num = n
             /\ \A p, q \in there(l) : p.num = q.num => p = q
  BY DEF StreamIntact
<1>6. ASSUME NEW l \in Lidars
      PROVE  /\ {p.num : p \in {q \in here : q.lidar = l}}
                  = Len(Gone(l)) + 1 .. received[l]
             /\ \A p, q \in here : p.lidar = l /\ q.lidar = l /\ p.num = q.num => p = q
  <2> DEFINE Mine == {k \in 1 .. Len(Line) : Line[k].lidar = l}
  <2>1. /\ {Line[k].num : k \in Mine} = Len(Gone(l)) + 1 .. received[l]
        /\ \A j, k \in Mine : j < k => Line[j].num < Line[k].num
    BY DEF StreamIntact, Carries
  <2>2. \A k \in Mine : Line[k].num \in Int
    BY <1>2, <2>1
  <2>3. Len(Line) \in Nat
    BY <1>2, LenProperties
  <2>4. \A j, k \in Mine : Line[j].num = Line[k].num => j = k
    <3> SUFFICES ASSUME NEW j \in Mine, NEW k \in Mine, Line[j].num = Line[k].num,
                        j # k
                 PROVE  FALSE
      OBVIOUS
    <3>1. j < k \/ k < j
      BY <2>3
    <3> QED BY <2>1, <2>2, <3>1
  <2>5. \A p : p \in here /\ p.lidar = l <=> \E k \in Mine : p = Line[k]
    OBVIOUS
  <2>6. {p.num : p \in {q \in here : q.lidar = l}} = {Line[k].num : k \in Mine}
    BY <2>5
  <2> HIDE DEF Mine
  <2> QED BY <2>1, <2>4, <2>5, <2>6
<1> HIDE DEF here, there
<1>7. ASSUME NEW p \in Present, NEW q \in Present, p.lidar = q.lidar, p.num = q.num
      PROVE  p = q
  <2>1. PICK l \in Lidars : l = p.lidar
    BY <1>4 DEF Packets
  <2>2. \A r \in Present : r.lidar = l => r \in here \/ r \in there(l)
    BY <1>1, <1>5
  <2>3. ASSUME NEW r \in here, NEW s \in there(l), r.lidar = l
        PROVE  r.num # s.num
    <3>1. r.num \in Len(Gone(l)) + 1 .. received[l] /\ s.num \in 1 .. Len(Gone(l))
      BY <1>5, <1>6, <2>3
    <3> QED BY <1>2, <3>1
  <2> QED BY <1>5, <1>6, <1>7, <2>1, <2>2, <2>3
<1>8. ASSUME NEW l \in Lidars, NEW n \in 1 .. received[l]
      PROVE  \E p \in Present : p.lidar = l /\ p.num = n
  <2>1. CASE n \in 1 .. Len(Gone(l))
    BY <1>1, <1>5, <2>1
  <2>2. CASE n \in Len(Gone(l)) + 1 .. received[l]
    BY <1>1, <1>6, <2>2
  <2> QED BY <1>2, <2>1, <2>2
<1> QED BY <1>4, <1>7, <1>8 DEF Numbered

(* A function on 1 .. n is a sequence of that length. *)
LEMMA ListIsSeq ==
  ASSUME NEW S, NEW n \in Nat, NEW f \in [1 .. n -> S]
  PROVE  f \in Seq(S) /\ Len(f) = n
OBVIOUS

(* The first of two sequences is a beginning of both. *)
LEMMA ConcatBegins ==
  ASSUME NEW S, NEW s \in Seq(S), NEW t \in Seq(S)
  PROVE  /\ Len(s) \in Nat /\ Len(s \o t) \in Nat
         /\ Len(s) <= Len(s \o t)
         /\ \A i \in 1 .. Len(s) : (s \o t)[i] = s[i]
<1>1. Len(s) \in Nat /\ Len(t) \in Nat
  BY LenProperties
<1>2. /\ Len(s \o t) = Len(s) + Len(t)
      /\ \A i \in 1 .. Len(s) + Len(t) :
           (s \o t)[i] = IF i <= Len(s) THEN s[i] ELSE t[i - Len(s)]
  BY ConcatProperties
<1>3. Len(s \o t) \in Nat /\ Len(s) <= Len(s \o t)
  BY <1>1, <1>2
<1>4. ASSUME NEW i \in 1 .. Len(s) PROVE (s \o t)[i] = s[i]
  <2>1. i \in 1 .. Len(s) + Len(t) /\ i <= Len(s)
    BY <1>1
  <2> QED BY <1>2, <2>1
<1> QED BY <1>1, <1>3, <1>4

(* Sent lists what each lidar sent, and its frames a beginning of that. *)
SentListed ==
  /\ Sent \in [Lidars -> Seq(Packets)]
  /\ \A l \in Lidars :
       /\ Len(Sent[l]) = received[l] /\ received[l] \in Nat
       /\ \A n \in 1 .. received[l] :
            Sent[l][n] \in Present /\ Sent[l][n].lidar = l /\ Sent[l][n].num = n
       /\ delivered[l] \in Seq(Packets) /\ Len(delivered[l]) \in Nat
       /\ Len(delivered[l]) <= received[l]
       /\ \A i \in 1 .. Len(delivered[l]) : delivered[l][i] = Sent[l][i]

(* What Numbered makes of Sent. *)
LEMMA SentIsListed == TypeOK /\ StreamIntact => SentListed
<1> SUFFICES ASSUME TypeOK, StreamIntact PROVE SentListed
  OBVIOUS
<1>1. Numbered
  BY StreamNumbers
<1>2. ASSUME NEW l \in Lidars, NEW n \in 1 .. received[l]
      PROVE  /\ PacketOf(Present, l, n) \in Present
             /\ PacketOf(Present, l, n).lidar = l /\ PacketOf(Present, l, n).num = n
  BY <1>1 DEF Numbered, PacketOf
<1>3. Present \subseteq Packets
  BY <1>1 DEF Numbered
<1>4. \A l \in Lidars :
        received[l] \in Nat /\ Len(Gone(l)) \in Nat /\ Len(Gone(l)) <= received[l]
  BY LineTypes DEF StreamIntact, Carries
<1>5. ASSUME NEW l \in Lidars
      PROVE  /\ Sent[l] \in Seq(Packets) /\ Len(Sent[l]) = received[l]
             /\ \A n \in 1 .. received[l] : Sent[l][n] = PacketOf(Present, l, n)
  <2> DEFINE f == [n \in 1 .. received[l] |-> PacketOf(Present, l, n)]
  <2>1. Sent[l] = f
    BY DEF Sent
  <2>2. \A n \in 1 .. received[l] : PacketOf(Present, l, n) \in Packets
    BY <1>2, <1>3
  <2>3. f \in [1 .. received[l] -> Packets]
    BY <2>2
  <2>4. \A n \in 1 .. received[l] : f[n] = PacketOf(Present, l, n)
    OBVIOUS
  <2> HIDE DEF f
  <2>5. f \in Seq(Packets) /\ Len(f) = received[l]
    BY <1>4, <2>3, ListIsSeq
  <2> QED BY <2>1, <2>4, <2>5
<1>6. Sent \in [Lidars -> Seq(Packets)]
  BY <1>5 DEF Sent
<1>7. ASSUME NEW l \in Lidars
      PROVE  /\ delivered[l] \in Seq(Packets) /\ Len(delivered[l]) \in Nat
             /\ Len(delivered[l]) <= received[l]
             /\ \A i \in 1 .. Len(delivered[l]) : delivered[l][i] = Sent[l][i]
  <2> DEFINE d == delivered[l]
             g == Gone(l)
  <2>1. d \in Seq(Packets) /\ points_clouds_[l] \in Seq(Packets)
    BY DEF TypeOK
  <2>2. /\ Len(d) \in Nat /\ Len(g) \in Nat /\ Len(d) <= Len(g)
        /\ \A i \in 1 .. Len(d) : g[i] = d[i]
    BY <2>1, ConcatBegins DEF Gone
  <2>3. received[l] \in Nat /\ Len(g) <= received[l]
    BY <1>4
  <2>4. \A i \in 1 .. Len(g) : g[i] \in Present /\ g[i].lidar = l /\ g[i].num = i
    BY DEF Present, StreamIntact
  <2> HIDE DEF d, g
  <2>5. ASSUME NEW i \in 1 .. Len(d) PROVE d[i] = Sent[l][i]
    <3>1. i \in 1 .. Len(g) /\ i \in 1 .. received[l]
      BY <2>2, <2>3
    <3>2. /\ Sent[l][i] \in Present
          /\ Sent[l][i].lidar = l /\ Sent[l][i].num = i
      BY <1>2, <1>5, <3>1
    <3>3. g[i] = Sent[l][i]
      BY <1>1, <2>4, <3>1, <3>2 DEF Numbered
    <3> QED BY <2>2, <3>3
  <2>6. Len(d) <= received[l]
    BY <2>2, <2>3
  <2> QED BY <2>1, <2>2, <2>5, <2>6 DEF d
<1>8. ASSUME NEW l \in Lidars, NEW n \in 1 .. received[l]
      PROVE  Sent[l][n] \in Present /\ Sent[l][n].lidar = l /\ Sent[l][n].num = n
  BY <1>2, <1>5
<1> QED BY <1>4, <1>5, <1>6, <1>7, <1>8 DEF SentListed

(* What a lidar's frames hold is never taken back. *)
LEMMA DeliveredGrows ==
  ASSUME PubInv, [Next]_vars
  PROVE  \A l \in Lidars : Len(delivered[l]) <= Len(delivered'[l])
<1>1. TypeOK /\ \A l \in Lidars : delivered[l] \in Seq(Packets) /\ Len(delivered[l]) \in Nat
  BY LenProperties DEF PubInv, TypeOK
<1>2. CASE UNCHANGED delivered
  BY <1>1, <1>2
<1>3. CASE Process
  <2>1. raw_data \in Packets
    BY <1>3 DEF PubInv, TypeOK, Process
  <2>2. PICK S : GetLidarPointClouds(S) \/ NoFrame
    BY <1>3 DEF Process, CheckTimerSync, CheckTimerHost
  <2>3. CASE NoFrame
    BY <1>2, <2>3 DEF NoFrame
  <2>4. CASE GetLidarPointClouds(S)
    <3>1. ASSUME NEW l \in Lidars PROVE Len(delivered[l]) <= Len(delivered'[l])
      <4>1. delivered'[l] = IF l \in S THEN delivered[l] \o Gathered[l] ELSE delivered[l]
        BY <2>4 DEF GetLidarPointClouds
      <4>2. Gathered[l] \in Seq(Packets)
        BY <1>1, <2>1, GatheredType
      <4>3. Len(delivered[l]) <= Len(delivered[l] \o Gathered[l])
        BY <1>1, <4>2, ConcatBegins
      <4>4. CASE l \in S
        BY <4>1, <4>3, <4>4
      <4>5. CASE l \notin S
        BY <1>1, <4>1, <4>5
      <4> QED BY <4>4, <4>5
    <3> QED BY <3>1
  <2> QED BY <2>2, <2>3, <2>4
<1>4. CASE Next /\ ~Process
  BY <1>2, <1>4
  DEF Next, RawDataProcess, ReceiveImu, ReceivePoints, Enqueue, TestQuit, TakeOrWait,
      Wake, Tick, RequestExit, clouds
<1>5. CASE UNCHANGED vars
  BY <1>2, <1>5 DEF vars, clouds
<1> QED BY <1>3, <1>4, <1>5

(* No step loses a packet. *)
LEMMA PresentKept ==
  ASSUME PubInv, PubInv', [Next]_vars
  PROVE  Present \subseteq Present'
<1> DEFINE there(l) == {Gone(l)[i] : i \in 1 .. Len(Gone(l))}
<1>1. /\ TypeOK /\ TypeOK' /\ Line \in Seq(Packets) /\ Len(Line) \in Nat
      /\ \A l \in Lidars : Gone(l) \in Seq(Packets) /\ Len(Gone(l)) \in Nat
  BY LineTypes, LenProperties DEF PubInv
<1>2. CASE Line' = Line /\ \A l \in Lidars : Gone(l)' = Gone(l)
  BY <1>2 DEF Present
<1>3. ASSUME NEW sync \in Syncs, NEW l \in Lidars, ReceivePoints(l, sync)
      PROVE  Present \subseteq Present'
  <2>1. sdk' \in Packets /\ Line' = Append(Line, sdk')
    BY <1>1, <1>3, ReceiveExtends
  <2>3. \A k \in 1 .. Len(Line) : k \in 1 .. Len(Line') /\ Line'[k] = Line[k]
    BY <1>1, <2>1, AppendProperties
  <2>4. \A k \in Lidars : Gone(k)' = Gone(k)
    BY <1>3 DEF ReceivePoints, clouds, Gone
  <2> QED BY <2>3, <2>4 DEF Present
<1>4. CASE Process
  <2>1. PICK l \in Lidars, rest \in Seq(Packets) :
          /\ l = raw_data.lidar /\ Line = <<raw_data>> \o rest /\ Line' = rest
          /\ Gone(l)' = Append(Gone(l), raw_data)
          /\ \A k \in Lidars : k # l => Gone(k)' = Gone(k)
    BY <1>4, ProcessMoves
  <2>2. raw_data \in Packets
    BY <1>1, <1>4 DEF PubInv, TypeOK, Process
  <2>3. /\ Len(Gone(l)') = Len(Gone(l)) + 1
        /\ \A i \in 1 .. Len(Gone(l)) : Gone(l)'[i] = Gone(l)[i]
        /\ Gone(l)'[Len(Gone(l)) + 1] = raw_data
    BY <1>1, <2>1, <2>2, AppendProperties
  <2>4. raw_data \in Present'
    <3>1. Len(Gone(l)) + 1 \in 1 .. Len(Gone(l)')
      BY <1>1, <2>3
    <3> QED BY <2>3, <3>1 DEF Present
  <2>5. ASSUME NEW k \in 1 .. Len(Line) PROVE Line[k] \in Present'
    <3>1. /\ Len(Line) = Len(rest) + 1 /\ Len(rest) \in Nat
          /\ Line[1] = raw_data
          /\ \A j \in 1 .. Len(rest) : Line[j + 1] = rest[j]
      BY <2>1, <2>2, ConcatProperties, LenProperties
    <3>2. CASE k = 1
      BY <2>4, <3>1, <3>2
    <3>3. CASE k # 1
      <4>1. k - 1 \in 1 .. Len(rest) /\ (k - 1) + 1 = k
        BY <3>1, <3>3
      <4>2. Line[k] = Line'[k - 1] /\ k - 1 \in 1 .. Len(Line')
        BY <2>1, <3>1, <4>1
      <4> QED BY <4>2 DEF Present
    <3> QED BY <3>2, <3>3
  <2>6. ASSUME NEW k \in Lidars, NEW i \in 1 .. Len(Gone(k)) PROVE Gone(k)[i] \in Present'
    <3>1. CASE k = l
      <4>1. Gone(l)'[i] = Gone(l)[i] /\ i \in 1 .. Len(Gone(l)')
        BY <1>1, <2>3, <3>1
      <4> QED BY <3>1, <4>1 DEF Present
    <3>2. CASE k # l
      <4>1. Gone(k)' = Gone(k)
        BY <2>1, <3>2
      <4> QED BY <4>1 DEF Present
    <3> QED BY <3>1, <3>2
  <2> QED BY <2>5, <2>6 DEF Present
<1>5. CASE Enqueue
  BY <1>2, <1>5, QueueKeepsLine DEF Enqueue, clouds, Gone
<1>6. CASE TakeOrWait \/ Wake
  <2>1. thread # "process" /\ UNCHANGED <<input, clouds>>
    BY <1>6 DEF TakeOrWait, Wake
  <2>2. \A l \in Lidars : Gone(l)' = Gone(l)
    BY <2>1 DEF clouds, Gone
  <2>3. CASE Dequeue
    BY <1>2, <2>1, <2>2, <2>3, QueueKeepsLine
  <2>4. CASE UNCHANGED <<raw_packet_queue_, raw_data>>
    BY <1>2, <2>1, <2>2, <2>4 DEF Line, Held, input
  <2> QED BY <1>6, <2>3, <2>4 DEF TakeOrWait, Wake, queue
<1>7. CASE UNCHANGED <<input, raw_packet_queue_, raw_data, clouds>>
  BY <1>2, <1>7 DEF Line, Held, Gone, input, clouds
<1>8. ASSUME NEW sync \in Syncs, ReceiveImu(sync) PROVE Present \subseteq Present'
  BY <1>7, <1>8 DEF ReceiveImu, queue
<1>9. CASE TestQuit \/ Tick \/ RequestExit \/ UNCHANGED vars
  BY <1>7, <1>9 DEF TestQuit, Tick, RequestExit, vars, queue
<1> QED BY <1>3, <1>4, <1>5, <1>6, <1>8, <1>9 DEF Next, RawDataProcess

(* What was sent stays sent, in its place. *)
LEMMA SentKept ==
  ASSUME SentListed, SentListed', Numbered', Present \subseteq Present',
         NEW l \in Lidars, NEW n \in 1 .. received[l], n \in 1 .. received'[l]
  PROVE  Sent'[l][n] = Sent[l][n]
<1>1. Sent[l][n] \in Present /\ Sent[l][n].lidar = l /\ Sent[l][n].num = n
  BY DEF SentListed
<1>2. Sent'[l][n] \in Present' /\ Sent'[l][n].lidar = l /\ Sent'[l][n].num = n
  BY DEF SentListed
<1> QED BY <1>1, <1>2 DEF Numbered

(* IsPrefix, element by element. *)
LEMMA PrefixByElements ==
  ASSUME NEW S, NEW s \in Seq(S), NEW t \in Seq(S), Len(s) <= Len(t),
         \A i \in 1 .. Len(s) : t[i] = s[i]
  PROVE  Stream!IsPrefix(s, t)
<1>1. Len(s) \in Nat /\ Len(t) \in Nat
  BY LenProperties
<1>2. SubSeq(s, 1, Len(s)) = SubSeq(t, 1, Len(s))
  BY <1>1
<1> QED BY <1>2 DEF Stream!IsPrefix

(* A step in which no packet is received maps to the end of a frame, or of  *)
(* none.                                                                   *)
LEMMA QuietPublishes ==
  ASSUME PubInv, PubInv', SentListed, SentListed', Numbered', [Next]_vars,
         received' = received
  PROVE  Stream!Publish
<1>1. ASSUME NEW l \in Lidars PROVE Sent'[l] = Sent[l]
  <2> DEFINE s == Sent[l]
             t == Sent'[l]
  <2>1. s \in Seq(Packets) /\ t \in Seq(Packets) /\ Len(s) = received[l] /\ Len(t) = received[l]
    BY DEF SentListed
  <2>2. \A n \in 1 .. received[l] : t[n] = s[n]
    BY PresentKept, SentKept
  <2> HIDE DEF s, t
  <2>3. s = t
    BY <2>1, <2>2, SeqEqual
  <2> QED BY <2>3 DEF s, t
<1>2. Sent' = Sent
  <2>1. Sent \in [Lidars -> Seq(Packets)] /\ Sent' \in [Lidars -> Seq(Packets)]
    BY DEF SentListed
  <2> QED BY <1>1, <2>1
<1>3. delivered' \in [Lidars -> Seq(Packets)]
  BY DEF PubInv, TypeOK
<1>4. ASSUME NEW l \in Lidars
      PROVE  Stream!IsPrefix(delivered[l], delivered'[l]) /\ Stream!IsPrefix(delivered'[l], Sent[l])
  <2> DEFINE d == delivered[l]
             e == delivered'[l]
             s == Sent[l]
  <2>1. d \in Seq(Packets) /\ e \in Seq(Packets) /\ s \in Seq(Packets)
    BY DEF SentListed
  <2>2. Len(d) \in Nat /\ Len(e) \in Nat /\ Len(d) <= Len(e)
    BY <2>1, DeliveredGrows, LenProperties
  <2>3. \A i \in 1 .. Len(d) : d[i] = s[i]
    BY DEF SentListed
  <2>4. Len(e) <= Len(s) /\ \A i \in 1 .. Len(e) : e[i] = s[i]
    BY <1>2 DEF SentListed
  <2> HIDE DEF d, e, s
  <2>5. \A i \in 1 .. Len(d) : e[i] = d[i]
    BY <2>2, <2>3, <2>4
  <2>6. Stream!IsPrefix(d, e)
    BY <2>1, <2>2, <2>5, PrefixByElements
  <2>7. \A i \in 1 .. Len(e) : s[i] = e[i]
    BY <2>4
  <2>8. Stream!IsPrefix(e, s)
    BY <2>1, <2>4, <2>7, PrefixByElements
  <2> QED BY <2>6, <2>8 DEF d, e, s
<1> QED BY <1>2, <1>3, <1>4 DEF Stream!Publish

(* Receiving a packet maps to sending it. *)
LEMMA ReceiveSends ==
  ASSUME PubInv, PubInv', SentListed, SentListed', Numbered',
         NEW sync \in Syncs, NEW l \in Lidars, ReceivePoints(l, sync)
  PROVE  Stream!Send(l)
<1>1. /\ received' = [received EXCEPT ![l] = received[l] + 1]
      /\ received \in [Lidars -> 0 .. MaxPackets] /\ delivered' = delivered
      /\ [Next]_vars
  BY DEF ReceivePoints, PubInv, TypeOK, clouds, Next
<1>2. /\ received'[l] = received[l] + 1
      /\ \A m \in Lidars : m # l => received'[m] = received[m]
      /\ \A m \in Lidars : received[m] \in Nat
  BY <1>1
<1>3. Present \subseteq Present'
  BY <1>1, PresentKept
<1>4. ASSUME NEW m \in Lidars
      PROVE  /\ Sent[m] \in Seq(Packets) /\ Sent'[m] \in Seq(Packets)
             /\ Len(Sent[m]) = received[m] /\ Len(Sent'[m]) = received'[m]
             /\ \A n \in 1 .. received[m] : Sent'[m][n] = Sent[m][n]
  <2>1. \A n \in 1 .. received[m] : n \in 1 .. received'[m]
    BY <1>2
  <2>2. \A n \in 1 .. received[m] : Sent'[m][n] = Sent[m][n]
    BY <1>3, <2>1, SentKept
  <2> QED BY <2>2 DEF SentListed
<1>5. Stream!IsPrefix(Sent[l], Sent'[l]) /\ Len(Sent'[l]) = Len(Sent[l]) + 1
  <2> DEFINE s == Sent[l]
             t == Sent'[l]
  <2>1. /\ s \in Seq(Packets) /\ t \in Seq(Packets)
        /\ Len(t) = Len(s) + 1 /\ Len(s) \in Nat
        /\ \A n \in 1 .. Len(s) : t[n] = s[n]
    BY <1>2, <1>4
  <2> HIDE DEF s, t
  <2>2. Stream!IsPrefix(s, t)
    BY <2>1, PrefixByElements
  <2> QED BY <2>1, <2>2 DEF s, t
<1>6. ASSUME NEW m \in Lidars \ {l} PROVE Sent'[m] = Sent[m]
  <2> DEFINE s == Sent[m]
             t == Sent'[m]
  <2>1. /\ s \in Seq(Packets) /\ t \in Seq(Packets) /\ Len(s) = Len(t)
        /\ \A n \in 1 .. Len(s) : s[n] = t[n]
    BY <1>2, <1>4
  <2> HIDE DEF s, t
  <2>2. s = t
    BY <2>1, SeqEqual
  <2> QED BY <2>2 DEF s, t
<1>7. Sent' \in [Lidars -> Seq(Packets)]
  BY DEF SentListed
<1> QED BY <1>1, <1>5, <1>6, <1>7 DEF Stream!Send

(* PubHandler implements PointStream: whatever the two threads, the switch  *)
(* between the clocks and the other lidars do, a lidar's frames hold a      *)
(* beginning of what it sent, which only grows.                            *)
THEOREM RefinesStream == Spec => StreamRefined
<1>1. Init => Stream!Init
  <2> SUFFICES ASSUME Init PROVE Stream!Init
    OBVIOUS
  <2>1. \A l \in Lidars : received[l] = 0
    BY DEF Init
  <2>2. Sent = [l \in Lidars |-> <<>>]
    BY <2>1 DEF Sent
  <2>3. delivered = [l \in Lidars |-> <<>>]
    BY DEF Init
  <2> QED BY <2>2, <2>3 DEF Stream!Init
<1>2. PubInv /\ StreamIntact => Numbered /\ SentListed
  BY StreamNumbers, SentIsListed DEF PubInv
<1>3. /\ PubInv /\ PubInv' /\ SentListed /\ SentListed' /\ Numbered'
      /\ [Next]_vars
      => [Stream!Next]_Stream!vars
  <2> SUFFICES ASSUME PubInv, PubInv', SentListed, SentListed', Numbered', [Next]_vars
               PROVE  Stream!Next
    OBVIOUS
  <2>1. CASE received' = received
    BY <2>1, QuietPublishes DEF Stream!Next
  <2>2. ASSUME NEW sync \in Syncs, NEW l \in Lidars, ReceivePoints(l, sync)
        PROVE  Stream!Next
    BY <2>2, ReceiveSends DEF Stream!Next
  <2>3. \/ received' = received
        \/ \E sync \in Syncs : \E l \in Lidars : ReceivePoints(l, sync)
    BY DEF Next, RawDataProcess, ReceiveImu, Enqueue, TestQuit, TakeOrWait, Wake, Process,
           Tick, RequestExit, vars, input
  <2> QED BY <2>1, <2>2, <2>3
<1> QED BY <1>1, <1>2, <1>3, PubInvariant, StreamAlwaysIntact, PTL
        DEF Spec, StreamRefined, Stream!Spec

-----------------------------------------------------------------------------
(* A frequency whose interval is a whole number of milliseconds. *)
WholeMilliseconds == Interval = Period

(* TimingInv holds initially. *)
LEMMA TimingStarts == ASSUME WholeMilliseconds PROVE TimingInit => TimingInv
<1> USE IntervalAssumption, TimingAssumption DEF WholeMilliseconds
<1> SUFFICES ASSUME TimingInit PROVE TimingInv
  OBVIOUS
<1> QED
  BY DEF TimingInit, TimingInv, TimingTypeOK, FrameOnTime

(* A frame that began after an interval's start, before the newest point.   *)
LEMMA SpanBound ==
  ASSUME NEW P \in Nat, NEW r \in 0 .. P - 1, NEW s \in Nat, NEW n \in Nat,
         \/ r - s \in 1 .. n
         \/ r < Ratio /\ r + P - s \in 1 .. n
  PROVE  s < P + Ratio
BY IntervalAssumption, TimingAssumption

(* A packet preserves it: the last packet before the end of the first       *)
(* millisecond always finds enough points.                                 *)
LEMMA TimingStep ==
  ASSUME WholeMilliseconds, TimingInv, TimingNext
  PROVE  TimingInv'
<1> DEFINE P == Period
<1>1. P = Interval /\ P \in Nat /\ P >= 2 * Ratio /\ Ratio \in Nat \ {0}
  BY IntervalAssumption, TimingAssumption DEF WholeMilliseconds
<1>2. PICK gap \in Gaps : PointCloudProcess(gap) /\ CheckTimer
  BY DEF TimingNext
<1>3. gap \in Nat /\ Point \in Nat \ {0} /\ Point <= gap /\ gap + Point <= Ratio
  BY <1>2, IntervalAssumption, TimingAssumption
<1>4. /\ recent \in 0 .. P - 1 /\ span \in Nat
      /\ empty \in BOOLEAN /\ framed \in BOOLEAN /\ settled \in BOOLEAN
  BY DEF TimingInv, TimingTypeOK
<1>5. /\ recent' = IF recent + gap < P THEN recent + gap ELSE recent + gap - P
      /\ span' = IF empty THEN gap - Point ELSE span + gap
      /\ settled' = IF empty THEN framed ELSE settled
  BY <1>2 DEF PointCloudProcess
<1>6. /\ recent' \in 0 .. P - 1
      /\ span' \in Nat
  BY <1>1, <1>3, <1>4, <1>5
<1>7. \/ OnBoundary /\ empty' = TRUE /\ framed' = TRUE
      \/ ~OnBoundary /\ empty' = FALSE /\ framed' = framed
  BY <1>2 DEF CheckTimer
<1>8. OnBoundary <=> recent' < Ratio /\ span' >= P - Ratio
  BY <1>1 DEF OnBoundary, publish_interval_tolerance_
<1>9. TimingTypeOK'
  BY <1>4, <1>5, <1>6, <1>7 DEF TimingTypeOK
<1>10. empty' /\ framed' => recent' < Ratio
  BY <1>7, <1>8
<1>11. settled' => framed'
  BY <1>4, <1>5, <1>7 DEF TimingInv
<1> DEFINE Near == \/ recent' - span' \in 1 .. Ratio - 1 + Point
                   \/ /\ recent' < Ratio
                      /\ recent' + P - span' \in 1 .. Ratio - 1 + Point
<1>12. ASSUME settled' PROVE Near
  <2>1. CASE empty
    <3>1. recent < Ratio
      BY <1>4, <1>5, <1>12, <2>1 DEF TimingInv
    <3>2. recent' = recent + gap /\ span' = gap - Point
      BY <1>1, <1>3, <1>4, <1>5, <2>1, <3>1
    <3> QED
      BY <1>1, <1>3, <1>4, <3>1, <3>2
  <2>2. CASE ~empty
    <3>1. settled /\ span' = span + gap
      BY <1>4, <1>5, <1>12, <2>2
    <3>2. \/ recent - span \in 1 .. Ratio - 1 + Point
          \/ /\ recent < Ratio
             /\ recent + P - span \in 1 .. Ratio - 1 + Point
             /\ span < P - Ratio
      BY <1>1, <2>2, <3>1
      DEF TimingInv, Base, WrappedBase, publish_interval_tolerance_
    <3>3. CASE recent - span \in 1 .. Ratio - 1 + Point
      <4>1. CASE recent + gap < P
        BY <1>1, <1>3, <1>4, <1>5, <3>1, <3>3, <4>1
      <4>2. CASE recent + gap >= P
        <5>1. recent' = recent + gap - P
          BY <1>1, <1>3, <1>4, <1>5, <4>2
        <5> QED
          BY <1>1, <1>3, <1>4, <3>1, <3>3, <4>2, <5>1
      <4> QED
        BY <1>1, <1>3, <1>4, <4>1, <4>2
    <3>4. CASE /\ recent < Ratio
               /\ recent + P - span \in 1 .. Ratio - 1 + Point
               /\ span < P - Ratio
      <4>1. recent < Point - 1
        BY <1>1, <1>3, <1>4, <3>4
      <4>2. recent' = recent + gap /\ recent' < Ratio
        BY <1>1, <1>3, <1>4, <1>5, <4>1
      <4> QED
        BY <1>1, <1>3, <1>4, <3>1, <3>4, <4>2
    <3> QED
      BY <3>2, <3>3, <3>4
  <2> QED
    BY <1>4, <2>1, <2>2
<1>13. Near => span' < P + Ratio
  <2>1. P \in Nat /\ Ratio - 1 + Point \in Nat
    BY <1>1, <1>3
  <2> QED
    BY <1>6, <2>1, SpanBound
<1>14. ~empty' /\ recent' < Ratio => span' < P - Ratio
  <2>1. P - Ratio \in Int /\ span' \in Int
    BY <1>1, <1>6
  <2>2. span' >= P - Ratio \/ span' < P - Ratio
    BY <2>1
  <2> QED
    BY <1>7, <1>8, <2>2
<1> QED
  BY <1>1, <1>9, <1>10, <1>11, <1>12, <1>13, <1>14
  DEF TimingInv, FrameOnTime, Base, WrappedBase, publish_interval_tolerance_

(* TimingInv is an invariant. *)
THEOREM TimingInvariant == ASSUME WholeMilliseconds PROVE TimingSpec => []TimingInv
<1>1. TimingInit => TimingInv
  BY TimingStarts
<1>2. TimingInv /\ [TimingNext]_timingVars => TimingInv'
  <2>1. ASSUME TimingInv, TimingNext PROVE TimingInv'
    BY <2>1, TimingStep
  <2>2. ASSUME TimingInv, UNCHANGED timingVars PROVE TimingInv'
    BY <2>2
    DEF timingVars, TimingInv, TimingTypeOK, FrameOnTime, Base, WrappedBase
  <2> QED
    BY <2>1, <2>2
<1> QED
  BY <1>1, <1>2, PTL DEF TimingSpec

(* After the first frame none spans an interval and a millisecond: the      *)
(* tolerance of one millisecond is enough at every such frequency.         *)
THEOREM FramesAreOnTime == ASSUME WholeMilliseconds PROVE TimingSpec => []FrameOnTime
<1>1. TimingInv => FrameOnTime
  BY DEF TimingInv
<1> QED
  BY <1>1, TimingInvariant, PTL
=============================================================================
