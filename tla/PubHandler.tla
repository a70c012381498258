----------------------------- MODULE PubHandler -----------------------------
(***************************************************************************)
(* Assembling point clouds (comm/pub_handler.cpp).  The SDK's thread       *)
(* queues raw packets; the processing thread takes one at a time, appends  *)
(* its points to those of its lidar, and CheckTimer decides whether a      *)
(* frame is published: at the boundaries of the lidar's own clock when the *)
(* lidars are synchronised, by the host's clock otherwise.                 *)
(*                                                                         *)
(* A packet stands for its points and carries one time stamp.  Time is     *)
(* counted in ticks.  The end of a frame is the data of PointDelivery.     *)
(***************************************************************************)
EXTENDS PublishInterval, Sequences

CONSTANTS
  Lidars,      (* the handles of the lidars                                 *)
  NoPacket,    (* no packet is held                                         *)
  Syncs,       (* whether packets may be synchronised, a subset of BOOLEAN  *)
  Skew,        (* how far the lidars' common clock is ahead of the host's   *)
  MaxPackets,  (* bound: point packets received from a lidar                *)
  MaxTime      (* bound: the host's clock                                   *)

Times == Nat
Packets == [lidar : Lidars, num : 1 .. MaxPackets, stamp : Times]

ASSUME PubAssumption ==
  /\ NoPacket \notin Packets
  /\ Syncs \subseteq BOOLEAN
  /\ Skew \in Nat
  /\ MaxPackets \in Nat
  /\ MaxTime \in Nat

VARIABLES
  now,                (* the host's clock                                   *)
  is_timestamp_sync_, (* what the last packet of any lidar said             *)
  received,           (* how many point packets a lidar sent                *)
  sdk,                (* the packet the SDK's callback holds, or NoPacket   *)
  raw_packet_queue_,  (* the packets queued, oldest first                   *)
  notified,           (* packet_condition_ was notified during the wait     *)
  thread,             (* where the processing thread is                     *)
  raw_data,           (* the packet it holds, or NoPacket                   *)
  handlers,           (* the lidars in lidar_process_handlers_              *)
  points_clouds_,     (* the points gathered per lidar                      *)
  points_,            (* the points of a lidar's last frame                 *)
  first,              (* last_pub_time_ was never set                       *)
  last_pub_time_,     (* the host time of the last frame, in whole intervals*)
  delivered,          (* history: the packets a lidar's frames held         *)
  is_quit_            (* RequestExit was called                             *)

input == <<received, sdk>>
queue == <<raw_packet_queue_, notified>>
clouds == <<handlers, points_clouds_, points_, delivered>>
timer == <<first, last_pub_time_>>
vars == <<now, is_timestamp_sync_, input, queue, thread, raw_data, clouds,
          timer, is_quit_>>

TypeOK ==
  /\ now \in Times
  /\ is_timestamp_sync_ \in BOOLEAN
  /\ received \in [Lidars -> 0 .. MaxPackets]
  /\ sdk \in Packets \cup {NoPacket}
  /\ raw_packet_queue_ \in Seq(Packets)
  /\ notified \in BOOLEAN
  /\ thread \in {"loop", "lock", "wait", "process", "ended"}
  /\ raw_data \in Packets \cup {NoPacket}
  /\ handlers \subseteq Lidars
  /\ points_clouds_ \in [Lidars -> Seq(Packets)]
  /\ points_ \in [Lidars -> Seq(Packets)]
  /\ first \in BOOLEAN
  /\ last_pub_time_ \in Times
  /\ delivered \in [Lidars -> Seq(Packets)]
  /\ is_quit_ \in BOOLEAN

-----------------------------------------------------------------------------
Init ==
  /\ now = Interval
  /\ is_timestamp_sync_ = FALSE
  /\ received = [l \in Lidars |-> 0]
  /\ sdk = NoPacket
  /\ raw_packet_queue_ = <<>> /\ notified = FALSE
  /\ thread = "loop" /\ raw_data = NoPacket
  /\ handlers = {}
  /\ points_clouds_ = [l \in Lidars |-> <<>>]
  /\ points_ = [l \in Lidars |-> <<>>]
  /\ first = TRUE /\ last_pub_time_ = 0
  /\ delivered = [l \in Lidars |-> <<>>]
  /\ is_quit_ = FALSE

(* The time GetEthPacketTimestamp gives a packet. *)
Timestamp(sync) == IF sync THEN now + Skew ELSE now

-----------------------------------------------------------------------------
(* OnLivoxLidarPointCloudCallback, run by the SDK's thread. *)

(* The flag is set before the packet is queued, also by an IMU packet,      *)
(* which goes to its own callback at once.                                 *)
ReceiveImu(sync) ==
  /\ sdk = NoPacket
  /\ is_timestamp_sync_' = sync
  /\ UNCHANGED <<now, input, queue, thread, raw_data, clouds, timer, is_quit_>>

ReceivePoints(l, sync) ==
  /\ sdk = NoPacket
  /\ received[l] < MaxPackets
  /\ is_timestamp_sync_' = sync
  /\ received' = [received EXCEPT ![l] = @ + 1]
  /\ sdk' = [lidar |-> l, num |-> received'[l], stamp |-> Timestamp(sync)]
  /\ UNCHANGED <<now, queue, thread, raw_data, clouds, timer, is_quit_>>

\* A queue that is filled at the end it is taken from.
EnqueueFront ==
  /\ sdk # NoPacket
  /\ raw_packet_queue_' = <<sdk>> \o raw_packet_queue_
  /\ notified' = (thread = "wait")
  /\ sdk' = NoPacket
  /\ UNCHANGED <<now, is_timestamp_sync_, received, thread, raw_data, clouds,
                 timer, is_quit_>>

(* push_back under packet_mutex_, then notify_one. *)
Enqueue ==
  /\ sdk # NoPacket
  /\ raw_packet_queue_' = Append(raw_packet_queue_, sdk)
  /\ notified' = (thread = "wait")
  /\ sdk' = NoPacket
  /\ UNCHANGED <<now, is_timestamp_sync_, received, thread, raw_data, clouds,
                 timer, is_quit_>>

-----------------------------------------------------------------------------
(* RawDataProcess, run by the processing thread. *)

TestQuit ==
  /\ thread = "loop"
  /\ thread' = IF is_quit_ THEN "ended" ELSE "lock"
  /\ UNCHANGED <<now, is_timestamp_sync_, input, queue, raw_data, clouds,
                 timer, is_quit_>>

(* The oldest packet, taken under packet_mutex_. *)
Dequeue ==
  /\ raw_packet_queue_ # <<>>
  /\ raw_data' = Head(raw_packet_queue_)
  /\ raw_packet_queue_' = Tail(raw_packet_queue_)
  /\ thread' = "process"
  /\ notified' = FALSE

(* Without a packet wait_for gives up the mutex. *)
TakeOrWait ==
  /\ thread = "lock"
  /\ \/ Dequeue
     \/ /\ raw_packet_queue_ = <<>>
        /\ thread' = "wait"
        /\ UNCHANGED <<queue, raw_data>>
  /\ UNCHANGED <<now, is_timestamp_sync_, input, clouds, timer, is_quit_>>

\* A wait() that only a notification ends.
WakeNotified ==
  /\ thread = "wait" /\ notified
  /\ \/ Dequeue
     \/ /\ raw_packet_queue_ = <<>>
        /\ thread' = "loop"
        /\ notified' = FALSE
        /\ UNCHANGED <<raw_packet_queue_, raw_data>>
  /\ UNCHANGED <<now, is_timestamp_sync_, input, clouds, timer, is_quit_>>

\* A thread that ends when it is woken for nothing.
WakeBreaks ==
  /\ thread = "wait"
  /\ \/ Dequeue
     \/ /\ raw_packet_queue_ = <<>>
        /\ thread' = "ended"
        /\ notified' = FALSE
        /\ UNCHANGED <<raw_packet_queue_, raw_data>>
  /\ UNCHANGED <<now, is_timestamp_sync_, input, clouds, timer, is_quit_>>

(* It returns when it is notified or after 500 ms, whichever comes first,   *)
(* and the queue is looked at again.                                       *)
Wake ==
  /\ thread = "wait"
  /\ \/ Dequeue
     \/ /\ raw_packet_queue_ = <<>>
        /\ thread' = "loop"
        /\ notified' = FALSE
        /\ UNCHANGED <<raw_packet_queue_, raw_data>>
  /\ UNCHANGED <<now, is_timestamp_sync_, input, clouds, timer, is_quit_>>

(* PointCloudProcess: the handler is created on the first packet. *)
Gathered ==
  [points_clouds_ EXCEPT ![raw_data.lidar] = Append(@, raw_data)]

\* The buffer of the last frame, swapped in without having been cleared.
GetLidarPointCloudsUncleared(S) ==
  /\ points_clouds_' = [l \in Lidars |->
                          IF l \in S THEN points_[l] ELSE Gathered[l]]
  /\ points_' = [l \in Lidars |-> IF l \in S THEN Gathered[l] ELSE points_[l]]
  /\ delivered' = [l \in Lidars |-> IF l \in S THEN delivered[l] \o Gathered[l]
                                              ELSE delivered[l]]

(* The points of the lidars in S are swapped into the cleared points_, and  *)
(* the callback gets a frame of those that have any.                       *)
GetLidarPointClouds(S) ==
  /\ points_clouds_' = [l \in Lidars |->
                          IF l \in S THEN <<>> ELSE Gathered[l]]
  /\ points_' = [l \in Lidars |-> IF l \in S THEN Gathered[l] ELSE points_[l]]
  /\ delivered' = [l \in Lidars |-> IF l \in S THEN delivered[l] \o Gathered[l]
                                              ELSE delivered[l]]

NoFrame ==
  /\ points_clouds_' = Gathered
  /\ UNCHANGED <<points_, delivered>>

(* The newest points of the lidar fall into the first millisecond of an     *)
(* interval of its clock, and span nearly an interval; the subtraction in   *)
(* uint64_t makes a base time in the future count as the distant past.      *)
BoundaryReached(l) ==
  LET recent == Gathered[l][Len(Gathered[l])].stamp
      base == Gathered[l][1].stamp
  IN /\ (recent \div Ratio) % publish_interval_ms_ = 0
     /\ recent < base \/ recent - base >= publish_interval_tolerance_

(* A synchronised lidar's points are a frame of their own. *)
CheckTimerSync(l) ==
  /\ is_timestamp_sync_
  /\ \/ BoundaryReached(l) /\ GetLidarPointClouds({l})
     \/ ~BoundaryReached(l) /\ NoFrame
  /\ UNCHANGED <<first, last_pub_time_>>

\* A timer that is advanced whether it has run down or not.
CheckTimerHostAlways ==
  /\ ~is_timestamp_sync_
  /\ \/ first /\ last_pub_time_' = now /\ NoFrame
     \/ /\ ~first
        /\ last_pub_time_' = last_pub_time_ + Interval
        /\ GetLidarPointClouds(handlers')
  /\ first' = FALSE

(* Otherwise the frame holds the points of all lidars, one interval after   *)
(* the one before.                                                         *)
CheckTimerHost ==
  /\ ~is_timestamp_sync_
  /\ \/ first /\ last_pub_time_' = now /\ NoFrame
     \/ /\ ~first /\ now - last_pub_time_ < Interval
        /\ UNCHANGED last_pub_time_ /\ NoFrame
     \/ /\ ~first /\ now - last_pub_time_ >= Interval
        /\ last_pub_time_' = last_pub_time_ + Interval
        /\ GetLidarPointClouds(handlers')
  /\ first' = FALSE

Process ==
  /\ thread = "process"
  /\ handlers' = handlers \cup {raw_data.lidar}
  /\ CheckTimerSync(raw_data.lidar) \/ CheckTimerHost
  /\ raw_data' = NoPacket
  /\ thread' = "loop"
  /\ UNCHANGED <<now, is_timestamp_sync_, input, queue, is_quit_>>

RawDataProcess == TestQuit \/ TakeOrWait \/ Wake \/ Process

-----------------------------------------------------------------------------
Tick ==
  /\ now < MaxTime
  /\ now' = now + 1
  /\ UNCHANGED <<is_timestamp_sync_, input, queue, thread, raw_data, clouds,
                 timer, is_quit_>>

(* Uninit, which then joins the processing thread. *)
RequestExit ==
  /\ ~is_quit_
  /\ is_quit_' = TRUE
  /\ UNCHANGED <<now, is_timestamp_sync_, input, queue, thread, raw_data,
                 clouds, timer>>

Next ==
  \/ \E sync \in Syncs :
       ReceiveImu(sync) \/ \E l \in Lidars : ReceivePoints(l, sync)
  \/ Enqueue
  \/ RawDataProcess
  \/ Tick
  \/ RequestExit

Spec == Init /\ [][Next]_vars

(* Both threads are scheduled, and the callback returns. *)
FairSpec == Spec /\ WF_vars(RawDataProcess) /\ WF_vars(Enqueue)

-----------------------------------------------------------------------------
(* The packets on their way to the lidars' clouds, oldest first, and those  *)
(* of lidar l that have got there.                                         *)
Held(p) == IF p = NoPacket THEN <<>> ELSE <<p>>
Line == Held(raw_data) \o (raw_packet_queue_ \o Held(sdk))
Gone(l) == delivered[l] \o points_clouds_[l]

(* Of lidar l the line holds the packets m + 1 .. n, in that order. *)
Carries(line, l, m, n) ==
  LET Mine == {k \in 1 .. Len(line) : line[k].lidar = l}
  IN /\ m <= n
     /\ {line[k].num : k \in Mine} = m + 1 .. n
     /\ \A j, k \in Mine : j < k => line[j].num < line[k].num

(* Whatever the two threads, the switches between the clocks and the other  *)
(* lidars do, a lidar's points reach its frames in the order in which they  *)
(* were received, none twice and none left out.                            *)
StreamIntact ==
  \A l \in Lidars :
    /\ \A i \in 1 .. Len(Gone(l)) : Gone(l)[i].lidar = l /\ Gone(l)[i].num = i
    /\ Carries(Line, l, Len(Gone(l)), received[l])

(* The packets on their way or arrived, and what a lidar sent: the n-th     *)
(* packet of a lidar is the one of these with the number n.                *)
Present ==
  {Line[k] : k \in 1 .. Len(Line)}
    \cup UNION {{Gone(l)[i] : i \in 1 .. Len(Gone(l))} : l \in Lidars}
PacketOf(S, l, n) == CHOOSE p \in S : p.lidar = l /\ p.num = n
Sent ==
  [l \in Lidars |-> [n \in 1 .. received[l] |-> PacketOf(Present, l, n)]]

(* A lidar's frames hold a beginning of what it sent, whatever the clocks   *)
(* and the other lidars do, and what they held once is never taken back.   *)
Stream == INSTANCE PointStream WITH sent <- Sent, framed <- delivered
StreamRefined == Stream!Spec

(* Everything queued is processed, unless the driver is told to stop. *)
Drained == raw_packet_queue_ # <<>> ~> (is_quit_ \/ raw_packet_queue_ = <<>>)

(* Uninit's join returns, although nobody notifies the condition. *)
QuitEnds == is_quit_ ~> thread = "ended"

(* last_pub_time_ moves in whole intervals and never runs ahead of the      *)
(* clock, so no frame is held back for longer than an interval; and the     *)
(* processing thread holds a packet only while it processes it.            *)
PubInv ==
  /\ TypeOK
  /\ last_pub_time_ <= now
  /\ raw_data # NoPacket <=> thread = "process"

=============================================================================
