---------------------------- MODULE PointDelivery ----------------------------
(***************************************************************************)
(* How stored data wakes the poll threads of the driver and is published:  *)
(* the producer (Lds::PushLidarData on the packet-assembly thread, or      *)
(* Lds::StorageImuData on the SDK's thread), the semaphore it shares with  *)
(* one poll thread (Lddc::DistributePointCloudData or DistributeImuData,   *)
(* called in a loop by DriverNode), and the driver's shutdown.             *)
(*                                                                         *)
(* The queue of a lidar is the PacketChannel that LidarDataQueue           *)
(* implements; only how many packets it holds matters here.  The IMU path  *)
(* has the same shape with an unbounded list behind a mutex, so one module *)
(* covers the three loops the code can run ("mode").                       *)
(***************************************************************************)
EXTENDS Integers

CONSTANTS
  LidarCount,   (* lidar_count_, the lidars a poll thread scans           *)
  Capacity,     (* packets a point-cloud queue holds                      *)
  Modes,        (* the loops considered, among "cloud", "pcl" and "imu"   *)
  MaxPushes     (* bound: packets the lidars send in a behaviour          *)

ASSUME DeliveryAssumption ==
  /\ LidarCount \in Nat \ {0}
  /\ Capacity \in Nat \ {0}
  /\ Modes \subseteq {"cloud", "pcl", "imu"}
  /\ MaxPushes \in Nat

Lidars == 0 .. LidarCount - 1

VARIABLES
  mode,       (* "cloud": xfer_format 0 or 1, "pcl": 2, "imu": the IMU path *)
  queued,     (* how many packets wait in the queue of each lidar           *)
  sampling,   (* the lidars whose connect_state is kConnectStateSampling    *)
  count,      (* count_ of the semaphore                                    *)
  store,      (* where the producer is                                      *)
  cur,        (* the lidar the producer is storing for                      *)
  pushes,     (* packets sent so far, at most MaxPushes                     *)
  poll,       (* where the poll thread is                                   *)
  at,         (* the lidar its scan has reached                             *)
  exitFlag,   (* request_exit_                                              *)
  exitSignal, (* exit_signal_ has been set                                  *)
  skipped     (* history: lidars the last scan passed over as not Sampling  *)

producer == <<store, cur, pushes>>
poller == <<poll, at, skipped>>
exit == <<exitFlag, exitSignal>>
vars == <<mode, queued, sampling, count, producer, poller, exit>>

StorePC == {"idle", "test", "count", "signal"}
PollPC == {"start", "wait", "scan", "outer", "inner", "check", "ended"}

TypeOK ==
  /\ mode \in {"cloud", "pcl", "imu"}
  /\ queued \in [Lidars -> Nat]
  /\ sampling \subseteq Lidars
  /\ count \in Nat
  /\ store \in StorePC
  /\ cur \in Lidars
  /\ pushes \in Nat
  /\ poll \in PollPC
  /\ at \in 0 .. LidarCount
  /\ exitFlag \in BOOLEAN
  /\ exitSignal \in BOOLEAN
  /\ skipped \subseteq Lidars

Init ==
  /\ mode \in Modes
  /\ queued = [l \in Lidars |-> 0]
  /\ sampling = {}
  /\ count = 0
  /\ store = "idle"
  /\ cur = 0
  /\ pushes = 0
  /\ poll = "start"
  /\ at = 0
  /\ exitFlag = FALSE
  /\ exitSignal = FALSE
  /\ skipped = {}

-----------------------------------------------------------------------------
(* The producer. *)

QueueIsFull(l) == mode # "imu" /\ queued[l] >= Capacity

(* PushLidarData stores a packet in a queue with room. *)
StorePacket(l) ==
  /\ store = "idle"
  /\ pushes < MaxPushes
  /\ ~QueueIsFull(l)
  /\ queued' = [queued EXCEPT ![l] = @ + 1]
  /\ cur' = l
  /\ pushes' = pushes + 1
  /\ store' = "test"
  /\ UNCHANGED <<mode, sampling, count, poller, exit>>

(* A packet for a full queue is lost, and the poll thread woken instead. *)
DropPacket(l) ==
  /\ store = "idle"
  /\ pushes < MaxPushes
  /\ QueueIsFull(l)
  /\ cur' = l
  /\ pushes' = pushes + 1
  /\ store' = "count"
  /\ UNCHANGED <<mode, queued, sampling, count, poller, exit>>

(* The queue is tested again: the poll thread may have emptied it already. *)
TestQueue ==
  /\ store = "test"
  /\ store' = IF queued[cur] > 0 THEN "count" ELSE "idle"
  /\ UNCHANGED <<mode, queued, sampling, count, cur, pushes, poller, exit>>

\* A stale count: the semaphore is taken to be up when it is down.
GetCountInverted ==
  /\ store = "count"
  /\ store' = IF count > 0 THEN "signal" ELSE "idle"
  /\ UNCHANGED <<mode, queued, sampling, count, cur, pushes, poller, exit>>

\* An off-by-one: one wake-up more may be pending.
GetCountLoose ==
  /\ store = "count"
  /\ store' = IF count <= 1 THEN "signal" ELSE "idle"
  /\ UNCHANGED <<mode, queued, sampling, count, cur, pushes, poller, exit>>

(* GetCount reads the count outside the semaphore's mutex. *)
GetCount ==
  /\ store = "count"
  /\ store' = IF count <= 0 THEN "signal" ELSE "idle"
  /\ UNCHANGED <<mode, queued, sampling, count, cur, pushes, poller, exit>>

Signal ==
  /\ store = "signal"
  /\ count' = count + 1
  /\ store' = "idle"
  /\ UNCHANGED <<mode, queued, sampling, cur, pushes, poller, exit>>

FinishStore == TestQueue \/ GetCount \/ Signal

-----------------------------------------------------------------------------
(* The poll thread. *)

(* Distribute...Data returns at once when the exit was requested. *)
BeginDistribute ==
  /\ poll = "start"
  /\ poll' = IF exitFlag THEN "check" ELSE "wait"
  /\ UNCHANGED <<mode, queued, sampling, count, producer, at, skipped, exit>>

Wait ==
  /\ poll = "wait"
  /\ count > 0
  /\ count' = count - 1
  /\ poll' = "scan"
  /\ at' = 0
  /\ UNCHANGED <<mode, queued, sampling, producer, skipped, exit>>

(* The scan passes over a lidar that is not Sampling, whatever it stored. *)
SkipLidar ==
  /\ poll = "scan"
  /\ at \in Lidars \ sampling
  /\ at' = at + 1
  /\ skipped' = skipped \cup {at}
  /\ UNCHANGED <<mode, queued, sampling, count, producer, poll, exit>>

VisitLidar ==
  /\ poll = "scan"
  /\ at \in sampling
  /\ poll' = "outer"
  /\ skipped' = skipped \ {at}
  /\ UNCHANGED <<mode, queued, sampling, count, producer, at, exit>>

EndScan ==
  /\ poll = "scan"
  /\ at = LidarCount
  /\ poll' = "check"
  /\ UNCHANGED <<mode, queued, sampling, count, producer, at, skipped, exit>>

\* Polling that publishes once per visit and leaves the rest of the queue.
PollOnce ==
  /\ poll = "outer"
  /\ \/ /\ ~exitFlag /\ queued[at] > 0
        /\ queued' = [queued EXCEPT ![at] = @ - 1]
     \/ /\ exitFlag \/ queued[at] = 0
        /\ UNCHANGED queued
  /\ poll' = "scan"
  /\ at' = at + 1
  /\ UNCHANGED <<mode, sampling, count, producer, skipped, exit>>

(* PollingLidar...Data: while no exit is requested and the queue has data. *)
PollQueue ==
  /\ poll = "outer"
  /\ \/ /\ ~exitFlag /\ queued[at] > 0
        /\ poll' = "inner"
        /\ UNCHANGED at
     \/ /\ exitFlag \/ queued[at] = 0
        /\ poll' = "scan"
        /\ at' = at + 1
  /\ UNCHANGED <<mode, queued, sampling, count, producer, skipped, exit>>

(* PublishPointcloud2 and PublishCustomPointcloud pop until the queue is    *)
(* empty, without looking at the exit flag.                                *)
PublishCloud ==
  /\ poll = "inner" /\ mode = "cloud"
  /\ \/ /\ queued[at] > 0
        /\ queued' = [queued EXCEPT ![at] = @ - 1]
        /\ UNCHANGED poll
     \/ /\ queued[at] = 0
        /\ poll' = "outer"
        /\ UNCHANGED queued
  /\ UNCHANGED <<mode, sampling, count, producer, at, skipped, exit>>

(* In ROS 2 PublishPclMsg reports the format as unsupported, pops nothing,  *)
(* and is called again at once by the loop around it.                      *)
PublishPclMsg ==
  /\ poll = "inner" /\ mode = "pcl"
  /\ poll' = "outer"
  /\ UNCHANGED <<mode, queued, sampling, count, producer, at, skipped, exit>>

(* PublishImuData pops one message. *)
PublishImuData ==
  /\ poll = "inner" /\ mode = "imu"
  /\ queued' = [queued EXCEPT ![at] = @ - 1]
  /\ poll' = "outer"
  /\ UNCHANGED <<mode, sampling, count, producer, at, skipped, exit>>

\* A poll loop that forgets to look at exit_signal_.
CheckExitIgnored ==
  /\ poll = "check"
  /\ poll' = "start"
  /\ UNCHANGED <<mode, queued, sampling, count, producer, at, skipped, exit>>

(* The loop of ...DataPollThread ends when the future is ready. *)
CheckExit ==
  /\ poll = "check"
  /\ poll' = IF exitSignal THEN "ended" ELSE "start"
  /\ UNCHANGED <<mode, queued, sampling, count, producer, at, skipped, exit>>

Poll ==
  \/ BeginDistribute \/ Wait
  \/ SkipLidar \/ VisitLidar \/ EndScan
  \/ PollQueue \/ PublishCloud \/ PublishPclMsg \/ PublishImuData
  \/ CheckExit

-----------------------------------------------------------------------------
(* The environment: the lidar's configuration completes (DeviceConfig), and *)
(* the driver node is destroyed.                                            *)

Connect(l) ==
  /\ l \notin sampling
  /\ sampling' = sampling \cup {l}
  /\ UNCHANGED <<mode, queued, count, producer, poller, exit>>

(* ~DriverNode raises the flag, then the signal, then joins the thread. *)
RequestExit ==
  /\ ~exitFlag
  /\ exitFlag' = TRUE
  /\ UNCHANGED <<mode, queued, sampling, count, producer, poller, exitSignal>>

SetExitSignal ==
  /\ exitFlag /\ ~exitSignal
  /\ exitSignal' = TRUE
  /\ UNCHANGED <<mode, queued, sampling, count, producer, poller, exitFlag>>

-----------------------------------------------------------------------------
Next ==
  \/ \E l \in Lidars : StorePacket(l) \/ DropPacket(l) \/ Connect(l)
  \/ FinishStore
  \/ Poll
  \/ RequestExit
  \/ SetExitSignal

Spec == Init /\ [][Next]_vars

(* Both threads keep running; nothing forces a lidar to send or to connect, *)
(* or the driver to exit.                                                  *)
FairSpec == Spec /\ WF_vars(Poll) /\ WF_vars(FinishStore)

-----------------------------------------------------------------------------
Blocked == poll = "wait" /\ count = 0

(* However the unlocked GetCount races with Wait, the semaphore is never    *)
(* raised twice, so a burst of packets costs one scan, not one each.       *)
SemaphoreBinary ==
  /\ count \in {0, 1}
  /\ store = "signal" => count = 0

(* The poll thread never sleeps on data: when it is blocked and no store is *)
(* under way, only lidars it saw before they were Sampling hold packets.   *)
NoLostWakeup ==
  Blocked /\ store = "idle" /\ ~exitFlag =>
    \A l \in Lidars : queued[l] > 0 => l \in skipped

(* Data of a lidar that is Sampling is published, also when no packet       *)
(* follows it; not so in mode "pcl", where nothing ever is.                *)
Delivered ==
  \A l \in Lidars :
    (mode # "pcl" /\ l \in sampling \ skipped /\ queued[l] > 0)
      ~> (queued[l] = 0 \/ exitFlag)

(* Once the exit is signalled the thread ends or is blocked, and it ends    *)
(* when the semaphore is up: only a lidar that went silent can keep        *)
(* ~DriverNode waiting in join.                                            *)
ExitEnds ==
  /\ exitSignal ~> (poll = "ended" \/ Blocked)
  /\ (exitSignal /\ count > 0) ~> poll = "ended"

-----------------------------------------------------------------------------
(* The inductive invariant behind NoLostWakeup. *)

(* The current scan has yet to look at l. *)
WillVisit(l) == poll \in {"scan", "outer", "inner"} /\ at <= l

(* A lidar with data is accounted for: a wake-up is pending or on its way,  *)
(* the scan will reach it, or it was not Sampling when it was reached.     *)
WakeupInv ==
  /\ TypeOK
  /\ SemaphoreBinary
  /\ poll \in {"outer", "inner"} => at \in Lidars
  /\ poll = "inner" /\ mode = "imu" => queued[at] > 0
  /\ ~exitFlag =>
       \A l \in Lidars : queued[l] > 0 =>
         \/ l \in skipped
         \/ count > 0
         \/ store \in {"count", "signal"}
         \/ store = "test" /\ cur = l
         \/ WillVisit(l)

=============================================================================
