------------------------ MODULE PointDeliveryProofs ------------------------
(***************************************************************************)
(* Proofs about PointDelivery, for every number of lidars, every capacity  *)
(* and without the bound on the packets mattering.                         *)
(***************************************************************************)
EXTENDS PointDelivery, TLAPS

USE DeliveryAssumption DEF Lidars, StorePC, PollPC

(* Before the first packet there is no wake-up to lose. *)
LEMMA WakeupInit == Init => WakeupInv
<1> SUFFICES ASSUME Init PROVE WakeupInv
  OBVIOUS
<1>1. TypeOK
  <2>1. mode \in {"cloud", "pcl", "imu"}
    BY Zenon DEF Init
  <2>2. queued \in [Lidars -> Nat] /\ cur \in Lidars /\ at \in 0 .. LidarCount
    BY DEF Init
  <2>3. store \in StorePC /\ poll \in PollPC
    BY Zenon DEF Init
  <2>4. QED
    BY <2>1, <2>2, <2>3 DEF Init, TypeOK
<1>2. QED
  BY <1>1 DEF Init, WakeupInv, SemaphoreBinary

(* A store, from the push to the signal it may end with. *)
LEMMA WakeupStore ==
  WakeupInv /\ (FinishStore \/ \E l \in Lidars : StorePacket(l) \/ DropPacket(l))
    => WakeupInv'
<1> SUFFICES ASSUME WakeupInv,
                    FinishStore \/ \E l \in Lidars : StorePacket(l) \/ DropPacket(l)
             PROVE  WakeupInv'
  OBVIOUS
<1> USE DEF WakeupInv, TypeOK, SemaphoreBinary, WillVisit, poller, exit
<1>1. ASSUME NEW l \in Lidars, StorePacket(l) PROVE WakeupInv'
  BY <1>1 DEF StorePacket
<1>2. ASSUME NEW l \in Lidars, DropPacket(l) PROVE WakeupInv'
  BY <1>2 DEF DropPacket
<1>3. CASE TestQueue
  BY <1>3 DEF TestQueue
<1>4. CASE GetCount
  BY <1>4 DEF GetCount
<1>5. CASE Signal
  BY <1>5 DEF Signal
<1>6. QED
  BY <1>1, <1>2, <1>3, <1>4, <1>5 DEF FinishStore

(* A step of the poll thread. *)
LEMMA WakeupPoll == WakeupInv /\ Poll => WakeupInv'
<1> SUFFICES ASSUME WakeupInv, Poll PROVE WakeupInv'
  OBVIOUS
<1> USE DEF WakeupInv, TypeOK, SemaphoreBinary, WillVisit, producer, exit
<1>1. CASE BeginDistribute
  BY <1>1 DEF BeginDistribute
<1>2. CASE Wait
  BY <1>2 DEF Wait
<1>3. CASE SkipLidar
  BY <1>3 DEF SkipLidar
<1>4. CASE VisitLidar
  BY <1>4 DEF VisitLidar
<1>5. CASE EndScan
  BY <1>5 DEF EndScan
<1>6. CASE PollQueue
  BY <1>6 DEF PollQueue
<1>7. CASE PublishCloud
  BY <1>7, SMTT(30) DEF PublishCloud
<1>8. CASE PublishPclMsg
  BY <1>8 DEF PublishPclMsg
<1>9. CASE PublishImuData
  BY <1>9 DEF PublishImuData
<1>10. CASE CheckExit
  BY <1>10 DEF CheckExit
<1>11. QED
  BY <1>1, <1>2, <1>3, <1>4, <1>5, <1>6, <1>7, <1>8, <1>9, <1>10 DEF Poll

(* A lidar that connects, and the two steps of the shutdown. *)
LEMMA WakeupEnvironment ==
  WakeupInv /\ (RequestExit \/ SetExitSignal \/ \E l \in Lidars : Connect(l))
    => WakeupInv'
<1> USE DEF WakeupInv, TypeOK, SemaphoreBinary, WillVisit, producer, poller
<1>1. ASSUME WakeupInv, NEW l \in Lidars, Connect(l) PROVE WakeupInv'
  <2>1. sampling' \subseteq Lidars
    BY <1>1 DEF Connect
  <2>2. QED
    BY <1>1, <2>1 DEF Connect, exit
<1>2. WakeupInv /\ RequestExit => WakeupInv'
  BY DEF RequestExit
<1>3. WakeupInv /\ SetExitSignal => WakeupInv'
  BY DEF SetExitSignal
<1>4. QED
  BY <1>1, <1>2, <1>3

(* Every behaviour keeps every lidar with data accounted for. *)
THEOREM WakeupInvariant == Spec => []WakeupInv
<1>1. WakeupInv /\ UNCHANGED vars => WakeupInv'
  BY DEF WakeupInv, TypeOK, SemaphoreBinary, WillVisit, vars, producer, poller,
         exit
<1>2. WakeupInv /\ [Next]_vars => WakeupInv'
  BY <1>1, WakeupStore, WakeupPoll, WakeupEnvironment DEF Next
<1>3. QED
  BY <1>2, WakeupInit, PTL DEF Spec

(* No interleaving of the unlocked GetCount with Wait raises the semaphore  *)
(* twice.                                                                  *)
THEOREM SemaphoreStaysBinary == Spec => []SemaphoreBinary
<1>1. WakeupInv => SemaphoreBinary
  BY DEF WakeupInv
<1>2. QED
  BY <1>1, WakeupInvariant, PTL

(* The poll thread never blocks on data it is responsible for. *)
THEOREM WakeupsAreNotLost == Spec => []NoLostWakeup
<1>1. WakeupInv => NoLostWakeup
  BY DEF WakeupInv, TypeOK, NoLostWakeup, Blocked, WillVisit
<1>2. QED
  BY <1>1, WakeupInvariant, PTL

=============================================================================
