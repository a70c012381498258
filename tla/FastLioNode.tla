----------------------------- MODULE FastLioNode -----------------------------
(***************************************************************************)
(* The localisation node (laserMapping_relocalization.cpp): the callbacks  *)
(* that fill its buffers, and main_loop, which pairs a scan with its time, *)
(* initialises the pose and registers every further scan against the       *)
(* global map with NDT (matching.hpp).                                     *)
(*                                                                         *)
(* All callbacks belong to the node's default, mutually exclusive group,   *)
(* so each one is a single step, whichever thread of the executor runs it. *)
(* Scans are numbered in the order they arrive; poses, points and filter   *)
(* states are abstracted to where they come from.                          *)
(***************************************************************************)
EXTENDS Integers, Sequences

CONSTANTS
  MaxScans,   (* bound: scans received in a behaviour                       *)
  MaxImu      (* bound: IMU messages buffered                               *)

ASSUME NodeAssumption == MaxScans \in Nat /\ MaxImu \in Nat \ {0}

Scans == 1 .. MaxScans

VARIABLES
  lidar_buffer,  (* the scans waiting, oldest first                         *)
  time_buffer,   (* the scans whose header time waits, oldest first         *)
  imu_buffer,    (* how many IMU messages wait                              *)
  scan_count,    (* scans received so far, at most MaxScans                 *)
  pose_received, (* an initial pose arrived                                 *)
  posed,         (* last_pose_time_ is no longer zero                       *)
  guess,         (* who gave initial_guess: "identity" or "user"            *)
  inited,        (* how the pose was initialised: "no", "origin" or "ndt"   *)
  target,        (* NDT has a target cloud                                  *)
  first_scan,    (* flg_first_scan                                          *)
  meas,          (* the scan and the scan whose time Measures holds         *)
  registered,    (* the scan after_registe was computed from, 0 for none    *)
  kf,            (* the scan of the last filter update, and the scan its    *)
                 (* pose was computed from                                  *)
  flg_exit,      (* SIGINT was caught                                       *)
  running        (* the executor spins                                      *)

buffers == <<lidar_buffer, time_buffer, imu_buffer>>
pose == <<pose_received, posed, guess>>
tracking == <<first_scan, registered, kf>>
vars == <<buffers, scan_count, pose, inited, target, meas, tracking,
          flg_exit, running>>

TypeOK ==
  /\ lidar_buffer \in Seq(Scans)
  /\ time_buffer \in Seq(Scans)
  /\ imu_buffer \in Nat
  /\ scan_count \in 0 .. MaxScans
  /\ pose_received \in BOOLEAN
  /\ posed \in BOOLEAN
  /\ guess \in {"identity", "user"}
  /\ inited \in {"no", "origin", "ndt"}
  /\ target \in BOOLEAN
  /\ first_scan \in BOOLEAN
  /\ meas \in [scan : Scans \cup {0}, time : Scans \cup {0}]
  /\ registered \in Scans \cup {0}
  /\ kf \in [scan : Scans \cup {0}, pose : Scans \cup {0}]
  /\ flg_exit \in BOOLEAN
  /\ running \in BOOLEAN

\* A node whose clock started when the last pose was "received".
InitPosed ==
  /\ lidar_buffer = <<>> /\ time_buffer = <<>> /\ imu_buffer = 0
  /\ scan_count = 0
  /\ pose_received = FALSE /\ posed = TRUE /\ guess = "identity"
  /\ inited = "no"
  /\ target \in BOOLEAN
  /\ first_scan = TRUE
  /\ meas = [scan |-> 0, time |-> 0]
  /\ registered = 0
  /\ kf = [scan |-> 0, pose |-> 0]
  /\ flg_exit = FALSE /\ running = TRUE

(* The constructor of Matching cuts the local map around the origin, and    *)
(* NDT takes it as its target when it has enough points.                   *)
Init ==
  /\ lidar_buffer = <<>> /\ time_buffer = <<>> /\ imu_buffer = 0
  /\ scan_count = 0
  /\ pose_received = FALSE /\ posed = FALSE /\ guess = "identity"
  /\ inited = "no"
  /\ target \in BOOLEAN
  /\ first_scan = TRUE
  /\ meas = [scan |-> 0, time |-> 0]
  /\ registered = 0
  /\ kf = [scan |-> 0, pose |-> 0]
  /\ flg_exit = FALSE /\ running = TRUE

-----------------------------------------------------------------------------
(* The callbacks. *)

\* A loop back that clears the other buffer.
PclCbkClearsTimes(back) ==
  /\ running
  /\ scan_count < MaxScans
  /\ back => scan_count > 0
  /\ scan_count' = scan_count + 1
  /\ lidar_buffer' = Append(lidar_buffer, scan_count')
  /\ time_buffer' = Append(IF back THEN <<>> ELSE time_buffer, scan_count')
  /\ UNCHANGED <<imu_buffer, pose, inited, target, meas, tracking, flg_exit,
                 running>>

(* livox_pcl_cbk and standard_pcl_cbk.  A scan older than the last one      *)
(* ("back") clears lidar_buffer, and only that, before it is pushed.       *)
PclCbk(back) ==
  /\ running
  /\ scan_count < MaxScans
  /\ back => scan_count > 0
  /\ scan_count' = scan_count + 1
  /\ lidar_buffer' = Append(IF back THEN <<>> ELSE lidar_buffer, scan_count')
  /\ time_buffer' = Append(time_buffer, scan_count')
  /\ UNCHANGED <<imu_buffer, pose, inited, target, meas, tracking, flg_exit,
                 running>>

(* imu_cbk stamps the message with the host's clock; when that clock was    *)
(* set back, the messages before it are dropped.                           *)
ImuCbk(back) ==
  /\ running
  /\ imu_buffer < MaxImu
  /\ imu_buffer' = IF back THEN 1 ELSE imu_buffer + 1
  /\ UNCHANGED <<lidar_buffer, time_buffer, scan_count, pose, inited, target,
                 meas, tracking, flg_exit, running>>

(* A pose less than two seconds after the last accepted one is not taken    *)
(* as the guess, but it counts as received.                                *)
InitialposeCallback ==
  /\ running
  /\ pose_received' = TRUE
  /\ \/ posed' = TRUE /\ guess' = "user"
     \/ posed /\ UNCHANGED <<posed, guess>>
  /\ UNCHANGED <<buffers, scan_count, inited, target, meas, tracking,
                 flg_exit, running>>

(* The keyboard moves or turns the guess; it does not announce a pose.      *)
KeyboardCallback ==
  /\ running
  /\ guess' = "user"
  /\ UNCHANGED <<buffers, scan_count, pose_received, posed, inited, target,
                 meas, tracking, flg_exit, running>>

SigHandle ==
  /\ ~flg_exit
  /\ flg_exit' = TRUE
  /\ UNCHANGED <<buffers, scan_count, pose, inited, target, meas, tracking,
                 running>>

-----------------------------------------------------------------------------
(* main_loop. *)

\* A sync_packages that insists on a scan and a time of one message.
SyncedOwnTime ==
  /\ running /\ ~flg_exit
  /\ lidar_buffer # <<>> /\ imu_buffer > 0
  /\ Head(lidar_buffer) = Head(time_buffer)
  /\ meas' = [scan |-> Head(lidar_buffer), time |-> Head(time_buffer)]

(* sync_packages succeeds: the oldest scan and the oldest time are taken    *)
(* together, whichever they are.                                           *)
Synced ==
  /\ running /\ ~flg_exit
  /\ lidar_buffer # <<>> /\ imu_buffer > 0
  /\ meas' = [scan |-> Head(lidar_buffer), time |-> Head(time_buffer)]

(* It removes both, and the IMU messages up to the scan's end.              *)
Pop ==
  /\ lidar_buffer' = Tail(lidar_buffer)
  /\ time_buffer' = Tail(time_buffer)
  /\ imu_buffer' \in 0 .. imu_buffer

(* The clean_buff branch that ends the cycle which initialised the pose.    *)
ClearBuffers ==
  /\ lidar_buffer' = <<>>
  /\ time_buffer' = <<>>
  /\ imu_buffer' = 0

(* InitFromGuess failed or left the range of the map: the next scan tries   *)
(* again with whatever guess there is then.                                *)
InitFails ==
  /\ Synced /\ Pop
  /\ inited = "no" /\ pose_received
  /\ target' \in {target, TRUE}
  /\ UNCHANGED <<scan_count, pose, inited, tracking, flg_exit, running>>

InitSucceeds ==
  /\ Synced /\ ClearBuffers
  /\ inited = "no" /\ pose_received
  /\ inited' = "ndt"
  /\ target' = TRUE
  /\ UNCHANGED <<scan_count, pose, tracking, flg_exit, running>>

(* Without a pose the first scan initialises the filter at the origin.      *)
InitAtOrigin ==
  /\ Synced /\ ClearBuffers
  /\ inited = "no" /\ ~pose_received
  /\ inited' = "origin"
  /\ UNCHANGED <<scan_count, pose, target, tracking, flg_exit, running>>

FirstScan ==
  /\ Synced /\ Pop
  /\ inited # "no" /\ first_scan
  /\ first_scan' = FALSE
  /\ UNCHANGED <<scan_count, pose, inited, target, registered, kf, flg_exit,
                 running>>

(* A scan with no points, or too few after the voxel filter. *)
SkipScan ==
  /\ Synced /\ Pop
  /\ inited # "no" /\ ~first_scan
  /\ UNCHANGED <<scan_count, pose, inited, target, tracking, flg_exit,
                 running>>

(* Registe_2_globalmap: it gives up on a scan that is too small for the     *)
(* frame filter and leaves after_registe alone; a NaN result becomes the    *)
(* predicted pose; without a target align() computes nothing, and the       *)
(* transformation stays the identity.  The filter is updated with           *)
(* after_registe all the same, the returned status is not looked at.        *)
RegisterScan ==
  /\ Synced /\ Pop
  /\ inited # "no" /\ ~first_scan
  /\ \/ target /\ registered' \in {meas'.scan, kf.pose}
     \/ ~target /\ registered' = 0
     \/ UNCHANGED registered
  /\ kf' = [scan |-> meas'.scan, pose |-> registered']
  /\ UNCHANGED <<scan_count, pose, inited, target, first_scan, flg_exit,
                 running>>

Cycle ==
  \/ InitFails \/ InitSucceeds \/ InitAtOrigin
  \/ FirstScan \/ SkipScan \/ RegisterScan

Shutdown ==
  /\ running /\ flg_exit
  /\ running' = FALSE
  /\ UNCHANGED <<buffers, scan_count, pose, inited, target, meas, tracking,
                 flg_exit>>

MainLoop == Cycle \/ Shutdown

-----------------------------------------------------------------------------
Next ==
  \/ \E back \in BOOLEAN : PclCbk(back) \/ ImuCbk(back)
  \/ InitialposeCallback
  \/ KeyboardCallback
  \/ SigHandle
  \/ MainLoop

Spec == Init /\ [][Next]_vars

(* The executor runs the timer of main_loop, and the IMU keeps sending.     *)
FairSpec == Spec /\ WF_vars(MainLoop) /\ WF_vars(ImuCbk(FALSE))

-----------------------------------------------------------------------------
IsSuffixOf(s, t) ==
  /\ Len(s) <= Len(t)
  /\ \A i \in 1 .. Len(s) : s[i] = t[Len(t) - Len(s) + i]

(* time_buffer is never read while it is empty, and the time a scan is      *)
(* given is its own or that of an earlier scan, never of a later one, also *)
(* after the lidar's clock was set back.                                   *)
TimesCoverScans == IsSuffixOf(lidar_buffer, time_buffer)

(* NDT is never started from the identity: an announced pose, also one that *)
(* came too soon after another, has a guess of the user behind it.         *)
GuessBehindPose == pose_received => guess = "user"

Waiting(s) == \E i \in 1 .. Len(lidar_buffer) : lidar_buffer[i] = s

(* Every scan leaves the buffer, unless the node is told to stop: neither a *)
(* loop back nor a failing initialisation blocks the queue.                 *)
ScansConsumed ==
  \A s \in Scans : Waiting(s) ~> (flg_exit \/ ~Waiting(s))

(* The status line of main_loop says that the relocalisation is initialised *)
(* ("重定位已初始化", laserMapping_relocalization.cpp:1025) when a pose was  *)
(* received and the matching is initialised: it was initialised from it.   *)
RelocalisedWhenReported ==
  kf.scan # 0 /\ pose_received /\ inited # "no" => inited = "ndt"

-----------------------------------------------------------------------------
(* The inductive invariant of the buffers and of the guess. *)
NodeInv ==
  /\ TypeOK
  /\ TimesCoverScans
  /\ pose_received => posed
  /\ posed => guess = "user"

=============================================================================
