------------------------------- MODULE SlamNode -------------------------------
(***************************************************************************)
(* The localisation node with its maps: the window of the global map that  *)
(* NDT matches against (matching.hpp), the map it gathers, the service     *)
(* that saves that map, and a node that is started again over the file.    *)
(*                                                                         *)
(* The buffers, the pose and the filter are module FastLioNode; each step  *)
(* here is one of its steps and what the same code does to the maps.  A    *)
(* position is an integer along one axis: the code looks at three and      *)
(* moves the window as soon as one of them asks for it.  A cloud is the    *)
(* set of positions its points were seen from.                             *)
(***************************************************************************)
EXTENDS FastLioNode, FiniteSets

CONSTANTS
  Positions,    (* where the vehicle can be, 0 included                     *)
  Size,         (* half the edge of the window, box_filter_size             *)
  Margin,       (* how near to an edge a pose moves the window: 50 m        *)
  MaxJump,      (* how far apart two consecutive matches are                *)
  SavePeriod,   (* every SavePeriod-th scan is gathered: 4                  *)
  FirstMaps,    (* what the map file may hold at first; nothing: no file    *)
  MaxLives      (* bound: starts of the node                                *)

ASSUME MapAssumption ==
  /\ Positions \subseteq Int /\ 0 \in Positions
  /\ Size \in Nat /\ Margin \in Nat /\ Margin < Size
  /\ MaxJump \in Nat /\ MaxJump <= 2 * Margin
  /\ SavePeriod \in Nat \ {0} /\ MaxLives \in Nat \ {0}
  /\ FirstMaps \subseteq SUBSET Positions

VARIABLES
  global_map,     (* what the constructor of Matching loaded                *)
  origin,         (* of box_filter_ptr_: the middle of the window           *)
  cut,            (* the middle of the window NDT's target was cut from     *)
  at,             (* the pose of the last match                             *)
  scan_wait_num,  (* scans since one was gathered                           *)
  pcl_wait_save,  (* the map gathered since the node started                *)
  map_file,       (* the life that saved the file last, its points, and     *)
                  (* whether it was written to the end                      *)
  lives           (* starts of the node so far                              *)

window == <<origin, cut>>
gathered == <<scan_wait_num, pcl_wait_save>>
mapVars == <<global_map, window, at, gathered, map_file, lives>>
slamVars == <<vars, mapVars>>

-----------------------------------------------------------------------------
(* The window. *)

\* Does the window around o hold enough points for NDT?
HasPoints(o) == \E x \in global_map : x - o <= Size /\ o - x <= Size

\* A reset that moves the box but leaves the target alone.
ResetBoxOnly(o) == origin' = o /\ UNCHANGED cut

(* ResetLocalMap: the box moves in any case, the target only if the box     *)
(* holds enough points.  Only InitFromGuess looks at the result.           *)
ResetLocalMap(o) ==
  /\ origin' = o
  /\ cut' = IF HasPoints(o) THEN o ELSE cut

\* A pose near the upper edge only.
NearUpperEdge(p) == p - (origin + Size) <= Margin /\ (origin + Size) - p <= Margin

\* A pose within Margin of an edge, on either side of it.
NearEdge(p) ==
  \/ p - (origin - Size) <= Margin /\ (origin - Size) - p <= Margin
  \/ p - (origin + Size) <= Margin /\ (origin + Size) - p <= Margin

\* After a match Registe_2_globalmap moves the window if the pose is near an edge.
Follow(p) ==
  /\ at' = p
  /\ IF NearEdge(p) THEN ResetLocalMap(p) ELSE UNCHANGED window

-----------------------------------------------------------------------------
(* The node starts: it loads the file and cuts the window around 0. *)

SlamInit ==
  /\ \E points \in FirstMaps : map_file = [life |-> 0, points |-> points, whole |-> TRUE]
  /\ lives = 1
  /\ Init
  /\ global_map = map_file.points
  /\ target = HasPoints(0)
  /\ origin = 0 /\ cut = 0 /\ at = 0
  /\ scan_wait_num = 0 /\ pcl_wait_save = {}

(* InitFromGuess fails: before it looks for a map, because there is none    *)
(* around the guess, or afterwards.                                        *)
InitFailsAt ==
  /\ InitFails
  /\ \/ UNCHANGED window /\ target' = target
     \/ \E g \in Positions : ResetLocalMap(g) /\ target' = (target \/ HasPoints(g))
  /\ UNCHANGED <<global_map, at, gathered, map_file, lives>>

\* It succeeds around a guess, and SetInitPose cuts the window around the result.
InitSucceedsAt ==
  /\ InitSucceeds
  /\ \E g, r \in Positions :
       /\ HasPoints(g)
       /\ at' = r /\ origin' = r
       /\ cut' = IF HasPoints(r) THEN r ELSE g
  /\ UNCHANGED <<global_map, gathered, map_file, lives>>

InitAtOriginAt ==
  /\ InitAtOrigin
  /\ at' = 0 /\ ResetLocalMap(0)
  /\ UNCHANGED <<global_map, gathered, map_file, lives>>

\* publish_frame_world.
Gather ==
  /\ scan_wait_num' = (scan_wait_num + 1) % SavePeriod
  /\ pcl_wait_save' = IF scan_wait_num' = 0 THEN pcl_wait_save \cup {at'} ELSE pcl_wait_save

(* A scan is matched, or NDT has no target and answers with the identity,   *)
(* or the match came to nothing; in each case the scan is gathered.        *)
RegisterScanAt ==
  /\ RegisterScan
  /\ \/ /\ target /\ registered' = meas'.scan
        /\ \E p \in Positions : p - at <= MaxJump /\ at - p <= MaxJump /\ Follow(p)
     \/ ~target /\ registered' = 0 /\ Follow(0)
     \/ registered' # meas'.scan /\ UNCHANGED <<window, at>>
  /\ Gather
  /\ UNCHANGED <<global_map, map_file, lives>>

SlamLoop ==
  \/ InitFailsAt \/ InitSucceedsAt \/ InitAtOriginAt \/ RegisterScanAt
  \/ (FirstScan \/ SkipScan \/ Shutdown) /\ UNCHANGED mapVars

(* The callbacks do not touch the maps. *)
Callback ==
  /\ \/ \E back \in BOOLEAN : PclCbk(back) \/ ImuCbk(back)
     \/ InitialposeCallback \/ KeyboardCallback \/ SigHandle
  /\ UNCHANGED mapVars

-----------------------------------------------------------------------------
(* The map file. *)

Saved(points, whole) == [life |-> lives, points |-> points, whole |-> whole]

\* A save that lets go of what it wrote.
SaveMapAndClear ==
  /\ running /\ pcl_wait_save # {}
  /\ map_file' = Saved(pcl_wait_save, TRUE)
  /\ pcl_wait_save' = {}
  /\ UNCHANGED <<vars, global_map, window, at, scan_wait_num, lives>>

(* save_map_callback, which the scripts call every 30 seconds: nothing      *)
(* gathered, nothing saved.                                                *)
SaveMapCallback ==
  /\ running /\ pcl_wait_save # {}
  /\ map_file' = Saved(pcl_wait_save, TRUE)
  /\ UNCHANGED <<vars, global_map, window, at, gathered, lives>>

(* The node is started again: after it was stopped, or killed at any        *)
(* moment, also while it was writing the file.  map_file_path and          *)
(* globalmap_dir name the same file (mid360.yaml), so that what was saved  *)
(* is loaded.  A file that is cut short loads as nothing.                  *)
Restart ==
  /\ lives < MaxLives
  /\ lives' = lives + 1
  /\ \/ UNCHANGED map_file
     \/ running /\ pcl_wait_save # {} /\ map_file' = Saved({}, FALSE)
  /\ lidar_buffer' = <<>> /\ time_buffer' = <<>> /\ imu_buffer' = 0
  /\ scan_count' = 0
  /\ pose_received' = FALSE /\ posed' = FALSE /\ guess' = "identity"
  /\ inited' = "no" /\ first_scan' = TRUE
  /\ meas' = [scan |-> 0, time |-> 0]
  /\ registered' = 0 /\ kf' = [scan |-> 0, pose |-> 0]
  /\ flg_exit' = FALSE /\ running' = TRUE
  /\ global_map' = map_file'.points
  /\ target' = HasPoints(0)'
  /\ origin' = 0 /\ cut' = 0 /\ at' = 0
  /\ scan_wait_num' = 0 /\ pcl_wait_save' = {}

SlamNext == SlamLoop \/ Callback \/ SaveMapCallback \/ Restart

SlamSpec == SlamInit /\ [][SlamNext]_slamVars

(* The fairness of FastLioNode. *)
FairSlamSpec ==
  SlamSpec /\ WF_slamVars(SlamLoop) /\ WF_slamVars(ImuCbk(FALSE) /\ UNCHANGED mapVars)

-----------------------------------------------------------------------------
(* Properties. *)

MapTypeOK ==
  /\ global_map \subseteq Positions
  /\ origin \in Positions /\ cut \in Positions /\ at \in Positions
  /\ scan_wait_num \in 0 .. SavePeriod - 1
  /\ pcl_wait_save \subseteq Positions
  /\ map_file \in [life : 0 .. MaxLives, points : SUBSET Positions, whole : BOOLEAN]
  /\ lives \in 1 .. MaxLives

(* Wherever the vehicle goes between two scans, as long as it is no farther *)
(* than twice the margin, the window stays around it: the test against the *)
(* edges misses no pose that leaves the middle.                            *)
WindowHoldsPose ==
  inited # "no" => at - origin < Size - Margin /\ origin - at < Size - Margin

(* NDT's target is the window the edges describe, and an older one only     *)
(* while that window holds nothing of the map: a failed reset is never     *)
(* taken for one that moved the target, and the next move makes up for it. *)
TargetIsWindow == target => cut = origin \/ ~HasPoints(origin)

(* What this life of the node saved it still holds, so that the next save   *)
(* loses nothing of it, and it saved something: only a save cut short, or  *)
(* one of an earlier life, is without points.                              *)
SavedMapKept ==
  map_file.life = lives /\ map_file.whole =>
    map_file.points # {} /\ map_file.points \subseteq pcl_wait_save

-----------------------------------------------------------------------------
(* The inductive invariant of the maps: without a target NDT answers with   *)
(* the origin, and no life but this one and earlier ones saved the file.   *)
MapInv ==
  /\ MapTypeOK
  /\ WindowHoldsPose
  /\ inited # "no" /\ ~target => at = 0
  /\ TargetIsWindow
  /\ map_file.life <= lives
  /\ SavedMapKept

=============================================================================
