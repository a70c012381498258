---------------------------- MODULE SlamNodeProofs ----------------------------
(***************************************************************************)
(* The invariants of the localisation node, for any number of scans, IMU   *)
(* messages and starts, every map and every window.                        *)
(*                                                                         *)
(* First FastLioNode alone: the buffers of scans and of times never drift  *)
(* the wrong way, and NDT always starts from a guess of the user.          *)
(* Then SlamNode: NodeInv carries over, and MapInv ties the window to the  *)
(* pose, to NDT's target and to the saved file.                            *)
(***************************************************************************)
EXTENDS SlamNode, SequenceTheorems, TLAPS

(* Pushing a scan and its time at the back of both buffers. *)
LEMMA AppendSuffix ==
  ASSUME NEW S, NEW s \in Seq(S), NEW t \in Seq(S), NEW x \in S,
         IsSuffixOf(s, t)
  PROVE  IsSuffixOf(Append(s, x), Append(t, x))
<1>1. /\ Len(Append(s, x)) = Len(s) + 1 /\ Len(Append(t, x)) = Len(t) + 1
      /\ Len(s) \in Nat /\ Len(t) \in Nat /\ Len(s) <= Len(t)
  BY DEF IsSuffixOf
<1>2. ASSUME NEW i \in 1 .. Len(s) + 1
      PROVE  Append(s, x)[i] = Append(t, x)[Len(t) - Len(s) + i]
  <2>1. CASE i = Len(s) + 1
    BY <1>1, <2>1
  <2>2. CASE i \in 1 .. Len(s)
    <3>1. Len(t) - Len(s) + i \in 1 .. Len(t)
      BY <1>1, <2>2
    <3>2. s[i] = t[Len(t) - Len(s) + i]
      BY <2>2 DEF IsSuffixOf
    <3> QED BY <1>1, <2>2, <3>1, <3>2
  <2> QED BY <1>1, <2>1, <2>2
<1>3. \A i \in 1 .. Len(Append(s, x)) :
        Append(s, x)[i] = Append(t, x)[Len(Append(t, x)) - Len(Append(s, x)) + i]
  BY <1>1, <1>2
<1> QED BY <1>1, <1>3, SMTT(30) DEF IsSuffixOf

(* Pushing the scan into the buffer a loop back has just cleared. *)
LEMMA SingleSuffix ==
  ASSUME NEW S, NEW t \in Seq(S), NEW x \in S
  PROVE  IsSuffixOf(Append(<<>>, x), Append(t, x))
<1>1. <<>> \in Seq(S) /\ IsSuffixOf(<<>>, t)
  BY DEF IsSuffixOf
<1> QED BY <1>1, AppendSuffix

(* Taking the heads of both buffers. *)
LEMMA TailSuffix ==
  ASSUME NEW S, NEW s \in Seq(S), NEW t \in Seq(S), s # <<>>,
         IsSuffixOf(s, t)
  PROVE  t # <<>> /\ IsSuffixOf(Tail(s), Tail(t))
<1>1. Len(s) \in Nat \ {0} /\ Len(t) \in Nat /\ Len(s) <= Len(t)
  BY EmptySeq DEF IsSuffixOf
<1>2. t # <<>>
  BY <1>1
<1>3. /\ Len(Tail(s)) = Len(s) - 1 /\ Len(Tail(t)) = Len(t) - 1
  BY <1>2
<1>4. ASSUME NEW i \in 1 .. Len(s) - 1
      PROVE  Tail(s)[i] = Tail(t)[Len(t) - Len(s) + i]
  <2>1. Tail(s)[i] = s[i + 1]
    BY <1>1, <1>3
  <2>2. s[i + 1] = t[Len(t) - Len(s) + (i + 1)]
    BY <1>1 DEF IsSuffixOf
  <2>3. Len(t) - Len(s) + i \in 1 .. Len(t) - 1
    BY <1>1
  <2>4. Tail(t)[Len(t) - Len(s) + i] = t[(Len(t) - Len(s) + i) + 1]
    BY <1>2, <1>3, <2>3
  <2> QED BY <1>1, <2>1, <2>2, <2>4
<1>5. \A i \in 1 .. Len(Tail(s)) :
        Tail(s)[i] = Tail(t)[Len(Tail(t)) - Len(Tail(s)) + i]
  BY <1>1, <1>3, <1>4
<1> QED BY <1>1, <1>2, <1>3, <1>5 DEF IsSuffixOf

(* The initial states satisfy NodeInv. *)
LEMMA NodeInit == Init => NodeInv
<1> SUFFICES ASSUME Init PROVE NodeInv
  OBVIOUS
<1>1. <<>> \in Seq(Scans) /\ IsSuffixOf(<<>>, <<>>)
  BY DEF IsSuffixOf
<1>2. 0 \in 0 .. MaxScans BY NodeAssumption
<1>3. TypeOK BY <1>1, <1>2 DEF Init, TypeOK
<1>4. TimesCoverScans BY <1>1 DEF Init, TimesCoverScans
<1> QED BY <1>3, <1>4 DEF Init, NodeInv

(* The callbacks keep NodeInv: a loop back leaves old times in front of the *)
(* new one, never the other way round.                                     *)
LEMMA NodeCallbacks ==
  ASSUME NodeInv,
         \/ \E back \in BOOLEAN : PclCbk(back) \/ ImuCbk(back)
         \/ InitialposeCallback
         \/ KeyboardCallback
         \/ SigHandle
  PROVE  NodeInv'
<1>0. TypeOK /\ TimesCoverScans BY DEF NodeInv
<1>1. ASSUME NEW back \in BOOLEAN, PclCbk(back) PROVE NodeInv'
  <2>1. scan_count' = scan_count + 1 /\ scan_count' \in Scans
    BY <1>0, <1>1, NodeAssumption DEF PclCbk, TypeOK, Scans
  <2>2. lidar_buffer \in Seq(Scans) /\ time_buffer \in Seq(Scans)
    BY <1>0 DEF TypeOK
  <2>3. time_buffer' = Append(time_buffer, scan_count')
    BY <1>1 DEF PclCbk
  <2>4. /\ IsSuffixOf(lidar_buffer', time_buffer')
        /\ lidar_buffer' \in Seq(Scans)
    <3>1. CASE back
      <4>1. lidar_buffer' = Append(<<>>, scan_count') BY <1>1, <3>1 DEF PclCbk
      <4> QED BY <2>1, <2>2, <2>3, <4>1, SingleSuffix
    <3>2. CASE ~back
      <4>1. lidar_buffer' = Append(lidar_buffer, scan_count')
        BY <1>1, <3>2 DEF PclCbk
      <4>2. IsSuffixOf(lidar_buffer, time_buffer)
        BY <1>0 DEF TimesCoverScans
      <4> QED BY <2>1, <2>2, <2>3, <4>1, <4>2, AppendSuffix
    <3> QED BY <3>1, <3>2
  <2>5. time_buffer' \in Seq(Scans) BY <2>1, <2>2, <2>3
  <2>6. UNCHANGED <<imu_buffer, pose, inited, target, meas, tracking, flg_exit,
                    running>>
    BY <1>1 DEF PclCbk
  <2>7. TypeOK'
    BY <1>0, <2>1, <2>4, <2>5, <2>6, NodeAssumption
       DEF TypeOK, pose, tracking, Scans
  <2> QED BY <2>4, <2>6, <2>7 DEF NodeInv, TimesCoverScans, pose
<1>2. ASSUME NEW back \in BOOLEAN, ImuCbk(back) PROVE NodeInv'
  <2>1. UNCHANGED <<lidar_buffer, time_buffer, scan_count, pose, inited,
                    target, meas, tracking, flg_exit, running>>
    BY <1>2 DEF ImuCbk
  <2>2. imu_buffer' \in Nat
    BY <1>0, <1>2 DEF ImuCbk, TypeOK
  <2>3. TypeOK' BY <1>0, <2>1, <2>2 DEF TypeOK, pose, tracking
  <2> QED BY <2>1, <2>3 DEF NodeInv, TimesCoverScans, pose
<1>3. CASE InitialposeCallback \/ KeyboardCallback \/ SigHandle
  <2>1. UNCHANGED <<buffers, scan_count, inited, target, meas, tracking,
                    running>>
    BY <1>3 DEF InitialposeCallback, KeyboardCallback, SigHandle
  <2>2. /\ pose_received' \in BOOLEAN /\ posed' \in BOOLEAN
        /\ guess' \in {"identity", "user"} /\ flg_exit' \in BOOLEAN
        /\ pose_received' => posed'
        /\ posed' => guess' = "user"
    <3>0. /\ pose_received \in BOOLEAN /\ posed \in BOOLEAN
          /\ guess \in {"identity", "user"} /\ flg_exit \in BOOLEAN
          /\ pose_received => posed
          /\ posed => guess = "user"
      BY DEF NodeInv, TypeOK
    <3>1. CASE InitialposeCallback
      <4>1. pose_received' = TRUE /\ flg_exit' = flg_exit
        BY <3>1 DEF InitialposeCallback
      <4>2. CASE posed' = TRUE /\ guess' = "user"
        BY <3>0, <4>1, <4>2
      <4>3. CASE posed /\ posed' = posed /\ guess' = guess
        BY <3>0, <4>1, <4>3
      <4> QED BY <3>1, <4>2, <4>3 DEF InitialposeCallback
    <3>2. CASE KeyboardCallback
      BY <3>0, <3>2 DEF KeyboardCallback
    <3>3. CASE SigHandle
      BY <3>0, <3>3 DEF SigHandle, pose
    <3> QED BY <1>3, <3>1, <3>2, <3>3
  <2>3. TypeOK' BY <1>0, <2>1, <2>2 DEF TypeOK, buffers, tracking
  <2> QED BY <1>0, <2>1, <2>2, <2>3 DEF NodeInv, TimesCoverScans, buffers
<1> QED BY <1>1, <1>2, <1>3

(* What a cycle of main_loop does to the buffers and to Measures. *)
LEMMA NodeBuffers ==
  ASSUME TypeOK, TimesCoverScans, Synced, Pop \/ ClearBuffers
  PROVE  /\ lidar_buffer' \in Seq(Scans) /\ time_buffer' \in Seq(Scans)
         /\ imu_buffer' \in Nat
         /\ meas' \in [scan : Scans \cup {0}, time : Scans \cup {0}]
         /\ meas'.scan \in Scans
         /\ TimesCoverScans'
<1>1. /\ lidar_buffer \in Seq(Scans) /\ time_buffer \in Seq(Scans)
      /\ imu_buffer \in Nat /\ lidar_buffer # <<>>
  BY DEF TypeOK, Synced
<1>2. /\ time_buffer # <<>>
      /\ IsSuffixOf(Tail(lidar_buffer), Tail(time_buffer))
  BY <1>1, TailSuffix DEF TimesCoverScans
<1>3. /\ Head(lidar_buffer) \in Scans /\ Head(time_buffer) \in Scans
      /\ Tail(lidar_buffer) \in Seq(Scans) /\ Tail(time_buffer) \in Seq(Scans)
  BY <1>1, <1>2
<1>4. meas' = [scan |-> Head(lidar_buffer), time |-> Head(time_buffer)]
  BY DEF Synced
<1>5. CASE Pop
  BY <1>1, <1>2, <1>3, <1>4, <1>5 DEF Pop, TimesCoverScans
<1>6. CASE ClearBuffers
  <2>1. /\ lidar_buffer' = <<>> /\ time_buffer' = <<>> /\ imu_buffer' = 0
    BY <1>6 DEF ClearBuffers
  <2>2. <<>> \in Seq(Scans) /\ IsSuffixOf(<<>>, <<>>)
    BY DEF IsSuffixOf
  <2> QED BY <1>3, <1>4, <2>1, <2>2 DEF TimesCoverScans
<1> QED BY <1>5, <1>6

(* main_loop keeps NodeInv. *)
LEMMA NodeMainLoop ==
  ASSUME NodeInv, MainLoop
  PROVE  NodeInv'
<1>0. TypeOK /\ TimesCoverScans BY DEF NodeInv
<1>1. CASE Shutdown
  <2>1. /\ UNCHANGED <<buffers, scan_count, pose, inited, target, meas,
                       tracking, flg_exit>>
        /\ running' = FALSE
    BY <1>1 DEF Shutdown
  <2>2. running' \in BOOLEAN BY <2>1
  <2>3. TypeOK' BY <1>0, <2>1, <2>2 DEF TypeOK, buffers, pose, tracking
  <2> QED BY <1>0, <2>1, <2>3 DEF NodeInv, TimesCoverScans, buffers, pose
<1>2. CASE Cycle
  <2>1. Synced /\ (Pop \/ ClearBuffers)
    BY <1>2 DEF Cycle, InitFails, InitSucceeds, InitAtOrigin, FirstScan,
                SkipScan, RegisterScan
  <2>2. UNCHANGED <<scan_count, pose, flg_exit, running>>
    BY <1>2 DEF Cycle, InitFails, InitSucceeds, InitAtOrigin, FirstScan,
                SkipScan, RegisterScan
  <2>3. /\ lidar_buffer' \in Seq(Scans) /\ time_buffer' \in Seq(Scans)
        /\ imu_buffer' \in Nat
        /\ meas' \in [scan : Scans \cup {0}, time : Scans \cup {0}]
        /\ meas'.scan \in Scans
        /\ TimesCoverScans'
    BY <1>0, <2>1, NodeBuffers
  <2>4. inited' \in {"no", "origin", "ndt"} /\ target' \in BOOLEAN
        /\ first_scan' \in BOOLEAN
    BY <1>0, <1>2
       DEF Cycle, InitFails, InitSucceeds, InitAtOrigin, FirstScan, SkipScan,
           RegisterScan, TypeOK, tracking
  <2>5. /\ registered' \in Scans \cup {0}
        /\ kf' \in [scan : Scans \cup {0}, pose : Scans \cup {0}]
    <3>1. CASE RegisterScan
      <4>1. kf.pose \in Scans \cup {0} BY <1>0 DEF TypeOK
      <4>2. registered' \in Scans \cup {0}
        BY <1>0, <2>3, <3>1, <4>1 DEF RegisterScan, TypeOK
      <4>3. kf' = [scan |-> meas'.scan, pose |-> registered']
        BY <3>1 DEF RegisterScan
      <4> QED BY <2>3, <4>2, <4>3
    <3>2. CASE ~RegisterScan
      <4>1. UNCHANGED <<registered, kf>>
        BY <1>2, <3>2 DEF Cycle, InitFails, InitSucceeds, InitAtOrigin,
                          FirstScan, SkipScan, tracking
      <4> QED BY <1>0, <4>1 DEF TypeOK
    <3> QED BY <3>1, <3>2
  <2>6. TypeOK'
    BY <1>0, <2>2, <2>3, <2>4, <2>5 DEF TypeOK, pose
  <2> QED BY <2>2, <2>3, <2>6 DEF NodeInv, pose
<1> QED BY <1>1, <1>2 DEF MainLoop

(* NodeInv is an invariant of the node. *)
THEOREM NodeInvariant == Spec => []NodeInv
<1>1. Init => NodeInv BY NodeInit
<1>2. NodeInv /\ [Next]_vars => NodeInv'
  <2> SUFFICES ASSUME NodeInv, [Next]_vars PROVE NodeInv'
    OBVIOUS
  <2>1. CASE Next
    BY <2>1, NodeCallbacks, NodeMainLoop DEF Next
  <2>2. CASE UNCHANGED vars
    BY <2>2 DEF NodeInv, TypeOK, TimesCoverScans, vars, buffers, pose, tracking
  <2> QED BY <2>1, <2>2
<1> QED BY <1>1, <1>2, PTL DEF Spec

(* The time paired with a scan is never that of a later one, and there      *)
(* always is one.                                                          *)
THEOREM TimesAlwaysCover == Spec => []TimesCoverScans
BY NodeInvariant, PTL DEF NodeInv

(* An announced pose has a guess behind it. *)
THEOREM GuessAlwaysBehindPose == Spec => []GuessBehindPose
<1>1. NodeInv => GuessBehindPose BY DEF NodeInv, GuessBehindPose
<1> QED BY <1>1, NodeInvariant, PTL

-----------------------------------------------------------------------------
(* A vehicle that was in the middle of the window and jumps no farther than *)
(* twice the margin is either still there or near an edge.                 *)
LEMMA EdgesCatchPose ==
  ASSUME NEW p \in Int, NEW a \in Int, NEW o \in Int,
         NEW size \in Nat, NEW margin \in Nat, NEW jump \in Nat,
         margin < size, jump <= 2 * margin,
         a - o < size - margin, o - a < size - margin,
         p - a <= jump, a - p <= jump,
         ~(p - (o - size) <= margin /\ (o - size) - p <= margin),
         ~(p - (o + size) <= margin /\ (o + size) - p <= margin)
  PROVE  p - o < size - margin /\ o - p < size - margin
OBVIOUS

(* Moving the window keeps the types and leaves the target in step with it. *)
LEMMA ResetKeepsTarget ==
  ASSUME MapTypeOK, NEW o \in Positions, ResetLocalMap(o), UNCHANGED global_map
  PROVE  /\ origin' = o /\ cut' \in Positions
         /\ TargetIsWindow'
<1>1. origin' = o /\ cut' = (IF HasPoints(o) THEN o ELSE cut)
  BY DEF ResetLocalMap
<1>2. HasPoints(origin)' <=> HasPoints(o)
  BY <1>1 DEF HasPoints
<1> QED BY <1>1, <1>2 DEF TargetIsWindow, MapTypeOK

(* A match keeps the window around the pose. *)
LEMMA FollowHoldsPose ==
  ASSUME MapTypeOK, NEW p \in Positions, Follow(p), UNCHANGED global_map,
         at - origin < Size - Margin, origin - at < Size - Margin,
         p - at <= MaxJump, at - p <= MaxJump
  PROVE  /\ at' = p
         /\ at' - origin' < Size - Margin /\ origin' - at' < Size - Margin
<1>1. /\ p \in Int /\ at \in Int /\ origin \in Int
      /\ Size \in Nat /\ Margin \in Nat /\ Margin < Size
      /\ MaxJump \in Nat /\ MaxJump <= 2 * Margin
  BY MapAssumption DEF MapTypeOK
<1>2. at' = p
  BY DEF Follow
<1>3. CASE NearEdge(p)
  <2>1. origin' = p
    BY <1>3 DEF Follow, ResetLocalMap
  <2> QED BY <1>1, <1>2, <2>1
<1>4. CASE ~NearEdge(p)
  <2>1. origin' = origin
    BY <1>4 DEF Follow, window
  <2>2. /\ ~(p - (origin - Size) <= Margin /\ (origin - Size) - p <= Margin)
        /\ ~(p - (origin + Size) <= Margin /\ (origin + Size) - p <= Margin)
    BY <1>4 DEF NearEdge
  <2>3. p - origin < Size - Margin /\ origin - p < Size - Margin
    BY <1>1, <2>2, EdgesCatchPose
  <2> QED BY <1>2, <2>1, <2>3
<1> QED BY <1>3, <1>4

(* A match leaves the target in step with the window, moved or not. *)
LEMMA FollowKeepsTarget ==
  ASSUME MapTypeOK, NEW p \in Positions, Follow(p), UNCHANGED <<global_map, target>>,
         TargetIsWindow
  PROVE  /\ origin' \in Positions /\ cut' \in Positions /\ at' \in Positions
         /\ TargetIsWindow'
<1>1. CASE NearEdge(p)
  <2>1. ResetLocalMap(p) /\ at' = p
    BY <1>1 DEF Follow
  <2> QED BY <2>1, ResetKeepsTarget
<1>2. CASE ~NearEdge(p)
  <2>1. UNCHANGED <<origin, cut>> /\ at' = p
    BY <1>2 DEF Follow, window
  <2> QED BY <2>1 DEF TargetIsWindow, MapTypeOK, HasPoints
<1> QED BY <1>1, <1>2

(* The node starts with MapInv. *)
LEMMA MapInit == SlamInit => MapInv
<1> SUFFICES ASSUME SlamInit PROVE MapInv
  OBVIOUS
<1>1. PICK points \in FirstMaps : map_file = [life |-> 0, points |-> points, whole |-> TRUE]
  BY DEF SlamInit
<1>2. points \in SUBSET Positions /\ 0 \in Positions /\ 0 \in 0 .. MaxLives /\ 1 \in 1 .. MaxLives
      /\ 0 \in 0 .. SavePeriod - 1
  BY MapAssumption
<1>3. MapTypeOK
  BY <1>1, <1>2 DEF SlamInit, MapTypeOK
<1>4. WindowHoldsPose /\ (inited # "no" /\ ~target => at = 0)
  BY DEF SlamInit, Init, WindowHoldsPose
<1>5. TargetIsWindow
  BY DEF SlamInit, TargetIsWindow
<1>6. map_file.life = 0 /\ lives = 1
  BY <1>1 DEF SlamInit
<1> QED BY <1>3, <1>4, <1>5, <1>6 DEF MapInv, SavedMapKept

(* The window part of MapInv after a cycle that initialises the pose. *)
LEMMA InitKeepsMaps ==
  ASSUME MapInv, InitFailsAt \/ InitSucceedsAt \/ InitAtOriginAt
  PROVE  MapInv'
<1>0. MapTypeOK BY DEF MapInv
<1>a. 0 \in Positions /\ Size \in Int /\ Margin \in Int /\ Margin < Size /\ Positions \subseteq Int
  BY MapAssumption
<1>b. UNCHANGED <<global_map, gathered, map_file, lives>>
  BY DEF InitFailsAt, InitSucceedsAt, InitAtOriginAt
<1>1. /\ origin' \in Positions /\ cut' \in Positions /\ at' \in Positions
      /\ WindowHoldsPose' /\ TargetIsWindow'
      /\ inited' # "no" /\ ~target' => at' = 0
  <2>1. CASE InitFailsAt
    <3>1. inited' = "no" /\ at' = at
      BY <2>1 DEF InitFailsAt, InitFails
    <3>2. CASE UNCHANGED window /\ target' = target
      BY <1>0, <1>b, <3>1, <3>2
      DEF MapInv, MapTypeOK, WindowHoldsPose, TargetIsWindow, HasPoints,
          window
    <3>3. CASE \E g \in Positions : ResetLocalMap(g) /\ target' = (target \/ HasPoints(g))
      <4>1. PICK g \in Positions : ResetLocalMap(g)
        BY <3>3
      <4> QED
        BY <1>0, <1>b, <3>1, <4>1, ResetKeepsTarget
        DEF WindowHoldsPose, MapTypeOK
    <3> QED BY <2>1, <3>2, <3>3 DEF InitFailsAt
  <2>2. CASE InitSucceedsAt
    <3>1. PICK g \in Positions, r \in Positions :
            at' = r /\ origin' = r /\ cut' = IF HasPoints(r) THEN r ELSE g
      BY <2>2 DEF InitSucceedsAt
    <3>2. target' = TRUE
      BY <2>2 DEF InitSucceedsAt, InitSucceeds
    <3>3. HasPoints(origin)' <=> HasPoints(r)
      BY <1>b, <3>1 DEF HasPoints
    <3>4. at' - origin' = 0 /\ origin' - at' = 0 /\ 0 < Size - Margin
      BY <1>a, <3>1
    <3> QED BY <3>1, <3>2, <3>3, <3>4 DEF WindowHoldsPose, TargetIsWindow
  <2>3. CASE InitAtOriginAt
    <3>1. at' = 0 /\ ResetLocalMap(0)
      BY <2>3 DEF InitAtOriginAt
    <3>2. origin' = 0 /\ cut' \in Positions /\ TargetIsWindow'
      BY <1>0, <1>a, <1>b, <3>1, ResetKeepsTarget
    <3>4. at' - origin' = 0 /\ origin' - at' = 0 /\ 0 < Size - Margin
      BY <1>a, <3>1, <3>2
    <3> QED BY <1>a, <3>1, <3>2, <3>4 DEF WindowHoldsPose
  <2> QED BY <2>1, <2>2, <2>3
<1>2. MapTypeOK'
  BY <1>0, <1>1, <1>b DEF MapTypeOK, gathered
<1>3. SavedMapKept' /\ map_file'.life <= lives'
  BY <1>b DEF MapInv, SavedMapKept, gathered
<1> QED BY <1>1, <1>2, <1>3 DEF MapInv

(* A scan that is registered, or fails to be, and is gathered. *)
LEMMA RegisterKeepsMaps ==
  ASSUME MapInv, RegisterScanAt
  PROVE  MapInv'
<1>0. MapTypeOK BY DEF MapInv
<1>a. /\ UNCHANGED <<global_map, map_file, lives, inited, target>>
      /\ inited # "no"
      /\ Gather
  BY DEF RegisterScanAt, RegisterScan
<1>b. at - origin < Size - Margin /\ origin - at < Size - Margin /\ TargetIsWindow
  BY <1>a DEF MapInv, WindowHoldsPose
<1>1. /\ origin' \in Positions /\ cut' \in Positions /\ at' \in Positions
      /\ WindowHoldsPose' /\ TargetIsWindow'
      /\ ~target' => at' = 0
  <2>1. CASE \E p \in Positions : target /\ p - at <= MaxJump /\ at - p <= MaxJump /\ Follow(p)
    <3>1. PICK p \in Positions : target /\ p - at <= MaxJump /\ at - p <= MaxJump /\ Follow(p)
      BY <2>1
    <3>2. at' - origin' < Size - Margin /\ origin' - at' < Size - Margin
      BY <1>0, <1>a, <1>b, <3>1, FollowHoldsPose
    <3>3. origin' \in Positions /\ cut' \in Positions /\ at' \in Positions /\ TargetIsWindow'
      BY <1>0, <1>a, <1>b, <3>1, FollowKeepsTarget
    <3> QED BY <1>a, <3>1, <3>2, <3>3 DEF WindowHoldsPose
  <2>2. CASE ~target /\ Follow(0)
    <3>1. at = 0 /\ 0 \in Positions /\ 0 - at <= MaxJump /\ at - 0 <= MaxJump
      BY <1>a, <2>2, MapAssumption DEF MapInv
    <3>2. /\ at' = 0
          /\ at' - origin' < Size - Margin /\ origin' - at' < Size - Margin
      BY <1>0, <1>a, <1>b, <2>2, <3>1, FollowHoldsPose
    <3>3. origin' \in Positions /\ cut' \in Positions /\ at' \in Positions /\ TargetIsWindow'
      BY <1>0, <1>a, <1>b, <2>2, <3>1, FollowKeepsTarget
    <3> QED BY <3>2, <3>3 DEF WindowHoldsPose
  <2>3. CASE UNCHANGED <<window, at>>
    BY <1>0, <1>a, <2>3
    DEF MapInv, MapTypeOK, WindowHoldsPose, TargetIsWindow, HasPoints, window
  <2> QED BY <2>1, <2>2, <2>3 DEF RegisterScanAt
<1>2. pcl_wait_save \subseteq pcl_wait_save' /\ pcl_wait_save' \subseteq Positions
  BY <1>0, <1>1, <1>a DEF Gather, MapTypeOK
<1>3. scan_wait_num' \in 0 .. SavePeriod - 1
  <2>1. scan_wait_num \in Int /\ SavePeriod \in Nat \ {0}
    BY <1>0, MapAssumption DEF MapTypeOK
  <2> QED BY <1>a, <2>1 DEF Gather
<1>4. MapTypeOK'
  BY <1>0, <1>1, <1>2, <1>3, <1>a DEF MapTypeOK
<1>5. SavedMapKept' /\ map_file'.life <= lives'
  BY <1>2, <1>a DEF MapInv, SavedMapKept
<1> QED BY <1>1, <1>4, <1>5 DEF MapInv

(* A save and a restart. *)
LEMMA FileKeepsMaps ==
  ASSUME MapInv, SaveMapCallback \/ Restart
  PROVE  MapInv'
<1>0. MapTypeOK BY DEF MapInv
<1>a. lives \in 1 .. MaxLives /\ MaxLives \in Nat /\ map_file.life \in Nat /\ map_file.life <= lives
  BY <1>0, MapAssumption DEF MapTypeOK, MapInv
<1>1. CASE SaveMapCallback
  <2>1. map_file' = [life |-> lives, points |-> pcl_wait_save, whole |-> TRUE] /\ pcl_wait_save # {}
    BY <1>1 DEF SaveMapCallback, Saved
  <2>2. UNCHANGED <<inited, target, global_map, origin, cut, at, scan_wait_num, pcl_wait_save, lives>>
    BY <1>1 DEF SaveMapCallback, vars, window, gathered
  <2>3. map_file' \in [life : 0 .. MaxLives, points : SUBSET Positions, whole : BOOLEAN]
    BY <1>0, <1>a, <2>1 DEF MapTypeOK
  <2>4. MapTypeOK'
    BY <1>0, <2>2, <2>3 DEF MapTypeOK
  <2>5. map_file'.life <= lives' /\ SavedMapKept'
    BY <1>a, <2>1, <2>2 DEF SavedMapKept
  <2>6. WindowHoldsPose' /\ TargetIsWindow' /\ (inited' # "no" /\ ~target' => at' = 0)
    BY <2>2 DEF MapInv, WindowHoldsPose, TargetIsWindow, HasPoints
  <2> QED BY <2>4, <2>5, <2>6 DEF MapInv
<1>2. CASE Restart
  <2>1. /\ lives < MaxLives /\ lives' = lives + 1
        /\ inited' = "no" /\ origin' = 0 /\ cut' = 0 /\ at' = 0
        /\ scan_wait_num' = 0 /\ pcl_wait_save' = {}
        /\ global_map' = map_file'.points
    BY <1>2 DEF Restart
  <2>2. map_file' = map_file \/ map_file' = [life |-> lives, points |-> {}, whole |-> FALSE]
    BY <1>2 DEF Restart, Saved
  <2>3. map_file' \in [life : 0 .. MaxLives, points : SUBSET Positions, whole : BOOLEAN]
    <3>1. lives \in 0 .. MaxLives /\ {} \in SUBSET Positions
      BY <1>a
    <3>2. CASE map_file' = map_file
      BY <1>0, <3>2 DEF MapTypeOK
    <3>3. CASE map_file' = [life |-> lives, points |-> {}, whole |-> FALSE]
      BY <3>1, <3>3
    <3> QED BY <2>2, <3>2, <3>3
  <2>4. map_file'.life <= lives /\ lives < lives' /\ map_file'.life # lives' /\ lives' \in 1 .. MaxLives
        /\ map_file'.life <= lives'
    <3>1. map_file'.life \in Nat /\ map_file'.life <= lives
      BY <1>a, <2>2
    <3> QED BY <1>a, <2>1, <3>1
  <2>5. 0 \in Positions /\ 0 \in 0 .. SavePeriod - 1
    BY MapAssumption
  <2>6. MapTypeOK'
    BY <2>1, <2>3, <2>4, <2>5 DEF MapTypeOK
  <2>7. WindowHoldsPose' /\ TargetIsWindow' /\ (inited' # "no" /\ ~target' => at' = 0) /\ SavedMapKept'
    BY <2>1, <2>4 DEF WindowHoldsPose, TargetIsWindow, SavedMapKept
  <2> QED BY <2>4, <2>6, <2>7 DEF MapInv
<1> QED BY <1>1, <1>2

(* Every step keeps MapInv. *)
LEMMA MapStep ==
  ASSUME MapInv, [SlamNext]_slamVars
  PROVE  MapInv'
<1>1. CASE InitFailsAt \/ InitSucceedsAt \/ InitAtOriginAt
  BY <1>1, InitKeepsMaps
<1>2. CASE RegisterScanAt
  BY <1>2, RegisterKeepsMaps
<1>3. CASE SaveMapCallback \/ Restart
  BY <1>3, FileKeepsMaps
<1>4. CASE UNCHANGED mapVars /\ UNCHANGED <<inited, target>>
  BY <1>4
  DEF MapInv, MapTypeOK, WindowHoldsPose, TargetIsWindow, SavedMapKept,
      HasPoints,
              mapVars, window, gathered
<1>5. ASSUME (FirstScan \/ SkipScan \/ Shutdown) /\ UNCHANGED mapVars
      PROVE  UNCHANGED <<inited, target>>
  BY <1>5 DEF FirstScan, SkipScan, Shutdown
<1>6. ASSUME Callback
      PROVE  UNCHANGED mapVars /\ UNCHANGED <<inited, target>>
  BY <1>6
  DEF Callback, PclCbk, ImuCbk, InitialposeCallback, KeyboardCallback,
      SigHandle
<1>7. ASSUME UNCHANGED slamVars
      PROVE  UNCHANGED mapVars /\ UNCHANGED <<inited, target>>
  BY <1>7 DEF slamVars, vars
<1> QED BY <1>1, <1>2, <1>3, <1>4, <1>5, <1>6, <1>7 DEF SlamNext, SlamLoop

(* The maps' invariant, for any map, window, margin and number of starts.   *)
THEOREM MapInvariant == SlamSpec => []MapInv
<1>1. SlamInit => MapInv BY MapInit
<1>2. MapInv /\ [SlamNext]_slamVars => MapInv' BY MapStep
<1> QED BY <1>1, <1>2, PTL DEF SlamSpec

(* The window never loses the vehicle. *)
THEOREM WindowAlwaysHoldsPose == SlamSpec => []WindowHoldsPose
<1>1. MapInv => WindowHoldsPose BY DEF MapInv
<1> QED BY <1>1, MapInvariant, PTL

(* NDT's target is never out of step with the window. *)
THEOREM TargetStaysWindow == SlamSpec => []TargetIsWindow
<1>1. MapInv => TargetIsWindow BY DEF MapInv
<1> QED BY <1>1, MapInvariant, PTL

(* A save never loses what an earlier save of the same life wrote. *)
THEOREM SavedMapStaysKept == SlamSpec => []SavedMapKept
<1>1. MapInv => SavedMapKept BY DEF MapInv
<1> QED BY <1>1, MapInvariant, PTL

(* NodeInv survives restarts: a step of SlamNode is a step of FastLioNode,  *)
(* leaves the node alone or starts it anew.                                *)
LEMMA SlamStepKeepsNodeInv ==
  ASSUME NodeInv, [SlamNext]_slamVars
  PROVE  NodeInv'
<1>1. CASE SlamLoop
  <2>1. MainLoop
    BY <1>1
    DEF SlamLoop, InitFailsAt, InitSucceedsAt, InitAtOriginAt, RegisterScanAt,
        MainLoop, Cycle
  <2> QED BY <2>1, NodeMainLoop
<1>2. CASE Callback
  BY <1>2, NodeCallbacks DEF Callback
<1>3. CASE UNCHANGED vars
  BY <1>3 DEF NodeInv, TypeOK, TimesCoverScans, vars, buffers, pose, tracking
<1>4. CASE Restart
  <2>1. /\ lidar_buffer' = <<>> /\ time_buffer' = <<>> /\ imu_buffer' = 0 /\ scan_count' = 0
        /\ pose_received' = FALSE /\ posed' = FALSE /\ guess' = "identity"
        /\ inited' = "no" /\ first_scan' = TRUE /\ meas' = [scan |-> 0, time |-> 0]
        /\ registered' = 0 /\ kf' = [scan |-> 0, pose |-> 0]
        /\ flg_exit' = FALSE /\ running' = TRUE
    BY <1>4 DEF Restart
  <2>2. target' \in BOOLEAN
    BY <1>4 DEF Restart, HasPoints
  <2>3. <<>> \in Seq(Scans) /\ IsSuffixOf(<<>>, <<>>) /\ 0 \in 0 .. MaxScans
    BY NodeAssumption DEF IsSuffixOf
  <2>4. TypeOK'
    BY <2>1, <2>2, <2>3 DEF TypeOK
  <2> QED BY <2>1, <2>3, <2>4 DEF NodeInv, TimesCoverScans
<1>5. SaveMapCallback => UNCHANGED vars
  BY DEF SaveMapCallback
<1>6. UNCHANGED slamVars => UNCHANGED vars
  BY DEF slamVars
<1> QED BY <1>1, <1>2, <1>3, <1>4, <1>5, <1>6 DEF SlamNext

(* The buffers and the guess of a node that is restarted at any moment.     *)
THEOREM NodeInvariantWithMaps == SlamSpec => []NodeInv
<1>1. SlamInit => NodeInv
  <2>1. SlamInit => Init BY DEF SlamInit
  <2> QED BY <2>1, NodeInit
<1>2. NodeInv /\ [SlamNext]_slamVars => NodeInv' BY SlamStepKeepsNodeInv
<1> QED BY <1>1, <1>2, PTL DEF SlamSpec

(* Nor does a restart, which drops both buffers, part scans and times.      *)
THEOREM TimesCoverWithMaps == SlamSpec => []TimesCoverScans
BY NodeInvariantWithMaps, PTL DEF NodeInv
=============================================================================
