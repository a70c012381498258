-------------------------- MODULE FeatureExtraction --------------------------
(***************************************************************************)
(* Preprocess::give_feature on one line of a scan: it classifies the       *)
(* points as planes, edges and wires in three passes, and then collects    *)
(* the surface and the corner points.                                      *)
(*                                                                         *)
(* Each iteration of a pass is an action.  What the passes compute from    *)
(* coordinates (distances, angles, ratios) is any outcome; how far a point *)
(* is, relative to blind and inf_bound, is kept, and so is every index.    *)
(***************************************************************************)
EXTENDS Integers, Sequences

CONSTANTS
  MaxLine,          \* bound: points of a line
  group_size, point_filter_num

ASSUME FeatureAssumption ==
  /\ MaxLine \in Nat \ {0}
  /\ group_size \in Nat \ {0} /\ point_filter_num \in Nat \ {0}

VARIABLES
  range,            \* by point: "blind", "near", or "far" beyond inf_bound
  ftype,            \* by point: what the passes made of it
  pass,             \* "planes", "edges", "small", "collect" or "done"
  i, last_state,    \* of the pass over the planes, and the index of all passes
  last_surface,     \* of the collection: where the open run of planes began, or -1
  pl_surf,          \* the runs of points behind each surface point
  pl_corn           \* the corner points

vars == <<range, ftype, pass, i, last_state, last_surface, pl_surf, pl_corn>>

Indices == DOMAIN range
plsize == IF range = <<>> THEN 0 ELSE 1 + CHOOSE k \in Indices : k + 1 \notin Indices
blind(k) == range[k] = "blind"

Real == {"Real_Plane", "Edge_Jump", "Edge_Plane", "Wire"}     \* ftype >= Real_Plane
Plane == {"Poss_Plane", "Real_Plane"}
Features == Real \cup Plane \cup {"Nor"}

\* The first point out of the blind zone, from which every pass goes on.
head == CHOOSE k \in Indices : ~blind(k) /\ \A l \in Indices : l < k => blind(l)

(* A line with a point out of the blind zone: range is measured in the     *)
(* plane, the handlers filter in space or not at all, and when every point *)
(* is blind the search for head runs past the line, which is not modelled. *)
Init ==
  /\ \E n \in 1 .. MaxLine : range \in [0 .. n - 1 -> {"blind", "near", "far"}]
  /\ \E k \in Indices : ~blind(k)
  /\ ftype = [k \in Indices |-> "Nor"]
  /\ pass = "planes" /\ i = head /\ last_state = 0
  /\ last_surface = -1 /\ pl_surf = <<>> /\ pl_corn = <<>>
-----------------------------------------------------------------------------
(* Planes. *)

\* Mutant: a blind point beyond the first group ends a plane like any other.
BlindEndsPlane(cur) ==
  {r \in {0, 1, 2} \X (cur .. plsize) :
     /\ \A k \in cur .. r[2] - 1 : ~blind(k)
     /\ IF r[1] = 2 THEN r[2] < cur + group_size /\ blind(r[2]) ELSE r[2] >= cur + group_size}

(* plane_judge from a point: 2 and the first blind point if that is in the  *)
(* group or ends its extension; else whether it is a plane, and the point   *)
(* too far away or the end of the line.                                    *)
plane_judge(cur) ==
  {r \in {0, 1, 2} \X (cur .. plsize) :
     /\ \A k \in cur .. r[2] - 1 : ~blind(k)
     /\ IF r[1] = 2 THEN r[2] < plsize /\ blind(r[2])
        ELSE r[2] >= cur + group_size /\ (r[2] < plsize => ~blind(r[2]))}

(* The points of a plane.  When it reaches the end of the line the code    *)
(* also writes one element past types, which changes no point of the line. *)
Marked(from, to) ==
  [k \in Indices |-> IF k \notin from .. to THEN ftype[k]
                     ELSE IF k \in {from, to} THEN "Poss_Plane" ELSE "Real_Plane"]

\* Mutant: the pass goes back to where the plane begins.
RestartsPlane(from, to) ==
  /\ ftype' = Marked(from, to)
  /\ i' = from /\ last_state' = 1

\* A plane next to another one, if that had a direction, begins with an edge or goes on with it.
MarkPlane(from, to) ==
  /\ IF last_state = 1
     THEN \E joint \in {"Edge_Plane", "Real_Plane", "Poss_Plane"} :
            ftype' = [Marked(from, to) EXCEPT ![from] = joint]
     ELSE ftype' = Marked(from, to)
  /\ i' = to /\ last_state' = 1

PlaneStep ==
  /\ pass = "planes" /\ i < plsize - group_size
  /\ IF blind(i) THEN i' = i + 1 /\ UNCHANGED <<ftype, last_state>>
     ELSE \E r \in plane_judge(i) :
            IF r[1] = 1 THEN MarkPlane(i, r[2])
            ELSE i' = r[2] + 1 /\ last_state' = 0 /\ UNCHANGED ftype
  /\ UNCHANGED <<range, pass, last_surface, pl_surf, pl_corn>>

EndPlanes ==
  /\ pass = "planes" /\ i >= plsize - group_size
  /\ pass' = "edges" /\ i' = head + 3
  /\ UNCHANGED <<range, ftype, last_state, last_surface, pl_surf, pl_corn>>
-----------------------------------------------------------------------------
(* Edges. *)

\* edj towards a neighbour: known when that is blind, else one of what an angle can give.
Jumps(k, neighbour) ==
  IF blind(neighbour) THEN {IF range[k] = "far" THEN "Nr_inf" ELSE "Nr_blind"}
  ELSE {"Nr_nor", "Nr_zero", "Nr_180"}

\* edge_jump_judge: false when the two points on the smooth side are not there.
edge_jump_judge(k, side) == ~blind(k + side) /\ ~blind(k + 2 * side)

\* A jump on one side, and the other side smooth.
JumpBeside(k, prev, next) ==
  \/ prev = "Nr_nor" /\ next \in {"Nr_zero", "Nr_inf"} /\ edge_jump_judge(k, -1)
  \/ next = "Nr_nor" /\ prev \in {"Nr_zero", "Nr_inf"} /\ edge_jump_judge(k, 1)

\* What the jumps to both sides may make of a point.
Verdict(k, prev, next) ==
  IF prev # "Nr_nor" /\ next # "Nr_nor" THEN {"Wire"}
  ELSE IF JumpBeside(k, prev, next) THEN {ftype[k], "Edge_Jump"} ELSE {ftype[k]}

\* Mutant: every point between two jumps becomes a wire.
EdgeOutcomesAny(k) ==
  UNION {Verdict(k, prev, next) : prev \in Jumps(k, k - 1), next \in Jumps(k, k + 1)}

(* Only a point nobody claimed becomes a wire, and only one that does not   *)
(* coincide with a neighbour is looked at.                                 *)
EdgeOutcomes(k) ==
  {ftype[k]} \cup {f \in UNION {Verdict(k, prev, next) : prev \in Jumps(k, k - 1), next \in Jumps(k, k + 1)} :
                    f = "Wire" => ftype[k] = "Nor"}

EdgeStep ==
  /\ pass = "edges" /\ i < plsize - 3
  /\ i' = i + 1
  /\ IF blind(i) \/ ftype[i] \in Real THEN UNCHANGED ftype
     ELSE \E f \in EdgeOutcomes(i) : ftype' = [ftype EXCEPT ![i] = f]
  /\ UNCHANGED <<range, pass, last_state, last_surface, pl_surf, pl_corn>>

EndEdges ==
  /\ pass = "edges" /\ i >= plsize - 3
  /\ pass' = "small" /\ i' = head + 1
  /\ UNCHANGED <<range, ftype, last_state, last_surface, pl_surf, pl_corn>>
-----------------------------------------------------------------------------
(* Small planes. *)

\* A smooth point makes a plane of itself and of the neighbours nobody claimed.
SmallPlane(k) ==
  [l \in Indices |-> IF l \in k - 1 .. k + 1 /\ ftype[l] = "Nor" THEN "Real_Plane" ELSE ftype[l]]

SmallStep ==
  /\ pass = "small" /\ i < plsize - 1
  /\ i' = i + 1
  /\ \/ /\ ~blind(i) /\ ~blind(i - 1) /\ ~blind(i + 1) /\ ftype[i] = "Nor"
        /\ ftype' = SmallPlane(i)
     \/ UNCHANGED ftype
  /\ UNCHANGED <<range, pass, last_state, last_surface, pl_surf, pl_corn>>

EndSmall ==
  /\ pass = "small" /\ i >= plsize - 1
  /\ pass' = "collect" /\ i' = head
  /\ UNCHANGED <<range, ftype, last_state, last_surface, pl_surf, pl_corn>>
-----------------------------------------------------------------------------
(* The collection. *)

Run(from, to) == [from |-> from, to |-> to]

\* Of point_filter_num planes in a row the last one goes to pl_surf.
CollectPlane ==
  LET from == IF last_surface = -1 THEN i ELSE last_surface
  IN IF i = from + point_filter_num - 1
     THEN pl_surf' = Append(pl_surf, Run(from, i)) /\ last_surface' = -1
     ELSE last_surface' = from /\ UNCHANGED pl_surf

\* Mutant: the mean of an unfinished run is not handed out.
DropsRun == last_surface' = -1 /\ UNCHANGED pl_surf

\* Any other point closes the run before it, whose mean goes to pl_surf.
CollectOther ==
  /\ pl_surf' = IF last_surface # -1 THEN Append(pl_surf, Run(last_surface, i - 1)) ELSE pl_surf
  /\ last_surface' = -1

CollectStep ==
  /\ pass = "collect" /\ i < plsize
  /\ IF ftype[i] \in Plane THEN CollectPlane ELSE CollectOther
  /\ pl_corn' = IF ftype[i] \in {"Edge_Jump", "Edge_Plane"} THEN Append(pl_corn, i) ELSE pl_corn
  /\ i' = i + 1
  /\ UNCHANGED <<range, ftype, pass, last_state>>

EndCollect ==
  /\ pass = "collect" /\ i = plsize
  /\ pass' = "done"
  /\ UNCHANGED <<range, ftype, i, last_state, last_surface, pl_surf, pl_corn>>

Next ==
  \/ PlaneStep \/ EndPlanes \/ EdgeStep \/ EndEdges \/ SmallStep \/ EndSmall
  \/ CollectStep \/ EndCollect

(* The function runs in the callback that called it. *)
Spec == Init /\ [][Next]_vars /\ WF_vars(Next)
-----------------------------------------------------------------------------
(* Properties. *)

TypeOK ==
  /\ ftype \in [Indices -> Features]
  /\ pass \in {"planes", "edges", "small", "collect", "done"}
  /\ i \in Nat /\ last_state \in {0, 1}
  /\ last_surface \in {-1} \cup Indices
  /\ pl_surf \in Seq([from : Indices, to : Indices])
  /\ pl_corn \in Seq(Indices)

(* No blind point becomes a feature: whichever pass claims it, and however *)
(* the geometry comes out.                                                 *)
BlindUnclaimed == TypeOK /\ \A k \in Indices : ftype[k] # "Nor" => ~blind(k)

InRun(k) == \E n \in 1 .. Len(pl_surf) : k \in pl_surf[n].from .. pl_surf[n].to

(* The runs behind the surface points are made of planes only, do not      *)
(* overlap and are no longer than point_filter_num; and in the end every   *)
(* plane is in one, but for a run the end of the line cuts short.          *)
RunsPartitionPlanes ==
  /\ \A n \in 1 .. Len(pl_surf) :
       /\ pl_surf[n].from <= pl_surf[n].to
       /\ pl_surf[n].to < pl_surf[n].from + point_filter_num
       /\ \A k \in pl_surf[n].from .. pl_surf[n].to : ftype[k] \in Plane
  /\ \A n \in 2 .. Len(pl_surf) : pl_surf[n - 1].to < pl_surf[n].from
  /\ last_surface # -1 /\ pl_surf # <<>> => pl_surf[Len(pl_surf)].to < last_surface
  /\ pass = "done" => \A k \in Indices :
       ftype[k] \in Plane => InRun(k) \/ (last_surface # -1 /\ k >= last_surface)

(* What one pass found to be a real plane, an edge or a wire no later pass *)
(* changes, nor the same one later; and a point that may belong to a plane *)
(* (an end of one) may become a real plane or an edge, but never a wire    *)
(* nor a point nobody claimed.                                             *)
ClaimsKept ==
  [][\A k \in Indices : /\ ftype[k] \in Real => ftype'[k] = ftype[k]
                        /\ ftype[k] = "Poss_Plane" => ftype'[k] \notin {"Wire", "Nor"}]_vars

(* Every pass ends, although that over the planes sets its own index.      *)
Terminates == <>(pass = "done")
=============================================================================
