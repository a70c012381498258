------------------------------ MODULE PointBag ------------------------------
(***************************************************************************)
(* What an ikd-Tree promises its caller: a bag of points that can be added *)
(* (with voxel downsampling or without), deleted by box and searched.  A   *)
(* deleted point is handed back at most once, and never while it is live.  *)
(***************************************************************************)
EXTENDS PointGeometry, FiniteSets, Sequences, SequencesExt, BagsExt

CONSTANTS Points,    \* the points calls are made with
          Boxes,     \* the boxes calls are made with
          Clouds,    \* the sequences of points Build is called with
          Queries, NearestCounts, MaxDists   \* the arguments of searches

VARIABLES live,      \* bag of the points in the map
          deleted,   \* bag of deleted points not yet handed back
          answer     \* the last call, its argument and what it returned

vars == <<live, deleted, answer>>

Inside(box) == LET all == live IN [p \in {q \in BagToSet(all) : InBox(q, box)} |-> all[p]]
Answer(op, arg, count, points) == [op |-> op, arg |-> arg, count |-> count, points |-> points]
Done(op, arg) == Answer(op, arg, 0, EmptyBag)
Returns(op, arg, count) == /\ answer'.op = op
                           /\ answer'.arg = arg
                           /\ answer' = Answer(op, arg, count, EmptyBag)

Init == live = EmptyBag /\ deleted = EmptyBag /\ answer = Done("Init", <<>>)

Build(cloud) == /\ Returns("Build", cloud, 0)
                /\ live' = ToBag(cloud)
                /\ deleted' \sqsubseteq deleted

AddPoint(p) == /\ Returns("Add", p, 0)
               /\ live' = BagAdd(live, p)
               /\ UNCHANGED deleted

(* The voxel of p keeps one point, a nearest to its centre, p itself       *)
(* included.  Points deleted there earlier may be forgotten.               *)
AddDownsampled(p) ==
    LET voxel == VoxelOf(p)
        old   == Inside(voxel)
        near  == {q \in BagToSet(old) : MidDist(q, voxel) < MidDist(p, voxel)}
        best  == IF near = {} THEN {p}
                 ELSE {q \in near : \A r \in near : MidDist(q, voxel) <= MidDist(r, voxel)}
        keep  == BagCardinality(old) > 1 \/ near = {}
    IN  /\ Returns("AddDownsampled", p, IF keep THEN 1 ELSE 0)
        /\ IF keep THEN \E q \in best : live' = BagAdd(live (-) old, q)
                   ELSE UNCHANGED live
        /\ deleted' \sqsubseteq deleted

DeleteBox(box) ==
    /\ Returns("DeleteBox", box, BagCardinality(Inside(box)))
    /\ live' = live (-) Inside(box)
    /\ deleted' = deleted (+) Inside(box)

AcquireRemoved == /\ answer' = Answer("Acquire", <<>>, 0, answer'.points)
                  /\ answer'.points \sqsubseteq deleted
                  /\ deleted' = deleted (-) answer'.points
                  /\ UNCHANGED live

BoxSearch(box) == /\ answer'.op = "BoxSearch" /\ answer'.arg = box
                  /\ ToBag(answer'.points) = Inside(box)
                  /\ UNCHANGED <<live, deleted>>

Within(p, r) == LET all == live IN [q \in {x \in BagToSet(all) : CalcDist(p, x) <= r * r} |-> all[q]]

RadiusSearch(p, r) == /\ answer'.op = "RadiusSearch" /\ answer'.arg = <<p, r>>
                      /\ ToBag(answer'.points) = Within(p, r)
                      /\ UNCHANGED <<live, deleted>>

(* As many of the points within reach as there are up to k, nearest first; *)
(* none that is left out is nearer than one that is not.                   *)
NearestSearch(p, k, r) ==
    LET found == answer'.points
        reach == Within(p, r)
    IN  /\ answer'.op = "NearestSearch" /\ answer'.arg = <<p, k, r>>
        /\ ToBag(found) \sqsubseteq reach
        /\ Len(found) = Min({k, BagCardinality(reach)})
        /\ \A i \in 2..Len(found) : CalcDist(p, found[i - 1]) <= CalcDist(p, found[i])
        /\ \A q \in BagToSet(reach (-) ToBag(found)), i \in DOMAIN found : CalcDist(p, found[i]) <= CalcDist(p, q)
        /\ UNCHANGED <<live, deleted>>

Next == \/ \E cloud \in Clouds : Build(cloud)
        \/ \E p \in Points : AddPoint(p) \/ AddDownsampled(p)
        \/ \E box \in Boxes : DeleteBox(box)
        \/ AcquireRemoved
        \/ \E box \in Boxes : BoxSearch(box)
        \/ \E p \in Queries, r \in MaxDists : RadiusSearch(p, r) \/ \E k \in NearestCounts : NearestSearch(p, k, r)

Spec == Init /\ [][Next]_vars
=============================================================================
