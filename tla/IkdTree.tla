------------------------------- MODULE IkdTree -------------------------------
(***************************************************************************)
(* The ikd-Tree of FAST_LIO (include/ikd-Tree): a k-d tree with lazy       *)
(* deletion.  Deleting or restoring a box only flags the highest nodes it  *)
(* covers; the flags are pushed down by whoever passes later, and a        *)
(* subtree that is unbalanced or mostly deleted is flattened and built     *)
(* anew.  One thread calls and every subtree is smaller than               *)
(* Multi_Thread_Rebuild_Point_Num, so that each call is one step and       *)
(* Rebuild rebuilds at once; the rebuilding thread is module IkdRebuild.   *)
(***************************************************************************)
EXTENDS TreeNode, Sequences, SequencesExt, BagsExt

CONSTANTS Points, Boxes, Clouds,  \* see PointBag
          Queries,                \* points searched around
          NearestCounts,          \* values of k_nearest
          MaxDists,               \* values of max_dist and of the radius
          MaxNodes                \* bound: nodes plus unreported points

VARIABLES Root_Node,        \* a node record, or nullptr
          Points_deleted,   \* bag of points a rebuild threw away, not yet acquired
          answer,           \* see PointBag
          settled           \* auxiliary: Root_Node with every flag pushed down

vars == <<Root_Node, Points_deleted, answer, settled>>

Answer(op, arg, count, points) == [op |-> op, arg |-> arg, count |-> count, points |-> points]
Done(op, arg) == Answer(op, arg, 0, EmptyBag)
-----------------------------------------------------------------------------
\* flatten with DELETE_POINTS_REC: the live points and the deleted ones to report.
RECURSIVE Flatten(_)
Flatten(t) ==
    IF t = nullptr THEN [storage |-> <<>>, removed |-> <<>>]
    ELSE LET u     == Push_Down(t)
             left  == Flatten(u.left_son_ptr)
             right == Flatten(u.right_son_ptr)
         IN  [storage |-> (IF u.point_deleted THEN <<>> ELSE <<u.point>>) \o left.storage \o right.storage,
              removed |-> left.removed \o right.removed
                          \o (IF u.point_deleted /\ ~u.point_downsample_deleted THEN <<u.point>> ELSE <<>>)]

\* flatten as a call of its own: it leaves every flag pushed down.
RECURSIVE PushAll(_)
PushAll(t) ==
    IF t = nullptr THEN nullptr
    ELSE LET u == Push_Down(t)
         IN  [u EXCEPT !.left_son_ptr = PushAll(@), !.right_son_ptr = PushAll(@)]

(* BuildTree over storage: the longest axis, the median of nth_element;    *)
(* points equal in that coordinate go to either side.                      *)
RECURSIVE BuildTree(_)
BuildTree(storage) ==
    IF storage = <<>> THEN nullptr
    ELSE LET Spread(i) == LET xs == {storage[j][i] : j \in DOMAIN storage} IN Max(xs) - Min(xs)
             axis   == Min({i \in Axes : \A j \in Axes : Spread(j) <= Spread(i)})
             sorted == SortSeq(storage, LAMBDA a, b : a[axis] < b[axis])
             mid    == (Len(storage) + 1) \div 2
         IN  NewNode(sorted[mid], axis, BuildTree(SubSeq(sorted, 1, mid - 1)),
                     BuildTree(SubSeq(sorted, mid + 1, Len(sorted))))

(* The common end of every operation: Update, Criterion_Check and Rebuild. *)
(* An operation returns its tree, the points Rebuild reported and a count. *)
Result(t, removed, count) == [tree |-> t, removed |-> removed, count |-> count]
Finish(t, removed, count) ==
    LET u == Update(t)
    IN  IF Criterion_Check(u)
        THEN Result(BuildTree(Flatten(u).storage), removed \o Flatten(u).removed, count)
        ELSE Result(u, removed, count)

-----------------------------------------------------------------------------
(* Operations on a subtree. *)

RECURSIVE Delete_by_range(_, _, _)
Delete_by_range(t, box, isDownsample) ==
    IF t = nullptr \/ t.tree_deleted THEN Result(t, <<>>, 0)
    ELSE LET u == Push_Down(t)
         IN  IF Misses(u, box) THEN Result(u, <<>>, 0)
             ELSE IF Covers(u, box)
             THEN Result(Deleted(u, isDownsample), <<>>, u.TreeSize - u.invalid_point_num)
             ELSE LET hit   == ~u.point_deleted /\ InBox(u.point, box)
                      left  == Delete_by_range(u.left_son_ptr, box, isDownsample)
                      right == Delete_by_range(u.right_son_ptr, box, isDownsample)
                  IN  Finish([u EXCEPT !.point_deleted = @ \/ hit,
                                       !.point_downsample_deleted = @ \/ (hit /\ isDownsample),
                                       !.left_son_ptr = left.tree, !.right_son_ptr = right.tree],
                             left.removed \o right.removed,
                             (IF hit THEN 1 ELSE 0) + left.count + right.count)

RECURSIVE Add_by_point(_, _, _)
Add_by_point(t, p, fatherAxis) ==
    IF t = nullptr THEN Result(NewNode(p, (fatherAxis % Dims) + 1, nullptr, nullptr), <<>>, 0)
    ELSE LET u   == Push_Down(t)
             son == Add_by_point(IF GoesLeft(u, p) THEN u.left_son_ptr ELSE u.right_son_ptr, p, u.division_axis)
         IN  Finish(IF GoesLeft(u, p) THEN [u EXCEPT !.left_son_ptr = son.tree]
                                      ELSE [u EXCEPT !.right_son_ptr = son.tree], son.removed, 0)
-----------------------------------------------------------------------------
(* MANUAL_HEAP: a bounded max-heap of candidates, greatest at index 1. *)

Candidate(p, dist) == [point |-> p, dist |-> dist]
Closer(a, b) == IF a.dist = b.dist THEN a.point[1] < b.point[1] ELSE a.dist < b.dist
Swap(h, i, j) == [h EXCEPT ![i] = h[j], ![j] = h[i]]

RECURSIVE FloatUp(_, _), MoveDown(_, _)
FloatUp(h, i) == IF i > 1 /\ Closer(h[i \div 2], h[i]) THEN FloatUp(Swap(h, i, i \div 2), i \div 2) ELSE h
MoveDown(h, i) ==
    LET l == IF 2 * i < Len(h) /\ Closer(h[2 * i], h[2 * i + 1]) THEN 2 * i + 1 ELSE 2 * i
    IN  IF l <= Len(h) /\ Closer(h[i], h[l]) THEN MoveDown(Swap(h, i, l), l) ELSE h

HeapPush(h, c, cap) == IF Len(h) >= cap THEN h ELSE FloatUp(Append(h, c), Len(h) + 1)
HeapPop(h) == IF Len(h) <= 1 THEN <<>> ELSE MoveDown(SubSeq([h EXCEPT ![1] = h[Len(h)]], 1, Len(h) - 1), 1)
TopDist(h) == IF h = <<>> THEN Infinity ELSE h[1].dist
-----------------------------------------------------------------------------
(* Searches.  Each pushes down the flags of the nodes it visits, and so    *)
(* returns the tree it leaves next to what it found.                       *)

Found(t, found) == [tree |-> t, found |-> found]

RECURSIVE Search(_, _, _, _, _)
Search(t, k, p, heap, maxDist) ==
    IF t = nullptr \/ t.tree_deleted \/ BoxDist(t, p) > maxDist * maxDist THEN Found(t, heap)
    ELSE LET u    == Push_Down(t)
             dist == CalcDist(p, u.point)
             take == ~u.point_deleted /\ dist <= maxDist * maxDist /\ (Len(heap) < k \/ dist < TopDist(heap))
             own  == IF take THEN HeapPush(IF Len(heap) >= k THEN HeapPop(heap) ELSE heap,
                                           Candidate(u.point, dist), 2 * k)
                     ELSE heap
             dl   == BoxDist(u.left_son_ptr, p)
             dr   == BoxDist(u.right_son_ptr, p)
             Worth(h, d) == Len(h) < k \/ d < TopDist(h)
             Left(s)  == LET v == Search(s.tree.left_son_ptr, k, p, s.found, maxDist)
                         IN  Found([s.tree EXCEPT !.left_son_ptr = v.tree], v.found)
             Right(s) == LET v == Search(s.tree.right_son_ptr, k, p, s.found, maxDist)
                         IN  Found([s.tree EXCEPT !.right_son_ptr = v.tree], v.found)
             s0   == Found(u, own)
         IN  IF Len(own) < k \/ (dl < TopDist(own) /\ dr < TopDist(own))
             THEN IF dl <= dr
                  THEN LET s1 == Left(s0) IN IF Worth(s1.found, dr) THEN Right(s1) ELSE s1
                  ELSE LET s1 == Right(s0) IN IF Worth(s1.found, dl) THEN Left(s1) ELSE s1
             ELSE LET s1 == IF dl < TopDist(own) THEN Left(s0) ELSE s0
                  IN  IF dr < TopDist(s1.found) THEN Right(s1) ELSE s1

\* Nearest_Search empties the heap from its top, each point before the last.
RECURSIVE Drain(_)
Drain(h) == IF h = <<>> THEN <<>> ELSE Append(Drain(HeapPop(h)), h[1].point)

RECURSIVE Search_by_range(_, _)
Search_by_range(t, box) ==
    IF t = nullptr THEN Found(t, <<>>)
    ELSE LET u == Push_Down(t)
         IN  IF Misses(u, box) THEN Found(u, <<>>)
             ELSE IF Covers(u, box) THEN Found(PushAll(u), Flatten(u).storage)
             ELSE LET left  == Search_by_range(u.left_son_ptr, box)
                      right == Search_by_range(u.right_son_ptr, box)
                  IN  Found([u EXCEPT !.left_son_ptr = left.tree, !.right_son_ptr = right.tree],
                            (IF InBox(u.point, box) /\ ~u.point_deleted THEN <<u.point>> ELSE <<>>)
                            \o left.found \o right.found)

(* The ball around the range of a node has the centre (lo + hi) / 2 and    *)
(* the squared radius radius_sq; both tests compare sums of square roots   *)
(* and are squared here (c2 and s2 are four times the squares).            *)
RECURSIVE Search_by_radius(_, _, _)
Search_by_radius(t, p, radius) ==
    IF t = nullptr THEN Found(t, <<>>)
    ELSE LET u  == Push_Down(t)
             c2 == SumAxes([i \in Axes |-> (u.lo[i] + u.hi[i] - 2 * p[i]) * (u.lo[i] + u.hi[i] - 2 * p[i])])
             s2 == CalcDist(u.lo, u.hi)
             far    == c2 - 4 * radius * radius - s2
             inside == 4 * radius * radius + s2 - c2
         IN  IF far > 0 /\ far * far > 16 * radius * radius * s2 THEN Found(u, <<>>)
             ELSE IF 4 * radius * radius >= s2 /\ inside >= 0 /\ inside * inside >= 16 * radius * radius * s2
             THEN Found(PushAll(u), Flatten(u).storage)
             ELSE LET left  == Search_by_radius(u.left_son_ptr, p, radius)
                      right == Search_by_radius(u.right_son_ptr, p, radius)
                  IN  Found([u EXCEPT !.left_son_ptr = left.tree, !.right_son_ptr = right.tree],
                            (IF ~u.point_deleted /\ CalcDist(u.point, p) <= radius * radius THEN <<u.point>> ELSE <<>>)
                            \o left.found \o right.found)
-----------------------------------------------------------------------------
(* Calls.  A call with several points or boxes is the sequence of calls    *)
(* with each.                                                              *)

Init == /\ Root_Node = nullptr /\ settled = nullptr
        /\ Points_deleted = EmptyBag /\ answer = Done("Init", <<>>)

Room == Root_Node.TreeSize + BagCardinality(Points_deleted) < MaxNodes

Commit(result) == /\ Root_Node' = result.tree
                  /\ settled' = PushAll(result.tree)
                  /\ Points_deleted' = Points_deleted (+) ToBag(result.removed)

\* The nodes build when there is no tree (laserMapping.cpp:660).
Build(cloud) ==
    /\ Root_Node = nullptr
    /\ Commit(Result(BuildTree(cloud), <<>>, 0))
    /\ answer' = Done("Build", cloud)

Add_Point(p) ==
    /\ Root_Node # nullptr /\ Room
    /\ Commit(Add_by_point(Root_Node, p, Root_Node.division_axis))
    /\ answer' = Done("Add", p)

(* Add_Points with downsampling.  It clears the voxel, which may rebuild,  *)
(* and then reads Root_Node->division_axis.                                *)
Add_Downsampled(p) ==
    /\ Root_Node # nullptr /\ Room
    /\ LET voxel  == VoxelOf(p)
           search == Search_by_range(Root_Node, voxel)
           best   == FoldLeft(LAMBDA b, q : IF MidDist(q, voxel) < MidDist(b, voxel) THEN q ELSE b, p, search.found)
           clear  == IF search.found # <<>> THEN Delete_by_range(search.tree, voxel, TRUE)
                                            ELSE Result(search.tree, <<>>, 0)
           add    == Add_by_point(clear.tree, best, clear.tree.division_axis)
       IN  IF ~(Len(search.found) > 1 \/ best = p)
           THEN /\ Commit(Result(search.tree, <<>>, 0))
                /\ answer' = Answer("AddDownsampled", p, 0, EmptyBag)
           ELSE IF clear.tree = nullptr
           THEN /\ Commit(clear)
                /\ answer' = Done("NullRoot", p)
           ELSE /\ Commit(Result(add.tree, clear.removed \o add.removed, 0))
                /\ answer' = Answer("AddDownsampled", p, 1, EmptyBag)

Delete_Point_Box(box) ==
    LET result == Delete_by_range(Root_Node, box, FALSE)
    IN  /\ Commit(result)
        /\ answer' = Answer("DeleteBox", box, result.count, EmptyBag)

acquire_removed_points == /\ answer' = Answer("Acquire", <<>>, 0, Points_deleted)
                          /\ Points_deleted' = EmptyBag
                          /\ UNCHANGED <<Root_Node, settled>>

Query(op, arg, searched) ==
    /\ Commit(Result(searched.tree, <<>>, 0))
    /\ answer' = Answer(op, arg, Len(searched.found), searched.found)

Box_Search(box) == Query("BoxSearch", box, Search_by_range(Root_Node, box))
Radius_Search(p, r) == Query("RadiusSearch", <<p, r>>, Search_by_radius(Root_Node, p, r))
Nearest_Search(p, k, maxDist) ==
    LET s == Search(Root_Node, k, p, <<>>, maxDist)
    IN  Query("NearestSearch", <<p, k, maxDist>>, Found(s.tree, Drain(s.found)))

Next == \/ \E cloud \in Clouds : Build(cloud)
        \/ \E p \in Points : Add_Point(p) \/ Add_Downsampled(p)
        \/ \E box \in Boxes : Delete_Point_Box(box) \/ Box_Search(box)
        \/ acquire_removed_points
        \/ \E p \in Queries, r \in MaxDists :
              Radius_Search(p, r) \/ \E k \in NearestCounts : Nearest_Search(p, k, r)

Spec == Init /\ [][Next]_vars
-----------------------------------------------------------------------------
\* What a caller sees, read off the settled tree.

RECURSIVE Preorder(_)
Preorder(t) == IF t = nullptr THEN <<>> ELSE <<t>> \o Preorder(t.left_son_ptr) \o Preorder(t.right_son_ptr)

PointsWhere(t, Test(_)) == LET ts == SelectSeq(Preorder(t), Test) IN [i \in DOMAIN ts |-> ts[i].point]
IsLive(t) == ~t.point_deleted
IsRemoved(t) == t.point_deleted /\ ~t.point_downsample_deleted
live == ToBag(PointsWhere(settled, IsLive))
deleted == Points_deleted (+) ToBag(PointsWhere(settled, IsRemoved))
Bag == INSTANCE PointBag

TypeOK ==
    /\ DOMAIN Points_deleted \subseteq Points
    /\ Root_Node # nullptr => /\ Root_Node.TreeSize \in 1..MaxNodes
                              /\ Root_Node.invalid_point_num \in 0..Root_Node.TreeSize
                              /\ Root_Node.division_axis \in Axes

\* The nodes of t as whoever walks down finds them, each pushed down first.
RECURSIVE Passed(_)
Passed(t) == IF t = nullptr THEN {}
             ELSE LET u == Push_Down(t) IN {u} \cup Passed(u.left_son_ptr) \cup Passed(u.right_son_ptr)

(* What a node says of its subtree is right, whatever was deleted and       *)
(* rebuilt below it, once the pending flags are pushed down: how many nodes *)
(* and how many deleted points it has, whether all are deleted, and a range *)
(* that encloses the live ones.  Searches and box operations prune by this. *)
(* Whoever walks down the flagged tree finds each node in step with its     *)
(* sons, which is what the theorems about walks start from.                 *)
SummariesExact ==
    /\ TypeOK
    /\ \A t \in Passed(Root_Node) : NodeExact(t)
    /\ \A t \in ToSet(Preorder(settled)) :
         LET alive == PointsWhere(t, IsLive)
         IN  /\ t.TreeSize = Len(Preorder(t))
             /\ t.TreeSize - t.invalid_point_num = Len(alive)
             /\ t.tree_deleted <=> alive = <<>>
             /\ \A j \in DOMAIN alive, i \in Axes : t.lo[i] <= alive[j][i] /\ alive[j][i] <= t.hi[i]

(* The tree behaves as the bag of points of PointBag: whatever is flagged, *)
(* pushed down and rebuilt, the calls and searches answer as over the bag, *)
(* and Add_Points never finds the root gone after clearing a voxel.        *)
PointSetRefined == Bag!Spec
=============================================================================
