------------------------------ MODULE TreeNode ------------------------------
(***************************************************************************)
(* One node of the ikd-Tree and what it says of its subtree: how many      *)
(* nodes and how many deleted points it has, whether all are deleted, and  *)
(* a range that encloses the live ones.  The operations of module IkdTree  *)
(* compute these from the sons, push deletions down to them and prune by   *)
(* them.  node_range is <<lo, hi>>; radius_sq and father_ptr follow from   *)
(* the rest.                                                               *)
(***************************************************************************)
EXTENDS PointGeometry, FiniteSetsExt

CONSTANTS nullptr,                       \* the absent node
          Minimal_Unbalanced_Tree_Size,  \* 10 in the code
          delete_criterion_param,        \* in percent
          balance_criterion_param        \* in percent

ASSUME TreeAssumption ==
    /\ Minimal_Unbalanced_Tree_Size \in Nat \ {0}
    /\ delete_criterion_param \in 1..100 /\ balance_criterion_param \in 50..100

Infinity == 1000000
Sons(t) == {t.left_son_ptr, t.right_son_ptr} \ {nullptr}

\* The smallest box around a set of spans, each given by its two corners.
Lowest(spans) == [i \in Axes |-> Min({s[1][i] : s \in spans})]
Highest(spans) == [i \in Axes |-> Max({s[2][i] : s \in spans})]

\* Update: what a node knows of its subtree, from its children and itself.
Update(t) ==
    LET bit(b)     == IF b THEN 1 ELSE 0
        size(s)    == IF s = nullptr THEN 0 ELSE s.TreeSize
        invalid(s) == IF s = nullptr THEN 0 ELSE s.invalid_point_num
        down(s)    == IF s = nullptr THEN 0 ELSE s.down_del_num
        dead       == t.point_deleted /\ \A s \in Sons(t) : s.tree_deleted
        spans      == {<<s.lo, s.hi>> : s \in {r \in Sons(t) : dead \/ ~r.tree_deleted}}
                      \cup (IF dead \/ ~t.point_deleted THEN {<<t.point, t.point>>} ELSE {})
    IN  [t EXCEPT
          !.TreeSize = 1 + size(t.left_son_ptr) + size(t.right_son_ptr),
          !.invalid_point_num = bit(t.point_deleted) + invalid(t.left_son_ptr) + invalid(t.right_son_ptr),
          !.down_del_num = bit(t.point_downsample_deleted) + down(t.left_son_ptr) + down(t.right_son_ptr),
          !.tree_downsample_deleted = t.point_downsample_deleted
                                      /\ \A s \in Sons(t) : s.tree_downsample_deleted,
          !.tree_deleted = dead,
          !.lo = Lowest(spans),
          !.hi = Highest(spans)]

\* InitTreeNode, the point, the axis and the children of a new node, and Update.
NewNode(p, axis, left, right) ==
    Update([point |-> p, division_axis |-> axis, left_son_ptr |-> left, right_son_ptr |-> right,
            TreeSize |-> 0, invalid_point_num |-> 0, down_del_num |-> 0,
            point_deleted |-> FALSE, tree_deleted |-> FALSE,
            point_downsample_deleted |-> FALSE, tree_downsample_deleted |-> FALSE,
            need_push_down_to_left |-> FALSE, need_push_down_to_right |-> FALSE,
            lo |-> p, hi |-> p])

\* Mutant: a son that is pushed down keeps its old count of deleted points.
PushedKeepsCount(t, son) ==
    [son EXCEPT !.tree_downsample_deleted = @ \/ t.tree_downsample_deleted,
                !.point_downsample_deleted = @ \/ t.tree_downsample_deleted,
                !.tree_deleted = t.tree_deleted \/ son.tree_downsample_deleted,
                !.point_deleted = t.tree_deleted \/ son.point_downsample_deleted,
                !.need_push_down_to_left = TRUE, !.need_push_down_to_right = TRUE]

(* What Push_Down does to a son: downsample deletion only accumulates, and *)
(* a restored subtree stays deleted where downsampling deleted it.         *)
Pushed(t, son) ==
    LET ds  == son.tree_downsample_deleted \/ t.tree_downsample_deleted
        pds == son.point_downsample_deleted \/ t.tree_downsample_deleted
        dd  == IF t.tree_downsample_deleted THEN son.TreeSize ELSE son.down_del_num
    IN  [son EXCEPT
          !.tree_downsample_deleted = ds,
          !.point_downsample_deleted = pds,
          !.tree_deleted = t.tree_deleted \/ ds,
          !.point_deleted = t.tree_deleted \/ ds \/ pds,
          !.down_del_num = dd,
          !.invalid_point_num = IF t.tree_deleted THEN son.TreeSize ELSE dd,
          !.need_push_down_to_left = TRUE,
          !.need_push_down_to_right = TRUE]

\* A flag whose son does not exist stays set.
Push_Down(t) ==
    IF t = nullptr THEN nullptr
    ELSE LET toLeft  == t.need_push_down_to_left /\ t.left_son_ptr # nullptr
             toRight == t.need_push_down_to_right /\ t.right_son_ptr # nullptr
         IN  [t EXCEPT
               !.left_son_ptr = IF toLeft THEN Pushed(t, @) ELSE @,
               !.right_son_ptr = IF toRight THEN Pushed(t, @) ELSE @,
               !.need_push_down_to_left = @ /\ ~toLeft,
               !.need_push_down_to_right = @ /\ ~toRight]

\* Delete_by_range on a node whose range the box covers.
Deleted(t, isDownsample) ==
    [t EXCEPT !.tree_deleted = TRUE, !.point_deleted = TRUE,
              !.need_push_down_to_left = TRUE, !.need_push_down_to_right = TRUE,
              !.invalid_point_num = t.TreeSize,
              !.tree_downsample_deleted = @ \/ isDownsample,
              !.point_downsample_deleted = @ \/ isDownsample,
              !.down_del_num = IF isDownsample THEN t.TreeSize ELSE @]

Criterion_Check(t) ==
    LET son == IF t.left_son_ptr # nullptr THEN t.left_son_ptr ELSE t.right_son_ptr
    IN  /\ t.TreeSize > Minimal_Unbalanced_Tree_Size
        /\ \/ 100 * t.invalid_point_num > delete_criterion_param * t.TreeSize
           \/ 100 * son.TreeSize > balance_criterion_param * (t.TreeSize - 1)
           \/ 100 * son.TreeSize < (100 - balance_criterion_param) * (t.TreeSize - 1)

\* Mutant: a box that starts at the end of the range misses it.
MissesClosed(t, box) == \E i \in Axes : box.hi[i] <= t.lo[i] \/ box.lo[i] >= t.hi[i]

Misses(t, box) == \E i \in Axes : box.hi[i] <= t.lo[i] \/ box.lo[i] > t.hi[i]
Covers(t, box) == \A i \in Axes : box.lo[i] <= t.lo[i] /\ box.hi[i] > t.hi[i]
GoesLeft(t, p) == p[t.division_axis] < t.point[t.division_axis]

\* calc_box_dist
BoxDist(t, p) ==
    IF t = nullptr THEN Infinity
    ELSE SumAxes([i \in Axes |-> IF p[i] < t.lo[i] THEN (p[i] - t.lo[i]) * (p[i] - t.lo[i])
                                 ELSE IF p[i] > t.hi[i] THEN (p[i] - t.hi[i]) * (p[i] - t.hi[i]) ELSE 0])
-----------------------------------------------------------------------------
\* What a node says of itself and its subtree follows from its sons.
NodeExact(t) ==
    LET size(s) == IF s = nullptr THEN 0 ELSE s.TreeSize
        live(s) == IF s = nullptr THEN 0 ELSE s.TreeSize - s.invalid_point_num
    IN  /\ t.TreeSize = 1 + size(t.left_son_ptr) + size(t.right_son_ptr)
        /\ t.TreeSize - t.invalid_point_num
             = (IF t.point_deleted THEN 0 ELSE 1) + live(t.left_son_ptr) + live(t.right_son_ptr)
        /\ t.tree_deleted <=> t.point_deleted /\ \A s \in Sons(t) : s.tree_deleted
        /\ \A i \in Axes :
             /\ ~t.point_deleted => t.lo[i] <= t.point[i] /\ t.point[i] <= t.hi[i]
             /\ \A s \in Sons(t) : ~s.tree_deleted => t.lo[i] <= s.lo[i] /\ s.hi[i] <= t.hi[i]
=============================================================================
