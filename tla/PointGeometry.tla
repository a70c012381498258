---------------------------- MODULE PointGeometry ----------------------------
(***************************************************************************)
(* Points, axis-parallel boxes, distances and voxels, as ikd_Tree.cpp uses *)
(* them.  A point is a tuple of Dims integer coordinates (the code has     *)
(* three floats; rounding is not modelled); a box is half open.            *)
(***************************************************************************)
EXTENDS Integers

CONSTANTS Dims,             \* number of coordinates (3 in the code)
          downsample_size   \* edge of a voxel of Add_Points

ASSUME DimsAssumption == Dims \in Nat \ {0}
ASSUME VoxelAssumption == downsample_size \in Nat \ {0}

Axes == 1..Dims

SumAxes(f) == LET sum[i \in 0..Dims] == IF i = 0 THEN 0 ELSE sum[i - 1] + f[i]
              IN  sum[Dims]

\* KD_TREE::calc_dist: the SQUARED distance.
CalcDist(a, b) == SumAxes([i \in Axes |-> (a[i] - b[i]) * (a[i] - b[i])])

InBox(p, box) == \A i \in Axes : box.lo[i] <= p[i] /\ p[i] < box.hi[i]

\* The voxel of p in Add_Points, floor(x / size) * size and one size further.
VoxelOf(p) == LET lo == [i \in Axes |-> (p[i] \div downsample_size) * downsample_size]
              IN  [lo |-> lo, hi |-> [i \in Axes |-> lo[i] + downsample_size]]

\* Four times the squared distance of p to the centre of a box.
MidDist(p, box) ==
    SumAxes([i \in Axes |-> (2 * p[i] - box.lo[i] - box.hi[i]) * (2 * p[i] - box.lo[i] - box.hi[i])])
=============================================================================
