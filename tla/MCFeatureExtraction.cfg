\* Lines long enough for all passes: the edges need seven points.
SPECIFICATION Spec
CONSTANTS
  MaxLine = 7
  group_size = 2
  point_filter_num = 2
INVARIANTS BlindUnclaimed RunsPartitionPlanes
PROPERTIES ClaimsKept Terminates
\* A line is processed once.
CHECK_DEADLOCK FALSE
