\* RelocalisedWhenReported, as the node's own messages put it.
SPECIFICATION FairSpec
CONSTANTS
  MaxScans = 5
  MaxImu = 2
INVARIANT RelocalisedWhenReported
CHECK_DEADLOCK FALSE
