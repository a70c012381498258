\* The node's buffers, its initialisation and its maps.
SPECIFICATION FairSlamSpec
CONSTANTS
  MaxScans = 5
  MaxImu = 2
  Positions = {0, 1, 2, 3, 4}
  Size = 3
  Margin = 1
  MaxJump = 2
  SavePeriod = 2
  FirstMaps <- MCFirstMaps
  MaxLives = 2
INVARIANT TimesCoverScans
INVARIANT NodeInv
INVARIANT WindowHoldsPose
INVARIANT TargetIsWindow
INVARIANT SavedMapKept
PROPERTY ScansConsumed
\* The node may have been stopped, or have received its last scan.
CHECK_DEADLOCK FALSE
