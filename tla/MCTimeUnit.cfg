\* The node's own unit against the driver's.
SPECIFICATION Spec
CONSTANTS
  Deployments <- NodeDeployments
  N_SCANS = 2
  point_filter_num = 2
  Turn = 3
  MaxPoints = 4
  MaxMessages = 2
INVARIANT TimesTrue
\* The messages end.
CHECK_DEADLOCK FALSE
