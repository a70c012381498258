\* Every handler, two messages.
SPECIFICATION Spec
CONSTANTS
  Deployments <- MCDeployments
  N_SCANS = 2
  point_filter_num = 2
  Turn = 3
  MaxPoints = 4
  MaxMessages = 2
INVARIANTS NoStalePoints TimesTrue BlindRespected
\* The messages end.
CHECK_DEADLOCK FALSE
