\* The three poll loops, their wake-ups and the shutdown.
SPECIFICATION FairSpec
CONSTANTS
  LidarCount = 2
  Capacity = 2
  Modes = {"cloud", "pcl", "imu"}
  MaxPushes = 5
INVARIANT NoLostWakeup
INVARIANT WakeupInv
PROPERTY Delivered
PROPERTY ExitEnds
\* The thread ends, or stays blocked when the lidars went silent.
CHECK_DEADLOCK FALSE
