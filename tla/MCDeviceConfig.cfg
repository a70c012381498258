\* One device slot for two lidars, which may be in the file or not.
SPECIFICATION FairSpec
CONSTANTS
  Lidars = {l1, l2}
  NoEntry = NoEntry
  Entries <- UsualEntries
  Slots = 1
  MaxChanges = 2
  MaxRetries = 1
INVARIANT ConfiguredBeforeSampling
INVARIANT BitsAccounted
INVARIANT ConfigInv
PROPERTY Settles
PROPERTY WorkModeReached
\* A configured lidar that stays connected asks for nothing more.
CHECK_DEADLOCK FALSE
