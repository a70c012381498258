\* Two lidars over several intervals, changing between the two clocks.
SPECIFICATION FairSpec
CONSTANTS
  Lidars = {l1, l2}
  NoPacket = NoPacket
  Ratio = 1
  Interval = 2
  Syncs = {TRUE, FALSE}
  Skew = 1
  MaxPackets = 2
  MaxTime = 4
INVARIANT StreamIntact
INVARIANT PubInv
PROPERTY StreamRefined
PROPERTY Drained
PROPERTY QuitEnds
\* The processing thread ends when the driver stops.
CHECK_DEADLOCK FALSE
