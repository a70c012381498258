\* Safety, refinement and liveness of the ring of one lidar.
SPECIFICATION FairSpec
CONSTANTS
  NoPacket = NoPacket
  Packets = {p1, p2}
  QueueSize = 4
  IndexModulus = 8
INVARIANT SlotExclusive
INVARIANT QueueInv
PROPERTY ImplementsChannel
PROPERTY OldestPopped
