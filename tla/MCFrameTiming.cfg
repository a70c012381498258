\* The highest frequency, 100 Hz.
SPECIFICATION TimingSpec
CONSTANTS
  Ratio = 150
  Interval = 1500
  Gaps <- Jitter
  Point = 1
  Starts <- AllStarts
INVARIANT FrameOnTime
INVARIANT TimingInv
