SPECIFICATION Spec
CONSTANTS
  IntMod = 32
  PerSecond = 3
  Asked = {0, 1, 5}
  Sinks = {s1, s2, s3}
  FrameSize = 2
  Fragments = {1, 3}
  MaxReadable = 2
  Frame = 4
  Fragment = 3
  Ahead = 6
  Jitter = 3
  Late = 5
  MaxStarts = 3
INVARIANTS
  HostdEndsTruly LookupReturnsTheAnswer LockAndObjects PulseKeepsPace OnlyActiveLives
PROPERTIES
  StopsEnd PulseCallsReturn
CHECK_DEADLOCK FALSE
