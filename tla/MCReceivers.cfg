SPECIFICATION PartsSpec
CONSTANTS
  MaxCalls = 6
  MaxTaps = 4
  Seconds = 7
  Interval = 3
  Poll = 2
  MaxFrames = 2
  Requested = 3
  IndexMod = 8
  FrameSamples = 4
  Asks = {2, 4}
  SampleNumbers = 8
INVARIANTS
  ReceiverTypes NeverAborts StoppedHoldsNothing ClientdEndsCleanly RingChannelsInStep
PROPERTIES
  CallsReturn RingRefinesFifo
CHECK_DEADLOCK FALSE
