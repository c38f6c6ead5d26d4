SPECIFICATION PartsSpec
CONSTANTS
  MaxStarts = 3
  Endpoints = {e1, e2, e3}
  ByteBits = 2
  \* A rate the output's is not a multiple of, and a late thread.
  Frame = 4
  Period = 2
  In = 2
  Out = 3
  Jitter = 2
  Late = 5
INVARIANTS
  ComBalanced FailureHoldsNothing StartedIsComplete
  ListIsTrue ConversionKeepsSound WasapiKeepsPace
CHECK_DEADLOCK FALSE
