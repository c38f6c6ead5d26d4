SPECIFICATION PartsSpec
CONSTANTS
  Objects = {a, b, c}
  Fds = {f1, f2, f3}
  Ports = {1, 2}
  Invalid = Invalid
  Base = 2
  \* A datagram may be one byte longer than the receive buffer.
  MaxDatagram = 31
  ReceiveBuffer = 30
  Samples = {0, 1}
  MaxPayload = 3
  Filtered = FALSE
  Window = 2
  High = 2
  Low = 1
  Second = 6
  LowTime = 12
  MinSteady = 2
  SteadyTarget = 2
  MaxSteady = 4
  Poll = 2
  MaxInterval = 4
INVARIANTS OneOwner PortIsOwn PacketIsExact
PROPERTIES ShrinksWhenCalm Adapts
CHECK_DEADLOCK FALSE
