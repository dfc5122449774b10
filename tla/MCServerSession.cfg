\* Each call of OnReceivePacket gets bytes of one packet.
CONSTANTS
  kDefaultBufferSize = 3
  kPacketLengthSize = 2
  Base = 3
  Requests = {"LoginRequest"}
  Other = "NONE"
  Payloads = {0, 4}
  MaxPackets = 3
  kSocketBufferSize = 3
  Coalescing = FALSE
SPECIFICATION FairSpec
CHECK_DEADLOCK FALSE
INVARIANTS TypeOK WithinBuffer HoldsNextPacket HandledInOrder
PROPERTY AllHandled
