\* One call of OnReceivePacket may get bytes of two packets.
CONSTANTS
  kDefaultBufferSize = 3
  kPacketLengthSize = 2
  Base = 3
  Requests = {"LoginRequest", "LogoutRequest"}
  Other = "NONE"
  Payloads = {0, 1, 4}
  MaxPackets = 2
  kSocketBufferSize = 4
  Coalescing = TRUE
SPECIFICATION Spec
CHECK_DEADLOCK FALSE
INVARIANT HoldsNextPacket
