\* A debug build; the server closes its side while main closes the session.
CONSTANTS
  Debug = TRUE
  kDefaultBufferSize = 1
  kPacketLengthSize = 1
  Base = 3
  Dialogue = 2
  RequestSize = 2
  ResultSize = 2
  kSocketBufferSize = 2
  SendRoom = 1
  Faults = {"close"}
SPECIFICATION Spec
CHECK_DEADLOCK FALSE
INVARIANT CloseAssertion
