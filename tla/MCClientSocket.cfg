\* A release build, and everything that may befall the connection.
CONSTANTS
  Debug = FALSE
  kDefaultBufferSize = 1
  kPacketLengthSize = 1
  Base = 3
  Dialogue = 2
  RequestSize = 2
  ResultSize = 2
  kSocketBufferSize = 2
  SendRoom = 1
  Faults = {"connect", "refused", "close", "reset"}
SPECIFICATION FairSpec
INVARIANTS TypeOK RequestsInOrder ResultsInOrder SurvivesWhileConnected
PROPERTIES DialogueCompletes ShutdownCompletes
CHECK_DEADLOCK FALSE
