CONSTANTS
  InitialSize = 8
  Strings <- MCStrings
  Numbers <- MCIntegers
  Structs <- MCStructs
  Elements <- MCElements
  AStruct <- MCAStruct
  OffsetField = 4
  MaxObjects = 3
  MaxBuffers = 2
SPECIFICATION Spec
CHECK_DEADLOCK FALSE
INVARIANTS MemoryKept ObjectsReadBack FinishedIsSound SharedOnce
