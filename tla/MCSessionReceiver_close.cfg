\* The peer closes its side.
CONSTANTS
  Workers = {w1, w2}
  NoWorker = NoWorker
  kSocketBufferSize = 2
  MaxBytes = 2
  MaxShortages = 0
  Faults = {"close"}
SPECIFICATION Spec
CHECK_DEADLOCK FALSE
INVARIANT SilentAfterDisconnect
