\* Every failure may happen; up to four packets.
CONSTANTS
  Workers = {w1, w2, w3}
  Payloads = {0, 1}
  HeaderLen = 4
  MaxBytes = 18
  Faults = {"partial", "transient", "post", "reset"}
SPECIFICATION FairSpec
CHECK_DEADLOCK FALSE
INVARIANTS TypeOK SingleOutstanding InOrder BuffersAlive ResumesWhereWireEnds IInv
PROPERTIES StreamSpec QueueIsSignalled SentUnlessStranded
