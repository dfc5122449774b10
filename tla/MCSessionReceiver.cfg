\* Every failure; at most three shortages.
CONSTANTS
  Workers = {w1, w2}
  NoWorker = NoWorker
  kSocketBufferSize = 2
  MaxBytes = 4
  MaxShortages = 3
  Faults = {"completion", "recv", "arm", "accept", "close", "reset"}
SPECIFICATION FairSpec
CHECK_DEADLOCK FALSE
INVARIANTS TypeOK SingleReceive FlagMatches
PROPERTIES StreamSpec AllRead
