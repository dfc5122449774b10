CONSTANTS
  Workers = {w1, w2}
  Payloads = {0, 1}
  HeaderLen = 4
  MaxBytes = 10
  Faults = {"partial"}
SPECIFICATION FairSpec
CHECK_DEADLOCK FALSE
PROPERTY AllSent
