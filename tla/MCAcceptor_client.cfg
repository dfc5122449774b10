\* One client has connected, nothing fails.
CONSTANTS
  Workers = {w1, w2}
  Slots = {s1}
  Clients = {c1}
  NoClient = NoClient
  Null = Null
  Completions <- AcceptCompletions
  UINT32 = 8
  Faults = {}
SPECIFICATION FairSpec
CHECK_DEADLOCK FALSE
PROPERTY CloseReturns
