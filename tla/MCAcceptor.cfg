\* Every failure may happen.
CONSTANTS
  Workers = {w1, w2}
  Slots = {s1, s2}
  Clients = {c1, c2}
  NoClient = NoClient
  Null = Null
  Completions <- AcceptCompletions
  UINT32 = 8
  Faults = {"create", "bind", "socket", "attach", "acceptex", "error", "accept", "repost"}
SPECIFICATION FairSpec
CHECK_DEADLOCK FALSE
INVARIANTS TypeOK NoCallbackAfterReset SingleAccept SessionsKept
PROPERTIES EveryClientTaken CloseReturnsWithoutSessions
