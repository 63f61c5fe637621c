SPECIFICATION FairSpec
\* Clients may all have left, and none come back.
CHECK_DEADLOCK FALSE
CONSTANTS
  None = None
  Old = Old
  Sessions = {s1, s2}
  RestCalls = {r1}
  Callers <- MCCallers
  s1 = s1  s2 = s2  p1 = p1  p2 = p2
  PeersOf <- MCPeersOf
  Payloads <- MCPayloads
  Methods <- MCMethods
  LinesOf <- MCLinesOf
  ProtocolMin <- V14
  ProtocolMax <- V16
  Clock = {0}
  RecentLimit = 2
  MaxBatch = 2
  MaxInputs = 2
  MaxSessions = 2
INVARIANTS
  MonitorExact
  PushesPrivate
  AnswersMatch
  VersionAgreed
PROPERTIES
  PushesEnd
