SPECIFICATION FairSpec
CONSTANTS
  Conns = {1, 2, 3}
  MaxConnections = 2
  MaxQueries = 0
  MaxBody = 2
  MaxHeaders = 3
  Messages <- MCMessages
INVARIANTS
  Accounting
  FramingSafe
PROPERTIES
  WaitsEnd
  CheapAnswered
