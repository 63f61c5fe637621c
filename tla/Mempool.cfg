SPECIFICATION FairSpec
CONSTANTS
  f = f
  c = c
  r = r
  d = d
  a = a
  b = b
  NoTx = NoTx
  Txids <- MCTxids
  Scripts = {a, b}
  Outputs <- MCOutputs
  Inputs <- MCInputs
  RecentCap = 2
  MaxMoves = 5
  MaxFailures = 1
INVARIANTS
  TypeOK
  IndexConsistent
  NoDoubleSpends
  ViewsExact
PROPERTIES
  IndexFollows
