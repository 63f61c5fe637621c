SPECIFICATION FairSpec
CONSTANTS
  f = f
  c = c
  r = r
  d = d
  a = a
  b = b
  k1 = k1
  k2 = k2
  k3 = k3
  NoTx = NoTx
  Txids <- MCTxids
  Scripts = {a, b}
  Outputs <- MCOutputs
  Inputs <- MCInputs
  Clients = {1, 2}
  Blocks = {k1, k2, k3}
  Tips = {k2, k3}
  Chain <- MCChain
  Collides <- MCCollides
  MaxRefs = 2
  REORG_RETRIES = 2
INVARIANTS
  HistoryExact
  CacheBounded
PROPERTIES
  QueriesEnd
