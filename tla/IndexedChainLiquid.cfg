SPECIFICATION Spec
CONSTANTS
  g = g
  a1 = a1
  a2 = a2
  b1 = b1
  b2 = b2
  b3 = b3
  p = p
  q = q
  NoBlock = NoBlock
  Blocks <- MCBlocks
  Path <- MCPath
  Txs <- MCTxsLiquid
  Prefixes = {p, q}
  Liquid = TRUE
  CHUNK_SIZE = 2
  Limit = 1
  MaxTxNum = 3
  RetryInProcess = FALSE
  MaxMoves = 4
  MaxFaults = 3
INVARIANTS
  TypeOK
  StoreInSync
  DiskIsAChain
  LookupsResolve
  BatchLinks
