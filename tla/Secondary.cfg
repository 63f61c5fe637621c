SPECIFICATION SFairSpec
CONSTANTS
  g = g
  a1 = a1
  a2 = a2
  b1 = b1
  b2 = b2
  b3 = b3
  p = p
  q = q
  NoBlock = NoBlock
  Blocks <- MCBlocks
  Path <- MCPath
  Txs <- MCTxs
  Prefixes = {p, q}
  Liquid = FALSE
  CHUNK_SIZE = 2
  Limit = 2
  MaxTxNum = 9
  RetryInProcess = FALSE
  MaxMoves = 3
  MaxFaults = 2
INVARIANTS
  LookupsResolve
  SecondaryInSync
PROPERTIES
  ImplementsIndexLog
  SecondaryCatchesUp
