SPECIFICATION Spec
CONSTANTS
  tf = tf
  tc = tc
  td = td
  e0 = e0
  e1 = e1
  e2 = e2
  sa = sa
  sb = sb
  kg = kg
  k1 = k1
  k2 = k2
  j1 = j1
  NoTx = NoTx
  NoBlock = NoBlock
  Txids <- MCTxids
  Scripts = {sa, sb}
  Outputs <- MCOutputs
  Inputs <- MCInputs
  Blocks <- MCBlocks
  Path <- MCPath
  BlockTxs <- MCBlockTxs
  Order <- MCOrder
  Unpooled = {td, e0, e1, e2}
  CONF_FINAL = 1
  REORG_RETRIES = 2
  BlockLimit = 2
  PageLimit = 1
  UtxosLimit = 1
  HeadersLimit = 2
  Heights = {0, 1, 2}
  Counts = {0, 1, 2, 3}
  MaxMoves = 2
INVARIANTS
  NothingOverlooked
  AnswersGenuine
  ReadsCoherent
  UtxosExact
  WalksComplete
