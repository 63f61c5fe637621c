SPECIFICATION Spec

CONSTANTS
  f = f
  r = r
  c = c
  d = d
  y = y
  a = a
  b = b
  b1 = b1
  b2 = b2
  b3 = b3
  b4 = b4
  b5 = b5
  NoTx = NoTx
  Txids <- MCTxids
  Scripts = {a, b}
  Outputs <- MCOutputs
  Inputs <- MCInputs
  Blocks = {b1, b2, b3, b4, b5}
  BlockTxs <- MCBlockTxs
  Tips = {b1, b2, b3, b4, b5}
  Chain <- MCChain
  Amount <- MCAmount
  Collides <- MCCollides

INVARIANTS
  CacheExact
  SavedIsSnapshot
