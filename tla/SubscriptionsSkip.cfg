SPECIFICATION Spec
CONSTANTS
  f = f
  c = c
  a = a
  b = b
  k1 = k1
  k2 = k2
  k3 = k3
  NoTx = NoTx
  NoTip = NoTip
  Txids <- MCTxids
  Scripts = {a, b, z}
  z = z
  Outputs <- MCOutputs
  Inputs <- MCInputs
  Tips <- MCTips
  Height <- MCHeight
  Follows <- MCFollows
  MaxSubscriptions = 2
  MaxPolls = 1
  MaxFailures = 0
INVARIANTS
  StatusAlwaysCurrent
