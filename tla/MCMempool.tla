----------------------------- MODULE MCMempool -----------------------------
(* Mempool over four transactions: f pays script a; c and r both spend that *)
(* output, c paying b and r paying a again; d spends c's output, paying a.  *)
EXTENDS Mempool

CONSTANTS f, c, r, d, a, b

MCTxids == {f, c, r, d}

MCOutputs == [t \in MCTxids |->
  CASE t = f -> {a} [] t = c -> {b} [] t = r -> {a} [] t = d -> {a}]

MCInputs == [t \in MCTxids |->
  CASE t = f -> {} [] t = c -> {<<f, a>>} [] t = r -> {<<f, a>>} [] t = d -> {<<c, b>>}]
==============================================================================
