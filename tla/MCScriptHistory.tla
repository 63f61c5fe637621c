--------------------------- MODULE MCScriptHistory ---------------------------
(* ScriptHistory over four transactions (f and d pay script a; c and r both   *)
(* spend f's output, c paying b and r paying a again) and two competing tips: *)
(* r is mined in k2, d and c in k3, f in the block below.  By a collision of  *)
(* prefixes f is indexed under b too, so that b's references at k2 are the    *)
(* first of those at k3, and a's are not.                                     *)
EXTENDS ScriptHistory

CONSTANTS f, c, r, d, a, b, k1, k2, k3

MCTxids == {f, c, r, d}
MCOutputs == [t \in MCTxids |->
  CASE t = f -> {a} [] t = c -> {b} [] t = r -> {a} [] t = d -> {a}]
MCInputs == [t \in MCTxids |->
  CASE t = f -> {} [] t = c -> {<<f, a>>} [] t = r -> {<<f, a>>} [] t = d -> {}]

MCChain == [k \in {k2, k3} |->
  IF k = k2
    THEN << [block |-> k1, tx |-> f], [block |-> k2, tx |-> r] >>
    ELSE << [block |-> k1, tx |-> f], [block |-> k3, tx |-> d], [block |-> k3, tx |-> c] >>]

MCCollides == [s \in {a, b} |-> IF s = b THEN {f} ELSE {}]
==============================================================================
